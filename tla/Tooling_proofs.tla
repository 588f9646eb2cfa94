--------------------------- MODULE Tooling_proofs ---------------------------
(***************************************************************************)
(* What the tooling run keeps: it moves each of its parts by the part's    *)
(* own steps, so that what SkillScripts_proofs and ProjectScripts_proofs   *)
(* show of the parts holds of the run.                                     *)
(***************************************************************************)
EXTENDS MCTooling, SkillScripts_proofs, ProjectScripts_proofs

(***************************************************************************)
(* The tooling run moves a part by the part's own steps, or leaves it.     *)
(***************************************************************************)
LEMMA ToolingMovesSprint == ToolingSpec => SprintSpec
<1>1. Init => SprintInit
  BY DEF Init
<1>2. [Next]_toolVars => [SprintNext]_sprintVars
  BY DEF Next, toolVars, sprintVars, OthersRest, StoriesStep, HooksStep, PolicyStep, SprintStep, InstallStep, AgentsStep,
    LogStep, EvalsStep, LayoutStep, CommandsStep, RenderStep, LoopStep, RelayStep, RootsStep, RosterStep, CatalogStep
<1> QED BY <1>1, <1>2, PTL DEF ToolingSpec, SprintSpec

LEMMA ToolingMovesInstall == ToolingSpec => InstallSpec
<1>1. Init => InstallInit
  BY DEF Init
<1>2. [Next]_toolVars => [InstallNext]_installVars
  BY DEF Next, toolVars, installVars, OthersRest, StoriesStep, HooksStep, PolicyStep, SprintStep, InstallStep, AgentsStep,
    LogStep, EvalsStep, LayoutStep, CommandsStep, RenderStep, LoopStep, RelayStep, RootsStep, RosterStep, CatalogStep
<1> QED BY <1>1, <1>2, PTL DEF ToolingSpec, InstallSpec

LEMMA ToolingMovesLog == ToolingSpec => LogSpec
<1>1. Init => LogInit
  BY DEF Init
<1>2. [Next]_toolVars => [LogNext]_logVars
  BY DEF Next, toolVars, logVars, OthersRest, StoriesStep, HooksStep, PolicyStep, SprintStep, InstallStep, AgentsStep,
    LogStep, EvalsStep, LayoutStep, CommandsStep, RenderStep, LoopStep, RelayStep, RootsStep, RosterStep, CatalogStep
<1> QED BY <1>1, <1>2, PTL DEF ToolingSpec, LogSpec

LEMMA ToolingMovesRender == ToolingSpec => RenderSpec
<1>1. Init => RenderInit
  BY DEF Init
<1>2. [Next]_toolVars => [RenderNext]_renderVars
  BY DEF Next, toolVars, renderVars, OthersRest, StoriesStep, HooksStep, PolicyStep, SprintStep, InstallStep, AgentsStep,
    LogStep, EvalsStep, LayoutStep, CommandsStep, RenderStep, LoopStep, RelayStep, RootsStep, RosterStep, CatalogStep
<1> QED BY <1>1, <1>2, PTL DEF ToolingSpec, RenderSpec

LEMMA ToolingMovesRelay == ToolingSpec => RelaySpec
<1>1. Init => RelayInit
  BY DEF Init
<1>2. [Next]_toolVars => [RelayNext]_relayVars
  BY DEF Next, toolVars, relayVars, OthersRest, StoriesStep, HooksStep, PolicyStep, SprintStep, InstallStep, AgentsStep,
    LogStep, EvalsStep, LayoutStep, CommandsStep, RenderStep, LoopStep, RelayStep, RootsStep, RosterStep, CatalogStep
<1> QED BY <1>1, <1>2, PTL DEF ToolingSpec, RelaySpec

LEMMA ToolingMovesPolicy == ToolingSpec => PolicySpec
<1>1. Init => PolicyInit
  BY DEF Init
<1>2. [Next]_toolVars => [PolicyNext]_policyVars
  BY DEF Next, toolVars, policyVars, OthersRest, StoriesStep, HooksStep, PolicyStep, SprintStep, InstallStep, AgentsStep,
    LogStep, EvalsStep, LayoutStep, CommandsStep, RenderStep, LoopStep, RelayStep, RootsStep, RosterStep, CatalogStep
<1> QED BY <1>1, <1>2, PTL DEF ToolingSpec, PolicySpec

LEMMA ToolingMovesLoop == ToolingSpec => LoopSpec
<1>1. Init => LoopInit
  BY DEF Init
<1>2. [Next]_toolVars => [LoopNext]_loopVars
  BY DEF Next, toolVars, loopVars, OthersRest, StoriesStep, HooksStep, PolicyStep, SprintStep, InstallStep, AgentsStep,
    LogStep, EvalsStep, LayoutStep, CommandsStep, RenderStep, LoopStep, RelayStep, RootsStep, RosterStep, CatalogStep
<1> QED BY <1>1, <1>2, PTL DEF ToolingSpec, LoopSpec

LEMMA ToolingMovesRoot == ToolingSpec => RootSpec
<1>1. Init => RootInit
  BY DEF Init
<1>2. [Next]_toolVars => [RootNext]_rootVars
  BY DEF Next, toolVars, rootVars, OthersRest, StoriesStep, HooksStep, PolicyStep, SprintStep, InstallStep, AgentsStep,
    LogStep, EvalsStep, LayoutStep, CommandsStep, RenderStep, LoopStep, RelayStep, RootsStep, RosterStep, CatalogStep
<1> QED BY <1>1, <1>2, PTL DEF ToolingSpec, RootSpec

LEMMA ToolingMovesEvals == ToolingSpec => EvalSpec
<1>1. Init => EvalInit
  BY DEF Init
<1>2. [Next]_toolVars => [EvalNext]_evalVars
  BY DEF Next, toolVars, evalVars, OthersRest, StoriesStep, HooksStep, PolicyStep, SprintStep, InstallStep, AgentsStep,
    LogStep, EvalsStep, LayoutStep, CommandsStep, RenderStep, LoopStep, RelayStep, RootsStep, RosterStep, CatalogStep
<1> QED BY <1>1, <1>2, PTL DEF ToolingSpec, EvalSpec

LEMMA ToolingMovesCatalog == ToolingSpec => CatalogSpec
<1>1. Init => CatalogInit
  BY DEF Init
<1>2. [Next]_toolVars => [CatalogNext]_catalogVars
  BY DEF Next, toolVars, catalogVars, OthersRest, StoriesStep, HooksStep, PolicyStep, SprintStep, InstallStep, AgentsStep,
    LogStep, EvalsStep, LayoutStep, CommandsStep, RenderStep, LoopStep, RelayStep, RootsStep, RosterStep, CatalogStep
<1> QED BY <1>1, <1>2, PTL DEF ToolingSpec, CatalogSpec

LEMMA SprintInvariant == SprintSpec => []SprintInv
BY SprintInit_Inv, SprintStepInv, PTL DEF SprintSpec

\* A run of generate or update that nobody disturbed leaves a file with the progress and
\* the action items it found, or the old file; what generate writes is what its readers
\* accept of the keys that they recognize (sprint_plan.py, sprint_status.py).
THEOREM SprintFileIsKeptHolds == ToolingSpec => []SprintFileIsKept
<1>1. SprintInv => SprintFileIsKept
  BY SprintInvImplies DEF SprintFileIsKept
<1> QED BY <1>1, ToolingMovesSprint, SprintInvariant, PTL

LEMMA InstallInvariant == InstallSpec => []InstallInv
BY InstallInit_Inv, InstallStepInv, PTL DEF InstallSpec

LEMMA MigrationIsKept == InstallSpec => MigratedBeforeDeleted
<1>1. InstallInv /\ [InstallNext]_installVars => [Migrated]_installVars
  BY MigratedStep
<1> QED BY <1>1, InstallInvariant, PTL DEF InstallSpec, MigratedBeforeDeleted, Migrated

LEMMA ModulesAreKept == InstallSpec => OtherModulesAreKept
<1>1. InstallInv /\ [InstallNext]_installVars => [OthersStay]_installVars
  BY OthersStayStep
<1> QED BY <1>1, InstallInvariant, PTL DEF InstallSpec, OtherModulesAreKept, OthersStay

LEMMA LogIsKept == SingleWriter /\ LogSpec => LogIsAppendOnly
<1> DEFINE Appends == LogExists => names'.log # 0 /\ IsPrefix(LogFile.entries, disk'[names'.log].entries)
       OneWrites == SingleWriter /\ LogInv
<1>1. SingleWriter /\ LogInit => OneWrites
  BY LogInit_Inv
<1>2. OneWrites /\ [LogNext]_logVars => OneWrites'
  BY LogStepFacts DEF SingleWriter
<1>3. OneWrites /\ [LogNext]_logVars => [Appends]_logVars
  BY LogStepFacts
<1> HIDE DEF Appends, OneWrites
<1>4. SingleWriter /\ LogSpec => [][Appends]_logVars
  BY <1>1, <1>2, <1>3, PTL DEF LogSpec
<1> QED BY <1>4 DEF LogIsAppendOnly, Appends

LEMMA SnapshotsAreKept == RenderSpec => SnapshotsAreImmutable
<1> DEFINE Stay == \A name \in DOMAIN snapshots : name \in DOMAIN snapshots' /\ (~tampered' => snapshots'[name] = snapshots[name])
<1>1. [RenderNext]_renderVars => [Stay]_renderVars
  BY SnapshotsStep
<1> QED BY <1>1, PTL DEF RenderSpec, SnapshotsAreImmutable

\* No step of the scripts loses a file that was promised to stay: an entry of a log with
\* one writer, a rendered snapshot, the settings of an old file, what another module set
\* up, a published event.
THEOREM FilesAreKeptHolds == SingleWriter /\ ToolingSpec => FilesAreKept
<1>1. ToolingSpec => InstallSpec /\ LogSpec /\ RenderSpec /\ RelaySpec
  BY ToolingMovesInstall, ToolingMovesLog, ToolingMovesRender, ToolingMovesRelay
<1>2. InstallSpec => MigratedBeforeDeleted /\ OtherModulesAreKept
  BY MigrationIsKept, ModulesAreKept
<1> QED BY <1>1, <1>2, LogIsKept, SnapshotsAreKept, PublishedStays DEF FilesAreKept

LEMMA ToolingMovesCommands == ToolingSpec => OrchestrationInit /\ [][OrchestrationNext]_orchestrationVars
<1>1. Init => OrchestrationInit
  BY DEF Init
<1>2. [Next]_toolVars => [OrchestrationNext]_orchestrationVars
  BY DEF Next, toolVars, orchestrationVars, OthersRest, StoriesStep, HooksStep, PolicyStep, SprintStep, InstallStep, AgentsStep,
    LogStep, EvalsStep, LayoutStep, CommandsStep, RenderStep, LoopStep, RelayStep, RootsStep, RosterStep, CatalogStep
<1> QED BY <1>1, <1>2, PTL DEF ToolingSpec

\* A command that loads the policy of a pinned run gets the policy the run was started with,
\* whatever is edited meanwhile; from a document that a custom instruction has cut short it
\* gets the bundled policy (load_runtime_policy, build-state-doc).
THEOREM LoadedIsPinnedHolds == ToolingSpec => []LoadedIsPinned
<1>1. PolicyInv => LoadedIsPinned
  BY DEF PolicyInv, LoadedInv
<1> QED BY <1>1, PolicyInit_Inv, PolicyStepInv, ToolingMovesPolicy, PTL DEF PolicySpec

\* A command that names no document never follows the layers of the day while an environment
\* or a marker says that a run is active, whatever the documents hold (load_runtime_policy).
THEOREM ActiveRunIsFollowedHolds == ToolingSpec => ActiveRunIsFollowed
<1> DEFINE Follows == (\E full \in BOOLEAN : Load(Nowhere, full)) /\ (envState # Nowhere \/ marker # Nowhere)
                        => loaded'.source # "effective"
<1>1. RunIsNamed /\ [PolicyNext]_policyVars => [Follows]_policyVars
  BY FollowsStep
<1> HIDE DEF Follows
<1>2. PolicySpec => [][Follows]_policyVars
  BY <1>1, RunIsNamedInit, RunStaysNamed, PTL DEF PolicySpec
<1> QED BY <1>2, ToolingMovesPolicy DEF ActiveRunIsFollowed, Follows

\* A renderer that is done names a snapshot that holds exactly what its inputs render to,
\* whoever published it and whatever was upgraded, edited or tampered with meanwhile
\* (render_skill.py: verify the existing generation, rename the staged one).
THEOREM AnnouncedIsWhatWasReadHolds == ToolingSpec => AnnouncedIsWhatWasRead
<1> DEFINE Named == \A r \in Renderers : NamesWhatItRead(r)
<1>1. RenderersAre /\ [RenderNext]_renderVars => RenderersAre' /\ [Named]_renderVars
  BY RenderStepNames
<1>2. [Named]_renderVars => [\A r \in Renderers : At(r, "done")' /\ ~At(r, "done") =>
         /\ Identity(renderer[r]) \in DOMAIN snapshots'
         /\ snapshots'[Identity(renderer[r])].outputs = Outputs(renderer[r])]_renderVars
  BY DEF NamesWhatItRead
<1> HIDE DEF Named
<1> QED BY <1>1, <1>2, RenderInit_Are, ToolingMovesRender, PTL DEF RenderSpec, AnnouncedIsWhatWasRead

LEMMA CommandsInvariant == ToolingSpec => []CommandsInv
BY CommandsInit_Inv, CommandsStepInv, ToolingMovesCommands, PTL

\* What the orchestrator's commands answer is so and where they look is where the others
\* look: a completed session was verified, a commit holds the work it was asked to commit, a
\* held stop has a run, a created story exists once, and markers, installs, portable paths
\* and project roots are those of the project (tmux.py, basic.py, runtime_layout.py,
\* resolve_customization.py).
THEOREM CommandsAreTruthfulHolds == ASSUME OneFileExpected PROVE ToolingSpec => []CommandsAreTruthful
<1>1. ToolingSpec => [](CompletedIsVerified /\ CommitHoldsTheWork /\ HeldStopHasARun)
  BY CommandsInvariant, CommandsInvImplies, PTL
<1>2. ToolingSpec => [](CreatedOnce /\ FinishedIsCommitted)
  <2>1. LoopSpec => []CreatedOnce
    BY CreatedOnceHolds
  <2> QED BY <2>1, Finished, ToolingMovesLoop, PTL
<1>3. ToolingSpec => []WorkingProjectWins
  BY RootInit_Inv, RootStepInv, ToolingMovesRoot, PTL DEF RootSpec
<1>4. MarkerIsShared /\ OwnInstallIsUsed /\ PortablePathsAgree
  BY MarkersAgree, InstallIsOwn, PathsAgree
<1>5. (CompletedIsVerified /\ CommitHoldsTheWork /\ HeldStopHasARun) /\ (CreatedOnce /\ FinishedIsCommitted) /\ WorkingProjectWins
        => CommandsAreTruthful
  BY <1>4 DEF CommandsAreTruthful
<1> QED BY <1>1, <1>2, <1>3, <1>5, PTL

\* With one writer of the log, an answered entry stays in the log.
LEMMA AckedIsKept == SingleWriter /\ LogSpec => []AckedEntriesStay
<1> DEFINE OneWrites == SingleWriter /\ LogInv /\ AckInv
<1>1. SingleWriter /\ LogInit => OneWrites
  BY LogInit_Inv, AckInit_Inv
<1>2. OneWrites /\ [LogNext]_logVars => OneWrites'
  BY LogStepFacts, AckStepInv DEF SingleWriter
<1>3. OneWrites => AckedEntriesStay
  BY AckInvImplies
<1> HIDE DEF OneWrites
<1> QED BY <1>1, <1>2, <1>3, PTL DEF LogSpec

\* What the runners count and observe is what ran.
LEMMA EvalsAreCounted == EvalSpec => [](SummaryCountsEveryJob /\ FiringIsObserved)
BY EvalInit_Inv, EvalStepInv, EvalInvImplies, PTL DEF EvalSpec

\* A skill is rendered with all its review layers, or there is a cause.
LEMMA RenderedOrCaused == RenderSpec => [](HaltHasACause /\ ReviewLayersAreKept)
BY RenderInit_Inv, RenderStepInv, RenderInvImplies, PTL DEF RenderSpec

LEMMA DrawsAreDiverse == CatalogSpec => [](DrawIsDiverse /\ NothingIsOfferedTwice)
BY CatalogInit_Inv, CatalogStepInv, DrawInvImplies, PTL DEF CatalogSpec

\* What the skills' scripts put out is what happened: an answered log entry stays in a log
\* with one writer, a summary counts every job and the directory of a job says what became of
\* a case of it, a skill keeps the review layers that no layer flattens and halts only for a
\* reason, an event is read whole, and a draw is diverse and offers nothing twice (memlog.py,
\* run_evals.py, run_triggers.py, render_skill.py, bmad_loop_hook.py, pick_methods.py).
THEOREM OutputsAreWhatHappenedHolds == SingleWriter /\ ToolingSpec => []OutputsAreWhatHappened
<1>1. SingleWriter /\ ToolingSpec => []AckedEntriesStay
  BY ToolingMovesLog, AckedIsKept
<1>2. ToolingSpec => [](SummaryCountsEveryJob /\ FiringIsObserved)
  BY ToolingMovesEvals, EvalsAreCounted
<1>3. ToolingSpec => [](HaltHasACause /\ ReviewLayersAreKept)
  BY ToolingMovesRender, RenderedOrCaused
<1>4. ToolingSpec => []ConsumedIsWhole /\ []NoEventIsRedirected
  BY ToolingMovesRelay, ConsumedWhole, NotRedirected
<1>5. ToolingSpec => [](DrawIsDiverse /\ NothingIsOfferedTwice)
  BY ToolingMovesCatalog, DrawsAreDiverse
<1>6. ASSUME AckedEntriesStay, SummaryCountsEveryJob /\ FiringIsObserved, HaltHasACause /\ ReviewLayersAreKept,
             ConsumedIsWhole, NoEventIsRedirected, DrawIsDiverse /\ NothingIsOfferedTwice
      PROVE  OutputsAreWhatHappened
  BY <1>6 DEF OutputsAreWhatHappened
<1> QED BY <1>1, <1>2, <1>3, <1>4, <1>5, <1>6, PTL

LEMMA ToolingMovesStories == ToolingSpec => EpicRunSpec
<1>1. Init => EpicRunInit
  BY DEF Init
<1>2. [Next]_toolVars => [EpicRunNext]_epicRunVars
  BY DEF Next, toolVars, epicRunVars, OthersRest, StoriesStep, HooksStep, PolicyStep, SprintStep, InstallStep, AgentsStep,
    LogStep, EvalsStep, LayoutStep, CommandsStep, RenderStep, LoopStep, RelayStep, RootsStep, RosterStep, CatalogStep
<1> QED BY <1>1, <1>2, PTL DEF ToolingSpec, EpicRunSpec

\* The keys that a run completes, the status it reads and the stories it reviews are those
\* of the story it was given, whatever rows, headings and epic files the project has and
\* whoever adds to them meanwhile (story_keys.py, epic_parser.py, sprint.py).
THEOREM StoriesAreKnownHolds == ToolingSpec => []StoriesAreKnown
<1>1. CompletedKeyIsOfTheStory /\ StatusIsOfTheStory /\ ReviewReadsTheStory => StoriesAreKnown
  BY DEF StoriesAreKnown
<1> QED BY <1>1, ToolingMovesStories, StoriesAreNamed, PTL

\* No step acts on something else than it says: a command without a document follows the
\* active run, a retrospective closes an epic whose stories in the range are all done, a
\* renderer names what it read, and no loop passes a policy it cannot read.
THEOREM StepsAreGroundedHolds == ToolingSpec => StepsAreGrounded
<1>1. ToolingSpec => ActiveRunIsFollowed /\ AnnouncedIsWhatWasRead
  BY ActiveRunIsFollowedHolds, AnnouncedIsWhatWasReadHolds
<1>2. ToolingSpec => RetroMeansDone
  BY ToolingMovesStories, RetroIsLast
<1>3. ToolingSpec => UnreadablePolicyStops
  BY ToolingMovesLoop, UnreadableStops
<1> QED BY <1>1, <1>2, <1>3 DEF StepsAreGrounded
-----------------------------------------------------------------------------
LEMMA ToolingMovesHooks == ToolingSpec => HooksSpec
<1>1. Init => HooksInit
  BY DEF Init
<1>2. [Next]_toolVars => [HooksNext]_hookVars
  BY DEF Next, toolVars, hookVars, OthersRest, StoriesStep, HooksStep, PolicyStep, SprintStep, InstallStep, AgentsStep,
    LogStep, EvalsStep, LayoutStep, CommandsStep, RenderStep, LoopStep, RelayStep, RootsStep, RosterStep, CatalogStep
<1> QED BY <1>1, <1>2, PTL DEF ToolingSpec, HooksSpec

LEMMA ToolingMovesAgents == ToolingSpec => AgentSpec
<1>1. Init => AgentInit
  BY DEF Init
<1>2. [Next]_toolVars => [AgentNext]_agentVars
  BY DEF Next, toolVars, agentVars, OthersRest, StoriesStep, HooksStep, PolicyStep, SprintStep, InstallStep, AgentsStep,
    LogStep, EvalsStep, LayoutStep, CommandsStep, RenderStep, LoopStep, RelayStep, RootsStep, RosterStep, CatalogStep
<1> QED BY <1>1, <1>2, PTL DEF ToolingSpec, AgentSpec

LEMMA ToolingMovesLayout == ToolingSpec => LayoutSpec
<1>1. Init => LayoutInit
  BY DEF Init
<1>2. [Next]_toolVars => [LayoutNext]_layoutVars
  BY DEF Next, toolVars, layoutVars, OthersRest, StoriesStep, HooksStep, PolicyStep, SprintStep, InstallStep, AgentsStep,
    LogStep, EvalsStep, LayoutStep, CommandsStep, RenderStep, LoopStep, RelayStep, RootsStep, RosterStep, CatalogStep
<1> QED BY <1>1, <1>2, PTL DEF ToolingSpec, LayoutSpec

LEMMA ToolingMovesRoster == ToolingSpec => RosterSpec
<1>1. Init => RosterInit
  BY DEF Init
<1>2. [Next]_toolVars => [RosterNext]_rosterVars
  BY DEF Next, toolVars, rosterVars, OthersRest, StoriesStep, HooksStep, PolicyStep, SprintStep, InstallStep, AgentsStep,
    LogStep, EvalsStep, LayoutStep, CommandsStep, RenderStep, LoopStep, RelayStep, RootsStep, RosterStep, CatalogStep
<1> QED BY <1>1, <1>2, PTL DEF ToolingSpec, RosterSpec

LEMMA ToolingTypesSkills ==
  ToolingSpec => [](EpicRunTypeOK /\ AgentTypeOK /\ LogTypeOK /\ EvalTypeOK /\ RenderTypeOK /\ LoopTypeOK /\ RelayTypeOK /\ CatalogTypeOK)
<1>1. ToolingSpec => []EpicRunTypeOK
  <2>1. EpicRunTypeInv => EpicRunTypeOK
    BY DEF EpicRunTypeInv
  <2> QED BY <2>1, EpicRunInit_Types, EpicRunStepTypes, ToolingMovesStories, PTL DEF EpicRunSpec
<1>2. ToolingSpec => []AgentTypeOK
  BY AgentInit_Types, AgentStepTypes, ToolingMovesAgents, PTL DEF AgentSpec
<1>3. ToolingSpec => []LogTypeOK
  BY LogInit_Types, LogStepTypes, LogTypesImply, ToolingMovesLog, PTL DEF LogSpec
<1>4. ToolingSpec => []EvalTypeOK
  <2>1. EvalTypeInv => EvalTypeOK
    BY DEF EvalTypeInv
  <2> QED BY <2>1, EvalInit_Types, EvalStepTypes, ToolingMovesEvals, PTL DEF EvalSpec
<1>5. ToolingSpec => []RenderTypeOK
  <2>1. RenderTypeInv => RenderTypeOK
    BY DEF RenderTypeInv
  <2> QED BY <2>1, RenderInit_Types, RenderStepTypes, ToolingMovesRender, PTL DEF RenderSpec
<1>6. ToolingSpec => []LoopTypeOK
  BY ToolingMovesLoop, LoopTypes, PTL
<1>7. ToolingSpec => []RelayTypeOK
  BY ToolingMovesRelay, RelayTypes, PTL
<1>8. ToolingSpec => []CatalogTypeOK
  BY CatalogInit_Types, CatalogStepTypes, CatalogTypesImply, ToolingMovesCatalog, PTL DEF CatalogSpec
<1> QED BY <1>1, <1>2, <1>3, <1>4, <1>5, <1>6, <1>7, <1>8, PTL

LEMMA ToolingTypesFiles ==
  ToolingSpec => [](HooksTypeOK /\ PolicyTypeOK /\ SprintTypeOK /\ InstallTypeOK /\ LayoutTypeOK /\ OrchestrationTypeOK /\ RootTypeOK /\ RosterTypeOK)
<1>1. ToolingSpec => []HooksTypeOK
  <2>1. HooksTypeInv => HooksTypeOK
    BY DEF HooksTypeInv
  <2> QED BY <2>1, HooksInit_Types, HooksStepTypes, ToolingMovesHooks, PTL DEF HooksSpec
<1>2. ToolingSpec => []PolicyTypeOK
  <2>1. PolicyTypeInv => PolicyTypeOK
    BY DEF PolicyTypeInv
  <2> QED BY <2>1, PolicyInit_Types, PolicyStepTypes, ToolingMovesPolicy, PTL DEF PolicySpec
<1>3. ToolingSpec => []SprintTypeOK
  BY SprintInit_Types, SprintStepTypes, SprintTypesImply, ToolingMovesSprint, PTL DEF SprintSpec
<1>4. ToolingSpec => []InstallTypeOK
  <2>1. InstallTypeInv => InstallTypeOK
    BY DEF InstallTypeInv
  <2> QED BY <2>1, InstallInit_Types, InstallStepTypes, ToolingMovesInstall, PTL DEF InstallSpec
<1>5. ToolingSpec => []LayoutTypeOK
  BY LayoutInit_Types, LayoutStepTypes, ToolingMovesLayout, PTL DEF LayoutSpec
<1>6. ToolingSpec => []OrchestrationTypeOK
  <2>1. CommandsTypeInv => OrchestrationTypeOK
    BY DEF CommandsTypeInv
  <2> QED BY <2>1, CommandsInit_Types, CommandsStepTypes, ToolingMovesCommands, PTL
<1>7. ToolingSpec => []RootTypeOK
  <2>1. RootTypeInv => RootTypeOK
    BY DEF RootTypeInv
  <2> QED BY <2>1, RootInit_Types, RootStepTypes, ToolingMovesRoot, PTL DEF RootSpec
<1>8. ToolingSpec => []RosterTypeOK
  BY ToolingMovesRoster, RosterTypes, PTL
<1> QED BY <1>1, <1>2, <1>3, <1>4, <1>5, <1>6, <1>7, <1>8, PTL

\* Every file, every state of a process and every answer of the sixteen parts has its type,
\* whatever keys, settings, documents, modules, agents, jobs, cards and rows there are.
THEOREM ToolsTypeOKHolds == ToolingSpec => []ToolsTypeOK
<1>1. (EpicRunTypeOK /\ AgentTypeOK /\ LogTypeOK /\ EvalTypeOK /\ RenderTypeOK /\ LoopTypeOK /\ RelayTypeOK /\ CatalogTypeOK)
      /\ (HooksTypeOK /\ PolicyTypeOK /\ SprintTypeOK /\ InstallTypeOK /\ LayoutTypeOK /\ OrchestrationTypeOK /\ RootTypeOK /\ RosterTypeOK)
      => ToolsTypeOK
  BY Zenon DEF ToolsTypeOK
<1> QED BY <1>1, ToolingTypesSkills, ToolingTypesFiles, PTL

\* The configuration that a run, a task, a token and a row were given stays theirs, in the
\* cases that the properties name, for every layered policy, every configuration of agents,
\* every roster and every overlay.
THEOREM ConfigurationIsPinnedHolds == ToolingSpec => []ConfigurationIsPinned
<1>1. ToolingSpec => [](StatedAgentsAreGiven /\ AnswerIsTheOtherResolvers /\ AnsweredAgentRuns /\ StatedConfigIsValid)
  BY ToolingMovesAgents, AgentsAreTheGiven
<1>2. ToolingSpec => [](RostersAgree /\ RoomIsTheInstalled) /\ []NewFacesShadowNobody
  BY ToolingMovesRoster, RoomsSeatTheInstalled, NewFacesTakeNothing
<1>3. ToolingSpec => []OverlayIsAddressable
  BY ToolingMovesCatalog, OverlaysAreAddressable
<1>4. LoadedIsPinned /\ (StatedAgentsAreGiven /\ AnswerIsTheOtherResolvers /\ AnsweredAgentRuns /\ StatedConfigIsValid)
      /\ (RostersAgree /\ RoomIsTheInstalled) /\ NewFacesShadowNobody /\ OverlayIsAddressable => ConfigurationIsPinned
  BY Zenon DEF ConfigurationIsPinned
<1> QED BY LoadedIsPinnedHolds, <1>1, <1>2, <1>3, <1>4, PTL

\* A stop hook that a run has answered "ok" for is installed, what a run has rewritten is
\* right, and what others own stays, for every text of config.toml in which the deprecated
\* key, where there is one, is not quoted.
THEOREM HookIsInstalledHolds == LegacyKeysArePlain /\ ToolingSpec => []HookIsInstalled
<1>1. LegacyKeysArePlain /\ ToolingSpec
        => [](RewrittenConfigIsRight /\ ErrorWritesNothing /\ OthersAreKept /\ OkIsInstalled /\ LaterRunIsQuiet)
  BY ToolingMovesHooks, InstalledHooksHold
<1>2. (RewrittenConfigIsRight /\ ErrorWritesNothing /\ OthersAreKept /\ OkIsInstalled /\ LaterRunIsQuiet) => HookIsInstalled
  BY Zenon DEF HookIsInstalled
<1> QED BY <1>1, <1>2, PTL
=============================================================================
