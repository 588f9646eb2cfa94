----------------------------- MODULE MCTooling ------------------------------
(***************************************************************************)
(* The small instances of the story automator's commands and of the other  *)
(* scripts of the agent skills.  They meet only through files that no two  *)
(* of these modules share, so one run explores them one at a time: `part`  *)
(* says which one moves, and the others rest in an initial state.          *)
(***************************************************************************)
EXTENDS EpicRun, StopHooks, PolicySnapshot, SprintFile, SkillInstall, AgentConfig, MemoryLog,
        EvalRuns, RuntimeLayout, Orchestration, SkillRender, StoryLoop, HookRelay, ProjectRoot, Roster, Catalog

CONSTANT Parts \* those of the parts that are explored

VARIABLE part

ASSUME PartsAssumption ==
  Parts \subseteq {"stories", "hooks", "policy", "sprint", "install", "agents", "log", "evals", "layout", "commands", "render",
            "loop", "relay", "roots", "roster", "catalog"}

(***************************************************************************)
(* stories: an epic with a word for a name and a numbered one, so that     *)
(* w-1-2-x is a story of w, of w-1, or a title that starts with a number,  *)
(* and its heading is read anew once w-1 has two rows or a file.           *)
(***************************************************************************)
Word == -1
Title == -2
MCStoryKeys == {<<Word, 1, Title>>, <<Word, 2, Title>>, <<Word, 1, 2>>, <<Word, 1, 1, Title>>, <<Word, 1, 2, Title>>,
                <<1, 2, Title>>}
MCStoryRefs == {Ref(<<Word, 1, Title>>), Ref(<<Word, 1, 2, Title>>), Ref(<<Word>>), DotRef(<<Word>>, 1), DotRef(<<1>>, 2)}
MCEpicNames == {<<Word>>, <<Word, 1>>, <<1>>}
MCEpicDocs == {<<Word>>, <<Word, 1>>, <<1>>}
Heading(epic, ref, needs) == [epic |-> epic, ref |-> ref, slug |-> <<Title>>, needs |-> needs]
MCHeadingsOf(doc) ==
  CASE doc = <<Word>> -> <<Heading(<<Word>>, DotRef(<<Word>>, 1), <<>>),
                           Heading(<<Word>>, Ref(<<Word, 2, Title>>), <<DotRef(<<Word>>, 1)>>),
                           Heading(<<Word>>, Ref(<<Word, 1, 2, Title>>), <<>>)>>
    [] doc = <<1>> -> <<Heading(<<>>, DotRef(<<1>>, 2), <<>>), Heading(<<1>>, DotRef(<<1>>, 1), <<Ref(<<1, 2>>)>>)>>
    [] OTHER -> <<>>
MCSelections == {{<<1, 9>>}, {<<1, 1>>}}

(***************************************************************************)
(* hooks: every layout of the features table that the patches tell apart.  *)
(***************************************************************************)
Setting(name, on) == [name |-> name, on |-> on]
MCHookConfigs ==
  {NoHookConfig, BrokenConfig, <<>>}
    \cup {<<Header("features")>> \o keys \o rest :
            keys \in {<<>>, <<Key("hooks", TRUE)>>, <<Quoted("hooks", FALSE)>>, <<Key("web", TRUE), Key("codex_hooks", TRUE)>>,
                      <<Key("codex_hooks", TRUE), Key("hooks", FALSE)>>},
            rest \in {<<>>, <<Header("other"), Key("hooks", FALSE), Header("trust")>>}}
    \cup {dots \o rest :
            dots \in {<<Dotted("web", TRUE)>>, <<Dotted("codex_hooks", TRUE), Dotted("web", TRUE)>>,
                      <<Dotted("hooks", FALSE), Dotted("codex_hooks", TRUE)>>},
            rest \in {<<>>, <<Header("trust")>>}}
    \cup {<<Inline(items)>> : items \in {<<>>, <<Setting("hooks", FALSE)>>, <<Setting("codex_hooks", TRUE), Setting("web", TRUE)>>,
                                         <<Setting("codex_hooks", TRUE), Setting("hooks", FALSE)>>}}
    \cup {<<Inline(<<>>), Header("features")>>}
MCHookFiles == {NoFile, Broken, <<>>, <<"foreign", "stale">>, <<"ours">>}

(***************************************************************************)
(* sprint: an epic whose story is renamed in the epic file.                *)
(***************************************************************************)
SprintKey(kind, name) == [kind |-> kind, epic |-> 1, name |-> name]
MCSprintKeys == {SprintKey("epic", ""), SprintKey("retro", ""), SprintKey("story", "login"), SprintKey("story", "signin"),
                 SprintKey("other", "split")}
MCSprintEpics == {{SprintKey("story", "login")}, {SprintKey("story", "signin"), SprintKey("other", "split")}}
MCPlanSets == {{}, {<<SprintKey("story", "login"), "backlog">>}, {<<SprintKey("story", "login"), "doing">>}}
Request(retroDone, updates, adds) == [epic |-> 1, retroDone |-> retroDone, updates |-> updates, adds |-> adds]
MCRetroRequests ==
  {Request(TRUE, {}, <<[id |-> "", text |-> "tests"]>>),
   Request(FALSE, {[id |-> "", epic |-> 1, text |-> "tests", status |-> "done"]}, <<>>),
   Request(FALSE, {[id |-> "item-1-1", epic |-> 1, text |-> "tests", status |-> "in-progress"]}, <<>>)}

(***************************************************************************)
(* install: a module whose skill is installed and one whose is not.        *)
(***************************************************************************)
MCQuestions == {[core |-> <<>>, module |-> <<>>], [core |-> [user_name |-> "a"], module |-> [var |-> "a", pref |-> "a"]]}
OldFile(values) == [there |-> TRUE, values |-> values]
MCOldConfigs ==
  {[d \in {"m1", "m2", "core"} |-> CASE d = "core" -> core [] d = "m1" -> own [] OTHER -> OldFile([var |-> "b"])] :
     core \in {Gone, OldFile([user_name |-> "b", output_folder |-> "b"])}, own \in {Gone, OldFile([output_folder |-> "b", pref |-> "b"])}}
MCSkillsIn == [d \in {"m1", "m2", "core"} |-> IF d = "m2" THEN {"s2"} ELSE {"s1"}]

(***************************************************************************)
(* agents: every way to leave a field out, to state it and to clear it,    *)
(* and some entries that state nothing, null or an agent there is not.     *)
(***************************************************************************)
Optional(key, values) == {Empty} \cup {key :> value : value \in values}
Entries == {primary @@ fallback @@ model : primary \in Optional("primary", {"claude"}),
              fallback \in Optional("fallback", {"FALSE", "claude"}), model \in Optional("model", {"m2", "none"})}
Defaults == {primary @@ fallback @@ model :
               primary \in Optional("defaultPrimary", {"codex"}) \cup Optional("primary", {"codex"}),
               fallback \in Optional("defaultFallback", {"claude", "NULL"}) \cup Optional("fallback", {"claude"}),
               model \in Optional("defaultModel", {"m1"})}
OddEntries == {"primary" :> "", "primary" :> "NULL" @@ "model" :> "m2", "primary" :> "FALSE", "primary" :> "gemini" @@ "fallback" :> "gemini",
               "fallback" :> "NULL"}
FewEntries == {Empty, "primary" :> "claude" @@ "fallback" :> "FALSE", "fallback" :> "claude" @@ "model" :> "none"}
Default == "defaultPrimary" :> "codex" @@ "defaultModel" :> "m1"
MCAgentConfigs ==
  Defaults \cup {"defaultPrimary" :> "" @@ "primary" :> "codex", "defaultPrimary" :> "NULL" @@ "defaultFallback" :> "auto"}
    \cup {Default @@ "defaultFallback" :> "claude" @@ "perTask" :> ("dev" :> odd @@ "retro" :> odd) : odd \in OddEntries}
    \cup {Default @@ "perTask" :> ("dev" :> [primary |-> "claude"]) @@ "complexityOverrides" :> ("medium" :> ("dev" :> odd)) : odd \in OddEntries}
    \cup {Default @@ "perTask" :> ("dev" :> dev) @@ "retro" :> retro_ : dev \in Entries, retro_ \in FewEntries}
    \cup {Default @@ "perTask" :> ("retro" :> task) @@ "complexityOverrides" :> ("medium" :> ("retro" :> level)) :
            task \in FewEntries, level \in Entries}

MCJobDir(job) == IF job = 3 THEN 2 ELSE job
MCQueryOf(run) == run \div 10
MCEnvironments ==
  [explicit : {NotSet, "elsewhere", "claude"}, current : {NotSet, "claude", "agents"}, provider : {NotSet, "codex"}, marker : {NotSet}]

(***************************************************************************)
(* render: a value by its short name, one by its path, a snapshot link and *)
(* the review layers of a skill.                                           *)
(***************************************************************************)
Token(kind, at) == [kind |-> kind, at |-> at]
Layers == <<"workflow", "layers">>
MCTokensOf(f) ==
  IF f = "workflow.md" THEN <<Token("short", "lang"), Token("snapshot", "step.md"), Token("custom", Layers)>>
  ELSE <<Token("config", <<"bmm", "out">>)>>
MCFirstCentral == <<<<"bmm", "lang">> :> Text("en") @@ <<"bmm", "out">> :> Text("docs"), Empty>>
MCCentralLayers == {<<"gds", "lang">> :> Text("fr"), <<"bmm", "out">> :> Text("")}
MCFirstSkill == <<Layers :> List(<<Item("a", "look"), Item("b", "find")>>), Empty, Layers :> List(<<>>)>>
MCSkillLayers ==
  {Layers :> List(<<Item("b", ""), Item("c", "more")>>), Layers :> List(<<Item("", "plain")>>), Layers :> List(<<>>),
   Layers :> Text("off"), (Layers \o <<"a">>) :> Text("off")}

\* loop: the bundled policy, scaled down.
MCLoopPolicies == {[readable |-> TRUE, expected |-> 1, cycles |-> 2, crashes |-> 1]}

\* roots: a repository nested in a project, and skills installed at home.
MCUpFrom(dir) ==
  CASE dir = "home" -> <<"home">> [] dir = "nested" -> <<"nested", "proj", "home">> [] OTHER -> <<dir, "home">>

\* roster: an agent that is overridden by its alias, its code and its name, an agent whose
\* code is the alias of another's, and custom members whose name and whose alias are
\* somebody else's.
Face(code, name) == [code |-> code, name |-> name]
MCAgentCards == {Face("bmad-agent-analyst", "mary"), Face("bmad-tea", "murat"), Face("tea", "tia")}
MCMemberCards ==
  {Face("analyst", "ann"), Face("bmad-agent-analyst", "hawk"), Face("bmad-analyst", ""), Face("hawk", "mary"),
   Face("hawk", "vex"), Face("vex", ""), Face("adversary", "hawk"), Face("tea", "tia")}
MCShippedMembers == <<Face("adversary", "grumbal")>>
MCPartyGroups == <<<<"analyst", "mary", "hawk", "adversary", "nobody">>, <<"bmad-tea", "tea", "vex", "grumbal", "tia">>>>
MCAliasOf(code) ==
  CASE code \in {"bmad-agent-analyst", "bmad-analyst"} -> "analyst" [] code = "bmad-tea" -> "tea" [] OTHER -> code

\* catalog: a category with two rows, and overlays that replace, append and repeat, and
\* that state a number that is free and one that is not.
Row(num, category, name) == [num |-> num, category |-> category, name |-> name]
MCShippedRows == <<Row(1, "risk", "premortem"), Row(2, "risk", "red team"), Row(4, "core", "five whys")>>
MCOverlays ==
  {<<>>, <<Row(0, "new", "ours"), Row(0, "core", "premortem"), Row(0, "new", "theirs")>>,
   <<Row(0, "risk", "ours"), Row(0, "core", "ours")>>, <<Row(2, "new", "ours"), Row(9, "risk", "premortem"), Row(0, "new", "theirs")>>}

-----------------------------------------------------------------------------
Init ==
  /\ part \in Parts
  /\ EpicRunInit /\ LogInit /\ OrchestrationInit /\ RenderInit /\ RootInit
  /\ IF part = "hooks" THEN HooksInit ELSE hookProvider = "claude" /\ hooks = <<>> /\ HooksInit
  /\ IF part = "policy" THEN PolicyInit ELSE bundled = 1 /\ envState = Nowhere /\ PolicyInit
  /\ IF part = "sprint" THEN SprintInit ELSE epicDocs = {SprintKey("story", "login")} /\ SprintInit
  /\ IF part = "install" THEN InstallInit
     ELSE config = NoConfig /\ userConfig = <<>> /\ legacy = (CHOOSE l \in OldConfigs : TRUE) /\ InstallInit
  /\ IF part = "agents" THEN AgentInit ELSE given = Default /\ runtimeProvider = "codex" /\ AgentInit
  /\ IF part = "evals" THEN EvalInit ELSE program = "evals" /\ adapter = "ok" /\ EvalInit
  /\ IF part = "layout" THEN LayoutInit ELSE bmadConfig = "absent" /\ LayoutInit
  /\ IF part = "loop" THEN LoopInit
     ELSE LoopInit /\ loop.gate = "verify"
  /\ IF part = "roster" THEN RosterInit ELSE partySkill = TRUE /\ unreadable = "none" /\ RosterInit
  /\ IF part = "catalog" THEN CatalogInit ELSE overlay = <<>> /\ CatalogInit
  /\ IF part = "relay" THEN RelayInit ELSE anchored = TRUE /\ eventsPath = "own" /\ RelayInit

\* The parts that do not move.
OthersRest ==
  /\ UNCHANGED part
  /\ part # "stories" => UNCHANGED epicRunVars
  /\ part # "hooks" => UNCHANGED hookVars
  /\ part # "policy" => UNCHANGED policyVars
  /\ part # "sprint" => UNCHANGED sprintVars
  /\ part # "install" => UNCHANGED installVars
  /\ part # "agents" => UNCHANGED agentVars
  /\ part # "log" => UNCHANGED logVars
  /\ part # "evals" => UNCHANGED evalVars
  /\ part # "layout" => UNCHANGED layoutVars
  /\ part # "commands" => UNCHANGED orchestrationVars
  /\ part # "render" => UNCHANGED renderVars
  /\ part # "loop" => UNCHANGED loopVars
  /\ part # "relay" => UNCHANGED relayVars
  /\ part # "roots" => UNCHANGED rootVars
  /\ part # "roster" => UNCHANGED rosterVars
  /\ part # "catalog" => UNCHANGED catalogVars

StoriesStep == part = "stories" /\ EpicRunNext /\ OthersRest
HooksStep == part = "hooks" /\ HooksNext /\ OthersRest
PolicyStep == part = "policy" /\ PolicyNext /\ OthersRest
SprintStep == part = "sprint" /\ SprintNext /\ OthersRest
InstallStep == part = "install" /\ InstallNext /\ OthersRest
AgentsStep == part = "agents" /\ AgentNext /\ OthersRest
LogStep == part = "log" /\ LogNext /\ OthersRest
EvalsStep == part = "evals" /\ EvalNext /\ OthersRest
LayoutStep == part = "layout" /\ LayoutNext /\ OthersRest
CommandsStep == part = "commands" /\ OrchestrationNext /\ OthersRest
RenderStep == part = "render" /\ RenderNext /\ OthersRest
LoopStep == part = "loop" /\ LoopNext /\ OthersRest
RelayStep == part = "relay" /\ RelayNext /\ OthersRest
RootsStep == part = "roots" /\ RootNext /\ OthersRest
RosterStep == part = "roster" /\ RosterNext /\ OthersRest
CatalogStep == part = "catalog" /\ CatalogNext /\ OthersRest

Next ==
  \/ StoriesStep \/ HooksStep \/ PolicyStep \/ SprintStep \/ InstallStep \/ AgentsStep
  \/ LogStep \/ EvalsStep \/ LayoutStep \/ CommandsStep \/ RenderStep
  \/ LoopStep \/ RelayStep \/ RootsStep \/ RosterStep \/ CatalogStep

toolVars == <<part, epicRunVars, hookVars, policyVars, sprintVars, installVars, agentVars, logVars, evalVars,
              layoutVars, orchestrationVars, renderVars, loopVars, relayVars, rootVars, rosterVars, catalogVars>>
ToolingSpec == Init /\ [][Next]_toolVars

-----------------------------------------------------------------------------
\* The type invariants of the parts.
ToolsTypeOK ==
  /\ part = "stories" => EpicRunTypeOK
  /\ part = "hooks" => HooksTypeOK
  /\ part = "policy" => PolicyTypeOK
  /\ part = "sprint" => SprintTypeOK
  /\ part = "install" => InstallTypeOK
  /\ part = "agents" => AgentTypeOK
  /\ part = "log" => LogTypeOK
  /\ part = "evals" => EvalTypeOK
  /\ part = "layout" => LayoutTypeOK
  /\ part = "commands" => OrchestrationTypeOK
  /\ part = "render" => RenderTypeOK
  /\ part = "loop" => LoopTypeOK
  /\ part = "relay" => RelayTypeOK
  /\ part = "roots" => RootTypeOK
  /\ part = "roster" => RosterTypeOK
  /\ part = "catalog" => CatalogTypeOK

\* What the story automator takes for a story is one, while rows and files change: a
\* completed key, a status and a review are of the story asked for (core/story_keys.py,
\* core/sprint.py, core/success_verifiers.py).
StoriesAreKnown ==
  part = "stories" => CompletedKeyIsOfTheStory /\ StatusIsOfTheStory /\ ReviewReadsTheStory

\* Sprint status, the epic parser and the epic commands agree on the epic of a row, a
\* heading or a range that can only be read in one way (core/sprint.py,
\* core/epic_parser.py, commands/orchestrator_epic_agents.py).
EpicsAreAgreed ==
  part = "stories" =>
    /\ OneEpicPerRow /\ EveryRowIsCounted /\ EpicCompleteIsDone
    /\ RangeStaysResolvable /\ OneLastStory /\ LastStoryIsReached /\ DependedOnBlocks

\* Runs of ensure-stop-hook that overlap or die leave files the agent can load, and
\* say what they have left (core/stop_hooks.py).
HookIsInstalled ==
  part = "hooks" =>
    RewrittenConfigIsRight /\ ErrorWritesNothing /\ OthersAreKept /\ OkIsInstalled /\ LaterRunIsQuiet

\* A run keeps the policy it was started with or, if its document was cut short, the
\* bundled one; a task the agent that its configuration states, when it states runtimes;
\* an agent that alone goes by its code the members written with it; and a row the number
\* that no overlay states for another.  What the code makes of the other cases is in
\* each property (core/runtime_policy.py, core/agent_config.py, resolve_party.py,
\* resolve_personas.py, pick_methods.py).
ConfigurationIsPinned ==
  /\ part = "policy" => LoadedIsPinned
  /\ part = "agents" => StatedAgentsAreGiven /\ AnswerIsTheOtherResolvers /\ AnsweredAgentRuns /\ StatedConfigIsValid
  /\ part = "roster" => RostersAgree /\ RoomIsTheInstalled /\ NewFacesShadowNobody
  /\ part = "catalog" => OverlayIsAddressable

\* sprint-status.yaml is rewritten as a whole or not at all, and into what its
\* readers accept of the keys that they recognize (sprint_plan.py, sprint_status.py).
SprintFileIsKept == part = "sprint" => CommandIsAllOrNothing /\ GeneratedIsUsable

\* An acknowledged log entry is in the log, a summary counts every job, a skill is
\* rendered or there is a reason, an event is read whole, a draw is what it is said to be
\* (memlog.py, run_evals.py, run_triggers.py, render_skill.py, bmad_loop_hook.py, pick_methods.py).
OutputsAreWhatHappened ==
  /\ part = "log" => AckedEntriesStay
  /\ part = "evals" => SummaryCountsEveryJob /\ FiringIsObserved
  /\ part = "render" => HaltHasACause /\ ReviewLayersAreKept
  /\ part = "relay" => ConsumedIsWhole /\ NoEventIsRedirected
  /\ part = "catalog" => DrawIsDiverse /\ NothingIsOfferedTwice

\* The orchestrator's commands say what is so, and look where the others look
\* (commands/tmux.py, commands/basic.py, core/runtime_layout.py).
CommandsAreTruthful ==
  /\ part = "commands" => CompletedIsVerified /\ CommitHoldsTheWork /\ HeldStopHasARun
  /\ part = "loop" => CreatedOnce /\ FinishedIsCommitted
  /\ part = "layout" => MarkerIsShared /\ OwnInstallIsUsed /\ PortablePathsAgree
  /\ part = "roots" => WorkingProjectWins

\* No step loses a file that was promised to stay: a log entry, a rendered snapshot,
\* the settings of an old file, the section of another module.
FilesAreKept == LogIsAppendOnly /\ SnapshotsAreImmutable /\ MigratedBeforeDeleted /\ OtherModulesAreKept
                 /\ PublishedEventStays

\* No step acts on something else than it says: a command without a document follows
\* the active run, a retrospective closes a finished epic, a renderer names what it read.
StepsAreGrounded == ActiveRunIsFollowed /\ RetroMeansDone /\ AnnouncedIsWhatWasRead /\ UnreadablePolicyStops
=============================================================================
