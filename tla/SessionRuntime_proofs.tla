----------------------- MODULE SessionRuntime_proofs ------------------------
(* What a session keeps true for every set of exit codes, every patience of *)
(* the legacy poll and both modes.                                          *)
EXTENDS SessionRuntime, TLAPS

(* Type correctness, in three parts: processes, state files, polls.         *)
ChildRecords == [step : {"off", "working", "prompt", "exited"}, code : Codes, marker : BOOLEAN]
ProcessTypeOK ==
  /\ mode \in Modes /\ agent \in Agents /\ expired \in BOOLEAN /\ faulted \in BOOLEAN
  /\ tmux \in {"none", "placeholder", "live", "shell", "dead"} /\ status \in Codes \cup {Unknown}
  /\ command \in BOOLEAN /\ spawner \in SpawnSteps
  /\ runner \in RunnerSteps /\ runnerCopy \in [agent : BOOLEAN, child : BOOLEAN]
  /\ child \in ChildRecords
  /\ killer \in {"idle", "killed", "done"}
FilesTypeOK == file \in SessionFile /\ spawnCopy \in SessionFile /\ pollCopy \in SessionFile
PollTypeOK ==
  /\ poller \in PollSteps
  /\ seen \in [exists : BOOLEAN, dead : BOOLEAN, status : Codes \cup {Unknown},
               runner : BOOLEAN, child : BOOLEAN]
  /\ verdict \in [state : SessionStates, via : {"runner", "legacy"}, advanced : BOOLEAN]

LEMMA TypeParts == SessionTypeOK <=> ProcessTypeOK /\ FilesTypeOK /\ PollTypeOK
BY DEF SessionTypeOK, ProcessTypeOK, FilesTypeOK, PollTypeOK, ChildRecords

LEMMA TypePartsNext == SessionTypeOK' <=> ProcessTypeOK' /\ FilesTypeOK' /\ PollTypeOK'
BY DEF SessionTypeOK, ProcessTypeOK, FilesTypeOK, PollTypeOK, ChildRecords

LEMMA EmptyStateType == EmptyState \in SessionFile /\ Absent \in SessionFile
<1>1. 0 \in 0..(LegacyPolls + 1)
  BY SessionAssumption
<1>2. EmptyState \in SessionFile
  BY <1>1 DEF EmptyState, SessionFile, Results
<1>3. [EmptyState EXCEPT !.life = "absent"] \in SessionFile
  BY <1>2 DEF SessionFile
<1> QED BY <1>2, <1>3 DEF Absent

LEMMA ChildType ==
  ASSUME NEW c \in ChildRecords, NEW step \in {"off", "working", "prompt", "exited"},
         NEW code \in Codes, NEW marker \in BOOLEAN
  PROVE  /\ [c EXCEPT !.step = step] \in ChildRecords
         /\ [c EXCEPT !.code = code] \in ChildRecords
         /\ [c EXCEPT !.step = step, !.code = code] \in ChildRecords
         /\ [c EXCEPT !.step = step, !.marker = marker] \in ChildRecords
BY DEF ChildRecords
LEMMA CodesType == 0 \in Codes /\ 127 \in Codes /\ 129 \in Codes /\ ExitCodes \subseteq Codes
BY DEF Codes

LEMMA FinishedType ==
  ASSUME NEW s \in SessionFile, NEW result \in Results
  PROVE  Finished(s, result) \in SessionFile
BY DEF Finished, SessionFile

LEMMA ScriptResultType ==
  ASSUME NEW code \in Codes \cup {Unknown}
  PROVE  ScriptResult(code) \in Results /\ ResultFromExitCode(code) \in Results
BY DEF ScriptResult, ResultFromExitCode, Results

LEMMA ReconciledType ==
  ASSUME NEW s \in SessionFile, NEW pane, pane.status \in Codes \cup {Unknown}
  PROVE  Reconciled(s, pane) \in SessionFile
<1>1. {"interrupted", "never_launched"} \subseteq Results
  BY DEF Results
<1> QED BY <1>1, FinishedType, ScriptResultType DEF Reconciled

LEMMA InitType == SessionInit => SessionTypeOK
<1> SUFFICES ASSUME SessionInit PROVE ProcessTypeOK /\ FilesTypeOK /\ PollTypeOK
  BY TypeParts
<1>1. ProcessTypeOK
  BY SessionAssumption DEF SessionInit, ProcessTypeOK, ChildRecords, Modes, Codes, SpawnSteps, RunnerSteps, NothingRead
<1>2. FilesTypeOK
  BY EmptyStateType DEF SessionInit, FilesTypeOK
<1>3. PollTypeOK
  BY DEF SessionInit, PollTypeOK, PollSteps, NothingSeen, NoVerdict, SessionStates, Codes
<1> QED BY <1>1, <1>2, <1>3

LEMMA AnswerType ==
  ASSUME FilesTypeOK, NEW state \in SessionStates, NEW via \in {"runner", "legacy"},
         NEW advanced \in BOOLEAN, Answer(state, via, advanced)
  PROVE  pollCopy' \in SessionFile /\ PollTypeOK'
BY EmptyStateType DEF Answer, FilesTypeOK, PollTypeOK, PollSteps, NothingSeen, Codes

LEMMA VerdictType ==
  /\ \A s : TerminalVerdict(s) \in SessionStates
  /\ \A s, screen : LegacyClaudeState(s, screen) \in SessionStates
BY DEF TerminalVerdict, LegacyClaudeState, SessionStates

LEMMA SpawnType == ASSUME SessionTypeOK, Spawn PROVE SessionTypeOK'
<1> ProcessTypeOK /\ FilesTypeOK /\ PollTypeOK
  BY TypeParts
<1> SUFFICES ProcessTypeOK' /\ FilesTypeOK' /\ PollTypeOK'
  BY TypePartsNext
<1>1. PollTypeOK'
  BY DEF Spawn, SpawnLegacy, SpawnSession, SpawnFails, SpawnSave, SpawnRespawn, SpawnLoad, SpawnStore,
     PollTypeOK, pollVars
<1>2. ProcessTypeOK'
  <2> USE DEF ProcessTypeOK, SpawnSteps, RunnerSteps, envVars, paneVars, runVars
  <2>1. CASE SpawnLegacy
    <3>1. [child EXCEPT !.step = "working"] \in ChildRecords
      BY ChildType, CodesType
    <3> QED BY <2>1, <3>1 DEF SpawnLegacy
  <2>2. CASE SpawnSession \/ SpawnFails
    BY <2>2 DEF SpawnSession, SpawnFails, CleanupArtifacts
  <2>3. CASE SpawnSave \/ SpawnRespawn \/ SpawnLoad \/ SpawnStore
    BY <2>3 DEF SpawnSave, SpawnRespawn, SpawnLoad, SpawnStore
  <2> QED BY <2>1, <2>2, <2>3 DEF Spawn
<1>3. FilesTypeOK'
  <2>1. [EmptyState EXCEPT !.schema = 1, !.life = "created", !.agent = TRUE] \in SessionFile
    BY EmptyStateType DEF SessionFile
  <2>2. [Loaded EXCEPT !.old = FALSE] \in SessionFile
    BY EmptyStateType DEF Loaded, SessionFile, FilesTypeOK
  <2> QED BY <2>1, <2>2, EmptyStateType
      DEF Spawn, SpawnLegacy, SpawnSession, SpawnFails, SpawnSave, SpawnRespawn, SpawnLoad, SpawnStore,
          CleanupArtifacts, FilesTypeOK, pollVars, spawnVars
<1> QED BY <1>1, <1>2, <1>3

LEMMA WrittenType ==
  ASSUME NEW life \in {"launching", "running", "finished"}, NEW result \in Results,
         NEW hasChild \in BOOLEAN, NEW hasAgent \in BOOLEAN
  PROVE  [EmptyState EXCEPT !.schema = 1, !.life = life, !.result = result, !.runner = TRUE,
                            !.child = hasChild, !.agent = hasAgent] \in SessionFile
BY EmptyStateType DEF SessionFile

LEMMA WriteStateType ==
  ASSUME SessionTypeOK, NEW life \in {"launching", "running", "finished"}, NEW result \in Results,
         NEW hasChild \in BOOLEAN, NEW next \in RunnerSteps, WriteState(life, result, hasChild, next),
         UNCHANGED child
  PROVE  SessionTypeOK'
<1> ProcessTypeOK /\ FilesTypeOK /\ PollTypeOK
  BY TypeParts
<1>1. FilesTypeOK'
  BY WrittenType DEF WriteState, ProcessTypeOK, FilesTypeOK, spawnVars, pollVars
<1>2. ProcessTypeOK' /\ PollTypeOK'
  BY DEF WriteState, ProcessTypeOK, PollTypeOK, NothingRead, envVars, paneVars, spawnVars, pollVars
<1> QED BY <1>1, <1>2, TypePartsNext

\* The files and the poll rest.
FilesRest == UNCHANGED <<file, spawnVars, pollVars>>
LEMMA FilesRestType == ASSUME SessionTypeOK, FilesRest, ProcessTypeOK' PROVE SessionTypeOK'
<1> FilesTypeOK' /\ PollTypeOK'
  BY TypeParts DEF FilesRest, FilesTypeOK, PollTypeOK, spawnVars, pollVars
<1> QED BY TypePartsNext

LEMMA RunType == ASSUME SessionTypeOK, Run PROVE SessionTypeOK'
<1> ProcessTypeOK /\ FilesTypeOK /\ PollTypeOK
  BY TypeParts
<1>0. {"check", "exit", "wait"} \subseteq RunnerSteps /\ {"", "spawn_error"} \subseteq Results
      /\ child.code \in Codes \cup {Unknown} /\ runnerCopy.child \in BOOLEAN
  BY DEF RunnerSteps, Results, ProcessTypeOK, ChildRecords
<1>1. CASE RunnerRead
  <2>1. file.agent \in BOOLEAN /\ file.child \in BOOLEAN
    BY DEF FilesTypeOK, SessionFile
  <2>2. FilesRest /\ ProcessTypeOK'
    BY <1>1, <2>1 DEF RunnerRead, ProcessTypeOK, RunnerSteps, envVars, paneVars, spawnVars, FilesRest
  <2> QED BY <2>2, FilesRestType
<1>2. CASE RunnerLaunches
  BY <1>0, <1>2, WriteStateType DEF RunnerLaunches
<1>3. CASE RunnerStartsChild
  <2>1. [child EXCEPT !.step = "working"] \in ChildRecords /\ [child EXCEPT !.code = 127] \in ChildRecords
    BY ChildType, CodesType DEF ProcessTypeOK
  <2>2. FilesRest /\ ProcessTypeOK'
    BY <1>3, <2>1 DEF RunnerStartsChild, ProcessTypeOK, RunnerSteps, envVars, paneVars, spawnVars, FilesRest
  <2> QED BY <2>2, FilesRestType
<1>4. CASE RunnerReportsMissing
  BY <1>0, <1>4, WriteStateType DEF RunnerReportsMissing
<1>5. CASE RunnerRecordsRunning
  BY <1>0, <1>5, WriteStateType DEF RunnerRecordsRunning
<1>6. CASE RunnerReaps
  <2>1. FilesRest /\ ProcessTypeOK'
    BY <1>6 DEF RunnerReaps, ProcessTypeOK, RunnerSteps, envVars, paneVars, spawnVars, FilesRest
  <2> QED BY <2>1, FilesRestType
<1>7. CASE RunnerFinishes
  BY <1>0, <1>7, WriteStateType, ScriptResultType DEF RunnerFinishes
<1>8. CASE RunnerExits
  <2>1. FilesRest /\ ProcessTypeOK'
    BY <1>0, <1>8 DEF RunnerExits, ProcessTypeOK, RunnerSteps, envVars, spawnVars, FilesRest
  <2> QED BY <2>1, FilesRestType
<1> QED BY <1>1, <1>2, <1>3, <1>4, <1>5, <1>6, <1>7, <1>8 DEF Run

LEMMA OtherType ==
  ASSUME SessionTypeOK, Agent \/ HangUp \/ Fault \/ Kill \/ Passing PROVE SessionTypeOK'
<1> ProcessTypeOK /\ FilesTypeOK /\ PollTypeOK
  BY TypeParts
<1> USE DEF envVars, paneVars, spawnVars, runVars, FilesRest
<1>1. CASE AgentEndsTurn
  <2>1. \A marker \in BOOLEAN : [child EXCEPT !.step = "prompt", !.marker = marker] \in ChildRecords
    BY ChildType, CodesType DEF ProcessTypeOK
  <2>2. FilesRest /\ ProcessTypeOK'
    BY <1>1, <2>1 DEF AgentEndsTurn, ProcessTypeOK
  <2> QED BY <2>2, FilesRestType
<1>2. CASE AgentExits
  <2>1. \A code \in ExitCodes : [child EXCEPT !.step = "exited", !.code = code] \in ChildRecords
    BY ChildType, CodesType DEF ProcessTypeOK
  <2>2. FilesRest /\ ProcessTypeOK'
    BY <1>2, <2>1 DEF AgentExits, ProcessTypeOK
  <2> QED BY <2>2, FilesRestType
<1>3. CASE AgentHangsUp
  <2>1. [child EXCEPT !.step = "exited", !.code = 129] \in ChildRecords
    BY ChildType, CodesType DEF ProcessTypeOK
  <2>2. FilesRest /\ ProcessTypeOK'
    BY <1>3, <2>1 DEF AgentHangsUp, ProcessTypeOK
  <2> QED BY <2>2, FilesRestType
<1>4. CASE RunnerHangsUp \/ RunnerIsKilled
  <2>1. FilesRest /\ ProcessTypeOK'
    <3>1. NothingRead \in [agent : BOOLEAN, child : BOOLEAN] /\ "gone" \in RunnerSteps
      BY DEF NothingRead, RunnerSteps
    <3>2. CASE RunnerHangsUp
      BY <3>1, <3>2 DEF RunnerHangsUp, ProcessTypeOK
    <3>3. CASE RunnerIsKilled
      BY <3>1, <3>3 DEF RunnerIsKilled, ProcessTypeOK
    <3> QED BY <1>4, <3>2, <3>3
  <2> QED BY <2>1, FilesRestType
<1>6. CASE SessionIsLost \/ KillSession
  <2>1. FilesRest /\ ProcessTypeOK'
    BY <1>6 DEF SessionIsLost, KillSession, ProcessTypeOK
  <2> QED BY <2>1, FilesRestType
<1>5. CASE KillCleanup \/ Passing
  <2>1. [file EXCEPT !.old = TRUE] \in SessionFile
    BY DEF SessionFile, FilesTypeOK
  <2>2. FilesTypeOK'
    BY <1>5, <2>1, EmptyStateType
    DEF KillCleanup, CleanupArtifacts, Passing, Age, DayPasses, CollectStale, FilesTypeOK, pollVars
  <2>3. ProcessTypeOK' /\ PollTypeOK'
    BY <1>5 DEF KillCleanup, CleanupArtifacts, Passing, Age, DayPasses, CollectStale, ProcessTypeOK,
       PollTypeOK, pollVars
  <2> QED BY <2>2, <2>3, TypePartsNext
<1> QED BY <1>1, <1>2, <1>3, <1>4, <1>5, <1>6 DEF Agent, HangUp, Fault, Kill

LEMMA PollType == ASSUME SessionTypeOK, Poll PROVE SessionTypeOK'
<1> ProcessTypeOK /\ FilesTypeOK /\ PollTypeOK
  BY TypeParts
<1> SUFFICES ProcessTypeOK' /\ FilesTypeOK' /\ PollTypeOK'
  BY TypePartsNext
<1>1. ProcessTypeOK' /\ spawnCopy' = spawnCopy
  BY DEF Poll, PollBegin, PollSnapshot, PollWait, PollReconcile, PollCapture, PollSave, PollLegacyClaude,
     PollLegacySave, PollLegacyCodex, ProcessTypeOK, envVars, paneVars, runVars, spawnVars
<1>2. CASE PollBegin
  <2>1. "not_found" \in SessionStates /\ NoVerdict \in [state : SessionStates, via : {"runner", "legacy"},
                                                       advanced : BOOLEAN]
    BY DEF NoVerdict, SessionStates
  <2>2. CASE Answer("not_found", "runner", FALSE) \/ Answer(TerminalVerdict(file), "runner", FALSE)
    BY <1>1, <1>2, <2>1, <2>2, AnswerType, VerdictType DEF PollBegin, FilesTypeOK
  <2>3. CASE poller' \in {"legacy", "snapshot"} /\ verdict' = NoVerdict /\ pollCopy' \in {pollCopy, file} /\ seen' = seen
    BY <1>1, <1>2, <2>1, <2>3 DEF PollBegin, FilesTypeOK, PollTypeOK, PollSteps
  <2> QED BY <1>2, <2>2, <2>3 DEF PollBegin
<1>3. CASE PollSnapshot
  <2>1. Snapshot(pollCopy) \in [exists : BOOLEAN, dead : BOOLEAN, status : Codes \cup {Unknown},
                               runner : BOOLEAN, child : BOOLEAN]
    BY DEF Snapshot, Exists, RunnerAlive, ChildAlive, FilesTypeOK, ProcessTypeOK, SessionFile
  <2> QED BY <1>1, <1>3, <2>1 DEF PollSnapshot, FilesTypeOK, PollTypeOK, PollSteps
<1>4. CASE PollWait
  BY <1>1, <1>4, AnswerType, VerdictType DEF PollWait, FilesTypeOK, PollTypeOK, PollSteps
<1>5. CASE PollReconcile
  <2>1. Reconciled(pollCopy, seen) \in SessionFile
    BY ReconciledType DEF FilesTypeOK, PollTypeOK
  <2>2. Snapshot(pollCopy).child \in BOOLEAN /\ Snapshot(pollCopy).runner \in BOOLEAN
    BY DEF Snapshot, FilesTypeOK, SessionFile, RunnerAlive, ChildAlive
  <2> QED BY <1>1, <1>5, <2>1, <2>2, AnswerType, VerdictType
      DEF PollReconcile, FilesTypeOK, PollTypeOK, PollSteps
<1>6. CASE PollCapture
  BY <1>1, <1>6, AnswerType DEF PollCapture, FilesTypeOK, PollTypeOK, PollSteps, SessionStates
<1>7. CASE PollSave
  <2>1. "success" \in Results /\ "completed" \in SessionStates
    BY DEF Results, SessionStates
  <2> QED BY <1>1, <1>7, <2>1, AnswerType, FinishedType DEF PollSave, FilesTypeOK, PollTypeOK
<1>8. CASE PollLegacyClaude
  <2>1. ASSUME NEW s \in SessionFile
        PROVE  [EmptyState EXCEPT !.active = s.active, !.time = s.time,
                  !.polls = IF s.polls <= LegacyPolls THEN s.polls + 1 ELSE s.polls] \in SessionFile
    <3>0. s.polls \in 0..(LegacyPolls + 1) /\ LegacyPolls \in Nat
      BY SessionAssumption DEF SessionFile
    <3>1. (IF s.polls <= LegacyPolls THEN s.polls + 1 ELSE s.polls) \in 0..(LegacyPolls + 1)
      BY <3>0
    <3>2. s.active \in BOOLEAN /\ s.time \in BOOLEAN
      BY DEF SessionFile
    <3> QED BY <3>1, <3>2, EmptyStateType DEF SessionFile
  <2>2. {"not_found", "crashed"} \subseteq SessionStates
    BY DEF SessionStates
  <2>3. (IF file = Absent \/ file.schema = 1 THEN EmptyState ELSE file) \in SessionFile
    BY EmptyStateType DEF FilesTypeOK
  <2> QED BY <1>1, <1>8, <2>1, <2>2, <2>3, AnswerType, EmptyStateType
      DEF PollLegacyClaude, FilesTypeOK, PollTypeOK, PollSteps
<1>9. CASE PollLegacySave
  <2>1. ASSUME NEW screen \in Screens
        PROVE  [pollCopy EXCEPT !.active = @ \/ screen.done \/ screen.activity,
                                !.time = screen.time # "none"] \in SessionFile
    BY DEF Screens, SessionFile, FilesTypeOK
  <2>2. ASSUME NEW screen \in Screens
        PROVE  (pollCopy.time /\ screen.time = "advanced") \in BOOLEAN
    OBVIOUS
  <2>3. "error" \in SessionStates
    BY DEF SessionStates
  <2> QED BY <1>1, <1>9, <2>1, <2>2, <2>3, AnswerType, VerdictType DEF PollLegacySave, FilesTypeOK
<1>10. CASE PollLegacyCodex
  BY <1>1, <1>10, AnswerType DEF PollLegacyCodex, FilesTypeOK, SessionStates
<1> QED BY <1>1, <1>2, <1>3, <1>4, <1>5, <1>6, <1>7, <1>8, <1>9, <1>10 DEF Poll

LEMMA StepType == ASSUME SessionTypeOK, [SessionNext]_sessionVars PROVE SessionTypeOK'
<1>1. CASE SessionNext
  BY <1>1, SpawnType, RunType, OtherType, PollType DEF SessionNext
<1>2. CASE UNCHANGED sessionVars
  BY <1>2 DEF SessionTypeOK, sessionVars, envVars, paneVars, spawnVars, runVars, pollVars
<1> QED BY <1>1, <1>2

\* The state file and every copy of it keep their shape, whichever process replaces it
\* by what it read before (save_session_state, write_state and their callers).
THEOREM SessionTypes == SessionSpec => []SessionTypeOK
BY InitType, StepType, PTL DEF SessionSpec

(***************************************************************************)
(* Success is earned.  Any of the three writers may put an old copy of the *)
(* state back, so the copies have to be as true as the file, and what they *)
(* say has to stay true: an agent ends a turn, or exits, once.             *)
(***************************************************************************)
Earned == child.marker \/ (child.step = "exited" /\ child.code = 0)
Truthful(s) == IsTerminal(s) /\ s.result = "success" => Earned

\* How far the spawn, the runner and its agent are, of one another.
Course ==
  /\ spawner \in {"idle", "session", "saved"} => runner = "off" /\ child.step = "off"
  /\ child.step \in {"off", "working"} => ~child.marker
  /\ runner \in {"launch", "launchWrite", "check"} => child.step = "off"
  /\ runner \in {"finish", "finishWrite"} => child.step = "exited"
  /\ runner \in {"missing", "missingWrite"} => child.step = "off" /\ child.code = 127
  /\ runner = "exit" => child.step = "exited" \/ (child.step = "off" /\ child.code = 127)

\* What the pane and a poll may take for success.
PaneIsTruthful == tmux = "dead" /\ status = 0 => Earned
PollIsTruthful == (seen.dead /\ seen.status = 0 => Earned) /\ (poller = "save" => child.marker)
CopiesAreTruthful == Truthful(file) /\ Truthful(spawnCopy) /\ Truthful(pollCopy)

EarnedInv == Course /\ PaneIsTruthful /\ PollIsTruthful /\ CopiesAreTruthful

\* The agent's life goes one way, and what it earned stays earned.
LEMMA AgentOnlyAdvances ==
  ASSUME SessionTypeOK, Course, SessionNext
  PROVE  /\ Earned => Earned'
         /\ child.marker => child'.marker
         /\ child'.step \in {"off", "working"} => ~child'.marker
<1> child \in ChildRecords
  BY TypeParts DEF ProcessTypeOK
<1>1. CASE UNCHANGED child
  BY <1>1 DEF Course, Earned
<1>2. CASE SpawnLegacy \/ RunnerStartsChild
  BY <1>2 DEF SpawnLegacy, RunnerStartsChild, Course, Earned, ChildRecords
<1>3. CASE AgentEndsTurn \/ AgentExits \/ AgentHangsUp
  BY <1>3 DEF AgentEndsTurn, AgentExits, AgentHangsUp, ChildAlive, Course, Earned, ChildRecords
<1> QED BY <1>1, <1>2, <1>3
    DEF SessionNext, Spawn, SpawnSession, SpawnFails, SpawnSave, SpawnRespawn, SpawnLoad, SpawnStore,
        Run, RunnerRead, RunnerLaunches, RunnerReportsMissing, RunnerRecordsRunning, RunnerReaps,
        RunnerFinishes, RunnerExits, Agent, HangUp, RunnerHangsUp, Fault, RunnerIsKilled, SessionIsLost,
        Kill, KillSession, KillCleanup, Passing, Age, DayPasses, CollectStale,
        Poll, PollBegin, PollSnapshot, PollWait, PollReconcile, PollCapture, PollSave, PollLegacyClaude,
        PollLegacySave, PollLegacyCodex

LEMMA CourseStep == ASSUME SessionTypeOK, Course, SessionNext PROVE Course'
<1> child \in ChildRecords
  BY TypeParts DEF ProcessTypeOK
<1>0. child'.step \in {"off", "working"} => ~child'.marker
  BY AgentOnlyAdvances
<1>1. CASE Spawn
  BY <1>0, <1>1 DEF Spawn, SpawnLegacy, SpawnSession, SpawnFails, SpawnSave, SpawnRespawn, SpawnLoad,
     SpawnStore, Course, runVars, ChildRecords
<1>2. CASE Run
  <2> USE DEF spawnVars
  <2>1. CASE RunnerRead \/ RunnerReaps \/ RunnerExits
    BY <1>0, <2>1 DEF RunnerRead, RunnerReaps, RunnerExits, Course
  <2>2. CASE RunnerStartsChild
    BY <1>0, <2>2 DEF RunnerStartsChild, Course, ChildRecords
  <2>3. CASE RunnerLaunches \/ RunnerReportsMissing \/ RunnerRecordsRunning \/ RunnerFinishes
    BY <1>0, <2>3 DEF RunnerLaunches, RunnerReportsMissing, RunnerRecordsRunning, RunnerFinishes,
       WriteState, Course
  <2> QED BY <1>2, <2>1, <2>2, <2>3 DEF Run
<1>3. CASE Agent \/ HangUp \/ Fault
  <2> USE DEF spawnVars, runVars, Course
  <2>1. CASE AgentEndsTurn \/ AgentExits \/ AgentHangsUp
    BY <1>0, <2>1 DEF AgentEndsTurn, AgentExits, AgentHangsUp, ChildAlive, ChildRecords
  <2>2. CASE RunnerHangsUp \/ RunnerIsKilled \/ SessionIsLost
    BY <1>0, <2>2 DEF RunnerHangsUp, RunnerAlive, RunnerIsKilled, SessionIsLost
  <2> QED BY <1>3, <2>1, <2>2 DEF Agent, HangUp, Fault
<1>4. CASE UNCHANGED <<spawner, runner, child>>
  BY <1>4 DEF Course
<1> QED BY <1>1, <1>2, <1>3, <1>4
    DEF SessionNext, Kill, KillSession, KillCleanup, Passing, Age, DayPasses, CollectStale,
        Poll, PollBegin, PollSnapshot, PollWait, PollReconcile, PollCapture, PollSave, PollLegacyClaude,
        PollLegacySave, PollLegacyCodex, spawnVars, runVars

LEMMA PaneStep == ASSUME SessionTypeOK, Course, PaneIsTruthful, SessionNext PROVE PaneIsTruthful'
<1>0. Earned => Earned'
  BY AgentOnlyAdvances
<1>1. CASE RunnerExits
  BY <1>0, <1>1 DEF RunnerExits, PaneIsTruthful, Course, Earned, Exists
<1>2. CASE UNCHANGED paneVars
  BY <1>0, <1>2 DEF PaneIsTruthful, paneVars
<1>3. CASE tmux' # "dead"
  BY <1>3 DEF PaneIsTruthful
<1>4. CASE RunnerIsKilled
  BY <1>4 DEF RunnerIsKilled, PaneIsTruthful, Unknown
<1> QED BY <1>1, <1>2, <1>3, <1>4
    DEF SessionNext, Spawn, SpawnLegacy, SpawnSession, SpawnFails, SpawnSave, SpawnRespawn, SpawnLoad,
        SpawnStore, Run, RunnerRead, RunnerLaunches, RunnerReportsMissing, RunnerRecordsRunning, RunnerReaps,
        RunnerFinishes, RunnerStartsChild, WriteState, Agent, AgentEndsTurn, AgentExits, HangUp, RunnerHangsUp,
        AgentHangsUp, Fault, SessionIsLost, Kill, KillSession, KillCleanup, Passing, Age, DayPasses,
        CollectStale, Poll, PollBegin, PollSnapshot, PollWait, PollReconcile, PollCapture, PollSave,
        PollLegacyClaude, PollLegacySave, PollLegacyCodex

\* Steps other than a poll's leave what the poll keeps alone.
LEMMA PollRests == ASSUME SessionNext, ~Poll PROVE UNCHANGED pollVars
BY DEF SessionNext, Spawn, SpawnLegacy, SpawnSession, SpawnFails, SpawnSave, SpawnRespawn, SpawnLoad,
   SpawnStore, Run, RunnerRead, RunnerLaunches, RunnerReportsMissing, RunnerRecordsRunning, RunnerReaps,
   RunnerFinishes, RunnerStartsChild, RunnerExits, WriteState, Agent, AgentEndsTurn, AgentExits, HangUp,
   RunnerHangsUp, AgentHangsUp, Fault, RunnerIsKilled, SessionIsLost, Kill, KillSession, KillCleanup,
   Passing, Age, DayPasses, CollectStale

\* A poll changes neither the session nor the spawn, and at its end keeps nothing.
LEMMA PollActs ==
  ASSUME Poll
  PROVE  UNCHANGED <<envVars, paneVars, command, spawnVars, runVars, child, killer>>
BY DEF Poll, PollBegin, PollSnapshot, PollWait, PollReconcile, PollCapture, PollSave, PollLegacyClaude,
   PollLegacySave, PollLegacyCodex

LEMMA AnswerForgets ==
  ASSUME NEW state, NEW via, NEW advanced, Answer(state, via, advanced)
  PROVE  /\ poller' = "idle" /\ ~seen'.dead /\ ~IsTerminal(pollCopy') /\ pollCopy'.life = ""
         /\ pollCopy' = EmptyState
         /\ verdict'.state = state /\ verdict'.via = via /\ verdict'.advanced = advanced
BY DEF Answer, NothingSeen, IsTerminal, EmptyState
LEMMA NoVerdictFields == NoVerdict.state = "" /\ NoVerdict.via = "runner"
BY DEF NoVerdict

LEMMA PollStep == ASSUME SessionTypeOK, EarnedInv, SessionNext PROVE PollIsTruthful'
<1> Course /\ PaneIsTruthful /\ PollIsTruthful
  BY DEF EarnedInv
<1>0. (Earned => Earned') /\ (child.marker => child'.marker)
  BY AgentOnlyAdvances
<1>1. CASE ~Poll
  BY <1>0, <1>1, PollRests DEF pollVars, PollIsTruthful
<1>2. CASE \E state, via, advanced : Answer(state, via, advanced)
  BY <1>2, AnswerForgets DEF PollIsTruthful
<1>3. CASE PollSnapshot
  BY <1>0, <1>3 DEF PollSnapshot, Snapshot, PaneIsTruthful, PollIsTruthful
<1>4. CASE PollReconcile /\ poller' = "capture"
  <2>1. seen'.dead = seen.dead /\ seen'.status = seen.status
    BY <1>4, TypeParts DEF PollReconcile, Answer, PollTypeOK
  <2> QED BY <1>0, <1>4, <2>1 DEF PollIsTruthful
<1>5. CASE PollCapture /\ poller' = "save" /\ child.marker /\ seen' = seen
  BY <1>0, <1>5 DEF PollIsTruthful
<1>6. CASE seen' = seen /\ poller' # "save"
  BY <1>0, <1>6 DEF PollIsTruthful
<1> QED BY <1>1, <1>2, <1>3, <1>4, <1>5, <1>6
    DEF Poll, PollBegin, PollWait, PollReconcile, PollCapture, PromptCompleted, PollSave, PollLegacyClaude,
        PollLegacySave, PollLegacyCodex

\* What success may be read from.
LEMMA ScriptSuccess ==
  ASSUME NEW code PROVE ScriptResult(code) = "success" <=> code = 0
BY DEF ScriptResult
LEMMA StatusSuccess ==
  ASSUME NEW code, ResultFromExitCode(code) = "success" PROVE code = 0
BY ScriptSuccess DEF ResultFromExitCode

LEMMA FinishedFields ==
  ASSUME NEW s \in SessionFile, NEW result
  PROVE  IsTerminal(Finished(s, result)) /\ Finished(s, result).result = result
BY DEF Finished, SessionFile, IsTerminal

LEMMA ReconciledIsTruthful ==
  ASSUME SessionTypeOK, EarnedInv PROVE Truthful(Reconciled(pollCopy, seen))
<1> Truthful(pollCopy) /\ PollIsTruthful /\ pollCopy \in SessionFile
  BY TypeParts DEF EarnedInv, CopiesAreTruthful, FilesTypeOK
<1>1. CASE seen.exists /\ seen.dead
  BY <1>1, StatusSuccess, FinishedFields DEF Reconciled, Truthful, PollIsTruthful
<1>2. CASE ~(seen.exists /\ seen.dead)
  BY <1>2, FinishedFields DEF Reconciled, Truthful
<1> QED BY <1>1, <1>2

LEMMA CopiesStep == ASSUME SessionTypeOK, EarnedInv, SessionNext PROVE CopiesAreTruthful'
<1> Course /\ PaneIsTruthful /\ PollIsTruthful /\ CopiesAreTruthful
  BY DEF EarnedInv
<1> file \in SessionFile /\ spawnCopy \in SessionFile /\ pollCopy \in SessionFile
  BY TypeParts DEF FilesTypeOK
<1>0. (Earned => Earned') /\ (child.marker => child'.marker)
  BY AgentOnlyAdvances
<1> USE DEF CopiesAreTruthful, Truthful
<1>a. ~IsTerminal(Absent) /\ ~IsTerminal(EmptyState)
  BY DEF IsTerminal, Absent, EmptyState
<1>1. CASE UNCHANGED <<file, spawnCopy, pollCopy>>
  BY <1>0, <1>1
<1>2. CASE Spawn
  <2>1. ~IsTerminal([EmptyState EXCEPT !.schema = 1, !.life = "created", !.agent = TRUE])
    BY DEF IsTerminal, EmptyState
  <2>2. Truthful([Loaded EXCEPT !.old = FALSE])
    BY <1>a DEF Loaded, IsTerminal, EmptyState, SessionFile
  <2> QED BY <1>0, <1>2, <1>a, <2>1, <2>2
      DEF Spawn, SpawnLegacy, SpawnSession, SpawnFails, SpawnSave, SpawnRespawn, SpawnLoad, SpawnStore,
          CleanupArtifacts, pollVars
<1>3. CASE Run
  <2>1. CASE RunnerLaunches \/ RunnerReportsMissing \/ RunnerRecordsRunning
    <3>1. IsTerminal(file') => file'.result # "success"
      BY <2>1 DEF RunnerLaunches, RunnerReportsMissing, RunnerRecordsRunning, WriteState, IsTerminal, EmptyState
    <3> QED BY <1>0, <2>1, <3>1 DEF RunnerLaunches, RunnerReportsMissing, RunnerRecordsRunning, WriteState,
            spawnVars, pollVars
  <2>2. CASE RunnerFinishes
    <3>1. file'.result = ScriptResult(child.code)
      BY <2>2 DEF RunnerFinishes, WriteState, EmptyState
    <3>2. file'.result = "success" => Earned
      BY <2>2, <3>1, ScriptSuccess DEF RunnerFinishes, Course, Earned
    <3> QED BY <1>0, <2>2, <3>2 DEF RunnerFinishes, WriteState, spawnVars, pollVars
  <2> QED BY <1>1, <1>3, <2>1, <2>2
      DEF Run, RunnerRead, RunnerStartsChild, RunnerReaps, RunnerExits, spawnVars, pollVars
<1>4. CASE KillCleanup \/ Passing
  <2>1. Truthful([file EXCEPT !.old = TRUE])
    BY DEF IsTerminal, SessionFile
  <2> QED BY <1>0, <1>4, <1>a, <2>1
      DEF KillCleanup, CleanupArtifacts, Passing, Age, DayPasses, CollectStale, spawnVars, pollVars
<1>5. CASE Poll
  <2>0. spawnCopy' = spawnCopy /\ Earned' = Earned
    BY <1>5, PollActs DEF spawnVars, Earned
  <2>1. pollCopy' \in {EmptyState, pollCopy, file} \/ PollLegacyClaude
    BY <1>5 DEF Poll, PollBegin, PollSnapshot, PollWait, PollReconcile, PollCapture, PollSave, PollLegacySave,
       PollLegacyCodex, Answer
  <2>2. Truthful(pollCopy)'
    <3>1. CASE PollLegacyClaude
      BY <1>a, <2>0, <3>1 DEF PollLegacyClaude, Answer, IsTerminal, EmptyState
    <3> QED BY <1>a, <2>0, <2>1, <3>1
  <2>3. Truthful(file)'
    <3>1. CASE PollReconcile
      BY <2>0, <3>1, ReconciledIsTruthful DEF PollReconcile
    <3>2. CASE PollSave
      BY <2>0, <3>2, FinishedFields DEF PollSave, PollIsTruthful, Earned
    <3>3. CASE PollLegacySave
      <4>1. ASSUME NEW screen
            PROVE  Truthful([pollCopy EXCEPT !.active = @ \/ screen.done \/ screen.activity,
                                             !.time = screen.time # "none"])
        BY DEF IsTerminal, SessionFile
      <4> QED BY <2>0, <3>3, <4>1 DEF PollLegacySave
    <3>4. CASE file' \in {file, Absent}
      BY <1>a, <2>0, <3>4
    <3> QED BY <1>5, <3>1, <3>2, <3>3, <3>4
        DEF Poll, PollBegin, PollSnapshot, PollWait, PollCapture, PollLegacyClaude, PollLegacyCodex
  <2> QED BY <2>0, <2>2, <2>3
<1> QED BY <1>1, <1>2, <1>3, <1>4, <1>5
    DEF SessionNext, Agent, AgentEndsTurn, AgentExits, HangUp, RunnerHangsUp, AgentHangsUp, Fault,
        RunnerIsKilled, SessionIsLost, Kill, KillSession, spawnVars, pollVars

LEMMA InitEarned == SessionInit => EarnedInv
<1> SUFFICES ASSUME SessionInit PROVE EarnedInv
  OBVIOUS
<1>1. Course /\ PaneIsTruthful /\ PollIsTruthful
  BY DEF SessionInit, Course, PaneIsTruthful, PollIsTruthful, NothingSeen
<1>2. CopiesAreTruthful
  BY DEF SessionInit, CopiesAreTruthful, Truthful, IsTerminal, Absent, EmptyState
<1> QED BY <1>1, <1>2 DEF EarnedInv

LEMMA StutterEarned == ASSUME EarnedInv, UNCHANGED sessionVars PROVE EarnedInv'
BY DEF EarnedInv, Course, PaneIsTruthful, PollIsTruthful, CopiesAreTruthful, Truthful, Earned, IsTerminal,
   sessionVars, envVars, paneVars, spawnVars, runVars, pollVars

\* Every copy of the state that a writer may still put back is as true as the file, for
\* every interleaving of spawner, runner, poller and collection (update_session_state).
THEOREM EarnedInvariant == SessionSpec => []EarnedInv
<1>1. ASSUME SessionTypeOK, EarnedInv, [SessionNext]_sessionVars PROVE EarnedInv'
  <2>1. CASE SessionNext
    BY <1>1, <2>1, CourseStep, PaneStep, PollStep, CopiesStep DEF EarnedInv
  <2> QED BY <1>1, <2>1, StutterEarned
<1> QED BY <1>1, InitEarned, SessionTypes, PTL DEF SessionSpec

\* A state that records success was earned, whoever wrote it and whatever it overwrote
\* (write_state, _reconcile_runner_state, _runner_claude_prompt_completed).
THEOREM SuccessEarned == SessionSpec => []SuccessIsEarned
<1>1. EarnedInv => SuccessIsEarned
  BY DEF EarnedInv, CopiesAreTruthful, Truthful, Earned, SuccessIsEarned
<1> QED BY <1>1, EarnedInvariant, PTL

(***************************************************************************)
(* A session that nobody killed is given up only when its agent has ended. *)
(***************************************************************************)
RunnerIsOver == ~ChildAlive /\ runner \in {"exit", "gone"}
GivenUp(s) == IsTerminal(s) /\ s.result # "success"
\* A state that names a running agent names both processes, and the runner has started.
NamesProcesses(s) == s.life = "running" => s.runner /\ s.child /\ runner # "off"
Grounded(s) == NamesProcesses(s) /\ (GivenUp(s) /\ ~faulted => RunnerIsOver)

\* A legacy session has no runner and no runner's verdict.
LegacyIsApart ==
  mode = "legacy" =>
    /\ spawner \in {"idle", "done"} /\ runner = "off" /\ poller \in {"idle", "legacy", "legacySave"}
    /\ verdict.via = "runner" => verdict.state = ""

\* What an unfaulted session keeps: its pane, its command file until the runner took it.
Unfaulted ==
  ~faulted =>
    /\ spawner # "failed" /\ killer = "idle"
    /\ spawner # "idle" => Exists
    /\ tmux = "dead" => runner = "gone"
    /\ runner \in {"exit", "gone"} => ~ChildAlive
    /\ mode # "legacy" /\ spawner \in {"loaded", "done", "respawned"} => runner # "off"
    /\ expired => runner \in {"off", "wait", "finish", "finishWrite", "exit", "gone"} /\ spawner = "done"
    /\ mode # "legacy" /\ spawner # "idle" /\ runner \in {"off", "launch", "launchWrite", "check"} => command
    /\ runner \notin {"missing", "missingWrite"}
PollIsGrounded ==
  /\ poller # "idle" => spawner # "idle"
  /\ ~faulted /\ poller \in {"wait", "reconcile", "reconcileAgain", "capture"} => seen.exists
  /\ ~faulted /\ seen.dead => runner = "gone"
  /\ poller = "legacySave" => pollCopy.life = ""
CopiesAreGrounded == Grounded(file) /\ Grounded(spawnCopy) /\ Grounded(pollCopy)

RealInv == LegacyIsApart /\ Unfaulted /\ PollIsGrounded /\ CopiesAreGrounded /\ CrashMeansOver


LEMMA InitReal == SessionInit => RealInv
<1> SUFFICES ASSUME SessionInit PROVE RealInv
  OBVIOUS
<1>1. LegacyIsApart /\ Unfaulted /\ PollIsGrounded /\ CrashMeansOver
  BY DEF SessionInit, LegacyIsApart, Unfaulted, PollIsGrounded, CrashMeansOver, Exists, NoVerdict, NothingSeen
<1>2. CopiesAreGrounded
  BY DEF SessionInit, CopiesAreGrounded, Grounded, NamesProcesses, GivenUp, IsTerminal, Absent, EmptyState
<1> QED BY <1>1, <1>2 DEF RealInv

\* What no step takes back: the mode, a fault, a spawn, a runner that started.
LEMMA Kept ==
  ASSUME SessionNext
  PROVE  /\ mode' = mode /\ (faulted => faulted')
         /\ spawner # "idle" => spawner' # "idle"
         /\ runner # "off" => runner' # "off"
<1>1. CASE Poll
  BY <1>1, PollActs DEF envVars, spawnVars, runVars
<1>2. CASE Spawn
  BY <1>2 DEF Spawn, SpawnLegacy, SpawnSession, SpawnFails, SpawnSave, SpawnRespawn, SpawnLoad, SpawnStore,
     envVars, runVars
<1>3. CASE Run
  BY <1>3 DEF Run, RunnerRead, RunnerStartsChild, RunnerLaunches, RunnerReportsMissing, RunnerRecordsRunning,
     RunnerReaps, RunnerFinishes, RunnerExits, WriteState, envVars, spawnVars
<1>4. CASE Agent \/ HangUp
  <2>1. UNCHANGED <<mode, faulted, spawner>> /\ runner' \in {runner, "gone"}
    BY <1>4 DEF Agent, AgentEndsTurn, AgentExits, HangUp, RunnerHangsUp, AgentHangsUp, envVars, spawnVars, runVars
  <2> QED BY <2>1
<1>6. CASE KillCleanup \/ Passing
  <2>1. UNCHANGED <<mode, faulted, spawner, runner>>
    BY <1>6 DEF KillCleanup, Passing, Age, DayPasses, CollectStale, envVars, spawnVars, runVars
  <2> QED BY <2>1
<1>5. CASE Fault \/ KillSession
  BY <1>5 DEF Fault, RunnerIsKilled, SessionIsLost, KillSession, spawnVars, runVars
<1> QED BY <1>1, <1>2, <1>3, <1>4, <1>5, <1>6 DEF SessionNext, Kill

\* A runner that is over stays over.
LEMMA OverStays == ASSUME SessionTypeOK, Course, SessionNext, RunnerIsOver PROVE RunnerIsOver'
<1> child \in ChildRecords
  BY TypeParts DEF ProcessTypeOK
<1>1. CASE Poll
  BY <1>1, PollActs DEF runVars, RunnerIsOver, ChildAlive
<1>2. CASE Spawn
  BY <1>2 DEF Spawn, SpawnLegacy, SpawnSession, SpawnFails, SpawnSave, SpawnRespawn, SpawnLoad, SpawnStore,
     Course, RunnerIsOver, ChildAlive, runVars
<1>3. CASE Run
  BY <1>3 DEF Run, RunnerRead, RunnerStartsChild, RunnerLaunches, RunnerReportsMissing, RunnerRecordsRunning,
     RunnerReaps, RunnerFinishes, RunnerExits, RunnerIsOver, ChildAlive
<1>4. CASE Agent \/ HangUp \/ Fault \/ Kill \/ Passing
  BY <1>4 DEF Agent, AgentEndsTurn, AgentExits, HangUp, RunnerHangsUp, AgentHangsUp, Fault, RunnerIsKilled,
     SessionIsLost, Kill, KillSession, KillCleanup, Passing, Age, DayPasses, CollectStale, RunnerIsOver,
     ChildAlive, runVars
<1> QED BY <1>1, <1>2, <1>3, <1>4 DEF SessionNext

LEMMA LegacyStep == ASSUME LegacyIsApart, SessionNext PROVE LegacyIsApart'
<1> SUFFICES ASSUME mode = "legacy"
             PROVE  /\ spawner' \in {"idle", "done"} /\ runner' = "off"
                    /\ poller' \in {"idle", "legacy", "legacySave"}
                    /\ verdict'.via = "runner" => verdict'.state = ""
  BY Kept DEF LegacyIsApart
<1>0. /\ spawner \in {"idle", "done"} /\ runner = "off" /\ poller \in {"idle", "legacy", "legacySave"}
      /\ verdict.via = "runner" => verdict.state = ""
  BY DEF LegacyIsApart
<1>1. CASE Poll
  <2>1. spawner' = spawner /\ runner' = runner
    BY <1>1, PollActs DEF spawnVars, runVars
  <2>2. CASE PollBegin
    <3>1. poller' = "legacy" /\ verdict' = NoVerdict
      BY <2>2 DEF PollBegin, StatusMode
    <3> QED BY <1>0, <2>1, <3>1 DEF NoVerdict
  <2>3. CASE poller' = "legacySave" /\ verdict' = verdict
    BY <1>0, <2>1, <2>3
  <2>4. CASE \E state, advanced : Answer(state, "legacy", advanced)
    <3>1. PICK state, advanced : Answer(state, "legacy", advanced)
      BY <2>4
    <3>2. poller' = "idle" /\ verdict'.via = "legacy"
      BY <3>1 DEF Answer
    <3> QED BY <1>0, <2>1, <3>2
  <2>5. CASE PollLegacyClaude \/ PollLegacySave \/ PollLegacyCodex
    BY <2>3, <2>4, <2>5 DEF PollLegacyClaude, PollLegacySave, PollLegacyCodex
  <2> QED BY <1>0, <1>1, <2>2, <2>5
      DEF Poll, PollSnapshot, PollWait, PollReconcile, PollCapture, PollSave
<1>2. CASE Spawn
  BY <1>0, <1>2 DEF Spawn, SpawnLegacy, SpawnSession, SpawnFails, SpawnSave, SpawnRespawn, SpawnLoad,
     SpawnStore, ResolveSpawnMode, runVars, pollVars
<1>3. CASE Run \/ Agent \/ HangUp \/ Fault \/ Kill \/ Passing
  <2>1. UNCHANGED <<runner, spawner>>
    BY <1>0, <1>3 DEF Run, RunnerRead, RunnerStartsChild, RunnerLaunches, RunnerReportsMissing, RunnerRecordsRunning,
       RunnerReaps, RunnerFinishes, RunnerExits, Agent, AgentEndsTurn, AgentExits, HangUp, RunnerHangsUp,
       RunnerAlive, AgentHangsUp, Fault, RunnerIsKilled, SessionIsLost, Kill, KillSession, KillCleanup, Passing,
       Age, DayPasses, CollectStale, spawnVars, runVars
  <2>2. CASE Poll
    BY <1>1, <2>2
  <2>3. CASE ~Poll
    BY <1>0, <2>1, <2>3, PollRests DEF pollVars
  <2> QED BY <2>2, <2>3
<1> QED BY <1>1, <1>2, <1>3 DEF SessionNext

LEMMA UnfaultedStep == ASSUME SessionTypeOK, Course, LegacyIsApart, Unfaulted, SessionNext PROVE Unfaulted'
<1> SUFFICES ASSUME ~faulted' PROVE Unfaulted'
  BY DEF Unfaulted
<1> ~faulted
  BY Kept
<1> child \in ChildRecords
  BY TypeParts DEF ProcessTypeOK
<1>1. CASE UNCHANGED <<mode, tmux, spawner, runner, child, command, killer, expired>>
  BY <1>1 DEF Unfaulted, Exists, ChildAlive
<1>2. CASE Spawn
  <2> USE DEF Unfaulted, Exists, ChildAlive, Course, envVars, paneVars, runVars
  <2>1. CASE SpawnLegacy
    BY <2>1 DEF SpawnLegacy, ResolveSpawnMode
  <2>2. CASE SpawnSession
    BY <2>2 DEF SpawnSession
  <2>3. CASE SpawnRespawn
    BY <2>3 DEF SpawnRespawn
  <2>4. CASE SpawnSave \/ SpawnLoad \/ SpawnStore
    BY <2>4 DEF SpawnSave, SpawnLoad, SpawnStore, LegacyIsApart
  <2> QED BY <1>2, <2>1, <2>2, <2>3, <2>4 DEF Spawn, SpawnFails
<1>3. CASE Run
  <2> USE DEF Unfaulted, Exists, ChildAlive, Course, envVars, paneVars, spawnVars
  <2>1. CASE RunnerRead \/ RunnerReaps
    BY <2>1 DEF RunnerRead, RunnerReaps
  <2>2. CASE RunnerStartsChild
    BY <2>2 DEF RunnerStartsChild, LegacyIsApart
  <2>3. CASE RunnerLaunches \/ RunnerReportsMissing \/ RunnerRecordsRunning \/ RunnerFinishes
    BY <2>3 DEF RunnerLaunches, RunnerReportsMissing, RunnerRecordsRunning, RunnerFinishes, WriteState
  <2>4. CASE RunnerExits
    BY <2>4 DEF RunnerExits
  <2> QED BY <1>3, <2>1, <2>2, <2>3, <2>4 DEF Run
<1>4. CASE Agent \/ HangUp
  BY <1>4 DEF Agent, AgentEndsTurn, AgentExits, HangUp, RunnerHangsUp, AgentHangsUp, RunnerAlive, Unfaulted,
     Exists, ChildAlive, Course, envVars, paneVars, spawnVars, runVars, ChildRecords
<1>5. CASE DayPasses \/ CollectStale \/ KillCleanup
  BY <1>5 DEF DayPasses, CollectStale, KillCleanup, Unfaulted, Exists, ChildAlive, Course, envVars, paneVars,
     spawnVars, runVars
<1> QED BY <1>1, <1>2, <1>3, <1>4, <1>5, PollActs
    DEF SessionNext, Fault, RunnerIsKilled, SessionIsLost, Kill, KillSession, Passing, Age,
        envVars, paneVars, spawnVars, runVars

LEMMA PollGroundedStep ==
  ASSUME SessionTypeOK, Course, Unfaulted, PollIsGrounded, SessionNext PROVE PollIsGrounded'
<1>0. /\ spawner # "idle" => spawner' # "idle"
      /\ faulted => faulted'
      /\ ~faulted /\ runner = "gone" => runner' = "gone"
  <2>1. ASSUME ~faulted, runner = "gone" PROVE runner' = "gone"
    <3>1. RunnerIsOver
      BY <2>1 DEF Unfaulted, RunnerIsOver
    <3>2. CASE Poll
      BY <2>1, <3>2, PollActs DEF runVars
    <3>3. CASE ~Poll
      BY <2>1, <3>3 DEF SessionNext, Spawn, SpawnLegacy, SpawnSession, SpawnFails, SpawnSave, SpawnRespawn, SpawnLoad, SpawnStore,
        Run, RunnerRead, RunnerStartsChild, RunnerLaunches, RunnerReportsMissing, RunnerRecordsRunning,
        RunnerReaps, RunnerFinishes, RunnerExits, WriteState, Agent, AgentEndsTurn, AgentExits, HangUp,
        RunnerHangsUp, AgentHangsUp, Fault, RunnerIsKilled, SessionIsLost, Kill, KillSession, KillCleanup,
        Passing, Age, DayPasses, CollectStale, Course, runVars
    <3> QED BY <3>2, <3>3
  <2> QED BY <2>1, Kept
<1>1. CASE ~Poll
  BY <1>0, <1>1, PollRests DEF pollVars, PollIsGrounded
<1>2. CASE \E state, via, advanced : Answer(state, via, advanced)
  BY <1>2, AnswerForgets DEF PollIsGrounded
<1>3. CASE PollBegin
  BY <1>0, <1>2, <1>3 DEF PollBegin, PollIsGrounded
<1>4. CASE PollSnapshot
  BY <1>0, <1>4 DEF PollSnapshot, Snapshot, PollIsGrounded, Unfaulted, Exists
<1>5. CASE PollReconcile /\ poller' = "capture"
  <2>1. seen'.dead = seen.dead /\ seen'.exists = seen.exists
    BY <1>5, TypeParts DEF PollReconcile, Answer, PollTypeOK
  <2> QED BY <1>0, <1>5, <2>1 DEF PollReconcile, PollIsGrounded
<1>6. CASE PollWait \/ PollCapture
  BY <1>0, <1>2, <1>6 DEF PollWait, PollCapture, PollIsGrounded
<1>7. CASE PollLegacyClaude
  BY <1>0, <1>2, <1>7 DEF PollLegacyClaude, PollIsGrounded, EmptyState
<1> QED BY <1>1, <1>2, <1>3, <1>4, <1>5, <1>6, <1>7
    DEF Poll, PollReconcile, PollSave, PollLegacySave, PollLegacyCodex

\* What was read from a state stays so while processes only go on.
LEMMA GroundedStays ==
  ASSUME SessionTypeOK, Course, SessionNext, NEW s, Grounded(s)
  PROVE  /\ s.life = "running" => s.runner /\ s.child /\ runner' # "off"
         /\ GivenUp(s) /\ ~faulted' => RunnerIsOver'
BY Kept, OverStays DEF Grounded, NamesProcesses

\* A poll gives up what a reconciliation found over.
LEMMA ReconciledIsGrounded ==
  ASSUME SessionTypeOK, RealInv, poller \in {"reconcile", "reconcileAgain"}
  PROVE  Grounded(Reconciled(pollCopy, seen))
<1> Grounded(pollCopy) /\ pollCopy \in SessionFile /\ Unfaulted /\ PollIsGrounded
  BY TypeParts DEF RealInv, CopiesAreGrounded, FilesTypeOK
<1>0. ASSUME NEW result PROVE Finished(pollCopy, result).life = "finished"
  BY DEF Finished, SessionFile
<1>1. CASE seen.exists /\ seen.dead
  <2>1. ~faulted => RunnerIsOver
    BY <1>1 DEF PollIsGrounded, Unfaulted, RunnerIsOver
  <2> QED BY <1>0, <1>1, <2>1 DEF Reconciled, Grounded, NamesProcesses
<1>2. CASE ~(seen.exists /\ seen.dead) /\ pollCopy.life = "running" /\ ~Snapshot(pollCopy).child
           /\ ~Snapshot(pollCopy).runner
  <2>1. RunnerIsOver
    BY <1>2 DEF Snapshot, Grounded, NamesProcesses, RunnerAlive, RunnerIsOver
  <2> QED BY <1>0, <1>2, <2>1 DEF Reconciled, Grounded, NamesProcesses
<1>3. CASE ~seen.exists
  <2>1. faulted
    BY <1>3 DEF PollIsGrounded
  <2> QED BY <1>0, <1>2, <1>3, <2>1 DEF Reconciled, Grounded, NamesProcesses
<1> QED BY <1>1, <1>2, <1>3 DEF Reconciled

LEMMA GroundedStep == ASSUME SessionTypeOK, Course, RealInv, SessionNext PROVE CopiesAreGrounded'
<1> Unfaulted /\ CopiesAreGrounded
  BY DEF RealInv
<1> file \in SessionFile /\ spawnCopy \in SessionFile /\ pollCopy \in SessionFile
  BY TypeParts DEF FilesTypeOK
<1> DEFINE Holds(s) == /\ s.life = "running" => s.runner /\ s.child /\ runner' # "off"
                       /\ GivenUp(s) /\ ~faulted' => RunnerIsOver'
<1>a. Holds(Absent) /\ Holds(EmptyState)
  BY DEF GivenUp, IsTerminal, Absent, EmptyState
<1>b. Holds(file) /\ Holds(spawnCopy) /\ Holds(pollCopy)
  BY GroundedStays DEF CopiesAreGrounded
<1> SUFFICES Holds(file') /\ Holds(spawnCopy') /\ Holds(pollCopy')
  BY DEF CopiesAreGrounded, Grounded, NamesProcesses, GivenUp, IsTerminal
<1>1. CASE UNCHANGED <<file, spawnCopy, pollCopy>>
  BY <1>b, <1>1
<1>2. CASE Spawn
  <2>1. Holds([EmptyState EXCEPT !.schema = 1, !.life = "created", !.agent = TRUE])
    BY DEF GivenUp, IsTerminal, EmptyState
  <2>2. Holds([Loaded EXCEPT !.old = FALSE])
    BY <1>a, <1>b DEF Loaded, GivenUp, IsTerminal, EmptyState, SessionFile
  <2> HIDE DEF Holds
  <2> QED BY <1>2, <1>a, <1>b, <2>1, <2>2
      DEF Spawn, SpawnLegacy, SpawnSession, SpawnFails, SpawnSave, SpawnRespawn, SpawnLoad, SpawnStore,
          CleanupArtifacts, pollVars
<1>3. CASE Run
  <2>1. ASSUME NEW life, NEW result, NEW hasChild, NEW next, WriteState(life, result, hasChild, next)
        PROVE  /\ file'.life = life /\ file'.result = result /\ file'.runner /\ file'.child = hasChild
               /\ runner' = next /\ UNCHANGED <<spawnCopy, pollCopy>>
    BY <2>1 DEF WriteState, EmptyState, spawnVars, pollVars
  <2>2. CASE RunnerLaunches
    BY <1>b, <2>1, <2>2 DEF RunnerLaunches, GivenUp, IsTerminal
  <2>3. CASE RunnerReportsMissing
    BY <1>b, <2>1, <2>3, Kept DEF RunnerReportsMissing, Unfaulted
  <2>4. CASE RunnerRecordsRunning
    <3>1. file'.life = "running" /\ file'.runner /\ file'.child /\ runner' = "wait"
          /\ UNCHANGED <<spawnCopy, pollCopy>>
      BY <2>4 DEF RunnerRecordsRunning, WriteState, EmptyState, spawnVars, pollVars
    <3> QED BY <1>b, <3>1 DEF GivenUp, IsTerminal
  <2>5. CASE RunnerFinishes
    <3>1. RunnerIsOver' /\ file'.life = "finished"
      BY <2>1, <2>5 DEF RunnerFinishes, Course, RunnerIsOver, ChildAlive
    <3> QED BY <1>b, <2>1, <2>5, <3>1 DEF RunnerFinishes
  <2> QED BY <1>1, <1>3, <2>2, <2>3, <2>4, <2>5
      DEF Run, RunnerRead, RunnerStartsChild, RunnerReaps, RunnerExits, spawnVars, pollVars
<1>4. CASE KillCleanup \/ Passing
  <2>1. Holds([file EXCEPT !.old = TRUE])
    BY <1>b DEF GivenUp, IsTerminal, SessionFile
  <2> HIDE DEF Holds
  <2> QED BY <1>4, <1>a, <1>b, <2>1
      DEF KillCleanup, CleanupArtifacts, Passing, Age, DayPasses, CollectStale, spawnVars, pollVars
<1>5. CASE Poll
  <2>0. spawnCopy' = spawnCopy
    BY <1>5, PollActs DEF spawnVars
  <2>2. Holds(pollCopy')
    <3>1. CASE PollLegacyClaude
      BY <1>a, <3>1 DEF PollLegacyClaude, Answer, GivenUp, IsTerminal, EmptyState
    <3>2. CASE pollCopy' \in {EmptyState, pollCopy, file}
      BY <1>a, <1>b, <3>2
    <3> QED BY <1>5, <3>1, <3>2
        DEF Poll, PollBegin, PollSnapshot, PollWait, PollReconcile, PollCapture, PollSave, PollLegacySave,
            PollLegacyCodex, Answer
  <2>3. Holds(file')
    <3>1. CASE PollReconcile
      <4>1. Holds(Reconciled(pollCopy, seen))
        BY <3>1, ReconciledIsGrounded, GroundedStays DEF PollReconcile
      <4> HIDE DEF Holds
      <4> QED BY <1>b, <3>1, <4>1 DEF PollReconcile
    <3>2. CASE PollSave
      <4>1. Finished(pollCopy, "success").life = "finished" /\ Finished(pollCopy, "success").result = "success"
        BY DEF Finished, SessionFile
      <4> QED BY <3>2, <4>1 DEF PollSave, GivenUp
    <3>3. CASE PollLegacySave
      <4>1. ASSUME NEW screen
            PROVE  Holds([pollCopy EXCEPT !.active = @ \/ screen.done \/ screen.activity,
                                          !.time = screen.time # "none"])
        BY <1>b DEF GivenUp, IsTerminal, SessionFile
      <4> HIDE DEF Holds
      <4> QED BY <1>b, <3>3, <4>1 DEF PollLegacySave
    <3>4. CASE file' \in {file, Absent}
      BY <1>a, <1>b, <3>4
    <3> QED BY <1>5, <3>1, <3>2, <3>3, <3>4
        DEF Poll, PollBegin, PollSnapshot, PollWait, PollCapture, PollLegacyClaude, PollLegacyCodex
  <2> QED BY <1>b, <2>0, <2>2, <2>3
<1> QED BY <1>1, <1>2, <1>3, <1>4, <1>5
    DEF SessionNext, Agent, AgentEndsTurn, AgentExits, HangUp, RunnerHangsUp, AgentHangsUp, Fault,
        RunnerIsKilled, SessionIsLost, Kill, KillSession, spawnVars, pollVars

LEMMA VerdictStep == ASSUME SessionTypeOK, Course, RealInv, SessionNext PROVE CrashMeansOver'
<1> Unfaulted /\ CopiesAreGrounded /\ PollIsGrounded /\ LegacyIsApart /\ CrashMeansOver
  BY DEF RealInv
<1> SUFFICES ASSUME ~faulted', verdict'.via = "runner", verdict'.state \in {"crashed", "stuck", "not_found"}
             PROVE  RunnerIsOver'
  BY DEF CrashMeansOver, RunnerIsOver, ChildAlive
<1> ~faulted
  BY Kept
<1>1. CASE verdict' = verdict
  BY <1>1, OverStays DEF CrashMeansOver, RunnerIsOver
<1>2. CASE verdict' = NoVerdict
  BY <1>2, NoVerdictFields
<1>3. CASE \E state, advanced : Answer(state, "legacy", advanced)
  <2>1. PICK state, advanced : Answer(state, "legacy", advanced)
    BY <1>3
  <2>2. verdict'.via = "legacy"
    BY <2>1 DEF Answer
  <2> QED BY <2>2
<1>4. ASSUME NEW s, Grounded(s), IsTerminal(s), Answer(TerminalVerdict(s), "runner", FALSE)
      PROVE  RunnerIsOver'
  <2>1. s.result # "success"
    BY <1>4, AnswerForgets DEF TerminalVerdict
  <2>2. RunnerIsOver
    BY <1>4, <2>1 DEF Grounded, GivenUp
  <2> QED BY <2>2, OverStays
<1>5. CASE PollBegin
  <2>1. CASE Answer("not_found", "runner", FALSE) /\ ~Exists
    BY <1>5, <2>1 DEF PollBegin, Unfaulted
  <2> QED BY <1>2, <1>4, <1>5, <2>1 DEF PollBegin, CopiesAreGrounded
<1>6. CASE PollWait
  BY <1>1, <1>4, <1>6 DEF PollWait, CopiesAreGrounded
<1>7. CASE PollReconcile
  <2>1. Grounded(Reconciled(pollCopy, seen))
    BY <1>7, ReconciledIsGrounded DEF PollReconcile
  <2> QED BY <1>1, <1>4, <1>7, <2>1 DEF PollReconcile
<1>8. CASE PollCapture
  <2>1. seen.exists
    BY <1>8 DEF PollCapture, PollIsGrounded
  <2>2. PICK state \in {"in_progress", "just_started"} : verdict' = verdict \/ Answer(state, "runner", FALSE)
    BY <1>8, <2>1 DEF PollCapture
  <2> QED BY <1>1, <2>2, AnswerForgets
<1>9. CASE PollSave
  BY <1>9, AnswerForgets DEF PollSave
<1>10. CASE ~Poll
  BY <1>1, <1>10, PollRests DEF pollVars
<1> QED BY <1>1, <1>3, <1>5, <1>6, <1>7, <1>8, <1>9, <1>10
    DEF Poll, PollSnapshot, PollLegacyClaude, PollLegacySave, PollLegacyCodex

LEMMA StutterReal == ASSUME RealInv, UNCHANGED sessionVars PROVE RealInv'
<1>1. LegacyIsApart' /\ Unfaulted' /\ PollIsGrounded' /\ CrashMeansOver'
  BY DEF RealInv, LegacyIsApart, Unfaulted, PollIsGrounded, CrashMeansOver, Exists, ChildAlive, sessionVars,
     envVars, paneVars, spawnVars, runVars, pollVars
<1>2. CopiesAreGrounded'
  BY DEF RealInv, CopiesAreGrounded, Grounded, NamesProcesses, GivenUp, IsTerminal, RunnerIsOver, ChildAlive,
     sessionVars, envVars, spawnVars, runVars, pollVars
<1> QED BY <1>1, <1>2 DEF RealInv

\* What file, copies and poller say of a session nobody killed agrees with its
\* processes (session_status, save_session_state).
THEOREM RealInvariant == SessionSpec => []RealInv
<1>1. ASSUME SessionTypeOK, EarnedInv, RealInv, [SessionNext]_sessionVars PROVE RealInv'
  <2>1. CASE SessionNext
    <3>1. Course /\ LegacyIsApart /\ Unfaulted /\ PollIsGrounded
      BY <1>1 DEF EarnedInv, RealInv
    <3> QED BY <1>1, <2>1, <3>1, LegacyStep, UnfaultedStep, PollGroundedStep, GroundedStep, VerdictStep DEF RealInv
  <2> QED BY <1>1, <2>1, StutterReal
<1> QED BY <1>1, InitReal, SessionTypes, EarnedInvariant, PTL DEF SessionSpec

\* The clock of the status line is proof of life for a legacy poll.
LEMMA ClockStep == ASSUME ClockIsAlive, SessionNext PROVE ClockIsAlive'
<1>1. CASE verdict' = verdict
  BY <1>1 DEF ClockIsAlive
<1>2. CASE verdict' = NoVerdict
  BY <1>2, NoVerdictFields DEF ClockIsAlive
<1>3. CASE \E state, via : Answer(state, via, FALSE)
  BY <1>3, AnswerForgets DEF ClockIsAlive
<1>4. CASE PollLegacySave
  <2>1. ASSUME NEW screen \in Screens, Answer(LegacyClaudeState(pollCopy, screen), "legacy",
                                              pollCopy.time /\ screen.time = "advanced")
        PROVE  ClockIsAlive'
    <3>1. pollCopy.time /\ screen.time = "advanced" => LegacyClaudeState(pollCopy, screen) # "stuck"
      BY DEF LegacyClaudeState
    <3> QED BY <2>1, <3>1, AnswerForgets DEF ClockIsAlive
  <2> QED BY <1>3, <1>4, <2>1 DEF PollLegacySave
<1>5. CASE ~Poll
  BY <1>1, <1>5, PollRests DEF pollVars
<1> QED BY <1>1, <1>2, <1>3, <1>4, <1>5
    DEF Poll, PollBegin, PollSnapshot, PollWait, PollReconcile, PollCapture, PollSave, PollLegacyClaude,
        PollLegacyCodex

\* A session nobody killed is called crashed, stuck or lost only when it is over, its
\* command file is there when its runner wants it, and a clock that runs is not stuck
\* (session_status, cleanup_stale_terminal_artifacts).
THEOREM SessionReal == SessionSpec => []SessionIsReal
<1>1. SessionInit => ClockIsAlive
  BY NoVerdictFields DEF SessionInit, ClockIsAlive
<1>2. ASSUME ClockIsAlive, [SessionNext]_sessionVars PROVE ClockIsAlive'
  BY <1>2, ClockStep DEF sessionVars, pollVars, ClockIsAlive
<1>3. RealInv /\ ClockIsAlive => SessionIsReal
  BY DEF RealInv, Unfaulted, SessionIsReal, CommandIsThere
<1> QED BY <1>1, <1>2, <1>3, RealInvariant, PTL DEF SessionSpec
=============================================================================
