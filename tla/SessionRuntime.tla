--------------------------- MODULE SessionRuntime ---------------------------
(***************************************************************************)
(* One tmux session of the story automator, core/tmux_runtime.py: the      *)
(* command that spawns it, the runner script inside its pane, the agent    *)
(* the runner starts, the commands that poll it and the commands that kill *)
(* it.  They share one JSON state file, which each of them reads first and *)
(* replaces later, with no lock, and one tmux pane.                        *)
(*                                                                         *)
(* A process id is abstracted to whether the file holds it and whether its *)
(* process lives; an exit code stays a number; the text of the pane is     *)
(* reduced to the facts that the code's patterns look for.                 *)
(***************************************************************************)
EXTENDS Integers, FiniteSets

CONSTANTS SessionModes, \* settings of SA_TMUX_RUNTIME
          ExitCodes,    \* exit codes an agent may end with
          LegacyPolls   \* polls a legacy session may stay silent (10 in the code)

ASSUME SessionAssumption ==
  SessionModes \subseteq {"legacy", "runner", "auto"} /\ ExitCodes \subseteq Nat /\ LegacyPolls \in Nat

VARIABLES mode,      \* SA_TMUX_RUNTIME: "legacy", "runner" or "auto"
          agent,     \* the agent the session runs
          tmux,      \* the pane: "none", "placeholder", "live", "shell" or "dead"
          status,    \* exit status of a dead pane, Unknown after a signal
          file,      \* the session's state file
          command,   \* whether the command file is there
          expired,   \* whether the session's files are older than their TTL
          spawner,   \* step of the spawning command
          spawnCopy, \* the state it read before it replaces the file
          runner, runnerCopy,  \* the same of the runner script
          child,     \* the agent: its step, its exit code, what its last turn left on the screen
          killer,    \* step of the killing command
          poller, pollCopy, seen,  \* step of a poll, the state it read, what it saw of the pane
          verdict,   \* what the last poll answered
          faulted    \* whether somebody killed the session or its runner

envVars == <<mode, agent, expired, faulted>>
paneVars == <<tmux, status>>
spawnVars == <<spawner, spawnCopy>>
runVars == <<runner, runnerCopy>>
pollVars == <<poller, pollCopy, seen, verdict>>
sessionVars == <<envVars, paneVars, file, command, spawnVars, runVars, child, killer, pollVars>>

Unknown == -1
Agents == {"claude", "codex"}
Modes == {"legacy", "runner", "auto"}
SpawnSteps == {"idle", "session", "saved", "respawned", "loaded", "done", "failed"}
RunnerSteps == {"off", "launch", "launchWrite", "check", "missing", "missingWrite", "run",
                "runWrite", "wait", "finish", "finishWrite", "exit", "gone"}
PollSteps == {"idle", "snapshot", "wait", "reconcile", "reconcileAgain", "capture", "save",
              "legacy", "legacySave"}
SessionStates == {"", "in_progress", "just_started", "completed", "crashed", "stuck",
                  "not_found", "error"}
Codes == ExitCodes \cup {0, 127, 129}

\* The document that a load of a missing or unreadable file returns, and the missing file.
EmptyState == [schema |-> 0, life |-> "", result |-> "", agent |-> FALSE, runner |-> FALSE,
               child |-> FALSE, old |-> FALSE, polls |-> 0, active |-> FALSE, time |-> FALSE]
Absent == [EmptyState EXCEPT !.life = "absent"]
Loaded == IF file = Absent THEN EmptyState ELSE file

\* What a write of the runner script keeps of the state it read: every other field
\* that some command reads of a runner's state is written anew.
NothingRead == [agent |-> FALSE, child |-> FALSE]

Results == {"", "success", "failure", "interrupted", "spawn_error", "unknown", "never_launched"}
SessionFile == [schema : {0, 1}, life : {"absent", "", "created", "launching", "running", "finished"},
                result : Results, agent : BOOLEAN, runner : BOOLEAN, child : BOOLEAN,
                old : BOOLEAN, polls : 0..(LegacyPolls + 1), active : BOOLEAN, time : BOOLEAN]

IsTerminal(s) == s.life = "finished"
Finished(s, result) == [s EXCEPT !.life = "finished", !.result = result, !.old = FALSE]
Exists == tmux # "none"
RunnerAlive == runner \notin {"off", "gone"}
ChildAlive == child.step \in {"working", "prompt"}

\* The pane and the processes named by a state, as a poll sees them.
Snapshot(s) == [exists |-> Exists, dead |-> tmux = "dead", status |-> status,
                runner |-> s.runner /\ RunnerAlive, child |-> s.child /\ ChildAlive]
NothingSeen == [exists |-> FALSE, dead |-> FALSE, status |-> 0, runner |-> FALSE, child |-> FALSE]

\* Mutant: a result of its own for signals, which no reader of the state knows.
ScriptResultWithSignals(code) ==
  CASE code = 0 -> "success"
    [] code > 128 -> "signal"
    [] OTHER -> "failure"

\* The result the runner script writes for its agent's exit code, ...
ScriptResult(code) ==
  CASE code = 0 -> "success"
    [] code \in {126, 127} -> "spawn_error"
    [] code \in {130, 131, 143} -> "interrupted"
    [] OTHER -> "failure"

\* ... and the one a poll derives from the exit status of a dead pane.
ResultFromExitCode(code) == IF code = Unknown THEN "unknown" ELSE ScriptResult(code)

(***************************************************************************)
(* The spawning command.  A failing tmux command kills the session and     *)
(* removes its files.                                                      *)
(***************************************************************************)
ResolveSpawnMode == IF mode = "legacy" THEN "legacy" ELSE "runner"
CleanupArtifacts == file' = Absent /\ command' = FALSE

SpawnLegacy ==
  /\ spawner = "idle" /\ ResolveSpawnMode = "legacy"
  /\ file' = Absent
  /\ tmux' = "shell"
  /\ child' = [child EXCEPT !.step = "working"]
  /\ spawner' = "done"
  /\ UNCHANGED <<envVars, status, command, spawnCopy, runVars, killer, pollVars>>

SpawnSession ==
  /\ spawner = "idle" /\ ResolveSpawnMode = "runner"
  /\ file' = Absent /\ command' = TRUE
  /\ tmux' = "placeholder"
  /\ spawner' = "session"
  /\ UNCHANGED <<envVars, status, spawnCopy, runVars, child, killer, pollVars>>

SpawnFails ==
  /\ spawner \in {"idle", "session", "saved", "respawned"} /\ ResolveSpawnMode = "runner"
  /\ CleanupArtifacts
  /\ tmux' = "none" /\ faulted' = TRUE
  /\ spawner' = "failed"
  /\ UNCHANGED <<mode, agent, expired, status, spawnCopy, runVars, child, killer, pollVars>>

SpawnSave ==
  /\ spawner = "session" /\ Exists
  /\ file' = [EmptyState EXCEPT !.schema = 1, !.life = "created", !.agent = TRUE]
  /\ spawner' = "saved"
  /\ UNCHANGED <<envVars, paneVars, command, spawnCopy, runVars, child, killer, pollVars>>

SpawnRespawn ==
  /\ spawner = "saved" /\ Exists
  /\ tmux' = "live" /\ runner' = "launch"
  /\ spawner' = "respawned"
  /\ UNCHANGED <<envVars, status, file, command, spawnCopy, runnerCopy, child, killer, pollVars>>

\* update_session_state reads the file ...
SpawnLoad ==
  /\ spawner = "respawned" /\ Exists
  /\ spawnCopy' = [Loaded EXCEPT !.old = FALSE]
  /\ spawner' = "loaded"
  /\ UNCHANGED <<envVars, paneVars, file, command, runVars, child, killer, pollVars>>

\* ... and replaces it by what it read with the new pane's ids.
SpawnStore ==
  /\ spawner = "loaded"
  /\ file' = spawnCopy
  /\ spawner' = "done" /\ spawnCopy' = EmptyState
  /\ UNCHANGED <<envVars, paneVars, command, runVars, child, killer, pollVars>>

Spawn == SpawnLegacy \/ SpawnSession \/ SpawnFails \/ SpawnSave \/ SpawnRespawn \/ SpawnLoad \/ SpawnStore

(***************************************************************************)
(* The runner script.  Each write_state is a read and a later replacement. *)
(***************************************************************************)
RunnerRead ==
  /\ \E step \in {"launch", "missing", "run", "finish"} :
       runner = step /\ runner' = CASE step = "launch" -> "launchWrite" [] step = "missing" -> "missingWrite"
                                    [] step = "run" -> "runWrite" [] step = "finish" -> "finishWrite"
  /\ runnerCopy' = [agent |-> file.agent, child |-> file.child]
  /\ UNCHANGED <<envVars, paneVars, file, command, spawnVars, child, killer, pollVars>>

WriteState(life, result, hasChild, next) ==
  /\ file' = [EmptyState EXCEPT !.schema = 1, !.life = life, !.result = result, !.runner = TRUE,
                                !.child = hasChild, !.agent = runnerCopy.agent]
  /\ runner' = next /\ runnerCopy' = NothingRead
  /\ UNCHANGED <<envVars, paneVars, command, spawnVars, killer, pollVars>>

RunnerLaunches ==
  /\ runner = "launchWrite"
  /\ WriteState("launching", "", runnerCopy.child, "check")
  /\ UNCHANGED child

\* The payload starts before the state says that it runs.
RunnerStartsChild ==
  /\ runner = "check"
  /\ IF command THEN runner' = "run" /\ child' = [child EXCEPT !.step = "working"]
                ELSE runner' = "missing" /\ child' = [child EXCEPT !.code = 127]
  /\ UNCHANGED <<envVars, paneVars, file, command, spawnVars, runnerCopy, killer, pollVars>>

RunnerReportsMissing ==
  /\ runner = "missingWrite"
  /\ WriteState("finished", "spawn_error", runnerCopy.child, "exit")
  /\ UNCHANGED child

RunnerRecordsRunning ==
  /\ runner = "runWrite"
  /\ WriteState("running", "", TRUE, "wait")
  /\ UNCHANGED child

RunnerReaps ==
  /\ runner = "wait" /\ child.step = "exited"
  /\ runner' = "finish"
  /\ UNCHANGED <<envVars, paneVars, file, command, spawnVars, runnerCopy, child, killer, pollVars>>

RunnerFinishes ==
  /\ runner = "finishWrite"
  /\ WriteState("finished", ScriptResult(child.code), TRUE, "exit")
  /\ UNCHANGED child

RunnerExits ==
  /\ runner = "exit"
  /\ runner' = "gone"
  /\ tmux' = IF Exists THEN "dead" ELSE tmux
  /\ status' = IF Exists THEN child.code ELSE status
  /\ UNCHANGED <<envVars, file, command, spawnVars, runnerCopy, child, killer, pollVars>>

Run == RunnerRead \/ RunnerLaunches \/ RunnerStartsChild \/ RunnerReportsMissing
         \/ RunnerRecordsRunning \/ RunnerReaps \/ RunnerFinishes \/ RunnerExits

(***************************************************************************)
(* The agent.  Claude ends its turn and stays at its prompt; the marker    *)
(* that says so names minutes, so a turn shorter than one leaves none.     *)
(***************************************************************************)
AgentEndsTurn ==
  /\ child.step = "working" /\ agent = "claude"
  /\ \E marker \in BOOLEAN : child' = [child EXCEPT !.step = "prompt", !.marker = marker]
  /\ UNCHANGED <<envVars, paneVars, file, command, spawnVars, runVars, killer, pollVars>>

AgentExits ==
  /\ ChildAlive
  /\ \E code \in ExitCodes : child' = [child EXCEPT !.step = "exited", !.code = code]
  /\ UNCHANGED <<envVars, paneVars, file, command, spawnVars, runVars, killer, pollVars>>

\* A process whose terminal is gone receives SIGHUP, some time later.
RunnerHangsUp ==
  /\ RunnerAlive /\ ~Exists
  /\ runner' = "gone" /\ runnerCopy' = NothingRead
  /\ UNCHANGED <<envVars, paneVars, file, command, spawnVars, child, killer, pollVars>>

AgentHangsUp ==
  /\ ChildAlive /\ (~Exists \/ (runner = "gone"))
  /\ child' = [child EXCEPT !.step = "exited", !.code = 129]
  /\ UNCHANGED <<envVars, paneVars, file, command, spawnVars, runVars, killer, pollVars>>

(***************************************************************************)
(* Faults, the killing command and the collection of stale files.  A       *)
(* session meets one fault at most, and a kill once its spawn has ended.   *)
(***************************************************************************)
RunnerIsKilled ==
  /\ RunnerAlive /\ tmux = "live" /\ ~faulted
  /\ runner' = "gone" /\ runnerCopy' = NothingRead
  /\ tmux' = "dead" /\ status' = Unknown /\ faulted' = TRUE
  /\ UNCHANGED <<mode, agent, expired, file, command, spawnVars, child, killer, pollVars>>

SessionIsLost ==
  /\ Exists /\ ~faulted
  /\ tmux' = "none" /\ faulted' = TRUE
  /\ UNCHANGED <<mode, agent, expired, status, file, command, spawnVars, runVars, child, killer, pollVars>>

KillSession ==
  /\ killer = "idle" /\ spawner \in {"done", "failed"}
  /\ tmux' = "none" /\ faulted' = TRUE
  /\ killer' = "killed"
  /\ UNCHANGED <<mode, agent, expired, status, file, command, spawnVars, runVars, child, pollVars>>

KillCleanup ==
  /\ killer = "killed"
  /\ CleanupArtifacts
  /\ killer' = "done"
  /\ UNCHANGED <<envVars, paneVars, spawnVars, runVars, child, pollVars>>

\* Another session's spawn collects this session's files: all of them when its
\* state is terminal, and otherwise the command file when no state protects it.
CollectStale ==
  /\ spawner # "idle" /\ expired
  /\ file' = IF IsTerminal(file) /\ file.old THEN Absent ELSE file
  /\ command' = (command /\ file # Absent /\ ~IsTerminal(file))
  /\ UNCHANGED <<envVars, paneVars, spawnVars, runVars, child, killer, pollVars>>

\* A state grows older than the grace of a launch ...
Age ==
  /\ ~file.old /\ file.life \in {"created", "launching", "finished"}
  /\ file' = [file EXCEPT !.old = TRUE]
  /\ UNCHANGED <<envVars, paneVars, command, spawnVars, runVars, child, killer, pollVars>>

\* ... and the files older than their TTL: a day outlasts a spawn, a launch and a poll.
DayPasses ==
  /\ ~expired /\ spawner \in {"done", "failed"} /\ runner \in {"off", "wait", "gone"}
  /\ poller = "idle" /\ verdict.state # "" /\ killer = "idle" /\ ~faulted /\ file.old
  /\ expired' = TRUE
  /\ UNCHANGED <<mode, agent, faulted, paneVars, file, command, spawnVars, runVars, child,
                 killer, pollVars>>

(***************************************************************************)
(* session_status.                                                         *)
(***************************************************************************)
TerminalVerdict(s) ==
  CASE s.result = "success" -> "completed"
    [] s.result = "never_launched" -> "stuck"
    [] OTHER -> "crashed"

Answer(state, via, advanced) ==
  /\ verdict' = [state |-> state, via |-> via, advanced |-> advanced]
  /\ poller' = "idle" /\ pollCopy' = EmptyState /\ seen' = NothingSeen

NoVerdict == [state |-> "", via |-> "runner", advanced |-> FALSE]

StatusMode == IF mode # "auto" THEN mode ELSE IF file.schema = 1 THEN "runner" ELSE "legacy"

PollBegin ==
  /\ poller = "idle" /\ spawner # "idle"
  /\ IF StatusMode = "legacy" \/ (file = Absent /\ Exists)
     THEN poller' = "legacy" /\ verdict' = NoVerdict /\ UNCHANGED <<pollCopy, seen>>
     ELSE IF file = Absent THEN Answer("not_found", "runner", FALSE)
     ELSE IF IsTerminal(file) THEN Answer(TerminalVerdict(file), "runner", FALSE)
     ELSE poller' = "snapshot" /\ pollCopy' = file /\ verdict' = NoVerdict /\ UNCHANGED seen
  /\ UNCHANGED <<envVars, paneVars, file, command, spawnVars, runVars, child, killer>>

PollSnapshot ==
  /\ poller = "snapshot"
  /\ LET now == Snapshot(pollCopy) IN
     /\ seen' = now
     /\ poller' = IF pollCopy.life = "running" /\ ~now.child THEN "wait" ELSE "reconcile"
  /\ UNCHANGED <<envVars, paneVars, file, command, spawnVars, runVars, child, killer, pollCopy, verdict>>

\* The runner gets a second to write its last state.
PollWait ==
  /\ poller = "wait"
  /\ IF IsTerminal(file) THEN Answer(TerminalVerdict(file), "runner", FALSE)
     ELSE /\ pollCopy' = IF file = Absent THEN pollCopy ELSE file
          /\ poller' = "reconcileAgain"
          /\ UNCHANGED <<seen, verdict>>
  /\ UNCHANGED <<envVars, paneVars, file, command, spawnVars, runVars, child, killer>>

\* Mutant: the exit status of a dead pane is not looked at.
ReconciledFromState(s, pane) ==
  LET now == Snapshot(s) IN
  IF s.life = "running" /\ ~now.child /\ ~now.runner THEN Finished(s, "interrupted")
  ELSE IF s.life \in {"created", "launching"} /\ ~pane.exists /\ s.old THEN Finished(s, "never_launched")
  ELSE s

\* Mutant: an old launch has failed, whether or not its session is there.
ReconciledByAge(s, pane) ==
  LET now == Snapshot(s) IN
  IF pane.exists /\ pane.dead THEN Finished(s, ResultFromExitCode(pane.status))
  ELSE IF s.life = "running" /\ ~now.child /\ ~now.runner THEN Finished(s, "interrupted")
  ELSE IF s.life \in {"created", "launching"} /\ s.old THEN Finished(s, "never_launched")
  ELSE s

Reconciled(s, pane) ==
  LET now == Snapshot(s) IN
  IF pane.exists /\ pane.dead THEN Finished(s, ResultFromExitCode(pane.status))
  ELSE IF s.life = "running" /\ ~now.child /\ ~now.runner THEN Finished(s, "interrupted")
  ELSE IF s.life \in {"created", "launching"} /\ ~pane.exists /\ s.old THEN Finished(s, "never_launched")
  ELSE s

PollReconcile ==
  /\ poller \in {"reconcile", "reconcileAgain"}
  /\ LET s == Reconciled(pollCopy, seen) now == Snapshot(pollCopy) IN
     IF IsTerminal(s) THEN file' = s /\ Answer(TerminalVerdict(s), "runner", FALSE)
     ELSE /\ seen' = IF poller = "reconcile" THEN seen
                     ELSE [seen EXCEPT !.child = now.child, !.runner = now.runner]
          /\ poller' = "capture"
          /\ UNCHANGED <<file, pollCopy, verdict>>
  /\ UNCHANGED <<envVars, paneVars, command, spawnVars, runVars, child, killer>>

\* Mutant: the prompt alone says that the turn is over.
PromptSeen(s, prompt) == s.agent /\ agent = "claude" /\ s.life = "running" /\ prompt /\ Exists

\* What a capture of the pane shows: a prompt glyph may stand on the screen at any time.
PromptCompleted(s, prompt) ==
  /\ s.agent /\ agent = "claude" /\ s.life = "running"
  /\ prompt /\ Exists /\ child.marker

PollCapture ==
  /\ poller = "capture"
  /\ \E prompt \in BOOLEAN :
       IF PromptCompleted(pollCopy, prompt)
       THEN poller' = "save" /\ UNCHANGED <<pollCopy, seen, verdict>>
       ELSE Answer(IF pollCopy.life = "running" /\ seen.child THEN "in_progress"
                   ELSE IF pollCopy.life \in {"created", "launching"} \/ seen.runner \/ seen.exists
                        THEN "just_started" ELSE "stuck", "runner", FALSE)
  /\ UNCHANGED <<envVars, paneVars, file, command, spawnVars, runVars, child, killer>>

PollSave ==
  /\ poller = "save"
  /\ file' = Finished(pollCopy, "success")
  /\ Answer("completed", "runner", FALSE)
  /\ UNCHANGED <<envVars, paneVars, command, spawnVars, runVars, child, killer>>

(***************************************************************************)
(* The legacy poll guesses from the screen alone: an end-of-turn text,     *)
(* signs of activity, and the clock of the status line ("none", "same" or  *)
(* "advanced" since the last poll).                                        *)
(***************************************************************************)
Screens == [capture : BOOLEAN, done : BOOLEAN, activity : BOOLEAN, time : {"none", "same", "advanced"},
            full : BOOLEAN]

LegacyClaudeState(s, screen) ==
  CASE screen.done -> "completed"
    [] ~screen.done /\ screen.activity -> "in_progress"
    [] OTHER -> IF screen.full /\ tmux = "dead" THEN "completed"
                ELSE IF s.active THEN "completed"
                ELSE IF s.polls <= LegacyPolls THEN "just_started"
                ELSE IF screen.time = "none" THEN "stuck"
                ELSE IF s.time /\ screen.time = "same" THEN "stuck" ELSE "just_started"

PollLegacyClaude ==
  /\ poller = "legacy" /\ agent = "claude"
  /\ IF ~Exists THEN file' = Absent /\ Answer("not_found", "legacy", FALSE)
     ELSE IF tmux = "dead" /\ status # 0 THEN file' = Absent /\ Answer("crashed", "legacy", FALSE)
     ELSE LET s == IF file = Absent \/ file.schema = 1 THEN EmptyState ELSE file IN
          /\ pollCopy' = [EmptyState EXCEPT !.active = s.active, !.time = s.time,
                            !.polls = IF s.polls <= LegacyPolls THEN s.polls + 1 ELSE s.polls]
          /\ poller' = "legacySave"
          /\ UNCHANGED <<file, seen, verdict>>
  /\ UNCHANGED <<envVars, paneVars, command, spawnVars, runVars, child, killer>>

PollLegacySave ==
  /\ poller = "legacySave"
  /\ \E screen \in Screens :
       IF ~Exists \/ ~screen.capture THEN UNCHANGED file /\ Answer("error", "legacy", FALSE)
       ELSE /\ file' = [pollCopy EXCEPT !.active = @ \/ screen.done \/ screen.activity,
                                        !.time = screen.time # "none"]
            /\ Answer(LegacyClaudeState(pollCopy, screen), "legacy",
                      pollCopy.time /\ screen.time = "advanced")
  /\ UNCHANGED <<envVars, paneVars, command, spawnVars, runVars, child, killer>>

\* The codex variant keeps no state of its own.
PollLegacyCodex ==
  /\ poller = "legacy" /\ agent = "codex"
  /\ IF ~Exists THEN Answer("not_found", "legacy", FALSE)
     ELSE \E tokens, busy, prompt, todos \in BOOLEAN :
            Answer(IF tokens THEN "completed" ELSE IF busy /\ ~prompt THEN "in_progress"
                   ELSE IF prompt \/ todos THEN "completed" ELSE "stuck", "legacy", FALSE)
  /\ UNCHANGED <<envVars, paneVars, file, command, spawnVars, runVars, child, killer>>

Poll == PollBegin \/ PollSnapshot \/ PollWait \/ PollReconcile \/ PollCapture \/ PollSave
          \/ PollLegacyClaude \/ PollLegacySave \/ PollLegacyCodex

(***************************************************************************)
(* The session.  An agent may work for ever, and nobody has to kill or to  *)
(* lose a session; every other process that is running takes its step.     *)
(***************************************************************************)
SessionInit ==
  /\ mode \in SessionModes /\ agent \in Agents
  /\ tmux = "none" /\ status = 0
  /\ file = Absent /\ command = FALSE /\ expired = FALSE
  /\ spawner = "idle" /\ spawnCopy = EmptyState
  /\ runner = "off" /\ runnerCopy = NothingRead
  /\ child = [step |-> "off", code |-> 0, marker |-> FALSE]
  /\ killer = "idle"
  /\ poller = "idle" /\ pollCopy = EmptyState /\ seen = NothingSeen
  /\ verdict = NoVerdict
  /\ faulted = FALSE

Agent == AgentEndsTurn \/ AgentExits
HangUp == RunnerHangsUp \/ AgentHangsUp
Fault == RunnerIsKilled \/ SessionIsLost
Kill == KillSession \/ KillCleanup
Passing == Age \/ DayPasses \/ CollectStale

SessionNext == Spawn \/ Run \/ Agent \/ HangUp \/ Fault \/ Kill \/ Passing \/ Poll

SessionSpec == SessionInit /\ [][SessionNext]_sessionVars

FairSessionSpec ==
  /\ SessionSpec
  /\ WF_sessionVars(Spawn) /\ WF_sessionVars(Run) /\ WF_sessionVars(Poll)
  /\ WF_sessionVars(HangUp) /\ WF_sessionVars(KillCleanup) /\ WF_sessionVars(Age)

(***************************************************************************)
(* Properties.                                                             *)
(***************************************************************************)
\* Type invariant of the session.
SessionTypeOK ==
  /\ mode \in Modes /\ agent \in Agents /\ expired \in BOOLEAN /\ faulted \in BOOLEAN
  /\ tmux \in {"none", "placeholder", "live", "shell", "dead"} /\ status \in Codes \cup {Unknown}
  /\ file \in SessionFile /\ command \in BOOLEAN
  /\ spawner \in SpawnSteps /\ spawnCopy \in SessionFile
  /\ runner \in RunnerSteps /\ runnerCopy \in [agent : BOOLEAN, child : BOOLEAN]
  /\ child \in [step : {"off", "working", "prompt", "exited"}, code : Codes, marker : BOOLEAN]
  /\ killer \in {"idle", "killed", "done"}
  /\ poller \in PollSteps /\ pollCopy \in SessionFile
  /\ seen \in [exists : BOOLEAN, dead : BOOLEAN, status : Codes \cup {Unknown},
               runner : BOOLEAN, child : BOOLEAN]
  /\ verdict \in [state : SessionStates, via : {"runner", "legacy"}, advanced : BOOLEAN]

\* Whoever wrote it and whatever it overwrote, a state that says success is the state
\* of an agent that exited with code 0 or that ended its turn at its prompt
\* (write_state, _reconcile_runner_state and _runner_claude_prompt_completed).
SuccessIsEarned ==
  IsTerminal(file) /\ file.result = "success" =>
    child.marker \/ (child.step = "exited" /\ child.code = 0)

\* What a retry rests on: when a session that nobody killed is called crashed, stuck or
\* not found, its agent has ended, and a retry is alone with the story.
CrashMeansOver ==
  ~faulted /\ verdict.via = "runner" /\ verdict.state \in {"crashed", "stuck", "not_found"} =>
    ~ChildAlive /\ runner \in {"exit", "gone"}

\* The collection of stale files never takes the command file from a runner that is
\* about to start it: only a kill makes a runner report a missing command.
CommandIsThere == ~faulted => runner \notin {"missing", "missingWrite"}

\* The clock of the status line is proof of life: a legacy poll that sees it advance
\* never calls the session stuck.
ClockIsAlive == verdict.via = "legacy" /\ verdict.advanced => verdict.state # "stuck"

\* What a poll says of a session, and what the collection of stale files does to it, is
\* so: the three above at once (session_status, cleanup_stale_terminal_artifacts).
SessionIsReal == CrashMeansOver /\ CommandIsThere /\ ClockIsAlive

\* Nothing of the session runs any more and its state is still the runner's.
Over ==
  /\ spawner \in {"done", "failed"} /\ ~RunnerAlive /\ ~ChildAlive /\ killer # "killed"
  /\ ResolveSpawnMode = "runner" /\ (file.schema = 1 \/ ~Exists)

\* However the session ended (an exit, a killed runner, a lost tmux server, a kill
\* whose files a dying process wrote again), polling it comes to a final answer.
PollSettles == Over ~> (verdict.state \in {"completed", "crashed", "stuck", "not_found"} \/ ~Over)
=============================================================================
