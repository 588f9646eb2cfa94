--------------------------- MODULE Orchestration ---------------------------
(***************************************************************************)
(* The commands by which one orchestrator drives a run of stories:         *)
(* monitor-session (commands/tmux.py), the active marker and the stop hook *)
(* that reads it, commit-story (commands/basic.py), and the state          *)
(* documents it lists and updates (commands/orchestrator.py).  The session *)
(* it watches works, ends and dies on its own; SessionRuntime models how   *)
(* its state is found out, StoryStatus what the verifiers look at.         *)
(***************************************************************************)
EXTENDS Naturals

CONSTANTS Workflows,  \* workflows and the verifier of each: "session_exit", "artifact" or "invalid"
          MaxPolls,   \* --max-polls
          Documents,  \* state documents of the output folder
          MaxWork, \* bound on the changes sessions make to the repository
          MaxUpdates  \* bound on the updates of the state documents

ASSUME OrchestrationAssumption ==
  MaxPolls \in Nat /\ MaxWork \in Nat /\ MaxUpdates \in Nat
  /\ Workflows \subseteq {"session_exit", "artifact", "invalid"}

VARIABLES session,   \* what session_status says of the session
          artifact,  \* the files the verifier of the workflow asks for are there
          monitor,   \* the running monitor-session and its last answer
          activeMarker,    \* the active-run marker: stories remaining, or NoMarker
          orchestrating, \* the orchestrator has stories left to run
          beating,   \* the marker that a running heartbeat command has read
          repository,\* changes made, staged and committed
          commit,    \* the running commit-story and its answer
          documents  \* state documents: status and time of the last update

orchestrationVars ==
  <<session, artifact, monitor, activeMarker, orchestrating, beating, repository, commit, documents>>

\* One orchestrator gives its commands one after the other.
Free == monitor.step = "idle" /\ commit.step = "idle" /\ ~beating.there

(***************************************************************************)
(* The session.                                                            *)
(***************************************************************************)
SessionEnds == {"completed", "crashed", "stuck"}

SessionWorks ==
  /\ session = "in_progress" /\ repository.changed < MaxWork
  /\ repository' = [repository EXCEPT !.changed = @ + 1]
  /\ artifact' \in {artifact, TRUE}
  /\ UNCHANGED <<session, monitor, activeMarker, orchestrating, beating, commit, documents>>

SessionStops ==
  /\ session = "in_progress" /\ session' \in SessionEnds
  /\ UNCHANGED <<artifact, monitor, activeMarker, orchestrating, beating, repository, commit, documents>>

\* kill and kill-all.
SessionIsKilled ==
  /\ session # "not_found" /\ session' = "not_found"
  /\ UNCHANGED <<artifact, monitor, activeMarker, orchestrating, beating, repository, commit, documents>>

(***************************************************************************)
(* monitor-session.                                                        *)
(***************************************************************************)
NoMonitor == [step |-> "idle", workflow |-> "", key |-> FALSE, polls |-> 0, seen |-> "", answer |-> "", verified |-> FALSE]

MonitorStart ==
  /\ Free
  /\ \E workflow \in Workflows, key \in BOOLEAN :
       monitor' = [NoMonitor EXCEPT !.step = "poll", !.workflow = workflow, !.key = key]
  /\ UNCHANGED <<session, artifact, activeMarker, orchestrating, beating, repository, commit, documents>>

Answered(answer, verified) == [monitor EXCEPT !.step = "done", !.answer = answer, !.verified = verified]

\* The clock may pass the timeout between two polls.
MonitorTimesOut ==
  /\ monitor.step = "poll" /\ monitor' = Answered("timeout", FALSE)
  /\ UNCHANGED <<session, artifact, activeMarker, orchestrating, beating, repository, commit, documents>>

\* After the last poll the output is fetched, but the state is not looked at again.
MonitorPoll ==
  /\ monitor.step = "poll"
  /\ monitor' =
       IF monitor.polls = MaxPolls THEN Answered("timeout", FALSE)
       ELSE CASE session = "completed" -> [monitor EXCEPT !.step = "verify", !.seen = session, !.polls = @ + 1]
              [] session = "in_progress" -> [monitor EXCEPT !.seen = session, !.polls = @ + 1]
              [] OTHER -> [Answered(session, FALSE) EXCEPT !.seen = session]
  /\ UNCHANGED <<session, artifact, activeMarker, orchestrating, beating, repository, commit, documents>>

\* _verify_monitor_completion.
Verification(workflow, key) ==
  CASE workflow = "session_exit" -> TRUE
    [] workflow = "artifact" -> key /\ artifact
    [] OTHER -> FALSE

MonitorVerify ==
  /\ monitor.step = "verify"
  /\ LET verified == Verification(monitor.workflow, monitor.key)
     IN monitor' = Answered(IF verified THEN "completed" ELSE "incomplete", verified)
  /\ UNCHANGED <<session, artifact, activeMarker, orchestrating, beating, repository, commit, documents>>

MonitorReturns ==
  /\ monitor.step = "done" /\ monitor' = NoMonitor
  /\ session' = "in_progress" /\ artifact' = FALSE
  /\ UNCHANGED <<activeMarker, orchestrating, beating, repository, commit, documents>>

Monitoring == MonitorStart \/ MonitorTimesOut \/ MonitorPoll \/ MonitorVerify \/ MonitorReturns

(***************************************************************************)
(* The active marker and the stop hook.                                    *)
(***************************************************************************)
NoMarker == [there |-> FALSE, remaining |-> 0, stale |-> FALSE]

CreateMarker ==
  /\ Free
  /\ ~orchestrating /\ orchestrating' = TRUE
  /\ \E remaining \in 0..1 : activeMarker' = [there |-> TRUE, remaining |-> remaining, stale |-> FALSE]
  /\ UNCHANGED <<session, artifact, monitor, beating, repository, commit, documents>>

RemoveMarker ==
  /\ Free
  /\ orchestrating' = FALSE /\ activeMarker' = NoMarker
  /\ UNCHANGED <<session, artifact, monitor, beating, repository, commit, documents>>

\* The command reads the marker and writes it back with a new time.
HeartbeatReads ==
  /\ Free /\ orchestrating /\ activeMarker.there /\ beating' = activeMarker
  /\ UNCHANGED <<session, artifact, monitor, activeMarker, orchestrating, repository, commit, documents>>
HeartbeatWrites ==
  /\ beating.there /\ activeMarker' = [beating EXCEPT !.stale = FALSE] /\ beating' = NoMarker
  /\ UNCHANGED <<session, artifact, monitor, orchestrating, repository, commit, documents>>

\* The orchestrator crashes, and thirty minutes pass.
OrchestratorCrashes ==
  /\ orchestrating /\ ~beating.there /\ orchestrating' = FALSE
  /\ activeMarker' = [activeMarker EXCEPT !.stale = activeMarker.there]
  /\ UNCHANGED <<session, artifact, monitor, beating, repository, commit, documents>>

Marking == CreateMarker \/ RemoveMarker \/ HeartbeatReads \/ HeartbeatWrites \/ OrchestratorCrashes

\* A child session is never held; the time and the process of the marker are not looked at.
StopIsBlocked(child) == ~child /\ activeMarker.there /\ activeMarker.remaining # 0

(***************************************************************************)
(* commit-story.                                                           *)
(***************************************************************************)
NoCommit == [step |-> "idle", asked |-> 0, answer |-> ""]

CommitStatus ==
  /\ Free
  /\ commit' = IF repository.changed = repository.committed THEN [NoCommit EXCEPT !.step = "done", !.answer = "no_changes"]
               ELSE [NoCommit EXCEPT !.step = "add", !.asked = repository.changed]
  /\ UNCHANGED <<session, artifact, monitor, activeMarker, orchestrating, beating, repository, documents>>

\* git add -A, which may fail (a lock of another git).
CommitAdd ==
  /\ commit.step = "add"
  /\ \/ repository' = [repository EXCEPT !.staged = repository.changed] /\ commit' = [commit EXCEPT !.step = "commit"]
     \/ UNCHANGED repository /\ commit' = [commit EXCEPT !.step = "done", !.answer = "git_add_failed"]
  /\ UNCHANGED <<session, artifact, monitor, activeMarker, orchestrating, beating, documents>>

\* git commit, which a hook may refuse; what was staged stays staged.
CommitCommit ==
  /\ commit.step = "commit"
  /\ \/ repository' = [repository EXCEPT !.committed = repository.staged] /\ commit' = [commit EXCEPT !.step = "done", !.answer = "ok"]
     \/ UNCHANGED repository /\ commit' = [commit EXCEPT !.step = "done", !.answer = "commit_failed"]
  /\ UNCHANGED <<session, artifact, monitor, activeMarker, orchestrating, beating, documents>>

CommitReturns ==
  /\ commit.step = "done" /\ commit' = NoCommit
  /\ UNCHANGED <<session, artifact, monitor, activeMarker, orchestrating, beating, repository, documents>>

CommitStory == CommitStatus \/ CommitAdd \/ CommitCommit \/ CommitReturns

(***************************************************************************)
(* State documents.                                                        *)
(***************************************************************************)
States == {"READY", "IN_PROGRESS", "COMPLETE"}

LatestOf(found) == CHOOSE d \in found : \A other \in found : documents[other].updated <= documents[d].updated
StateLatestIncomplete == {d \in DOMAIN documents : documents[d].status # "COMPLETE"}

Now == LET times == {documents[d].updated : d \in DOMAIN documents}
       IN IF times = {} THEN 1 ELSE 1 + CHOOSE t \in times : \A u \in times : u <= t

\* build-state-doc.
StateCreate(d) ==
  /\ Free
  /\ d \notin DOMAIN documents /\ Now <= MaxUpdates
  /\ documents' = [e \in DOMAIN documents \cup {d} |-> IF e = d THEN [status |-> "READY", updated |-> Now] ELSE documents[e]]
  /\ UNCHANGED <<session, artifact, monitor, activeMarker, orchestrating, beating, repository, commit>>

\* state-update of the status and lastUpdated.
StateUpdate(d, status) ==
  /\ Free
  /\ d \in DOMAIN documents /\ Now <= MaxUpdates
  /\ documents' = [documents EXCEPT ![d] = [status |-> status, updated |-> Now]]
  /\ UNCHANGED <<session, artifact, monitor, activeMarker, orchestrating, beating, repository, commit>>

\* A new orchestrator resumes what state-latest-incomplete names.
Resume ==
  /\ Free
  /\ ~orchestrating /\ StateLatestIncomplete # {} /\ Now <= MaxUpdates
  /\ documents' = [documents EXCEPT ![LatestOf(StateLatestIncomplete)] = [status |-> "IN_PROGRESS", updated |-> Now]]
  /\ UNCHANGED <<session, artifact, monitor, activeMarker, orchestrating, beating, repository, commit>>

-----------------------------------------------------------------------------
OrchestrationInit ==
  /\ session = "in_progress" /\ artifact = FALSE /\ monitor = NoMonitor
  /\ activeMarker = NoMarker /\ orchestrating = FALSE /\ beating = NoMarker
  /\ repository = [changed |-> 0, staged |-> 0, committed |-> 0] /\ commit = NoCommit
  /\ documents = [d \in {} |-> [status |-> "READY", updated |-> 0]]

OrchestrationNext ==
  \/ SessionWorks \/ SessionStops \/ SessionIsKilled
  \/ Monitoring \/ Marking \/ CommitStory
  \/ \E d \in Documents : StateCreate(d) \/ \E status \in States : StateUpdate(d, status)
  \/ Resume

OrchestrationSpec == OrchestrationInit /\ [][OrchestrationNext]_orchestrationVars

-----------------------------------------------------------------------------
\* The state of the orchestrator's commands.
OrchestrationTypeOK ==
  /\ monitor.polls \in 0..MaxPolls /\ session \in SessionEnds \cup {"in_progress", "not_found"}
  /\ repository.committed <= repository.staged /\ repository.staged <= repository.changed
  /\ DOMAIN documents \subseteq Documents

\* monitor-session answers "completed" only for a session that it saw completed and
\* whose artifacts were there; a session that merely ended is "incomplete" or worse.
CompletedIsVerified ==
  monitor.answer = "completed" => /\ monitor.seen = "completed" /\ monitor.verified
                                  /\ monitor.workflow = "artifact" => artifact

\* A commit that succeeded holds everything the session had changed when it was asked for.
CommitHoldsTheWork == commit.answer = "ok" => commit.asked <= repository.committed

\* The stop hook holds a session only for the sake of an orchestrator that runs, or of
\* one that crashed; a finished or refused run leaves nothing that does (stop-hook).
HeldStopHasARun == StopIsBlocked(FALSE) => orchestrating \/ activeMarker.stale
=============================================================================
