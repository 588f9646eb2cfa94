----------------------------- MODULE StoryLoop ------------------------------
(***************************************************************************)
(* One story of an orchestration, step by step: the orchestrator follows   *)
(* steps-c/step-03-execute.md, -03a and -03b, and asks the commands        *)
(* whether a step has succeeded and whether it may go on:                  *)
(* verify-step and validate-story-creation count the story's files,        *)
(* parse-output has a sub-agent read a session's output, verify-code-      *)
(* review reads its status, escalate compares retries and cycles with the  *)
(* policy.  The policy may become unreadable, and the orchestrator may     *)
(* crash and resume while its session goes on.                             *)
(***************************************************************************)
EXTENDS Naturals

CONSTANTS CreationGates, \* of "verify" (verify-step) and "counts" (validate-story-creation)
          LoopPolicies,  \* policies: readable, expected files, cycles and crashes
          MaxAttempts,   \* attempts of a step (5 in data/retry-fallback-strategy.md)
          MaxCycles,     \* review cycles of the loop (maxCycles in data/code-review-loop.md)
          MaxStoryFiles  \* bound on the files of the story

ASSUME StoryLoopAssumption ==
  /\ CreationGates \subseteq {"verify", "counts"} /\ MaxAttempts \in Nat \ {0} /\ MaxCycles \in Nat \ {0} /\ MaxStoryFiles \in Nat
  /\ LoopPolicies \subseteq [readable : BOOLEAN, expected : Nat, cycles : Nat, crashes : Nat]

VARIABLES loop,        \* where the orchestrator is, and what it remembers
          loopSession, \* the session it has spawned
          orphan,      \* the step of a session that a crashed orchestrator has left
          created,     \* how many files the story's prefix has
          storyDone,   \* whether the sprint status and the story file say "done"
          uncommitted, \* changes of sessions, and of others, that no commit holds
          loopPolicy

loopVars == <<loop, loopSession, orphan, created, storyDone, uncommitted, loopPolicy>>
World == <<orphan, created, storyDone, uncommitted, loopPolicy>>

NotCounted == MaxStoryFiles + 1
AtStep(step, phase) == loop.step = step /\ loop.phase = phase
Enter(step) == [loop EXCEPT !.step = step, !.phase = "ready", !.verdict = "", !.attempts = 0, !.crashes = 0]
Halt == [loop EXCEPT !.step = "halt", !.phase = "ready"]
\* Mutant: attempts without an end.
RetryAlways == [loop EXCEPT !.phase = "ready", !.before = NotCounted]
Retry == IF loop.attempts < MaxAttempts THEN [loop EXCEPT !.phase = "ready", !.before = NotCounted] ELSE Halt

(***************************************************************************)
(* The commands' answers.                                                  *)
(***************************************************************************)
\* orchestrator-helper escalate <trigger> <context>: without a policy always.
Escalate(trigger, n) ==
  \/ ~loopPolicy.readable
  \/ trigger = "review-loop" /\ n >= loopPolicy.cycles
  \/ trigger = "session-crash" /\ n >= loopPolicy.crashes
  \/ trigger = "story-validation" /\ n # 1

CreatedFiles(before, after) == IF after < before THEN 0 ELSE after - before

\* validate-story-creation check, with both counts or with neither.
CheckProceeds(before, after) ==
  /\ loopPolicy.readable
  /\ IF before = NotCounted THEN created = loopPolicy.expected ELSE after = before + loopPolicy.expected

ReviewVerified == loopPolicy.readable /\ (storyDone.sprint \/ storyDone.file)

\* parse-output: no answer, one that does not match the schema, or one that does.
ParseAnswers ==
  IF loopPolicy.readable THEN {"timed out", "failed", "invalid json", "proceed", "retry", "escalate"} ELSE {"contract invalid"}

(***************************************************************************)
(* A step: its session is spawned, watched and killed.                     *)
(***************************************************************************)
\* "Skip if story file exists".
BeginStory ==
  /\ AtStep("begin", "ready")
  /\ loop' = Enter(IF created > 0 THEN "dev" ELSE "create")
  /\ UNCHANGED <<loopSession, World>>

CountBefore ==
  /\ AtStep("create", "ready") /\ loop.gate = "counts" /\ loop.before = NotCounted
  /\ loop' = [loop EXCEPT !.before = created]
  /\ UNCHANGED <<loopSession, World>>

SpawnStep ==
  /\ loop.step \in {"create", "dev", "review"} /\ loop.phase = "ready"
  /\ loop.step = "create" /\ loop.gate = "counts" => loop.before # NotCounted
  /\ loop' = [loop EXCEPT !.phase = "watched", !.attempts = IF loop.step = "review" THEN @ ELSE @ + 1]
  /\ loopSession' = "running" /\ UNCHANGED World

\* monitor-session; it may time out while the session goes on.
MonitorAnswers ==
  /\ loop.phase = "watched"
  /\ \E verdict \in CASE loopSession = "running" -> {"timeout"}
                      [] loopSession = "crashed" -> {"crashed"}
                      [] OTHER -> {IF loop.step = "review" /\ ~ReviewVerified THEN "incomplete" ELSE "completed"} :
       loop' = [loop EXCEPT !.phase = "answered", !.verdict = verdict]
  /\ UNCHANGED <<loopSession, World>>

\* Mutant: the session is left behind when its step is over.
LeaveStep ==
  /\ loop.phase = "answered" /\ loop' = [loop EXCEPT !.phase = "over"]
  /\ loopSession' = "none" /\ orphan' = (IF loopSession = "running" THEN loop.step ELSE orphan)
  /\ UNCHANGED <<created, storyDone, uncommitted, loopPolicy>>

\* tmux-wrapper kill.
KillStep ==
  /\ loop.phase = "answered" /\ loop' = [loop EXCEPT !.phase = "over"]
  /\ loopSession' = "none" /\ UNCHANGED World

(***************************************************************************)
(* The gates.                                                              *)
(***************************************************************************)
Passed == [Enter("dev") EXCEPT !.gated = TRUE]

CreationGate ==
  /\ AtStep("create", "over")
  /\ loop' = IF CheckProceeds(loop.before, created) THEN Passed
             ELSE IF loop.gate = "counts" /\ Escalate("story-validation", CreatedFiles(loop.before, created)) THEN Halt
             ELSE Retry
  /\ UNCHANGED <<loopSession, World>>

DevGate ==
  /\ AtStep("dev", "over")
  /\ \E answer \in ParseAnswers :
       loop' = IF answer = "proceed" THEN [Enter("review") EXCEPT !.cycles = 1]
               ELSE IF answer = "escalate" THEN Halt
               ELSE IF loop.verdict # "crashed" THEN Retry
               ELSE IF Escalate("session-crash", loop.crashes) THEN Halt ELSE [Retry EXCEPT !.crashes = @ + 1]
  /\ UNCHANGED <<loopSession, World>>

\* A verified review or a row that is done ends the loop; else another cycle.
ReviewGate ==
  /\ AtStep("review", "over")
  /\ loop' = IF loop.verdict = "completed" \/ storyDone.sprint THEN Enter("commit")
             ELSE IF loop.verdict = "timeout" \/ loop.cycles = MaxCycles THEN Halt
             ELSE [loop EXCEPT !.phase = "ready", !.cycles = @ + 1]
  /\ UNCHANGED <<loopSession, World>>

\* commit-story: nothing to commit, or a git that fails, is not ok.
CommitGate ==
  /\ AtStep("commit", "ready")
  /\ \/ /\ uncommitted.session \/ uncommitted.other
        /\ uncommitted' = [session |-> FALSE, other |-> FALSE] /\ loop' = Enter("finish")
     \/ UNCHANGED uncommitted /\ loop' = Halt
  /\ UNCHANGED <<loopSession, orphan, created, storyDone, loopPolicy>>

FinishGate ==
  /\ AtStep("finish", "ready")
  /\ loop' = IF storyDone.sprint \/ storyDone.file THEN Enter("done") ELSE [Enter("review") EXCEPT !.cycles = 1]
  /\ UNCHANGED <<loopSession, World>>

(***************************************************************************)
(* Sessions, and others.                                                   *)
(***************************************************************************)
Running == {step \in {"create", "dev", "review"} : (loopSession = "running" /\ loop.step = step) \/ orphan = step}

SessionCreatesFile ==
  /\ "create" \in Running /\ created < MaxStoryFiles /\ created' = created + 1
  /\ uncommitted' = [uncommitted EXCEPT !.session = TRUE]
  /\ UNCHANGED <<loop, loopSession, orphan, storyDone, loopPolicy>>

SessionChangesCode ==
  /\ Running \cap {"dev", "review"} # {} /\ uncommitted' = [uncommitted EXCEPT !.session = TRUE]
  /\ UNCHANGED <<loop, loopSession, orphan, created, storyDone, loopPolicy>>

SessionMarksDone ==
  /\ "review" \in Running
  /\ storyDone' \in {[storyDone EXCEPT !.sprint = TRUE], [storyDone EXCEPT !.file = TRUE]}
  /\ uncommitted' = [uncommitted EXCEPT !.session = TRUE]
  /\ UNCHANGED <<loop, loopSession, orphan, created, loopPolicy>>

LoopSessionEnds ==
  /\ \/ loopSession = "running" /\ loopSession' \in {"ended", "crashed"} /\ UNCHANGED orphan
     \/ orphan # "" /\ orphan' = "" /\ UNCHANGED loopSession
  /\ UNCHANGED <<loop, created, storyDone, uncommitted, loopPolicy>>

\* A person sets the story back while it is not finished.
StorySetBack ==
  /\ loop.step # "done" /\ storyDone' = [sprint |-> FALSE, file |-> FALSE] /\ storyDone # storyDone'
  /\ uncommitted' = [uncommitted EXCEPT !.other = TRUE]
  /\ UNCHANGED <<loop, loopSession, orphan, created, loopPolicy>>

PolicyChanges ==
  /\ loopPolicy.readable /\ loopPolicy' = [loopPolicy EXCEPT !.readable = FALSE]
  /\ UNCHANGED <<loop, loopSession, orphan, created, storyDone, uncommitted>>

\* The orchestrator crashes once and resumes at currentStep; sessions go on.
ResumePoint == IF loop.step \in {"create", "dev"} THEN "begin" ELSE IF loop.step = "finish" THEN "commit" ELSE loop.step
OrchestratorResumes ==
  /\ ~loop.resumed /\ loop.step \in {"create", "dev", "review", "commit", "finish"}
  /\ loop' = [Enter(ResumePoint) EXCEPT !.before = NotCounted, !.cycles = 1, !.resumed = TRUE]
  /\ orphan' = IF loopSession = "running" THEN loop.step ELSE ""
  /\ loopSession' = "none" /\ UNCHANGED <<created, storyDone, uncommitted, loopPolicy>>

-----------------------------------------------------------------------------
LoopInit ==
  /\ \E gate \in CreationGates :
       loop = [step |-> "begin", phase |-> "ready", gate |-> gate, verdict |-> "", attempts |-> 0, crashes |-> 0,
               cycles |-> 1, before |-> NotCounted, gated |-> FALSE, resumed |-> FALSE]
  /\ loopSession = "none" /\ orphan = "" /\ created = 0
  /\ storyDone = [sprint |-> FALSE, file |-> FALSE] /\ uncommitted = [session |-> FALSE, other |-> FALSE]
  /\ loopPolicy \in LoopPolicies

LoopNext ==
  \/ BeginStory \/ CountBefore \/ SpawnStep \/ MonitorAnswers \/ KillStep
  \/ CreationGate \/ DevGate \/ ReviewGate \/ CommitGate \/ FinishGate
  \/ SessionCreatesFile \/ SessionChangesCode \/ SessionMarksDone \/ LoopSessionEnds
  \/ StorySetBack \/ PolicyChanges \/ OrchestratorResumes

LoopSpec == LoopInit /\ [][LoopNext]_loopVars

-----------------------------------------------------------------------------
\* The loop stays within its attempts, cycles and counted files.
LoopTypeOK ==
  /\ loop.attempts \in 0..MaxAttempts /\ loop.cycles \in 1..MaxCycles /\ loop.before \in 0..NotCounted
  /\ loopSession \in {"none", "running", "ended", "crashed"} /\ created \in 0..MaxStoryFiles
  /\ loopSession # "none" <=> loop.phase \in {"watched", "answered"}

\* A story that has passed the creation gate has the file the gate has seen and no
\* other: no session is left that could write one after it was counted.
CreatedOnce == loop.gated /\ ~loop.resumed => created = loopPolicy.expected

\* A story that is finished is in the history with everything its sessions changed,
\* however often it was retried, reviewed and set back.
FinishedIsCommitted == loop.step = "done" /\ ~loop.resumed => ~uncommitted.session /\ (storyDone.sprint \/ storyDone.file)

\* A run whose policy cannot be read leaves no creation or development step as passed.
UnreadablePolicyStops ==
  [][~loopPolicy.readable => ~(loop.step = "create" /\ loop'.step = "dev") /\ ~(loop.step = "dev" /\ loop'.step = "review")]_loopVars
=============================================================================
