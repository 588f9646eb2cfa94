---------------------------- MODULE RunAdmission ----------------------------
(***************************************************************************)
(* Durable admission of daily Runs: src/shared/db/repos/runAdmissionRepo.ts *)
(* and its two clients, the request handlers of                             *)
(* src/pipeline/workflow/dailyRun.ts (startRun, recoverRunDispatch) and the *)
(* DailyRunWorkflow instance with the step bodies of dailyRunSteps.ts.      *)
(*                                                                          *)
(* One D1 batch is one action.  Everything between two awaits of a handler  *)
(* or of a Workflow is one action too, so any other actor may run between   *)
(* them; "pc" names the await a handler or a Workflow is suspended at.      *)
(* The Workflow engine and its instances are external (env.d.ts): a create  *)
(* may be delayed or lost, an instance may be replayed from its checkpoints,*)
(* time out, be terminated, or be restarted by the operator.                *)
(***************************************************************************)
EXTENDS Integers, FiniteSets

CONSTANTS
  Dates,        \* calendar dates (ET)
  SuffixSpace,  \* number of run-id suffixes a date has (0x10000 in the code)
  Keys,         \* request ids operators send
  OperatorOrigins, \* origins operators trigger, of {"manual", "catch-up"}
  Handlers,     \* Worker invocations that may be in flight together
  LegacyRuns,   \* Runs of the cron dispatched before run_admissions existed
  LegacyStatus, \* what those Runs may be when admission is deployed
  LegacyStarted, \* the clock readings those Runs may have started at
  MaxRestarts,  \* bound: operator restarts of one Workflow instance
  MaxClock,     \* bound: the clock readings Workers bring, 1 .. MaxClock
  Events,       \* bound: which of {"evict", "giveup", "replay", "paid"} happen: a
                \* Worker evicted between two awaits, the engine giving up on an
                \* instance or replaying it, a paid operation or a budget stop
  None          \* "no run" / "no request"

RunIds == Dates \X (0 .. SuffixSpace - 1)
DateOf(r) == r[1]

ASSUME SuffixSpaceAssumption == SuffixSpace \in Nat \ {0}
\* ensureRun without a pinned Run works on runIdFor(date, "scheduled").
ASSUME LegacyAssumption ==
  /\ LegacyRuns \subseteq Dates \X {0}
  /\ LegacyStatus \subseteq
       {"absent", "running", "awaiting", "published", "closed", "stopped"}
  /\ LegacyStarted \subseteq Nat
ASSUME OriginAssumption == OperatorOrigins \subseteq {"manual", "catch-up"}
ASSUME RestartAssumption == MaxRestarts \in Nat
ASSUME ClockAssumption == MaxClock \in Nat \ {0}
ASSUME EventsAssumption == Events \subseteq {"evict", "giveup", "replay", "paid"}

VARIABLES
  status,    \* runs.status, "absent" when the row does not exist
  meta,      \* runs.origin, runs.started_at, run.superseded
  adm,       \* run_admissions rows
  retired,   \* run_retirements rows
  op,        \* whether the Run has an unsettled paid operation
  drafts,    \* whether the Run has a Draft
  inst,      \* Workflow instances, by instance id
  creates,   \* how many creates were sent to the Workflow service for a Run
  hs         \* request handlers

dbVars == <<status, meta, adm, retired, op, drafts>>
vars == <<status, meta, adm, retired, op, drafts, inst, creates, hs>>

Origins == {"scheduled", "catch-up", "manual"}
\* "closed" stands for rejected, empty and failed: nothing here tells them apart.
RunStatus == {"absent", "running", "awaiting", "published", "closed", "stopped"}
LiveStatus == {"running", "awaiting"}
AdmissionState == {"absent", "pending", "submitting", "confirmed", "uncertain",
                   "unavailable", "resolved"}
\* "errored" stands for errored and terminated, "running" for queued and every
\* other status of an instance that has not ended.
TerminalInstance == {"complete", "errored"}
InstanceStatus == {"none", "running"} \cup TerminalInstance
Requests == ({"operator"} \X Keys) \cup ({"scheduled"} \X Dates)
              \cup ({"legacy"} \X LegacyRuns)

ASSUME NoneAssumption ==
  None \notin RunIds \cup Requests \cup ({"legacy"} \X RunIds)

NoAdmission == [state |-> "absent", request |-> None, instanceStatus |-> "none",
                entered |-> FALSE, finished |-> FALSE, released |-> FALSE]
IdleHandler == [pc |-> "idle", request |-> None, origin |-> "manual",
                date |-> None, supersede |-> FALSE, at |-> 0, run |-> None,
                prior |-> None, observed |-> "none"]
-----------------------------------------------------------------------------
(* Bugs the runs must notice: a guard left out (of one or two arguments), a *)
(* refusal left out, a write left out.  The other ones stand before the     *)
(* definition they would replace, and nothing below uses any of them.       *)
Unchecked(x)     == TRUE
Unchecked2(x, y) == TRUE
Never2(x, y)     == FALSE
Nothing(x)       == {}
-----------------------------------------------------------------------------
(* The predicates the admission SQL is built from.                         *)

Exists(r)     == status[r] # "absent"
Admitted(r)   == adm[r].state # "absent"
OwnsDate(r)   == Admitted(r) /\ ~adm[r].released
SameDate(r)   == {q \in RunIds : DateOf(q) = DateOf(r)}
OnDate(d)     == {r \in RunIds : DateOf(r) = d /\ Exists(r)}

\* settled(id): no reserved, dispatched or uncertain operation and no issue.
Settled(r) == op[r] = "idle"
Live(r)    == status[r] \in LiveStatus \/ ~Settled(r)

\* fenceSql("r") on an existing row.
Owned(r) == /\ Exists(r)
            /\ r \notin retired
            /\ ~(Admitted(r) /\ adm[r].released)
            /\ \A q \in SameDate(r) \ {r} : ~OwnsDate(q)

\* A Run starts at the `now` its request captured, awaits before the batch and
\* on whatever Worker: the order of started_at need not be that of admission.
Clock == 1 .. MaxClock
Newer(r, q) == \/ meta[r].started > meta[q].started
               \/ meta[r].started = meta[q].started /\ r[2] > q[2]
Published(d) == {r \in OnDate(d) : status[r] = "published"}

\* ORDER BY started_at DESC, id DESC LIMIT 1; only None when nothing is
\* published.
PriorPublish(d) ==
  IF Published(d) = {} THEN {None}
  ELSE {r \in Published(d) : \A q \in Published(d) \ {r} : Newer(r, q)}

\* runIdFor's suffix for an origin, kept inside the suffix space.
Preferred(origin) ==
  (CASE origin = "scheduled" -> 0
     [] origin = "catch-up"  -> 1
     [] origin = "manual"    -> 2) % SuffixSpace

\* nextFreeRunId: the first unused suffix at or after the preferred one,
\* wrapping around; none when all are used.
Distance(r, origin) == (r[2] - Preferred(origin)) % SuffixSpace
FreeOn(d) == {r \in RunIds : DateOf(r) = d /\ ~Exists(r)}
NextFreeRunId(d, origin) ==
  {r \in FreeOn(d) : \A q \in FreeOn(d) : Distance(r, origin) <= Distance(q, origin)}

ByRequest(q) == {r \in RunIds : Admitted(r) /\ adm[r].request = q}

\* run_admissions.instance_id: daily-<run> for a pinned dispatch, the
\* historical id of an instance created before admissions existed.
Instances == ({"daily"} \X RunIds) \cup ({"legacy"} \X LegacyRuns)
RunOf(i) == i[2]
IsLegacy(i) == i[1] = "legacy"
LegacyClaim(r) == adm[r].request = <<"legacy", r>>
InstanceOf(r) == IF LegacyClaim(r) THEN <<"legacy", r>> ELSE <<"daily", r>>
-----------------------------------------------------------------------------
(* runAdmissionRepo batches: a guard that is the conjunction of the batch's *)
(* asserts and of the unique indexes, and the rows it writes.               *)

\* The date's claim that the first UPDATE of admit releases.
Releasable(r) == OwnsDate(r) /\ adm[r].finished /\ ~Live(r)

NothingLive(d)    == \A q \in OnDate(d) : ~Live(q)             \* date_admission
ClaimsReleased(d) == \A q \in OnDate(d) : OwnsDate(q) => Releasable(q)
                                                     \* active-date index
IsPredecessor(prior, d) == prior \in PriorPublish(d)   \* supersede_predecessor
AdmitOk(r, request, supersede, prior) ==
  LET d == DateOf(r) IN
  /\ ~Exists(r)                                \* runs.id
  /\ ByRequest(request) = {}                   \* request_id UNIQUE
  /\ NothingLive(d)
  /\ ClaimsReleased(d)
  /\ supersede \/ Published(d) = {}            \* supersede_confirmation
  /\ IsPredecessor(prior, d)

\* Runs from before admission existed can no longer attach: run_retirements.
Retires(d) == {q \in OnDate(d) : ~Admitted(q)}

Admit(r, request, supersede, prior, origin, at, state) ==
  LET d == DateOf(r) IN
  /\ AdmitOk(r, request, supersede, prior)
  /\ status' = [status EXCEPT ![r] = "running"]
  /\ meta' = [meta EXCEPT ![r] = [origin |-> origin, prior |-> prior,
                                  started |-> at]]
  /\ adm' = [q \in RunIds |->
               IF q = r THEN [NoAdmission EXCEPT !.state = state,
                                                 !.request = request]
               ELSE IF q \in SameDate(r) /\ Releasable(q)
                    THEN [adm[q] EXCEPT !.released = TRUE]
               ELSE adm[q]]
  /\ retired' = retired \cup Retires(d)
  /\ UNCHANGED <<op, drafts>>

\* record(): the guarded UPDATE; a receipt the guard refuses changes nothing.
RecordApplies(r, state) ==
  /\ state = "unavailable" => adm[r].state = "pending"
  /\ state = "uncertain" => adm[r].state # "confirmed"
  /\ adm[r].instanceStatus \notin TerminalInstance
ForgetsErrored(observed) == observed = "complete"
Ended(observed) == observed \in TerminalInstance
Record(r, state, observed) ==
  adm' = IF OwnsDate(r) /\ RecordApplies(r, state)
         THEN [adm EXCEPT ![r].state = state,
                          ![r].instanceStatus = observed,
                          ![r].finished = @ \/ Ended(observed)]
         ELSE adm

\* dispatch_resolution_safe, for a claim that is not resolved yet.
NotAtWork(r)    == ~adm[r].entered \/ adm[r].finished
NotAtTheGate(r) == status[r] # "awaiting"
CanResolve(r) ==
  OwnsDate(r) /\ NotAtWork(r) /\ NotAtTheGate(r) /\ Settled(r)

\* attachLegacy: acquire the date lock for a Run that has no admission yet.
WorksAlone(r) == \A q \in SameDate(r) \ {r} : Exists(q) => ~Live(q)
AttachLegacyOk(r) == Owned(r) /\ WorksAlone(r)
AttachLegacy(r) ==
  /\ AttachLegacyOk(r)
  /\ adm' = IF Admitted(r) THEN adm
            ELSE [adm EXCEPT ![r] = [NoAdmission EXCEPT
                                       !.state = "uncertain",
                                       !.request = <<"legacy", r>>]]
-----------------------------------------------------------------------------
(* Request handlers.  A handler's record holds what it keeps across awaits; *)
(* responding forgets it.                                                   *)

SetH(h, rec) == hs' = [hs EXCEPT ![h] = rec]
Respond(h)   == SetH(h, IdleHandler)
Goto(h, pc)  == SetH(h, [hs[h] EXCEPT !.pc = pc])
serviceVars  == <<inst, creates>>

\* recoverRunDispatch(check) from its first read of the claim.  A released
\* claim answers dispatch_pending; without a DAILY_RUN binding only a claim
\* read as pending is recorded, and workflow_unavailable answered.
Recover(h, r) ==
  \/ ~OwnsDate(r) /\ Respond(h)
  \/ OwnsDate(r) /\ SetH(h, [IdleHandler EXCEPT !.pc = "submit", !.run = r])
  \/ /\ OwnsDate(r)
     /\ IF adm[r].state = "pending"
        THEN SetH(h, [IdleHandler EXCEPT !.pc = "unbound", !.run = r])
        ELSE Respond(h)

\* startRun on a row that already has this request id: a retry of that Run,
\* or a conflict when the request names another origin or date.
Retry(h, request, origin, d) ==
  \E r \in ByRequest(request) :
    IF meta[r].origin = origin /\ DateOf(r) = d THEN Recover(h, r)
    ELSE Respond(h)

\* A trigger arrives (POST /api/admin/runs, or the noon-ET cron through
\* kickDailyRun) and looks its request id up.
Trigger(h, request, origin, d, supersede) ==
  /\ hs[h].pc = "idle"
  /\ IF ByRequest(request) # {} THEN Retry(h, request, origin, d)
     ELSE \E now \in Clock :
            SetH(h, [IdleHandler EXCEPT !.pc = "list", !.request = request,
                       !.origin = origin, !.date = d, !.supersede = supersede,
                       !.at = now])
  /\ UNCHANGED <<dbVars, serviceVars>>
TriggerOperator(h) ==
  \E k \in Keys, origin \in OperatorOrigins, d \in Dates, supersede \in BOOLEAN :
    Trigger(h, <<"operator", k>>, origin, d, supersede)
TriggerScheduled(h) ==
  \E d \in Dates : Trigger(h, <<"scheduled", d>>, "scheduled", d, FALSE)

\* startRun: the decisions taken on listRunsForDate, before the batch:
\* scheduled_duplicate, supersede_required, no suffix left, or a run id.
ScheduledDuplicate(origin, d) ==
  origin = "scheduled" /\ \E r \in OnDate(d) : meta[r].origin = "scheduled"
ListRuns(h) ==
  LET d == hs[h].date
      duplicate == ScheduledDuplicate(hs[h].origin, d)
      unconfirmed == Published(d) # {} /\ ~hs[h].supersede IN
  /\ hs[h].pc = "list"
  /\ \/ /\ duplicate \/ unconfirmed \/ FreeOn(d) = {}
        /\ Respond(h)
     \/ /\ ~duplicate /\ ~unconfirmed
        /\ \E r \in NextFreeRunId(d, hs[h].origin), prior \in PriorPublish(d) :
             SetH(h, [hs[h] EXCEPT !.pc = "admit", !.run = r, !.prior = prior])
  /\ UNCHANGED <<dbVars, serviceVars>>

AdmitRun(h) ==
  /\ hs[h].pc = "admit"
  /\ Admit(hs[h].run, hs[h].request, hs[h].supersede, hs[h].prior,
           hs[h].origin, hs[h].at, "pending")
  /\ SetH(h, [IdleHandler EXCEPT !.pc = "recover", !.run = hs[h].run])
  /\ UNCHANGED serviceVars
AdmitAborts(h) ==
  /\ hs[h].pc = "admit"
  /\ ~AdmitOk(hs[h].run, hs[h].request, hs[h].supersede, hs[h].prior)
  /\ Goto(h, "raced")
  /\ UNCHANGED <<dbVars, serviceVars>>
\* A raced admission of the same request is recovered; any other is a conflict.
Raced(h) ==
  /\ hs[h].pc = "raced"
  /\ IF ByRequest(hs[h].request) # {}
     THEN Retry(h, hs[h].request, hs[h].origin, hs[h].date)
     ELSE Respond(h)
  /\ UNCHANGED <<dbVars, serviceVars>>

\* POST /api/admin/runs/:id/dispatch {action: "check"}, and the recovery that
\* ends every admission.
Check(h, r) ==
  /\ hs[h].pc = "idle"
  /\ Recover(h, r)
  /\ UNCHANGED <<dbVars, serviceVars>>
RecoverAdmitted(h) ==
  /\ hs[h].pc = "recover"
  /\ Recover(h, hs[h].run)
  /\ UNCHANGED <<dbVars, serviceVars>>

RecordUnavailable(h) ==
  /\ hs[h].pc = "unbound"
  /\ Record(hs[h].run, "unavailable", "none")
  /\ Respond(h)
  /\ UNCHANGED <<status, meta, retired, op, drafts, serviceVars>>

\* claimSubmission, then workflow.create when this handler won the claim.
Submittable(r) == OwnsDate(r) /\ adm[r].state \in {"pending", "unavailable"}
ClaimSubmission(h) ==
  LET r == hs[h].run IN
  /\ hs[h].pc = "submit"
  /\ IF Submittable(r)
     THEN adm' = [adm EXCEPT ![r].state = "submitting"] /\ Goto(h, "create")
     ELSE UNCHANGED adm /\ Goto(h, "inspect")
  /\ UNCHANGED <<status, meta, retired, op, drafts, serviceVars>>
\* The create may answer, throw or be lost: every handler inspects next.  (The
\* `accepted` flag only matters to a binding without get, which tests stub.)
SendCreate(h) ==
  LET r == hs[h].run IN
  /\ hs[h].pc = "create"
  /\ creates' = [creates EXCEPT ![r] = @ + 1]
  /\ Goto(h, "inspect")
  /\ UNCHANGED <<dbVars, inst>>
\* workflow.get().status(): the status now, or nothing known.
AssumesQueued(r) == {inst[InstanceOf(r)].status, "running"}
Observable(r)    == {inst[InstanceOf(r)].status, "none"}
Inspect(h) ==
  /\ hs[h].pc = "inspect"
  /\ \E observed \in Observable(hs[h].run) :
       SetH(h, [hs[h] EXCEPT !.pc = "record", !.observed = observed])
  /\ UNCHANGED <<dbVars, serviceVars>>
\* The receipt; on a claim released meanwhile the batch aborts and the handler
\* answers dispatch_pending.
RawStatus(observed)    == observed
ReceiptState(observed) == IF observed # "none" THEN "confirmed" ELSE "uncertain"
RecordReceipt(h) ==
  LET r == hs[h].run IN
  /\ hs[h].pc = "record"
  /\ Record(r, ReceiptState(hs[h].observed), hs[h].observed)
  /\ IF OwnsDate(r) THEN Goto(h, "reread") ELSE Respond(h)
  /\ UNCHANGED <<status, meta, retired, op, drafts, serviceVars>>
\* The claim re-read after the receipt decides between the answers "started"
\* and "dispatch_pending".
AnswersStarted(h) ==
  LET r == hs[h].run IN
  /\ hs[h].pc = "reread"
  /\ hs[h].observed # "none"
  /\ OwnsDate(r)
  /\ adm[r].state = "confirmed"
  /\ ~adm[r].finished
  /\ adm[r].instanceStatus = "running"
Reread(h) ==
  /\ hs[h].pc = "reread"
  /\ Respond(h)
  /\ UNCHANGED <<dbVars, serviceVars>>

\* {action: "resolve"}; refused (an aborted batch) when CanResolve is false,
\* a no-op on a claim already resolved.
ResolveDispatch(r) ==
  /\ CanResolve(r)
  /\ adm' = [adm EXCEPT ![r].released = TRUE, ![r].state = "resolved"]
  /\ status' = [status EXCEPT ![r] = IF @ = "running" THEN "closed" ELSE @]
  /\ UNCHANGED <<meta, retired, op, drafts, serviceVars, hs>>

\* The isolate is evicted, or the database fails this invocation.
Evict(h) ==
  /\ "evict" \in Events
  /\ hs[h].pc # "idle"
  /\ Respond(h)
  /\ UNCHANGED <<dbVars, serviceVars>>

HandlerStep(h) ==
  \/ ListRuns(h) \/ AdmitRun(h) \/ AdmitAborts(h) \/ Raced(h)
  \/ RecoverAdmitted(h) \/ RecordUnavailable(h) \/ ClaimSubmission(h)
  \/ SendCreate(h) \/ Inspect(h) \/ RecordReceipt(h) \/ Reread(h)
-----------------------------------------------------------------------------
(* The Workflow service: create, the engine, and DailyRunWorkflow.run.     *)

\* A create may arrive at any later time; one that never does was lost.  The
\* instance id is unique: another create for it would be refused.  A pinned
\* instance starts at "enter": what its attach-run step and run() read before
\* (Owned, the Run's identity) is only checked, and entering checks it again.
AcceptCreate(r) ==
  LET i == <<"daily", r>> IN
  /\ creates[r] > 0
  /\ inst[i].status = "none"
  /\ inst' = [inst EXCEPT ![i].status = "running", ![i].pc = "enter"]
  /\ UNCHANGED <<dbVars, creates, hs>>

rest       == <<creates, hs>>
At(i, pc)  == inst[i].pc = pc
Go(i, pc)  == inst' = [inst EXCEPT ![i].pc = pc]
Running(i) == inst[i].status = "running"
\* Step bodies keep executing after the engine gave up on their instance.
BodyPcs    == {"monitor", "zeroFinish", "review"}

Ends(i, end) == inst' = [inst EXCEPT ![i].status = end, ![i].pc = "dead",
                          ![i].packaged = "none"]

\* Step attach-run, ensureRun without a pinned Run: a legacy instance takes
\* the date lock first, creating its Run when there is none.
LegacyMayAttach(r) ==
  /\ AttachLegacyOk(r)
  /\ Admitted(r) => LegacyClaim(r)
AttachLegacyRun(i) ==
  /\ Running(i) /\ At(i, "attach") /\ IsLegacy(i)
  /\ LegacyMayAttach(RunOf(i))
  /\ AttachLegacy(RunOf(i))
  /\ Go(i, "claim")
  /\ UNCHANGED <<status, meta, retired, op, drafts, rest>>
AttachLegacyAdmits(i) ==
  /\ Running(i) /\ At(i, "attach") /\ IsLegacy(i)
  /\ \E now \in Clock :
       Admit(RunOf(i), <<"legacy", RunOf(i)>>, FALSE, None, "scheduled", now,
             "uncertain")
  /\ Go(i, "claim")
  /\ UNCHANGED rest

\* After the (possibly cached) attach-run step, a legacy instance takes the
\* lock again: its attach-run may have been cached before admission existed.
ClaimLegacy(i) ==
  /\ Running(i) /\ At(i, "claim") /\ IsLegacy(i)
  /\ LegacyMayAttach(RunOf(i))
  /\ AttachLegacy(RunOf(i))
  /\ Go(i, "enter")
  /\ UNCHANGED <<status, meta, retired, op, drafts, rest>>
Enter(i) ==
  LET r == RunOf(i) IN
  /\ Running(i) /\ At(i, "enter")
  /\ Owned(r) /\ Admitted(r)
  /\ adm' = [adm EXCEPT ![r].entered = TRUE, ![r].finished = FALSE]
  /\ Go(i, IF inst[i].packaged = "none" THEN "package" ELSE "route")
  /\ UNCHANGED <<status, meta, retired, op, drafts, rest>>

\* Step run-daily-step, packageDailyRun: assertOwned, then the Run's status.
\* A status that is not running may be read after ownership was lost.
Packaged(i, result) ==
  inst' = [inst EXCEPT ![i].pc = "route", ![i].packaged = result]
Package(i) ==
  LET r == RunOf(i) IN
  /\ Running(i) /\ At(i, "package")
  /\ status[r] = "running" => Owned(r)
  /\ CASE status[r] = "running" -> Go(i, "monitor")
       [] status[r] \in {"awaiting", "stopped"} ->
            Packaged(i, IF drafts[r] THEN "drafts" ELSE "zero")
       [] OTHER -> Packaged(i, "skip")
  /\ UNCHANGED <<dbVars, rest>>
\* runConnector: every write of a source entity is a batch with the fence.
MonitorDraft(i) ==
  /\ At(i, "monitor") /\ Owned(RunOf(i)) /\ ~drafts[RunOf(i)]
  /\ drafts' = [drafts EXCEPT ![RunOf(i)] = TRUE]
  /\ UNCHANGED <<status, meta, adm, retired, op, inst, rest>>
\* No Drafts: afterPackaging asserts ownership before it closes the Run.
MonitorDone(i) ==
  /\ At(i, "monitor")
  /\ IF drafts[RunOf(i)] THEN Packaged(i, "drafts")
     ELSE Owned(RunOf(i)) /\ Go(i, "zeroFinish")
  /\ UNCHANGED <<dbVars, rest>>
\* completeDailyStep: finishWithReceipt only moves a running Run.
CompletesAnyRun(r, end) == status' = [status EXCEPT ![r] = end]
CompleteDailyStep(r, end) ==
  status' = [status EXCEPT ![r] = IF @ = "running" THEN end ELSE @]
ZeroFinish(i) ==
  /\ At(i, "zeroFinish")
  /\ CompleteDailyStep(RunOf(i), "closed")
  /\ Packaged(i, "zero")
  /\ UNCHANGED <<meta, adm, retired, op, drafts, rest>>

\* assertOwned outside the checkpoints, and again at the start of the step
\* draft-and-review (afterPackaging); nothing is written between the two.
Route(i) ==
  /\ Running(i) /\ At(i, "route")
  /\ IF inst[i].packaged = "drafts" THEN Owned(RunOf(i)) /\ Go(i, "review")
     ELSE Go(i, "finish")
  /\ UNCHANGED <<dbVars, rest>>
ReviewDone(i) ==
  /\ At(i, "review")
  /\ CompleteDailyStep(RunOf(i), "awaiting")
  /\ Go(i, "finish")
  /\ UNCHANGED <<meta, adm, retired, op, drafts, rest>>

Finish(i) ==
  LET r == RunOf(i) IN
  /\ Running(i) /\ At(i, "finish")
  /\ adm' = IF OwnsDate(r) THEN [adm EXCEPT ![r].finished = TRUE] ELSE adm
  /\ Go(i, "end")
  /\ UNCHANGED <<status, meta, retired, op, drafts, rest>>
CompleteInstance(i) ==
  /\ Running(i) /\ At(i, "end")
  /\ Ends(i, "complete")
  /\ UNCHANGED <<dbVars, rest>>

\* A fence or an assert refuses what the instance does next.
FencedPcs == {"claim", "enter", "package", "monitor"}
Refused(i) ==
  LET r == RunOf(i) IN
  \/ inst[i].pc \in FencedPcs /\ ~Owned(r)
  \/ At(i, "route") /\ inst[i].packaged = "drafts" /\ ~Owned(r)
  \/ inst[i].pc \in {"attach", "claim"} /\ IsLegacy(i) /\ Exists(r)
       /\ ~LegacyMayAttach(r)
  \/ At(i, "attach") /\ IsLegacy(i) /\ ~Exists(r)
       /\ ~AdmitOk(r, <<"legacy", r>>, FALSE, None)
Throw(i) ==
  /\ Refused(i)
  /\ Ends(i, IF Running(i) THEN "errored" ELSE inst[i].status)
  /\ UNCHANGED <<dbVars, rest>>

\* An outage, a step timeout or an operator's terminate ends the instance;
\* a step body that was executing may run on (a timeout does not stop it).
GiveUp(i) ==
  /\ "giveup" \in Events /\ Running(i)
  /\ \/ Ends(i, "errored")
     \/ /\ inst[i].pc \in BodyPcs
        /\ inst' = [inst EXCEPT ![i].status = "errored"]
  /\ UNCHANGED <<dbVars, rest>>
\* The abandoned body returns: nothing follows it.
BodyEnds(i) ==
  /\ inst[i].status \in TerminalInstance
  /\ inst[i].pc \notin BodyPcs \cup {"dead"}
  /\ Ends(i, inst[i].status)
  /\ UNCHANGED <<dbVars, rest>>
\* The engine loses the isolate and replays run() over its checkpoints.  A
\* legacy attach-run may be cached or not, and the checkpoint of run-daily-step
\* may be lost while its step has just returned.
FirstPc(i) == IF IsLegacy(i) THEN "attach" ELSE "enter"
Replay(i) ==
  /\ "replay" \in Events /\ Running(i)
  /\ \E pc \in {FirstPc(i), IF IsLegacy(i) THEN "claim" ELSE "enter"},
        packaged \in {inst[i].packaged} \cup
                     (IF At(i, "route") THEN {"none"} ELSE {}) :
       inst' = [inst EXCEPT ![i].pc = pc, ![i].packaged = packaged]
  /\ UNCHANGED <<dbVars, rest>>
\* instance.restart(): a fresh execution of the same instance.
Restart(i) ==
  /\ inst[i].status \in TerminalInstance /\ At(i, "dead")
  /\ inst[i].restarts < MaxRestarts
  /\ inst' = [inst EXCEPT ![i].status = "running", ![i].pc = FirstPc(i),
                          ![i].restarts = @ + 1]
  /\ UNCHANGED <<dbVars, rest>>

WorkflowStep(i) ==
  \/ AttachLegacyRun(i) \/ AttachLegacyAdmits(i)
  \/ ClaimLegacy(i) \/ Enter(i) \/ Package(i) \/ MonitorDone(i)
  \/ ZeroFinish(i) \/ Route(i) \/ ReviewDone(i) \/ Finish(i)
  \/ CompleteInstance(i) \/ Throw(i) \/ BodyEnds(i)
-----------------------------------------------------------------------------
(* What else moves a Run: paid operations, the budget stop, the gate.      *)

runRest == <<meta, adm, retired, drafts, inst, rest>>

\* llmAccountingRepo.reserve composes the admission fence.  From here until it
\* is settled, released or reconciled the operation is unsettled (the module
\* LlmAccounting has its states).
Reserve(r) ==
  /\ "paid" \in Events
  /\ op[r] = "idle" /\ status[r] \in LiveStatus /\ Owned(r)
  /\ op' = [op EXCEPT ![r] = "open"]
  /\ UNCHANGED <<status, runRest>>
EndOperation(r) ==
  /\ op[r] = "open"
  /\ op' = [op EXCEPT ![r] = "idle"]
  /\ UNCHANGED <<status, runRest>>
\* markStopped: only a running Run moves; not fenced.
BudgetStop(r) ==
  /\ "paid" \in Events
  /\ status[r] = "running"
  /\ status' = [status EXCEPT ![r] = "stopped"]
  /\ UNCHANGED <<op, runRest>>
\* finalizeDecidedRunStmt once the last Draft head is decided; not fenced.
Decide(r) ==
  /\ status[r] = "awaiting"
  /\ \E end \in {"published", "closed"} :
       status' = [status EXCEPT ![r] = end]
  /\ UNCHANGED <<op, runRest>>
-----------------------------------------------------------------------------
Init ==
  /\ \E legacy \in [LegacyRuns -> LegacyStatus],
        at \in [LegacyRuns -> LegacyStarted] :
       /\ status = [r \in RunIds |->
                      IF r \in LegacyRuns THEN legacy[r] ELSE "absent"]
       /\ drafts = [r \in RunIds |->
                      r \in LegacyRuns /\ legacy[r] \in {"awaiting", "published"}]
       /\ meta = [r \in RunIds |->
                    [origin |-> "scheduled", prior |-> None,
                     started |-> IF r \in LegacyRuns THEN at[r] ELSE 0]]
  /\ adm = [r \in RunIds |-> NoAdmission]
  /\ retired = {}
  /\ op = [r \in RunIds |-> "idle"]
  /\ inst = [i \in Instances |->
               [status |-> IF IsLegacy(i) THEN "running" ELSE "none",
                pc |-> IF IsLegacy(i) THEN "attach" ELSE "dead",
                packaged |-> "none", restarts |-> 0]]
  /\ creates = [r \in RunIds |-> 0]
  /\ hs = [h \in Handlers |-> IdleHandler]

HandlerNext ==
  \/ \E h \in Handlers : \/ TriggerOperator(h) \/ TriggerScheduled(h)
                          \/ \E r \in RunIds : Check(h, r)
                          \/ HandlerStep(h) \/ Evict(h)
  \/ \E r \in RunIds : ResolveDispatch(r)
ServiceNext ==
  \/ \E r \in RunIds : AcceptCreate(r)
  \/ \E i \in Instances : \/ WorkflowStep(i) \/ MonitorDraft(i)
                            \/ GiveUp(i) \/ Replay(i) \/ Restart(i)
RunNext == \E r \in RunIds :
  \/ Reserve(r) \/ EndOperation(r) \/ BudgetStop(r) \/ Decide(r)
Next == HandlerNext \/ ServiceNext \/ RunNext

Spec == Init /\ [][Next]_vars

\* The engine drives an instance, and a Worker its request, to the end; a paid
\* operation is settled, released or reconciled; the operator decides Drafts and
\* keeps checking and resolving.  A lookup need not answer every time, only not
\* fail forever.  A create may still be lost, an instance given up.
Fairness ==
  /\ \A i \in Instances : WF_vars(WorkflowStep(i))
  /\ \A h \in Handlers :
       /\ WF_vars(HandlerStep(h))
       /\ SF_vars(Inspect(h) /\ hs'[h].observed # "none")
       /\ \A r \in RunIds : SF_vars(Check(h, r) /\ hs'[h].pc = "submit")
  /\ \A r \in RunIds :
       /\ WF_vars(EndOperation(r)) /\ WF_vars(Decide(r))
       /\ SF_vars(ResolveDispatch(r))
FairSpec == Spec /\ Fairness
-----------------------------------------------------------------------------
Pcs == {"dead", "attach", "claim", "enter", "package", "monitor", "zeroFinish",
        "route", "review", "finish", "end"}
RecoverPcs == {"recover", "unbound", "submit", "create", "inspect", "record",
               "reread"}
HandlerPcs == {"idle", "list", "admit", "raced"} \cup RecoverPcs
NoneOr(S) == S \cup {None}

\* Every row, instance and handler has the shape its table or type gives it.
TypeOK ==
  /\ status \in [RunIds -> RunStatus]
  /\ meta \in [RunIds -> [origin : Origins, prior : NoneOr(RunIds), started : Nat]]
  /\ adm \in [RunIds -> [state : AdmissionState, request : NoneOr(Requests),
                         instanceStatus : InstanceStatus, entered : BOOLEAN,
                         finished : BOOLEAN, released : BOOLEAN]]
  /\ retired \subseteq RunIds
  /\ op \in [RunIds -> {"idle", "open"}]
  /\ drafts \in [RunIds -> BOOLEAN]
  /\ inst \in [Instances -> [status : InstanceStatus, pc : Pcs,
                   restarts : 0 .. MaxRestarts,
                   packaged : {"none", "skip", "zero", "drafts"}]]
  /\ creates \in [RunIds -> Nat]
  /\ hs \in [Handlers -> [pc : HandlerPcs, request : NoneOr(Requests),
                 origin : Origins, date : NoneOr(Dates), supersede : BOOLEAN,
                 at : 0 .. MaxClock, run : NoneOr(RunIds), prior : NoneOr(RunIds),
                 observed : InstanceStatus]]
  /\ \A h \in Handlers :
       hs[h].pc \in RecoverPcs \cup {"admit"} => hs[h].run \in RunIds

\* At most one Run of a date holds an unreleased admission, whoever admits,
\* attaches, resolves or retries (admit, attachLegacy, resolve).
OneOwnerPerDate ==
  \A r \in RunIds : \A q \in SameDate(r) : OwnsDate(r) /\ OwnsDate(q) => r = q

\* While an admitted Run is running, awaiting its gate or has an unsettled paid
\* operation, no other Run of the date is: admission never overlaps work.
AdmittedWorkIsAlone ==
  \A r \in RunIds : Admitted(r) /\ Live(r) =>
    \A q \in SameDate(r) \ {r} : ~Live(q)

\* A Run whose ownership moved on (released or retired) has nothing left that
\* an unfenced write (completeDailyStep, markStopped, the gate) could move.
Fenced(r) == r \in retired \/ (Admitted(r) /\ adm[r].released)
FencedIsSettled == \A r \in RunIds : Fenced(r) => ~Live(r)

\* The inductive form of the three: an admission, a retirement or an unsettled
\* operation belongs to a Run that exists.
RowsExist ==
  \A r \in RunIds : Admitted(r) \/ r \in retired \/ ~Settled(r) => Exists(r)
AdmissionInv == /\ RowsExist
                /\ OneOwnerPerDate
                /\ AdmittedWorkIsAlone
                /\ FencedIsSettled

\* Ownership is never taken from a Workflow that entered and is still at work;
\* only a body its engine already gave up on may be executing.
WorkPcs == Pcs \ {"dead", "attach", "claim", "enter", "end"}
ReleasedIsQuiescent ==
  \A i \in Instances : Fenced(RunOf(i)) /\ inst[i].pc \in WorkPcs =>
    inst[i].status \in TerminalInstance

\* Retries, races and stale receipts never submit a second Workflow create.
AtMostOneCreate == \A r \in RunIds : creates[r] <= 1

\* "started" is only ever answered for a Workflow instance that exists.
StartedIsReal ==
  \A h \in Handlers :
    AnswersStarted(h) => inst[InstanceOf(hs[h].run)].status # "none"

\* The noon-ET twins, their retries and a legacy instance produce one
\* scheduled Run per date.
OneScheduledRun ==
  \A r \in RunIds : \A q \in SameDate(r) :
    /\ Exists(r) /\ meta[r].origin = "scheduled"
    /\ Exists(q) /\ meta[q].origin = "scheduled"
    => r = q

\* What supersedes what (run.superseded) is decided against the list of Runs
\* by started_at (listRunsForDate, supersede_predecessor).  Whatever the clocks
\* say, a published Run superseded one of its date that is published too, and
\* only one superseded nothing; two supersede the same Run only when one of
\* them brought an older reading than the Run it superseded; and where none
\* did, each superseded the one before it in the list.
Supersedes(r, q) == meta[r].prior = q
StartedInOrder(r) == meta[r].prior # None => Newer(r, meta[r].prior)
NextInList(r, q, d) ==
  Newer(r, q) /\ ~\E p \in Published(d) : Newer(r, p) /\ Newer(p, q)
ChainOn(d) ==
  /\ \A r \in Published(d) : meta[r].prior \in NoneOr(Published(d) \ {r})
  /\ \A r, q \in Published(d) : r # q /\ meta[r].prior = meta[q].prior =>
       meta[r].prior # None /\ ~(StartedInOrder(r) /\ StartedInOrder(q))
  /\ (\A r \in Published(d) : StartedInOrder(r)) =>
       \A r, q \in Published(d) : NextInList(r, q, d) => Supersedes(r, q)
PublishedChain == \A d \in Dates : ChainOn(d)

\* What was fenced stays fenced and is never written again.
SealedStaysSealed ==
  [][\A r \in RunIds : Fenced(r) =>
       Fenced(r)' /\ UNCHANGED <<status[r], op[r], drafts[r], meta[r]>>]_vars

\* Check reconciles the claim of a Run with its Workflow instance: a handler that
\* records the status the instance really has leaves it in the row.
ReconcilesActualStatus ==
  [][\A h \in Handlers :
       LET r == hs[h].run IN
       /\ RecordReceipt(h) /\ OwnsDate(r)
       /\ hs[h].observed = inst[InstanceOf(r)].status
       => adm'[r].instanceStatus = hs[h].observed]_vars

\* No lock without a way forward: an owned date becomes free for the next
\* admission or for a release, or the operator's resolution releases it.
DateComesFree ==
  \A r \in RunIds : OwnsDate(r) ~> (~OwnsDate(r) \/ Releasable(r))
-----------------------------------------------------------------------------
(* The admission table is a lock per date (DateLock): the holder is the     *)
(* unreleased claim, a live Run is one with work left, a sealed one fenced. *)
Holder == [d \in Dates |->
             LET held == {r \in RunIds : DateOf(r) = d /\ OwnsDate(r)}
             IN  IF held = {} THEN None ELSE CHOOSE r \in held : TRUE]

Lock == INSTANCE DateLock WITH
  Runs <- RunIds, Days <- Dates, DayOf <- DateOf, Nobody <- None, owner <- Holder, known <- {r \in RunIds : Exists(r)},
  live <- {r \in RunIds : Live(r)}, sealed <- {r \in RunIds : Fenced(r)}

\* Every handler, Workflow, gate and accounting step is a step of the lock or
\* leaves it alone.
ImplementsDateLock == Lock!LockSpec
=============================================================================
