---------------------------- MODULE LlmAccounting ----------------------------
(***************************************************************************)
(* Paid model calls and the money they hold: complete() of                  *)
(* src/pipeline/ai/gateway.ts over the batches of                           *)
(* src/shared/db/repos/llmAccountingRepo.ts and the views and triggers of   *)
(* migrations/0021_atomic_llm_accounting.sql.                               *)
(*                                                                          *)
(* One D1 batch is one action, and so is everything complete() does between *)
(* two awaits; "pc" names the await a call is suspended at.  A call is one  *)
(* execution of complete(), and its identity stands for the fresh "owner"   *)
(* the execution draws.  The provider is external: it may charge and never  *)
(* answer, answer after the deadline, or refuse.  An operation is           *)
(* identified by its Run and logical key (UNIQUE(run_id, logical_key)).     *)
(***************************************************************************)
EXTENDS Integers, FiniteSets

CONSTANTS
  Runs,       \* Runs with accounting
  Keys,       \* logical keys of a Run's calls
  Payloads,   \* fingerprints of what is asked
  Calls,      \* executions of complete()
  Budget,     \* runs.budget_cents (or the configured default), per Run
  Opening,    \* spend a Run has from before operations existed, per Run
  Bounds,     \* reviewed conservative bounds, in cents
  Charges,    \* what the provider may really charge, in cents
  Estimates,  \* what the tokens an answer reports may come to, in cents
  Attested,   \* amounts an operator may attest
  Periods,    \* periods that may be provisioned
  Cap,        \* their caps
  Times,      \* creation times of operations
  Window,     \* the times a period includes
  Environment,\* bound: which of {"abandon", "d1", "run", "provision"} happen: a
              \* call dying at an await, D1 refusing a settlement, a Run moving on
              \* or losing its date, a period provisioned while calls run
  None

Ops == Runs \X Keys
RunOf(o) == o[1]
OpsOf(r) == {o \in Ops : RunOf(o) = r}

ASSUME MoneyAssumption ==
  /\ Budget \in [Runs -> Nat] /\ Opening \in [Runs -> Nat]
  /\ Cap \in [Periods -> Nat]
  /\ Bounds \subseteq Nat \ {0} /\ Charges \subseteq Nat
  /\ Estimates \subseteq Nat /\ Attested \subseteq Nat
ASSUME FiniteAssumption == IsFiniteSet(Ops) \* a table has finitely many rows
ASSUME WindowAssumption == Window \in [Periods -> SUBSET Times]
ASSUME NoneAssumption == None \notin Calls \cup Payloads \cup Times /\ None # "result"
ASSUME EnvironmentAssumption ==
  Environment \subseteq {"abandon", "d1", "run", "provision"}

VARIABLES
  runStatus,   \* runs.status
  fenced,      \* Runs the admission fence refuses (released, retired)
  stopReceipt, \* Runs with the run.stopped receipt of a budget stop
  ops,         \* llm_operations rows and their llm_operation_periods rows
  ledger,      \* llm_calls rows, by the operation they settle
  spend,       \* runs.spend_cents
  provisioned, \* llm_periods rows
  calls,       \* executions of complete()
  invocations, \* how often the adapter was invoked for an operation
  charge,      \* what the provider charged for an operation
  seen         \* the operation row the operator last looked at

dbVars == <<runStatus, fenced, stopReceipt, ops, ledger, spend, provisioned>>
vars == <<dbVars, calls, invocations, charge, seen>>

Held  == {"reserved", "dispatched", "uncertain"}
Ended == {"settled", "reconciled", "released"}
NoOp == [state |-> "absent", version |-> 0, owner |-> None, payload |-> None,
         bound |-> 0, liability |-> 0, issue |-> FALSE, result |-> None,
         created |-> None, periods |-> {}]
\* llm_calls.cost_basis: what a ledger row books ("none" without a row), and what
\* a call is about to book.
CostBases == {"none", "reported", "estimate", "bound"}
NoLedger == [basis |-> "none", cost |-> 0]
NewCall == [pc |-> "start", op |-> None, payload |-> None, steers |-> FALSE,
            run |-> None, bound |-> 0, version |-> 0, cost |-> 0,
            basis |-> "none", late |-> FALSE, answer |-> None, result |-> None]
-----------------------------------------------------------------------------
(* Bugs the runs must notice: a guard left out.  The other ones stand       *)
(* before the definition they would replace; nothing below uses any of them.*)
Unchecked(x)     == TRUE
Unchecked2(x, y) == TRUE
-----------------------------------------------------------------------------
(* What the SQL reads: the rows of an operation, the views                  *)
(* llm_run_accounting and llm_period_accounting.                            *)

Larger(a, b)  == IF a >= b THEN a ELSE b
Smaller(a, b) == IF a <= b THEN a ELSE b

Exists(o) == ops[o].state # "absent"
Holding(o) == ops[o].state \in Held
Open(o)    == Holding(o) \/ ops[o].issue

\* What an operation counts for: its ledger amount and the liability it holds.
Counted(row, entry) == entry.cost + (IF row.state \in Held THEN row.liability ELSE 0)
Accounted(o) == Counted(ops[o], ledger[o])

\* SUM(): every cent of every amount is counted once.
Cents(amounts) == UNION {{x} \X (1..amounts[x]) : x \in DOMAIN amounts}
Sum(amounts) == Cardinality(Cents(amounts))

Total(r, rows, entries) ==
  Opening[r] + Sum([o \in OpsOf(r) |-> Counted(rows[o], entries[o])])
RunTotal(r) == Total(r, ops, ledger)
Issues(r)   == {o \in OpsOf(r) : ops[o].issue}

\* Frozen attribution, or a period provisioned after the operation was created.
InPeriod(o, p) == p \in ops[o].periods \/ ops[o].created \in Window[p]
PeriodOps(p)   == {o \in Ops : Exists(o) /\ InPeriod(o, p)}
PeriodTotal(p) == Sum([o \in PeriodOps(p) |-> Accounted(o)])
PeriodIssues(p) == {o \in PeriodOps(p) : ops[o].issue}
At(t)          == {p \in provisioned : t \in Window[p]}
PeriodsOf(o)   == {p \in provisioned : InPeriod(o, p)}

\* syncRun: the cached total is recomputed in the batch that changes it.
Sync(r) == spend' = [spend EXCEPT ![r] = Total(r, ops', ledger')]
-----------------------------------------------------------------------------
(* complete(): where an execution goes next and what it answers.           *)

Goto(c, pc)    == calls' = [calls EXCEPT ![c].pc = pc]
End(c, answer) == calls' = [calls EXCEPT ![c].pc = "done", ![c].answer = answer]

\* replay(op): a stored completion answers whatever became of the operation.
\* (The bugs before it: answering any payload, leaking the raw state.)
Untyped(o, payload) == ops[o].state
WithoutResult(o) ==
  CASE ops[o].state \in {"reconciled", "released"}      -> "unavailable"
    [] ops[o].state \notin {"reconciled", "released"} ->
         IF ops[o].issue THEN "uncertain" ELSE "pending"
ReplayedToAnyone(o, payload) ==
  IF ops[o].result # None THEN "result" ELSE WithoutResult(o)
Replayed(o, payload) ==
  CASE payload # ops[o].payload -> "conflict"
    [] payload = ops[o].payload /\ ops[o].result # None -> "result"
    [] payload = ops[o].payload /\ ops[o].result = None -> WithoutResult(o)

Replay(c, o, payload) ==
  calls' = [calls EXCEPT ![c].pc = "done", ![c].op = o, ![c].payload = payload,
                         ![c].answer = Replayed(o, payload),
                         ![c].result = IF Replayed(o, payload) = "result"
                                       THEN ops[o].result ELSE None]

\* A caller asks; "steers" says whether its role may also call while the Run
\* awaits its gate.  getOperation answers before anything else is read.
Begin(c) ==
  /\ calls[c].pc = "start"
  /\ \E o \in Ops, payload \in Payloads, steers \in BOOLEAN, b \in Bounds :
       IF Exists(o)
       THEN Replay(c, o, payload)
       ELSE calls' = [calls EXCEPT ![c].pc = "run", ![c].op = o, ![c].bound = b,
                                   ![c].payload = payload, ![c].steers = steers]
  /\ UNCHANGED <<dbVars, invocations, charge, seen>>

\* The Run as it is read here decides much later whether a refusal stops it.
ReadRun(c) ==
  /\ calls[c].pc = "run"
  /\ calls' = [calls EXCEPT ![c].pc = "account",
                            ![c].run = runStatus[RunOf(calls[c].op)]]
  /\ UNCHANGED <<dbVars, invocations, charge, seen>>

MayCall(status, steers) == status = "running" \/ (steers /\ status = "awaiting")

\* A first look at the ceiling; the batch of reserve is what enforces it.
ReadAccounting(c) ==
  LET r == RunOf(calls[c].op)
      exhausted == RunTotal(r) >= Budget[r]
      short == RunTotal(r) + calls[c].bound > Budget[r]
      statusOk == MayCall(calls[c].run, calls[c].steers)
  IN
  /\ calls[c].pc = "account"
  /\ \/ Issues(r) # {} /\ End(c, "uncertain")
     \/ Issues(r) = {} /\ (exhausted \/ (statusOk /\ short)) /\ Goto(c, "refuse")
     \/ Issues(r) = {} /\ ~exhausted /\ ~statusOk /\ End(c, "stopped")
     \/ Issues(r) = {} /\ ~exhausted /\ statusOk /\ ~short /\ Goto(c, "reserve")
  /\ UNCHANGED <<dbVars, invocations, charge, seen>>

\* refuseAfterIdentityCheck: a concurrent twin may have reserved meanwhile.
Refuse(c) ==
  /\ calls[c].pc = "refuse"
  /\ \/ Exists(calls[c].op) /\ Replay(c, calls[c].op, calls[c].payload)
     \/ ~Exists(calls[c].op) /\ calls[c].run = "running" /\ Goto(c, "stop")
     \/ ~Exists(calls[c].op) /\ calls[c].run # "running" /\ End(c, "stopped")
  /\ UNCHANGED <<dbVars, invocations, charge, seen>>

\* refuseBudget: markStoppedStmt is conditional, the receipt beside it is not.
\* (The bug before it: an unconditional stop.)
StopAnyRun(c) ==
  LET r == RunOf(calls[c].op) IN
  /\ calls[c].pc = "stop"
  /\ runStatus' = [runStatus EXCEPT ![r] = "stopped"]
  /\ stopReceipt' = stopReceipt \cup {r}
  /\ End(c, "stopped")
  /\ UNCHANGED <<fenced, ops, ledger, spend, provisioned, invocations, charge, seen>>
StopRun(c) ==
  LET r == RunOf(calls[c].op) IN
  /\ calls[c].pc = "stop"
  /\ runStatus' = IF runStatus[r] = "running"
                  THEN [runStatus EXCEPT ![r] = "stopped"] ELSE runStatus
  /\ stopReceipt' = stopReceipt \cup {r}
  /\ End(c, "stopped")
  /\ UNCHANGED <<fenced, ops, ledger, spend, provisioned, invocations, charge, seen>>
-----------------------------------------------------------------------------
(* reserve and claimDispatch: the two batches that admit money.            *)

\* UNIQUE(run_id, logical_key).
Unclaimed(o) == ~Exists(o)

\* (The bug before it: the ceiling was already compared by ReadAccounting.)
AdmitsOnce(r, b, steers) ==
  r \notin fenced /\ MayCall(runStatus[r], steers) /\ Issues(r) = {}
RunAdmits(r, b, steers) ==
  /\ r \notin fenced
  /\ MayCall(runStatus[r], steers)
  /\ RunTotal(r) + b <= Budget[r]
  /\ Issues(r) = {}

PeriodAdmits(p, b) == PeriodTotal(p) + b <= Cap[p] /\ PeriodIssues(p) = {}

Reserved(c, t) ==
  [NoOp EXCEPT !.state = "reserved", !.version = 1, !.owner = c,
               !.payload = calls[c].payload, !.bound = calls[c].bound,
               !.liability = calls[c].bound, !.created = t, !.periods = At(t)]

\* A refused batch re-reads the operation, which is what Refuse does.
Reserve(c) ==
  LET o == calls[c].op
      b == calls[c].bound
  IN
  /\ calls[c].pc = "reserve"
  /\ \E t \in Times :
       LET admits == /\ Unclaimed(o)
                     /\ RunAdmits(RunOf(o), b, calls[c].steers)
                     /\ \A p \in At(t) : PeriodAdmits(p, b)
       IN \/ /\ admits
             /\ ops' = [ops EXCEPT ![o] = Reserved(c, t)]
             /\ ledger' = ledger
             /\ Sync(RunOf(o))
             /\ Goto(c, "claim")
          \/ ~admits /\ Goto(c, "refuse") /\ UNCHANGED <<ops, ledger, spend>>
  /\ UNCHANGED <<runStatus, fenced, stopReceipt, provisioned, invocations, charge, seen>>

Owns(c, o) == ops[o].state = "reserved" /\ ops[o].owner = c /\ ops[o].version = 1

\* The ceilings may have been exhausted since by reconciliation or provisioning.
MayDispatch(c, o) ==
  /\ Owns(c, o)
  /\ RunOf(o) \notin fenced /\ RunTotal(RunOf(o)) <= Budget[RunOf(o)]
  /\ Issues(RunOf(o)) = {}
  /\ \A p \in PeriodsOf(o) : PeriodTotal(p) <= Cap[p] /\ PeriodIssues(p) = {}

ClaimDispatch(c) ==
  LET o == calls[c].op IN
  /\ calls[c].pc = "claim"
  /\ \/ /\ MayDispatch(c, o)
        /\ ops' = [ops EXCEPT ![o].state = "dispatched", ![o].version = @ + 1]
        /\ Goto(c, "invoke")
     \/ ~MayDispatch(c, o) /\ End(c, "error") /\ ops' = ops
  /\ UNCHANGED <<runStatus, fenced, stopReceipt, ledger, spend, provisioned,
                 invocations, charge, seen>>
-----------------------------------------------------------------------------
(* The provider, and what complete() learns of it before its deadline.     *)

Invoke(c) ==
  /\ calls[c].pc = "invoke"
  /\ \E x \in Charges : charge' = [charge EXCEPT ![calls[c].op] = x]
  /\ invocations' = [invocations EXCEPT ![calls[c].op] = @ + 1]
  /\ Goto(c, "waiting")
  /\ UNCHANGED <<dbVars, seen>>

\* What an answer shows: the cost the provider reports, taken for what it charged,
\* or nothing usable; and what its tokens come to.
Observed(o) == {0, charge[o]} \cup Estimates

\* Without an issue the cost booked is the reported one, when it is within the
\* bound, or, from a provider that reports none (Workers AI, DeepInfra), the
\* estimate of tokens within the policy, whatever was charged.  Anything else is
\* an issue, and counts for the bound at least.
CleanReport(c)      == charge[calls[c].op] <= calls[c].bound
CleanEstimate(c, e) == e <= calls[c].bound
Books(c, basis, amount) ==
  calls' = [calls EXCEPT ![c].pc = "settle", ![c].basis = basis, ![c].cost = amount]
Responds(c) ==
  LET o == calls[c].op IN
  /\ calls[c].pc = "waiting"
  /\ \/ CleanReport(c) /\ Books(c, "reported", charge[o])
     \/ \E e \in Estimates : CleanEstimate(c, e) /\ Books(c, "estimate", e)
     \/ \E x \in Observed(o) : Books(c, "bound", Larger(calls[c].bound, x))
  /\ UNCHANGED <<dbVars, invocations, charge, seen>>

\* ProvenPreDispatchRefusal or DefiniteProviderRefusal: nothing was charged.
RefusesUnpaid(c) ==
  /\ calls[c].pc = "waiting" /\ charge[calls[c].op] = 0
  /\ \E pc \in {"freeLocal", "freeRefused"} : Goto(c, pc)
  /\ UNCHANGED <<dbVars, invocations, charge, seen>>

\* Any other failure, or the deadline: then the answer may still arrive.  (The
\* bug before it: a failure taken for a refusal.)
FailsFree(c) ==
  /\ calls[c].pc = "waiting"
  /\ Goto(c, "freeLocal")
  /\ UNCHANGED <<dbVars, invocations, charge, seen>>
Fails(c) ==
  /\ calls[c].pc = "waiting"
  /\ \E late \in BOOLEAN :
       calls' = [calls EXCEPT ![c].pc = "mark", ![c].late = late]
  /\ UNCHANGED <<dbVars, invocations, charge, seen>>
-----------------------------------------------------------------------------
(* Recording the outcome.                                                   *)

\* releaseBeforePaidInvocation and releaseDefiniteProviderRefusal.
Releasable(c, o) ==
  ops[o].state = "dispatched" /\ ops[o].owner = c /\ ops[o].version = 2

Release(c) ==
  LET o == calls[c].op IN
  /\ calls[c].pc \in {"freeLocal", "freeRefused"}
  /\ \/ /\ Releasable(c, o)
        /\ ops' = [ops EXCEPT ![o].state = "released", ![o].version = @ + 1,
                              ![o].liability = 0, ![o].issue = FALSE]
        /\ ledger' = ledger
        /\ Sync(RunOf(o))
        /\ End(c, "error")
     \/ /\ ~Releasable(c, o)
        /\ IF calls[c].pc = "freeLocal" THEN End(c, "error") ELSE Goto(c, "mark")
        /\ UNCHANGED <<ops, ledger, spend>>
  /\ UNCHANGED <<runStatus, fenced, stopReceipt, provisioned, invocations, charge, seen>>

\* The liability stays: elapsed time never proves that nothing was charged.
MarkUncertain(c) ==
  LET o == calls[c].op IN
  /\ calls[c].pc = "mark"
  /\ ops' = IF ops[o].state = "dispatched" /\ ops[o].owner = c
            THEN [ops EXCEPT ![o].state = "uncertain", ![o].version = @ + 1,
                             ![o].issue = TRUE]
            ELSE ops
  /\ End(c, "error")
  /\ UNCHANGED <<runStatus, fenced, stopReceipt, ledger, spend, provisioned,
                 invocations, charge, seen>>

\* retainResponseEvidence, guarded against settled and reconciled operations.
\* (The bugs before the definitions: no state guard, no syncRun.)
RetainableByOwner(c, o) == ops[o].owner = c
Retainable(c, o) == ops[o].state \in {"dispatched", "uncertain"} /\ ops[o].owner = c

Retain(c, o, amount) ==
  /\ ops' = IF Retainable(c, o)
            THEN [ops EXCEPT ![o].state = "uncertain", ![o].version = @ + 1,
                    ![o].issue = TRUE,
                    ![o].liability = Larger(Larger(@, ops[o].bound), amount)]
            ELSE ops
  /\ ledger' = ledger
  /\ Sync(RunOf(o))

LateResponse(c) ==
  LET o == calls[c].op IN
  /\ calls[c].late
  /\ \E x \in Observed(o) : Retain(c, o, Larger(calls[c].bound, x))
  /\ calls' = [calls EXCEPT ![c].late = FALSE]
  /\ UNCHANGED <<runStatus, fenced, stopReceipt, provisioned, invocations, charge, seen>>

\* settle reads the row, then commits on the version it read.  (The bug before
\* MaySettle: ownership instead of state and version.)
SettleRead(c) ==
  LET o == calls[c].op IN
  /\ calls[c].pc = "settle"
  /\ \/ /\ ops[o].state = "dispatched" /\ ops[o].owner = c
        /\ calls' = [calls EXCEPT ![c].pc = "commit", ![c].version = ops[o].version]
     \/ ~(ops[o].state = "dispatched" /\ ops[o].owner = c) /\ End(c, "error")
  /\ UNCHANGED <<dbVars, invocations, charge, seen>>

SettlesOwn(c, o) == ops[o].owner = c
MaySettle(c, o) == /\ ops[o].state = "dispatched" /\ ops[o].owner = c
                   /\ ops[o].version = calls[c].version

\* Ledger, private result, state and cached total in one batch.
Settle(c) ==
  LET o == calls[c].op
      flagged == calls[c].basis = "bound"
  IN
  /\ calls[c].pc = "commit" /\ MaySettle(c, o)
  /\ ledger' = [ledger EXCEPT ![o] = [basis |-> calls[c].basis,
                                          cost |-> calls[c].cost]]
  /\ ops' = [ops EXCEPT ![o].state = "settled", ![o].version = @ + 1,
                        ![o].liability = 0, ![o].issue = flagged,
                        ![o].result = IF flagged THEN None ELSE c]
  /\ Sync(RunOf(o))
  /\ calls' = [calls EXCEPT ![c].pc = "done",
                  ![c].answer = IF flagged THEN "uncertain" ELSE "result",
                  ![c].result = IF flagged THEN None ELSE c]
  /\ UNCHANGED <<runStatus, fenced, stopReceipt, provisioned, invocations, charge, seen>>

\* The batch failed: what was observed is kept on the operation instead.
SettleFails(c) ==
  /\ calls[c].pc = "commit"
  /\ ~MaySettle(c, calls[c].op) \/ "d1" \in Environment
  /\ Goto(c, "retain")
  /\ UNCHANGED <<dbVars, invocations, charge, seen>>

RetainFailed(c) ==
  LET o == calls[c].op IN
  /\ calls[c].pc = "retain"
  /\ Retain(c, o, Larger(ops[o].bound, calls[c].cost))
  /\ End(c, "error")
  /\ UNCHANGED <<runStatus, fenced, stopReceipt, provisioned, invocations, charge, seen>>

\* A Worker is evicted, D1 loses an answer, preflight or credentials fail: the
\* execution ends here, a response still under way may be retained later.
Abandon(c) ==
  /\ "abandon" \in Environment
  /\ calls[c].pc \notin {"start", "done"}
  /\ End(c, "error")
  /\ UNCHANGED <<dbVars, invocations, charge, seen>>
-----------------------------------------------------------------------------
(* The operator and the rest of the pipeline.                               *)

\* Run Evidence shows the operation's row with its version.
Look(o) ==
  /\ Exists(o) /\ ops[o].state # "reconciled" /\ seen[o] # ops[o]
  /\ seen' = [seen EXCEPT ![o] = ops[o]]
  /\ UNCHANGED <<dbVars, calls, invocations, charge>>

\* The row is the one the request was made for (expectedVersion).  (The bug before
\* Reconcilable: nothing to reconcile before the dispatch.)
Expected(o) == seen[o].version = ops[o].version
ReconcilableCharge(o) == ops[o].state \in {"dispatched", "uncertain", "settled"}
Reconcilable(o) == Exists(o) /\ ops[o].state # "reconciled"

Reconcile(o) ==
  /\ Reconcilable(o) /\ Expected(o)
  /\ \E amount \in Attested :
       ledger' = [ledger EXCEPT ![o] = [basis |-> "reported", cost |-> amount]]
  /\ ops' = [ops EXCEPT ![o].state = "reconciled", ![o].version = @ + 1,
                        ![o].liability = 0, ![o].issue = FALSE]
  /\ Sync(RunOf(o))
  /\ UNCHANGED <<runStatus, fenced, stopReceipt, provisioned, calls, invocations,
                 charge, seen>>

\* Periods are append-only and may be provisioned when operations exist.
Provision(p) ==
  /\ "provision" \in Environment /\ p \notin provisioned
  /\ provisioned' = provisioned \cup {p}
  /\ UNCHANGED <<runStatus, fenced, stopReceipt, ops, ledger, spend, calls,
                 invocations, charge, seen>>

\* Packaging, the gate and dispatch resolution (RunAdmission).
RunMovesOn(r) ==
  /\ "run" \in Environment
  /\ \/ runStatus[r] = "running" /\ runStatus' = [runStatus EXCEPT ![r] = "awaiting"]
     \/ /\ runStatus[r] \in {"running", "awaiting"}
        /\ runStatus' = [runStatus EXCEPT ![r] = "closed"]
  /\ UNCHANGED <<fenced, stopReceipt, ops, ledger, spend, provisioned, calls,
                 invocations, charge, seen>>

\* settled(id): nothing held and no issue, the condition of every release.
Settled(r) == \A o \in OpsOf(r) : ~Open(o)

\* A Run loses its date; resolving a running one closes it.
LoseDate(r) ==
  /\ "run" \in Environment /\ r \notin fenced
  /\ runStatus[r] # "awaiting" /\ Settled(r)
  /\ fenced' = fenced \cup {r}
  /\ runStatus' = IF runStatus[r] = "running"
                  THEN [runStatus EXCEPT ![r] = "closed"] ELSE runStatus
  /\ UNCHANGED <<stopReceipt, ops, ledger, spend, provisioned, calls, invocations,
                 charge, seen>>
-----------------------------------------------------------------------------
Init ==
  /\ runStatus = [r \in Runs |-> "running"]
  /\ fenced = {} /\ stopReceipt = {}
  /\ ops = [o \in Ops |-> NoOp]
  /\ ledger = [o \in Ops |-> NoLedger]
  /\ spend = [r \in Runs |-> RunTotal(r)]
  /\ provisioned \in SUBSET Periods
  /\ calls = [c \in Calls |-> NewCall]
  /\ invocations = [o \in Ops |-> 0]
  /\ charge = [o \in Ops |-> 0]
  /\ seen = [o \in Ops |-> NoOp]

Call(c) ==
  \/ ReadRun(c) \/ ReadAccounting(c) \/ Refuse(c) \/ StopRun(c)
  \/ Reserve(c) \/ ClaimDispatch(c) \/ Invoke(c)
  \/ Responds(c) \/ RefusesUnpaid(c) \/ Fails(c)
  \/ Release(c) \/ MarkUncertain(c)
  \/ SettleRead(c) \/ Settle(c) \/ SettleFails(c) \/ RetainFailed(c)

Operator(o) == Look(o) \/ Reconcile(o)

Next ==
  \/ \E c \in Calls : Begin(c) \/ Call(c) \/ LateResponse(c) \/ Abandon(c)
  \/ \E o \in Ops : Operator(o)
  \/ \E p \in Periods : Provision(p)
  \/ \E r \in Runs : RunMovesOn(r) \/ LoseDate(r)

Spec == Init /\ [][Next]_vars

\* Calls come back (deadlines bound every await), and an operator looks at what
\* is open and reconciles it.
OperatorAttends(o) == Open(o) /\ Operator(o)
LiveSpec ==
  /\ Spec
  /\ \A c \in Calls : WF_vars(Call(c))
  /\ \A o \in Ops : WF_vars(OperatorAttends(o))
-----------------------------------------------------------------------------
(* Properties.                                                              *)

OpRows ==
  [state : {"absent"} \cup Held \cup Ended, version : Nat, owner : Calls \cup {None},
   payload : Payloads \cup {None}, bound : Nat, liability : Nat, issue : BOOLEAN,
   result : Calls \cup {None}, created : Times \cup {None}, periods : SUBSET Periods]
Pcs == {"start", "run", "account", "reserve", "refuse", "stop", "claim", "invoke",
        "waiting", "settle", "commit", "retain", "mark", "freeLocal", "freeRefused",
        "done"}
Answers == {None, "result", "conflict", "unavailable", "uncertain", "pending",
            "stopped", "error"}
CallRows ==
  [pc : Pcs, op : Ops \cup {None}, payload : Payloads \cup {None},
   steers : BOOLEAN, run : {None, "running", "awaiting", "stopped", "closed"},
   bound : Nat, version : Nat, cost : Nat, basis : CostBases, late : BOOLEAN,
   answer : Answers, result : Calls \cup {None}]

\* Rows, calls and money keep their shape; no amount becomes negative (the cached
\* spend is the business of SpendIsTotal).
TypeOK ==
  /\ runStatus \in [Runs -> {"running", "awaiting", "stopped", "closed"}]
  /\ fenced \subseteq Runs /\ stopReceipt \subseteq Runs
  /\ ops \in [Ops -> OpRows]
  /\ ledger \in [Ops -> [basis : CostBases, cost : Nat]]
  /\ spend = [r \in Runs |-> spend[r]]
  /\ provisioned \subseteq Periods
  /\ calls \in [Calls -> CallRows]
  /\ invocations \in [Ops -> Nat] /\ charge \in [Ops -> Nat]
  /\ seen \in [Ops -> OpRows]

\* However many calls share a logical key, at most one invokes the provider.
OneInvocation == \A o \in Ops : invocations[o] <= 1

\* What the provider charged, up to the reviewed bound, is always in the Run's
\* total, through crashes, timeouts and late answers, until an operator attests
\* another amount or the token estimate of a provider that reports no cost is
\* settled in its place.
ChargeIsCounted ==
  \A o \in Ops : ops[o].state # "reconciled" /\ ledger[o].basis # "estimate" =>
    Accounted(o) >= Smaller(charge[o], ops[o].bound)

\* A settled operation without an issue never books more than the reviewed
\* bound, and books what the provider reported as charged or, where it reports
\* nothing, its token estimate; with an issue it books the bound at least, and
\* blocks until it is reconciled.
SettledRow(o) ==
  IF ops[o].issue
  THEN ledger[o].basis = "bound" /\ ledger[o].cost >= ops[o].bound
  ELSE /\ ledger[o].basis \in {"reported", "estimate"}
       /\ ledger[o].cost <= ops[o].bound
       /\ ledger[o].basis = "reported" => ledger[o].cost = charge[o]
SettledIsTrue == \A o \in Ops : ops[o].state = "settled" => SettledRow(o)

\* Ceilings hold whatever races: apart from what an operator attests and from
\* charges over their bound, a Run never holds more than its budget.
WithinBound(o) == IF ops[o].state \in {"absent", "reconciled"} THEN 0
                  ELSE Smaller(Accounted(o), ops[o].bound)
RunWithinBudget ==
  \A r \in Runs :
    Opening[r] + Sum([o \in OpsOf(r) |-> WithinBound(o)])
      <= Larger(Opening[r], Budget[r])

\* The same for a period and the operations admitted under it.
PeriodWithinCap ==
  \A p \in provisioned :
    Sum([o \in {q \in Ops : p \in ops[q].periods} |-> WithinBound(o)])
      <= Cap[p]

\* runs.spend_cents is the view's total after every batch.
SpendIsTotal == \A r \in Runs : spend[r] = RunTotal(r)

\* A call that answers with a completion answers the one that is durable, for
\* the payload that was paid for.
AnswersAgree ==
  \A c \in Calls : calls[c].answer = "result" =>
    /\ calls[c].result = ops[calls[c].op].result
    /\ calls[c].payload = ops[calls[c].op].payload
    /\ calls[c].result # None

\* The inductive form of the four: who may still act for an operation, what its
\* row holds in every state, and what a call knows of the charge.
Owning == {"claim", "invoke", "waiting", "settle", "commit", "retain", "mark",
           "freeLocal", "freeRefused"}
Phases ==
  \A c \in Calls : /\ calls[c].late => calls[c].pc \in {"mark", "done"}
                   /\ calls[c].answer = "result" => calls[c].pc = "done"
OwnersAgree ==
  \A c \in Calls : calls[c].pc \in Owning \/ calls[c].late =>
    LET row == ops[calls[c].op] IN
    /\ row.state # "absent" /\ row.owner = c
    /\ row.payload = calls[c].payload /\ row.bound = calls[c].bound
    /\ row.state = "reserved" => calls[c].pc = "claim"
Fresh(o) == invocations[o] = 0 /\ charge[o] = 0
NothingPaidYet == \A c \in Calls : calls[c].pc \in {"claim", "invoke"} =>
                                     Fresh(calls[c].op)
ReportsAgree ==
  \A c \in Calls :
    LET o == calls[c].op IN
    /\ calls[c].pc \in {"freeLocal", "freeRefused"} => charge[o] = 0
    /\ calls[c].pc \in {"settle", "commit", "retain"} =>
         \/ calls[c].basis = "bound" /\ calls[c].cost >= calls[c].bound
         \/ /\ calls[c].basis \in {"reported", "estimate"}
            /\ calls[c].cost <= calls[c].bound
            /\ calls[c].basis = "reported" => calls[c].cost = charge[o]
OwnerDone(o) == ops[o].owner \in Calls /\ calls[ops[o].owner].pc = "done"
RowMoney(o) ==
  LET row == ops[o] IN
  /\ row.state \in {"absent", "reserved"} => Fresh(o)
  /\ row.state \in Held \cup {"absent"} => ledger[o].cost = 0 /\ row.result = None
  /\ row.state \in {"reserved", "dispatched"} => row.liability = row.bound
  /\ row.state = "uncertain" => row.liability >= row.bound
  /\ row.state = "released" => charge[o] = 0 /\ OwnerDone(o)
  /\ row.state = "settled" =>
       OwnerDone(o) /\ SettledRow(o)
PaidCallInv == /\ OneInvocation /\ Phases /\ OwnersAgree /\ NothingPaidYet /\ ReportsAgree
               /\ \A o \in Ops : RowMoney(o)
               /\ AnswersAgree

\* A Run that lost its date has no money in flight and gets none.
FencedIsSettled == \A r \in fenced : \A o \in OpsOf(r) : ~Open(o)

\* A late answer or a late settlement never touches a reconciled operation.
ReconciledIsFinal ==
  [][\A o \in Ops : ops[o].state = "reconciled" =>
       UNCHANGED <<ops[o], ledger[o]>>]_vars

\* An operator only ever decides on the row he looked at.
DecidesOnWhatIsSeen ==
  [][\A o \in Ops :
       ops[o].state # "reconciled" /\ ops'[o].state = "reconciled" =>
         seen[o] = ops[o]]_vars

\* The run.stopped receipt of a budget stop is only written for a Run it stopped.
StopReceiptIsReal == \A r \in stopReceipt : runStatus[r] = "stopped"

\* Nothing stays open for ever: a lost answer, a dead call or a flagged charge
\* ends by the operator's reconciliation.
OperationsEnd == \A o \in Ops : Open(o) ~> ~Open(o)
-----------------------------------------------------------------------------
(* What run admission knows of all this: PaidWork.                          *)
Paid == INSTANCE PaidWork WITH
  status <- runStatus, sealed <- fenced,
  open <- [r \in Runs |-> \E o \in OpsOf(r) : Open(o)]

\* Every batch, answer, crash and reconciliation is a step of PaidWork or leaves
\* it alone; in particular no ended operation ever opens again.
ImplementsPaidWork == Paid!PaidSpec
=============================================================================
