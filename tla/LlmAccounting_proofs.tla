------------------------ MODULE LlmAccounting_proofs ------------------------
(* What LlmAccounting keeps true for every number of Runs, keys, calls and  *)
(* periods and every budget, bound, charge and attested amount.             *)
EXTENDS LlmAccounting, FiniteSetTheorems, TLAPS

(* Type correctness.  A call past its first await names an operation.       *)
NamesItsOp ==
  \A c \in Calls :
    calls[c].pc # "start" \/ calls[c].late \/ calls[c].answer = "result" =>
    calls[c].op \in Ops /\ calls[c].payload \in Payloads /\ calls[c].bound \in Nat
TypeInv == TypeOK /\ NamesItsOp

DbTypeOK ==
  /\ runStatus \in [Runs -> {"running", "awaiting", "stopped", "closed"}]
  /\ fenced \subseteq Runs /\ stopReceipt \subseteq Runs
  /\ ops \in [Ops -> OpRows]
  /\ ledger \in [Ops -> [basis : CostBases, cost : Nat]]
  /\ spend = [r \in Runs |-> spend[r]]
  /\ provisioned \subseteq Periods
CallsTypeOK == calls \in [Calls -> CallRows] /\ NamesItsOp
WorldTypeOK == /\ invocations \in [Ops -> Nat] /\ charge \in [Ops -> Nat]
               /\ seen \in [Ops -> OpRows]

LEMMA TypeParts == TypeInv <=> DbTypeOK /\ CallsTypeOK /\ WorldTypeOK
BY DEF TypeInv, TypeOK, DbTypeOK, CallsTypeOK, WorldTypeOK
LEMMA TypePartsNext == TypeInv' <=> DbTypeOK' /\ CallsTypeOK' /\ WorldTypeOK'
BY DEF TypeInv, TypeOK, DbTypeOK, CallsTypeOK, WorldTypeOK

LEMMA InitType == Init => TypeInv
BY NoneAssumption, MoneyAssumption DEF Init, TypeInv, TypeOK, NamesItsOp, NoOp, NoLedger, NewCall,
  CostBases, OpRows, CallRows, Pcs, Answers

LEMMA RunOfType == ASSUME NEW o \in Ops PROVE RunOf(o) \in Runs
BY DEF Ops, RunOf

LEMMA PcNames ==
  /\ {"run", "account", "reserve", "refuse", "stop", "claim", "invoke", "waiting",
      "settle", "commit", "retain", "mark", "freeLocal", "freeRefused", "done"}
       \subseteq Pcs
  /\ {None, "result", "uncertain", "stopped", "error"} \subseteq Answers
BY DEF Pcs, Answers

Named(rec) == rec.op \in Ops /\ rec.payload \in Payloads /\ rec.bound \in Nat

\* One call changes, to a record that has its type and names its operation.
LEMMA CallType ==
  ASSUME CallsTypeOK, NEW c \in Calls, NEW rec \in CallRows, Named(rec),
         calls' = [calls EXCEPT ![c] = rec]
  PROVE  CallsTypeOK'
BY DEF CallsTypeOK, NamesItsOp, Named

LEMMA NamedCall ==
  ASSUME CallsTypeOK, NEW c \in Calls, calls[c].pc # "start" \/ calls[c].late
  PROVE  calls[c] \in CallRows /\ Named(calls[c])
BY DEF CallsTypeOK, NamesItsOp, Named

LEMMA GotoType ==
  ASSUME CallsTypeOK, NEW c \in Calls, NEW pc \in Pcs, Goto(c, pc),
         calls[c].pc # "start"
  PROVE  CallsTypeOK'
<1> DEFINE rec == [calls[c] EXCEPT !.pc = pc]
<1>1. calls[c] \in CallRows /\ Named(calls[c])
  BY NamedCall
<1>2. rec \in CallRows
  BY <1>1 DEF CallRows
<1>3. Named(rec)
  BY <1>1 DEF CallRows, Named
<1>4. QED
  BY <1>2, <1>3, CallType DEF Goto

LEMMA EndType ==
  ASSUME CallsTypeOK, NEW c \in Calls, NEW answer \in Answers, End(c, answer),
         calls[c].pc # "start"
  PROVE  CallsTypeOK'
<1> DEFINE rec == [calls[c] EXCEPT !.pc = "done", !.answer = answer]
<1>1. calls[c] \in CallRows /\ Named(calls[c])
  BY NamedCall
<1>2. rec \in CallRows
  BY <1>1, PcNames DEF CallRows
<1>3. Named(rec)
  BY <1>1 DEF CallRows, Named
<1>4. QED
  BY <1>2, <1>3, CallType, Zenon DEF End, CallsTypeOK

LEMMA WithoutResultType ==
  ASSUME NEW o PROVE WithoutResult(o) \in {"unavailable", "uncertain", "pending"}
BY DEF WithoutResult

LEMMA ReplayedType ==
  ASSUME NEW o, NEW payload PROVE Replayed(o, payload) \in Answers
BY WithoutResultType DEF Replayed, Answers

LEMMA ReplayType ==
  ASSUME CallsTypeOK, DbTypeOK, NEW c \in Calls, NEW o \in Ops,
         NEW payload \in Payloads, Replay(c, o, payload)
  PROVE  CallsTypeOK'
<1>1. Replayed(o, payload) \in Answers
  BY ReplayedType
<1>2. ops[o].result \in Calls \cup {None}
  BY DEF DbTypeOK, OpRows
<1> DEFINE res == IF Replayed(o, payload) = "result" THEN ops[o].result ELSE None
           rec == [calls[c] EXCEPT !.pc = "done", !.op = o, !.payload = payload,
                     !.answer = Replayed(o, payload), !.result = res]
<1>3. res \in Calls \cup {None}
  BY <1>2
<1>4. calls[c] \in CallRows /\ calls[c].bound \in Nat
  BY DEF CallsTypeOK, CallRows
<1> HIDE DEF res
<1>5. rec \in CallRows
  BY <1>1, <1>3, <1>4, PcNames DEF CallRows
<1>6. Named(rec)
  BY <1>4 DEF CallRows, Named
<1>7. calls' = [calls EXCEPT ![c] = rec]
  BY Zenon DEF Replay, CallsTypeOK, res
<1>8. QED
  BY <1>5, <1>6, <1>7, CallType

LEMMA BeginType ==
  ASSUME TypeInv, NEW c \in Calls, Begin(c) PROVE TypeInv'
<1>1. DbTypeOK' /\ WorldTypeOK'
  BY TypeParts DEF Begin, dbVars, DbTypeOK, WorldTypeOK
<1>2. CallsTypeOK'
  <2>1. PICK o \in Ops, payload \in Payloads, steers \in BOOLEAN, b \in Bounds :
          IF Exists(o) THEN Replay(c, o, payload)
          ELSE calls' = [calls EXCEPT ![c].pc = "run", ![c].op = o, ![c].bound = b,
                                      ![c].payload = payload, ![c].steers = steers]
    BY DEF Begin
  <2>2. CASE Exists(o)
    BY <2>1, <2>2, TypeParts, ReplayType
  <2>3. CASE ~Exists(o)
    <3> DEFINE rec == [calls[c] EXCEPT !.pc = "run", !.op = o, !.bound = b,
                         !.payload = payload, !.steers = steers]
    <3>1. CallsTypeOK
      BY TypeParts
    <3>2. b \in Nat
      BY MoneyAssumption
    <3>3. calls[c] \in CallRows
      BY <3>1 DEF CallsTypeOK
    <3>4. rec \in CallRows
      BY <3>2, <3>3, PcNames DEF CallRows
    <3>5. Named(rec)
      BY <3>2, <3>3 DEF CallRows, Named
    <3>6. calls' = [calls EXCEPT ![c] = rec]
      BY <2>1, <2>3, <3>1, Zenon DEF CallsTypeOK
    <3>7. QED
      BY <3>1, <3>4, <3>5, <3>6, CallType
  <2>4. QED
    BY <2>2, <2>3
<1>3. QED
  BY <1>1, <1>2, TypePartsNext

LEMMA ReadRunType == ASSUME TypeInv, NEW c \in Calls, ReadRun(c) PROVE TypeInv'
<1>1. calls[c].op \in Ops
  BY DEF TypeInv, NamesItsOp, ReadRun
<1>2. runStatus[RunOf(calls[c].op)] \in {"running", "awaiting", "stopped", "closed"}
  BY <1>1, RunOfType DEF TypeInv, TypeOK
<1> DEFINE rec == [calls[c] EXCEPT !.pc = "account",
                                   !.run = runStatus[RunOf(calls[c].op)]]
<1>3. CallsTypeOK'
  <2>1. CallsTypeOK /\ calls[c].pc # "start"
    BY TypeParts DEF ReadRun
  <2>2. rec \in CallRows /\ Named(rec)
    <3>1. calls[c] \in CallRows /\ Named(calls[c])
      BY <2>1, NamedCall
    <3>2. rec \in CallRows
      BY <1>2, <3>1, PcNames DEF CallRows
    <3>3. QED
      BY <3>1, <3>2 DEF CallRows, Named
  <2>3. QED
    BY <2>1, <2>2, CallType DEF ReadRun
<1>4. QED
  BY <1>3, TypeParts, TypePartsNext DEF ReadRun, dbVars, DbTypeOK, WorldTypeOK

LEMMA ReadAccountingType ==
  ASSUME TypeInv, NEW c \in Calls, ReadAccounting(c) PROVE TypeInv'
<1>1. calls[c].pc # "start" /\ CallsTypeOK
  BY TypeParts DEF ReadAccounting
<1>2. \/ \E answer \in {"uncertain", "stopped"} : End(c, answer)
      \/ \E pc \in {"refuse", "reserve"} : Goto(c, pc)
  BY DEF ReadAccounting
<1>3. CallsTypeOK'
  BY <1>1, <1>2, EndType, GotoType, PcNames
<1>4. QED
  BY <1>3, TypeParts, TypePartsNext DEF ReadAccounting, dbVars, DbTypeOK, WorldTypeOK

LEMMA RefuseType == ASSUME TypeInv, NEW c \in Calls, Refuse(c) PROVE TypeInv'
<1>1. calls[c].pc # "start" /\ CallsTypeOK /\ DbTypeOK
  BY TypeParts DEF Refuse
<1>2. calls[c].op \in Ops /\ calls[c].payload \in Payloads
  BY <1>1 DEF CallsTypeOK, NamesItsOp
<1>3. \/ Replay(c, calls[c].op, calls[c].payload)
      \/ Goto(c, "stop") \/ End(c, "stopped")
  BY DEF Refuse
<1>4. CallsTypeOK'
  BY <1>1, <1>2, <1>3, EndType, GotoType, ReplayType, PcNames
<1>5. QED
  BY <1>4, TypeParts, TypePartsNext DEF Refuse, dbVars, DbTypeOK, WorldTypeOK

LEMMA StopRunType == ASSUME TypeInv, NEW c \in Calls, StopRun(c) PROVE TypeInv'
<1>1. calls[c].pc # "start" /\ CallsTypeOK /\ End(c, "stopped")
  BY TypeParts DEF StopRun
<1>2. CallsTypeOK'
  BY <1>1, EndType, PcNames
<1>3. RunOf(calls[c].op) \in Runs
  BY <1>1, RunOfType DEF CallsTypeOK, NamesItsOp
<1>4. DbTypeOK' /\ WorldTypeOK'
  BY <1>3, TypeParts DEF StopRun, DbTypeOK, WorldTypeOK
<1>5. QED
  BY <1>2, <1>4, TypePartsNext

\* The batches: one row, to a row that has its type; the total is recomputed.
LEMMA SyncType ==
  ASSUME DbTypeOK, NEW r, Sync(r) PROVE spend' = [q \in Runs |-> spend'[q]]
BY DEF DbTypeOK, Sync

LEMMA RowType ==
  ASSUME DbTypeOK, NEW o \in Ops, NEW row \in OpRows,
         ops' = [ops EXCEPT ![o] = row],
         ledger' \in [Ops -> [basis : CostBases, cost : Nat]],
         spend' = [q \in Runs |-> spend'[q]],
         UNCHANGED <<runStatus, fenced, stopReceipt, provisioned>>
  PROVE  DbTypeOK'
BY DEF DbTypeOK

LEMMA StateNames ==
  {"reserved", "dispatched", "uncertain", "settled", "reconciled", "released"}
    \subseteq {"absent"} \cup Held \cup Ended
BY DEF Held, Ended

LEMMA RowFields ==
  ASSUME NEW row \in OpRows, NEW n \in Nat, NEW l \in Nat, NEW i \in BOOLEAN,
         NEW res \in Calls \cup {None}, NEW s \in {"absent"} \cup Held \cup Ended
  PROVE  /\ [row EXCEPT !.state = s, !.version = n] \in OpRows
         /\ [row EXCEPT !.state = s, !.version = n, !.issue = i] \in OpRows
         /\ [row EXCEPT !.state = s, !.version = n, !.liability = l,
                        !.issue = i] \in OpRows
         /\ [row EXCEPT !.state = s, !.version = n, !.issue = i,
                        !.liability = l] \in OpRows
         /\ [row EXCEPT !.state = s, !.version = n, !.liability = l,
                        !.issue = i, !.result = res] \in OpRows
<1>1. [row EXCEPT !.state = s, !.version = n] \in OpRows
  BY DEF OpRows
<1>2. [row EXCEPT !.state = s, !.version = n, !.issue = i] \in OpRows
  BY DEF OpRows
<1>3. [row EXCEPT !.state = s, !.version = n, !.liability = l,
                  !.issue = i] \in OpRows
  BY DEF OpRows
<1>4. [row EXCEPT !.state = s, !.version = n, !.issue = i,
                  !.liability = l] \in OpRows
  BY DEF OpRows
<1>5. [row EXCEPT !.state = s, !.version = n, !.liability = l,
                  !.issue = i, !.result = res] \in OpRows
  BY DEF OpRows
<1>6. QED
  BY <1>1, <1>2, <1>3, <1>4, <1>5

LEMMA NextVersion == ASSUME NEW row \in OpRows PROVE row.version + 1 \in Nat
BY DEF OpRows

LEMMA LargerType ==
  ASSUME NEW a \in Nat, NEW b \in Nat
  PROVE  Larger(a, b) \in Nat /\ Larger(a, b) >= a /\ Larger(a, b) >= b
BY DEF Larger

LEMMA ReserveType == ASSUME TypeInv, NEW c \in Calls, Reserve(c) PROVE TypeInv'
<1> DEFINE o == calls[c].op
<1>1. calls[c].pc # "start" /\ CallsTypeOK /\ DbTypeOK
  BY TypeParts DEF Reserve
<1>2. o \in Ops /\ calls[c].payload \in Payloads /\ calls[c].bound \in Nat
  BY <1>1 DEF CallsTypeOK, NamesItsOp
<1>3. PICK t \in Times :
        \/ /\ ops' = [ops EXCEPT ![o] = Reserved(c, t)]
           /\ ledger' = ledger /\ Sync(RunOf(o)) /\ Goto(c, "claim")
        \/ Goto(c, "refuse") /\ UNCHANGED <<ops, ledger, spend>>
  BY DEF Reserve
<1>4. CallsTypeOK'
  BY <1>1, <1>3, GotoType, PcNames
<1>5. Reserved(c, t) \in OpRows
  <2>1. At(t) \in SUBSET Periods
    BY <1>1 DEF At, DbTypeOK
  <2>2. NoOp \in OpRows
    BY DEF NoOp, OpRows
  <2>3. QED
    BY <1>2, <2>1, <2>2, StateNames DEF Reserved, OpRows
<1>6. DbTypeOK'
  <2>1. UNCHANGED <<runStatus, fenced, stopReceipt, provisioned>>
    BY DEF Reserve
  <2>2. CASE UNCHANGED <<ops, ledger, spend>>
    BY <1>1, <2>1, <2>2 DEF DbTypeOK
  <2>3. CASE /\ ops' = [ops EXCEPT ![o] = Reserved(c, t)]
             /\ ledger' = ledger /\ Sync(RunOf(o))
    <3>1. spend' = [q \in Runs |-> spend'[q]]
      BY <1>1, <2>3, SyncType
    <3>2. ledger' \in [Ops -> [basis : CostBases, cost : Nat]]
      BY <1>1, <2>3 DEF DbTypeOK
    <3>3. QED
      BY <1>1, <1>2, <1>5, <2>1, <2>3, <3>1, <3>2, RowType
  <2>4. QED
    BY <1>3, <2>2, <2>3
<1>7. WorldTypeOK'
  BY TypeParts DEF Reserve, WorldTypeOK
<1>8. QED
  BY <1>4, <1>6, <1>7, TypePartsNext

LEMMA ClaimDispatchType ==
  ASSUME TypeInv, NEW c \in Calls, ClaimDispatch(c) PROVE TypeInv'
<1> DEFINE o == calls[c].op
           row == [ops[o] EXCEPT !.state = "dispatched", !.version = @ + 1]
<1>1. calls[c].pc # "start" /\ CallsTypeOK /\ DbTypeOK
  BY TypeParts DEF ClaimDispatch
<1>2. o \in Ops
  BY <1>1 DEF CallsTypeOK, NamesItsOp
<1>3. CallsTypeOK'
  BY <1>1, GotoType, EndType, PcNames DEF ClaimDispatch
<1>4. row \in OpRows
  <2>1. ops[o] \in OpRows
    BY <1>1, <1>2 DEF DbTypeOK
  <2>2. QED
    BY <2>1, StateNames, RowFields, NextVersion
<1>5. ops' = ops \/ ops' = [ops EXCEPT ![o] = row]
  <2>1. \/ ops' = ops
        \/ ops' = [ops EXCEPT ![o].state = "dispatched", ![o].version = @ + 1]
    BY Zenon DEF ClaimDispatch
  <2>2. ops \in [Ops -> OpRows]
    BY <1>1 DEF DbTypeOK
  <2> HIDE DEF o
  <2>3. QED
    BY <1>2, <2>1, <2>2 DEF OpRows
<1>6. DbTypeOK'
  BY <1>1, <1>2, <1>4, <1>5, RowType DEF ClaimDispatch, DbTypeOK
<1>7. WorldTypeOK'
  BY TypeParts DEF ClaimDispatch, WorldTypeOK
<1>8. QED
  BY <1>3, <1>6, <1>7, TypePartsNext

LEMMA InvokeType == ASSUME TypeInv, NEW c \in Calls, Invoke(c) PROVE TypeInv'
<1>1. calls[c].pc # "start" /\ CallsTypeOK /\ DbTypeOK /\ WorldTypeOK
  BY TypeParts DEF Invoke
<1>2. calls[c].op \in Ops
  BY <1>1 DEF CallsTypeOK, NamesItsOp
<1>3. CallsTypeOK'
  BY <1>1, GotoType, PcNames DEF Invoke
<1>4. WorldTypeOK'
  BY <1>1, <1>2, MoneyAssumption DEF Invoke, WorldTypeOK
<1>5. QED
  BY <1>1, <1>3, <1>4, TypePartsNext DEF Invoke, dbVars, DbTypeOK

LEMMA RespondsType == ASSUME TypeInv, NEW c \in Calls, Responds(c) PROVE TypeInv'
<1> DEFINE o == calls[c].op
           rec(f, x) == [calls[c] EXCEPT !.pc = "settle", !.basis = f, !.cost = x]
<1>1. calls[c].pc # "start" /\ CallsTypeOK /\ DbTypeOK /\ WorldTypeOK
  BY TypeParts DEF Responds
<1>2. o \in Ops /\ calls[c].bound \in Nat /\ charge[o] \in Nat
  BY <1>1 DEF CallsTypeOK, NamesItsOp, WorldTypeOK
<1>3. \A x \in Observed(o) : Larger(calls[c].bound, x) \in Nat
  BY <1>2, LargerType, MoneyAssumption DEF Observed
<1>4. PICK f \in CostBases, x \in Nat : calls' = [calls EXCEPT ![c] = rec(f, x)]
  <2>1. ASSUME NEW f \in CostBases, NEW x \in Nat, Books(c, f, x)
        PROVE  calls' = [calls EXCEPT ![c] = rec(f, x)]
    BY <1>1, <2>1, Zenon DEF CallsTypeOK, Books
  <2>2. \E f \in CostBases, x \in Nat : Books(c, f, x)
    BY <1>2, <1>3, MoneyAssumption DEF Responds, CostBases
  <2>3. QED
    BY <2>1, <2>2
<1>5. calls[c] \in CallRows /\ Named(calls[c])
  BY <1>1, NamedCall
<1>6. rec(f, x) \in CallRows
  BY <1>5, PcNames DEF CallRows
<1>7. Named(rec(f, x))
  BY <1>5 DEF CallRows, Named
<1>8. CallsTypeOK'
  BY <1>1, <1>4, <1>6, <1>7, CallType
<1>9. QED
  BY <1>1, <1>8, TypePartsNext DEF Responds, dbVars, DbTypeOK, WorldTypeOK

LEMMA RefusesUnpaidType ==
  ASSUME TypeInv, NEW c \in Calls, RefusesUnpaid(c) PROVE TypeInv'
<1>1. calls[c].pc # "start" /\ CallsTypeOK
  BY TypeParts DEF RefusesUnpaid
<1>2. CallsTypeOK'
  BY <1>1, GotoType, PcNames DEF RefusesUnpaid
<1>3. QED
  BY <1>2, TypeParts, TypePartsNext DEF RefusesUnpaid, dbVars, DbTypeOK, WorldTypeOK

LEMMA FailsType == ASSUME TypeInv, NEW c \in Calls, Fails(c) PROVE TypeInv'
<1>1. calls[c].pc # "start" /\ CallsTypeOK
  BY TypeParts DEF Fails
<1>2. PICK late \in BOOLEAN :
        calls' = [calls EXCEPT ![c].pc = "mark", ![c].late = late]
  BY DEF Fails
<1> DEFINE rec == [calls[c] EXCEPT !.pc = "mark", !.late = late]
<1>3. calls[c] \in CallRows /\ Named(calls[c])
  BY <1>1, NamedCall
<1>4. rec \in CallRows
  BY <1>3, PcNames DEF CallRows
<1>5. rec \in CallRows /\ Named(rec)
  BY <1>3, <1>4 DEF CallRows, Named
<1>6. CallsTypeOK'
  BY <1>1, <1>2, <1>5, CallType
<1>7. QED
  BY <1>6, TypeParts, TypePartsNext DEF Fails, dbVars, DbTypeOK, WorldTypeOK

LEMMA ReleaseType == ASSUME TypeInv, NEW c \in Calls, Release(c) PROVE TypeInv'
<1> DEFINE o == calls[c].op
           row == [ops[o] EXCEPT !.state = "released", !.version = @ + 1,
                                 !.liability = 0, !.issue = FALSE]
<1>1. calls[c].pc # "start" /\ CallsTypeOK /\ DbTypeOK
  BY TypeParts DEF Release
<1>2. o \in Ops /\ ops[o] \in OpRows
  BY <1>1 DEF CallsTypeOK, NamesItsOp, DbTypeOK
<1>3. CallsTypeOK'
  BY <1>1, GotoType, EndType, PcNames DEF Release
<1>4. row \in OpRows
  BY <1>2, StateNames, RowFields, NextVersion
<1>5. DbTypeOK'
  <2>1. UNCHANGED <<runStatus, fenced, stopReceipt, provisioned>>
    BY DEF Release
  <2>2. CASE UNCHANGED <<ops, ledger, spend>>
    BY <1>1, <2>1, <2>2 DEF DbTypeOK
  <2>3. CASE /\ ops' = [ops EXCEPT ![o].state = "released", ![o].version = @ + 1,
                                   ![o].liability = 0, ![o].issue = FALSE]
             /\ ledger' = ledger /\ Sync(RunOf(o))
    <3>1. spend' = [q \in Runs |-> spend'[q]]
      BY <1>1, <2>3, SyncType
    <3>2. ops' = [ops EXCEPT ![o] = row]
      BY <1>1, <1>2, <2>3, Zenon DEF DbTypeOK
    <3>3. ledger' \in [Ops -> [basis : CostBases, cost : Nat]]
      BY <1>1, <2>3 DEF DbTypeOK
    <3>4. QED
      BY <1>1, <1>2, <1>4, <2>1, <3>1, <3>2, <3>3, RowType
  <2>4. QED
    BY <2>2, <2>3 DEF Release
<1>6. QED
  BY <1>3, <1>5, TypeParts, TypePartsNext DEF Release, WorldTypeOK

LEMMA MarkUncertainType ==
  ASSUME TypeInv, NEW c \in Calls, MarkUncertain(c) PROVE TypeInv'
<1> DEFINE o == calls[c].op
           row == [ops[o] EXCEPT !.state = "uncertain", !.version = @ + 1,
                                 !.issue = TRUE]
<1>1. calls[c].pc # "start" /\ CallsTypeOK /\ DbTypeOK
  BY TypeParts DEF MarkUncertain
<1>2. o \in Ops /\ ops[o] \in OpRows
  BY <1>1 DEF CallsTypeOK, NamesItsOp, DbTypeOK
<1>3. CallsTypeOK'
  BY <1>1, EndType, PcNames DEF MarkUncertain
<1>4. row \in OpRows
  BY <1>2, StateNames, RowFields, NextVersion
<1>5. DbTypeOK'
  <2>1. UNCHANGED <<runStatus, fenced, stopReceipt, ledger, spend, provisioned>>
    BY DEF MarkUncertain
  <2>2. ops' = ops \/ ops' = [ops EXCEPT ![o] = row]
    BY <1>1, <1>2, Zenon DEF MarkUncertain, DbTypeOK
  <2>3. QED
    BY <1>1, <1>2, <1>4, <2>1, <2>2, RowType DEF DbTypeOK
<1>6. QED
  BY <1>3, <1>5, TypeParts, TypePartsNext DEF MarkUncertain, WorldTypeOK

LEMMA RetainType ==
  ASSUME DbTypeOK, NEW c \in Calls, NEW o \in Ops, NEW amount \in Nat,
         Retain(c, o, amount), UNCHANGED <<runStatus, fenced, stopReceipt, provisioned>>
  PROVE  DbTypeOK'
<1> DEFINE l == Larger(Larger(ops[o].liability, ops[o].bound), amount)
           row == [ops[o] EXCEPT !.state = "uncertain", !.version = @ + 1,
                                 !.issue = TRUE, !.liability = l]
<1>1. ops[o] \in OpRows
  BY DEF DbTypeOK
<1>2. l \in Nat
  <2>1. ops[o].liability \in Nat /\ ops[o].bound \in Nat
    BY <1>1 DEF OpRows
  <2>2. QED
    BY <2>1, LargerType
<1>3. row \in OpRows
  BY <1>1, <1>2, StateNames, RowFields, NextVersion
<1>4. spend' = [q \in Runs |-> spend'[q]]
  BY SyncType DEF Retain
<1>5. ledger' \in [Ops -> [basis : CostBases, cost : Nat]]
  BY DEF Retain, DbTypeOK
<1>6. ops' = ops \/ ops' = [ops EXCEPT ![o] = row]
  BY Zenon DEF Retain, DbTypeOK
<1>7. CASE ops' = ops
  BY <1>4, <1>5, <1>7 DEF DbTypeOK
<1>8. CASE ops' = [ops EXCEPT ![o] = row]
  BY <1>3, <1>4, <1>5, <1>8, RowType
<1>9. QED
  BY <1>6, <1>7, <1>8

LEMMA LateResponseType ==
  ASSUME TypeInv, NEW c \in Calls, LateResponse(c) PROVE TypeInv'
<1> DEFINE o == calls[c].op
           rec == [calls[c] EXCEPT !.late = FALSE]
<1>1. CallsTypeOK /\ DbTypeOK /\ WorldTypeOK
  BY TypeParts
<1>2. o \in Ops /\ calls[c].bound \in Nat /\ charge[o] \in Nat
  BY <1>1 DEF CallsTypeOK, NamesItsOp, WorldTypeOK, LateResponse
<1>3. calls[c] \in CallRows /\ Named(calls[c])
  BY <1>1, NamedCall DEF LateResponse
<1>4. rec \in CallRows
  BY <1>3 DEF CallRows
<1>5. rec \in CallRows /\ Named(rec)
  BY <1>3, <1>4 DEF CallRows, Named
<1>6. CallsTypeOK'
  BY <1>1, <1>5, CallType DEF LateResponse
<1>7. PICK x \in Observed(o) : Retain(c, o, Larger(calls[c].bound, x))
  BY DEF LateResponse
<1>8. Larger(calls[c].bound, x) \in Nat
  BY <1>2, LargerType, MoneyAssumption DEF Observed
<1>9. DbTypeOK'
  BY <1>1, <1>2, <1>7, <1>8, RetainType DEF LateResponse
<1>10. QED
  BY <1>1, <1>6, <1>9, TypePartsNext DEF LateResponse, WorldTypeOK

LEMMA RetainFailedType ==
  ASSUME TypeInv, NEW c \in Calls, RetainFailed(c) PROVE TypeInv'
<1> DEFINE o == calls[c].op
<1>1. calls[c].pc # "start" /\ CallsTypeOK /\ DbTypeOK /\ WorldTypeOK
  BY TypeParts DEF RetainFailed
<1>2. o \in Ops /\ ops[o] \in OpRows /\ calls[c] \in CallRows
  BY <1>1 DEF CallsTypeOK, NamesItsOp, DbTypeOK
<1>3. CallsTypeOK'
  BY <1>1, EndType, PcNames DEF RetainFailed
<1>4. Larger(ops[o].bound, calls[c].cost) \in Nat
  <2>1. ops[o].bound \in Nat /\ calls[c].cost \in Nat
    BY <1>2 DEF OpRows, CallRows
  <2>2. QED
    BY <2>1, LargerType
<1>5. DbTypeOK'
  BY <1>1, <1>2, <1>4, RetainType DEF RetainFailed
<1>6. QED
  BY <1>1, <1>3, <1>5, TypePartsNext DEF RetainFailed, WorldTypeOK

LEMMA SettleReadType == ASSUME TypeInv, NEW c \in Calls, SettleRead(c) PROVE TypeInv'
<1> DEFINE o == calls[c].op
           rec == [calls[c] EXCEPT !.pc = "commit", !.version = ops[o].version]
<1>1. calls[c].pc # "start" /\ CallsTypeOK /\ DbTypeOK
  BY TypeParts DEF SettleRead
<1>2. o \in Ops /\ ops[o] \in OpRows
  BY <1>1 DEF CallsTypeOK, NamesItsOp, DbTypeOK
<1>3. ops[o].version \in Nat
  BY <1>2 DEF OpRows
<1>4. calls[c] \in CallRows /\ Named(calls[c])
  BY <1>1, NamedCall
<1>5. rec \in CallRows
  BY <1>3, <1>4, PcNames DEF CallRows
<1>6. rec \in CallRows /\ Named(rec)
  BY <1>4, <1>5 DEF CallRows, Named
<1>7. End(c, "error") \/ calls' = [calls EXCEPT ![c] = rec]
  BY <1>1, Zenon DEF SettleRead, CallsTypeOK
<1>8. CallsTypeOK'
  BY <1>1, <1>6, <1>7, EndType, CallType, PcNames
<1>9. QED
  BY <1>8, TypeParts, TypePartsNext DEF SettleRead, dbVars, DbTypeOK, WorldTypeOK

LEMMA SettleType == ASSUME TypeInv, NEW c \in Calls, Settle(c) PROVE TypeInv'
<1> DEFINE o == calls[c].op
           flagged == calls[c].basis = "bound"
           res == IF flagged THEN None ELSE c
           answer == IF flagged THEN "uncertain" ELSE "result"
           rec == [calls[c] EXCEPT !.pc = "done", !.answer = answer, !.result = res]
           row == [ops[o] EXCEPT !.state = "settled", !.version = @ + 1,
                     !.liability = 0, !.issue = flagged, !.result = res]
<1>1. calls[c].pc # "start" /\ CallsTypeOK /\ DbTypeOK
  BY TypeParts DEF Settle
<1>2. o \in Ops /\ ops[o] \in OpRows /\ calls[c] \in CallRows
  BY <1>1 DEF CallsTypeOK, NamesItsOp, DbTypeOK
<1>3. flagged \in BOOLEAN /\ calls[c].cost \in Nat /\ calls[c].basis \in CostBases
  BY <1>2 DEF CallRows
<1>4. res \in Calls \cup {None} /\ answer \in Answers
  BY PcNames
<1>5. CallsTypeOK'
  <2>1. rec \in CallRows
    BY <1>2, <1>4, PcNames DEF CallRows
  <2>2. Named(rec)
    BY <1>1, <1>2, <2>1 DEF CallsTypeOK, CallRows, NamesItsOp, Named
  <2>3. calls' = [calls EXCEPT ![c] = rec]
    BY <1>1, Zenon DEF Settle, CallsTypeOK
  <2>4. QED
    BY <1>1, <2>1, <2>2, <2>3, CallType
<1>6. DbTypeOK'
  <2>1. row \in OpRows
    <3>1. ops[o].version + 1 \in Nat
      BY <1>2, NextVersion
    <3>2. "settled" \in {"absent"} \cup Held \cup Ended
      BY DEF Ended
    <3> HIDE DEF o, flagged, res
    <3>3. QED
      BY <1>2, <1>3, <1>4, <3>1, <3>2 DEF OpRows
  <2>2. ops' = [ops EXCEPT ![o] = row]
    BY <1>1, Zenon DEF Settle, DbTypeOK
  <2>3. spend' = [q \in Runs |-> spend'[q]]
    BY <1>1, SyncType DEF Settle
  <2>4. ledger' \in [Ops -> [basis : CostBases, cost : Nat]]
    BY <1>1, <1>2, <1>3 DEF Settle, DbTypeOK
  <2>5. QED
    BY <1>1, <1>2, <2>1, <2>2, <2>3, <2>4, RowType DEF Settle
<1>7. QED
  BY <1>5, <1>6, TypeParts, TypePartsNext DEF Settle, WorldTypeOK

LEMMA SettleFailsType ==
  ASSUME TypeInv, NEW c \in Calls, SettleFails(c) PROVE TypeInv'
<1>1. calls[c].pc # "start" /\ CallsTypeOK
  BY TypeParts DEF SettleFails
<1>2. CallsTypeOK'
  BY <1>1, GotoType, PcNames DEF SettleFails
<1>3. QED
  BY <1>2, TypeParts, TypePartsNext DEF SettleFails, dbVars, DbTypeOK, WorldTypeOK

LEMMA AbandonType == ASSUME TypeInv, NEW c \in Calls, Abandon(c) PROVE TypeInv'
<1>1. calls[c].pc # "start" /\ CallsTypeOK
  BY TypeParts DEF Abandon
<1>2. CallsTypeOK'
  BY <1>1, EndType, PcNames DEF Abandon
<1>3. QED
  BY <1>2, TypeParts, TypePartsNext DEF Abandon, dbVars, DbTypeOK, WorldTypeOK

LEMMA LookType == ASSUME TypeInv, NEW o \in Ops, Look(o) PROVE TypeInv'
<1>1. WorldTypeOK'
  BY TypeParts DEF Look, WorldTypeOK, DbTypeOK
<1>2. QED
  BY <1>1, TypeParts, TypePartsNext DEF Look, dbVars, DbTypeOK, CallsTypeOK, NamesItsOp

LEMMA ReconcileType == ASSUME TypeInv, NEW o \in Ops, Reconcile(o) PROVE TypeInv'
<1> DEFINE row == [ops[o] EXCEPT !.state = "reconciled", !.version = @ + 1,
                                 !.liability = 0, !.issue = FALSE]
<1>1. DbTypeOK /\ ops[o] \in OpRows
  BY TypeParts DEF DbTypeOK
<1>2. row \in OpRows
  BY <1>1, StateNames, RowFields, NextVersion
<1>3. ops' = [ops EXCEPT ![o] = row]
  BY <1>1, Zenon DEF Reconcile, DbTypeOK
<1>4. spend' = [q \in Runs |-> spend'[q]]
  BY <1>1, SyncType DEF Reconcile
<1>5. ledger' \in [Ops -> [basis : CostBases, cost : Nat]]
  BY <1>1, MoneyAssumption DEF Reconcile, DbTypeOK, CostBases
<1>6. DbTypeOK'
  BY <1>1, <1>2, <1>3, <1>4, <1>5, RowType DEF Reconcile
<1>7. QED
  BY <1>6, TypeParts, TypePartsNext DEF Reconcile, WorldTypeOK, CallsTypeOK, NamesItsOp

LEMMA WorldStepsType ==
  ASSUME TypeInv,
         \/ \E p \in Periods : Provision(p)
         \/ \E r \in Runs : RunMovesOn(r) \/ LoseDate(r)
  PROVE  TypeInv'
<1>1. DbTypeOK'
  BY TypeParts DEF DbTypeOK, Provision, RunMovesOn, LoseDate
<1>2. CallsTypeOK' /\ WorldTypeOK'
  BY TypeParts DEF CallsTypeOK, NamesItsOp, WorldTypeOK, Provision, RunMovesOn, LoseDate
<1>3. QED
  BY <1>1, <1>2, TypePartsNext

LEMMA TypeStep == TypeInv /\ [Next]_vars => TypeInv'
<1> SUFFICES ASSUME TypeInv, [Next]_vars PROVE TypeInv'
  OBVIOUS
<1>1. ASSUME NEW c \in Calls, Begin(c) \/ Call(c) \/ LateResponse(c) \/ Abandon(c)
      PROVE  TypeInv'
  BY <1>1, BeginType, ReadRunType, ReadAccountingType, RefuseType, StopRunType,
     ReserveType, ClaimDispatchType, InvokeType, RespondsType, RefusesUnpaidType,
     FailsType, ReleaseType, MarkUncertainType, LateResponseType, SettleReadType,
     SettleType, SettleFailsType, RetainFailedType, AbandonType DEF Call
<1>2. ASSUME NEW o \in Ops, Operator(o) PROVE TypeInv'
  BY <1>2, LookType, ReconcileType DEF Operator
<1>3. CASE UNCHANGED vars
  BY <1>3 DEF vars, dbVars, TypeInv, TypeOK, NamesItsOp
<1>4. QED
  BY <1>1, <1>2, <1>3, WorldStepsType DEF Next

\* Rows, calls and money keep their shape, however many calls race and die.
THEOREM TypeCorrect == Spec => []TypeOK
<1>1. TypeInv => TypeOK
  BY DEF TypeInv
<1>2. QED
  BY <1>1, InitType, TypeStep, PTL DEF Spec
-----------------------------------------------------------------------------
(* The inductive invariant of the paid call, split by call and by operation. *)
IInv == TypeInv /\ PaidCallInv

OwnerOK(c) ==
  calls[c].pc \in Owning \/ calls[c].late =>
    LET row == ops[calls[c].op] IN
    /\ row.state # "absent" /\ row.owner = c
    /\ row.payload = calls[c].payload /\ row.bound = calls[c].bound
    /\ row.state = "reserved" => calls[c].pc = "claim"
PhaseOK(c) == /\ calls[c].late => calls[c].pc \in {"mark", "done"}
              /\ calls[c].answer = "result" => calls[c].pc = "done"
FreshOK(c) == calls[c].pc \in {"claim", "invoke"} => Fresh(calls[c].op)
\* What a call is about to book: ReportsAgree for one of them.
CleanOrBoundAmount(basis, amount, bound, charged) ==
  \/ basis = "bound" /\ amount >= bound
  \/ /\ basis \in {"reported", "estimate"}
     /\ amount <= bound
     /\ basis = "reported" => amount = charged
CleanOrBound(c, charged) ==
  CleanOrBoundAmount(calls[c].basis, calls[c].cost, calls[c].bound, charged)
ReportOK(c) ==
  LET o == calls[c].op IN
  /\ calls[c].pc \in {"freeLocal", "freeRefused"} => charge[o] = 0
  /\ calls[c].pc \in {"settle", "commit", "retain"} =>
       CleanOrBound(c, charge[o])
AnswerOK(c) ==
  calls[c].answer = "result" =>
    /\ calls[c].result = ops[calls[c].op].result
    /\ calls[c].payload = ops[calls[c].op].payload
    /\ calls[c].result # None
GoodCall(c) == PhaseOK(c) /\ OwnerOK(c) /\ FreshOK(c) /\ ReportOK(c) /\ AnswerOK(c)
GoodOp(o)   == invocations[o] <= 1 /\ RowMoney(o)

LEMMA InvParts ==
  PaidCallInv <=> (\A c \in Calls : GoodCall(c)) /\ (\A o \in Ops : GoodOp(o))
<1>1. OneInvocation /\ (\A o \in Ops : RowMoney(o)) <=> \A o \in Ops : GoodOp(o)
  BY DEF OneInvocation, GoodOp
<1>2. Phases <=> \A c \in Calls : PhaseOK(c)
  BY DEF Phases, PhaseOK
<1>3. OwnersAgree <=> \A c \in Calls : OwnerOK(c)
  BY DEF OwnersAgree, OwnerOK
<1>4. NothingPaidYet <=> \A c \in Calls : FreshOK(c)
  BY DEF NothingPaidYet, FreshOK
<1>5. ReportsAgree <=> \A c \in Calls : ReportOK(c)
  BY DEF ReportsAgree, ReportOK, CleanOrBound, CleanOrBoundAmount
<1>6. AnswersAgree <=> \A c \in Calls : AnswerOK(c)
  BY DEF AnswersAgree, AnswerOK
<1>7. QED
  BY <1>1, <1>2, <1>3, <1>4, <1>5, <1>6 DEF PaidCallInv, GoodCall

LEMMA InvPartsNext ==
  PaidCallInv' <=> (\A c \in Calls : GoodCall(c)') /\ (\A o \in Ops : GoodOp(o)')
<1>1. OneInvocation' /\ (\A o \in Ops : RowMoney(o)') <=> \A o \in Ops : GoodOp(o)'
  BY DEF OneInvocation, GoodOp
<1>2. Phases' <=> \A c \in Calls : PhaseOK(c)'
  BY DEF Phases, PhaseOK
<1>3. OwnersAgree' <=> \A c \in Calls : OwnerOK(c)'
  BY DEF OwnersAgree, OwnerOK
<1>4. NothingPaidYet' <=> \A c \in Calls : FreshOK(c)'
  BY DEF NothingPaidYet, FreshOK
<1>5. ReportsAgree' <=> \A c \in Calls : ReportOK(c)'
  BY DEF ReportsAgree, ReportOK, CleanOrBound, CleanOrBoundAmount
<1>6. AnswersAgree' <=> \A c \in Calls : AnswerOK(c)'
  BY DEF AnswersAgree, AnswerOK
<1>7. QED
  BY <1>1, <1>2, <1>3, <1>4, <1>5, <1>6 DEF PaidCallInv, GoodCall

LEMMA OwningNames ==
  /\ {"claim", "invoke", "waiting", "settle", "commit", "retain", "mark",
      "freeLocal", "freeRefused"} \subseteq Owning
  /\ \A pc \in {"start", "run", "account", "reserve", "refuse", "stop", "done"} :
       pc \notin Owning
BY DEF Owning

LEMMA InitInv == Init => PaidCallInv
<1> SUFFICES ASSUME Init PROVE PaidCallInv
  OBVIOUS
<1>1. ASSUME NEW c \in Calls PROVE GoodCall(c)
  <2>1. calls[c].pc = "start" /\ ~calls[c].late /\ calls[c].answer # "result"
    BY NoneAssumption DEF Init, NewCall
  <2>2. QED
    BY <2>1, OwningNames DEF GoodCall, PhaseOK, OwnerOK, FreshOK, ReportOK, CleanOrBound, AnswerOK
<1>2. ASSUME NEW o \in Ops PROVE GoodOp(o)
  BY DEF Init, GoodOp, RowMoney, SettledRow, OwnerDone, NoOp, NoLedger, Fresh, Held
<1>3. QED
  BY <1>1, <1>2, InvParts

\* Only one call moves: its own part must hold, and it must not leave "done".
LEMMA CallMoves ==
  ASSUME IInv, NEW c \in Calls, \A d \in Calls \ {c} : calls'[d] = calls[d],
         UNCHANGED <<ops, ledger, invocations, charge>>,
         GoodCall(c)', calls[c].pc = "done" => calls'[c].pc = "done"
  PROVE  PaidCallInv'
<1>1. ASSUME NEW d \in Calls PROVE GoodCall(d)'
  <2>1. CASE d = c
    BY <2>1
  <2>2. CASE d # c
    <3>1. calls'[d] = calls[d] /\ GoodCall(d)
      BY <2>2, InvParts DEF IInv
    <3>2. QED
      BY <3>1 DEF GoodCall, PhaseOK, OwnerOK, FreshOK, ReportOK, CleanOrBound, AnswerOK, Fresh
  <2>3. QED
    BY <2>1, <2>2
<1>2. ASSUME NEW o \in Ops PROVE GoodOp(o)'
  <2>1. GoodOp(o)
    BY InvParts DEF IInv
  <2>2. OwnerDone(o) => OwnerDone(o)'
    BY DEF OwnerDone
  <2>3. QED
    BY <2>1, <2>2 DEF GoodOp, RowMoney, SettledRow, Fresh
<1>3. QED
  BY <1>1, <1>2, InvPartsNext

\* A call holds nothing yet, or no more, and leaves the rows alone.
LEMMA Holdless ==
  ASSUME IInv, NEW c \in Calls, NEW rec \in CallRows,
         calls' = [calls EXCEPT ![c] = rec],
         UNCHANGED <<ops, ledger, invocations, charge>>,
         rec.pc \in {"run", "account", "reserve", "refuse", "stop"}
           \/ (rec.pc = "done" /\ rec.answer # "result"),
         calls[c].pc # "done",
         rec.pc = "done" => rec.late = calls[c].late,
         rec.late => /\ rec.pc = "done" /\ rec.op = calls[c].op
                     /\ rec.payload = calls[c].payload /\ rec.bound = calls[c].bound,
         rec.answer = calls[c].answer \/ rec.pc = "done"
  PROVE  PaidCallInv'
<1>1. calls'[c] = rec /\ \A d \in Calls \ {c} : calls'[d] = calls[d]
  BY DEF IInv, TypeInv, TypeOK
<1>2. GoodCall(c)
  BY InvParts DEF IInv
<1>3. GoodCall(c)'
  <2>1. rec.pc \notin Owning
    BY OwningNames
  <2>2. PhaseOK(c)' /\ AnswerOK(c)'
    BY <1>1, <1>2 DEF PhaseOK, AnswerOK, GoodCall
  <2>3. OwnerOK(c)'
    BY <1>1, <1>2, <2>1 DEF OwnerOK, PhaseOK, GoodCall
  <2>4. FreshOK(c)' /\ ReportOK(c)'
    BY <1>1 DEF FreshOK, ReportOK, CleanOrBound
  <2>5. QED
    BY <2>2, <2>3, <2>4 DEF GoodCall
<1>4. QED
  BY <1>1, <1>3, CallMoves

\* The same for a call that answers from the row of its operation.
LEMMA ReplayGood ==
  ASSUME IInv, NEW c \in Calls, NEW o \in Ops, NEW payload \in Payloads,
         Replay(c, o, payload), calls[c].pc \notin {"mark", "done"},
         UNCHANGED <<ops, ledger, invocations, charge>>
  PROVE  PaidCallInv'
<1>1. /\ calls'[c].pc = "done" /\ calls'[c].op = o /\ calls'[c].payload = payload
      /\ calls'[c].answer = Replayed(o, payload) /\ calls'[c].late = calls[c].late
      /\ calls'[c].result = IF Replayed(o, payload) = "result"
                            THEN ops[o].result ELSE None
      /\ \A d \in Calls \ {c} : calls'[d] = calls[d]
  BY DEF IInv, TypeInv, TypeOK, CallRows, Replay
<1>2. GoodCall(c)
  BY InvParts DEF IInv
<1>3. Replayed(o, payload) = "result" =>
        payload = ops[o].payload /\ ops[o].result # None
  BY WithoutResultType DEF Replayed
<1>4. GoodCall(c)'
  <2>1. ~calls'[c].late
    BY <1>1, <1>2 DEF GoodCall, PhaseOK
  <2>2. PhaseOK(c)' /\ AnswerOK(c)'
    BY <1>1, <1>3, <2>1 DEF PhaseOK, AnswerOK
  <2>3. OwnerOK(c)' /\ FreshOK(c)' /\ ReportOK(c)'
    BY <1>1, <2>1, OwningNames DEF OwnerOK, FreshOK, ReportOK, CleanOrBound
  <2>4. QED
    BY <2>2, <2>3 DEF GoodCall
<1>5. QED
  BY <1>1, <1>2, <1>4, CallMoves

\* A call that acts for its operation goes on acting for it.
LEMMA Holder ==
  ASSUME IInv, NEW c \in Calls, NEW rec \in CallRows,
         calls' = [calls EXCEPT ![c] = rec],
         UNCHANGED <<ops, ledger, invocations, charge>>,
         calls[c].pc \in {"waiting", "settle", "commit", "freeRefused"},
         rec.pc \in {"settle", "commit", "retain", "mark", "freeLocal", "freeRefused"},
         rec.op = calls[c].op, rec.payload = calls[c].payload,
         rec.bound = calls[c].bound, rec.answer = calls[c].answer,
         rec.late => rec.pc = "mark" \/ calls[c].late,
         ReportOK(c)'
  PROVE  PaidCallInv'
<1>1. calls'[c] = rec /\ \A d \in Calls \ {c} : calls'[d] = calls[d]
  BY DEF IInv, TypeInv, TypeOK
<1>2. GoodCall(c)
  BY InvParts DEF IInv
<1>3. calls[c].pc \in Owning /\ rec.pc \in Owning /\ calls[c].pc \notin {"mark", "done"}
  BY OwningNames
<1>4. PhaseOK(c)' /\ AnswerOK(c)'
  BY <1>1, <1>2, <1>3 DEF PhaseOK, AnswerOK, GoodCall
<1>5. OwnerOK(c)'
  BY <1>1, <1>2, <1>3 DEF OwnerOK, GoodCall
<1>6. FreshOK(c)'
  BY <1>1 DEF FreshOK
<1>7. QED
  BY <1>1, <1>3, <1>4, <1>5, <1>6, CallMoves DEF GoodCall

\* The owner of an operation, or the call that creates it, changes its row.
LEMMA RowMoves ==
  ASSUME IInv, NEW c \in Calls, NEW o \in Ops,
         \A d \in Calls \ {c} : calls'[d] = calls[d],
         \A p \in Ops \ {o} : /\ ops'[p] = ops[p] /\ ledger'[p] = ledger[p]
                            /\ invocations'[p] = invocations[p]
                            /\ charge'[p] = charge[p],
         ops[o].owner = c \/ ops[o].state = "absent",
         ops'[o].result = ops[o].result \/ ops[o].result = None,
         ops'[o].payload = ops[o].payload \/ ops[o].state = "absent",
         GoodCall(c)', GoodOp(o)', calls[c].pc = "done" => calls'[c].pc = "done"
  PROVE  PaidCallInv'
<1>1. (\A d \in Calls : GoodCall(d)) /\ \A p \in Ops : GoodOp(p)
  BY InvParts DEF IInv
<1>2. ASSUME NEW d \in Calls, d # c PROVE GoodCall(d)'
  <2>1. calls'[d] = calls[d] /\ GoodCall(d)
    BY <1>1, <1>2
  <2>2. calls[d].pc # "start" \/ calls[d].late \/ calls[d].answer = "result"
          => calls[d].op \in Ops
    BY DEF IInv, TypeInv, NamesItsOp
  <2>3. CASE calls[d].op \in Ops \ {o}
    BY <1>2, <2>1, <2>3 DEF GoodCall, PhaseOK, OwnerOK, FreshOK, ReportOK, CleanOrBound, AnswerOK, Fresh
  <2>4. CASE calls[d].op = o
    <3>1. calls[d].pc \notin Owning /\ ~calls[d].late
      BY <1>2, <2>1, <2>4 DEF GoodCall, OwnerOK
    <3>2. AnswerOK(d)'
      <4>1. ops[o].state = "absent" => ops[o].result = None
        BY <1>1 DEF GoodOp, RowMoney, SettledRow
      <4>2. QED
        BY <2>1, <2>4, <4>1 DEF GoodCall, AnswerOK
    <3>3. PhaseOK(d)' /\ OwnerOK(d)'
      BY <2>1, <3>1 DEF GoodCall, PhaseOK, OwnerOK
    <3>4. FreshOK(d)' /\ ReportOK(d)'
      BY <2>1, <3>1, OwningNames DEF FreshOK, ReportOK, CleanOrBound
    <3>5. QED
      BY <3>2, <3>3, <3>4 DEF GoodCall
  <2>5. CASE calls[d].op \notin Ops
    <3>1. calls[d].pc = "start" /\ ~calls[d].late /\ calls[d].answer # "result"
      BY <2>2, <2>5
    <3>2. QED
      BY <2>1, <3>1, OwningNames
         DEF GoodCall, PhaseOK, OwnerOK, FreshOK, ReportOK, CleanOrBound, AnswerOK
  <2>6. QED
    BY <2>3, <2>4, <2>5
<1>3. ASSUME NEW p \in Ops, p # o PROVE GoodOp(p)'
  <2>1. OwnerDone(p) => OwnerDone(p)'
    BY <1>3 DEF OwnerDone
  <2>2. QED
    BY <1>1, <1>3, <2>1 DEF GoodOp, RowMoney, SettledRow, Fresh
<1>4. QED
  BY <1>2, <1>3, InvPartsNext

LEMMA GotoOut ==
  ASSUME IInv, NEW c \in Calls, UNCHANGED <<ops, ledger, invocations, charge>>,
         NEW pc \in {"reserve", "refuse", "stop"}, Goto(c, pc),
         calls[c].pc \in {"account", "reserve", "refuse"}
  PROVE  PaidCallInv'
<1> DEFINE rec == [calls[c] EXCEPT !.pc = pc]
<1>1. calls[c] \in CallRows /\ GoodCall(c)
  BY InvParts DEF IInv, TypeInv, TypeOK
<1>2. rec \in CallRows
  BY <1>1, PcNames DEF CallRows
<1>3. ~calls[c].late
  BY <1>1 DEF GoodCall, PhaseOK
<1>4. /\ rec.pc = pc /\ rec.late = calls[c].late /\ rec.answer = calls[c].answer
      /\ rec.pc \in {"run", "account", "reserve", "refuse", "stop"}
  BY <1>1 DEF CallRows
<1>5. calls' = [calls EXCEPT ![c] = rec]
  BY DEF Goto, IInv, TypeInv, TypeOK
<1> HIDE DEF rec
<1>6. QED
  BY <1>2, <1>3, <1>4, <1>5, Holdless

LEMMA EndOut ==
  ASSUME IInv, NEW c \in Calls, UNCHANGED <<ops, ledger, invocations, charge>>,
         NEW answer \in {"uncertain", "stopped", "error"}, End(c, answer),
         calls[c].pc # "done"
  PROVE  PaidCallInv'
<1> DEFINE rec == [calls[c] EXCEPT !.pc = "done", !.answer = answer]
<1>1. calls[c] \in CallRows
  BY DEF IInv, TypeInv, TypeOK
<1>2. rec \in CallRows
  BY <1>1, PcNames DEF CallRows
<1>3. /\ rec.pc = "done" /\ rec.late = calls[c].late /\ rec.answer # "result"
      /\ rec.op = calls[c].op /\ rec.payload = calls[c].payload
      /\ rec.bound = calls[c].bound
  BY <1>1 DEF CallRows
<1>4. calls' = [calls EXCEPT ![c] = rec]
  BY Zenon DEF End, IInv, TypeInv, TypeOK
<1> HIDE DEF rec
<1>5. QED
  BY <1>2, <1>3, <1>4, Holdless

LEMMA BeginInv == ASSUME IInv, NEW c \in Calls, Begin(c) PROVE PaidCallInv'
<1>1. PICK o \in Ops, payload \in Payloads, steers \in BOOLEAN, b \in Bounds :
        IF Exists(o) THEN Replay(c, o, payload)
        ELSE calls' = [calls EXCEPT ![c].pc = "run", ![c].op = o, ![c].bound = b,
                                    ![c].payload = payload, ![c].steers = steers]
  BY DEF Begin
<1>2. UNCHANGED <<ops, ledger, invocations, charge>> /\ calls[c].pc = "start"
  BY DEF Begin, dbVars
<1>3. CASE Exists(o)
  BY <1>1, <1>2, <1>3, ReplayGood
<1>4. CASE ~Exists(o)
  <2> DEFINE rec == [calls[c] EXCEPT !.pc = "run", !.op = o, !.bound = b,
                       !.payload = payload, !.steers = steers]
  <2>1. calls[c] \in CallRows /\ GoodCall(c)
    BY InvParts DEF IInv, TypeInv, TypeOK
  <2>2. b \in Nat
    BY MoneyAssumption
  <2>3. rec \in CallRows
    BY <2>1, <2>2, PcNames DEF CallRows
  <2>4. rec.pc = "run" /\ rec.late = calls[c].late /\ rec.answer = calls[c].answer
    BY <2>1 DEF CallRows
  <2>5. ~calls[c].late
    BY <1>2, <2>1 DEF GoodCall, PhaseOK
  <2>6. calls' = [calls EXCEPT ![c] = rec]
    BY <1>1, <1>4, Zenon DEF IInv, TypeInv, TypeOK
  <2> HIDE DEF rec
  <2>7. QED
    BY <1>2, <2>3, <2>4, <2>5, <2>6, Holdless
<1>5. QED
  BY <1>3, <1>4

LEMMA ReadRunInv == ASSUME IInv, NEW c \in Calls, ReadRun(c) PROVE PaidCallInv'
<1> DEFINE rec == [calls[c] EXCEPT !.pc = "account",
                                   !.run = runStatus[RunOf(calls[c].op)]]
<1>1. calls[c] \in CallRows /\ GoodCall(c)
  BY InvParts DEF IInv, TypeInv, TypeOK
<1>2. runStatus[RunOf(calls[c].op)] \in {"running", "awaiting", "stopped", "closed"}
  BY RunOfType DEF IInv, TypeInv, TypeOK, NamesItsOp, ReadRun
<1>3. rec \in CallRows
  BY <1>1, <1>2, PcNames DEF CallRows
<1>4. rec.pc = "account" /\ rec.late = calls[c].late /\ rec.answer = calls[c].answer
  BY <1>1 DEF CallRows
<1>5. ~calls[c].late /\ calls[c].pc # "done"
  BY <1>1 DEF GoodCall, PhaseOK, ReadRun
<1>6. calls' = [calls EXCEPT ![c] = rec]
  BY Zenon DEF ReadRun, IInv, TypeInv, TypeOK
<1>7. UNCHANGED <<ops, ledger, invocations, charge>>
  BY DEF ReadRun, dbVars
<1> HIDE DEF rec
<1>8. QED
  BY <1>3, <1>4, <1>5, <1>6, <1>7, Holdless

LEMMA ReadAccountingInv ==
  ASSUME IInv, NEW c \in Calls, ReadAccounting(c) PROVE PaidCallInv'
<1>1. UNCHANGED <<ops, ledger, invocations, charge>> /\ calls[c].pc = "account"
  BY DEF ReadAccounting, dbVars
<1>2. \/ \E answer \in {"uncertain", "stopped"} : End(c, answer)
      \/ \E pc \in {"refuse", "reserve"} : Goto(c, pc)
  BY DEF ReadAccounting
<1>3. QED
  BY <1>1, <1>2, GotoOut, EndOut

LEMMA RefuseInv == ASSUME IInv, NEW c \in Calls, Refuse(c) PROVE PaidCallInv'
<1>1. UNCHANGED <<ops, ledger, invocations, charge>> /\ calls[c].pc = "refuse"
  BY DEF Refuse, dbVars
<1>2. calls[c].op \in Ops /\ calls[c].payload \in Payloads
  BY <1>1 DEF IInv, TypeInv, NamesItsOp
<1>3. \/ Replay(c, calls[c].op, calls[c].payload)
      \/ Goto(c, "stop") \/ End(c, "stopped")
  BY DEF Refuse
<1>4. QED
  BY <1>1, <1>2, <1>3, GotoOut, EndOut, ReplayGood

LEMMA EndingInv ==
  ASSUME IInv, NEW c \in Calls, StopRun(c) \/ Abandon(c) PROVE PaidCallInv'
<1>1. calls[c].pc # "done" /\ (End(c, "stopped") \/ End(c, "error"))
  BY DEF StopRun, Abandon
<1>2. UNCHANGED <<ops, ledger, invocations, charge>>
  BY DEF StopRun, Abandon, dbVars
<1>3. QED
  BY <1>1, <1>2, EndOut

LEMMA Frame ==
  ASSUME IInv, NEW c \in Calls
  PROVE  /\ calls[c] \in CallRows /\ GoodCall(c)
         /\ calls[c].pc # "start" => calls[c].op \in Ops
         /\ calls[c].pc \notin {"mark", "done"} =>
              ~calls[c].late /\ calls[c].answer # "result"
BY InvParts DEF IInv, TypeInv, TypeOK, NamesItsOp, GoodCall, PhaseOK

LEMMA OpFrame ==
  ASSUME IInv, NEW o \in Ops
  PROVE  ops[o] \in OpRows /\ GoodOp(o) /\ charge[o] \in Nat
BY InvParts DEF IInv, TypeInv, TypeOK

LEMMA GotoFields ==
  ASSUME IInv, NEW c \in Calls, NEW pc, Goto(c, pc)
  PROVE  /\ calls'[c] = [calls[c] EXCEPT !.pc = pc]
         /\ calls'[c].pc = pc
         /\ calls'[c].op = calls[c].op /\ calls'[c].payload = calls[c].payload
         /\ calls'[c].bound = calls[c].bound /\ calls'[c].late = calls[c].late
         /\ calls'[c].answer = calls[c].answer /\ calls'[c].result = calls[c].result
         /\ calls'[c].basis = calls[c].basis /\ calls'[c].cost = calls[c].cost
         /\ \A d \in Calls \ {c} : calls'[d] = calls[d]
<1>1. calls[c] \in CallRows
  BY Frame
<1>2. calls'[c] = [calls[c] EXCEPT !.pc = pc]
  BY DEF Goto, IInv, TypeInv, TypeOK
<1>3. \A d \in Calls \ {c} : calls'[d] = calls[d]
  BY DEF Goto, IInv, TypeInv, TypeOK
<1>4. QED
  BY <1>1, <1>2, <1>3 DEF CallRows

LEMMA EndFields ==
  ASSUME IInv, NEW c \in Calls, NEW answer, End(c, answer)
  PROVE  /\ calls'[c].pc = "done" /\ calls'[c].answer = answer
         /\ calls'[c].op = calls[c].op /\ calls'[c].payload = calls[c].payload
         /\ calls'[c].bound = calls[c].bound /\ calls'[c].late = calls[c].late
         /\ \A d \in Calls \ {c} : calls'[d] = calls[d]
<1>1. calls[c] \in CallRows
  BY Frame
<1>2. calls'[c] = [calls[c] EXCEPT !.pc = "done", !.answer = answer]
  BY DEF End, IInv, TypeInv, TypeOK
<1>3. \A d \in Calls \ {c} : calls'[d] = calls[d]
  BY DEF End, IInv, TypeInv, TypeOK
<1>4. QED
  BY <1>1, <1>2, <1>3 DEF CallRows

LEMMA ReserveInv == ASSUME IInv, NEW c \in Calls, Reserve(c) PROVE PaidCallInv'
<1>0. PICK o \in Ops : calls[c].op = o
  BY Frame DEF Reserve
<1>1. /\ calls[c].pc = "reserve" /\ calls[c] \in CallRows
      /\ ~calls[c].late /\ calls[c].answer # "result"
  BY Frame DEF Reserve
<1>2. UNCHANGED <<invocations, charge>>
  BY DEF Reserve
<1>3. PICK t \in Times :
        \/ /\ Unclaimed(o) /\ ops' = [ops EXCEPT ![o] = Reserved(c, t)]
           /\ ledger' = ledger /\ Goto(c, "claim")
        \/ Goto(c, "refuse") /\ UNCHANGED <<ops, ledger, spend>>
  BY <1>0 DEF Reserve
<1>4. CASE Goto(c, "refuse") /\ UNCHANGED <<ops, ledger, spend>>
  BY <1>1, <1>2, <1>4, GotoOut
<1>5. CASE /\ Unclaimed(o) /\ ops' = [ops EXCEPT ![o] = Reserved(c, t)]
           /\ ledger' = ledger /\ Goto(c, "claim")
  <2>1. ops[o].state = "absent" /\ GoodOp(o) /\ ops[o] \in OpRows
    BY <1>1, <1>5, OpFrame DEF Unclaimed, Exists
  <2>2. /\ ops'[o].state = "reserved" /\ ops'[o].owner = c
        /\ ops'[o].payload = calls[c].payload /\ ops'[o].bound = calls[c].bound
        /\ ops'[o].liability = calls[c].bound /\ ops'[o].result = None
    BY <1>1, <1>5 DEF Reserved, NoOp, IInv, TypeInv, TypeOK
  <2>3. /\ calls'[c].pc = "claim" /\ calls'[c].op = o /\ ~calls'[c].late
        /\ calls'[c].payload = calls[c].payload /\ calls'[c].bound = calls[c].bound
        /\ calls'[c].answer # "result"
        /\ \A d \in Calls \ {c} : calls'[d] = calls[d]
    BY <1>0, <1>1, <1>5, GotoFields
  <2>4. Fresh(o) /\ ledger[o].cost = 0 /\ ops[o].result = None
    BY <2>1 DEF GoodOp, RowMoney, SettledRow
  <2>5. GoodCall(c)'
    BY <1>2, <2>2, <2>3, <2>4
       DEF GoodCall, PhaseOK, OwnerOK, FreshOK, ReportOK, CleanOrBound, AnswerOK, Fresh
  <2>6. GoodOp(o)'
    BY <1>2, <1>5, <2>1, <2>2, <2>4 DEF GoodOp, RowMoney, SettledRow, Fresh, Held
  <2>7. \A p \in Ops \ {o} : ops'[p] = ops[p]
    BY <1>5 DEF IInv, TypeInv, TypeOK
  <2>8. QED
    BY <1>1, <1>2, <1>5, <2>1, <2>2, <2>3, <2>4, <2>5, <2>6, <2>7, RowMoves
<1>6. QED
  BY <1>3, <1>4, <1>5

LEMMA ClaimDispatchInv ==
  ASSUME IInv, NEW c \in Calls, ClaimDispatch(c) PROVE PaidCallInv'
<1>0. PICK o \in Ops : calls[c].op = o
  BY Frame DEF ClaimDispatch
<1>1. /\ calls[c].pc = "claim" /\ GoodCall(c)
      /\ ~calls[c].late /\ calls[c].answer # "result"
  BY Frame DEF ClaimDispatch
<1>2. UNCHANGED <<ledger, invocations, charge>>
  BY DEF ClaimDispatch
<1>3. CASE End(c, "error") /\ ops' = ops
  BY <1>1, <1>2, <1>3, EndOut
<1>4. CASE /\ MayDispatch(c, o) /\ Goto(c, "invoke")
           /\ ops' = [ops EXCEPT ![o].state = "dispatched", ![o].version = @ + 1]
  <2>1. ops[o] \in OpRows /\ GoodOp(o)
    BY <1>1, OpFrame
  <2>2. ops[o].state = "reserved" /\ ops[o].owner = c
    BY <1>4 DEF MayDispatch, Owns
  <2>3. ops'[o] = [ops[o] EXCEPT !.state = "dispatched", !.version = @ + 1]
    BY <1>1, <1>4 DEF IInv, TypeInv, TypeOK
  <2>4. /\ ops'[o].state = "dispatched" /\ ops'[o].owner = c
        /\ ops'[o].payload = ops[o].payload /\ ops'[o].bound = ops[o].bound
        /\ ops'[o].liability = ops[o].liability /\ ops'[o].result = ops[o].result
    BY <2>1, <2>2, <2>3 DEF OpRows
  <2>5. /\ calls'[c].pc = "invoke" /\ calls'[c].op = o /\ ~calls'[c].late
        /\ calls'[c].payload = calls[c].payload /\ calls'[c].bound = calls[c].bound
        /\ calls'[c].answer # "result"
        /\ \A d \in Calls \ {c} : calls'[d] = calls[d]
    BY <1>0, <1>1, <1>4, GotoFields
  <2>7. /\ ops[o].payload = calls[c].payload /\ ops[o].bound = calls[c].bound
        /\ Fresh(o)
    BY <1>0, <1>1, OwningNames DEF GoodCall, OwnerOK, FreshOK
  <2>8. GoodCall(c)'
    BY <1>2, <2>4, <2>5, <2>7
       DEF GoodCall, PhaseOK, OwnerOK, FreshOK, ReportOK, CleanOrBound, AnswerOK, Fresh
  <2>9. GoodOp(o)'
    BY <1>2, <2>1, <2>2, <2>4 DEF GoodOp, RowMoney, SettledRow, Held
  <2>10. \A p \in Ops \ {o} : ops'[p] = ops[p]
    BY <1>4 DEF IInv, TypeInv, TypeOK
  <2>11. QED
    BY <1>1, <1>2, <2>2, <2>4, <2>5, <2>8, <2>9, <2>10, RowMoves
<1>5. QED
  BY <1>0, <1>3, <1>4 DEF ClaimDispatch

LEMMA InvokeInv == ASSUME IInv, NEW c \in Calls, Invoke(c) PROVE PaidCallInv'
<1>0. PICK o \in Ops : calls[c].op = o
  BY Frame DEF Invoke
<1>1. /\ calls[c].pc = "invoke" /\ GoodCall(c)
      /\ ~calls[c].late /\ calls[c].answer # "result" /\ Goto(c, "waiting")
  BY Frame DEF Invoke
<1>2. UNCHANGED <<ops, ledger>>
  BY DEF Invoke, dbVars
<1>3. /\ calls'[c].pc = "waiting" /\ calls'[c].op = o /\ ~calls'[c].late
      /\ calls'[c].payload = calls[c].payload /\ calls'[c].bound = calls[c].bound
      /\ calls'[c].answer # "result"
      /\ \A d \in Calls \ {c} : calls'[d] = calls[d]
  BY <1>0, <1>1, GotoFields
<1>4. /\ ops[o].state \notin {"absent", "reserved"} /\ ops[o].owner = c
      /\ ops[o].payload = calls[c].payload /\ ops[o].bound = calls[c].bound /\ Fresh(o)
  BY <1>0, <1>1, OwningNames DEF GoodCall, OwnerOK, FreshOK
<1>5. GoodOp(o) /\ ~OwnerDone(o)
  BY <1>1, <1>4, OpFrame DEF OwnerDone
<1>6. \A p \in Ops \ {o} : charge'[p] = charge[p] /\ invocations'[p] = invocations[p]
  BY <1>0 DEF Invoke, IInv, TypeInv, TypeOK
<1>7. invocations'[o] = 1
  BY <1>0, <1>4 DEF Invoke, Fresh, IInv, TypeInv, TypeOK
<1>8. GoodCall(c)'
  BY <1>2, <1>3, <1>4 DEF GoodCall, PhaseOK, OwnerOK, FreshOK, ReportOK, CleanOrBound, AnswerOK
<1>9. GoodOp(o)'
  <2>1. ops[o].state \notin {"released", "settled"}
    BY <1>5 DEF GoodOp, RowMoney, SettledRow
  <2>2. QED
    BY <1>2, <1>4, <1>5, <1>7, <2>1 DEF GoodOp, RowMoney, SettledRow
<1>10. QED
  BY <1>1, <1>2, <1>3, <1>4, <1>6, <1>8, <1>9, RowMoves

LEMMA RespondsInv == ASSUME IInv, NEW c \in Calls, Responds(c) PROVE PaidCallInv'
<1>0. PICK o \in Ops : calls[c].op = o
  BY Frame DEF Responds
<1>1. /\ calls[c].pc = "waiting" /\ calls[c] \in CallRows /\ ~calls[c].late
      /\ UNCHANGED <<ops, ledger, invocations, charge>>
  BY Frame DEF Responds, dbVars
<1>2. charge[o] \in Nat /\ calls[c].bound \in Nat
  BY <1>1, OpFrame DEF CallRows
<1> DEFINE rec(f, x) == [calls[c] EXCEPT !.pc = "settle", !.basis = f, !.cost = x]
<1>3. ASSUME NEW f \in CostBases, NEW x \in Nat, Books(c, f, x),
             CleanOrBoundAmount(f, x, calls[c].bound, charge[o])
      PROVE  PaidCallInv'
  <2>1. calls' = [calls EXCEPT ![c] = rec(f, x)]
    BY <1>3, Zenon DEF IInv, TypeInv, TypeOK, Books
  <2>2. rec(f, x) \in CallRows
    BY <1>1, PcNames DEF CallRows
  <2>3. /\ rec(f, x).pc = "settle" /\ rec(f, x).op = o /\ ~rec(f, x).late
        /\ rec(f, x).payload = calls[c].payload /\ rec(f, x).bound = calls[c].bound
        /\ rec(f, x).answer = calls[c].answer
        /\ rec(f, x).basis = f /\ rec(f, x).cost = x
    BY <1>0, <1>1 DEF CallRows
  <2>4. calls'[c] = rec(f, x)
    BY <2>1 DEF IInv, TypeInv, TypeOK
  <2> HIDE DEF rec
  <2>5. ReportOK(c)'
    BY <1>1, <1>3, <2>3, <2>4 DEF ReportOK, CleanOrBound, CleanOrBoundAmount
  <2>6. QED
    BY <1>0, <1>1, <2>1, <2>2, <2>3, <2>5, Holder
<1>4. CASE CleanReport(c) /\ Books(c, "reported", charge[o])
  BY <1>0, <1>2, <1>3, <1>4 DEF CleanReport, CleanOrBoundAmount, CostBases
<1>5. ASSUME NEW e \in Estimates, CleanEstimate(c, e), Books(c, "estimate", e)
      PROVE  PaidCallInv'
  BY <1>2, <1>3, <1>5, MoneyAssumption DEF CleanEstimate, CleanOrBoundAmount, CostBases
<1>6. ASSUME NEW x \in Observed(o), Books(c, "bound", Larger(calls[c].bound, x))
      PROVE  PaidCallInv'
  <2>1. /\ Larger(calls[c].bound, x) \in Nat
        /\ Larger(calls[c].bound, x) >= calls[c].bound
    BY <1>2, LargerType, MoneyAssumption DEF Observed
  <2>2. QED
    BY <1>3, <1>6, <2>1 DEF CleanOrBoundAmount, CostBases
<1>7. QED
  BY <1>0, <1>4, <1>5, <1>6 DEF Responds

LEMMA RefusesUnpaidInv ==
  ASSUME IInv, NEW c \in Calls, RefusesUnpaid(c) PROVE PaidCallInv'
<1>1. /\ calls[c].pc = "waiting" /\ calls[c] \in CallRows /\ ~calls[c].late
      /\ UNCHANGED <<ops, ledger, invocations, charge>> /\ charge[calls[c].op] = 0
  BY Frame DEF RefusesUnpaid, dbVars
<1>2. PICK pc \in {"freeLocal", "freeRefused"} : Goto(c, pc)
  BY DEF RefusesUnpaid
<1> DEFINE rec == [calls[c] EXCEPT !.pc = pc]
<1>3. rec \in CallRows
  BY <1>1, PcNames DEF CallRows
<1>4. calls'[c] = rec /\ calls' = [calls EXCEPT ![c] = rec]
  BY <1>2, GotoFields DEF Goto
<1>5. /\ rec.pc = pc /\ rec.op = calls[c].op /\ rec.payload = calls[c].payload
      /\ rec.bound = calls[c].bound /\ rec.answer = calls[c].answer /\ ~rec.late
  BY <1>1 DEF CallRows
<1> HIDE DEF rec
<1>6. ReportOK(c)'
  BY <1>1, <1>4, <1>5 DEF ReportOK, CleanOrBound
<1>7. QED
  BY <1>1, <1>3, <1>4, <1>5, <1>6, Holder

LEMMA FailsInv == ASSUME IInv, NEW c \in Calls, Fails(c) PROVE PaidCallInv'
<1>1. /\ calls[c].pc = "waiting" /\ calls[c] \in CallRows
      /\ UNCHANGED <<ops, ledger, invocations, charge>>
  BY Frame DEF Fails, dbVars
<1>2. PICK late \in BOOLEAN :
        calls' = [calls EXCEPT ![c].pc = "mark", ![c].late = late]
  BY DEF Fails
<1> DEFINE rec == [calls[c] EXCEPT !.pc = "mark", !.late = late]
<1>3. rec \in CallRows
  BY <1>1, PcNames DEF CallRows
<1>4. calls' = [calls EXCEPT ![c] = rec]
  BY <1>2, Zenon DEF IInv, TypeInv, TypeOK
<1>5. /\ rec.pc = "mark" /\ rec.op = calls[c].op /\ rec.payload = calls[c].payload
      /\ rec.bound = calls[c].bound /\ rec.answer = calls[c].answer
  BY <1>1 DEF CallRows
<1>6. calls'[c] = rec
  BY <1>4 DEF IInv, TypeInv, TypeOK
<1> HIDE DEF rec
<1>7. ReportOK(c)'
  BY <1>5, <1>6 DEF ReportOK, CleanOrBound
<1>8. QED
  BY <1>1, <1>3, <1>4, <1>5, <1>7, Holder

LEMMA SettleReadInv == ASSUME IInv, NEW c \in Calls, SettleRead(c) PROVE PaidCallInv'
<1>0. PICK o \in Ops : calls[c].op = o
  BY Frame DEF SettleRead
<1>1. /\ calls[c].pc = "settle" /\ calls[c] \in CallRows /\ GoodCall(c)
      /\ UNCHANGED <<ops, ledger, invocations, charge>>
  BY Frame DEF SettleRead, dbVars
<1>2. CASE End(c, "error")
  BY <1>1, <1>2, EndOut
<1>3. CASE calls' = [calls EXCEPT ![c].pc = "commit", ![c].version = ops[o].version]
  <2> DEFINE rec == [calls[c] EXCEPT !.pc = "commit", !.version = ops[o].version]
  <2>1. ops[o].version \in Nat
    BY OpFrame DEF OpRows
  <2>2. rec \in CallRows
    BY <1>1, <2>1, PcNames DEF CallRows
  <2>3. calls' = [calls EXCEPT ![c] = rec]
    BY <1>3, Zenon DEF IInv, TypeInv, TypeOK
  <2>4. /\ rec.pc = "commit" /\ rec.op = calls[c].op /\ rec.payload = calls[c].payload
        /\ rec.bound = calls[c].bound /\ rec.answer = calls[c].answer
        /\ rec.late = calls[c].late /\ rec.cost = calls[c].cost
        /\ rec.basis = calls[c].basis
    BY <1>1 DEF CallRows
  <2>5. calls'[c] = rec
    BY <2>3 DEF IInv, TypeInv, TypeOK
  <2> HIDE DEF rec
  <2>6. ReportOK(c)'
    BY <1>1, <2>4, <2>5 DEF GoodCall, ReportOK, CleanOrBound
  <2>7. QED
    BY <1>1, <2>2, <2>3, <2>4, <2>6, Holder
<1>4. QED
  BY <1>0, <1>2, <1>3 DEF SettleRead

LEMMA SettleFailsInv ==
  ASSUME IInv, NEW c \in Calls, SettleFails(c) PROVE PaidCallInv'
<1>1. /\ calls[c].pc = "commit" /\ calls[c] \in CallRows /\ GoodCall(c)
      /\ UNCHANGED <<ops, ledger, invocations, charge>> /\ Goto(c, "retain")
  BY Frame DEF SettleFails, dbVars
<1> DEFINE rec == [calls[c] EXCEPT !.pc = "retain"]
<1>2. rec \in CallRows
  BY <1>1, PcNames DEF CallRows
<1>3. calls'[c] = rec /\ calls' = [calls EXCEPT ![c] = rec]
  BY <1>1, GotoFields DEF Goto
<1>4. /\ rec.pc = "retain" /\ rec.op = calls[c].op /\ rec.payload = calls[c].payload
      /\ rec.bound = calls[c].bound /\ rec.answer = calls[c].answer
      /\ rec.late = calls[c].late /\ rec.cost = calls[c].cost
      /\ rec.basis = calls[c].basis
  BY <1>1 DEF CallRows
<1> HIDE DEF rec
<1>5. ReportOK(c)'
  BY <1>1, <1>3, <1>4 DEF GoodCall, ReportOK, CleanOrBound
<1>6. QED
  BY <1>1, <1>2, <1>3, <1>4, <1>5, Holder

LEMMA ReleaseInv == ASSUME IInv, NEW c \in Calls, Release(c) PROVE PaidCallInv'
<1>0. PICK o \in Ops : calls[c].op = o
  BY Frame DEF Release
<1>1. /\ calls[c].pc \in {"freeLocal", "freeRefused"} /\ calls[c] \in CallRows
      /\ GoodCall(c) /\ ~calls[c].late /\ calls[c].answer # "result"
  BY Frame DEF Release
<1>2. UNCHANGED <<invocations, charge>>
  BY DEF Release
<1>3. CASE End(c, "error") /\ UNCHANGED <<ops, ledger, spend>>
  BY <1>1, <1>2, <1>3, EndOut
<1>4. CASE /\ calls[c].pc = "freeRefused" /\ Goto(c, "mark")
           /\ UNCHANGED <<ops, ledger, spend>>
  <2> DEFINE rec == [calls[c] EXCEPT !.pc = "mark"]
  <2>1. rec \in CallRows
    BY <1>1, PcNames DEF CallRows
  <2>2. calls'[c] = rec /\ calls' = [calls EXCEPT ![c] = rec]
    BY <1>4, GotoFields DEF Goto
  <2>3. /\ rec.pc = "mark" /\ rec.op = calls[c].op /\ rec.payload = calls[c].payload
        /\ rec.bound = calls[c].bound /\ rec.answer = calls[c].answer
        /\ rec.late = calls[c].late
    BY <1>1 DEF CallRows
  <2> HIDE DEF rec
  <2>4. ReportOK(c)'
    BY <2>2, <2>3 DEF ReportOK, CleanOrBound
  <2>5. QED
    BY <1>1, <1>2, <1>4, <2>1, <2>2, <2>3, <2>4, Holder
<1>5. CASE /\ Releasable(c, o) /\ End(c, "error") /\ ledger' = ledger
           /\ ops' = [ops EXCEPT ![o].state = "released", ![o].version = @ + 1,
                                 ![o].liability = 0, ![o].issue = FALSE]
  <2>1. ops[o] \in OpRows /\ GoodOp(o)
    BY OpFrame
  <2>2. ops[o].state = "dispatched" /\ ops[o].owner = c
    BY <1>5 DEF Releasable
  <2>3. ops'[o] = [ops[o] EXCEPT !.state = "released", !.version = @ + 1,
                                 !.liability = 0, !.issue = FALSE]
    BY <1>5, Zenon DEF IInv, TypeInv, TypeOK
  <2>4. /\ ops'[o].state = "released" /\ ops'[o].owner = c
        /\ ops'[o].payload = ops[o].payload /\ ops'[o].result = ops[o].result
    BY <2>1, <2>2, <2>3 DEF OpRows
  <2>5. /\ calls'[c].pc = "done" /\ ~calls'[c].late /\ calls'[c].answer = "error"
        /\ \A d \in Calls \ {c} : calls'[d] = calls[d]
    BY <1>1, <1>5, EndFields
  <2>6. charge[o] = 0
    BY <1>0, <1>1 DEF GoodCall, ReportOK, CleanOrBound
  <2>7. GoodCall(c)'
    BY <2>5, OwningNames DEF GoodCall, PhaseOK, OwnerOK, FreshOK, ReportOK, CleanOrBound, AnswerOK
  <2>8. GoodOp(o)'
    BY <1>2, <2>1, <2>4, <2>5, <2>6 DEF GoodOp, RowMoney, SettledRow, OwnerDone, Held
  <2>9. \A p \in Ops \ {o} : ops'[p] = ops[p]
    BY <1>5, Zenon DEF IInv, TypeInv, TypeOK
  <2>10. QED
    BY <1>2, <1>5, <2>2, <2>4, <2>5, <2>7, <2>8, <2>9, RowMoves
<1>6. QED
  BY <1>0, <1>1, <1>3, <1>4, <1>5 DEF Release

LEMMA MarkUncertainInv ==
  ASSUME IInv, NEW c \in Calls, MarkUncertain(c) PROVE PaidCallInv'
<1>0. PICK o \in Ops : calls[c].op = o
  BY Frame DEF MarkUncertain
<1>1. /\ calls[c].pc = "mark" /\ GoodCall(c) /\ End(c, "error")
      /\ UNCHANGED <<ledger, invocations, charge>>
  BY Frame DEF MarkUncertain
<1>2. CASE ops' = ops
  BY <1>1, <1>2, EndOut
<1>3. CASE /\ ops[o].state = "dispatched" /\ ops[o].owner = c
           /\ ops' = [ops EXCEPT ![o].state = "uncertain", ![o].version = @ + 1,
                                 ![o].issue = TRUE]
  <2>1. ops[o] \in OpRows /\ GoodOp(o)
    BY OpFrame
  <2>2. ops'[o] = [ops[o] EXCEPT !.state = "uncertain", !.version = @ + 1,
                                 !.issue = TRUE]
    BY <1>3, Zenon DEF IInv, TypeInv, TypeOK
  <2>3. /\ ops'[o].state = "uncertain" /\ ops'[o].owner = ops[o].owner
        /\ ops'[o].payload = ops[o].payload /\ ops'[o].bound = ops[o].bound
        /\ ops'[o].liability = ops[o].liability /\ ops'[o].result = ops[o].result
    BY <2>1, <2>2 DEF OpRows
  <2>4. /\ calls'[c].pc = "done" /\ calls'[c].answer = "error" /\ calls'[c].op = o
        /\ calls'[c].payload = calls[c].payload /\ calls'[c].bound = calls[c].bound
        /\ \A d \in Calls \ {c} : calls'[d] = calls[d]
    BY <1>0, <1>1, EndFields
  <2>5. ops[o].payload = calls[c].payload /\ ops[o].bound = calls[c].bound
    BY <1>0, <1>1, OwningNames DEF GoodCall, OwnerOK
  <2>6. GoodCall(c)'
    BY <1>3, <2>3, <2>4, <2>5, OwningNames
       DEF GoodCall, PhaseOK, OwnerOK, FreshOK, ReportOK, CleanOrBound, AnswerOK
  <2>7. ops[o].liability >= ops[o].bound
    BY <1>3, <2>1 DEF GoodOp, RowMoney, SettledRow, OpRows
  <2>8. GoodOp(o)'
    BY <1>1, <1>3, <2>1, <2>3, <2>7 DEF GoodOp, RowMoney, SettledRow, Held
  <2>9. \A p \in Ops \ {o} : ops'[p] = ops[p]
    BY <1>3, Zenon DEF IInv, TypeInv, TypeOK
  <2>10. QED
    BY <1>1, <1>3, <2>3, <2>4, <2>6, <2>8, <2>9, RowMoves
<1>4. QED
  BY <1>0, <1>2, <1>3 DEF MarkUncertain

\* Retained evidence keeps the row's money where it was or raises it.
LEMMA RetainFields ==
  ASSUME IInv, NEW c \in Calls, NEW o \in Ops, NEW amount \in Nat,
         Retain(c, o, amount)
  PROVE  /\ ledger' = ledger /\ \A p \in Ops \ {o} : ops'[p] = ops[p]
         /\ \/ ops' = ops
            \/ /\ ops[o].state \in {"dispatched", "uncertain"} /\ ops[o].owner = c
               /\ ops'[o].state = "uncertain" /\ ops'[o].owner = c
               /\ ops'[o].payload = ops[o].payload /\ ops'[o].bound = ops[o].bound
               /\ ops'[o].result = ops[o].result
               /\ ops'[o].liability >= ops'[o].bound
<1>1. ops[o] \in OpRows
  BY OpFrame
<1> DEFINE l == Larger(Larger(ops[o].liability, ops[o].bound), amount)
<1>2. CASE /\ Retainable(c, o)
           /\ ops' = [ops EXCEPT ![o].state = "uncertain", ![o].version = @ + 1,
                        ![o].issue = TRUE, ![o].liability = l]
  <2>1. ops'[o] = [ops[o] EXCEPT !.state = "uncertain", !.version = @ + 1,
                     !.issue = TRUE, !.liability = l]
    BY <1>2, Zenon DEF IInv, TypeInv, TypeOK
  <2>2. l >= ops[o].bound
    <3>1. ops[o].bound \in Nat /\ ops[o].liability \in Nat
      BY <1>1 DEF OpRows
    <3>2. QED
      BY <3>1 DEF Larger
  <2> HIDE DEF l
  <2>3. /\ ops'[o].state = "uncertain" /\ ops'[o].owner = ops[o].owner
        /\ ops'[o].payload = ops[o].payload /\ ops'[o].bound = ops[o].bound
        /\ ops'[o].result = ops[o].result /\ ops'[o].liability = l
    BY <1>1, <2>1 DEF OpRows
  <2>4. \A p \in Ops \ {o} : ops'[p] = ops[p]
    BY <1>2, Zenon DEF IInv, TypeInv, TypeOK
  <2>5. QED
    BY <1>2, <2>2, <2>3, <2>4 DEF Retain, Retainable
<1>3. CASE ops' = ops
  BY <1>3 DEF Retain
<1>4. QED
  BY <1>2, <1>3 DEF Retain

LEMMA RetainGood ==
  ASSUME IInv, NEW c \in Calls, NEW o \in Ops, NEW amount \in Nat,
         Retain(c, o, amount), UNCHANGED <<invocations, charge>>,
         calls[c].op = o, calls[c].pc \in {"mark", "retain", "done"},
         calls[c].pc \in Owning \/ calls[c].late,
         \A d \in Calls \ {c} : calls'[d] = calls[d],
         calls'[c].pc = "done" \/ calls'[c].pc = calls[c].pc,
         calls'[c].pc # "done" => calls'[c].pc = "mark",
         calls'[c].op = o, calls'[c].payload = calls[c].payload,
         calls'[c].bound = calls[c].bound, ~calls'[c].late,
         calls'[c].answer # "result" \/
           (calls'[c].answer = calls[c].answer /\ calls'[c].result = calls[c].result
              /\ calls[c].pc = calls'[c].pc)
  PROVE  PaidCallInv'
<1>1. GoodCall(c) /\ GoodOp(o) /\ ops[o] \in OpRows
  BY Frame, OpFrame
<1>2. /\ ops[o].state \notin {"absent", "reserved"} /\ ops[o].owner = c
      /\ ops[o].payload = calls[c].payload /\ ops[o].bound = calls[c].bound
  BY <1>1 DEF GoodCall, OwnerOK
<1>3. /\ ops'[o].state \notin {"absent", "reserved"} /\ ops'[o].owner = c
      /\ ops'[o].payload = ops[o].payload /\ ops'[o].bound = ops[o].bound
      /\ ops'[o].result = ops[o].result /\ ledger' = ledger
      /\ \A p \in Ops \ {o} : ops'[p] = ops[p]
  BY <1>2, RetainFields
<1>4. GoodCall(c)'
  BY <1>1, <1>2, <1>3, OwningNames
     DEF GoodCall, PhaseOK, OwnerOK, FreshOK, ReportOK, CleanOrBound, AnswerOK
<1>5. GoodOp(o)'
  <2>1. CASE ops' = ops
    <3>1. OwnerDone(o) => OwnerDone(o)'
      BY <1>2, <1>3, <2>1 DEF OwnerDone
    <3>2. QED
      BY <1>1, <1>3, <2>1, <3>1 DEF GoodOp, RowMoney, SettledRow, Fresh
  <2>2. CASE ops' # ops
    <3>1. /\ ops[o].state \in {"dispatched", "uncertain"}
          /\ ops'[o].state = "uncertain" /\ ops'[o].liability >= ops'[o].bound
      BY <2>2, RetainFields
    <3>2. QED
      BY <1>1, <1>3, <3>1 DEF GoodOp, RowMoney, SettledRow, Held
  <2>3. QED
    BY <2>1, <2>2
<1>6. QED
  BY <1>2, <1>3, <1>4, <1>5, RowMoves

LEMMA LateResponseInv ==
  ASSUME IInv, NEW c \in Calls, LateResponse(c) PROVE PaidCallInv'
<1>1. /\ calls[c] \in CallRows /\ GoodCall(c) /\ calls[c].late
      /\ UNCHANGED <<invocations, charge>>
  BY Frame DEF LateResponse
<1>2. calls[c].pc \in {"mark", "done"}
  BY <1>1 DEF GoodCall, PhaseOK
<1>3. PICK o \in Ops : calls[c].op = o
  BY <1>2, Frame
<1>4. PICK x \in Observed(o) : Retain(c, o, Larger(calls[c].bound, x))
  BY <1>3 DEF LateResponse
<1>5. Larger(calls[c].bound, x) \in Nat
  BY <1>1, OpFrame, LargerType, MoneyAssumption DEF Observed, CallRows
<1>6. calls'[c] = [calls[c] EXCEPT !.late = FALSE] /\ \A d \in Calls \ {c} : calls'[d] = calls[d]
  BY DEF LateResponse, IInv, TypeInv, TypeOK
<1>7. /\ calls'[c].pc = calls[c].pc /\ calls'[c].op = o
      /\ calls'[c].payload = calls[c].payload /\ calls'[c].bound = calls[c].bound
      /\ ~calls'[c].late /\ calls'[c].answer = calls[c].answer
      /\ calls'[c].result = calls[c].result
  BY <1>1, <1>3, <1>6 DEF CallRows
<1>8. QED
  BY <1>1, <1>2, <1>3, <1>4, <1>5, <1>6, <1>7, RetainGood

LEMMA RetainFailedInv ==
  ASSUME IInv, NEW c \in Calls, RetainFailed(c) PROVE PaidCallInv'
<1>1. /\ calls[c] \in CallRows /\ GoodCall(c) /\ calls[c].pc = "retain"
      /\ ~calls[c].late /\ UNCHANGED <<invocations, charge>> /\ End(c, "error")
  BY Frame DEF RetainFailed
<1>2. PICK o \in Ops : calls[c].op = o
  BY <1>1, Frame
<1>3. Retain(c, o, Larger(ops[o].bound, calls[c].cost))
  BY <1>2 DEF RetainFailed
<1>4. Larger(ops[o].bound, calls[c].cost) \in Nat
  BY <1>1, OpFrame, LargerType DEF OpRows, CallRows
<1>5. /\ calls'[c].pc = "done" /\ calls'[c].op = o /\ calls'[c].answer = "error"
      /\ calls'[c].payload = calls[c].payload /\ calls'[c].bound = calls[c].bound
      /\ ~calls'[c].late /\ \A d \in Calls \ {c} : calls'[d] = calls[d]
  BY <1>1, <1>2, EndFields
<1>6. QED
  BY <1>1, <1>2, <1>3, <1>4, <1>5, OwningNames, RetainGood

LEMMA SettleInv == ASSUME IInv, NEW c \in Calls, Settle(c) PROVE PaidCallInv'
<1>0. PICK o \in Ops : calls[c].op = o
  BY Frame DEF Settle
<1> DEFINE f == calls[c].basis = "bound"
           res == IF f THEN None ELSE c
<1>1. /\ calls[c].pc = "commit" /\ calls[c] \in CallRows /\ GoodCall(c)
      /\ ~calls[c].late /\ UNCHANGED <<invocations, charge>>
  BY Frame DEF Settle
<1>2. ops[o] \in OpRows /\ GoodOp(o) /\ ops[o].state = "dispatched" /\ ops[o].owner = c
  BY <1>0, OpFrame DEF Settle, MaySettle
<1>3. /\ ops'[o] = [ops[o] EXCEPT !.state = "settled", !.version = @ + 1,
                       !.liability = 0, !.issue = f, !.result = res]
      /\ \A p \in Ops \ {o} : ops'[p] = ops[p]
  BY <1>0, Zenon DEF Settle, IInv, TypeInv, TypeOK
<1>4. /\ ops'[o].state = "settled" /\ ops'[o].owner = ops[o].owner
      /\ ops'[o].payload = ops[o].payload /\ ops'[o].bound = ops[o].bound
      /\ ops'[o].issue = f /\ ops'[o].result = res
  <2> HIDE DEF f, res
  <2>1. QED
    BY <1>2, <1>3 DEF OpRows
<1>5. /\ ledger'[o].cost = calls[c].cost /\ ledger'[o].basis = calls[c].basis
      /\ \A p \in Ops \ {o} : ledger'[p] = ledger[p]
  BY <1>0 DEF Settle, IInv, TypeInv, TypeOK
<1>6. /\ calls'[c] = [calls[c] EXCEPT !.pc = "done",
                        !.answer = IF f THEN "uncertain" ELSE "result", !.result = res]
      /\ \A d \in Calls \ {c} : calls'[d] = calls[d]
  BY Zenon DEF Settle, IInv, TypeInv, TypeOK
<1>7. /\ calls'[c].pc = "done" /\ calls'[c].op = o /\ ~calls'[c].late
      /\ calls'[c].payload = calls[c].payload /\ calls'[c].result = res
      /\ calls'[c].answer = IF f THEN "uncertain" ELSE "result"
  <2> HIDE DEF f, res
  <2>1. QED
    BY <1>0, <1>1, <1>6 DEF CallRows
<1>8. /\ ops[o].payload = calls[c].payload /\ ops[o].bound = calls[c].bound
      /\ CleanOrBound(c, charge[o])
  BY <1>0, <1>1, OwningNames DEF GoodCall, OwnerOK, ReportOK, CleanOrBound
<1>9. ops[o].result = None
  BY <1>2 DEF GoodOp, RowMoney, SettledRow, Held
<1>10. GoodCall(c)'
  <2>1. c # None
    BY NoneAssumption
  <2>2. PhaseOK(c)' /\ AnswerOK(c)'
    BY <1>4, <1>7, <1>8, <2>1 DEF PhaseOK, AnswerOK
  <2>3. OwnerOK(c)' /\ FreshOK(c)' /\ ReportOK(c)'
    BY <1>7, OwningNames DEF OwnerOK, FreshOK, ReportOK, CleanOrBound
  <2>4. QED
    BY <2>2, <2>3 DEF GoodCall
<1>11. GoodOp(o)'
  <2>1. SettledRow(o)'
    BY <1>1, <1>4, <1>5, <1>8 DEF SettledRow, CleanOrBound, CleanOrBoundAmount
  <2>2. OwnerDone(o)'
    BY <1>2, <1>4, <1>7 DEF OwnerDone
  <2>3. QED
    BY <1>1, <1>2, <1>4, <2>1, <2>2 DEF GoodOp, RowMoney, Held
<1>12. QED
  BY <1>1, <1>2, <1>3, <1>4, <1>5, <1>6, <1>7, <1>9, <1>10, <1>11, RowMoves

\* Reconciliation changes a row whose owner may still be waiting for its answer.
LEMMA ReconcileInv == ASSUME IInv, NEW o \in Ops, Reconcile(o) PROVE PaidCallInv'
<1>1. UNCHANGED <<calls, invocations, charge>> /\ Exists(o)
  BY DEF Reconcile, Reconcilable
<1>2. ops[o] \in OpRows /\ GoodOp(o)
  BY OpFrame
<1>3. /\ ops'[o] = [ops[o] EXCEPT !.state = "reconciled", !.version = @ + 1,
                       !.liability = 0, !.issue = FALSE]
      /\ \A p \in Ops \ {o} : ops'[p] = ops[p]
  BY Zenon DEF Reconcile, IInv, TypeInv, TypeOK
<1>4. /\ ops'[o].state = "reconciled" /\ ops'[o].owner = ops[o].owner
      /\ ops'[o].payload = ops[o].payload /\ ops'[o].bound = ops[o].bound
      /\ ops'[o].result = ops[o].result
  BY <1>2, <1>3 DEF OpRows
<1>5. \A p \in Ops \ {o} : ledger'[p] = ledger[p]
  BY DEF Reconcile, IInv, TypeInv, TypeOK
<1>6. ASSUME NEW p \in Ops PROVE GoodOp(p)'
  <2>1. GoodOp(p)
    BY OpFrame
  <2>2. CASE p = o
    BY <1>1, <1>4, <2>1, <2>2 DEF GoodOp, RowMoney, SettledRow, Held
  <2>3. CASE p # o
    BY <1>1, <1>3, <1>5, <2>1, <2>3 DEF GoodOp, RowMoney, SettledRow, OwnerDone, Fresh
  <2>4. QED
    BY <2>2, <2>3
<1>7. ASSUME NEW d \in Calls PROVE GoodCall(d)'
  <2>1. GoodCall(d) /\ (calls[d].pc # "start" => calls[d].op \in Ops)
    BY Frame
  <2>2. CASE calls[d].op = o
    BY <1>1, <1>4, <2>1, <2>2
       DEF GoodCall, PhaseOK, OwnerOK, FreshOK, ReportOK, CleanOrBound, AnswerOK, Fresh
  <2>3. CASE calls[d].op # o /\ calls[d].pc # "start"
    <3>1. ops'[calls[d].op] = ops[calls[d].op]
      BY <1>3, <2>1, <2>3
    <3>2. QED
      BY <1>1, <2>1, <3>1
         DEF GoodCall, PhaseOK, OwnerOK, FreshOK, ReportOK, CleanOrBound, AnswerOK, Fresh
  <2>4. CASE calls[d].pc = "start"
    BY <1>1, <2>1, <2>4, OwningNames
       DEF GoodCall, PhaseOK, OwnerOK, FreshOK, ReportOK, CleanOrBound, AnswerOK
  <2>5. QED
    BY <2>2, <2>3, <2>4
<1>8. QED
  BY <1>6, <1>7, InvPartsNext

LEMMA OtherStepsInv ==
  ASSUME IInv,
         \/ \E o \in Ops : Look(o)
         \/ \E p \in Periods : Provision(p)
         \/ \E r \in Runs : RunMovesOn(r) \/ LoseDate(r)
         \/ UNCHANGED vars
  PROVE  PaidCallInv'
<1>1. UNCHANGED <<ops, ledger, calls, invocations, charge>>
  BY DEF Look, Provision, RunMovesOn, LoseDate, vars, dbVars
<1>2. ASSUME NEW c \in Calls PROVE GoodCall(c)'
  BY <1>1, Frame DEF GoodCall, PhaseOK, OwnerOK, FreshOK, ReportOK, CleanOrBound, AnswerOK, Fresh
<1>3. ASSUME NEW o \in Ops PROVE GoodOp(o)'
  BY <1>1, OpFrame DEF GoodOp, RowMoney, SettledRow, OwnerDone, Fresh
<1>4. QED
  BY <1>2, <1>3, InvPartsNext

LEMMA IInvHolds == Spec => []IInv
<1>1. Init => IInv
  BY InitType, InitInv DEF IInv
<1>2. IInv /\ [Next]_vars => IInv'
  <2> SUFFICES ASSUME IInv, [Next]_vars PROVE IInv'
    OBVIOUS
  <2>1. ASSUME NEW c \in Calls, Begin(c) \/ Call(c) \/ LateResponse(c) \/ Abandon(c)
        PROVE  PaidCallInv'
    BY <2>1, BeginInv, ReadRunInv, ReadAccountingInv, RefuseInv, EndingInv, ReserveInv,
       ClaimDispatchInv, InvokeInv, RespondsInv, RefusesUnpaidInv, FailsInv, ReleaseInv,
       MarkUncertainInv, LateResponseInv, SettleReadInv, SettleInv, SettleFailsInv,
       RetainFailedInv DEF Call
  <2>2. ASSUME NEW o \in Ops, Operator(o) PROVE PaidCallInv'
    BY <2>2, OtherStepsInv, ReconcileInv DEF Operator
  <2>3. PaidCallInv'
    BY <2>1, <2>2, OtherStepsInv DEF Next
  <2>4. QED
    BY <2>3, TypeStep DEF IInv
<1>3. QED
  BY <1>1, <1>2, PTL DEF Spec

\* The inductive form itself: owners, reports and rows agree in every state.
THEOREM PaidCallHolds == Spec => []PaidCallInv
<1>1. IInv => PaidCallInv
  BY DEF IInv
<1>2. QED
  BY <1>1, IInvHolds, PTL

\* However many calls share a logical key, at most one invokes the provider.
THEOREM OneInvocationHolds == Spec => []OneInvocation
<1>1. IInv => OneInvocation
  BY DEF IInv, PaidCallInv
<1>2. QED
  BY <1>1, IInvHolds, PTL

\* What was charged, up to its bound, is counted until an operator attests, or
\* a token estimate is settled in its place.
THEOREM ChargeIsCountedHolds == Spec => []ChargeIsCounted
<1>1. IInv => ChargeIsCounted
  <2> SUFFICES ASSUME IInv, NEW o \in Ops, ops[o].state # "reconciled",
                      ledger[o].basis # "estimate"
               PROVE  Accounted(o) >= Smaller(charge[o], ops[o].bound)
    BY DEF ChargeIsCounted
  <2>1. /\ ops[o] \in OpRows /\ RowMoney(o) /\ charge[o] \in Nat
        /\ ledger[o] \in [basis : CostBases, cost : Nat]
    BY OpFrame DEF GoodOp, IInv, TypeInv, TypeOK
  <2>2. /\ ops[o].liability \in Nat /\ ops[o].bound \in Nat /\ ledger[o].cost \in Nat
        /\ ops[o].issue \in BOOLEAN
        /\ ops[o].state \in {"absent"} \cup Held \cup {"settled", "released"}
    BY <2>1 DEF OpRows, Ended
  <2>3. CASE ops[o].state \in {"absent", "reserved"}
    <3>1. charge[o] = 0
      BY <2>1, <2>3 DEF RowMoney, SettledRow, Fresh
    <3>2. QED
      BY <2>2, <3>1 DEF Accounted, Counted, Smaller
  <2>4. CASE ops[o].state \in {"dispatched", "uncertain"}
    <3>1. ops[o].liability >= ops[o].bound /\ ops[o].state \in Held
      BY <2>1, <2>2, <2>4 DEF RowMoney, SettledRow, Held
    <3>2. QED
      BY <2>1, <2>2, <3>1 DEF Accounted, Counted, Smaller
  <2>5. CASE ops[o].state = "released"
    BY <2>1, <2>2, <2>5 DEF RowMoney, SettledRow, Accounted, Counted, Smaller
  <2>6. CASE ops[o].state = "settled"
    BY <2>1, <2>2, <2>6 DEF RowMoney, SettledRow, Accounted, Counted, Smaller
  <2>7. QED
    BY <2>2, <2>3, <2>4, <2>5, <2>6 DEF Held
<1>2. QED
  BY <1>1, IInvHolds, PTL

\* A settled operation books what the provider reported or, where it reports
\* nothing, its token estimate, within the bound; or it keeps an issue open.
THEOREM SettledIsTrueHolds == Spec => []SettledIsTrue
<1>1. IInv => SettledIsTrue
  BY OpFrame DEF SettledIsTrue, GoodOp, RowMoney
<1>2. QED
  BY <1>1, IInvHolds, PTL

\* A call that answers with a completion answers the durable one that was paid.
THEOREM AnswersAgreeHolds == Spec => []AnswersAgree
<1>1. IInv => AnswersAgree
  BY DEF IInv, PaidCallInv
<1>2. QED
  BY <1>1, IInvHolds, PTL

-----------------------------------------------------------------------------
(***************************************************************************)
(* What a step may do to an operation's row, and what follows: attested    *)
(* rows are final, decisions are made on the row that was seen, the cached *)
(* spend is the total, a Run that lost its date is settled, a Run stays    *)
(* within its budget and a provisioned period within its cap, and all of   *)
(* it implements PaidWork.                                                 *)
(***************************************************************************)

SameRow(o) == ops'[o] = ops[o] /\ ledger'[o] = ledger[o]
Created(o) ==
  /\ ops[o].state = "absent" /\ ops'[o].state = "reserved" /\ ops'[o].version = 1
  /\ RunOf(o) \notin fenced /\ runStatus[RunOf(o)] \in {"running", "awaiting"}
SameTerms(o) == ops'[o].bound = ops[o].bound /\ ops'[o].periods = ops[o].periods
Moved(o) ==
  /\ SameTerms(o)
  /\ ops[o].state \in Held /\ ops'[o].state \in Held \cup {"settled", "released"}
  /\ ops'[o].version = ops[o].version + 1
Decided(o) ==
  /\ SameTerms(o)
  /\ ops[o].state \notin {"absent", "reconciled"} /\ ops'[o].state = "reconciled"
  /\ ~ops'[o].issue /\ ops'[o].version = ops[o].version + 1
  /\ seen[o].version = ops[o].version
RowChange(o) == Created(o) \/ Moved(o) \/ Decided(o)

\* A step on the operation o: its row alone, nothing of the Run's status.
OneRow(o) ==
  /\ SameRow(o) \/ RowChange(o)
  /\ \A p \in Ops \ {o} : SameRow(p)
  /\ UNCHANGED <<runStatus, fenced, seen>>

LEMMA OpOfCall ==
  ASSUME TypeInv, NEW c \in Calls, calls[c].pc # "start" \/ calls[c].late
  PROVE  calls[c].op \in Ops /\ ops[calls[c].op] \in OpRows
BY DEF TypeInv, TypeOK, NamesItsOp

LEMMA ReserveRow ==
  ASSUME TypeInv, NEW c \in Calls, Reserve(c) PROVE \E o \in Ops : OneRow(o)
<1>1. PICK o \in Ops : o = calls[c].op
  BY OpOfCall DEF Reserve
<1>2. UNCHANGED <<runStatus, fenced, seen>> /\ ledger' = ledger
  BY DEF Reserve
<1>3. CASE ops' = ops
  BY <1>2, <1>3 DEF OneRow, SameRow
<1>4. CASE \E t \in Times :
             /\ Unclaimed(o) /\ RunAdmits(RunOf(o), calls[c].bound, calls[c].steers)
             /\ ops' = [ops EXCEPT ![o] = Reserved(c, t)]
  <2>1. PICK t \in Times : ops' = [ops EXCEPT ![o] = Reserved(c, t)]
    BY <1>4
  <2>2. ops'[o].state = "reserved" /\ ops'[o].version = 1
    BY <2>1 DEF Reserved, NoOp, TypeInv, TypeOK
  <2>3. \A p \in Ops \ {o} : ops'[p] = ops[p]
    BY <2>1 DEF TypeInv, TypeOK
  <2>4. Created(o)
    BY <1>4, <2>2 DEF Created, Unclaimed, Exists, RunAdmits, MayCall
  <2>5. QED
    BY <1>2, <2>3, <2>4 DEF OneRow, RowChange, SameRow
<1>5. QED
  BY <1>1, <1>3, <1>4 DEF Reserve

LEMMA ClaimDispatchRow ==
  ASSUME TypeInv, NEW c \in Calls, ClaimDispatch(c) PROVE \E o \in Ops : OneRow(o)
<1>1. PICK o \in Ops : o = calls[c].op /\ ops[o] \in OpRows
  BY OpOfCall DEF ClaimDispatch
<1>2. UNCHANGED <<runStatus, fenced, seen>> /\ ledger' = ledger
  BY DEF ClaimDispatch
<1>3. CASE ops' = ops
  BY <1>2, <1>3 DEF OneRow, SameRow
<1>4. CASE /\ MayDispatch(c, o)
           /\ ops' = [ops EXCEPT ![o].state = "dispatched", ![o].version = @ + 1]
  <2>1. /\ ops'[o] = [ops[o] EXCEPT !.state = "dispatched", !.version = @ + 1]
        /\ \A p \in Ops \ {o} : ops'[p] = ops[p]
    BY <1>4, Zenon DEF TypeInv, TypeOK
  <2>2. ops'[o].state = "dispatched" /\ ops'[o].version = ops[o].version + 1 /\ SameTerms(o)
    BY <1>1, <2>1 DEF OpRows, SameTerms
  <2>3. Moved(o)
    BY <1>4, <2>2 DEF Moved, MayDispatch, Owns, Held
  <2>4. QED
    BY <1>2, <2>1, <2>3 DEF OneRow, RowChange, SameRow
<1>5. QED
  BY <1>1, <1>3, <1>4 DEF ClaimDispatch

LEMMA ReleaseRow ==
  ASSUME TypeInv, NEW c \in Calls, Release(c) PROVE \E o \in Ops : OneRow(o)
<1>1. PICK o \in Ops : o = calls[c].op /\ ops[o] \in OpRows
  BY OpOfCall DEF Release
<1>2. UNCHANGED <<runStatus, fenced, seen>> /\ ledger' = ledger
  BY DEF Release
<1>3. CASE ops' = ops
  BY <1>2, <1>3 DEF OneRow, SameRow
<1>4. CASE /\ Releasable(c, o)
           /\ ops' = [ops EXCEPT ![o].state = "released", ![o].version = @ + 1,
                                 ![o].liability = 0, ![o].issue = FALSE]
  <2>1. /\ ops'[o] = [ops[o] EXCEPT !.state = "released", !.version = @ + 1,
                                    !.liability = 0, !.issue = FALSE]
        /\ \A p \in Ops \ {o} : ops'[p] = ops[p]
    BY <1>4, Zenon DEF TypeInv, TypeOK
  <2>2. ops'[o].state = "released" /\ ops'[o].version = ops[o].version + 1 /\ SameTerms(o)
    BY <1>1, <2>1 DEF OpRows, SameTerms
  <2>3. Moved(o)
    BY <1>4, <2>2 DEF Moved, Releasable, Held
  <2>4. QED
    BY <1>2, <2>1, <2>3 DEF OneRow, RowChange, SameRow
<1>5. QED
  BY <1>1, <1>3, <1>4 DEF Release

LEMMA MarkUncertainRow ==
  ASSUME TypeInv, NEW c \in Calls, MarkUncertain(c) PROVE \E o \in Ops : OneRow(o)
<1>1. PICK o \in Ops : o = calls[c].op /\ ops[o] \in OpRows
  BY OpOfCall DEF MarkUncertain
<1>2. UNCHANGED <<runStatus, fenced, seen>> /\ ledger' = ledger
  BY DEF MarkUncertain
<1>3. CASE ops' = ops
  BY <1>2, <1>3 DEF OneRow, SameRow
<1>4. CASE /\ ops[o].state = "dispatched"
           /\ ops' = [ops EXCEPT ![o].state = "uncertain", ![o].version = @ + 1,
                                 ![o].issue = TRUE]
  <2>1. /\ ops'[o] = [ops[o] EXCEPT !.state = "uncertain", !.version = @ + 1,
                                    !.issue = TRUE]
        /\ \A p \in Ops \ {o} : ops'[p] = ops[p]
    BY <1>4, Zenon DEF TypeInv, TypeOK
  <2>2. ops'[o].state = "uncertain" /\ ops'[o].version = ops[o].version + 1 /\ SameTerms(o)
    BY <1>1, <2>1 DEF OpRows, SameTerms
  <2>3. Moved(o)
    BY <1>4, <2>2 DEF Moved, Held
  <2>4. QED
    BY <1>2, <2>1, <2>3 DEF OneRow, RowChange, SameRow
<1>5. QED
  BY <1>1, <1>3, <1>4 DEF MarkUncertain

LEMMA RetainRow ==
  ASSUME TypeInv, NEW c \in Calls, NEW o \in Ops, NEW amount, Retain(c, o, amount),
         UNCHANGED <<runStatus, fenced, seen>>
  PROVE  OneRow(o)
<1> DEFINE l == Larger(Larger(ops[o].liability, ops[o].bound), amount)
<1>1. ledger' = ledger /\ ops[o] \in OpRows
  BY DEF Retain, TypeInv, TypeOK
<1>2. CASE ops' = ops
  BY <1>1, <1>2 DEF OneRow, SameRow
<1>3. CASE /\ Retainable(c, o)
           /\ ops' = [ops EXCEPT ![o].state = "uncertain", ![o].version = @ + 1,
                        ![o].issue = TRUE, ![o].liability = l]
  <2>1. /\ ops'[o] = [ops[o] EXCEPT !.state = "uncertain", !.version = @ + 1,
                        !.issue = TRUE, !.liability = l]
        /\ \A p \in Ops \ {o} : ops'[p] = ops[p]
    BY <1>3, Zenon DEF TypeInv, TypeOK
  <2> HIDE DEF l
  <2>2. ops'[o].state = "uncertain" /\ ops'[o].version = ops[o].version + 1 /\ SameTerms(o)
    BY <1>1, <2>1 DEF OpRows, SameTerms
  <2>3. Moved(o)
    BY <1>3, <2>2 DEF Moved, Retainable, Held
  <2>4. QED
    BY <1>1, <2>1, <2>3 DEF OneRow, RowChange, SameRow
<1>4. QED
  BY <1>2, <1>3 DEF Retain

LEMMA SettleRow ==
  ASSUME TypeInv, NEW c \in Calls, Settle(c) PROVE \E o \in Ops : OneRow(o)
<1> DEFINE f == calls[c].basis = "bound"
           res == IF f THEN None ELSE c
<1>1. PICK o \in Ops : o = calls[c].op /\ ops[o] \in OpRows
  BY OpOfCall DEF Settle
<1>2. UNCHANGED <<runStatus, fenced, seen>>
  BY DEF Settle
<1>3. \A p \in Ops \ {o} : ledger'[p] = ledger[p]
  BY <1>1 DEF Settle, TypeInv, TypeOK
<1>4. /\ ops'[o] = [ops[o] EXCEPT !.state = "settled", !.version = @ + 1,
                      !.liability = 0, !.issue = f, !.result = res]
      /\ \A p \in Ops \ {o} : ops'[p] = ops[p]
  BY <1>1, Zenon DEF Settle, TypeInv, TypeOK
<1>5. ops'[o].state = "settled" /\ ops'[o].version = ops[o].version + 1 /\ SameTerms(o)
  <2> HIDE DEF f, res
  <2>1. QED
    BY <1>1, <1>4 DEF OpRows, SameTerms
<1>6. Moved(o)
  BY <1>1, <1>5 DEF Moved, Settle, MaySettle, Held
<1>7. QED
  BY <1>2, <1>3, <1>4, <1>6 DEF OneRow, RowChange, SameRow

LEMMA ReconcileRow ==
  ASSUME TypeInv, NEW o \in Ops, Reconcile(o) PROVE OneRow(o) /\ Decided(o)
<1>1. UNCHANGED <<runStatus, fenced, seen>> /\ ops[o] \in OpRows
  BY DEF Reconcile, TypeInv, TypeOK
<1>2. \A p \in Ops \ {o} : ledger'[p] = ledger[p]
  BY DEF Reconcile, TypeInv, TypeOK
<1>3. /\ ops'[o] = [ops[o] EXCEPT !.state = "reconciled", !.version = @ + 1,
                      !.liability = 0, !.issue = FALSE]
      /\ \A p \in Ops \ {o} : ops'[p] = ops[p]
  BY Zenon DEF Reconcile, TypeInv, TypeOK
<1>4. /\ ops'[o].state = "reconciled" /\ ops'[o].version = ops[o].version + 1
      /\ ~ops'[o].issue /\ SameTerms(o)
  BY <1>1, <1>3 DEF OpRows, SameTerms
<1>5. Decided(o)
  BY <1>4 DEF Decided, Reconcile, Reconcilable, Expected, Exists
<1>6. QED
  BY <1>1, <1>2, <1>3, <1>5 DEF OneRow, RowChange, SameRow

\* Every step is a step on one row, or changes no row: it moves a Run, takes its
\* date, or only shows a row to the operator.
NoRow == UNCHANGED <<ops, ledger>>
LEMMA StepKinds ==
  ASSUME TypeInv, [Next]_vars
  PROVE  \/ \E o \in Ops : OneRow(o)
         \/ NoRow /\ UNCHANGED <<runStatus, fenced, spend>>
               /\ (seen' = seen \/ \E o \in Ops : seen' = [seen EXCEPT ![o] = ops[o]])
         \/ NoRow /\ UNCHANGED <<fenced, spend, seen>> /\ \E c \in Calls : StopRun(c)
         \/ NoRow /\ UNCHANGED <<spend, seen>>
               /\ \E r \in Runs : RunMovesOn(r) \/ LoseDate(r)
<1>1. ASSUME NEW c \in Calls, Begin(c) \/ Call(c) \/ LateResponse(c) \/ Abandon(c)
      PROVE  \/ \E o \in Ops : OneRow(o)
             \/ NoRow /\ UNCHANGED <<runStatus, fenced, spend, seen>>
             \/ NoRow /\ UNCHANGED <<fenced, spend, seen>> /\ StopRun(c)
  <2>1. CASE \/ Begin(c) \/ ReadRun(c) \/ ReadAccounting(c) \/ Refuse(c) \/ Invoke(c)
             \/ Responds(c) \/ RefusesUnpaid(c) \/ Fails(c) \/ SettleRead(c)
             \/ SettleFails(c) \/ Abandon(c)
    BY <2>1 DEF NoRow, Begin, ReadRun, ReadAccounting, Refuse, Invoke, Responds,
      RefusesUnpaid, Fails, SettleRead, SettleFails, Abandon, dbVars
  <2>2. CASE StopRun(c)
    BY <2>2 DEF NoRow, StopRun
  <2>3. CASE Reserve(c) \/ ClaimDispatch(c) \/ Release(c) \/ MarkUncertain(c) \/ Settle(c)
    BY <2>3, ReserveRow, ClaimDispatchRow, ReleaseRow, MarkUncertainRow, SettleRow
  <2>4. CASE LateResponse(c)
    <3>1. calls[c].op \in Ops
      BY <2>4, OpOfCall DEF LateResponse
    <3>2. PICK x \in Observed(calls[c].op) :
            Retain(c, calls[c].op, Larger(calls[c].bound, x))
      BY <2>4 DEF LateResponse
    <3>3. UNCHANGED <<runStatus, fenced, seen>>
      BY <2>4 DEF LateResponse
    <3>4. QED
      BY <3>1, <3>2, <3>3, RetainRow
  <2>5. CASE RetainFailed(c)
    <3>1. calls[c].op \in Ops
      BY <2>5, OpOfCall DEF RetainFailed
    <3>2. Retain(c, calls[c].op, Larger(ops[calls[c].op].bound, calls[c].cost))
      BY <2>5 DEF RetainFailed
    <3>3. UNCHANGED <<runStatus, fenced, seen>>
      BY <2>5 DEF RetainFailed
    <3>4. QED
      BY <3>1, <3>2, <3>3, RetainRow
  <2>6. QED
    BY <1>1, <2>1, <2>2, <2>3, <2>4, <2>5 DEF Call
<1>2. ASSUME NEW o \in Ops, Look(o)
      PROVE  NoRow /\ UNCHANGED <<runStatus, fenced, spend>>
                   /\ seen' = [seen EXCEPT ![o] = ops[o]]
  BY <1>2 DEF NoRow, Look, dbVars
<1>3. ASSUME NEW p \in Periods, Provision(p)
      PROVE  NoRow /\ UNCHANGED <<runStatus, fenced, spend, seen>>
  BY <1>3 DEF NoRow, Provision
<1>4. ASSUME NEW r \in Runs, RunMovesOn(r) \/ LoseDate(r)
      PROVE  NoRow /\ UNCHANGED <<spend, seen>>
  BY <1>4 DEF NoRow, RunMovesOn, LoseDate
<1>5. CASE UNCHANGED vars
  BY <1>5 DEF NoRow, vars, dbVars
<1>6. QED
  BY <1>1, <1>2, <1>3, <1>4, <1>5, ReconcileRow DEF Next, Operator

\* What that means for one operation.
LEMMA RowSteps ==
  ASSUME TypeInv, [Next]_vars, NEW o \in Ops PROVE SameRow(o) \/ RowChange(o)
<1>1. CASE NoRow
  BY <1>1 DEF NoRow, SameRow
<1>2. CASE \E p \in Ops : OneRow(p)
  BY <1>2 DEF OneRow
<1>3. QED
  BY <1>1, <1>2, StepKinds

\* A late answer or a late settlement never touches a reconciled operation.
THEOREM ReconciledIsFinalHolds == Spec => ReconciledIsFinal
<1>1. TypeInv /\ [Next]_vars =>
        [\A o \in Ops : ops[o].state = "reconciled" => UNCHANGED <<ops[o], ledger[o]>>]_vars
  <2> SUFFICES ASSUME TypeInv, [Next]_vars, NEW o \in Ops, ops[o].state = "reconciled"
               PROVE  UNCHANGED <<ops[o], ledger[o]>>
    OBVIOUS
  <2>1. ~RowChange(o)
    BY DEF RowChange, Created, Moved, Decided, Held
  <2>2. QED
    BY <2>1, RowSteps DEF SameRow
<1>2. QED
  BY <1>1, InitType, TypeStep, PTL DEF Spec, ReconciledIsFinal

\* The version of a row tells which row it was.
SeenAgrees ==
  \A o \in Ops : /\ ops[o].state = "absent" => ops[o] = NoOp
                 /\ seen[o].version <= ops[o].version
                 /\ seen[o].version = ops[o].version => seen[o] = ops[o]

LEMMA SeenStep == TypeInv /\ SeenAgrees /\ [Next]_vars => SeenAgrees'
<1> SUFFICES ASSUME TypeInv, SeenAgrees, [Next]_vars, NEW o \in Ops
             PROVE  /\ ops'[o].state = "absent" => ops'[o] = NoOp
                    /\ seen'[o].version <= ops'[o].version
                    /\ seen'[o].version = ops'[o].version => seen'[o] = ops'[o]
  BY DEF SeenAgrees
<1>1. /\ ops[o].version \in Nat /\ seen[o].version \in Nat
      /\ ops[o].state = "absent" => ops[o].version = 0
      /\ seen[o].version <= ops[o].version
  BY DEF TypeInv, TypeOK, OpRows, SeenAgrees, NoOp
<1>2. CASE RowChange(o) /\ seen' = seen
  <2>1. ops'[o].state # "absent" /\ ops'[o].version = ops[o].version + 1
    BY <1>1, <1>2 DEF RowChange, Created, Moved, Decided, Held
  <2>2. QED
    BY <1>1, <1>2, <2>1
<1>3. CASE ops'[o] = ops[o] /\ (seen'[o] = seen[o] \/ seen'[o] = ops[o])
  BY <1>1, <1>3 DEF SeenAgrees
<1>4. CASE \E p \in Ops : OneRow(p)
  BY <1>2, <1>3, <1>4 DEF OneRow, SameRow
<1>5. CASE NoRow /\ (seen' = seen \/ \E p \in Ops : seen' = [seen EXCEPT ![p] = ops[p]])
  BY <1>3, <1>5 DEF NoRow, TypeInv, TypeOK
<1>6. QED
  BY <1>4, <1>5, StepKinds

\* An operator only ever decides on the row he looked at.
THEOREM DecidesOnWhatIsSeenHolds == Spec => DecidesOnWhatIsSeen
<1>1. Init => SeenAgrees
  BY DEF Init, SeenAgrees, NoOp
<1>2. TypeInv /\ SeenAgrees /\ [Next]_vars =>
        [\A o \in Ops :
           ops[o].state # "reconciled" /\ ops'[o].state = "reconciled" =>
             seen[o] = ops[o]]_vars
  <2> SUFFICES ASSUME TypeInv, SeenAgrees, [Next]_vars, NEW o \in Ops,
                      ops[o].state # "reconciled", ops'[o].state = "reconciled"
               PROVE  seen[o] = ops[o]
    OBVIOUS
  <2>1. Decided(o)
    BY RowSteps DEF SameRow, RowChange, Created, Moved, Held
  <2>2. QED
    BY <2>1 DEF Decided, SeenAgrees
<1>3. QED
  BY <1>1, <1>2, InitType, TypeStep, SeenStep, PTL DEF Spec, DecidesOnWhatIsSeen

\* A Run that lost its date has no money in flight and gets none.
THEOREM FencedIsSettledHolds == Spec => []FencedIsSettled
<1>1. Init => FencedIsSettled
  BY DEF Init, FencedIsSettled
<1>2. TypeInv /\ FencedIsSettled /\ [Next]_vars => FencedIsSettled'
  <2> SUFFICES ASSUME TypeInv, FencedIsSettled, [Next]_vars
               PROVE  FencedIsSettled'
    OBVIOUS
  <2>1. CASE NoRow /\ fenced' = fenced
    BY <2>1 DEF NoRow, FencedIsSettled, Open, Holding
  <2>2. CASE NoRow /\ \E r \in Runs : LoseDate(r)
    BY <2>2 DEF NoRow, LoseDate, Settled, FencedIsSettled, Open, Holding
  <2>3. CASE \E o \in Ops : OneRow(o)
    <3>1. PICK o \in Ops : OneRow(o)
      BY <2>3
    <3> SUFFICES ASSUME NEW r \in fenced', NEW q \in OpsOf(r) PROVE ~Open(q)'
      BY DEF FencedIsSettled
    <3>2. r \in fenced /\ ~Open(q) /\ q \in Ops /\ RunOf(q) = r
      BY <3>1 DEF OneRow, FencedIsSettled, OpsOf
    <3>3. SameRow(q) \/ RowChange(q)
      BY <3>2, RowSteps
    <3>4. ~Created(q) /\ ~Moved(q)
      BY <3>2 DEF Created, Moved, Open, Holding
    <3>5. CASE SameRow(q)
      BY <3>2, <3>5 DEF SameRow, Open, Holding
    <3>6. CASE Decided(q)
      BY <3>6 DEF Decided, Open, Holding, Held
    <3>7. QED
      BY <3>3, <3>4, <3>5, <3>6 DEF RowChange
  <2>4. QED
    BY <2>1, <2>2, <2>3, StepKinds DEF RunMovesOn
<1>3. QED
  BY <1>1, <1>2, InitType, TypeStep, PTL DEF Spec
-----------------------------------------------------------------------------
(* The cached total.                                                         *)
LEMMA SameTotal ==
  ASSUME NEW r \in Runs,
         \A o \in OpsOf(r) : Counted(ops'[o], ledger'[o]) = Counted(ops[o], ledger[o])
  PROVE  Total(r, ops', ledger') = Total(r, ops, ledger)
<1>1. [o \in OpsOf(r) |-> Counted(ops'[o], ledger'[o])] =
        [o \in OpsOf(r) |-> Counted(ops[o], ledger[o])]
  OBVIOUS
<1>2. QED
  BY <1>1 DEF Total

\* Nothing a Run is accounted for changes, nor does its cached total.
LEMMA KeepsTotal ==
  ASSUME TypeInv, SpendIsTotal, spend' = spend,
         \A o \in Ops : Counted(ops'[o], ledger'[o]) = Counted(ops[o], ledger[o])
  PROVE  SpendIsTotal'
<1> SUFFICES ASSUME NEW r \in Runs PROVE spend'[r] = Total(r, ops', ledger')
  BY DEF SpendIsTotal, RunTotal
<1>1. Total(r, ops', ledger') = Total(r, ops, ledger)
  BY SameTotal DEF OpsOf
<1>2. QED
  BY <1>1 DEF SpendIsTotal, RunTotal

\* A batch that recomputes its Run's total leaves the other Runs' rows alone.
LEMMA SyncsTotal ==
  ASSUME TypeInv, SpendIsTotal, NEW o \in Ops, Sync(RunOf(o)),
         \A p \in Ops \ {o} : SameRow(p)
  PROVE  SpendIsTotal'
<1> SUFFICES ASSUME NEW r \in Runs PROVE spend'[r] = Total(r, ops', ledger')
  BY DEF SpendIsTotal, RunTotal
<1>1. CASE r = RunOf(o)
  BY <1>1 DEF Sync, TypeInv, TypeOK
<1>2. CASE r # RunOf(o)
  <2>1. Total(r, ops', ledger') = Total(r, ops, ledger)
    BY <1>2, SameTotal DEF OpsOf, SameRow
  <2>2. spend'[r] = spend[r]
    BY <1>2 DEF Sync, TypeInv, TypeOK
  <2>3. QED
    BY <2>1, <2>2 DEF SpendIsTotal, RunTotal
<1>3. QED
  BY <1>1, <1>2

LEMMA SpendStep == TypeInv /\ SpendIsTotal /\ [Next]_vars => SpendIsTotal'
<1> SUFFICES ASSUME TypeInv, SpendIsTotal, [Next]_vars PROVE SpendIsTotal'
  OBVIOUS
<1>1. CASE UNCHANGED <<ops, ledger, spend>>
  BY <1>1, KeepsTotal
<1>2. ASSUME NEW c \in Calls, ClaimDispatch(c) \/ MarkUncertain(c) PROVE SpendIsTotal'
  <2>1. PICK o \in Ops : o = calls[c].op /\ ops[o] \in OpRows
    BY <1>2, OpOfCall DEF ClaimDispatch, MarkUncertain
  <2>2. UNCHANGED <<ledger, spend>>
    BY <1>2 DEF ClaimDispatch, MarkUncertain
  <2>3. CASE ops' = ops
    BY <2>2, <2>3, KeepsTotal
  <2>4. ASSUME NEW s \in Held, NEW i, ops[o].state \in Held,
               \/ ops' = [ops EXCEPT ![o].state = s, ![o].version = @ + 1]
               \/ ops' = [ops EXCEPT ![o].state = s, ![o].version = @ + 1, ![o].issue = i]
        PROVE  SpendIsTotal'
    <3>1. /\ \/ ops'[o] = [ops[o] EXCEPT !.state = s, !.version = @ + 1]
             \/ ops'[o] = [ops[o] EXCEPT !.state = s, !.version = @ + 1, !.issue = i]
          /\ \A p \in Ops \ {o} : ops'[p] = ops[p]
      BY <2>4, Zenon DEF TypeInv, TypeOK
    <3>2. ops'[o].state = s /\ ops'[o].liability = ops[o].liability
      BY <2>1, <3>1 DEF OpRows
    <3>3. \A p \in Ops : Counted(ops'[p], ledger'[p]) = Counted(ops[p], ledger[p])
      BY <2>2, <2>4, <3>1, <3>2 DEF Counted
    <3>4. QED
      BY <2>2, <3>3, KeepsTotal
  <2>5. {"reserved", "dispatched", "uncertain"} = Held
    BY DEF Held
  <2>6. CASE ClaimDispatch(c) /\ ops' # ops
    <3>1. /\ ops[o].state \in Held
          /\ ops' = [ops EXCEPT ![o].state = "dispatched", ![o].version = @ + 1]
      BY <2>1, <2>5, <2>6 DEF ClaimDispatch, MayDispatch, Owns
    <3>2. QED
      BY <2>4, <2>5, <3>1
  <2>7. CASE MarkUncertain(c) /\ ops' # ops
    <3>1. /\ ops[o].state \in Held
          /\ ops' = [ops EXCEPT ![o].state = "uncertain", ![o].version = @ + 1,
                                ![o].issue = TRUE]
      BY <2>1, <2>5, <2>7 DEF MarkUncertain
    <3>2. QED
      BY <2>4, <2>5, <3>1
  <2>8. QED
    BY <1>2, <2>3, <2>6, <2>7
<1>4. ASSUME NEW c \in Calls,
             Reserve(c) \/ Release(c) \/ Settle(c) \/ LateResponse(c) \/ RetainFailed(c)
      PROVE  SpendIsTotal'
  <2>1. PICK o \in Ops : o = calls[c].op
    BY <1>4, OpOfCall DEF Reserve, Release, Settle, LateResponse, RetainFailed
  <2>2. UNCHANGED <<ops, ledger, spend>> \/ Sync(RunOf(o))
    BY <1>4, <2>1 DEF Reserve, Release, Settle, LateResponse, RetainFailed, Retain
  <2>3. \A p \in Ops \ {o} : SameRow(p)
    <3>1. ops \in [Ops -> OpRows] /\ ledger \in [Ops -> [basis : CostBases, cost : Nat]]
      BY <1>1 DEF TypeInv, TypeOK
    <3>2. CASE Reserve(c)
      BY <2>1, <3>1, <3>2 DEF SameRow, Reserve
    <3>3. CASE Release(c)
      BY <2>1, <3>1, <3>3 DEF SameRow, Release
    <3>4. CASE Settle(c)
      BY <2>1, <3>1, <3>4 DEF SameRow, Settle
    <3>5. CASE LateResponse(c) \/ RetainFailed(c)
      BY <2>1, <3>1, <3>5 DEF SameRow, LateResponse, RetainFailed, Retain
    <3>6. QED
      BY <1>4, <3>2, <3>3, <3>4, <3>5
  <2>4. QED
    BY <1>1, <2>2, <2>3, SyncsTotal
<1>5. ASSUME NEW o \in Ops, Reconcile(o) PROVE SpendIsTotal'
  BY <1>5, ReconcileRow, SyncsTotal DEF OneRow, Reconcile, SameRow, TypeInv, TypeOK
<1>6. ASSUME NEW c \in Calls,
             \/ Begin(c) \/ ReadRun(c) \/ ReadAccounting(c) \/ Refuse(c) \/ StopRun(c)
             \/ Invoke(c) \/ Responds(c) \/ RefusesUnpaid(c) \/ Fails(c)
             \/ SettleRead(c) \/ SettleFails(c) \/ Abandon(c)
      PROVE  SpendIsTotal'
  BY <1>1, <1>6 DEF Begin, ReadRun, ReadAccounting, Refuse, StopRun, Invoke, Responds,
    RefusesUnpaid, Fails, SettleRead, SettleFails, Abandon, dbVars
<1>7. ASSUME \/ \E o \in Ops : Look(o)
             \/ \E p \in Periods : Provision(p)
             \/ \E r \in Runs : RunMovesOn(r) \/ LoseDate(r)
             \/ UNCHANGED vars
      PROVE  SpendIsTotal'
  BY <1>1, <1>7 DEF Look, Provision, RunMovesOn, LoseDate, vars, dbVars
<1>8. QED
  BY <1>2, <1>4, <1>5, <1>6, <1>7 DEF Next, Call, Operator

\* runs.spend_cents is the total of what operations hold and book, always.
THEOREM SpendIsTotalHolds == Spec => []SpendIsTotal
<1>1. Init => SpendIsTotal
  BY DEF Init, SpendIsTotal
<1>2. QED
  BY <1>1, InitType, TypeStep, SpendStep, PTL DEF Spec
-----------------------------------------------------------------------------
(* Refinement: what run admission knows of all this.                         *)
LEMMA InitPaid == Init => Paid!PaidInit
BY DEF Init, Paid!PaidInit, OpsOf, Open, Holding, Held, NoOp

\* A step on a row opens a Run's account only by creating an operation.
LEMMA OneRowPaid ==
  ASSUME TypeInv, [Next]_vars, NEW o \in Ops, OneRow(o)
  PROVE  Paid!PaidNext \/ UNCHANGED Paid!paidVars
<1> DEFINE open == [r \in Runs |-> \E q \in OpsOf(r) : Open(q)]
           r0 == RunOf(o)
<1>1. r0 \in Runs /\ o \in OpsOf(r0)
  BY RunOfType DEF OpsOf
<1>2. UNCHANGED <<runStatus, fenced>> /\ \A p \in Ops \ {o} : SameRow(p)
  BY DEF OneRow
<1>3. ASSUME NEW r \in Runs, r # r0 PROVE open'[r] = open[r]
  <2>1. \A q \in OpsOf(r) : q # o /\ q \in Ops
    BY <1>3 DEF OpsOf
  <2>2. \A q \in OpsOf(r) : Open(q)' <=> Open(q)
    BY <1>2, <2>1 DEF SameRow, Open, Holding
  <2>3. QED
    BY <2>2
<1>4. open' = [open EXCEPT ![r0] = open'[r0]]
  BY <1>1, <1>3
<1>5. CASE open'[r0] = open[r0]
  <2>1. open' = open
    BY <1>1, <1>3, <1>5
  <2>2. QED
    BY <1>2, <2>1 DEF Paid!paidVars
<1>6. CASE open[r0] /\ ~open'[r0]
  <2>1. open' = [open EXCEPT ![r0] = FALSE]
    BY <1>1, <1>4, <1>6
  <2>2. Paid!EndOperation(r0)
    BY <1>2, <1>6, <2>1 DEF Paid!EndOperation
  <2>3. QED
    BY <1>1, <2>2 DEF Paid!PaidNext
<1>7. CASE ~open[r0] /\ open'[r0]
  <2>1. open' = [open EXCEPT ![r0] = TRUE]
    BY <1>1, <1>4, <1>7
  <2>2. ~Open(o)
    BY <1>1, <1>7
  <2>3. Open(o)'
    <3>1. PICK q \in OpsOf(r0) : Open(q)'
      BY <1>1, <1>7 DEF OpsOf
    <3>2. CASE q # o
      BY <1>1, <1>2, <1>7, <3>1, <3>2 DEF OpsOf, SameRow, Open, Holding
    <3>3. QED
      BY <3>1, <3>2
  <2>4. Created(o)
    BY <2>2, <2>3, RowSteps
       DEF SameRow, RowChange, Moved, Decided, Open, Holding, Held
  <2>5. Paid!Reserve(r0)
    BY <1>1, <1>2, <1>7, <2>1, <2>4 DEF Paid!Reserve, Created
  <2>6. QED
    BY <1>1, <2>5 DEF Paid!PaidNext
<1>8. QED
  BY <1>1, <1>5, <1>6, <1>7

\* The rest moves Runs as admission moves them.
LEMMA RunStepPaid ==
  ASSUME TypeInv, UNCHANGED <<ops>>,
         \/ \E c \in Calls : StopRun(c)
         \/ \E r \in Runs : RunMovesOn(r) \/ LoseDate(r)
  PROVE  Paid!PaidNext \/ UNCHANGED Paid!paidVars
<1> DEFINE open == [r \in Runs |-> \E q \in OpsOf(r) : Open(q)]
<1>1. open' = open
  BY DEF Open, Holding
<1>2. ASSUME NEW c \in Calls, StopRun(c)
      PROVE  Paid!PaidNext \/ UNCHANGED Paid!paidVars
  <2>1. RunOf(calls[c].op) \in Runs
    BY <1>2, OpOfCall, RunOfType DEF StopRun
  <2>2. CASE runStatus[RunOf(calls[c].op)] = "running"
    BY <1>1, <1>2, <2>1, <2>2 DEF StopRun, Paid!PaidNext, Paid!BudgetStop
  <2>3. CASE runStatus[RunOf(calls[c].op)] # "running"
    BY <1>1, <1>2, <2>3 DEF StopRun, Paid!paidVars
  <2>4. QED
    BY <2>2, <2>3
<1>3. ASSUME NEW r \in Runs, RunMovesOn(r) PROVE Paid!PaidNext
  BY <1>1, <1>3 DEF RunMovesOn, Paid!PaidNext, Paid!MoveOn
<1>4. ASSUME NEW r \in Runs, LoseDate(r) PROVE Paid!PaidNext
  <2>1. ~open[r]
    BY <1>4 DEF LoseDate, Settled
  <2>2. Paid!LoseDate(r)
    BY <1>1, <1>4, <2>1 DEF LoseDate, Paid!LoseDate
  <2>3. QED
    BY <2>2 DEF Paid!PaidNext
<1>5. QED
  BY <1>2, <1>3, <1>4

LEMMA StepPaid == TypeInv /\ [Next]_vars => [Paid!PaidNext]_Paid!paidVars
<1> SUFFICES ASSUME TypeInv, [Next]_vars
             PROVE  Paid!PaidNext \/ UNCHANGED Paid!paidVars
  BY DEF Paid!paidVars
<1>1. CASE NoRow /\ UNCHANGED <<runStatus, fenced>>
  BY <1>1 DEF NoRow, Paid!paidVars, Open, Holding
<1>2. CASE NoRow /\ ~UNCHANGED <<runStatus, fenced>> /\ ~\E o \in Ops : OneRow(o)
  BY <1>2, StepKinds, RunStepPaid DEF NoRow
<1>3. CASE \E o \in Ops : OneRow(o)
  BY <1>3, OneRowPaid
<1>4. QED
  BY <1>1, <1>2, <1>3, StepKinds

\* Every batch, answer, crash and reconciliation is a step of PaidWork or leaves
\* it alone; in particular no ended operation ever opens again.
THEOREM ImplementsPaidWorkHolds == Spec => ImplementsPaidWork
<1>1. QED
  BY StepPaid, InitPaid, InitType, TypeStep, PTL DEF Spec, ImplementsPaidWork, Paid!PaidSpec

\* So a Run that lost its date is over and has no money in flight, for ever: what
\* the abstract account promises holds of the batches.
THEOREM SealedIsOverHolds == Spec => []Paid!SealedIsOver
<1>1. Paid!PaidInit => Paid!SealedIsOver
  BY DEF Paid!PaidInit, Paid!SealedIsOver
<1>2. TypeInv /\ Paid!SealedIsOver /\ [Next]_vars => Paid!SealedIsOver'
  <2> DEFINE open == [r \in Runs |-> \E q \in OpsOf(r) : Open(q)]
  <2> SUFFICES ASSUME TypeInv, Paid!SealedIsOver, [Next]_vars PROVE Paid!SealedIsOver'
    OBVIOUS
  <2>1. CASE UNCHANGED Paid!paidVars
    BY <2>1 DEF Paid!paidVars, Paid!SealedIsOver
  <2>2. CASE Paid!PaidNext
    <3>1. runStatus \in [Runs -> {"running", "awaiting", "stopped", "closed"}]
      BY DEF TypeInv, TypeOK
    <3>2. open = [r \in Runs |-> open[r]] /\ fenced \subseteq Runs
      BY DEF TypeInv, TypeOK
    <3>3. QED
      BY <2>2, <3>1, <3>2 DEF Paid!PaidNext, Paid!Reserve, Paid!EndOperation, Paid!BudgetStop,
        Paid!MoveOn, Paid!LoseDate, Paid!SealedIsOver
  <2>3. QED
    BY <2>1, <2>2, StepPaid
<1>3. QED
  BY <1>1, <1>2, InitPaid, InitType, TypeStep, PTL DEF Spec
-----------------------------------------------------------------------------
(* Ceilings.  A sum is the number of cents that are counted, so what a sum   *)
(* does follows from the cardinalities of finite sets.                       *)

LEMMA CentsFinite ==
  ASSUME NEW D, IsFiniteSet(D), NEW f \in [D -> Nat]
  PROVE  IsFiniteSet(Cents(f)) /\ Sum(f) = Cardinality(Cents(f)) /\ Sum(f) \in Nat
<1> DEFINE Part(x) == {x} \X (1..f[x])
           parts == {Part(x) : x \in D}
           g == [x \in D |-> Part(x)]
<1>1. \A T \in parts : IsFiniteSet(T)
  <2>1. SUFFICES ASSUME NEW x \in D PROVE IsFiniteSet(Part(x))
    OBVIOUS
  <2>2. f[x] \in Int
    OBVIOUS
  <2>3. IsFiniteSet({x})
    BY FS_Singleton
  <2>4. IsFiniteSet(1..f[x])
    BY <2>2, FS_Interval
  <2>5. QED
    BY <2>3, <2>4, FS_Product
<1>2. g \in Surjection(D, parts)
  BY DEF Surjection
<1>3. IsFiniteSet(parts)
  BY <1>2, FS_Surjection
<1>4. Cents(f) = UNION parts /\ Sum(f) = Cardinality(Cents(f))
  BY DEF Cents, Sum
<1>5. IsFiniteSet(Cents(f))
  BY <1>1, <1>3, <1>4, FS_UNION
<1>6. QED
  BY <1>4, <1>5, FS_CardinalityType

\* A sum over fewer rows of smaller amounts is smaller.
LEMMA SumGrows ==
  ASSUME NEW E, IsFiniteSet(E), NEW D \in SUBSET E, NEW f \in [D -> Nat], NEW g \in [E -> Nat],
         \A x \in D : f[x] <= g[x]
  PROVE  Sum(f) <= Sum(g)
<1>1. IsFiniteSet(D)
  BY FS_Subset
<1>2. /\ Sum(f) = Cardinality(Cents(f)) /\ Sum(g) = Cardinality(Cents(g))
      /\ IsFiniteSet(Cents(g))
  BY <1>1, CentsFinite
<1>3. Cents(f) \subseteq Cents(g)
  <2>1. SUFFICES ASSUME NEW x \in D, NEW i \in 1..f[x] PROVE <<x, i>> \in Cents(g)
    BY DEF Cents
  <2>2. x \in E /\ i \in 1..g[x]
    OBVIOUS
  <2>3. QED
    BY <2>2 DEF Cents
<1>4. QED
  BY <1>2, <1>3, FS_Subset

\* With one row of an amount up to b besides, it is larger by at most b.
LEMMA SumAdds ==
  ASSUME NEW E, IsFiniteSet(E), NEW D, IsFiniteSet(D), NEW f \in [D -> Nat], NEW g \in [E -> Nat],
         NEW o, NEW b \in Nat,
         \A x \in D : IF x = o THEN f[x] <= b ELSE x \in E /\ f[x] <= g[x]
  PROVE  Sum(f) <= Sum(g) + b
<1> DEFINE one == {o} \X (1..b)
<1>1. /\ Sum(f) = Cardinality(Cents(f)) /\ Sum(g) = Cardinality(Cents(g))
      /\ IsFiniteSet(Cents(g)) /\ Sum(f) \in Nat /\ Sum(g) \in Nat
  BY CentsFinite
<1>2. IsFiniteSet(one) /\ Cardinality(one) = b
  <2>1. IsFiniteSet({o}) /\ Cardinality({o}) = 1
    BY FS_Singleton
  <2>2. IsFiniteSet(1..b) /\ Cardinality(1..b) = b
    BY FS_Interval
  <2>3. IsFiniteSet(one) /\ Cardinality(one) = Cardinality({o}) * Cardinality(1..b)
    BY <2>1, <2>2, FS_Product
  <2>4. QED
    BY <2>1, <2>2, <2>3
<1>3. Cents(f) \subseteq Cents(g) \cup one
  <2>1. SUFFICES ASSUME NEW x \in D, NEW i \in 1..f[x]
                 PROVE  <<x, i>> \in Cents(g) \cup one
    BY DEF Cents
  <2>2. CASE x = o
    BY <2>2
  <2>3. CASE x # o
    <3>1. x \in E /\ i \in 1..g[x]
      BY <2>3
    <3>2. QED
      BY <3>1 DEF Cents
  <2>4. QED
    BY <2>2, <2>3
<1>4. /\ IsFiniteSet(Cents(g) \cup one)
      /\ Cardinality(Cents(g) \cup one) <= Sum(g) + b
  <2>1. IsFiniteSet(Cents(g) \cap one)
    BY <1>2, FS_Subset
  <2>2. Cardinality(Cents(g) \cap one) \in Nat
    BY <2>1, FS_CardinalityType
  <2>3. /\ IsFiniteSet(Cents(g) \cup one)
        /\ Cardinality(Cents(g) \cup one) =
             Cardinality(Cents(g)) + Cardinality(one) - Cardinality(Cents(g) \cap one)
    BY <1>1, <1>2, FS_Union
  <2>4. QED
    BY <1>1, <1>2, <2>2, <2>3
<1>5. Cardinality(Cents(f)) <= Cardinality(Cents(g) \cup one)
  BY <1>3, <1>4, FS_Subset
<1>6. Cardinality(Cents(g) \cup one) \in Nat
  BY <1>4, FS_CardinalityType
<1>7. QED
  BY <1>1, <1>4, <1>5, <1>6

\* What counts against a ceiling: the bound while the row holds its liability, no
\* more than the bound or than what is accounted, nothing once attested.
LEMMA WithinFacts ==
  IInv => \A o \in Ops :
    /\ WithinBound(o) \in Nat /\ Accounted(o) \in Nat /\ ops[o].bound \in Nat
    /\ WithinBound(o) <= Accounted(o) /\ WithinBound(o) <= ops[o].bound
    /\ ops[o].state \in Held => WithinBound(o) = ops[o].bound
    /\ ops[o].state \in {"absent", "reconciled"} => WithinBound(o) = 0
<1> SUFFICES ASSUME IInv, NEW o \in Ops
             PROVE  /\ WithinBound(o) \in Nat /\ Accounted(o) \in Nat /\ ops[o].bound \in Nat
                    /\ WithinBound(o) <= Accounted(o) /\ WithinBound(o) <= ops[o].bound
                    /\ ops[o].state \in Held => WithinBound(o) = ops[o].bound
                    /\ ops[o].state \in {"absent", "reconciled"} => WithinBound(o) = 0
  OBVIOUS
<1>1. ops[o] \in OpRows /\ ledger[o].cost \in Nat
  BY DEF IInv, TypeInv, TypeOK
<1>2. ops[o].bound \in Nat /\ ops[o].liability \in Nat
  BY <1>1 DEF OpRows
<1>3. RowMoney(o)
  BY DEF IInv, PaidCallInv
<1>4. Accounted(o) \in Nat
  BY <1>1, <1>2 DEF Accounted, Counted
<1>5. CASE ops[o].state \in Held
  <2>1. ledger[o].cost = 0 /\ ops[o].liability >= ops[o].bound
    BY <1>2, <1>3, <1>5 DEF RowMoney, SettledRow, Held
  <2>2. Accounted(o) >= ops[o].bound
    BY <1>2, <1>5, <2>1 DEF Accounted, Counted
  <2>3. ops[o].state \notin {"absent", "reconciled"}
    BY <1>5 DEF Held
  <2>4. WithinBound(o) = ops[o].bound
    BY <1>2, <1>4, <2>2, <2>3 DEF WithinBound, Smaller
  <2>5. QED
    BY <1>2, <1>4, <2>2, <2>3, <2>4
<1>6. CASE ops[o].state \notin Held
  BY <1>2, <1>4, <1>6 DEF WithinBound, Smaller
<1>7. QED
  BY <1>5, <1>6

LEMMA WithinFactsNext ==
  (IInv => \A o \in Ops :
     /\ WithinBound(o) \in Nat /\ WithinBound(o) <= ops[o].bound
     /\ ops[o].state \in {"absent", "reconciled"} => WithinBound(o) = 0)'
<1>1. IInv => \A o \in Ops :
        /\ WithinBound(o) \in Nat /\ WithinBound(o) <= ops[o].bound
        /\ ops[o].state \in {"absent", "reconciled"} => WithinBound(o) = 0
  BY WithinFacts
<1>2. QED
  BY <1>1, PTL

\* No step but the reservation of a row makes it count for more.
LEMMA WithinStep ==
  ASSUME IInv, IInv', [Next]_vars, NEW o \in Ops, ~Created(o)
  PROVE  WithinBound(o)' <= WithinBound(o)
<1>1. /\ WithinBound(o) \in Nat
      /\ ops[o].state \in Held => WithinBound(o) = ops[o].bound
  BY WithinFacts
<1>3. /\ WithinBound(o)' \in Nat /\ WithinBound(o)' <= ops'[o].bound
      /\ ops'[o].state \in {"absent", "reconciled"} => WithinBound(o)' = 0
  BY WithinFactsNext
<1>4. CASE SameRow(o)
  <2>1. WithinBound(o)' = WithinBound(o)
    BY <1>4 DEF SameRow, WithinBound, Accounted, Counted
  <2>2. QED
    BY <1>1, <2>1
<1>5. CASE Moved(o)
  BY <1>1, <1>3, <1>5 DEF Moved, SameTerms
<1>6. CASE Decided(o)
  BY <1>1, <1>3, <1>6 DEF Decided
<1>7. QED
  BY <1>4, <1>5, <1>6, RowSteps DEF IInv, RowChange

\* A row is created by reserve, past both ceilings.
LEMMA CreatedBy ==
  ASSUME TypeInv, [Next]_vars, NEW o \in Ops, Created(o)
  PROVE  \E c \in Calls, t \in Times :
           /\ calls[c].bound \in Nat
           /\ RunAdmits(RunOf(o), calls[c].bound, calls[c].steers)
           /\ \A p \in At(t) : PeriodAdmits(p, calls[c].bound)
           /\ ops' = [ops EXCEPT ![o] = Reserved(c, t)]
           /\ UNCHANGED <<ledger, provisioned>>
<1>1. ops \in [Ops -> OpRows] /\ ops[o].state = "absent" /\ ops'[o].state = "reserved"
  BY DEF Created, TypeInv, TypeOK
<1>2. PICK c \in Calls : Reserve(c)
  <2>1. ~NoRow
    BY <1>1 DEF NoRow
  <2>2. ASSUME NEW q \in Ops, Reconcile(q) PROVE FALSE
    BY <1>1, <2>2 DEF Reconcile
  <2>3. ASSUME NEW c \in Calls, ClaimDispatch(c) PROVE FALSE
    BY <1>1, <2>3 DEF ClaimDispatch, MayDispatch, Owns
  <2>4. ASSUME NEW c \in Calls, Release(c) \/ MarkUncertain(c) \/ Settle(c) PROVE FALSE
    <3>1. CASE Release(c)
      BY <1>1, <3>1 DEF Release, Releasable
    <3>2. CASE MarkUncertain(c)
      BY <1>1, <3>2 DEF MarkUncertain
    <3>3. CASE Settle(c)
      BY <1>1, <3>3 DEF Settle, MaySettle
    <3>4. QED
      BY <2>4, <3>1, <3>2, <3>3
  <2>5. ASSUME NEW c \in Calls, LateResponse(c) \/ RetainFailed(c) PROVE FALSE
    <3>1. PICK q, l :
            /\ q \in Ops
            /\ \/ ops' = ops
               \/ ops' = [ops EXCEPT ![q].state = "uncertain", ![q].version = @ + 1,
                             ![q].issue = TRUE, ![q].liability = l]
      BY <2>5, OpOfCall DEF LateResponse, RetainFailed, Retain
    <3>2. q = o => ops' = ops \/ ops'[o] = [ops[o] EXCEPT !.state = "uncertain", !.version = @ + 1,
                                                       !.issue = TRUE, !.liability = l]
      BY <1>1, <3>1, Zenon
    <3>3. q # o => ops' = ops \/ ops'[o] = ops[o]
      BY <1>1, <3>1
    <3>4. ops[o] \in OpRows
      BY <1>1
    <3>5. QED
      BY <1>1, <3>2, <3>3, <3>4 DEF OpRows
  <2>6. ASSUME NEW c \in Calls,
               \/ Begin(c) \/ ReadRun(c) \/ ReadAccounting(c) \/ Refuse(c) \/ StopRun(c)
               \/ Invoke(c) \/ Responds(c) \/ RefusesUnpaid(c) \/ Fails(c)
               \/ SettleRead(c) \/ SettleFails(c) \/ Abandon(c)
        PROVE  FALSE
    BY <2>1, <2>6 DEF NoRow, Begin, ReadRun, ReadAccounting, Refuse, StopRun, Invoke, Responds,
      RefusesUnpaid, Fails, SettleRead, SettleFails, Abandon, dbVars
  <2>7. ASSUME \/ \E q \in Ops : Look(q)
               \/ \E p \in Periods : Provision(p)
               \/ \E r \in Runs : RunMovesOn(r) \/ LoseDate(r)
               \/ UNCHANGED vars
        PROVE  FALSE
    BY <2>1, <2>7 DEF NoRow, Look, Provision, RunMovesOn, LoseDate, vars, dbVars
  <2>8. QED
    BY <2>2, <2>3, <2>4, <2>5, <2>6, <2>7 DEF Next, Call, Operator
<1>3. calls[c].op \in Ops /\ calls[c].bound \in Nat
  BY <1>2 DEF Reserve, TypeInv, TypeOK, NamesItsOp
<1>4. PICK t \in Times :
        /\ RunAdmits(RunOf(calls[c].op), calls[c].bound, calls[c].steers)
        /\ \A p \in At(t) : PeriodAdmits(p, calls[c].bound)
        /\ ops' = [ops EXCEPT ![calls[c].op] = Reserved(c, t)]
        /\ ledger' = ledger
  BY <1>1, <1>2 DEF Reserve
<1>5. calls[c].op = o
  BY <1>1, <1>3, <1>4
<1>6. QED
  BY <1>2, <1>3, <1>4, <1>5 DEF Reserve

\* A reservation adds at most its bound to what was accounted before it, and
\* leaves every other row as it was.
LEMMA Reservation ==
  ASSUME IInv, IInv', NEW o \in Ops, NEW c \in Calls, NEW t \in Times, calls[c].bound \in Nat,
         ops' = [ops EXCEPT ![o] = Reserved(c, t)]
  PROVE  /\ WithinBound(o)' <= calls[c].bound
         /\ ops'[o].periods = At(t)
         /\ \A q \in Ops \ {o} : ops'[q] = ops[q] /\ ~Created(q)
<1>1. ops \in [Ops -> OpRows] /\ ops'[o] = Reserved(c, t)
  BY DEF IInv, TypeInv, TypeOK
<1>2. ops'[o].bound = calls[c].bound /\ ops'[o].periods = At(t)
  BY <1>1 DEF Reserved, NoOp
<1>4. WithinBound(o)' <= calls[c].bound
  BY <1>2, WithinFactsNext
<1>5. \A q \in Ops \ {o} : ops'[q] = ops[q] /\ ~Created(q)
  BY <1>1 DEF Created
<1>6. QED
  BY <1>2, <1>4, <1>5

LEMMA BudgetStep ==
  ASSUME IInv, IInv', RunWithinBudget, [Next]_vars
  PROVE  RunWithinBudget'
<1> SUFFICES ASSUME NEW r \in Runs
             PROVE  Opening[r] + Sum([o \in OpsOf(r) |-> WithinBound(o)'])
                      <= Larger(Opening[r], Budget[r])
  BY DEF RunWithinBudget
<1> DEFINE D == OpsOf(r)
           after == [o \in D |-> WithinBound(o)']
           before == [o \in D |-> WithinBound(o)]
           held == [o \in D |-> Accounted(o)]
<1>1. IsFiniteSet(D) /\ D \subseteq Ops
  BY FiniteAssumption, FS_Subset DEF OpsOf
<1>2. Opening[r] \in Nat /\ Budget[r] \in Nat
  BY MoneyAssumption
<1>3. \A o \in Ops : WithinBound(o)' \in Nat
  BY WithinFactsNext
<1>4. after \in [D -> Nat] /\ before \in [D -> Nat] /\ held \in [D -> Nat]
  BY <1>1, <1>3, WithinFacts
<1>5. Sum(after) \in Nat /\ Sum(before) \in Nat /\ Sum(held) \in Nat
  BY <1>1, <1>4, CentsFinite
<1>6. Opening[r] + Sum(before) <= Larger(Opening[r], Budget[r])
  BY DEF RunWithinBudget
<1>7. CASE \A o \in D : ~Created(o)
  <2>1. \A o \in D : after[o] <= before[o]
    BY <1>1, <1>7, WithinStep
  <2> HIDE DEF D, after, before
  <2>2. Sum(after) <= Sum(before)
    BY <1>1, <1>4, <2>1, SumGrows
  <2>3. Larger(Opening[r], Budget[r]) \in Nat
    BY <1>2 DEF Larger
  <2>4. Opening[r] + Sum(after) <= Larger(Opening[r], Budget[r])
    BY <1>2, <1>5, <1>6, <2>2, <2>3
  <2>5. QED
    BY <2>4 DEF D, after
<1>8. CASE \E o \in D : Created(o)
  <2>1. PICK o \in D : Created(o)
    BY <1>8
  <2>2. o \in Ops /\ RunOf(o) = r
    BY DEF OpsOf
  <2>3. PICK c \in Calls, t \in Times :
           /\ calls[c].bound \in Nat
           /\ RunAdmits(r, calls[c].bound, calls[c].steers)
           /\ ops' = [ops EXCEPT ![o] = Reserved(c, t)]
    BY <2>1, <2>2, CreatedBy DEF IInv
  <2> DEFINE b == calls[c].bound
  <2>4. WithinBound(o)' <= b /\ \A q \in Ops \ {o} : ~Created(q)
    BY <2>2, <2>3, Reservation
  <2>5. \A q \in D : IF q = o THEN after[q] <= b ELSE q \in D /\ after[q] <= held[q]
    <3>1. SUFFICES ASSUME NEW q \in D, q # o PROVE after[q] <= held[q]
      BY <2>4
    <3>2. q \in Ops /\ ~Created(q)
      BY <1>1, <2>4, <3>1
    <3>3. WithinBound(q)' <= WithinBound(q)
      BY <3>2, WithinStep
    <3>4. WithinBound(q) \in Nat /\ Accounted(q) \in Nat /\ WithinBound(q) <= Accounted(q)
      BY <3>2, WithinFacts
    <3>5. WithinBound(q)' \in Nat
      BY <1>3, <3>2
    <3>6. QED
      BY <3>3, <3>4, <3>5
  <2>6. Opening[r] + Sum(held) + b <= Budget[r]
    BY <2>3 DEF RunAdmits, RunTotal, Total, Accounted
  <2> HIDE DEF D, after, held, b
  <2>7. b \in Nat
    BY <2>3 DEF b
  <2>8. Sum(after) <= Sum(held) + b
    BY <1>1, <1>4, <2>5, <2>7, SumAdds
  <2>9. Opening[r] + Sum(after) <= Budget[r]
    BY <1>2, <1>5, <2>6, <2>7, <2>8
  <2>10. Opening[r] + Sum(after) <= Larger(Opening[r], Budget[r])
    BY <1>2, <1>5, <2>9 DEF Larger
  <2>11. QED
    BY <2>10 DEF D, after
<1>9. QED
  BY <1>7, <1>8

\* Whatever calls race past the first look at the ceiling: what a Run holds and
\* books, within the reviewed bounds, never exceeds its budget.
THEOREM RunWithinBudgetHolds == Spec => []RunWithinBudget
<1>1. Init => RunWithinBudget
  <2> SUFFICES ASSUME Init, NEW r \in Runs
               PROVE  Opening[r] + Sum([o \in OpsOf(r) |-> WithinBound(o)])
                        <= Larger(Opening[r], Budget[r])
    BY DEF RunWithinBudget
  <2> DEFINE zero == [o \in OpsOf(r) |-> WithinBound(o)]
  <2>1. \A o \in OpsOf(r) : WithinBound(o) = 0
    BY DEF Init, WithinBound, OpsOf, NoOp
  <2>2. Sum(zero) = 0
    <3>1. Cents(zero) = {}
      BY <2>1 DEF Cents
    <3>2. QED
      BY <3>1, FS_EmptySet DEF Sum
  <2>3. Opening[r] \in Nat /\ Budget[r] \in Nat
    BY MoneyAssumption
  <2>4. QED
    BY <2>2, <2>3 DEF Larger
<1>2. IInv /\ IInv' /\ RunWithinBudget /\ [Next]_vars => RunWithinBudget'
  BY BudgetStep
<1>3. QED
  BY <1>1, <1>2, IInvHolds, PTL DEF Spec

\* A row is attributed to periods that were provisioned when it was created.
Attributed ==
  \A o \in Ops : /\ ops[o].periods \subseteq provisioned
                 /\ ops[o].state = "absent" => ops[o].periods = {}
PeriodInv == PeriodWithinCap /\ Attributed

LEMMA ProvisionedStep ==
  ASSUME [Next]_vars
  PROVE  UNCHANGED provisioned
           \/ \E p \in Periods : Provision(p)
<1>1. ASSUME NEW c \in Calls, Begin(c) \/ Call(c) \/ LateResponse(c) \/ Abandon(c)
      PROVE  UNCHANGED provisioned
  <2>1. CASE \/ Begin(c) \/ ReadRun(c) \/ ReadAccounting(c) \/ Refuse(c) \/ Invoke(c)
             \/ Responds(c) \/ RefusesUnpaid(c) \/ Fails(c) \/ SettleRead(c)
             \/ SettleFails(c) \/ Abandon(c)
    BY <2>1 DEF Begin, ReadRun, ReadAccounting, Refuse, Invoke, Responds,
      RefusesUnpaid, Fails, SettleRead, SettleFails, Abandon, dbVars
  <2>2. CASE \/ StopRun(c) \/ Reserve(c) \/ ClaimDispatch(c) \/ Release(c)
             \/ MarkUncertain(c) \/ Settle(c) \/ LateResponse(c) \/ RetainFailed(c)
    BY <2>2 DEF StopRun, Reserve, ClaimDispatch, Release, MarkUncertain, Settle,
      LateResponse, RetainFailed
  <2>3. QED
    BY <1>1, <2>1, <2>2 DEF Call
<1>2. ASSUME \/ \E o \in Ops : Operator(o)
             \/ \E r \in Runs : RunMovesOn(r) \/ LoseDate(r)
             \/ UNCHANGED vars
      PROVE  UNCHANGED provisioned
  BY <1>2 DEF Operator, Look, Reconcile, RunMovesOn, LoseDate, vars, dbVars
<1>3. QED
  BY <1>1, <1>2 DEF Next

\* The terms of a row that exists never change, and no row exists unattributed.
LEMMA TermsStep ==
  ASSUME TypeInv, Attributed, [Next]_vars, NEW o \in Ops, ~Created(o)
  PROVE  ops'[o].periods = ops[o].periods
BY RowSteps DEF SameRow, RowChange, Moved, Decided, SameTerms

LEMMA AttributedStep ==
  ASSUME TypeInv, Attributed, [Next]_vars
  PROVE  Attributed'
<1> SUFFICES ASSUME NEW o \in Ops
             PROVE  /\ ops'[o].periods \subseteq provisioned'
                    /\ ops'[o].state = "absent" => ops'[o].periods = {}
  BY DEF Attributed
<1>1. provisioned \subseteq provisioned'
  BY ProvisionedStep DEF Provision
<1>2. CASE Created(o)
  <2>1. PICK c \in Calls, t \in Times : /\ ops' = [ops EXCEPT ![o] = Reserved(c, t)]
                                        /\ UNCHANGED provisioned
    BY <1>2, CreatedBy
  <2>2. ops'[o].periods = At(t) /\ ops'[o].state = "reserved"
    BY <2>1 DEF Reserved, NoOp, TypeInv, TypeOK
  <2>3. QED
    BY <2>1, <2>2 DEF At
<1>3. CASE ~Created(o)
  <2>1. ops'[o].periods = ops[o].periods
    BY <1>3, TermsStep
  <2>2. ops'[o].state = "absent" => ops[o].state = "absent"
    BY <1>3, RowSteps DEF SameRow, RowChange, Moved, Decided, Held
  <2>3. QED
    BY <1>1, <2>1, <2>2 DEF Attributed
<1>4. QED
  BY <1>2, <1>3

LEMMA CapStep ==
  ASSUME IInv, IInv', PeriodInv, [Next]_vars
  PROVE  PeriodWithinCap'
<1> SUFFICES ASSUME NEW p \in provisioned'
             PROVE  Sum([o \in {q \in Ops : p \in ops'[q].periods} |-> WithinBound(o)'])
                      <= Cap[p]
  BY DEF PeriodWithinCap
<1> DEFINE D == {q \in Ops : p \in ops[q].periods}
           E == {q \in Ops : p \in ops'[q].periods}
           after == [o \in E |-> WithinBound(o)']
           before == [o \in D |-> WithinBound(o)]
           held == [o \in PeriodOps(p) |-> Accounted(o)]
<1>1. /\ IsFiniteSet(D) /\ IsFiniteSet(E) /\ IsFiniteSet(PeriodOps(p))
      /\ D \subseteq Ops /\ E \subseteq Ops /\ PeriodOps(p) \subseteq Ops
  BY FiniteAssumption, FS_Subset DEF PeriodOps
<1>2. p \in Periods /\ Cap[p] \in Nat
  BY MoneyAssumption DEF IInv, TypeInv, TypeOK
<1>3. \A o \in Ops : WithinBound(o)' \in Nat
  BY WithinFactsNext
<1>4. after \in [E -> Nat] /\ before \in [D -> Nat] /\ held \in [PeriodOps(p) -> Nat]
  BY <1>1, <1>3, WithinFacts
<1>5. Sum(after) \in Nat /\ Sum(before) \in Nat /\ Sum(held) \in Nat
  BY <1>1, <1>4, CentsFinite
<1>6. CASE p \notin provisioned
  <2>1. Provision(p)
    BY <1>6, ProvisionedStep DEF Provision
  <2>2. E = {}
    BY <1>6, <2>1 DEF Provision, PeriodInv, Attributed
  <2>3. Sum(after) = 0
    <3>1. Cents(after) = {}
      BY <2>2 DEF Cents
    <3>2. QED
      BY <3>1, FS_EmptySet DEF Sum
  <2>4. QED
    BY <1>2, <2>3
<1>7. CASE p \in provisioned /\ \A o \in E : ~Created(o)
  <2>1. E \subseteq D
    BY <1>7, TermsStep DEF IInv, PeriodInv
  <2>2. \A o \in E : after[o] <= before[o]
    BY <1>1, <1>7, <2>1, WithinStep
  <2>3. Sum(before) <= Cap[p]
    BY <1>7 DEF PeriodInv, PeriodWithinCap
  <2> HIDE DEF D, E, after, before
  <2>4. Sum(after) <= Sum(before)
    BY <1>1, <1>4, <2>1, <2>2, SumGrows
  <2>5. Sum(after) <= Cap[p]
    BY <1>2, <1>5, <2>3, <2>4
  <2>6. QED
    BY <2>5 DEF E, after
<1>8. CASE p \in provisioned /\ \E o \in E : Created(o)
  <2>1. PICK o \in E : Created(o)
    BY <1>8
  <2>2. PICK c \in Calls, t \in Times :
           /\ calls[c].bound \in Nat
           /\ \A q \in At(t) : PeriodAdmits(q, calls[c].bound)
           /\ ops' = [ops EXCEPT ![o] = Reserved(c, t)]
    BY <1>1, <2>1, CreatedBy DEF IInv
  <2> DEFINE b == calls[c].bound
  <2>3. /\ WithinBound(o)' <= b /\ ops'[o].periods = At(t)
        /\ \A q \in Ops \ {o} : ops'[q] = ops[q] /\ ~Created(q)
    BY <1>1, <2>2, Reservation
  <2>4. PeriodTotal(p) + b <= Cap[p]
    BY <2>2, <2>3 DEF PeriodAdmits
  <2>5. \A q \in E : IF q = o THEN after[q] <= b
                     ELSE q \in PeriodOps(p) /\ after[q] <= held[q]
    <3>1. SUFFICES ASSUME NEW q \in E, q # o
                   PROVE  q \in PeriodOps(p) /\ after[q] <= held[q]
      BY <2>3
    <3>2. q \in Ops /\ ~Created(q) /\ p \in ops[q].periods
      BY <1>1, <2>3, <3>1
    <3>3. q \in PeriodOps(p)
      BY <3>2 DEF PeriodOps, InPeriod, Exists, PeriodInv, Attributed
    <3>4. WithinBound(q)' <= WithinBound(q)
      BY <3>2, WithinStep
    <3>5. WithinBound(q) \in Nat /\ Accounted(q) \in Nat /\ WithinBound(q) <= Accounted(q)
      BY <3>2, WithinFacts
    <3>6. WithinBound(q)' \in Nat
      BY <1>3, <3>2
    <3>7. QED
      BY <3>3, <3>4, <3>5, <3>6
  <2>6. Sum(held) + b <= Cap[p]
    BY <2>4 DEF PeriodTotal
  <2> HIDE DEF D, E, after, held, b
  <2>7. b \in Nat
    BY <2>2 DEF b
  <2>8. Sum(after) <= Sum(held) + b
    BY <1>1, <1>4, <2>5, <2>7, SumAdds
  <2>9. Sum(after) <= Cap[p]
    BY <1>2, <1>5, <2>6, <2>7, <2>8
  <2>10. QED
    BY <2>9 DEF E, after
<1>9. QED
  BY <1>6, <1>7, <1>8

\* The same for a period and the operations that were admitted under it, also when
\* it is provisioned while calls are under way.
THEOREM PeriodWithinCapHolds == Spec => []PeriodWithinCap
<1>1. Init => PeriodInv
  <2> SUFFICES ASSUME Init PROVE PeriodInv
    OBVIOUS
  <2>1. Attributed
    BY DEF Init, Attributed, NoOp
  <2>2. ASSUME NEW p \in provisioned
        PROVE  Sum([o \in {q \in Ops : p \in ops[q].periods} |-> WithinBound(o)]) <= Cap[p]
    <3> DEFINE zero == [o \in {q \in Ops : p \in ops[q].periods} |-> WithinBound(o)]
    <3>1. {q \in Ops : p \in ops[q].periods} = {}
      BY DEF Init, NoOp
    <3>2. Cents(zero) = {}
      BY <3>1 DEF Cents
    <3>3. Sum(zero) = 0
      BY <3>2, FS_EmptySet DEF Sum
    <3>4. Cap[p] \in Nat
      BY MoneyAssumption DEF Init
    <3>5. QED
      BY <3>3, <3>4
  <2>3. QED
    BY <2>1, <2>2 DEF PeriodInv, PeriodWithinCap
<1>2. IInv /\ IInv' /\ PeriodInv /\ [Next]_vars => PeriodInv'
  BY CapStep, AttributedStep DEF PeriodInv, IInv
<1>3. PeriodInv => PeriodWithinCap
  BY DEF PeriodInv
<1>4. QED
  BY <1>1, <1>2, <1>3, IInvHolds, PTL DEF Spec
=============================================================================
