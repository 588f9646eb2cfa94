------------------------ MODULE ApprovalGate_proofs ------------------------
(***************************************************************************)
(* Theorems about the approval gate, for any Runs, Drafts, handlers, passes *)
(* and revisers, and any record.                                            *)
(***************************************************************************)
EXTENDS ApprovalGate, TLAPS

LEMMA DraftParts ==
  /\ \A d \in Drafts : /\ d[1] \in Roots /\ d[2] \in 0 .. MaxRevisions
                       /\ d = <<d[1], d[2]>> /\ RunOf(d) \in Runs
  /\ \A root \in Roots, n \in 0 .. MaxRevisions : <<root, n>> \in Drafts
  /\ \A d \in Drafts : d[2] < MaxRevisions => Child(d) \in Drafts /\ Child(d) # d
<1>1. \A d \in Drafts : /\ d[1] \in Roots /\ d[2] \in 0 .. MaxRevisions
                        /\ d = <<d[1], d[2]>> /\ RunOf(d) \in Runs
  <2> TAKE d \in Drafts
  <2>1. PICK root \in Roots, n \in 0 .. MaxRevisions : d = <<root, n>>
    BY DEF Drafts
  <2> QED BY <2>1, GateRuns DEF RunOf
<1>2. \A root \in Roots, n \in 0 .. MaxRevisions : <<root, n>> \in Drafts
  BY DEF Drafts
<1>3. ASSUME NEW d \in Drafts, d[2] < MaxRevisions
      PROVE  Child(d) \in Drafts /\ Child(d) # d
  <2>1. d[2] + 1 \in 0 .. MaxRevisions /\ d[2] + 1 # d[2]
    BY <1>1, <1>3, GateBounds
  <2> QED BY <1>1, <1>2, <2>1 DEF Child
<1> QED BY <1>1, <1>2, <1>3

-----------------------------------------------------------------------------
(* Types. Whoever is at work has a Draft at hand.                           *)

DeciderRecord ==
  [pc : {"idle", "read", "commit"}, draft : Drafts \cup {None},
   action : {"approve", "reject"}, accepted : SUBSET Cells,
   shown : Row \cup {None}, snap : Row \cup {None}]
PassRecord ==
  [pc : {"idle", "list", "next", "deciding", "receipt"}, run : Runs \cup {None},
   approve : SUBSET Drafts, escalate : SUBSET Drafts, unhealed : SUBSET Drafts,
   draft : Drafts \cup {None}]
ReviserRecord ==
  [pc : {"idle", "insert", "evaluate", "enforce", "receipt"},
   draft : Drafts \cup {None}]
Receipts == (Kinds \X Drafts) \cup ({"run.completed"} \X Runs)
RowsTypeOK ==
  /\ status \in [Runs -> RunStatus]
  /\ draft \in [Drafts -> Row]
  /\ receipts \subseteq Receipts
  /\ validated \in [Drafts -> {"none", "approve", "escalate"}]
  /\ record \in [Cells -> Values]
DeciderBusy(rec) ==
  /\ rec.pc # "idle" => rec.draft \in Drafts /\ rec.shown \in Row
  /\ rec.pc = "commit" => rec.snap \in Row
PassBusy(rec, decider) ==
  /\ rec.pc # "idle" => rec.run \in Runs
  /\ rec.pc \in {"deciding", "receipt"} => rec.draft \in Drafts
  /\ decider.pc # "idle" => rec.pc = "deciding"
ReviserBusy(rec) ==
  /\ rec.pc # "idle" => rec.draft \in Drafts
  /\ rec.pc = "insert" => rec.draft[2] < MaxRevisions
ActorsTypeOK ==
  /\ ds \in [Deciders -> DeciderRecord]
  /\ ps \in [Passes -> PassRecord]
  /\ vs \in [Revisers -> ReviserRecord]
  /\ \A x \in Deciders : DeciderBusy(ds[x])
  /\ \A p \in Passes : PassBusy(ps[p], ds[p])
  /\ \A v \in Revisers : ReviserBusy(vs[v])
TypeInv == RowsTypeOK /\ ActorsTypeOK

LEMMA TypeInvTypes == TypeInv => GateTypeOK
BY DEF TypeInv, RowsTypeOK, ActorsTypeOK, GateTypeOK, DeciderRecord, PassRecord,
       ReviserRecord, Receipts

LEMMA IdleTypes ==
  /\ IdleDecider \in DeciderRecord /\ DeciderBusy(IdleDecider)
  /\ IdlePass \in PassRecord
  /\ IdleReviser \in ReviserRecord /\ ReviserBusy(IdleReviser)
BY DEF IdleDecider, IdlePass, IdleReviser, DeciderRecord, PassRecord, ReviserRecord,
       DeciderBusy, ReviserBusy

LEMMA FreshRowType == \A diff \in Proposals, b \in BOOLEAN :
                        [FreshRow(diff) EXCEPT !.exists = b] \in Row
BY DEF FreshRow, Row, Verdicts, Outcomes

LEMMA InitTypeInv == Init => TypeInv
<1> SUFFICES ASSUME Init PROVE TypeInv
  OBVIOUS
<1>1. RowsTypeOK
  <2>1. draft \in [Drafts -> Row]
    <3>1. PICK packaged \in SUBSET Roots, diff \in [Roots -> Proposals] :
             draft = [d \in Drafts |->
               [FreshRow(diff[d[1]]) EXCEPT !.exists = d[1] \in packaged /\ d[2] = 0]]
      BY DEF Init
    <3>2. \A d \in Drafts : diff[d[1]] \in Proposals /\ (d[1] \in packaged /\ d[2] = 0) \in BOOLEAN
      BY DraftParts
    <3> QED BY <3>1, <3>2, FreshRowType
  <2> QED BY <2>1, GateRecord DEF Init, RowsTypeOK, RunStatus, Receipts
<1>2. ActorsTypeOK
  BY IdleTypes DEF Init, ActorsTypeOK, PassBusy, Deciders, IdlePass, IdleDecider
<1> QED BY <1>1, <1>2 DEF TypeInv

\* What replaces one execution.
LEMMA SetDecider ==
  ASSUME ActorsTypeOK, NEW x \in Deciders, NEW rec \in DeciderRecord, DeciderBusy(rec),
         x \in Passes /\ rec.pc # "idle" => ps[x].pc = "deciding",
         ds' = [ds EXCEPT ![x] = rec], UNCHANGED <<ps, vs>>
  PROVE  ActorsTypeOK'
BY DEF ActorsTypeOK, PassBusy, ReviserBusy, DeciderBusy, Deciders
LEMMA SetPassType ==
  ASSUME ActorsTypeOK, NEW p \in Passes, NEW rec \in PassRecord, PassBusy(rec, ds[p]),
         ps' = [ps EXCEPT ![p] = rec], UNCHANGED <<ds, vs>>
  PROVE  ActorsTypeOK'
BY DEF ActorsTypeOK, PassBusy, ReviserBusy, DeciderBusy, Deciders
LEMMA SetReviser ==
  ASSUME ActorsTypeOK, NEW v \in Revisers, NEW rec \in ReviserRecord, ReviserBusy(rec),
         vs' = [vs EXCEPT ![v] = rec], UNCHANGED <<ds, ps>>
  PROVE  ActorsTypeOK'
BY DEF ActorsTypeOK, PassBusy, ReviserBusy, DeciderBusy, Deciders
LEMMA SetBoth ==
  ASSUME ActorsTypeOK, NEW p \in Passes, NEW rec \in PassRecord,
         NEW decider \in DeciderRecord, DeciderBusy(decider), PassBusy(rec, decider),
         ps' = [ps EXCEPT ![p] = rec], ds' = [ds EXCEPT ![p] = decider], UNCHANGED vs
  PROVE  ActorsTypeOK'
BY DEF ActorsTypeOK, PassBusy, ReviserBusy, DeciderBusy, Deciders
LEMMA ActorsRest ==
  ASSUME ActorsTypeOK, UNCHANGED <<ds, ps, vs>>
  PROVE  ActorsTypeOK'
BY DEF ActorsTypeOK, PassBusy, ReviserBusy, DeciderBusy
LEMMA RowsRest ==
  ASSUME RowsTypeOK, UNCHANGED dbVars
  PROVE  RowsTypeOK'
BY DEF RowsTypeOK, dbVars

LEMMA AnswerType ==
  ASSUME ActorsTypeOK, NEW x \in Deciders, NEW approved \in BOOLEAN,
         ds[x].pc # "idle", Answer(x, approved), UNCHANGED vs
  PROVE  ActorsTypeOK'
<1>1. CASE x \notin Passes
  BY <1>1, IdleTypes, SetDecider DEF Answer
<1>2. CASE x \in Passes
  <2> DEFINE rec == [ps[x] EXCEPT !.pc = IF approved THEN "receipt" ELSE "next"]
  <2>1. rec \in PassRecord /\ PassBusy(rec, IdleDecider)
    BY <1>2 DEF ActorsTypeOK, PassRecord, PassBusy, IdleDecider
  <2>2. ps' = [ps EXCEPT ![x] = rec] /\ ds' = [ds EXCEPT ![x] = IdleDecider]
    BY <1>2 DEF Answer, ActorsTypeOK, PassRecord
  <2> QED BY <1>2, <2>1, <2>2, SetBoth, IdleTypes
<1> QED BY <1>1, <1>2
-----------------------------------------------------------------------------
(* The four ways a Draft's row changes: it is evaluated, decided, rejected  *)
(* with its Run, or inserted as a revision.                                 *)

SameBut(d) == \A e \in Drafts \ {d} : draft'[e] = draft[e]
EvaluationType == [diff : Proposals, verdict : Verdicts]

LEMMA EvaluationsType ==
  \A d \in Drafts : \A e \in Evaluations[d[1]] : e \in EvaluationType
BY GateEvaluations, DraftParts DEF EvaluationType

LEMMA PersistRow ==
  ASSUME RowsTypeOK, NEW d \in Drafts, NEW e \in EvaluationType, Persist(d, e)
  PROVE  /\ draft' \in [Drafts -> Row] /\ SameBut(d)
         /\ draft[d].exists /\ draft[d].outcome = "none" /\ draft[d].eval = "none"
         /\ draft'[d].exists /\ draft'[d].outcome = "none"
         /\ draft'[d].by = draft[d].by
         /\ draft'[d].diff = e.diff /\ draft'[d].eval = e.verdict
         /\ draft'[d].eval # "none"
<1> DEFINE row == [draft[d] EXCEPT !.diff = e.diff, !.eval = e.verdict]
<1>1. draft[d] \in Row /\ draft \in [Drafts -> Row]
  BY DEF RowsTypeOK
<1>2. e.diff \in Proposals /\ e.verdict \in Verdicts
  BY DEF EvaluationType
<1>3. row \in Row /\ row.exists = draft[d].exists /\ row.outcome = draft[d].outcome
        /\ row.by = draft[d].by /\ row.diff = e.diff /\ row.eval = e.verdict
  BY <1>1, <1>2 DEF Row
<1>4. draft' = [draft EXCEPT ![d] = row]
  BY <1>1 DEF Persist, Row
<1> HIDE DEF row
<1> QED BY <1>1, <1>2, <1>3, <1>4 DEF Persist, Undecided, SameBut, Verdicts

LEMMA CommitRow ==
  ASSUME RowsTypeOK, NEW d \in Drafts, NEW x \in Deciders, ds[x].draft = d,
         ds[x].action \in {"approve", "reject"},
         draft' = AfterDecision(x)
  PROVE  /\ draft' \in [Drafts -> Row] /\ SameBut(d)
         /\ draft'[d].outcome = Outcome(ds[x].action) /\ draft'[d].by = By(x)
         /\ draft'[d].exists = draft[d].exists
         /\ draft'[d].diff = draft[d].diff /\ draft'[d].eval = draft[d].eval
<1> DEFINE row == [draft[d] EXCEPT !.outcome = Outcome(ds[x].action), !.by = By(x)]
<1>1. draft[d] \in Row /\ draft \in [Drafts -> Row]
  BY DEF RowsTypeOK
<1>2. Outcome(ds[x].action) \in Outcomes /\ By(x) \in {"nobody", "operator", "agent"}
  BY DEF Outcome, By, Outcomes
<1>3. row \in Row /\ row.exists = draft[d].exists
        /\ row.outcome = Outcome(ds[x].action) /\ row.by = By(x)
        /\ row.diff = draft[d].diff /\ row.eval = draft[d].eval
  BY <1>1, <1>2 DEF Row
<1>4. draft' = [draft EXCEPT ![d] = row]
  BY <1>1 DEF AfterDecision, Row
<1> HIDE DEF row
<1> QED BY <1>1, <1>2, <1>3, <1>4 DEF SameBut

LEMMA RejectRunRows ==
  ASSUME RowsTypeOK, NEW r \in Runs, draft' = WithRun(r)
  PROVE  /\ draft' \in [Drafts -> Row]
         /\ \A d \in Drafts \ OpenHeads(draft, r) : draft'[d] = draft[d]
         /\ \A d \in OpenHeads(draft, r) :
              /\ draft'[d].outcome = "withRun" /\ draft'[d].by = "operator"
              /\ draft'[d].exists = draft[d].exists
              /\ draft'[d].diff = draft[d].diff /\ draft'[d].eval = draft[d].eval
<1> DEFINE row(d) == [draft[d] EXCEPT !.outcome = "withRun", !.by = "operator"]
<1>1. draft \in [Drafts -> Row] /\ OpenHeads(draft, r) \subseteq Drafts
  BY DEF RowsTypeOK, OpenHeads, DraftsOf
<1>2. \A d \in Drafts :
        /\ row(d) \in Row /\ row(d).exists = draft[d].exists
        /\ row(d).outcome = "withRun" /\ row(d).by = "operator"
        /\ row(d).diff = draft[d].diff /\ row(d).eval = draft[d].eval
  BY <1>1 DEF Row, Outcomes
<1>3. draft' = [d \in Drafts |-> IF d \in OpenHeads(draft, r) THEN row(d) ELSE draft[d]]
  BY DEF WithRun
<1> HIDE DEF row
<1> QED BY <1>1, <1>2, <1>3

LEMMA InsertRow ==
  ASSUME RowsTypeOK, NEW d \in Drafts, NEW c \in Drafts,
         draft' = [draft EXCEPT ![c] = [@ EXCEPT !.exists = TRUE, !.diff = draft[d].diff]]
  PROVE  /\ draft' \in [Drafts -> Row] /\ SameBut(c)
         /\ draft'[c].exists /\ draft'[c].diff = draft[d].diff
         /\ draft'[c].eval = draft[c].eval /\ draft'[c].outcome = draft[c].outcome
         /\ draft'[c].by = draft[c].by
<1> DEFINE row == [draft[c] EXCEPT !.exists = TRUE, !.diff = draft[d].diff]
<1>1. draft[c] \in Row /\ draft[d] \in Row /\ draft \in [Drafts -> Row]
  BY DEF RowsTypeOK
<1>2. row \in Row /\ row.exists = TRUE /\ row.diff = draft[d].diff
        /\ row.outcome = draft[c].outcome /\ row.by = draft[c].by
        /\ row.eval = draft[c].eval
  BY <1>1 DEF Row
<1>3. draft' = [draft EXCEPT ![c] = row]
  BY <1>1
<1> HIDE DEF row
<1> QED BY <1>1, <1>2, <1>3 DEF SameBut
-----------------------------------------------------------------------------
LEMMA FinalizeType ==
  ASSUME RowsTypeOK, NEW r \in Runs, NEW table \in [Drafts -> Row], NEW more,
         more \subseteq Receipts, Finalize(table, r, more), UNCHANGED validated,
         record' \in [Cells -> Values]
  PROVE  RowsTypeOK'
<1>1. FinalStatus(table, r) \in RunStatus
  BY DEF FinalStatus, RowsTypeOK, RunStatus
<1>2. Completion(table, r) \subseteq Receipts
  BY DEF Completion, Receipts
<1> QED BY <1>1, <1>2 DEF Finalize, RowsTypeOK

LEMMA AppliedType ==
  ASSUME record \in [Cells -> Values], NEW diff \in Proposals, NEW accepted
  PROVE  Applied(diff, accepted) \in [Cells -> Values]
<1>1. diff.to \in [Cells -> Values]
  BY GateProposals DEF Proposal
<1> QED BY <1>1 DEF Applied

LEMMA DecideTypes ==
  ASSUME TypeInv
  PROVE  /\ \A h \in Handlers, d \in Drafts, action \in {"approve", "reject"} :
              \A accepted \in SUBSET draft[d].diff.optional :
                Choose(h, d, action, accepted) => TypeInv'
         /\ \A x \in Deciders : ReadDraft(x) \/ Commit(x) \/ Conflict(x) => TypeInv'
         /\ \A r \in Runs : RejectRun(r) => TypeInv'
         /\ \A h \in Handlers : EvictDecider(h) => TypeInv'
<1>0. RowsTypeOK /\ ActorsTypeOK
  BY DEF TypeInv
<1>1. ASSUME NEW h \in Handlers, NEW d \in Drafts, NEW action \in {"approve", "reject"},
             NEW accepted \in SUBSET draft[d].diff.optional, Choose(h, d, action, accepted)
      PROVE  TypeInv'
  <2> DEFINE rec == [pc |-> "read", draft |-> d, action |-> action,
                     accepted |-> accepted, shown |-> draft[d], snap |-> None]
  <2>1. h \in Deciders /\ h \notin Passes
    BY GateActors DEF Deciders
  <2>2. draft[d] \in Row /\ draft[d].diff.optional \subseteq Cells
    BY <1>0, GateProposals DEF RowsTypeOK, Row, Proposal
  <2>3. rec \in DeciderRecord /\ DeciderBusy(rec)
    BY <2>2 DEF DeciderRecord, DeciderBusy
  <2>4. ds' = [ds EXCEPT ![h] = rec] /\ UNCHANGED <<dbVars, ps, vs>>
    BY <1>1 DEF Choose
  <2> HIDE DEF rec
  <2>5. ActorsTypeOK'
    BY <1>0, <2>1, <2>3, <2>4, SetDecider
  <2> QED BY <1>0, <2>4, <2>5, RowsRest DEF TypeInv
<1>2. ASSUME NEW x \in Deciders, ReadDraft(x) PROVE TypeInv'
  <2> DEFINE d == ds[x].draft
  <2>1. /\ ds[x] \in DeciderRecord /\ DeciderBusy(ds[x]) /\ ds[x].pc = "read"
        /\ d \in Drafts /\ draft[d] \in Row
    BY <1>0, <1>2 DEF ActorsTypeOK, RowsTypeOK, ReadDraft, DeciderBusy
  <2>2. UNCHANGED <<dbVars, vs>>
    BY <1>2 DEF ReadDraft
  <2>3. CASE ReadyHead(d)
    <3> DEFINE rec == [ds[x] EXCEPT !.pc = "commit", !.snap = draft[d]]
    <3>1. rec \in DeciderRecord /\ DeciderBusy(rec)
      BY <2>1 DEF DeciderRecord, DeciderBusy
    <3>2. ds' = [ds EXCEPT ![x] = rec] /\ UNCHANGED ps
      BY <1>0, <1>2, <2>3 DEF ReadDraft, ActorsTypeOK, DeciderRecord
    <3>3. x \in Passes => ps[x].pc = "deciding"
      BY <1>0, <2>1 DEF ActorsTypeOK, PassBusy
    <3> HIDE DEF rec
    <3>4. ActorsTypeOK'
      BY <1>0, <2>2, <3>1, <3>2, <3>3, SetDecider
    <3> QED BY <1>0, <2>2, <3>4, RowsRest DEF TypeInv
  <2>4. CASE ~ReadyHead(d)
    <3>1. Answer(x, AgentApproved(d)) /\ AgentApproved(d) \in BOOLEAN
      BY <1>2, <2>4 DEF ReadDraft, AgentApproved
    <3>2. ActorsTypeOK'
      BY <1>0, <2>1, <2>2, <3>1, AnswerType
    <3> QED BY <1>0, <2>2, <3>2, RowsRest DEF TypeInv
  <2> QED BY <2>3, <2>4
<1>3. ASSUME NEW x \in Deciders, Commit(x) PROVE TypeInv'
  <2> DEFINE d == ds[x].draft
  <2>1. /\ ds[x] \in DeciderRecord /\ DeciderBusy(ds[x]) /\ ds[x].pc = "commit"
        /\ d \in Drafts /\ ds[x].snap \in Row /\ RunOf(d) \in Runs
    BY <1>0, <1>3, DraftParts DEF ActorsTypeOK, Commit, DeciderBusy
  <2>2. ActorsTypeOK'
    BY <1>0, <1>3, <2>1, AnswerType DEF Commit
  <2>3. Finalize(AfterDecision(x), RunOf(d), {<<"gate.decided", d>>}) /\ UNCHANGED validated
    BY <1>3 DEF Commit
  <2>4. draft' = AfterDecision(x) /\ ds[x].action \in {"approve", "reject"}
    BY <2>1, <2>3 DEF Finalize, DeciderRecord
  <2>5. AfterDecision(x) \in [Drafts -> Row]
    BY <1>0, <2>1, <2>4, CommitRow
  <2>6. record' \in [Cells -> Values]
    <3>1. ds[x].snap.diff \in Proposals /\ record \in [Cells -> Values]
      BY <1>0, <2>1 DEF Row, RowsTypeOK
    <3> QED BY <1>3, <3>1, AppliedType DEF Commit
  <2>7. {<<"gate.decided", d>>} \subseteq Receipts
    BY <2>1 DEF Receipts, Kinds
  <2>8. RowsTypeOK'
    BY <1>0, <2>1, <2>3, <2>5, <2>6, <2>7, FinalizeType
  <2> QED BY <2>2, <2>8 DEF TypeInv
<1>4. ASSUME NEW x \in Deciders, Conflict(x) PROVE TypeInv'
  <2>1. ds[x].pc # "idle" /\ Answer(x, FALSE) /\ UNCHANGED <<dbVars, vs>>
    BY <1>4 DEF Conflict
  <2>2. ActorsTypeOK'
    BY <1>0, <2>1, AnswerType
  <2> QED BY <1>0, <2>1, <2>2, RowsRest DEF TypeInv
<1>5. ASSUME NEW r \in Runs, RejectRun(r) PROVE TypeInv'
  <2>1. Finalize(WithRun(r), r, {}) /\ UNCHANGED <<validated, record, ds, ps, vs>>
    BY <1>5 DEF RejectRun
  <2>2. draft' = WithRun(r)
    BY <2>1 DEF Finalize
  <2>3. WithRun(r) \in [Drafts -> Row] /\ record' \in [Cells -> Values]
    BY <1>0, <2>1, <2>2, RejectRunRows DEF RowsTypeOK
  <2>4. RowsTypeOK'
    BY <1>0, <2>1, <2>3, FinalizeType
  <2> QED BY <1>0, <2>1, <2>4, ActorsRest DEF TypeInv
<1>6. ASSUME NEW h \in Handlers, EvictDecider(h) PROVE TypeInv'
  <2>1. h \in Deciders /\ h \notin Passes
    BY GateActors DEF Deciders
  <2>2. ds' = [ds EXCEPT ![h] = IdleDecider] /\ UNCHANGED <<dbVars, ps, vs>>
    BY <1>6 DEF EvictDecider
  <2>3. ActorsTypeOK'
    BY <1>0, <2>1, <2>2, IdleTypes, SetDecider
  <2> QED BY <1>0, <2>2, <2>3, RowsRest DEF TypeInv
<1> QED BY <1>1, <1>2, <1>3, <1>4, <1>5, <1>6

LEMMA PassTypes ==
  ASSUME TypeInv, NEW p \in Passes
  PROVE  /\ \A r \in Runs : StartPass(p, r) => TypeInv'
         /\ \A confident \in Confident : ListDrafts(p, confident) => TypeInv'
         /\ AppendApproval(p) \/ EndPass(p) \/ EvictPass(p) => TypeInv'
         /\ \A d \in Drafts : Escalate(p, d) \/ Heal(p, d) => TypeInv'
         /\ \A d \in Drafts : \A accepted \in {{}, draft[d].diff.optional} :
              Approve(p, d, accepted) => TypeInv'
<1>0. /\ RowsTypeOK /\ ActorsTypeOK /\ p \in Deciders
      /\ ps[p] \in PassRecord /\ PassBusy(ps[p], ds[p])
  BY DEF TypeInv, ActorsTypeOK, Deciders
<1> DEFINE Sets(rec) == ps' = [ps EXCEPT ![p] = rec] /\ UNCHANGED <<ds, vs>>
<1>1. ASSUME NEW rec \in PassRecord, PassBusy(rec, ds[p]), Sets(rec), RowsTypeOK'
      PROVE  TypeInv'
  BY <1>0, <1>1, SetPassType DEF TypeInv
<1>2. ASSUME NEW d \in Drafts, NEW verdict \in {"approve", "escalate"},
             Validate(d, verdict) \/ UNCHANGED validated,
             UNCHANGED <<status, draft, receipts, record>>
      PROVE  RowsTypeOK'
  BY <1>0, <1>2 DEF RowsTypeOK, Validate
<1>3. ASSUME NEW r \in Runs, StartPass(p, r) PROVE TypeInv'
  <2> DEFINE rec == [IdlePass EXCEPT !.pc = "list", !.run = r]
  <2>1. rec \in PassRecord /\ PassBusy(rec, ds[p])
    BY <1>0, <1>3 DEF IdlePass, PassRecord, PassBusy, StartPass
  <2>2. Sets(rec) /\ UNCHANGED dbVars
    BY <1>3 DEF StartPass, SetPass
  <2> HIDE DEF rec
  <2> QED BY <1>0, <1>1, <2>1, <2>2, RowsRest
<1>4. ASSUME NEW confident \in Confident, ListDrafts(p, confident) PROVE TypeInv'
  <2>1. PICK approve, escalate, unhealed :
          /\ approve \subseteq Drafts /\ escalate \subseteq Drafts /\ unhealed \subseteq Drafts
          /\ ps' = [ps EXCEPT ![p] = [ps[p] EXCEPT !.pc = "next", !.approve = approve,
                       !.escalate = escalate, !.unhealed = unhealed]]
    <3> DEFINE mine == DraftsOf(ps[p].run)
               pending == {d \in mine : Undecided(draft, d)}
               eligible == {d \in pending \cap confident : Unblocked(draft[d])}
               unhealed == {d \in mine : draft[d].exists /\ AgentApproved(d)}
    <3>1. mine \subseteq Drafts /\ pending \subseteq mine /\ eligible \subseteq pending
          /\ unhealed \subseteq mine
      BY DEF DraftsOf
    <3>2. ps' = [ps EXCEPT ![p] = [ps[p] EXCEPT !.pc = "next", !.approve = eligible,
                   !.escalate = pending \ eligible, !.unhealed = unhealed]]
      BY <1>4 DEF ListDrafts, SetPass
    <3> HIDE DEF mine, pending, eligible, unhealed
    <3> QED BY <3>1, <3>2
  <2> DEFINE rec == [ps[p] EXCEPT !.pc = "next", !.approve = approve,
                       !.escalate = escalate, !.unhealed = unhealed]
  <2>2. UNCHANGED <<dbVars, ds, vs>> /\ ps[p].pc = "list"
    BY <1>4 DEF ListDrafts
  <2>3. rec \in PassRecord /\ PassBusy(rec, ds[p])
    BY <1>0, <2>1, <2>2 DEF PassRecord, PassBusy
  <2>4. Sets(rec)
    BY <2>1, <2>2
  <2> HIDE DEF rec
  <2> QED BY <1>0, <1>1, <2>2, <2>3, <2>4, RowsRest
<1>5. ASSUME AppendApproval(p) PROVE TypeInv'
  <2> DEFINE rec == [ps[p] EXCEPT !.pc = "next", !.draft = None]
  <2>1. ps[p].pc = "receipt" /\ ps[p].draft \in Drafts
    BY <1>0, <1>5 DEF AppendApproval, PassBusy
  <2>2. rec \in PassRecord /\ PassBusy(rec, ds[p])
    BY <1>0, <2>1 DEF PassRecord, PassBusy
  <2>3. Sets(rec)
    BY <1>5 DEF AppendApproval, SetPass
  <2>4. RowsTypeOK'
    BY <1>2, <1>5, <2>1 DEF AppendApproval
  <2> HIDE DEF rec
  <2> QED BY <1>1, <2>2, <2>3, <2>4
<1>6. ASSUME EndPass(p) PROVE TypeInv'
  <2>1. Sets(IdlePass) /\ UNCHANGED dbVars /\ ps[p].pc = "next"
    BY <1>6 DEF EndPass, SetPass
  <2>2. PassBusy(IdlePass, ds[p])
    BY <1>0, <2>1 DEF PassBusy, IdlePass
  <2> QED BY <1>0, <1>1, <2>1, <2>2, IdleTypes, RowsRest
<1>7. ASSUME EvictPass(p) PROVE TypeInv'
  <2>1. /\ ps' = [ps EXCEPT ![p] = IdlePass] /\ ds' = [ds EXCEPT ![p] = IdleDecider]
        /\ UNCHANGED <<dbVars, vs>>
    BY <1>7 DEF EvictPass
  <2>2. PassBusy(IdlePass, IdleDecider)
    BY DEF PassBusy, IdlePass, IdleDecider
  <2>3. ActorsTypeOK'
    BY <1>0, <2>1, <2>2, IdleTypes, SetBoth
  <2> QED BY <1>0, <2>1, <2>3, RowsRest DEF TypeInv
<1>8. ASSUME NEW d \in Drafts, Escalate(p, d) PROVE TypeInv'
  <2> DEFINE rec == [ps[p] EXCEPT !.escalate = @ \ {d}]
  <2>1. rec \in PassRecord /\ PassBusy(rec, ds[p])
    BY <1>0 DEF PassRecord, PassBusy
  <2>2. Sets(rec)
    BY <1>8 DEF Escalate, SetPass
  <2>3. RowsTypeOK'
    BY <1>2, <1>8 DEF Escalate
  <2> HIDE DEF rec
  <2> QED BY <1>1, <2>1, <2>2, <2>3
<1>9. ASSUME NEW d \in Drafts, Heal(p, d) PROVE TypeInv'
  <2> DEFINE rec == [ps[p] EXCEPT !.unhealed = @ \ {d}]
  <2>1. rec \in PassRecord /\ PassBusy(rec, ds[p])
    BY <1>0 DEF PassRecord, PassBusy
  <2>2. Sets(rec)
    BY <1>9 DEF Heal, SetPass
  <2>3. RowsTypeOK'
    BY <1>2, <1>9 DEF Heal
  <2> HIDE DEF rec
  <2> QED BY <1>1, <2>1, <2>2, <2>3
<1>10. ASSUME NEW d \in Drafts, NEW accepted \in {{}, draft[d].diff.optional},
              Approve(p, d, accepted)
       PROVE  TypeInv'
  <2> DEFINE rec == [ps[p] EXCEPT !.pc = "deciding", !.draft = d, !.approve = @ \ {d}]
             decider == [pc |-> "read", draft |-> d, action |-> "approve",
                         accepted |-> accepted, shown |-> draft[d], snap |-> None]
  <2>1. draft[d] \in Row /\ draft[d].diff.optional \subseteq Cells
    BY <1>0, GateProposals DEF RowsTypeOK, Row, Proposal
  <2>2. decider \in DeciderRecord /\ DeciderBusy(decider)
    BY <2>1 DEF DeciderRecord, DeciderBusy
  <2>3. rec \in PassRecord /\ PassBusy(rec, decider)
    BY <1>0, <1>10 DEF PassRecord, PassBusy, Approve
  <2>4. /\ ps' = [ps EXCEPT ![p] = rec] /\ ds' = [ds EXCEPT ![p] = decider]
        /\ UNCHANGED <<dbVars, vs>>
    BY <1>10 DEF Approve, SetPass
  <2> HIDE DEF rec, decider
  <2>5. ActorsTypeOK'
    BY <1>0, <2>2, <2>3, <2>4, SetBoth
  <2> QED BY <1>0, <2>4, <2>5, RowsRest DEF TypeInv
<1> QED BY <1>3, <1>4, <1>5, <1>6, <1>7, <1>8, <1>9, <1>10

LEMMA PersistType ==
  ASSUME RowsTypeOK, NEW d \in Drafts, NEW e \in EvaluationType, Persist(d, e),
         UNCHANGED <<status, validated, record>>
  PROVE  RowsTypeOK'
<1>1. draft' \in [Drafts -> Row]
  BY PersistRow
<1>2. receipts' \subseteq Receipts
  BY DEF Persist, RowsTypeOK, Receipts, Kinds
<1> QED BY <1>1, <1>2 DEF RowsTypeOK

LEMMA EvidenceType ==
  ASSUME RowsTypeOK, NEW kind \in Kinds, NEW set \in SUBSET Drafts,
         receipts' = receipts \cup {<<kind, d>> : d \in set},
         UNCHANGED <<status, draft, validated, record>>
  PROVE  RowsTypeOK'
<1>1. {<<kind, d>> : d \in set} \subseteq Receipts
  BY DEF Receipts
<1> QED BY <1>1 DEF RowsTypeOK

LEMMA ReviewTypes ==
  ASSUME TypeInv
  PROVE  /\ \A d \in Drafts : \A e \in Evaluations[d[1]] : Review(d, e) => TypeInv'
         /\ \A d \in Drafts : Enforce(d) => TypeInv'
         /\ \A r \in Runs : FinishAwaiting(r) \/ BudgetStop(r) => TypeInv'
<1>0. RowsTypeOK /\ ActorsTypeOK
  BY DEF TypeInv
<1>1. ASSUME NEW d \in Drafts, NEW e \in Evaluations[d[1]], Review(d, e) PROVE TypeInv'
  <2>1. RowsTypeOK'
    BY <1>0, <1>1, EvaluationsType, PersistType DEF Review
  <2> QED BY <1>0, <1>1, <2>1, ActorsRest DEF Review, TypeInv
<1>2. ASSUME NEW d \in Drafts, Enforce(d) PROVE TypeInv'
  <2>1. receipts' = receipts \cup {<<"guardrails", e>> : e \in {d}}
    BY <1>2 DEF Enforce
  <2>2. {d} \in SUBSET Drafts /\ "guardrails" \in Kinds
    BY DEF Kinds
  <2>3. UNCHANGED <<status, draft, validated, record, ds, ps, vs>>
    BY <1>2 DEF Enforce
  <2>4. RowsTypeOK'
    BY <1>0, <2>1, <2>2, <2>3, EvidenceType
  <2> QED BY <1>0, <2>3, <2>4, ActorsRest DEF TypeInv
<1>3. ASSUME NEW r \in Runs, FinishAwaiting(r) \/ BudgetStop(r) PROVE TypeInv'
  <2>1. RowsTypeOK'
    BY <1>0, <1>3 DEF FinishAwaiting, BudgetStop, RowsTypeOK, RunStatus
  <2>2. UNCHANGED <<ds, ps, vs>>
    BY <1>3 DEF FinishAwaiting, BudgetStop
  <2> QED BY <1>0, <2>1, <2>2, ActorsRest DEF TypeInv
<1> QED BY <1>1, <1>2, <1>3

LEMMA ReviseTypes ==
  ASSUME TypeInv, NEW v \in Revisers
  PROVE  /\ \A d \in Drafts : Revise(v, d) => TypeInv'
         /\ \A d \in Drafts : \A e \in Evaluations[d[1]] :
              EvaluateRevision(v, d, e) => TypeInv'
         /\ \/ InsertRevision(v) \/ RevisionFails(v) \/ EnforceRevision(v)
            \/ RevisionDone(v) \/ EvictReviser(v)
            => TypeInv'
<1>0. /\ RowsTypeOK /\ ActorsTypeOK
      /\ vs[v] \in ReviserRecord /\ ReviserBusy(vs[v])
  BY DEF TypeInv, ActorsTypeOK
<1> DEFINE Sets(rec) == vs' = [vs EXCEPT ![v] = rec] /\ UNCHANGED <<ds, ps>>
<1>1. ASSUME NEW rec \in ReviserRecord, ReviserBusy(rec), Sets(rec), RowsTypeOK'
      PROVE  TypeInv'
  BY <1>0, <1>1, SetReviser DEF TypeInv
<1>2. ASSUME NEW d \in Drafts, Revise(v, d) PROVE TypeInv'
  <2> DEFINE rec == [pc |-> "insert", draft |-> d]
  <2>1. rec \in ReviserRecord /\ ReviserBusy(rec)
    BY <1>2 DEF ReviserRecord, ReviserBusy, Revise
  <2>2. Sets(rec) /\ UNCHANGED dbVars
    BY <1>2 DEF Revise
  <2> HIDE DEF rec
  <2> QED BY <1>0, <1>1, <2>1, <2>2, RowsRest
<1>3. ASSUME NEW d \in Drafts, NEW e \in Evaluations[d[1]], EvaluateRevision(v, d, e)
      PROVE  TypeInv'
  <2> DEFINE rec == [vs[v] EXCEPT !.pc = "enforce"]
  <2>1. rec \in ReviserRecord /\ ReviserBusy(rec)
    BY <1>0, <1>3 DEF ReviserRecord, ReviserBusy, EvaluateRevision
  <2>2. Sets(rec)
    BY <1>0, <1>3 DEF EvaluateRevision, ActorsTypeOK, ReviserRecord
  <2>3. RowsTypeOK'
    BY <1>0, <1>3, EvaluationsType, PersistType DEF EvaluateRevision
  <2> HIDE DEF rec
  <2> QED BY <1>1, <2>1, <2>2, <2>3
<1>4. ASSUME InsertRevision(v) PROVE TypeInv'
  <2> DEFINE d == vs[v].draft
  <2>1. d \in Drafts /\ Child(d) \in Drafts
    BY <1>0, <1>4, DraftParts DEF InsertRevision, ReviserBusy
  <2>2. CASE Inserts(d)
    <3> DEFINE rec == [pc |-> "evaluate", draft |-> Child(d)]
    <3>1. rec \in ReviserRecord /\ ReviserBusy(rec)
      BY <2>1 DEF ReviserRecord, ReviserBusy
    <3>2. Sets(rec)
      BY <1>4, <2>2 DEF InsertRevision
    <3>3. draft' = [draft EXCEPT ![Child(d)] = [@ EXCEPT !.exists = TRUE,
                                                  !.diff = draft[d].diff]]
      BY <1>4, <2>2 DEF InsertRevision
    <3>4. draft' \in [Drafts -> Row]
      BY <1>0, <2>1, <3>3, InsertRow
    <3>5. RowsTypeOK'
      BY <1>0, <1>4, <3>4 DEF InsertRevision, RowsTypeOK
    <3> HIDE DEF rec
    <3> QED BY <1>1, <3>1, <3>2, <3>5
  <2>3. CASE ~Inserts(d)
    <3>1. Sets(IdleReviser) /\ UNCHANGED dbVars
      BY <1>4, <2>3 DEF InsertRevision, dbVars
    <3> QED BY <1>0, <1>1, <3>1, IdleTypes, RowsRest
  <2> QED BY <2>2, <2>3
<1>5. ASSUME RevisionFails(v) \/ EvictReviser(v) PROVE TypeInv'
  <2>1. Sets(IdleReviser) /\ UNCHANGED dbVars
    BY <1>5 DEF RevisionFails, EvictReviser
  <2> QED BY <1>0, <1>1, <2>1, IdleTypes, RowsRest
<1>6. ASSUME EnforceRevision(v) PROVE TypeInv'
  <2> DEFINE rec == [vs[v] EXCEPT !.pc = "receipt"]
             set == {e \in {vs[v].draft} : Unguarded(e)}
  <2>1. rec \in ReviserRecord /\ ReviserBusy(rec) /\ vs[v].draft \in Drafts
    BY <1>0, <1>6 DEF ReviserRecord, ReviserBusy, EnforceRevision
  <2>2. Sets(rec)
    BY <1>0, <1>6 DEF EnforceRevision, ActorsTypeOK, ReviserRecord
  <2>3. /\ receipts' = receipts \cup {<<"guardrails", d>> : d \in set}
        /\ UNCHANGED <<status, draft, validated, record>>
    BY <1>6 DEF EnforceRevision
  <2>4. set \in SUBSET Drafts /\ "guardrails" \in Kinds
    BY <2>1 DEF Kinds
  <2> HIDE DEF rec, set
  <2>5. RowsTypeOK'
    BY <1>0, <2>3, <2>4, EvidenceType
  <2> QED BY <1>1, <2>1, <2>2, <2>5
<1>7. ASSUME RevisionDone(v) PROVE TypeInv'
  <2> DEFINE set == {vs[v].draft}
  <2>1. Sets(IdleReviser) /\ vs[v].draft \in Drafts
    BY <1>0, <1>7 DEF RevisionDone, ReviserBusy
  <2>2. /\ receipts' = receipts \cup {<<"draft.revised", d>> : d \in set}
        /\ UNCHANGED <<status, draft, validated, record>>
    BY <1>7 DEF RevisionDone
  <2>3. set \in SUBSET Drafts /\ "draft.revised" \in Kinds
    BY <2>1 DEF Kinds
  <2> HIDE DEF set
  <2>4. RowsTypeOK'
    BY <1>0, <2>2, <2>3, EvidenceType
  <2> QED BY <1>1, <2>1, <2>4, IdleTypes
<1> QED BY <1>2, <1>3, <1>4, <1>5, <1>6, <1>7

LEMMA TypeStep == TypeInv /\ [Next]_vars => TypeInv'
<1> SUFFICES ASSUME TypeInv, [Next]_vars PROVE TypeInv'
  OBVIOUS
<1>1. CASE ReviewStep
  BY <1>1, ReviewTypes, ReviseTypes DEF ReviewStep
<1>2. CASE DecideStep
  <2>1. \A d \in Drafts : {} \in SUBSET draft[d].diff.optional
    OBVIOUS
  <2> QED BY <1>2, <2>1, DecideTypes DEF DecideStep
<1>3. CASE PassStep
  BY <1>3, PassTypes DEF PassStep
<1>4. CASE ReviseStep
  BY <1>4, ReviseTypes DEF ReviseStep
<1>5. CASE UNCHANGED vars
  <2>1. UNCHANGED dbVars /\ UNCHANGED <<ds, ps, vs>>
    BY <1>5 DEF vars, dbVars
  <2> QED BY <2>1, RowsRest, ActorsRest DEF TypeInv
<1> QED BY <1>1, <1>2, <1>3, <1>4, <1>5 DEF Next

\* The gate's rows and executions keep their types, and whoever is at work has
\* at hand a Draft that has a place in its chain.
THEOREM GateTypes == Spec => []GateTypeOK
<1>1. Spec => []TypeInv
  BY InitTypeInv, TypeStep, PTL DEF Spec
<1> QED BY <1>1, TypeInvTypes, PTL
-----------------------------------------------------------------------------
(* What a step may do to the rows, the Runs and the receipts.               *)

\* No decision and no completion is recorded, and nothing is forgotten.
Records(evaluated) ==
  /\ receipts \subseteq receipts'
  /\ \A d \in Drafts : <<"gate.decided", d>> \in receipts' => <<"gate.decided", d>> \in receipts
  /\ \A r \in Runs : <<"run.completed", r>> \in receipts' => <<"run.completed", r>> \in receipts
  /\ \A d \in Drafts \ evaluated :
       <<"draft.evaluated", d>> \in receipts' => <<"draft.evaluated", d>> \in receipts
\* The Run is closed when nothing of it is left to decide.
Closes(r, more) ==
  /\ status' = [status EXCEPT ![r] = FinalStatus(draft', r)]
  /\ receipts' = receipts \cup more \cup Completion(draft', r)

RestMove ==
  /\ UNCHANGED <<draft, record>> /\ Records({})
  /\ \A r \in Runs : \/ status'[r] = status[r]
                     \/ status[r] = "running" /\ status'[r] \in {"awaiting", "stopped"}
EvaluateMove(d) ==
  /\ SameBut(d)
  /\ draft[d].exists /\ draft[d].outcome = "none" /\ draft[d].eval = "none"
  /\ draft'[d].exists /\ draft'[d].outcome = "none" /\ draft'[d].by = draft[d].by
  /\ draft'[d].eval # "none" /\ <<"draft.evaluated", d>> \in receipts'
  /\ UNCHANGED <<status, record>> /\ Records({d})
InsertMove(d) ==
  /\ ReadyHead(d) /\ status[RunOf(d)] = "awaiting" /\ d[2] < MaxRevisions
  /\ ~draft[Child(d)].exists
  /\ SameBut(Child(d)) /\ draft'[Child(d)].exists
  /\ draft'[Child(d)].eval = draft[Child(d)].eval
  /\ draft'[Child(d)].outcome = draft[Child(d)].outcome
  /\ draft'[Child(d)].by = draft[Child(d)].by
  /\ UNCHANGED <<status, receipts, record>>
DecideMove(x, d) ==
  /\ d = ds[x].draft /\ ds[x].pc = "commit" /\ ReadyHead(d) /\ draft[d] = ds[x].snap
  /\ SameBut(d) /\ draft'[d].exists
  /\ draft'[d].outcome = Outcome(ds[x].action) /\ draft'[d].by = By(x)
  /\ draft'[d].diff = draft[d].diff /\ draft'[d].eval = draft[d].eval
  /\ Publishes(x) => PriorHolds(ds[x].snap.diff, ds[x].accepted)
  /\ record' = IF Publishes(x) THEN Applied(ds[x].snap.diff, ds[x].accepted) ELSE record
  /\ Closes(RunOf(d), {<<"gate.decided", d>>})
RejectMove(r) ==
  /\ status[r] = "awaiting" /\ OpenHeads(draft, r) # {}
  /\ \A d \in Drafts \ OpenHeads(draft, r) : draft'[d] = draft[d]
  /\ \A d \in OpenHeads(draft, r) :
       /\ draft'[d].outcome = "withRun" /\ draft'[d].by = "operator" /\ draft'[d].exists
       /\ draft'[d].diff = draft[d].diff /\ draft'[d].eval = draft[d].eval
  /\ UNCHANGED record
  /\ Closes(r, {})
GateMove ==
  \/ RestMove
  \/ \E d \in Drafts : EvaluateMove(d) \/ InsertMove(d) \/ \E x \in Deciders : DecideMove(x, d)
  \/ \E r \in Runs : RejectMove(r)

LEMMA RestIsMove ==
  ASSUME TypeInv, UNCHANGED <<status, draft, receipts, record>>
  PROVE  RestMove
BY DEF RestMove, Records
LEMMA EvidenceIsMove ==
  ASSUME TypeInv, NEW kind \in {"guardrails", "draft.revised"}, NEW set \in SUBSET Drafts,
         receipts' = receipts \cup {<<kind, d>> : d \in set},
         UNCHANGED <<status, draft, record>>
  PROVE  RestMove
BY DEF RestMove, Records
LEMMA PersistIsMove ==
  ASSUME TypeInv, NEW d \in Drafts, NEW e \in EvaluationType, Persist(d, e),
         UNCHANGED <<status, record>>
  PROVE  EvaluateMove(d)
<1>1. Records({d}) /\ <<"draft.evaluated", d>> \in receipts'
  BY DEF Records, Persist
<1> QED BY <1>1, PersistRow DEF TypeInv, EvaluateMove

LEMMA ReviewMoves ==
  ASSUME TypeInv, ReviewStep
  PROVE  GateMove
<1>1. ASSUME NEW d \in Drafts, NEW e \in Evaluations[d[1]],
             Review(d, e) \/ \E v \in Revisers : EvaluateRevision(v, d, e)
      PROVE  GateMove
  <2>1. Persist(d, e) /\ UNCHANGED <<status, record>>
    BY <1>1 DEF Review, EvaluateRevision
  <2>2. EvaluateMove(d)
    BY <2>1, EvaluationsType, PersistIsMove
  <2> QED BY <2>2 DEF GateMove
<1>2. ASSUME NEW d \in Drafts, Enforce(d) PROVE GateMove
  <2>1. /\ receipts' = receipts \cup {<<"guardrails", e>> : e \in {d}}
        /\ UNCHANGED <<status, draft, record>>
    BY <1>2 DEF Enforce
  <2>2. RestMove
    BY <2>1, EvidenceIsMove
  <2> QED BY <2>2 DEF GateMove
<1>3. ASSUME NEW r \in Runs, FinishAwaiting(r) \/ BudgetStop(r) PROVE GateMove
  <2>1. RestMove
    BY <1>3 DEF FinishAwaiting, BudgetStop, RestMove, Records, TypeInv, RowsTypeOK
  <2> QED BY <2>1 DEF GateMove
<1> QED BY <1>1, <1>2, <1>3 DEF ReviewStep

LEMMA CommitIsMove ==
  ASSUME TypeInv, NEW x \in Deciders, Commit(x)
  PROVE  ds[x].draft \in Drafts /\ DecideMove(x, ds[x].draft)
<1> DEFINE d == ds[x].draft
<1>1. d \in Drafts /\ ds[x].action \in {"approve", "reject"} /\ RowsTypeOK
  BY DEF TypeInv, ActorsTypeOK, DeciderBusy, DeciderRecord, Commit
<1>2. draft' = AfterDecision(x) /\ Closes(RunOf(d), {<<"gate.decided", d>>})
  BY DEF Commit, Finalize, Closes
<1>3. ReadyHead(d) /\ draft[d] = ds[x].snap /\ draft[d].exists /\ ds[x].pc = "commit"
  BY DEF Commit, DecideOk, SnapshotHolds, ReadyHead, Undecided
<1>4. /\ SameBut(d) /\ draft'[d].exists = draft[d].exists
      /\ draft'[d].outcome = Outcome(ds[x].action) /\ draft'[d].by = By(x)
      /\ draft'[d].diff = draft[d].diff /\ draft'[d].eval = draft[d].eval
  BY <1>1, <1>2, CommitRow
<1>5. /\ Publishes(x) => PriorHolds(ds[x].snap.diff, ds[x].accepted)
      /\ record' = IF Publishes(x) THEN Applied(ds[x].snap.diff, ds[x].accepted) ELSE record
  BY DEF Commit, DecideOk
<1> QED BY <1>1, <1>2, <1>3, <1>4, <1>5 DEF DecideMove

LEMMA RejectRunIsMove ==
  ASSUME TypeInv, NEW r \in Runs, RejectRun(r)
  PROVE  RejectMove(r)
<1>1. RowsTypeOK /\ draft' = WithRun(r) /\ Closes(r, {}) /\ UNCHANGED record
  BY DEF TypeInv, RejectRun, Finalize, Closes
<1>2. status[r] = "awaiting" /\ OpenHeads(draft, r) # {}
  BY DEF RejectRun
<1>3. \A d \in OpenHeads(draft, r) : draft[d].exists
  BY DEF OpenHeads, Undecided
<1> QED BY <1>1, <1>2, <1>3, RejectRunRows DEF RejectMove

LEMMA DecideMoves ==
  ASSUME TypeInv, DecideStep
  PROVE  GateMove
<1>1. CASE \E x \in Deciders : Commit(x)
  BY <1>1, CommitIsMove DEF GateMove
<1>2. CASE \E r \in Runs : RejectRun(r)
  BY <1>2, RejectRunIsMove DEF GateMove
<1>3. CASE ~(\E x \in Deciders : Commit(x)) /\ ~(\E r \in Runs : RejectRun(r))
  <2>1. UNCHANGED <<status, draft, receipts, record>>
    BY <1>3 DEF DecideStep, Choose, ReadDraft, Conflict, EvictDecider, dbVars
  <2> QED BY <2>1, RestIsMove DEF GateMove
<1> QED BY <1>1, <1>2, <1>3

LEMMA PassMoves ==
  ASSUME TypeInv, PassStep
  PROVE  GateMove
<1>1. UNCHANGED <<status, draft, receipts, record>>
  BY DEF PassStep, StartPass, ListDrafts, AppendApproval, EndPass, EvictPass, Escalate,
         Heal, Approve, dbVars
<1> QED BY <1>1, RestIsMove DEF GateMove

LEMMA ReviseMoves ==
  ASSUME TypeInv, ReviseStep
  PROVE  GateMove
<1> PICK v \in Revisers :
      \/ \E d \in Drafts : Revise(v, d)
      \/ InsertRevision(v) \/ RevisionFails(v) \/ EnforceRevision(v)
      \/ RevisionDone(v) \/ EvictReviser(v)
  BY DEF ReviseStep
<1>0. ReviserBusy(vs[v]) /\ RowsTypeOK
  BY DEF TypeInv, ActorsTypeOK
<1>1. CASE (\E d \in Drafts : Revise(v, d)) \/ RevisionFails(v) \/ EvictReviser(v)
  <2>1. UNCHANGED <<status, draft, receipts, record>>
    BY <1>1 DEF Revise, RevisionFails, EvictReviser, dbVars
  <2> QED BY <2>1, RestIsMove DEF GateMove
<1>2. CASE InsertRevision(v)
  <2> DEFINE d == vs[v].draft
  <2>1. d \in Drafts /\ d[2] < MaxRevisions /\ Child(d) \in Drafts
    BY <1>0, <1>2, DraftParts DEF InsertRevision, ReviserBusy
  <2>2. CASE Inserts(d)
    <3>1. /\ draft' = [draft EXCEPT ![Child(d)] = [@ EXCEPT !.exists = TRUE,
                                                    !.diff = draft[d].diff]]
          /\ UNCHANGED <<status, receipts, record>>
      BY <1>2, <2>2 DEF InsertRevision
    <3>2. /\ SameBut(Child(d)) /\ draft'[Child(d)].exists
          /\ draft'[Child(d)].eval = draft[Child(d)].eval
          /\ draft'[Child(d)].outcome = draft[Child(d)].outcome
          /\ draft'[Child(d)].by = draft[Child(d)].by
      BY <1>0, <2>1, <3>1, InsertRow
    <3>3. InsertMove(d)
      BY <2>1, <2>2, <3>1, <3>2 DEF InsertMove, Inserts
    <3> QED BY <2>1, <3>3 DEF GateMove
  <2>3. CASE ~Inserts(d)
    <3>1. UNCHANGED <<status, draft, receipts, record>>
      BY <1>2, <2>3 DEF InsertRevision
    <3> QED BY <3>1, RestIsMove DEF GateMove
  <2> QED BY <2>2, <2>3
<1>3. CASE EnforceRevision(v)
  <2> DEFINE set == {e \in {vs[v].draft} : Unguarded(e)}
  <2>1. set \in SUBSET Drafts
    BY <1>0, <1>3 DEF EnforceRevision, ReviserBusy
  <2>2. /\ receipts' = receipts \cup {<<"guardrails", d>> : d \in set}
        /\ UNCHANGED <<status, draft, record>>
    BY <1>3 DEF EnforceRevision
  <2> HIDE DEF set
  <2>3. RestMove
    BY <2>1, <2>2, EvidenceIsMove
  <2> QED BY <2>3 DEF GateMove
<1>4. CASE RevisionDone(v)
  <2> DEFINE set == {vs[v].draft}
  <2>1. set \in SUBSET Drafts
    BY <1>0, <1>4 DEF RevisionDone, ReviserBusy
  <2>2. /\ receipts' = receipts \cup {<<"draft.revised", d>> : d \in set}
        /\ UNCHANGED <<status, draft, record>>
    BY <1>4 DEF RevisionDone
  <2> HIDE DEF set
  <2>3. RestMove
    BY <2>1, <2>2, EvidenceIsMove
  <2> QED BY <2>3 DEF GateMove
<1> QED BY <1>1, <1>2, <1>3, <1>4

LEMMA GateMoves == TypeInv /\ [Next]_vars => GateMove
<1> SUFFICES ASSUME TypeInv, [Next]_vars PROVE GateMove
  OBVIOUS
<1>1. CASE UNCHANGED vars
  BY <1>1, RestIsMove DEF vars, GateMove
<1> QED BY <1>1, ReviewMoves, DecideMoves, PassMoves, ReviseMoves DEF Next
-----------------------------------------------------------------------------
(* Chains, Runs and receipts.                                               *)

\* A revision that was not inserted yet has no evaluation and no outcome.
Unborn ==
  \A d \in Drafts : ~draft[d].exists =>
    draft[d].eval = "none" /\ draft[d].outcome = "none" /\ draft[d].by = "nobody"
\* A Run that is being reviewed has something to decide, and nothing of it was
\* decided.
RunsOpen ==
  /\ \A r \in Runs : status[r] = "running" => OpenHeads(draft, r) # {}
  /\ \A d \in Drafts : draft[d].outcome # "none" => status[RunOf(d)] # "running"
DecisionsAreReceipted ==
  \A d \in Drafts : <<"gate.decided", d>> \in receipts <=>
                      draft[d].outcome \in {"approved", "rejected"}
RowsInv == Unborn /\ OneDecisionPerChain /\ RunsOpen /\ RunCloses
             /\ DecisionsAreReceipted /\ DecidedIsReady

LEMMA HeadIsLast ==
  ASSUME NEW table, NEW c \in Drafts, NEW d \in Drafts, c[1] = d[1],
         table[c].exists, table[d].exists, Head(table, c), Head(table, d)
  PROVE  c = d
<1>1. ~(c[2] < d[2]) /\ ~(d[2] < c[2])
  BY DraftParts, GateBounds DEF Head
<1> QED BY <1>1, DraftParts, GateBounds

\* Nothing of a chain is decided while its head is open.
LEMMA OpenChain ==
  ASSUME Unborn, OneDecisionPerChain, NEW d \in Drafts, Undecided(draft, d), Head(draft, d),
         NEW e \in Drafts, e[1] = d[1]
  PROVE  draft[e].outcome = "none"
BY HeadIsLast DEF Unborn, OneDecisionPerChain, Decided, Undecided

LEMMA SameHeads ==
  ASSUME NEW table, NEW other,
         \A e \in Drafts : other[e].exists <=> table[e].exists
  PROVE  \A d \in Drafts : Head(other, d) <=> Head(table, d)
BY DraftParts, GateBounds DEF Head

LEMMA HeadsOfOthers ==
  ASSUME NEW table, NEW other, NEW c \in Drafts,
         \A e \in Drafts \ {c} : other[e].exists <=> table[e].exists,
         NEW d \in Drafts, d[1] # c[1] \/ c[2] <= d[2]
  PROVE  Head(other, d) <=> Head(table, d)
BY DraftParts, GateBounds DEF Head

LEMMA OpenHeadsOf ==
  ASSUME NEW table, NEW d \in Drafts, NEW r
  PROVE  d \in OpenHeads(table, r) <=>
           RunOf(d) = r /\ table[d].exists /\ table[d].outcome = "none" /\ Head(table, d)
BY DEF OpenHeads, DraftsOf, Undecided

LEMMA SameOpenHeads ==
  ASSUME NEW table, NEW other, NEW r,
         \A e \in Drafts : /\ other[e].exists <=> table[e].exists
                           /\ RunOf(e) = r => other[e].outcome = table[e].outcome
  PROVE  OpenHeads(other, r) = OpenHeads(table, r)
<1>1. \A d \in Drafts : d \in OpenHeads(other, r) <=> d \in OpenHeads(table, r)
  BY SameHeads, OpenHeadsOf
<1> QED BY <1>1 DEF OpenHeads, DraftsOf

\* The invariant with its primes at the rows.
Accepted(table, r) ==
  \E d \in DraftsOf(r) : table[d].exists /\ table[d].outcome = "approved"
RunFacts(table, state, completed, r) ==
  /\ state \in {"running", "awaiting"} => OpenHeads(table, r) # {}
  /\ state \in {"published", "rejected"} =>
       OpenHeads(table, r) = {} /\ (Accepted(table, r) <=> state = "published")
  /\ completed <=> state \in {"published", "rejected"}

LEMMA RunParts ==
  ASSUME TypeInv
  PROVE  /\ RunsOpen /\ RunCloses <=>
              /\ \A r \in Runs :
                   RunFacts(draft, status[r], <<"run.completed", r>> \in receipts, r)
              /\ \A d \in Drafts : draft[d].outcome # "none" => status[RunOf(d)] # "running"
BY DEF RunsOpen, RunCloses, RunFacts, Accepted
LEMMA RunPartsNext ==
  /\ \A r \in Runs : RunFacts(draft', status'[r], <<"run.completed", r>> \in receipts', r)
  /\ \A d \in Drafts : draft'[d].outcome # "none" => status'[RunOf(d)] # "running"
  => RunsOpen' /\ RunCloses'
BY DEF RunsOpen, RunCloses, RunFacts, Accepted, OpenHeads, DraftsOf, Undecided, Head

LEMMA SameFacts ==
  ASSUME NEW table, NEW other, NEW r, NEW state, NEW completed,
         RunFacts(table, state, completed, r),
         \A e \in Drafts : /\ other[e].exists <=> table[e].exists
                           /\ RunOf(e) = r => other[e].outcome = table[e].outcome
  PROVE  RunFacts(other, state, completed, r)
<1>1. OpenHeads(other, r) = OpenHeads(table, r)
  BY SameOpenHeads
<1>2. Accepted(other, r) <=> Accepted(table, r)
  BY DEF Accepted, DraftsOf
<1> QED BY <1>1, <1>2 DEF RunFacts

LEMMA ClosesRun ==
  ASSUME TypeInv, NEW r \in Runs, NEW more \in SUBSET (Kinds \X Drafts), Closes(r, more),
         status[r] \in {"awaiting", "stopped"}, <<"run.completed", r>> \notin receipts
  PROVE  /\ RunFacts(draft', status'[r], <<"run.completed", r>> \in receipts', r)
         /\ status'[r] # "running"
<1>1. status \in [Runs -> RunStatus] /\ <<"run.completed", r>> \notin more
  BY DEF TypeInv, RowsTypeOK, Kinds
<1>2. status'[r] = FinalStatus(draft', r)
  BY <1>1 DEF Closes
<1>3. <<"run.completed", r>> \in receipts' <=> FinalStatus(draft', r) # status[r]
  BY <1>1 DEF Closes, Completion
<1> QED BY <1>2, <1>3 DEF RunFacts, FinalStatus, Accepted

LEMMA ClosesOnly ==
  ASSUME TypeInv, NEW r \in Runs, NEW more \in SUBSET (Kinds \X Drafts), Closes(r, more),
         NEW q \in Runs \ {r}
  PROVE  /\ status'[q] = status[q]
         /\ <<"run.completed", q>> \in receipts' <=> <<"run.completed", q>> \in receipts
<1>1. status \in [Runs -> RunStatus] /\ <<"run.completed", q>> \notin more
  BY DEF TypeInv, RowsTypeOK, Kinds
<1> QED BY <1>1 DEF Closes, Completion

\* The receipts a move adds.
LEMMA ReceiptsGrow ==
  ASSUME TypeInv, GateMove
  PROVE  receipts \subseteq receipts'
BY DEF GateMove, RestMove, EvaluateMove, InsertMove, DecideMove, RejectMove, Closes, Records

LEMMA StatusMoves ==
  ASSUME TypeInv, GateMove, NEW r \in Runs, status[r] # "running"
  PROVE  status'[r] # "running"
<1>0. status \in [Runs -> RunStatus]
  BY DEF TypeInv, RowsTypeOK
<1>1. ASSUME NEW q \in Runs, NEW more, Closes(q, more)
      PROVE  status'[r] # "running"
  BY <1>0, <1>1 DEF Closes, FinalStatus
<1>2. ASSUME NEW d \in Drafts, NEW x \in Deciders, DecideMove(x, d)
      PROVE  status'[r] # "running"
  BY <1>1, <1>2, DraftParts DEF DecideMove
<1>3. ASSUME NEW q \in Runs, RejectMove(q) PROVE status'[r] # "running"
  BY <1>1, <1>3 DEF RejectMove
<1> QED BY <1>2, <1>3 DEF GateMove, RestMove, EvaluateMove, InsertMove

\* What a reviewer or a decider has settled stays: an evaluated Draft keeps its
\* evaluation and its diff, a decided one its whole row.
Stays(d) ==
  /\ draft[d].exists => draft'[d].exists
  /\ draft[d].eval # "none" =>
       draft'[d].eval = draft[d].eval /\ draft'[d].diff = draft[d].diff
  /\ draft[d].outcome # "none" => draft'[d] = draft[d]
LEMMA RowsStay ==
  ASSUME TypeInv, Unborn, GateMove, NEW d \in Drafts
  PROVE  Stays(d)
<1>1. CASE RestMove
  BY <1>1 DEF Stays, RestMove
<1>2. ASSUME NEW e \in Drafts, EvaluateMove(e) PROVE Stays(d)
  BY <1>2 DEF Stays, EvaluateMove, SameBut
<1>3. ASSUME NEW e \in Drafts, InsertMove(e) PROVE Stays(d)
  BY <1>3, DraftParts DEF Stays, InsertMove, SameBut, Unborn
<1>4. ASSUME NEW e \in Drafts, NEW x \in Deciders, DecideMove(x, e) PROVE Stays(d)
  BY <1>4 DEF Stays, DecideMove, SameBut, ReadyHead, Undecided
<1>5. ASSUME NEW r \in Runs, RejectMove(r) PROVE Stays(d)
  BY <1>5, OpenHeadsOf DEF Stays, RejectMove
<1> QED BY <1>1, <1>2, <1>3, <1>4, <1>5 DEF GateMove

LEMMA ReadyStays ==
  ASSUME TypeInv, Unborn, GateMove, NEW d \in Drafts, Ready(d)
  PROVE  Ready(d)'
<1>1. receipts \subseteq receipts' /\ status'[RunOf(d)] # "running"
  BY ReceiptsGrow, StatusMoves, DraftParts DEF Ready
<1>2. draft'[d].eval # "none"
  BY RowsStay DEF Stays, Ready, Evaluated
<1> QED BY <1>1, <1>2 DEF Ready, Evaluated

LEMMA RestKeepsRows ==
  ASSUME TypeInv, RowsInv, RestMove
  PROVE  RowsInv'
<1>0. GateMove /\ UNCHANGED draft /\ Records({})
  BY DEF GateMove, RestMove
<1>1. Unborn' /\ OneDecisionPerChain'
  BY <1>0 DEF RowsInv, Unborn, OneDecisionPerChain, Decided, Head
<1>2. RunsOpen' /\ RunCloses'
  <2>1. ASSUME NEW r \in Runs
        PROVE  RunFacts(draft', status'[r], <<"run.completed", r>> \in receipts', r)
    <3>1. RunFacts(draft, status[r], <<"run.completed", r>> \in receipts, r)
      BY RunParts DEF RowsInv
    <3>2. <<"run.completed", r>> \in receipts' <=> <<"run.completed", r>> \in receipts
      BY <1>0 DEF Records
    <3> QED BY <1>0, <3>1, <3>2 DEF RunFacts, RestMove
  <2>2. \A d \in Drafts : draft'[d].outcome # "none" => status'[RunOf(d)] # "running"
    BY <1>0, StatusMoves, DraftParts DEF RowsInv, RunsOpen
  <2> QED BY <2>1, <2>2, RunPartsNext
<1>3. DecisionsAreReceipted'
  BY <1>0 DEF RowsInv, DecisionsAreReceipted, Records
<1>4. DecidedIsReady'
  BY <1>0, ReadyStays DEF RowsInv, DecidedIsReady
<1> QED BY <1>1, <1>2, <1>3, <1>4 DEF RowsInv

LEMMA EvaluateKeepsRows ==
  ASSUME TypeInv, RowsInv, NEW d \in Drafts, EvaluateMove(d)
  PROVE  RowsInv'
<1>0. GateMove /\ SameBut(d) /\ Records({d}) /\ UNCHANGED status
  BY DEF GateMove, EvaluateMove
<1>1. \A e \in Drafts : /\ draft'[e].exists <=> draft[e].exists
                        /\ draft'[e].outcome = draft[e].outcome
  BY DEF EvaluateMove, SameBut
<1>2. Unborn'
  BY <1>1 DEF RowsInv, Unborn, EvaluateMove, SameBut
<1>3. OneDecisionPerChain'
  BY <1>1, SameHeads DEF RowsInv, OneDecisionPerChain, Decided
<1>4. RunsOpen' /\ RunCloses'
  <2>1. ASSUME NEW r \in Runs
        PROVE  RunFacts(draft', status'[r], <<"run.completed", r>> \in receipts', r)
    <3>1. RunFacts(draft, status[r], <<"run.completed", r>> \in receipts, r)
      BY RunParts DEF RowsInv
    <3>2. RunFacts(draft', status[r], <<"run.completed", r>> \in receipts, r)
      BY <1>1, <3>1, SameFacts
    <3>3. <<"run.completed", r>> \in receipts' <=> <<"run.completed", r>> \in receipts
      BY <1>0 DEF Records
    <3> QED BY <1>0, <3>2, <3>3 DEF RunFacts
  <2>2. \A e \in Drafts : draft'[e].outcome # "none" => status'[RunOf(e)] # "running"
    BY <1>0, <1>1 DEF RowsInv, RunsOpen
  <2> QED BY <2>1, <2>2, RunPartsNext
<1>5. DecisionsAreReceipted'
  BY <1>0, <1>1 DEF RowsInv, DecisionsAreReceipted, Records
<1>6. DecidedIsReady'
  BY <1>0, <1>1, ReadyStays DEF RowsInv, DecidedIsReady
<1> QED BY <1>2, <1>3, <1>4, <1>5, <1>6 DEF RowsInv

LEMMA InsertKeepsRows ==
  ASSUME TypeInv, RowsInv, NEW d \in Drafts, InsertMove(d)
  PROVE  RowsInv'
<1> DEFINE c == Child(d)
<1>0. /\ GateMove /\ UNCHANGED <<status, receipts>> /\ SameBut(c)
      /\ ~draft[c].exists /\ draft'[c].exists
      /\ draft'[c].eval = draft[c].eval /\ draft'[c].outcome = draft[c].outcome
      /\ draft'[c].by = draft[c].by
  BY DEF GateMove, InsertMove
<1>1. /\ c \in Drafts /\ c # d /\ c[1] = d[1] /\ c[2] = d[2] + 1 /\ RunOf(c) = RunOf(d)
  BY DraftParts DEF InsertMove, Child, RunOf
<1>2. Unborn /\ OneDecisionPerChain /\ Undecided(draft, d) /\ Head(draft, d)
        /\ status[RunOf(d)] = "awaiting"
  BY DEF RowsInv, InsertMove, ReadyHead
<1>3. draft[c].outcome = "none"
  BY <1>0, <1>1, <1>2 DEF Unborn
<1>4. \A e \in Drafts : draft'[e].outcome = draft[e].outcome
  BY <1>0 DEF SameBut
<1>4a. ASSUME NEW e \in Drafts, e[1] # c[1]
       PROVE  Head(draft', e) <=> Head(draft, e)
  <2>1. \A x \in Drafts \ {c} : draft'[x].exists <=> draft[x].exists
    BY <1>0 DEF SameBut
  <2> HIDE DEF c
  <2> QED BY <1>1, <1>4a, <2>1, HeadsOfOthers
<1>5. Unborn'
  BY <1>0 DEF RowsInv, Unborn, SameBut
<1>6. OneDecisionPerChain'
  <2> SUFFICES ASSUME NEW e \in Drafts, Decided(draft', e) PROVE Head(draft', e)
    BY DEF OneDecisionPerChain, Decided, Head
  <2>1. e # c /\ Decided(draft, e)
    BY <1>0, <1>3, <1>4 DEF Decided, SameBut
  <2>2. e[1] # c[1]
    BY <1>1, <1>2, <2>1, OpenChain DEF Decided
  <2>3. Head(draft, e)
    BY <1>2, <2>1 DEF OneDecisionPerChain
  <2> QED BY <1>4a, <2>2, <2>3
<1>7. RunsOpen' /\ RunCloses'
  <2>1. ASSUME NEW r \in Runs
        PROVE  RunFacts(draft', status'[r], <<"run.completed", r>> \in receipts', r)
    <3>1. RunFacts(draft, status[r], <<"run.completed", r>> \in receipts, r)
      BY RunParts DEF RowsInv
    <3>2. CASE r = RunOf(d)
      <4>1. Head(draft', c)
        <5>1. ASSUME NEW n \in c[2] + 1 .. MaxRevisions PROVE ~draft'[<<c[1], n>>].exists
          <6>1. n \in d[2] + 1 .. MaxRevisions /\ n \in 0 .. MaxRevisions /\ n # c[2]
            BY <1>1, DraftParts, GateBounds
          <6>2. <<c[1], n>> \in Drafts /\ <<c[1], n>> # c
            BY <1>1, <6>1, DraftParts
          <6>3. ~draft[<<c[1], n>>].exists
            BY <1>1, <1>2, <6>1 DEF Head
          <6> QED BY <1>0, <6>2, <6>3 DEF SameBut
        <5> QED BY <5>1 DEF Head
      <4>2. c \in OpenHeads(draft', r)
        BY <1>0, <1>1, <1>3, <3>2, <4>1, OpenHeadsOf
      <4> QED BY <1>0, <1>2, <3>1, <3>2, <4>2 DEF RunFacts
    <3>3. CASE r # RunOf(d)
      <4>1. \A e \in Drafts : e \in OpenHeads(draft', r) <=> e \in OpenHeads(draft, r)
        <5> TAKE e \in Drafts
        <5>1. CASE RunOf(e) # r
          BY <5>1, OpenHeadsOf
        <5>2. CASE RunOf(e) = r
          <6>1. e[1] # c[1] /\ e # c
            BY <1>1, <3>3, <5>2 DEF RunOf
          <6>2. Head(draft', e) <=> Head(draft, e)
            BY <1>4a, <6>1
          <6> QED BY <1>0, <6>1, <6>2, OpenHeadsOf DEF SameBut
        <5> QED BY <5>1, <5>2
      <4>2. OpenHeads(draft', r) = OpenHeads(draft, r)
        BY <4>1 DEF OpenHeads, DraftsOf
      <4>3. Accepted(draft', r) <=> Accepted(draft, r)
        BY <1>0, <1>1, <3>3 DEF Accepted, DraftsOf, SameBut
      <4> QED BY <1>0, <3>1, <4>2, <4>3 DEF RunFacts
    <3> QED BY <3>2, <3>3
  <2>2. \A e \in Drafts : draft'[e].outcome # "none" => status'[RunOf(e)] # "running"
    BY <1>0, <1>4 DEF RowsInv, RunsOpen
  <2> QED BY <2>1, <2>2, RunPartsNext
<1>8. DecisionsAreReceipted'
  BY <1>0, <1>4 DEF RowsInv, DecisionsAreReceipted
<1>9. DecidedIsReady'
  BY <1>0, <1>4, <1>2, ReadyStays DEF RowsInv, DecidedIsReady
<1> QED BY <1>5, <1>6, <1>7, <1>8, <1>9 DEF RowsInv

LEMMA DecideKeepsRows ==
  ASSUME TypeInv, RowsInv, NEW d \in Drafts, NEW x \in Deciders, DecideMove(x, d)
  PROVE  RowsInv'
<1> DEFINE r == RunOf(d)
           more == {<<"gate.decided", d>>}
<1>0. /\ GateMove /\ SameBut(d) /\ Closes(r, more) /\ r \in Runs
      /\ Undecided(draft, d) /\ Head(draft, d) /\ Ready(d)
      /\ draft'[d].exists /\ draft'[d].eval = draft[d].eval
      /\ draft'[d].outcome \in {"approved", "rejected"}
  BY DraftParts DEF GateMove, DecideMove, ReadyHead, Outcome
<1>1. /\ Unborn /\ OneDecisionPerChain /\ RunsOpen /\ DecisionsAreReceipted
      /\ DecidedIsReady
  BY DEF RowsInv
<1>2. \A e \in Drafts : draft'[e].exists <=> draft[e].exists
  BY <1>0 DEF SameBut, Undecided
<1>3. more \in SUBSET (Kinds \X Drafts)
  BY DEF Kinds
<1>4. Unborn'
  BY <1>0, <1>1 DEF Unborn, SameBut
<1>5. OneDecisionPerChain'
  <2> SUFFICES ASSUME NEW e \in Drafts, Decided(draft', e) PROVE Head(draft', e)
    BY DEF OneDecisionPerChain, Decided, Head
  <2>1. Head(draft, e)
    BY <1>0, <1>1 DEF OneDecisionPerChain, Decided, SameBut
  <2> QED BY <1>2, <2>1, SameHeads
<1>6. RunFacts(draft, status[r], <<"run.completed", r>> \in receipts, r)
        /\ d \in OpenHeads(draft, r)
  BY <1>0, RunParts, OpenHeadsOf DEF RowsInv, Undecided
<1>7. status[r] \in {"awaiting", "stopped"} /\ <<"run.completed", r>> \notin receipts
  <2>1. status[r] \in RunStatus /\ status[r] # "running"
    BY <1>0 DEF TypeInv, RowsTypeOK, Ready
  <2> QED BY <1>6, <2>1 DEF RunFacts, RunStatus
<1> HIDE DEF more
<1>8. RunsOpen' /\ RunCloses'
  <2>1. ASSUME NEW q \in Runs
        PROVE  RunFacts(draft', status'[q], <<"run.completed", q>> \in receipts', q)
    <3>1. CASE q = r
      BY <1>0, <1>3, <1>7, <3>1, ClosesRun
    <3>2. CASE q # r
      <4>1. RunFacts(draft, status[q], <<"run.completed", q>> \in receipts, q)
        BY RunParts DEF RowsInv
      <4>2. \A e \in Drafts : RunOf(e) = q => draft'[e].outcome = draft[e].outcome
        BY <1>0, <3>2 DEF SameBut
      <4>3. RunFacts(draft', status[q], <<"run.completed", q>> \in receipts, q)
        BY <1>2, <4>1, <4>2, SameFacts
      <4>4. status'[q] = status[q]
            /\ (<<"run.completed", q>> \in receipts' <=> <<"run.completed", q>> \in receipts)
        BY <1>0, <1>3, <3>2, ClosesOnly
      <4> QED BY <4>3, <4>4 DEF RunFacts
    <3> QED BY <3>1, <3>2
  <2>2. ASSUME NEW e \in Drafts, draft'[e].outcome # "none"
        PROVE  status'[RunOf(e)] # "running"
    <3>1. status[RunOf(e)] # "running"
      BY <1>0, <1>1, <1>7, <2>2 DEF RunsOpen, SameBut
    <3> QED BY <1>0, <3>1, StatusMoves, DraftParts
  <2> QED BY <2>1, <2>2, RunPartsNext
<1>9. DecisionsAreReceipted'
  <2>1. \A e \in Drafts : <<"gate.decided", e>> \in receipts' <=>
                            e = d \/ <<"gate.decided", e>> \in receipts
    BY <1>0 DEF Closes, Completion, more
  <2> QED BY <1>0, <1>1, <2>1 DEF DecisionsAreReceipted, SameBut
<1>10. DecidedIsReady'
  BY <1>0, <1>1, ReadyStays DEF DecidedIsReady, SameBut
<1> QED BY <1>4, <1>5, <1>8, <1>9, <1>10 DEF RowsInv

LEMMA RejectKeepsRows ==
  ASSUME TypeInv, RowsInv, NEW r \in Runs, RejectMove(r)
  PROVE  RowsInv'
<1>0. /\ GateMove /\ Closes(r, {}) /\ status[r] = "awaiting"
      /\ \A d \in Drafts \ OpenHeads(draft, r) : draft'[d] = draft[d]
      /\ \A d \in OpenHeads(draft, r) : draft'[d].outcome = "withRun" /\ draft'[d].exists
  BY DEF GateMove, RejectMove
<1>1. /\ Unborn /\ OneDecisionPerChain /\ RunsOpen /\ DecisionsAreReceipted
      /\ DecidedIsReady
  BY DEF RowsInv
<1>2. \A d \in OpenHeads(draft, r) : /\ RunOf(d) = r /\ draft[d].exists
                                     /\ draft[d].outcome = "none" /\ Head(draft, d)
  BY DEF OpenHeads, DraftsOf, Undecided
<1>3. \A e \in Drafts : draft'[e].exists <=> draft[e].exists
  BY <1>0, <1>2
<1>4. Unborn'
  BY <1>0, <1>1 DEF Unborn
<1>5. OneDecisionPerChain'
  <2> SUFFICES ASSUME NEW e \in Drafts, Decided(draft', e) PROVE Head(draft', e)
    BY DEF OneDecisionPerChain, Decided, Head
  <2>1. Head(draft, e)
    BY <1>0, <1>1, <1>2 DEF OneDecisionPerChain, Decided
  <2> QED BY <1>3, <2>1, SameHeads
<1>6. {} \in SUBSET (Kinds \X Drafts) /\ <<"run.completed", r>> \notin receipts
  BY <1>0, RunParts DEF RowsInv, RunFacts
<1>7. RunsOpen' /\ RunCloses'
  <2>1. ASSUME NEW q \in Runs
        PROVE  RunFacts(draft', status'[q], <<"run.completed", q>> \in receipts', q)
    <3>1. CASE q = r
      BY <1>0, <1>6, <3>1, ClosesRun
    <3>2. CASE q # r
      <4>1. RunFacts(draft, status[q], <<"run.completed", q>> \in receipts, q)
        BY RunParts DEF RowsInv
      <4>2. \A e \in Drafts : RunOf(e) = q => draft'[e].outcome = draft[e].outcome
        BY <1>0, <1>2, <3>2
      <4>3. RunFacts(draft', status[q], <<"run.completed", q>> \in receipts, q)
        BY <1>3, <4>1, <4>2, SameFacts
      <4>4. status'[q] = status[q]
            /\ (<<"run.completed", q>> \in receipts' <=> <<"run.completed", q>> \in receipts)
        BY <1>0, <1>6, <3>2, ClosesOnly
      <4> QED BY <4>3, <4>4 DEF RunFacts
    <3> QED BY <3>1, <3>2
  <2>2. ASSUME NEW e \in Drafts, draft'[e].outcome # "none"
        PROVE  status'[RunOf(e)] # "running"
    <3>1. status[RunOf(e)] # "running"
      BY <1>0, <1>1, <1>2, <2>2 DEF RunsOpen
    <3> QED BY <1>0, <3>1, StatusMoves, DraftParts
  <2> QED BY <2>1, <2>2, RunPartsNext
<1>8. DecisionsAreReceipted'
  <2>1. \A e \in Drafts : <<"gate.decided", e>> \in receipts' <=>
                            <<"gate.decided", e>> \in receipts
    BY <1>0 DEF Closes, Completion
  <2> QED BY <1>0, <1>1, <1>2, <2>1 DEF DecisionsAreReceipted
<1>9. DecidedIsReady'
  BY <1>0, <1>1, ReadyStays DEF DecidedIsReady
<1> QED BY <1>4, <1>5, <1>7, <1>8, <1>9 DEF RowsInv

LEMMA RowsStep == TypeInv /\ RowsInv /\ [Next]_vars => RowsInv'
<1> SUFFICES ASSUME TypeInv, RowsInv, GateMove PROVE RowsInv'
  BY GateMoves
<1> QED BY RestKeepsRows, EvaluateKeepsRows, InsertKeepsRows, DecideKeepsRows,
           RejectKeepsRows DEF GateMove

LEMMA InitHasRows == Init => RowsInv
<1> SUFFICES ASSUME Init PROVE RowsInv
  OBVIOUS
<1>1. PICK packaged \in SUBSET Roots, diff \in [Roots -> Proposals] :
        /\ \A r \in Runs : \E root \in packaged : RunOfRoot[root] = r
        /\ draft = [d \in Drafts |->
             [FreshRow(diff[d[1]]) EXCEPT !.exists = d[1] \in packaged /\ d[2] = 0]]
  BY DEF Init
<1>2. \A d \in Drafts : /\ draft[d].exists <=> d[1] \in packaged /\ d[2] = 0
                        /\ draft[d].eval = "none" /\ draft[d].outcome = "none"
                        /\ draft[d].by = "nobody"
  BY <1>1 DEF FreshRow
<1>3. status = [r \in Runs |-> "running"] /\ receipts = {}
  BY DEF Init
<1>4. ASSUME NEW r \in Runs PROVE OpenHeads(draft, r) # {}
  <2>1. PICK root \in packaged : RunOfRoot[root] = r
    BY <1>1
  <2> DEFINE d == <<root, 0>>
  <2>2. d \in Drafts /\ RunOf(d) = r /\ d[1] = root /\ d[2] = 0
    BY <2>1, DraftParts, GateBounds DEF RunOf
  <2>3. \A n \in d[2] + 1 .. MaxRevisions : ~draft[<<d[1], n>>].exists
    <3> TAKE n \in d[2] + 1 .. MaxRevisions
    <3>1. n \in 0 .. MaxRevisions /\ n # 0
      BY <2>2, GateBounds
    <3>2. <<d[1], n>> \in Drafts /\ <<d[1], n>>[2] # 0
      BY <2>2, <3>1, DraftParts
    <3> QED BY <1>2, <3>2
  <2> HIDE DEF d
  <2> QED BY <1>2, <2>1, <2>2, <2>3, OpenHeadsOf DEF Head
<1>5. Unborn /\ OneDecisionPerChain /\ DecisionsAreReceipted /\ DecidedIsReady
  BY <1>2, <1>3 DEF Unborn, OneDecisionPerChain, Decided, DecisionsAreReceipted,
                    DecidedIsReady
<1>6. RunsOpen /\ RunCloses
  BY <1>2, <1>3, <1>4 DEF RunsOpen, RunCloses
<1> QED BY <1>5, <1>6 DEF RowsInv

LEMMA TypeInvariant == Spec => []TypeInv
BY InitTypeInv, TypeStep, PTL DEF Spec
LEMMA RowsInvariant == Spec => []RowsInv
<1>1. Init => RowsInv
  BY InitHasRows
<1>2. TypeInv /\ RowsInv /\ [Next]_vars => RowsInv'
  BY RowsStep
<1> QED BY <1>1, <1>2, TypeInvariant, PTL DEF Spec
-----------------------------------------------------------------------------
(* Who decides, and what he was shown.                                      *)

MayApprove(d) == RunOf(d) \in YoloRuns /\ Unblocked(draft[d])
\* What a decider was shown was evaluated, so it is still what the Draft says.
Sees(rec) ==
  /\ rec.pc # "idle" => /\ draft[rec.draft].eval # "none"
                        /\ draft[rec.draft].diff = rec.shown.diff
  /\ rec.pc = "commit" => rec.snap.diff = rec.shown.diff
PassOk(rec, decider) ==
  /\ rec.pc # "idle" => rec.run \in YoloRuns
  /\ \A d \in rec.approve : MayApprove(d)
  /\ \A d \in rec.unhealed : AgentApproved(d)
  /\ rec.pc = "receipt" => AgentApproved(rec.draft)
  /\ decider.pc # "idle" => /\ decider.draft = rec.draft /\ decider.action = "approve"
                            /\ MayApprove(rec.draft)
ActorsInv ==
  /\ \A x \in Deciders : Sees(ds[x])
  /\ \A p \in Passes : PassOk(ps[p], ds[p])
ApprovalsAreReal == \A d \in Drafts : validated[d] = "approve" => AgentApproved(d)

LEMMA PermissionStays ==
  ASSUME TypeInv, Unborn, GateMove, NEW d \in Drafts
  PROVE  /\ MayApprove(d) => MayApprove(d)'
         /\ AgentApproved(d) => AgentApproved(d)'
BY RowsStay DEF Stays, MayApprove, Unblocked, AgentApproved

LEMMA SeesStays ==
  ASSUME TypeInv, Unborn, GateMove, NEW rec \in DeciderRecord, DeciderBusy(rec), Sees(rec)
  PROVE  Sees(rec)'
<1>1. CASE rec.pc = "idle"
  BY <1>1 DEF Sees
<1>2. CASE rec.pc # "idle"
  <2>1. rec.draft \in Drafts
    BY <1>2 DEF DeciderBusy
  <2>2. Stays(rec.draft)
    BY <2>1, RowsStay
  <2> QED BY <1>2, <2>2 DEF Sees, Stays
<1> QED BY <1>1, <1>2

LEMMA PassOkStays ==
  ASSUME TypeInv, Unborn, GateMove, NEW rec \in PassRecord, NEW decider \in DeciderRecord,
         PassBusy(rec, decider), PassOk(rec, decider)
  PROVE  PassOk(rec, decider)'
<1>1. rec.approve \subseteq Drafts /\ rec.unhealed \subseteq Drafts
  BY DEF PassRecord
<1>2. \A d \in rec.approve : MayApprove(d)'
  BY <1>1, PermissionStays DEF PassOk
<1>3. \A d \in rec.unhealed : AgentApproved(d)'
  BY <1>1, PermissionStays DEF PassOk
<1>4. rec.pc = "receipt" => AgentApproved(rec.draft)'
  BY PermissionStays DEF PassOk, PassBusy
<1>5. decider.pc # "idle" => MayApprove(rec.draft)'
  BY PermissionStays DEF PassOk, PassBusy
<1> QED BY <1>2, <1>3, <1>4, <1>5 DEF PassOk

\* It is enough to look at the executions a step touches.
LEMMA ActorsKeep ==
  ASSUME TypeInv, Unborn, GateMove, ActorsInv,
         \A x \in Deciders : ds'[x] = ds[x] \/ Sees(ds[x])',
         \A p \in Passes : (ps'[p] = ps[p] /\ ds'[p] = ds[p]) \/ PassOk(ps[p], ds[p])'
  PROVE  ActorsInv'
<1>1. ASSUME NEW x \in Deciders, ds'[x] = ds[x] PROVE Sees(ds[x])'
  <2>1. PICK rec : rec = ds[x]
    OBVIOUS
  <2>2. rec \in DeciderRecord /\ DeciderBusy(rec) /\ Sees(rec)
    BY <2>1 DEF TypeInv, ActorsTypeOK, ActorsInv
  <2>3. Sees(rec)'
    BY <2>2, SeesStays
  <2> QED BY <1>1, <2>1, <2>3 DEF Sees
<1>2. ASSUME NEW p \in Passes, ps'[p] = ps[p], ds'[p] = ds[p] PROVE PassOk(ps[p], ds[p])'
  <2>1. PICK rec, decider : rec = ps[p] /\ decider = ds[p]
    OBVIOUS
  <2>2. /\ rec \in PassRecord /\ decider \in DeciderRecord /\ PassBusy(rec, decider)
        /\ PassOk(rec, decider)
    BY <2>1 DEF TypeInv, ActorsTypeOK, ActorsInv, Deciders
  <2>3. PassOk(rec, decider)'
    BY <2>2, PassOkStays
  <2> QED BY <1>2, <2>1, <2>3 DEF PassOk
<1> QED BY <1>1, <1>2 DEF ActorsInv

LEMMA ActorsAtRest ==
  ASSUME TypeInv, Unborn, GateMove, ActorsInv, UNCHANGED <<ds, ps>>
  PROVE  ActorsInv'
BY ActorsKeep

LEMMA AnswerKeeps ==
  ASSUME TypeInv, Unborn, GateMove, ActorsInv, NEW x \in Deciders, NEW approved \in BOOLEAN,
         ds[x].pc # "idle", Answer(x, approved), NEW d \in Drafts, d = ds[x].draft,
         x \in Passes /\ approved => AgentApproved(d)'
  PROVE  ActorsInv'
<1>0. ds \in [Deciders -> DeciderRecord] /\ ps \in [Passes -> PassRecord]
  BY DEF TypeInv, ActorsTypeOK
<1>1. \A y \in Deciders : ds'[y] = ds[y] \/ Sees(ds[y])'
  BY <1>0 DEF Answer, Sees, IdleDecider
<1>2. ASSUME NEW p \in Passes, p # x
      PROVE  ps'[p] = ps[p] /\ ds'[p] = ds[p]
  BY <1>0, <1>2 DEF Answer, Deciders
<1>3. ASSUME x \in Passes PROVE PassOk(ps[x], ds[x])'
  <2>1. PICK rec, decider : rec = ps[x] /\ decider = ds[x]
    OBVIOUS
  <2>2. /\ rec \in PassRecord /\ decider \in DeciderRecord /\ PassBusy(rec, decider)
        /\ PassOk(rec, decider) /\ decider.pc # "idle" /\ rec.draft = d
    BY <1>3, <2>1 DEF TypeInv, ActorsTypeOK, ActorsInv, PassOk
  <2>3. PassOk(rec, decider)'
    BY <2>2, PassOkStays
  <2>4. /\ ds'[x] = IdleDecider
        /\ ps'[x] = [rec EXCEPT !.pc = IF approved THEN "receipt" ELSE "next"]
    BY <1>0, <1>3, <2>1 DEF Answer
  <2>5. /\ ps'[x].run = rec.run /\ ps'[x].approve = rec.approve
        /\ ps'[x].unhealed = rec.unhealed /\ ps'[x].draft = rec.draft
        /\ ps'[x].pc = IF approved THEN "receipt" ELSE "next"
        /\ ds'[x].pc = "idle" /\ rec.pc # "idle"
    BY <2>2, <2>4 DEF PassRecord, IdleDecider, PassBusy
  <2>6. approved => AgentApproved(rec.draft)'
    BY <1>3, <2>2
  <2> QED BY <2>3, <2>5, <2>6 DEF PassOk
<1> QED BY <1>1, <1>2, <1>3, ActorsKeep

LEMMA DecideKeepsActors ==
  ASSUME TypeInv, Unborn, GateMove, ActorsInv, DecideStep
  PROVE  ActorsInv'
<1>0. /\ ds \in [Deciders -> DeciderRecord] /\ ps \in [Passes -> PassRecord]
      /\ \A x \in Deciders : DeciderBusy(ds[x])
  BY DEF TypeInv, ActorsTypeOK
<1>1. ASSUME NEW h \in Handlers, NEW d \in Drafts, NEW action, NEW accepted,
             Choose(h, d, action, accepted)
      PROVE  ActorsInv'
  <2>1. h \in Deciders /\ h \notin Passes
    BY GateActors DEF Deciders
  <2> DEFINE rec == [pc |-> "read", draft |-> d, action |-> action,
                     accepted |-> accepted, shown |-> draft[d], snap |-> None]
  <2>2. /\ rec.pc = "read" /\ rec.draft = d /\ rec.shown = draft[d]
        /\ ds' = [ds EXCEPT ![h] = rec] /\ UNCHANGED <<ps, draft>>
        /\ draft[d].eval # "none"
    BY <1>1 DEF Choose, dbVars, ReadyHead, Ready, Evaluated
  <2> HIDE DEF rec
  <2>3. Sees(ds[h])'
    BY <1>0, <2>1, <2>2 DEF Sees
  <2> QED BY <1>0, <2>1, <2>2, <2>3, ActorsKeep
<1>2. ASSUME NEW x \in Deciders, ReadDraft(x) PROVE ActorsInv'
  <2> DEFINE d == ds[x].draft
  <2>1. d \in Drafts /\ UNCHANGED draft /\ ds[x].pc = "read"
    BY <1>0, <1>2 DEF ReadDraft, DeciderBusy, dbVars
  <2>2. CASE ReadyHead(d)
    <3> DEFINE rec == [ds[x] EXCEPT !.pc = "commit", !.snap = draft[d]]
    <3>1. ds' = [ds EXCEPT ![x] = rec] /\ UNCHANGED <<ps, draft>>
      BY <1>0, <1>2, <2>1, <2>2 DEF ReadDraft, DeciderRecord
    <3>2. /\ rec.pc = "commit" /\ rec.draft = d /\ rec.shown = ds[x].shown
          /\ rec.snap = draft[d] /\ rec.action = ds[x].action
      BY <1>0 DEF DeciderRecord
    <3> HIDE DEF rec
    <3>3. Sees(ds[x]) /\ ds'[x] = rec
      BY <1>0, <3>1 DEF ActorsInv
    <3>4. Sees(ds[x])'
      BY <2>1, <3>1, <3>2, <3>3 DEF Sees
    <3>5. x \in Passes => PassOk(ps[x], ds[x])'
      BY <2>1, <3>1, <3>2, <3>3 DEF PassOk, MayApprove, AgentApproved, ActorsInv
    <3> QED BY <1>0, <3>1, <3>4, <3>5, ActorsKeep DEF Deciders
  <2>3. CASE ~ReadyHead(d)
    <3>1. Answer(x, AgentApproved(d)) /\ AgentApproved(d) \in BOOLEAN
      BY <1>2, <2>3 DEF ReadDraft, AgentApproved
    <3>2. PICK c \in Drafts : c = d /\ (AgentApproved(c) => AgentApproved(c)')
      BY <2>1, PermissionStays
    <3> QED BY <2>1, <3>1, <3>2, AnswerKeeps
  <2> QED BY <2>2, <2>3
<1>3. ASSUME NEW x \in Deciders, Commit(x) PROVE ActorsInv'
  <2>1. PICK d \in Drafts : d = ds[x].draft /\ DecideMove(x, d)
    BY <1>3, CommitIsMove
  <2>2. Answer(x, TRUE) /\ ds[x].pc # "idle"
    BY <1>3 DEF Commit
  <2>3. ASSUME x \in Passes PROVE AgentApproved(d)'
    <3>1. ds[x].action = "approve"
      BY <2>2, <2>3 DEF ActorsInv, PassOk
    <3> QED BY <2>1, <2>3, <3>1 DEF DecideMove, Outcome, By, AgentApproved
  <2> QED BY <2>1, <2>2, <2>3, AnswerKeeps
<1>4. ASSUME NEW x \in Deciders, Conflict(x) PROVE ActorsInv'
  <2>1. PICK d \in Drafts : d = ds[x].draft
    BY <1>0, <1>4 DEF Conflict, DeciderBusy
  <2> QED BY <1>4, <2>1, AnswerKeeps DEF Conflict
<1>5. ASSUME NEW r \in Runs, RejectRun(r) PROVE ActorsInv'
  BY <1>5, ActorsAtRest DEF RejectRun
<1>6. ASSUME NEW h \in Handlers, EvictDecider(h) PROVE ActorsInv'
  <2>1. h \in Deciders /\ h \notin Passes
    BY GateActors DEF Deciders
  <2>2. ds' = [ds EXCEPT ![h] = IdleDecider] /\ UNCHANGED ps
    BY <1>6 DEF EvictDecider
  <2>3. Sees(ds[h])'
    BY <1>0, <2>1, <2>2 DEF Sees, IdleDecider
  <2> QED BY <1>0, <2>1, <2>2, <2>3, ActorsKeep
<1> QED BY <1>1, <1>2, <1>3, <1>4, <1>5, <1>6 DEF DecideStep

\* A pass that moves while it decides nothing.
LEMMA PassMovesOn ==
  ASSUME TypeInv, Unborn, GateMove, ActorsInv, NEW p \in Passes, NEW rec \in PassRecord,
         ps' = [ps EXCEPT ![p] = rec], UNCHANGED <<ds, draft>>,
         ps[p].pc # "deciding",
         rec.pc # "idle" => rec.run \in YoloRuns,
         \A d \in rec.approve : MayApprove(d),
         \A d \in rec.unhealed : AgentApproved(d),
         rec.pc # "receipt"
  PROVE  ActorsInv'
<1>1. ps \in [Passes -> PassRecord] /\ ds[p].pc = "idle"
  BY DEF TypeInv, ActorsTypeOK, PassBusy
<1>2. ps'[p] = rec
  BY <1>1
<1>3. \A d \in rec.approve : MayApprove(d)'
  BY DEF MayApprove
<1>4. \A d \in rec.unhealed : AgentApproved(d)'
  BY DEF AgentApproved
<1>5. PassOk(ps[p], ds[p])'
  BY <1>1, <1>2, <1>3, <1>4 DEF PassOk
<1> QED BY <1>1, <1>5, ActorsKeep

LEMMA PassKeepsActors ==
  ASSUME TypeInv, Unborn, GateMove, ActorsInv, PassStep
  PROVE  ActorsInv'
<1> PICK p \in Passes :
       \/ \E r \in Runs : StartPass(p, r)
       \/ \E confident \in Confident : ListDrafts(p, confident)
       \/ AppendApproval(p) \/ EndPass(p)
       \/ EvictPass(p)
       \/ \E d \in Drafts :
            \/ Escalate(p, d) \/ Heal(p, d)
            \/ \E accepted \in {{}, draft[d].diff.optional} : Approve(p, d, accepted)
  BY DEF PassStep
<1>0. /\ ds \in [Deciders -> DeciderRecord] /\ ps \in [Passes -> PassRecord]
      /\ p \in Deciders /\ ps[p] \in PassRecord /\ PassOk(ps[p], ds[p])
  BY DEF TypeInv, ActorsTypeOK, Deciders, ActorsInv
<1>1. ASSUME NEW r \in Runs, StartPass(p, r) PROVE ActorsInv'
  <2> DEFINE rec == [IdlePass EXCEPT !.pc = "list", !.run = r]
  <2>1. /\ rec \in PassRecord /\ rec.pc = "list" /\ rec.run \in YoloRuns
        /\ rec.approve = {} /\ rec.unhealed = {}
    BY <1>1 DEF IdlePass, PassRecord, StartPass
  <2>2. /\ ps' = [ps EXCEPT ![p] = rec] /\ UNCHANGED <<ds, draft>> /\ ps[p].pc = "idle"
    BY <1>1 DEF StartPass, SetPass, dbVars
  <2> HIDE DEF rec
  <2> QED BY <2>1, <2>2, PassMovesOn
<1>2. ASSUME NEW confident \in Confident, ListDrafts(p, confident) PROVE ActorsInv'
  <2>1. PICK approve, escalate, unhealed :
          /\ approve \subseteq Drafts /\ escalate \subseteq Drafts /\ unhealed \subseteq Drafts
          /\ \A d \in approve : RunOf(d) = ps[p].run /\ Unblocked(draft[d])
          /\ \A d \in unhealed : AgentApproved(d)
          /\ ps' = [ps EXCEPT ![p] = [ps[p] EXCEPT !.pc = "next", !.approve = approve,
                       !.escalate = escalate, !.unhealed = unhealed]]
    <3> DEFINE mine == DraftsOf(ps[p].run)
               pending == {d \in mine : Undecided(draft, d)}
               eligible == {d \in pending \cap confident : Unblocked(draft[d])}
               unhealed == {d \in mine : draft[d].exists /\ AgentApproved(d)}
    <3>1. /\ mine \subseteq Drafts /\ pending \subseteq mine /\ eligible \subseteq pending
          /\ unhealed \subseteq mine
          /\ \A d \in mine : RunOf(d) = ps[p].run
          /\ \A d \in eligible : Unblocked(draft[d])
          /\ \A d \in unhealed : AgentApproved(d)
      BY DEF DraftsOf
    <3>2. ps' = [ps EXCEPT ![p] = [ps[p] EXCEPT !.pc = "next", !.approve = eligible,
                   !.escalate = pending \ eligible, !.unhealed = unhealed]]
      BY <1>2 DEF ListDrafts, SetPass
    <3> HIDE DEF mine, pending, eligible, unhealed
    <3> QED BY <3>1, <3>2
  <2> DEFINE rec == [ps[p] EXCEPT !.pc = "next", !.approve = approve,
                       !.escalate = escalate, !.unhealed = unhealed]
  <2>2. UNCHANGED <<ds, draft>> /\ ps[p].pc = "list"
    BY <1>2 DEF ListDrafts, dbVars
  <2>3. /\ rec \in PassRecord /\ rec.pc = "next" /\ rec.run = ps[p].run
        /\ rec.approve = approve /\ rec.unhealed = unhealed
    BY <1>0, <2>1 DEF PassRecord
  <2>4. ps[p].run \in YoloRuns
    BY <1>0, <2>2 DEF PassOk
  <2>5. \A d \in rec.approve : MayApprove(d)
    BY <2>1, <2>3, <2>4 DEF MayApprove
  <2>6. \A d \in rec.unhealed : AgentApproved(d)
    BY <2>1, <2>3
  <2>7. ps' = [ps EXCEPT ![p] = rec]
    BY <2>1
  <2> HIDE DEF rec
  <2> QED BY <2>2, <2>3, <2>4, <2>5, <2>6, <2>7, PassMovesOn
<1>3. ASSUME AppendApproval(p) PROVE ActorsInv'
  <2> DEFINE rec == [ps[p] EXCEPT !.pc = "next", !.draft = None]
  <2>1. /\ rec \in PassRecord /\ rec.pc = "next" /\ rec.run = ps[p].run
        /\ rec.approve = ps[p].approve /\ rec.unhealed = ps[p].unhealed
    BY <1>0 DEF PassRecord
  <2>2. ps' = [ps EXCEPT ![p] = rec] /\ UNCHANGED <<ds, draft>> /\ ps[p].pc = "receipt"
    BY <1>3 DEF AppendApproval, SetPass
  <2> HIDE DEF rec
  <2> QED BY <1>0, <2>1, <2>2, PassMovesOn DEF PassOk
<1>4. ASSUME EndPass(p) PROVE ActorsInv'
  <2>1. /\ IdlePass \in PassRecord /\ IdlePass.pc = "idle"
        /\ IdlePass.approve = {} /\ IdlePass.unhealed = {}
    BY IdleTypes DEF IdlePass
  <2>2. ps' = [ps EXCEPT ![p] = IdlePass] /\ UNCHANGED <<ds, draft>> /\ ps[p].pc = "next"
    BY <1>4 DEF EndPass, SetPass, dbVars
  <2> QED BY <2>1, <2>2, PassMovesOn
<1>5. ASSUME EvictPass(p) PROVE ActorsInv'
  <2>1. /\ ps' = [ps EXCEPT ![p] = IdlePass] /\ ds' = [ds EXCEPT ![p] = IdleDecider]
    BY <1>5 DEF EvictPass
  <2>2. ps'[p] = IdlePass /\ ds'[p] = IdleDecider
    BY <1>0, <2>1
  <2>3. Sees(ds[p])' /\ PassOk(ps[p], ds[p])'
    BY <2>2 DEF Sees, PassOk, IdlePass, IdleDecider
  <2>4. \A x \in Deciders : x # p => ds'[x] = ds[x]
    BY <1>0, <2>1
  <2>5. \A q \in Passes : q # p => ps'[q] = ps[q] /\ ds'[q] = ds[q]
    BY <1>0, <2>1 DEF Deciders
  <2> QED BY <2>3, <2>4, <2>5, ActorsKeep
<1>6. ASSUME NEW d \in Drafts, Escalate(p, d) PROVE ActorsInv'
  <2> DEFINE rec == [ps[p] EXCEPT !.escalate = @ \ {d}]
  <2>1. /\ rec \in PassRecord /\ rec.pc = ps[p].pc /\ rec.run = ps[p].run
        /\ rec.approve = ps[p].approve /\ rec.unhealed = ps[p].unhealed
    BY <1>0 DEF PassRecord
  <2>2. ps' = [ps EXCEPT ![p] = rec] /\ UNCHANGED <<ds, draft>> /\ ps[p].pc = "next"
    BY <1>6 DEF Escalate, SetPass
  <2> HIDE DEF rec
  <2> QED BY <1>0, <2>1, <2>2, PassMovesOn DEF PassOk
<1>7. ASSUME NEW d \in Drafts, Heal(p, d) PROVE ActorsInv'
  <2> DEFINE rec == [ps[p] EXCEPT !.unhealed = @ \ {d}]
  <2>1. /\ rec \in PassRecord /\ rec.pc = ps[p].pc /\ rec.run = ps[p].run
        /\ rec.approve = ps[p].approve /\ rec.unhealed \subseteq ps[p].unhealed
    BY <1>0 DEF PassRecord
  <2>2. ps' = [ps EXCEPT ![p] = rec] /\ UNCHANGED <<ds, draft>> /\ ps[p].pc = "next"
    BY <1>7 DEF Heal, SetPass
  <2> HIDE DEF rec
  <2> QED BY <1>0, <2>1, <2>2, PassMovesOn DEF PassOk
<1>8. ASSUME NEW d \in Drafts, NEW accepted, Approve(p, d, accepted) PROVE ActorsInv'
  <2> DEFINE rec == [ps[p] EXCEPT !.pc = "deciding", !.draft = d, !.approve = @ \ {d}]
             decider == [pc |-> "read", draft |-> d, action |-> "approve",
                         accepted |-> accepted, shown |-> draft[d], snap |-> None]
  <2>1. /\ ps' = [ps EXCEPT ![p] = rec] /\ ds' = [ds EXCEPT ![p] = decider]
        /\ UNCHANGED draft /\ ps[p].pc = "next" /\ d \in ps[p].approve
    BY <1>8 DEF Approve, SetPass, dbVars
  <2>2. /\ rec.pc = "deciding" /\ rec.run = ps[p].run /\ rec.draft = d
        /\ rec.approve \subseteq ps[p].approve /\ rec.unhealed = ps[p].unhealed
        /\ decider.pc = "read" /\ decider.draft = d /\ decider.action = "approve"
        /\ decider.shown = draft[d]
    BY <1>0 DEF PassRecord
  <2> HIDE DEF rec, decider
  <2>3. ps'[p] = rec /\ ds'[p] = decider
    BY <1>0, <2>1
  <2>4. /\ ps[p].run \in YoloRuns /\ MayApprove(d)
        /\ \A e \in rec.approve : MayApprove(e)
        /\ \A e \in rec.unhealed : AgentApproved(e)
    BY <1>0, <2>1, <2>2 DEF PassOk
  <2>5. /\ MayApprove(d)' /\ \A e \in rec.approve : MayApprove(e)'
        /\ \A e \in rec.unhealed : AgentApproved(e)'
    BY <2>1, <2>4 DEF MayApprove, AgentApproved
  <2>6. PassOk(ps[p], ds[p])'
    BY <2>2, <2>3, <2>4, <2>5 DEF PassOk
  <2>7. Sees(ds[p])'
    BY <2>1, <2>2, <2>3, <2>4 DEF Sees, MayApprove, Unblocked
  <2>8. \A x \in Deciders : x # p => ds'[x] = ds[x]
    BY <1>0, <2>1
  <2>9. \A q \in Passes : q # p => ps'[q] = ps[q] /\ ds'[q] = ds[q]
    BY <1>0, <2>1 DEF Deciders
  <2> QED BY <2>6, <2>7, <2>8, <2>9, ActorsKeep
<1> QED BY <1>1, <1>2, <1>3, <1>4, <1>5, <1>6, <1>7, <1>8

LEMMA ActorsStep == TypeInv /\ Unborn /\ ActorsInv /\ [Next]_vars => ActorsInv'
<1> SUFFICES ASSUME TypeInv, Unborn, ActorsInv, [Next]_vars, GateMove PROVE ActorsInv'
  BY GateMoves
<1>1. CASE ReviewStep
  <2>1. UNCHANGED <<ds, ps>>
    BY <1>1 DEF ReviewStep, Review, EvaluateRevision, Enforce, FinishAwaiting, BudgetStop
  <2> QED BY <2>1, ActorsAtRest
<1>2. CASE ReviseStep
  <2>1. UNCHANGED <<ds, ps>>
    BY <1>2 DEF ReviseStep, Revise, InsertRevision, RevisionFails, EnforceRevision,
                RevisionDone, EvictReviser
  <2> QED BY <2>1, ActorsAtRest
<1>3. CASE UNCHANGED vars
  BY <1>3, ActorsAtRest DEF vars
<1> QED BY <1>1, <1>2, <1>3, DecideKeepsActors, PassKeepsActors DEF Next

LEMMA BoundsStep ==
  ASSUME TypeInv, RowsInv, ActorsInv, AgentStaysInBounds, GateMove
  PROVE  AgentStaysInBounds'
<1>0. Unborn
  BY DEF RowsInv
<1> SUFFICES ASSUME NEW d \in Drafts, AgentApproved(d)'
             PROVE  RunOf(d) \in YoloRuns /\ draft'[d].eval = "clear" /\ ~Blocks(draft'[d].diff)
  BY DEF AgentStaysInBounds
<1>1. CASE draft[d].outcome # "none"
  <2>1. draft'[d] = draft[d]
    BY <1>0, <1>1, RowsStay DEF Stays
  <2> QED BY <2>1 DEF AgentStaysInBounds, AgentApproved
<1>2. CASE draft[d].outcome = "none"
  <2>1. PICK x \in Deciders : DecideMove(x, d)
    <3>1. ~RestMove
      BY <1>2 DEF RestMove, AgentApproved
    <3>2. ASSUME NEW e \in Drafts, EvaluateMove(e) PROVE FALSE
      BY <1>2, <3>2 DEF EvaluateMove, SameBut, AgentApproved
    <3>3. ASSUME NEW e \in Drafts, InsertMove(e) PROVE FALSE
      BY <1>2, <3>3 DEF InsertMove, SameBut, AgentApproved
    <3>4. ASSUME NEW r \in Runs, RejectMove(r) PROVE FALSE
      BY <1>2, <3>4 DEF RejectMove, AgentApproved
    <3>5. PICK e \in Drafts, x \in Deciders : DecideMove(x, e)
      BY <3>1, <3>2, <3>3, <3>4 DEF GateMove
    <3>6. e = d
      BY <1>2, <3>5 DEF DecideMove, SameBut, AgentApproved
    <3> QED BY <3>5, <3>6
  <2>2. x \in Passes
    BY <2>1 DEF DecideMove, By, AgentApproved
  <2>3. MayApprove(d)
    BY <2>1, <2>2 DEF DecideMove, ActorsInv, PassOk
  <2> QED BY <2>1, <2>3 DEF DecideMove, MayApprove, Unblocked
<1> QED BY <1>1, <1>2

LEMMA ApprovalsStep ==
  ASSUME TypeInv, Unborn, ActorsInv, ApprovalsAreReal, [Next]_vars
  PROVE  ApprovalsAreReal'
<1>0. GateMove /\ validated \in [Drafts -> {"none", "approve", "escalate"}]
  BY GateMoves DEF TypeInv, RowsTypeOK
<1>1. ASSUME UNCHANGED validated PROVE ApprovalsAreReal'
  BY <1>0, <1>1, PermissionStays DEF ApprovalsAreReal
<1>2. ASSUME NEW d \in Drafts, Validate(d, "escalate") PROVE ApprovalsAreReal'
  <2>1. \A e \in Drafts : validated'[e] = "approve" => validated[e] = "approve"
    BY <1>0, <1>2 DEF Validate
  <2> QED BY <1>0, <2>1, PermissionStays DEF ApprovalsAreReal
<1>3. ASSUME NEW d \in Drafts, Validate(d, "approve"), AgentApproved(d)
      PROVE  ApprovalsAreReal'
  <2>1. \A e \in Drafts : validated'[e] = "approve" => validated[e] = "approve" \/ e = d
    BY <1>0, <1>3 DEF Validate
  <2> QED BY <1>0, <1>3, <2>1, PermissionStays DEF ApprovalsAreReal
<1>4. CASE ReviewStep
  BY <1>1, <1>4 DEF ReviewStep, Review, EvaluateRevision, Enforce, FinishAwaiting, BudgetStop
<1>5. CASE DecideStep
  BY <1>1, <1>5 DEF DecideStep, Choose, ReadDraft, Commit, Conflict, RejectRun,
                    EvictDecider, dbVars
<1>6. CASE ReviseStep
  BY <1>1, <1>6 DEF ReviseStep, Revise, InsertRevision, RevisionFails, EnforceRevision,
                    RevisionDone, EvictReviser, dbVars
<1>7. CASE UNCHANGED vars
  BY <1>1, <1>7 DEF vars
<1>8. CASE PassStep
  <2> PICK p \in Passes :
       \/ \E r \in Runs : StartPass(p, r)
       \/ \E confident \in Confident : ListDrafts(p, confident)
       \/ AppendApproval(p) \/ EndPass(p)
       \/ EvictPass(p)
       \/ \E d \in Drafts :
            \/ Escalate(p, d) \/ Heal(p, d)
            \/ \E accepted \in {{}, draft[d].diff.optional} : Approve(p, d, accepted)
    BY <1>8 DEF PassStep
  <2>0. PassOk(ps[p], ds[p]) /\ PassBusy(ps[p], ds[p])
    BY DEF ActorsInv, TypeInv, ActorsTypeOK
  <2>1. ASSUME NEW d \in Drafts, Escalate(p, d) PROVE ApprovalsAreReal'
    BY <1>2, <2>1 DEF Escalate
  <2>2. ASSUME NEW d \in Drafts, Heal(p, d) PROVE ApprovalsAreReal'
    <3>1. AgentApproved(d)
      BY <2>0, <2>2 DEF Heal, First, PassOk
    <3> QED BY <1>1, <1>3, <2>2, <3>1 DEF Heal
  <2>3. ASSUME AppendApproval(p) PROVE ApprovalsAreReal'
    <3>1. ps[p].draft \in Drafts /\ AgentApproved(ps[p].draft)
      BY <2>0, <2>3 DEF AppendApproval, PassOk, PassBusy
    <3> QED BY <1>3, <2>3, <3>1 DEF AppendApproval
  <2>4. ASSUME \/ \E r \in Runs : StartPass(p, r)
               \/ \E confident \in Confident : ListDrafts(p, confident)
               \/ EndPass(p) \/ EvictPass(p)
               \/ \E d \in Drafts : \E accepted : Approve(p, d, accepted)
        PROVE  ApprovalsAreReal'
    BY <1>1, <2>4 DEF StartPass, ListDrafts, EndPass, EvictPass, Approve, dbVars
  <2> QED BY <2>1, <2>2, <2>3, <2>4
<1> QED BY <1>4, <1>5, <1>6, <1>7, <1>8 DEF Next

LEMMA InitHasActors == Init => ActorsInv /\ ApprovalsAreReal /\ AgentStaysInBounds
<1> SUFFICES ASSUME Init PROVE ActorsInv /\ ApprovalsAreReal /\ AgentStaysInBounds
  OBVIOUS
<1>1. ActorsInv
  <2>1. /\ \A x \in Deciders : ds[x] = IdleDecider
        /\ \A p \in Passes : ps[p] = IdlePass /\ ds[p] = IdleDecider
    BY DEF Init, Deciders
  <2> QED BY <2>1 DEF ActorsInv, Sees, PassOk, IdleDecider, IdlePass
<1>2. ApprovalsAreReal
  BY DEF Init, ApprovalsAreReal
<1>3. \A d \in Drafts : draft[d].outcome = "none"
  <2>1. PICK packaged \in SUBSET Roots, diff \in [Roots -> Proposals] :
          draft = [d \in Drafts |->
             [FreshRow(diff[d[1]]) EXCEPT !.exists = d[1] \in packaged /\ d[2] = 0]]
    BY DEF Init
  <2> QED BY <2>1 DEF FreshRow
<1> QED BY <1>1, <1>2, <1>3 DEF AgentStaysInBounds, AgentApproved

\* The gate's inductive invariant.
GateInv == RowsInv /\ ActorsInv /\ ApprovalsAreReal /\ AgentStaysInBounds

LEMMA GateInvariant == Spec => []GateInv
<1>1. Init => GateInv
  BY InitHasRows, InitHasActors DEF GateInv
<1>2. TypeInv /\ GateInv /\ [Next]_vars => GateInv'
  <2> SUFFICES ASSUME TypeInv, GateInv, [Next]_vars PROVE GateInv'
    OBVIOUS
  <2>1. RowsInv /\ Unborn /\ ActorsInv /\ ApprovalsAreReal /\ AgentStaysInBounds /\ GateMove
    BY GateMoves DEF GateInv, RowsInv
  <2> QED BY <2>1, RowsStep, ActorsStep, ApprovalsStep, BoundsStep DEF GateInv
<1> QED BY <1>1, <1>2, TypeInvariant, PTL DEF Spec

\* A chain of revisions is decided once and at its head; a Run closes when, and
\* as, its last Draft was decided; Evidence says exactly what happened; decide()
\* takes no Draft that its evaluation, guardrails and revision receipt have not
\* reached; and the pass stays in its bounds: whatever handlers, passes and
\* revisers do at the same time, and wherever they are evicted.
THEOREM GateStaysConsistent == Spec => []GateIsConsistent
<1>1. GateInv => GateIsConsistent
  BY DEF GateInv, RowsInv, GateIsConsistent, ReceiptsAgree, DecisionsAreReceipted,
         ApprovalsAreReal
<1> QED BY <1>1, GateInvariant, PTL
-----------------------------------------------------------------------------
(* What is published.                                                       *)

LEMMA OnlyCommitPublishes ==
  ASSUME TypeInv, [Next]_vars, record' # record
  PROVE  \E x \in Deciders : Commit(x) /\ Publishes(x)
<1>1. ~ReviewStep
  BY DEF ReviewStep, Review, EvaluateRevision, Enforce, FinishAwaiting, BudgetStop
<1>2. ~ReviseStep
  BY DEF ReviseStep, Revise, InsertRevision, RevisionFails, EnforceRevision,
         RevisionDone, EvictReviser, dbVars
<1>3. ~PassStep
  BY DEF PassStep, StartPass, ListDrafts, AppendApproval, EndPass, EvictPass, Escalate,
         Heal, Approve, dbVars
<1>4. ~UNCHANGED vars
  BY DEF vars
<1>5. DecideStep
  BY <1>1, <1>2, <1>3, <1>4 DEF Next
<1>6. PICK x \in Deciders : Commit(x)
  BY <1>5 DEF DecideStep, Choose, ReadDraft, Conflict, RejectRun, EvictDecider, dbVars
<1> QED BY <1>6 DEF Commit

LEMMA CommitPublishes ==
  ASSUME TypeInv, GateInv, NEW x \in Deciders, Commit(x), Publishes(x)
  PROVE  LET d == ds[x].draft
             shown == ds[x].shown.diff
         IN /\ ds[x].pc = "commit" /\ draft'[d].outcome = "approved"
            /\ draft[d].outcome = "none" /\ draft'[d].diff = shown
            /\ \A c \in Cells :
                 record'[c] = IF c \in Written(shown, ds[x].accepted)
                              THEN shown.to[c] ELSE record[c]
            /\ \A c \in Written(shown, ds[x].accepted) : record[c] = shown.from[c]
<1> DEFINE d == ds[x].draft
           shown == ds[x].shown.diff
<1>1. d \in Drafts /\ DecideMove(x, d) /\ Undecided(draft, d)
  BY CommitIsMove DEF DecideMove, ReadyHead
<1>2. Sees(ds[x]) /\ ds[x].pc = "commit" /\ ds[x].action = "approve"
  BY DEF GateInv, ActorsInv, Commit, Publishes, TypeInv, ActorsTypeOK, DeciderRecord
<1>3. ds[x].snap.diff = shown /\ draft[d].diff = shown
  BY <1>2 DEF Sees
<1>4. PriorHolds(shown, ds[x].accepted) /\ record' = Applied(shown, ds[x].accepted)
  BY <1>3 DEF Commit, DecideOk
<1>5. \A c \in Cells : record'[c] = IF c \in Written(shown, ds[x].accepted)
                                    THEN shown.to[c] ELSE record[c]
  BY <1>4 DEF Applied
<1>6. \A c \in Written(shown, ds[x].accepted) : record[c] = shown.from[c]
  BY <1>4 DEF PriorHolds
<1>7. /\ draft'[d].outcome = "approved" /\ draft[d].outcome = "none"
      /\ draft'[d].diff = shown
  BY <1>1, <1>2, <1>3 DEF DecideMove, Outcome, Undecided
<1> HIDE DEF d, shown
<1> QED BY <1>2, <1>5, <1>6, <1>7 DEF d, shown

\* The record changes only by an accepted decision, from what the decider was
\* shown as its old values to what he was shown as its new ones, and a decided
\* Draft never changes again, whatever was evaluated, revised, decided or
\* published between his reading and his commit.
THEOREM PublishesWhatWasShownHolds == Spec => PublishesWhatWasShown
<1> DEFINE A ==
     /\ \A d \in Drafts : Decided(draft, d) => draft'[d] = draft[d]
     /\ record' # record =>
          \E x \in Deciders :
            LET d == ds[x].draft
                shown == ds[x].shown.diff
            IN /\ ds[x].pc = "commit" /\ draft'[d].outcome = "approved"
               /\ draft[d].outcome = "none" /\ draft'[d].diff = shown
               /\ \A c \in Cells :
                    record'[c] = IF c \in Written(shown, ds[x].accepted)
                                 THEN shown.to[c] ELSE record[c]
               /\ \A c \in Written(shown, ds[x].accepted) :
                    record[c] = shown.from[c]
<1>1. TypeInv /\ GateInv /\ [Next]_vars => [A]_vars
  <2> SUFFICES ASSUME TypeInv, GateInv, [Next]_vars PROVE A
    OBVIOUS
  <2>1. \A d \in Drafts : Decided(draft, d) => draft'[d] = draft[d]
    BY GateMoves, RowsStay DEF Stays, GateInv, RowsInv, Decided
  <2>2. ASSUME record' # record
        PROVE  \E x \in Deciders : Commit(x) /\ Publishes(x)
    BY <2>2, OnlyCommitPublishes
  <2> QED BY <2>1, <2>2, CommitPublishes
<1>2. Spec => [][A]_vars
  BY <1>1, TypeInvariant, GateInvariant, PTL DEF Spec
<1> QED BY <1>2 DEF PublishesWhatWasShown
-----------------------------------------------------------------------------
(* The gate implements Publication.                                         *)

VerdictOn(table, root) ==
  IF \E n \in 0 .. MaxRevisions : table[<<root, n>>].outcome = "approved" THEN "accepted"
  ELSE IF \A n \in 0 .. MaxRevisions : table[<<root, n>>].outcome = "none" THEN "open"
  ELSE "rejected"
\* A Draft that stands at the head of its chain, evaluated.
Offered(table, evidence, d) ==
  /\ table[d].exists /\ Head(table, d) /\ table[d].eval # "none"
  /\ <<"draft.evaluated", d>> \in evidence
OfferOn(table, evidence, root) ==
  LET heads == {d \in Drafts : d[1] = root /\ Offered(table, evidence, d)}
  IN IF heads = {} THEN None ELSE table[CHOOSE d \in heads : TRUE].diff

LEMMA VerdictIs == AbsVerdict = [root \in Roots |-> VerdictOn(draft, root)]
<1>1. ASSUME NEW root \in Roots
      PROVE  /\ "approved" \in OutcomesOf(root) <=>
                  \E n \in 0 .. MaxRevisions : draft[<<root, n>>].outcome = "approved"
             /\ OutcomesOf(root) = {"none"} <=>
                  \A n \in 0 .. MaxRevisions : draft[<<root, n>>].outcome = "none"
  <2>1. 0 \in 0 .. MaxRevisions
    BY GateBounds
  <2> QED BY <2>1 DEF OutcomesOf
<1> QED BY <1>1 DEF AbsVerdict, VerdictOn
LEMMA VerdictIsNext == AbsVerdict' = [root \in Roots |-> VerdictOn(draft', root)]
<1>1. ASSUME NEW root \in Roots
      PROVE  /\ "approved" \in OutcomesOf(root)' <=>
                  \E n \in 0 .. MaxRevisions : draft'[<<root, n>>].outcome = "approved"
             /\ OutcomesOf(root)' = {"none"} <=>
                  \A n \in 0 .. MaxRevisions : draft'[<<root, n>>].outcome = "none"
  <2>1. 0 \in 0 .. MaxRevisions
    BY GateBounds
  <2> QED BY <2>1 DEF OutcomesOf
<1> QED BY <1>1 DEF AbsVerdict, VerdictOn
LEMMA OfferIs == AbsOffer = [root \in Roots |-> OfferOn(draft, receipts, root)]
<1> DEFINE heads(root) == {d \in Drafts : d[1] = root /\ Offered(draft, receipts, d)}
           diff(root) == IF heads(root) = {} THEN None
                         ELSE draft[CHOOSE d \in heads(root) : TRUE].diff
<1>1. \A root \in Roots :
        {d \in Drafts : /\ d[1] = root /\ draft[d].exists
                        /\ Head(draft, d) /\ Evaluated(d)} = heads(root)
  BY DEF Offered, Evaluated
<1>2. AbsOffer = [root \in Roots |->
         LET set == {d \in Drafts : /\ d[1] = root /\ draft[d].exists
                                    /\ Head(draft, d) /\ Evaluated(d)}
         IN IF set = {} THEN None ELSE draft[CHOOSE d \in set : TRUE].diff]
  BY DEF AbsOffer
<1>3. AbsOffer = [root \in Roots |-> diff(root)]
  <2> HIDE DEF heads
  <2> QED BY <1>1, <1>2
<1>4. \A root \in Roots : OfferOn(draft, receipts, root) = diff(root)
  BY DEF OfferOn
<1> QED BY <1>3, <1>4

LEMMA OfferIsNext == AbsOffer' = [root \in Roots |-> OfferOn(draft', receipts', root)]
<1> DEFINE heads(root) == {d \in Drafts : d[1] = root /\ Offered(draft', receipts', d)}
           diff(root) == IF heads(root) = {} THEN None
                         ELSE draft'[CHOOSE d \in heads(root) : TRUE].diff
<1>1. \A root \in Roots :
        {d \in Drafts : /\ d[1] = root /\ draft'[d].exists
                        /\ Head(draft', d) /\ Evaluated(d)'} = heads(root)
  BY DEF Offered, Evaluated
<1>2. AbsOffer' = [root \in Roots |->
         LET set == {d \in Drafts : /\ d[1] = root /\ draft'[d].exists
                                    /\ Head(draft', d) /\ Evaluated(d)'}
         IN IF set = {} THEN None ELSE draft'[CHOOSE d \in set : TRUE].diff]
  BY DEF AbsOffer, Head
<1>3. AbsOffer' = [root \in Roots |-> diff(root)]
  <2> HIDE DEF heads
  <2> QED BY <1>1, <1>2
<1>4. \A root \in Roots : OfferOn(draft', receipts', root) = diff(root)
  BY DEF OfferOn
<1> QED BY <1>3, <1>4

LEMMA SameVerdict ==
  ASSUME NEW table, NEW other, NEW root \in Roots,
         \A d \in Drafts : d[1] = root => other[d].outcome = table[d].outcome
  PROVE  VerdictOn(other, root) = VerdictOn(table, root)
<1>1. \A n \in 0 .. MaxRevisions : other[<<root, n>>].outcome = table[<<root, n>>].outcome
  BY DraftParts
<1> QED BY <1>1 DEF VerdictOn

LEMMA SameOffer ==
  ASSUME NEW table, NEW other, NEW evidence, NEW more, NEW root \in Roots,
         \A d \in Drafts : d[1] = root =>
           /\ Offered(other, more, d) <=> Offered(table, evidence, d)
           /\ Offered(table, evidence, d) => other[d].diff = table[d].diff
  PROVE  OfferOn(other, more, root) = OfferOn(table, evidence, root)
<1> DEFINE heads == {d \in Drafts : d[1] = root /\ Offered(table, evidence, d)}
           c == CHOOSE d \in heads : TRUE
<1>1. {d \in Drafts : d[1] = root /\ Offered(other, more, d)} = heads
  OBVIOUS
<1>2. heads # {} => c \in heads
  OBVIOUS
<1>3. heads # {} => other[c].diff = table[c].diff
  BY <1>2
<1> QED BY <1>1, <1>3 DEF OfferOn

\* A chain offers what its one head says.
LEMMA OfferOfHead ==
  ASSUME NEW table, NEW evidence, NEW d \in Drafts, Offered(table, evidence, d)
  PROVE  OfferOn(table, evidence, d[1]) = table[d].diff
<1> DEFINE heads == {e \in Drafts : e[1] = d[1] /\ Offered(table, evidence, e)}
<1>1. \A e \in heads : e = d
  BY HeadIsLast DEF Offered
<1>2. heads # {} /\ (CHOOSE e \in heads : TRUE) \in heads
  OBVIOUS
<1> QED BY <1>1, <1>2 DEF OfferOn
LEMMA NothingOffered ==
  ASSUME NEW table, NEW evidence, NEW root,
         \A d \in Drafts : d[1] = root => ~Offered(table, evidence, d)
  PROVE  OfferOn(table, evidence, root) = None
BY DEF OfferOn

\* A chain whose head is undecided is open.
LEMMA OpenVerdict ==
  ASSUME Unborn, OneDecisionPerChain, NEW d \in Drafts, Undecided(draft, d), Head(draft, d)
  PROVE  /\ d[1] \in Roots /\ VerdictOn(draft, d[1]) = "open"
         /\ \A e \in Drafts : e[1] = d[1] => draft[e].outcome = "none"
<1>1. \A e \in Drafts : e[1] = d[1] => draft[e].outcome = "none"
  BY OpenChain
<1>2. d[1] \in Roots /\ \A n \in 0 .. MaxRevisions : <<d[1], n>> \in Drafts
  BY DraftParts
<1> QED BY <1>1, <1>2 DEF VerdictOn

LEMMA RestMaps ==
  ASSUME TypeInv, RestMove
  PROVE  UNCHANGED Abs!pubVars
<1>1. UNCHANGED <<draft, record>> /\ Records({})
  BY DEF RestMove
<1>2. AbsVerdict' = AbsVerdict
  BY <1>1, VerdictIs, VerdictIsNext
<1>3. AbsOffer' = AbsOffer
  <2>1. ASSUME NEW root \in Roots
        PROVE  OfferOn(draft', receipts', root) = OfferOn(draft, receipts, root)
    <3>1. \A d \in Drafts :
            /\ Offered(draft', receipts', d) <=> Offered(draft, receipts, d)
            /\ draft'[d].diff = draft[d].diff
      BY <1>1 DEF Offered, Records
    <3> QED BY <3>1, SameOffer
  <2> QED BY <2>1, OfferIs, OfferIsNext
<1> QED BY <1>1, <1>2, <1>3 DEF Abs!pubVars

LEMMA EvaluateMaps ==
  ASSUME TypeInv, TypeInv', RowsInv, NEW d \in Drafts, EvaluateMove(d)
  PROVE  [Abs!Next]_(Abs!pubVars)
<1>0. /\ SameBut(d) /\ Records({d}) /\ Undecided(draft, d)
      /\ Unborn /\ OneDecisionPerChain /\ d[1] \in Roots
  BY DraftParts DEF EvaluateMove, Undecided, RowsInv
<1>1. \A e \in Drafts : /\ draft'[e].exists <=> draft[e].exists
                        /\ draft'[e].outcome = draft[e].outcome
  BY DEF EvaluateMove, SameBut
<1>2. AbsVerdict' = AbsVerdict
  <2>1. \A root \in Roots : VerdictOn(draft', root) = VerdictOn(draft, root)
    BY <1>1, SameVerdict
  <2> QED BY <2>1, VerdictIs, VerdictIsNext
<1>3. \A e \in Drafts : Head(draft', e) <=> Head(draft, e)
  BY <1>1, SameHeads
<1>4. \A e \in Drafts \ {d} :
        /\ Offered(draft', receipts', e) <=> Offered(draft, receipts, e)
        /\ draft'[e].diff = draft[e].diff
  BY <1>0, <1>3 DEF Offered, SameBut, Records
<1>5. ASSUME NEW root \in Roots, root # d[1] \/ ~Head(draft, d)
      PROVE  OfferOn(draft', receipts', root) = OfferOn(draft, receipts, root)
  <2>1. \A e \in Drafts : e[1] = root =>
          /\ Offered(draft', receipts', e) <=> Offered(draft, receipts, e)
          /\ Offered(draft, receipts, e) => draft'[e].diff = draft[e].diff
    BY <1>3, <1>4, <1>5 DEF Offered
  <2> QED BY <2>1, SameOffer
<1>6. CASE ~Head(draft, d)
  <2>1. AbsOffer' = AbsOffer
    BY <1>5, <1>6, OfferIs, OfferIsNext
  <2> QED BY <1>2, <2>1 DEF EvaluateMove, Abs!pubVars
<1>7. CASE Head(draft, d)
  <2>1. AbsVerdict[d[1]] = "open"
    BY <1>0, <1>7, OpenVerdict, VerdictIs
  <2>2. draft'[d].diff \in Proposals
    BY DEF TypeInv, RowsTypeOK, Row
  <2>3. OfferOn(draft', receipts', d[1]) = draft'[d].diff
    <3>1. Offered(draft', receipts', d)
      BY <1>3, <1>7 DEF Offered, EvaluateMove
    <3> QED BY <3>1, OfferOfHead
  <2>4. AbsOffer' = [AbsOffer EXCEPT ![d[1]] = draft'[d].diff]
    BY <1>5, <2>3, OfferIs, OfferIsNext
  <2>5. Abs!Offer(d[1])
    BY <1>2, <2>1, <2>2, <2>4 DEF Abs!Offer, EvaluateMove
  <2> QED BY <1>0, <2>5 DEF Abs!Next
<1> QED BY <1>6, <1>7

LEMMA InsertMaps ==
  ASSUME TypeInv, TypeInv', RowsInv, RowsInv', NEW d \in Drafts, InsertMove(d)
  PROVE  [Abs!Next]_(Abs!pubVars)
<1> DEFINE c == Child(d)
<1>0. /\ UNCHANGED <<status, receipts, record>> /\ SameBut(c)
      /\ ~draft[c].exists /\ draft'[c].exists
      /\ draft'[c].eval = draft[c].eval /\ draft'[c].outcome = draft[c].outcome
      /\ Undecided(draft, d) /\ Head(draft, d) /\ Unborn /\ OneDecisionPerChain
  BY DEF InsertMove, ReadyHead, RowsInv
<1>1. c \in Drafts /\ c # d /\ c[1] = d[1] /\ c[2] = d[2] + 1 /\ d[1] \in Roots
  BY DraftParts DEF InsertMove, Child
<1>2. AbsVerdict' = AbsVerdict
  <2>1. \A e \in Drafts : draft'[e].outcome = draft[e].outcome
    BY <1>0 DEF SameBut
  <2>2. \A root \in Roots : VerdictOn(draft', root) = VerdictOn(draft, root)
    BY <2>1, SameVerdict
  <2> QED BY <2>2, VerdictIs, VerdictIsNext
<1>3. AbsVerdict[d[1]] = "open"
  BY <1>0, <1>1, OpenVerdict, VerdictIs
<1>4. ASSUME NEW root \in Roots, root # d[1]
      PROVE  OfferOn(draft', receipts', root) = OfferOn(draft, receipts, root)
  <2>1. ASSUME NEW e \in Drafts, e[1] = root
        PROVE  /\ Offered(draft', receipts', e) <=> Offered(draft, receipts, e)
               /\ draft'[e].diff = draft[e].diff
    <3>1. e # c /\ e[1] # c[1]
      BY <1>1, <1>4, <2>1
    <3>2. \A x \in Drafts \ {c} : draft'[x].exists <=> draft[x].exists
      BY <1>0 DEF SameBut
    <3> HIDE DEF c
    <3>3. Head(draft', e) <=> Head(draft, e)
      BY <1>1, <3>1, <3>2, HeadsOfOthers
    <3> QED BY <1>0, <3>1, <3>3 DEF Offered, SameBut
  <2> QED BY <2>1, SameOffer
<1>5. OfferOn(draft', receipts', d[1]) = None
  <2>1. ASSUME NEW e \in Drafts, e[1] = d[1], Offered(draft', receipts', e) PROVE FALSE
    <3>1. e[2] = c[2] => e = c
      BY <1>1, <2>1, DraftParts
    <3>2. e # c
      BY <1>0, <1>1, <2>1 DEF Offered, Unborn
    <3>3. draft[e].exists /\ Head(draft', e)
      BY <1>0, <2>1, <3>2 DEF Offered, SameBut
    <3>4. e[2] <= d[2]
      <4>1. SUFFICES ASSUME e[2] > d[2] PROVE FALSE
        BY DraftParts, GateBounds
      <4>2. e[2] \in d[2] + 1 .. MaxRevisions /\ <<d[1], e[2]>> = e
        BY <2>1, <4>1, DraftParts, GateBounds
      <4> QED BY <1>0, <3>3, <4>2 DEF Head
    <3>5. c[2] \in e[2] + 1 .. MaxRevisions /\ <<e[1], c[2]>> = c
      BY <1>1, <2>1, <3>4, DraftParts, GateBounds
    <3> QED BY <1>0, <3>3, <3>5 DEF Head
  <2> QED BY <2>1, NothingOffered
<1>6. AbsOffer' = [AbsOffer EXCEPT ![d[1]] = None]
  BY <1>4, <1>5, OfferIs, OfferIsNext
<1>7. Abs!Offer(d[1])
  BY <1>0, <1>2, <1>3, <1>6 DEF Abs!Offer
<1> QED BY <1>1, <1>7 DEF Abs!Next

\* Deciding takes no offer back.
LEMMA OffersStay ==
  ASSUME TypeInv, \A e \in Drafts :
           /\ draft'[e].exists <=> draft[e].exists
           /\ draft'[e].eval = draft[e].eval /\ draft'[e].diff = draft[e].diff
           /\ <<"draft.evaluated", e>> \in receipts' <=> <<"draft.evaluated", e>> \in receipts
  PROVE  AbsOffer' = AbsOffer
<1>1. \A e \in Drafts :
        /\ Offered(draft', receipts', e) <=> Offered(draft, receipts, e)
        /\ draft'[e].diff = draft[e].diff
  BY SameHeads DEF Offered
<1>2. \A root \in Roots : OfferOn(draft', receipts', root) = OfferOn(draft, receipts, root)
  BY <1>1, SameOffer
<1> QED BY <1>2, OfferIs, OfferIsNext

LEMMA DecideMaps ==
  ASSUME TypeInv, GateInv, NEW d \in Drafts, NEW x \in Deciders, DecideMove(x, d)
  PROVE  Abs!Next
<1> DEFINE root == d[1]
           p == draft[d].diff
           accepted == ds[x].accepted
<1>0. /\ SameBut(d) /\ Undecided(draft, d) /\ Head(draft, d) /\ Ready(d)
      /\ Unborn /\ OneDecisionPerChain /\ ds[x].action \in {"approve", "reject"}
      /\ root \in Roots
      /\ draft'[d].exists /\ draft'[d].outcome = Outcome(ds[x].action)
      /\ draft'[d].diff = draft[d].diff /\ draft'[d].eval = draft[d].eval
      /\ draft[d] = ds[x].snap
      /\ Publishes(x) => PriorHolds(ds[x].snap.diff, ds[x].accepted)
      /\ record' = IF Publishes(x) THEN Applied(ds[x].snap.diff, ds[x].accepted) ELSE record
      /\ Closes(RunOf(d), {<<"gate.decided", d>>})
  BY DraftParts DEF DecideMove, ReadyHead, GateInv, RowsInv, TypeInv, ActorsTypeOK, DeciderRecord
<1>1. AbsOffer' = AbsOffer
  <2>1. \A e \in Drafts : <<"draft.evaluated", e>> \in receipts' <=> <<"draft.evaluated", e>> \in receipts
    BY <1>0 DEF Closes, Completion
  <2>2. \A e \in Drafts : /\ draft'[e].exists <=> draft[e].exists
                          /\ draft'[e].eval = draft[e].eval /\ draft'[e].diff = draft[e].diff
    BY <1>0 DEF SameBut, Undecided
  <2> QED BY <2>1, <2>2, OffersStay
<1>2. AbsVerdict[root] = "open" /\ \A e \in Drafts : e[1] = root => draft[e].outcome = "none"
  BY <1>0, OpenVerdict, VerdictIs
<1>3. AbsOffer[root] = p /\ p \in Proposals /\ p # None
  <2>1. Offered(draft, receipts, d)
    BY <1>0 DEF Offered, Ready, Evaluated, Undecided
  <2>2. OfferOn(draft, receipts, d[1]) = draft[d].diff
    BY <2>1, OfferOfHead
  <2>3. p \in Proposals
    BY DEF TypeInv, RowsTypeOK, Row
  <2> QED BY <1>0, <2>2, <2>3, OfferIs, GateNone
<1>4. \A other \in Roots \ {root} : VerdictOn(draft', other) = VerdictOn(draft, other)
  BY <1>0, SameVerdict DEF SameBut
<1>5. d[2] \in 0 .. MaxRevisions /\ d = <<root, d[2]>>
  BY DraftParts
<1>6. CASE ds[x].action = "approve"
  <2>1. VerdictOn(draft', root) = "accepted"
    BY <1>0, <1>5, <1>6 DEF VerdictOn, Outcome
  <2>2. AbsVerdict' = [AbsVerdict EXCEPT ![root] = "accepted"]
    BY <1>4, <2>1, VerdictIs, VerdictIsNext
  <2>3. PriorHolds(p, accepted) /\ record' = Applied(p, accepted)
    BY <1>0, <1>6 DEF Publishes
  <2> DEFINE stripped == p.optional \ accepted
             written == p.cells \ stripped
  <2>4. Written(p, accepted) = written
    BY DEF Written
  <2>5. /\ \A cell \in written : record[cell] = p.from[cell]
        /\ record' = [cell \in Cells |-> IF cell \in written THEN p.to[cell] ELSE record[cell]]
    BY <2>3, <2>4 DEF PriorHolds, Applied
  <2>6. stripped \in SUBSET p.optional
    OBVIOUS
  <2>7. Abs!Accept(root)
    <3> HIDE DEF p, stripped, root
    <3> QED BY <1>1, <1>2, <1>3, <2>2, <2>5, <2>6 DEF Abs!Accept, written
  <2> QED BY <1>0, <2>7 DEF Abs!Next
<1>7. CASE ds[x].action = "reject"
  <2>1. VerdictOn(draft', root) = "rejected"
    <3>1. \A n \in 0 .. MaxRevisions : draft'[<<root, n>>].outcome # "approved"
      <4> TAKE n \in 0 .. MaxRevisions
      <4>1. <<root, n>> \in Drafts /\ <<root, n>>[1] = root
        BY <1>0, DraftParts
      <4>2. CASE <<root, n>> = d
        BY <1>0, <1>7, <4>2 DEF Outcome
      <4>3. CASE <<root, n>> # d
        <5>1. draft'[<<root, n>>] = draft[<<root, n>>] /\ draft[<<root, n>>].outcome = "none"
          BY <1>0, <1>2, <4>1, <4>3 DEF SameBut
        <5> QED BY <5>1
      <4> QED BY <4>2, <4>3
    <3>2. draft'[<<root, d[2]>>].outcome = "rejected"
      BY <1>0, <1>5, <1>7 DEF Outcome
    <3> QED BY <1>5, <3>1, <3>2 DEF VerdictOn
  <2>2. AbsVerdict' = [c \in Roots |-> IF c \in {root} THEN "rejected" ELSE AbsVerdict[c]]
    BY <1>4, <2>1, VerdictIs, VerdictIsNext
  <2>3. UNCHANGED record
    BY <1>0, <1>7 DEF Publishes
  <2>4. Abs!Reject({root})
    BY <1>1, <1>2, <2>2, <2>3 DEF Abs!Reject
  <2> QED BY <1>0, <2>4 DEF Abs!Next
<1> QED BY <1>0, <1>6, <1>7

LEMMA RejectMaps ==
  ASSUME TypeInv, GateInv, NEW r \in Runs, RejectMove(r)
  PROVE  Abs!Next
<1> DEFINE chains == {root \in Roots : \E d \in OpenHeads(draft, r) : d[1] = root}
<1>0. /\ Unborn /\ OneDecisionPerChain /\ Closes(r, {}) /\ UNCHANGED record
      /\ \A d \in Drafts \ OpenHeads(draft, r) : draft'[d] = draft[d]
      /\ \A d \in OpenHeads(draft, r) :
           /\ draft'[d].outcome = "withRun" /\ draft'[d].exists
           /\ draft'[d].diff = draft[d].diff /\ draft'[d].eval = draft[d].eval
           /\ d \in Drafts /\ Undecided(draft, d) /\ Head(draft, d) /\ d[1] \in Roots
      /\ OpenHeads(draft, r) # {}
  BY DraftParts DEF RejectMove, GateInv, RowsInv, OpenHeads, DraftsOf
<1>1. AbsOffer' = AbsOffer
  <2>1. \A e \in Drafts : <<"draft.evaluated", e>> \in receipts' <=> <<"draft.evaluated", e>> \in receipts
    BY <1>0 DEF Closes, Completion
  <2>2. \A e \in Drafts : /\ draft'[e].exists <=> draft[e].exists
                          /\ draft'[e].eval = draft[e].eval /\ draft'[e].diff = draft[e].diff
    BY <1>0 DEF Undecided
  <2> QED BY <2>1, <2>2, OffersStay
<1>2. ASSUME NEW root \in chains
      PROVE  AbsVerdict[root] = "open" /\ VerdictOn(draft', root) = "rejected"
  <2>1. PICK d \in OpenHeads(draft, r) : d[1] = root
    OBVIOUS
  <2>2. AbsVerdict[root] = "open" /\ \A e \in Drafts : e[1] = root => draft[e].outcome = "none"
    BY <1>0, <2>1, OpenVerdict, VerdictIs
  <2>3. \A n \in 0 .. MaxRevisions : draft'[<<root, n>>].outcome # "approved"
    <3> TAKE n \in 0 .. MaxRevisions
    <3>1. <<root, n>> \in Drafts /\ <<root, n>>[1] = root
      BY <1>0, <2>1, DraftParts
    <3> QED BY <1>0, <2>2, <3>1
  <2>4. d[2] \in 0 .. MaxRevisions /\ d = <<root, d[2]>> /\ draft'[d].outcome = "withRun"
    BY <1>0, <2>1, DraftParts
  <2> QED BY <2>2, <2>3, <2>4 DEF VerdictOn
<1>3. ASSUME NEW root \in Roots \ chains
      PROVE  VerdictOn(draft', root) = VerdictOn(draft, root)
  <2>1. \A d \in Drafts : d[1] = root => draft'[d] = draft[d]
    BY <1>0, <1>3
  <2> QED BY <2>1, SameVerdict
<1>4. AbsVerdict' = [c \in Roots |-> IF c \in chains THEN "rejected" ELSE AbsVerdict[c]]
  BY <1>2, <1>3, VerdictIs, VerdictIsNext
<1>5. chains # {} /\ chains \in SUBSET Roots
  BY <1>0
<1>6. Abs!Reject(chains)
  BY <1>0, <1>1, <1>2, <1>4, <1>5 DEF Abs!Reject
<1> QED BY <1>5, <1>6 DEF Abs!Next

LEMMA InitMaps == Init => Abs!Init
<1> SUFFICES ASSUME Init PROVE Abs!Init
  OBVIOUS
<1>1. \A d \in Drafts : draft[d].outcome = "none"
  <2>1. PICK packaged \in SUBSET Roots, diff \in [Roots -> Proposals] :
          draft = [d \in Drafts |->
             [FreshRow(diff[d[1]]) EXCEPT !.exists = d[1] \in packaged /\ d[2] = 0]]
    BY DEF Init
  <2> QED BY <2>1 DEF FreshRow
<1>2. receipts = {} /\ record = Blank
  BY DEF Init
<1>3. AbsVerdict = [c \in Roots |-> "open"]
  <2>1. \A root \in Roots, n \in 0 .. MaxRevisions : draft[<<root, n>>].outcome = "none"
    BY <1>1, DraftParts
  <2>2. \A root \in Roots : VerdictOn(draft, root) = "open"
    BY <2>1 DEF VerdictOn
  <2> QED BY <2>2, VerdictIs
<1>4. AbsOffer = [c \in Roots |-> None]
  <2>1. \A root \in Roots : OfferOn(draft, receipts, root) = None
    BY <1>2, NothingOffered DEF Offered
  <2> QED BY <2>1, OfferIs
<1> QED BY <1>2, <1>3, <1>4 DEF Abs!Init

\* What a reader of the record sees is one decision after the other, each on the
\* last revision of its Draft and from the values it expected: decide(), the
\* rejection of a Run, the autonomous pass and revisions, however they
\* interleave, implement Publication.
THEOREM ImplementsPublicationHolds == Spec => ImplementsPublication
<1>1. Init => Abs!Init
  BY InitMaps
<1>2. TypeInv /\ TypeInv' /\ GateInv /\ GateInv' /\ [Next]_vars => [Abs!Next]_(Abs!pubVars)
  <2> SUFFICES ASSUME TypeInv, TypeInv', GateInv, GateInv', GateMove
               PROVE  [Abs!Next]_(Abs!pubVars)
    BY GateMoves
  <2>0. RowsInv /\ RowsInv'
    BY DEF GateInv
  <2>1. CASE RestMove
    BY <2>1, RestMaps
  <2>2. ASSUME NEW d \in Drafts, EvaluateMove(d) PROVE [Abs!Next]_(Abs!pubVars)
    BY <2>0, <2>2, EvaluateMaps
  <2>3. ASSUME NEW d \in Drafts, InsertMove(d) PROVE [Abs!Next]_(Abs!pubVars)
    BY <2>0, <2>3, InsertMaps
  <2>4. ASSUME NEW d \in Drafts, NEW x \in Deciders, DecideMove(x, d)
        PROVE  [Abs!Next]_(Abs!pubVars)
    BY <2>4, DecideMaps
  <2>5. ASSUME NEW r \in Runs, RejectMove(r) PROVE [Abs!Next]_(Abs!pubVars)
    BY <2>5, RejectMaps
  <2> QED BY <2>1, <2>2, <2>3, <2>4, <2>5 DEF GateMove
<1>3. Spec => [][Abs!Next]_(Abs!pubVars)
  BY <1>2, TypeInvariant, GateInvariant, PTL DEF Spec
<1> QED BY <1>1, <1>3, PTL DEF Spec, ImplementsPublication, Abs!Spec
=============================================================================
