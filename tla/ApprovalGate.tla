---------------------------- MODULE ApprovalGate ----------------------------
(***************************************************************************)
(* The approval gate: src/pipeline/gate/approval.ts (decide,                *)
(* rejectAwaitingRun) over draftsRepo.ts, f1Apply.ts and the completion of  *)
(* runsRepo.ts; the autonomous pass of gate/yoloPolicy.ts; the revision of  *)
(* a Draft by steering/submitTurn.ts; and what agents/draftAndReview.ts and *)
(* ai/actionPolicy.ts write to a Draft before it reaches the gate.          *)
(*                                                                          *)
(* One db.batch, or one statement, is one action; between two awaits any    *)
(* other decider, pass or reviser may act, and each may be evicted.         *)
(***************************************************************************)
EXTENDS Integers, FiniteSets

CONSTANTS
  Runs,         \* daily Runs
  Roots,        \* Drafts the connectors packaged, by number
  RunOfRoot,    \* the Run of each
  YoloRuns,     \* Runs stamped with mode yolo
  MaxRevisions, \* bound: revisions of a Draft
  MaxDrafts,    \* bound: Drafts altogether
  Cells,        \* columns and rows of the public record
  HumanCells,   \* postures, lifecycles, decision dates, parties
  Values,       \* what a cell may hold
  Blank,        \* the record before the first decision
  Proposals,    \* diffs a connector and the drafter may give a Draft
  Evaluations,  \* what drafter and reviewer may make of each of the roots
  Confident,    \* which Drafts' confidences the threshold of a moment lets by
  Handlers,     \* operator requests that may be in flight together
  Passes,       \* executions of autoApproveRun
  Revisers,     \* steering turns that revise
  None

\* A Draft is named by its root and its revision: revisionDraftId.
Drafts == Roots \X (0 .. MaxRevisions)
RunOf(d) == RunOfRoot[d[1]]
DraftsOf(r) == {d \in Drafts : RunOf(d) = r}
\* listByRun: by created_at, then by id.
Before(d, e) == d[2] < e[2] \/ (d[2] = e[2] /\ d[1] < e[1])
Child(d) == <<d[1], d[2] + 1>>
Deciders == Handlers \cup Passes

\* An evaluation blocks the pass or not; "denied" also failed a guardrail.
\* A diff: the cells it changes, those of them an operator may strip (the state
\* patch of a docket entry), and what each is expected to hold and gets.
Verdicts == {"clear", "blocked", "denied"}
Proposal == [cells : SUBSET Cells, optional : SUBSET Cells,
             from : [Cells -> Values], to : [Cells -> Values]]

ASSUME GateRuns == Roots \subseteq Nat /\ RunOfRoot \in [Roots -> Runs] /\ YoloRuns \subseteq Runs
ASSUME GateBounds ==
  MaxRevisions \in Nat /\ MaxDrafts \in Nat
ASSUME GateRecord == Blank \in [Cells -> Values] /\ HumanCells \subseteq Cells
ASSUME GateProposals == Proposals \subseteq Proposal
ASSUME GateEvaluations ==
  Evaluations \in [Roots -> SUBSET [diff : Proposals, verdict : Verdicts]]
ASSUME GateConfidence == Confident \subseteq SUBSET Drafts
ASSUME GateNone == None \notin Drafts /\ None \notin Runs /\ None \notin Proposals
ASSUME GateActors == Handlers \cap Passes = {}

VARIABLES
  status,    \* runs.status
  draft,     \* drafts rows
  receipts,  \* evidence_events: draft.evaluated, guardrails.passed or failed,
             \* draft.revised, gate.decided, run.completed
  validated, \* the yolo.validated row of a Draft: its id leaves room for one
  record,    \* the public record
  ds,        \* executions of decide()
  ps,        \* executions of autoApproveRun()
  vs         \* executions of reviseDraft()

dbVars == <<status, draft, receipts, validated, record>>
vars == <<status, draft, receipts, validated, record, ds, ps, vs>>

\* Texts are not modelled, so an edit is an approval; "withRun" is
\* rejected with RUN_REJECT_PRIVATE_REASON.
Outcomes == {"none", "rejected", "withRun", "approved"}
RunStatus == {"running", "awaiting", "stopped", "published", "rejected"}
Row == [exists : BOOLEAN, diff : Proposals, eval : {"none"} \cup Verdicts,
        outcome : Outcomes,
        by : {"nobody", "operator", "agent"}]
IdleDecider == [pc |-> "idle", draft |-> None, action |-> "reject",
                accepted |-> {}, shown |-> None, snap |-> None]
IdlePass == [pc |-> "idle", run |-> None, approve |-> {},
             escalate |-> {}, unhealed |-> {}, draft |-> None]
IdleReviser == [pc |-> "idle", draft |-> None]
-----------------------------------------------------------------------------
(* The predicates of draftsRepo.ts and draftReadiness.ts.                  *)

Undecided(table, d) == table[d].exists /\ table[d].outcome = "none"
Decided(table, d)   == table[d].exists /\ table[d].outcome # "none"
\* currentHeadSql, pendingTips: the highest revision of its chain.
Head(table, d) ==
  \A n \in d[2] + 1 .. MaxRevisions : ~table[<<d[1], n>>].exists
OpenHeads(table, r) ==
  {d \in DraftsOf(r) : Undecided(table, d) /\ Head(table, d)}
Evaluated(d) == /\ draft[d].eval # "none"
                /\ <<"draft.evaluated", d>> \in receipts
\* deriveDraftReadiness; READY_HEAD_SQL adds that it is an undecided head.
Ready(d) == /\ status[RunOf(d)] # "running"
            /\ Evaluated(d)
            /\ <<"guardrails", d>> \in receipts
            /\ d[2] = 0 \/ <<"draft.revised", d>> \in receipts
ReadyHead(d) == Undecided(draft, d) /\ Head(draft, d) /\ Ready(d)

\* f1Apply.ts: the cells a publication writes, and its canonical_prior assert.
Written(diff, accepted) == diff.cells \ (diff.optional \ accepted)
\* Mutant: without the canonical_prior assert.
PriorUnchecked(diff, accepted) == TRUE
PriorHolds(diff, accepted) ==
  \A c \in Written(diff, accepted) : record[c] = diff.from[c]
Applied(diff, accepted) ==
  [c \in Cells |-> IF c \in Written(diff, accepted) THEN diff.to[c] ELSE record[c]]

\* finalizeDecidedRunStmt on the table the batch leaves.
FinalStatus(table, r) ==
  IF status[r] # "awaiting" \/ OpenHeads(table, r) # {} THEN status[r]
  ELSE IF \E d \in DraftsOf(r) : table[d].exists /\ table[d].outcome = "approved"
       THEN "published" ELSE "rejected"
\* ... and the receipt that follows it when it moved the Run.
Completion(table, r) ==
  IF FinalStatus(table, r) # status[r] THEN {<<"run.completed", r>>} ELSE {}
Finalize(table, r, more) ==
  /\ draft' = table
  /\ status' = [status EXCEPT ![r] = FinalStatus(table, r)]
  /\ receipts' = receipts \cup more \cup Completion(table, r)
-----------------------------------------------------------------------------
(* decide().                                                               *)

\* reasonsFor without below_threshold: the evaluation blocks nothing, and no
\* posture, lifecycle or party is changed.
Blocks(diff) == \E c \in diff.cells \cap HumanCells : diff.from[c] # diff.to[c]
Unblocked(row) == row.eval = "clear" /\ ~Blocks(row.diff)

Outcome(action) == IF action = "approve" THEN "approved" ELSE "rejected"
\* Mutant: the vocabulary of an earlier schema.
ByVocabulary(x) == IF x \in Passes THEN "agent" ELSE "human"
By(x) == IF x \in Passes THEN "agent" ELSE "operator"
AgentApproved(d) == draft[d].outcome = "approved" /\ draft[d].by = "agent"

\* The response: an operator reads it; a pass goes on to its receipt when the
\* Draft is its own approval, and to the next Draft otherwise.
Answer(x, approved) ==
  /\ ds' = [ds EXCEPT ![x] = IdleDecider]
  /\ IF x \in Passes
     THEN ps' = [ps EXCEPT ![x].pc = IF approved THEN "receipt" ELSE "next"]
     ELSE UNCHANGED ps

\* The operator decides on a Draft the queue shows as ready.
Choose(h, d, action, accepted) ==
  /\ ds[h].pc = "idle" /\ ReadyHead(d)
  /\ ds' = [ds EXCEPT ![h] = [pc |-> "read", draft |-> d, action |-> action,
                              accepted |-> accepted, shown |-> draft[d],
                              snap |-> None]]
  /\ UNCHANGED <<dbVars, ps, vs>>
\* getById and the reads after it, which only refuse what the batch asserts.
ReadDraft(x) ==
  LET d == ds[x].draft IN
  /\ ds[x].pc = "read"
  /\ IF ReadyHead(d)
     THEN /\ ds' = [ds EXCEPT ![x].pc = "commit", ![x].snap = draft[d]]
          /\ UNCHANGED ps
     ELSE Answer(x, AgentApproved(d))
  /\ UNCHANGED <<dbVars, vs>>
\* The batch: draft_snapshot, canonical_prior, decision_owner, the receipts.
\* Mutant: a snapshot of the row alone, not of its head.
SnapshotUnheaded(x) == draft[ds[x].draft] = ds[x].snap
SnapshotHolds(x) == ReadyHead(ds[x].draft) /\ draft[ds[x].draft] = ds[x].snap
Publishes(x) == ds[x].action # "reject"
AfterDecision(x) ==
  [draft EXCEPT ![ds[x].draft].outcome = Outcome(ds[x].action),
                ![ds[x].draft].by = By(x)]
DecideOk(x) ==
  /\ SnapshotHolds(x)
  /\ Publishes(x) => PriorHolds(ds[x].snap.diff, ds[x].accepted)
  /\ <<"gate.decided", ds[x].draft>> \notin receipts
  /\ Completion(AfterDecision(x), RunOf(ds[x].draft)) \cap receipts = {}
Commit(x) ==
  LET d == ds[x].draft IN
  /\ ds[x].pc = "commit" /\ DecideOk(x)
  /\ Finalize(AfterDecision(x), RunOf(d), {<<"gate.decided", d>>})
  /\ record' = IF Publishes(x) THEN Applied(ds[x].snap.diff, ds[x].accepted)
               ELSE record
  /\ Answer(x, TRUE)
  /\ UNCHANGED <<validated, vs>>
Conflict(x) ==
  /\ ds[x].pc = "commit" /\ ~DecideOk(x)
  /\ Answer(x, FALSE)
  /\ UNCHANGED <<dbVars, vs>>

\* rejectAwaitingRun: the reads before its batch only refuse what it asserts.
WithRun(r) == [d \in Drafts |-> IF d \in OpenHeads(draft, r)
                 THEN [draft[d] EXCEPT !.outcome = "withRun", !.by = "operator"]
                 ELSE draft[d]]
NothingAccepted(r) ==
  ~\E d \in DraftsOf(r) : draft[d].outcome = "approved" /\ Head(draft, d)
RejectRun(r) ==
  /\ status[r] = "awaiting" /\ NothingAccepted(r) /\ OpenHeads(draft, r) # {}
  /\ <<"run.completed", r>> \notin receipts
  /\ Finalize(WithRun(r), r, {})
  /\ UNCHANGED <<validated, record, ds, ps, vs>>
-----------------------------------------------------------------------------
(* autoApproveRun().                                                       *)

SetPass(p, rec) == ps' = [ps EXCEPT ![p] = rec]
\* afterPackaging found the Run awaiting.
StartPass(p, r) ==
  /\ ps[p].pc = "idle" /\ r \in YoloRuns /\ status[r] = "awaiting"
  /\ SetPass(p, [IdlePass EXCEPT !.pc = "list", !.run = r])
  /\ UNCHANGED <<dbVars, ds, vs>>
\* The threshold of the moment is above the confidence of some and below that
\* of others; an operator moves it between two passes.
ListDrafts(p, confident) ==
  LET mine == DraftsOf(ps[p].run)
      pending == {d \in mine : Undecided(draft, d)}
      eligible == {d \in pending \cap confident : Unblocked(draft[d])} IN
  /\ ps[p].pc = "list"
  /\ SetPass(p, [ps[p] EXCEPT !.pc = "next",
                   !.approve = eligible, !.escalate = pending \ eligible,
                   !.unhealed = {d \in mine : draft[d].exists /\ AgentApproved(d)}])
  /\ UNCHANGED <<dbVars, ds, vs>>
Todo(p) == ps[p].approve \cup ps[p].escalate
First(set, d) == d \in set /\ \A e \in set \ {d} : Before(d, e)
\* Evidence ids are deterministic and the insert is OR IGNORE: the first stays.
Validate(d, verdict) ==
  validated' = [validated EXCEPT ![d] = IF @ = "none" THEN verdict ELSE @]
Escalate(p, d) ==
  /\ ps[p].pc = "next" /\ First(Todo(p), d) /\ d \in ps[p].escalate
  /\ Validate(d, "escalate")
  /\ SetPass(p, [ps[p] EXCEPT !.escalate = @ \ {d}])
  /\ UNCHANGED <<status, draft, receipts, record, ds, vs>>
\* defaultAcceptedFields: everything, or the record alone when the reviewer
\* disagreed.
Approve(p, d, accepted) ==
  /\ ps[p].pc = "next" /\ First(Todo(p), d) /\ d \in ps[p].approve
  /\ SetPass(p, [ps[p] EXCEPT !.pc = "deciding", !.draft = d, !.approve = @ \ {d}])
  /\ ds' = [ds EXCEPT ![p] = [pc |-> "read", draft |-> d, action |-> "approve",
                              accepted |-> accepted,
                              shown |-> draft[d], snap |-> None]]
  /\ UNCHANGED <<dbVars, vs>>
AppendApproval(p) ==
  /\ ps[p].pc = "receipt"
  /\ Validate(ps[p].draft, "approve")
  /\ SetPass(p, [ps[p] EXCEPT !.pc = "next", !.draft = None])
  /\ UNCHANGED <<status, draft, receipts, record, ds, vs>>
\* The second loop: Drafts that were approved before the pass listed them.
Heal(p, d) ==
  /\ ps[p].pc = "next" /\ Todo(p) = {} /\ First(ps[p].unhealed, d)
  /\ IF validated[d] = "approve" THEN UNCHANGED validated
     ELSE Validate(d, "approve")
  /\ SetPass(p, [ps[p] EXCEPT !.unhealed = @ \ {d}])
  /\ UNCHANGED <<status, draft, receipts, record, ds, vs>>
EndPass(p) ==
  /\ ps[p].pc = "next" /\ Todo(p) = {} /\ ps[p].unhealed = {}
  /\ SetPass(p, IdlePass)
  /\ UNCHANGED <<dbVars, ds, vs>>
-----------------------------------------------------------------------------
(* Evaluation: draftAndReview and enforceDraftGuardrails.                  *)

\* persist(): the receipts and the UPDATE share the guard that the Draft is
\* undecided and unevaluated; a disallowed tool records its denial with them.
Persist(d, e) ==
  /\ Undecided(draft, d) /\ draft[d].eval = "none"
  /\ draft' = [draft EXCEPT ![d].diff = e.diff, ![d].eval = e.verdict]
  /\ receipts' = receipts \cup {<<"draft.evaluated", d>>}
                   \cup (IF e.verdict = "denied" THEN {<<"guardrails", d>>} ELSE {})
Unguarded(d) ==
  Undecided(draft, d) /\ Evaluated(d) /\ <<"guardrails", d>> \notin receipts

\* The daily Workflow (and bodies that outlive their step) evaluates what was
\* packaged; its guardrails pass over every Draft of the Run.
Review(d, e) ==
  /\ d[2] = 0 /\ status[RunOf(d)] \in {"running", "stopped"}
  /\ Persist(d, e)
  /\ UNCHANGED <<status, validated, record, ds, ps, vs>>
Enforce(d) ==
  /\ Unguarded(d)
  /\ receipts' = receipts \cup {<<"guardrails", d>>}
  /\ UNCHANGED <<status, draft, validated, record, ds, ps, vs>>
\* completeDailyStep, once every Draft was evaluated and passed; markStopped.
FinishAwaiting(r) ==
  /\ status[r] = "running"
  /\ \A d \in DraftsOf(r) : draft[d].exists =>
       Evaluated(d) /\ <<"guardrails", d>> \in receipts
  /\ status' = [status EXCEPT ![r] = "awaiting"]
  /\ UNCHANGED <<draft, receipts, validated, record, ds, ps, vs>>
BudgetStop(r) ==
  /\ status[r] = "running"
  /\ status' = [status EXCEPT ![r] = "stopped"]
  /\ UNCHANGED <<draft, receipts, validated, record, ds, ps, vs>>
-----------------------------------------------------------------------------
(* reviseDraft().                                                          *)

\* The checks of executeTurn and reviseDraft, then the conditional INSERT.
Revise(v, d) ==
  /\ vs[v].pc = "idle" /\ d[2] < MaxRevisions
  /\ Cardinality({e \in Drafts : draft[e].exists}) < MaxDrafts
  /\ status[RunOf(d)] = "awaiting" /\ ReadyHead(d)
  /\ vs' = [vs EXCEPT ![v] = [pc |-> "insert", draft |-> d]]
  /\ UNCHANGED <<dbVars, ds, ps>>
\* Mutant: an insert that does not ask for a ready head.
InsertsBehind(d) == status[RunOf(d)] = "awaiting" /\ ~draft[Child(d)].exists
Inserts(d) == /\ ReadyHead(d) /\ status[RunOf(d)] = "awaiting"
              /\ ~draft[Child(d)].exists
InsertRevision(v) ==
  LET d == vs[v].draft IN
  /\ vs[v].pc = "insert"
  /\ IF Inserts(d)
     THEN /\ draft' = [draft EXCEPT ![Child(d)] = [@ EXCEPT !.exists = TRUE,
                                                     !.diff = draft[d].diff]]
          /\ vs' = [vs EXCEPT ![v] = [pc |-> "evaluate", draft |-> Child(d)]]
     ELSE vs' = [vs EXCEPT ![v] = IdleReviser] /\ UNCHANGED draft
  /\ UNCHANGED <<status, receipts, validated, record, ds, ps>>
\* Only the owner evaluates the child; a gateway failure, or a Draft rejected
\* with its Run meanwhile, leaves it unevaluated.
EvaluateRevision(v, d, e) ==
  /\ vs[v].pc = "evaluate" /\ vs[v].draft = d
  /\ Persist(d, e)
  /\ vs' = [vs EXCEPT ![v].pc = "enforce"]
  /\ UNCHANGED <<status, validated, record, ds, ps>>
RevisionFails(v) ==
  /\ vs[v].pc = "evaluate"
  /\ vs' = [vs EXCEPT ![v] = IdleReviser]
  /\ UNCHANGED <<dbVars, ds, ps>>
EnforceRevision(v) ==
  /\ vs[v].pc = "enforce"
  /\ receipts' = receipts \cup
       {<<"guardrails", d>> : d \in {e \in {vs[v].draft} : Unguarded(e)}}
  /\ vs' = [vs EXCEPT ![v].pc = "receipt"]
  /\ UNCHANGED <<status, draft, validated, record, ds, ps>>
RevisionDone(v) ==
  /\ vs[v].pc = "receipt"
  /\ receipts' = receipts \cup {<<"draft.revised", vs[v].draft>>}
  /\ vs' = [vs EXCEPT ![v] = IdleReviser]
  /\ UNCHANGED <<status, draft, validated, record, ds, ps>>
-----------------------------------------------------------------------------
(* An isolate may be evicted between any two awaits.                       *)

EvictDecider(h) ==
  /\ h \in Handlers /\ ds[h].pc # "idle"
  /\ ds' = [ds EXCEPT ![h] = IdleDecider]
  /\ UNCHANGED <<dbVars, ps, vs>>
EvictPass(p) ==
  /\ ps[p].pc # "idle"
  /\ ps' = [ps EXCEPT ![p] = IdlePass]
  /\ ds' = [ds EXCEPT ![p] = IdleDecider]
  /\ UNCHANGED <<dbVars, vs>>
EvictReviser(v) ==
  /\ vs[v].pc # "idle"
  /\ vs' = [vs EXCEPT ![v] = IdleReviser]
  /\ UNCHANGED <<dbVars, ds, ps>>

\* The connectors packaged some Drafts; the daily Workflow is about to review.
FreshRow(diff) == [exists |-> TRUE, diff |-> diff, eval |-> "none",
                   outcome |-> "none", by |-> "nobody"]
Init ==
  /\ status = [r \in Runs |-> "running"]
  /\ \E packaged \in SUBSET Roots, diff \in [Roots -> Proposals] :
       /\ \A r \in Runs : \E root \in packaged : RunOfRoot[root] = r
       /\ draft = [d \in Drafts |->
            [FreshRow(diff[d[1]]) EXCEPT !.exists = d[1] \in packaged /\ d[2] = 0]]
  /\ receipts = {}
  /\ validated = [d \in Drafts |-> "none"]
  /\ record = Blank
  /\ ds = [x \in Deciders |-> IdleDecider]
  /\ ps = [p \in Passes |-> IdlePass]
  /\ vs = [v \in Revisers |-> IdleReviser]

ReviewStep ==
  \/ \E d \in Drafts : \E e \in Evaluations[d[1]] :
        Review(d, e) \/ \E v \in Revisers : EvaluateRevision(v, d, e)
  \/ \E d \in Drafts : Enforce(d)
  \/ \E r \in Runs : FinishAwaiting(r) \/ BudgetStop(r)
DecideStep ==
  \/ \E h \in Handlers, d \in Drafts :
       \/ Choose(h, d, "reject", {})
       \/ \E accepted \in SUBSET draft[d].diff.optional :
            Choose(h, d, "approve", accepted)
  \/ \E x \in Deciders :
       ReadDraft(x) \/ Commit(x) \/ Conflict(x)
  \/ \E r \in Runs : RejectRun(r)
  \/ \E h \in Handlers : EvictDecider(h)
PassStep ==
  \E p \in Passes :
       \/ \E r \in Runs : StartPass(p, r)
       \/ \E confident \in Confident : ListDrafts(p, confident)
       \/ AppendApproval(p) \/ EndPass(p)
       \/ EvictPass(p)
       \/ \E d \in Drafts :
            \/ Escalate(p, d) \/ Heal(p, d)
            \/ \E accepted \in {{}, draft[d].diff.optional} : Approve(p, d, accepted)
ReviseStep ==
  \E v \in Revisers :
    \/ \E d \in Drafts : Revise(v, d)
    \/ InsertRevision(v) \/ RevisionFails(v) \/ EnforceRevision(v)
    \/ RevisionDone(v) \/ EvictReviser(v)

Next == ReviewStep \/ DecideStep \/ PassStep \/ ReviseStep
Spec == Init /\ [][Next]_vars
-----------------------------------------------------------------------------
Kinds == {"draft.evaluated", "guardrails", "draft.revised", "gate.decided"}

\* The types of the gate's state.
GateTypeOK ==
  /\ status \in [Runs -> RunStatus]
  /\ draft \in [Drafts -> Row]
  /\ receipts \subseteq (Kinds \X Drafts) \cup ({"run.completed"} \X Runs)
  /\ validated \in [Drafts -> {"none", "approve", "escalate"}]
  /\ record \in [Cells -> Values]
  /\ ds \in [Deciders -> [pc : {"idle", "read", "commit"},
       draft : Drafts \cup {None}, action : {"approve", "reject"},
       accepted : SUBSET Cells, shown : Row \cup {None}, snap : Row \cup {None}]]
  /\ ps \in [Passes -> [pc : {"idle", "list", "next", "deciding", "receipt"},
       run : Runs \cup {None}, approve : SUBSET Drafts,
       escalate : SUBSET Drafts, unhealed : SUBSET Drafts,
       draft : Drafts \cup {None}]]
  /\ vs \in [Revisers -> [pc : {"idle", "insert", "evaluate", "enforce", "receipt"},
       draft : Drafts \cup {None}]]

\* A chain is decided once, at its head: whatever was being revised, decided or
\* approved by the pass at the same time, nothing is ever appended behind a
\* decision, and no ancestor of a head is decided.
OneDecisionPerChain ==
  \A d \in Drafts : Decided(draft, d) => Head(draft, d)

\* An awaiting Run has something left to decide, a closed one has not; it is
\* published exactly when something of it was accepted, and has one receipt of
\* its completion exactly when it was closed at the gate.
RunCloses ==
  \A r \in Runs :
    LET accepted == \E d \in DraftsOf(r) :
                      draft[d].exists /\ draft[d].outcome = "approved"
    IN /\ status[r] = "awaiting" => OpenHeads(draft, r) # {}
       /\ status[r] \in {"published", "rejected"} =>
            OpenHeads(draft, r) = {} /\ (accepted <=> status[r] = "published")
       /\ <<"run.completed", r>> \in receipts <=>
            status[r] \in {"published", "rejected"}

\* Evidence says what happened: a gate.decided receipt for every decision of
\* decide() and for no other, and an approval of the agent only where the agent
\* did approve.
ReceiptsAgree ==
  \A d \in Drafts :
    /\ <<"gate.decided", d>> \in receipts <=>
         draft[d].outcome \in {"approved", "rejected"}
    /\ validated[d] = "approve" => AgentApproved(d)

\* decide() takes no Draft that an evaluation, its guardrails or the receipt of
\* its revision have not reached, however its checks interleave with them.
DecidedIsReady ==
  \A d \in Drafts : draft[d].outcome \in {"approved", "rejected"} => Ready(d)

\* The pass approves only on a Run stamped yolo, only what the reviewer cleared
\* and only what changes no posture, lifecycle or party.
AgentStaysInBounds ==
  \A d \in Drafts : AgentApproved(d) =>
    /\ RunOf(d) \in YoloRuns /\ draft[d].eval = "clear" /\ ~Blocks(draft[d].diff)

\* The chains, their Runs, the receipts and the agent's bounds.
GateIsConsistent ==
  OneDecisionPerChain /\ RunCloses /\ ReceiptsAgree /\ DecidedIsReady
    /\ AgentStaysInBounds

\* The record changes only by an accepted decision, each cell from what the
\* decider was shown as its old value to what he was shown as its new one, and
\* a decided Draft never changes again: what Evidence shows as approved is what
\* was read, approved and published.
PublishesWhatWasShown ==
  [][/\ \A d \in Drafts : Decided(draft, d) => draft'[d] = draft[d]
     /\ record' # record =>
          \E x \in Deciders :
            LET d == ds[x].draft
                shown == ds[x].shown.diff
            IN /\ ds[x].pc = "commit" /\ draft'[d].outcome = "approved"
               /\ draft[d].outcome = "none" /\ draft'[d].diff = shown
               /\ \A c \in Cells :
                    record'[c] = IF c \in Written(shown, ds[x].accepted)
                                 THEN shown.to[c] ELSE record[c]
               /\ \A c \in Written(shown, ds[x].accepted) :
                    record[c] = shown.from[c]]_vars

-----------------------------------------------------------------------------
(* Publication, the promise of the gate, with a chain's Draft at its head. *)

OutcomesOf(root) == {draft[<<root, n>>].outcome : n \in 0 .. MaxRevisions}
AbsVerdict == [root \in Roots |->
  IF "approved" \in OutcomesOf(root) THEN "accepted"
  ELSE IF OutcomesOf(root) = {"none"} THEN "open" ELSE "rejected"]
AbsOffer == [root \in Roots |->
  LET heads == {d \in Drafts : /\ d[1] = root /\ draft[d].exists
                               /\ Head(draft, d) /\ Evaluated(d)}
  IN IF heads = {} THEN None ELSE draft[CHOOSE d \in heads : TRUE].diff]
Abs == INSTANCE Publication WITH
         Chains <- Roots, verdict <- AbsVerdict, offer <- AbsOffer
\* decide(), rejectAwaitingRun(), the pass and revisions together implement
\* Publication: what a reader of the record sees is one decision after the
\* other, each on the last revision of its Draft.
ImplementsPublication == Abs!Spec

-----------------------------------------------------------------------------
(* A pass and its replay.                                                  *)

\* spec-3-13-autonomous-mode-yolo-bounds-mode-transparency.md:42: an approved
\* Draft's approve receipt is appended after decide(), and backfilled when the
\* pass is retried. When a pass ends, it is there.
AgentApprovalIsReceipted ==
  [][\A p \in Passes : EndPass(p) =>
       \A d \in DraftsOf(ps[p].run) : AgentApproved(d) => validated[d] = "approve"]_vars
=============================================================================
