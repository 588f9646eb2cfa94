------------------------------ MODULE PaidWork ------------------------------
(***************************************************************************)
(* What run admission relies on about paid model calls, without operations, *)
(* amounts or owners: a Run has money in flight or not.  Money goes in      *)
(* flight only for a live Run that has not lost its date; a Run loses its   *)
(* date only without money in flight.  RunAdmission takes the steps of this *)
(* module as its accounting steps, LlmAccounting implements them.           *)
(***************************************************************************)
EXTENDS Naturals
CONSTANT Runs

VARIABLES
  status, \* runs.status
  sealed, \* Runs that lost their date
  open    \* whether a Run has an unsettled operation

paidVars == <<status, sealed, open>>
PaidStatus == {"running", "awaiting", "stopped", "closed"}

PaidInit ==
  /\ status = [r \in Runs |-> "running"]
  /\ sealed = {}
  /\ open = [r \in Runs |-> FALSE]

Reserve(r) ==
  /\ ~open[r] /\ status[r] \in {"running", "awaiting"} /\ r \notin sealed
  /\ open' = [open EXCEPT ![r] = TRUE]
  /\ UNCHANGED <<status, sealed>>

EndOperation(r) ==
  /\ open[r]
  /\ open' = [open EXCEPT ![r] = FALSE]
  /\ UNCHANGED <<status, sealed>>

\* The budget stop only moves a running Run; packaging and the gate move on.
BudgetStop(r) ==
  /\ status[r] = "running"
  /\ status' = [status EXCEPT ![r] = "stopped"]
  /\ UNCHANGED <<sealed, open>>
MoveOn(r) ==
  /\ \/ status[r] = "running" /\ status' = [status EXCEPT ![r] = "awaiting"]
     \/ /\ status[r] \in {"running", "awaiting"}
        /\ status' = [status EXCEPT ![r] = "closed"]
  /\ UNCHANGED <<sealed, open>>

LoseDate(r) ==
  /\ ~open[r] /\ status[r] # "awaiting"
  /\ sealed' = sealed \cup {r}
  /\ status' = IF status[r] = "running" THEN [status EXCEPT ![r] = "closed"]
                                        ELSE status
  /\ open' = open

PaidNext ==
  \E r \in Runs : \/ Reserve(r) \/ EndOperation(r)
                  \/ BudgetStop(r) \/ MoveOn(r) \/ LoseDate(r)

PaidSpec == PaidInit /\ [][PaidNext]_paidVars

\* What admission needs of it: a Run that lost its date is over and has no money
\* in flight, for ever (assertOwned and settled never have to be asked again).
SealedIsOver ==
  \A r \in sealed : ~open[r] /\ status[r] \notin {"running", "awaiting"}
=============================================================================
