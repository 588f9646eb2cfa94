------------------------------ MODULE DateLock ------------------------------
(***************************************************************************)
(* What run admission promises, without requests, receipts or Workflows:    *)
(* a lock per calendar date.  A Run may acquire its date only while no      *)
(* other Run of the date is live (running, waiting for its gate, or with an *)
(* unsettled paid operation); a Run that lost its date, or that a later Run *)
(* overtook, is sealed and never becomes live again.                        *)
(***************************************************************************)
CONSTANTS Runs, Days, DayOf(_), Nobody

\* What the theorem LockSafe of RunAdmission_proofs asks of them.
LockConstants == (\A r \in Runs : DayOf(r) \in Days) /\ Nobody \notin Runs

VARIABLES
  owner,   \* the Run holding each day, or Nobody
  known,   \* Runs that exist
  live,    \* Runs with work left
  sealed   \* Runs that can never hold their date again

lockVars == <<owner, known, live, sealed>>

On(d, runs) == {r \in runs : DayOf(r) = d}

\* Before the first admission: Runs may exist and be live, none is sealed.
LockInit ==
  /\ owner = [d \in Days |-> Nobody]
  /\ known \in SUBSET Runs
  /\ live \in SUBSET known
  /\ sealed = {}

\* A new Run takes a date nothing is live on; everything older is sealed.
Grant(r) ==
  LET d == DayOf(r) IN
  /\ r \notin known
  /\ On(d, live) = {}
  /\ owner' = [owner EXCEPT ![d] = r]
  /\ known' = known \cup {r}
  /\ live' = live \cup {r}
  /\ sealed' = sealed \cup On(d, known)
\* A Run from before the lock existed takes it, alone on its date.
Adopt(r) ==
  LET d == DayOf(r) IN
  /\ r \in known \ sealed
  /\ owner[d] = Nobody
  /\ On(d, live) \subseteq {r}
  /\ owner' = [owner EXCEPT ![d] = r]
  /\ UNCHANGED <<known, live, sealed>>
\* The work of a Run ends by itself: it keeps its date until another takes it.
Quiesce(r) ==
  /\ r \in live
  /\ live' = live \ {r}
  /\ UNCHANGED <<owner, known, sealed>>
\* The operator closes a Run: what was live of it ends, and it is sealed.
Release(r) ==
  /\ owner[DayOf(r)] = r
  /\ owner' = [owner EXCEPT ![DayOf(r)] = Nobody]
  /\ live' = live \ {r}
  /\ sealed' = sealed \cup {r}
  /\ UNCHANGED known

LockNext ==
  \E r \in Runs : Grant(r) \/ Adopt(r) \/ Quiesce(r) \/ Release(r)

LockSpec == LockInit /\ [][LockNext]_lockVars
-----------------------------------------------------------------------------
\* Only Runs that exist are live, sealed or overtaken.
LockTypeOK ==
  /\ owner \in [Days -> Runs \cup {Nobody}]
  /\ known \in SUBSET Runs
  /\ live \in SUBSET known
  /\ sealed \subseteq known

\* A sealed Run has no work left (admit, resolve and the retirements).
SealedIsQuiet == sealed \cap live = {}
\* The holder of a date is not sealed and is the only Run of the date with work
\* left, however admissions, adoptions and releases follow each other.
HolderWorksAlone ==
  \A d \in Days : owner[d] # Nobody =>
    /\ DayOf(owner[d]) = d
    /\ owner[d] \in known \ sealed
    /\ On(d, live) \subseteq {owner[d]}
=============================================================================
