---------------------------- MODULE Publication ----------------------------
(***************************************************************************)
(* What the approval gate promises the reader of the public record: every   *)
(* chain of Drafts is settled once, and the record changes only when a      *)
(* chain is accepted, from the values its last offer expected to the values *)
(* that offer carries.                                                      *)
(***************************************************************************)
CONSTANTS Chains, Cells, Values, Blank, Proposals, None
VARIABLES verdict, offer, record
pubVars == <<verdict, offer, record>>

Init == /\ verdict = [c \in Chains |-> "open"]
        /\ offer = [c \in Chains |-> None]
        /\ record = Blank

\* A chain still open is drafted or revised; a revision that was not evaluated
\* yet takes the offer back.
Offer(c) ==
  /\ verdict[c] = "open"
  /\ \E p \in Proposals \cup {None} : offer' = [offer EXCEPT ![c] = p]
  /\ UNCHANGED <<verdict, record>>

\* Everything the offer writes held what it expected; the operator may have
\* stripped some of what is optional.
Accept(c) ==
  LET p == offer[c] IN
  /\ verdict[c] = "open" /\ p # None
  /\ verdict' = [verdict EXCEPT ![c] = "accepted"]
  /\ \E stripped \in SUBSET p.optional :
       LET written == p.cells \ stripped IN
       /\ \A cell \in written : record[cell] = p.from[cell]
       /\ record' = [cell \in Cells |->
                       IF cell \in written THEN p.to[cell] ELSE record[cell]]
  /\ UNCHANGED offer

\* One chain, or what is left of a Run together.
Reject(chains) ==
  /\ chains # {} /\ \A c \in chains : verdict[c] = "open"
  /\ verdict' = [c \in Chains |-> IF c \in chains THEN "rejected" ELSE verdict[c]]
  /\ UNCHANGED <<offer, record>>

Next == \/ \E c \in Chains : Offer(c) \/ Accept(c)
        \/ \E chains \in SUBSET Chains : Reject(chains)
Spec == Init /\ [][Next]_pubVars
=============================================================================
