-------------------------- MODULE MCLlmAccounting --------------------------
(* Instances of LlmAccounting for TLC.                                      *)
EXTENDS LlmAccounting, TLC, Functions

CONSTANTS r1, p1, t1, t2

\* Counting cents is what a fold over the rows adds up.
ASSUME SumIsTheSum ==
  \A n \in 0..3 : \A amounts \in [1..n -> 0..3] : Sum(amounts) = SumFunction(amounts)

OneRun  == {r1}
Budget3 == (r1 :> 3)
Budget4 == (r1 :> 4)
Budget5 == (r1 :> 5)
NoSpend == (r1 :> 0)
Spent1  == (r1 :> 1)
OnePeriod == {p1}
Cap3 == (p1 :> 3)
FirstDay == (p1 :> {t1})
NoPeriod == [p \in {} |-> 0]
\* Executions of complete() are interchangeable.
CallSymmetry == Permutations(Calls)
\* So are logical keys.
MoneySymmetry == Permutations(Calls) \cup Permutations(Keys)
=============================================================================
