--------------------------- MODULE MCRunAdmission ---------------------------
(* Instances of RunAdmission for TLC.                                       *)
EXTENDS RunAdmission, TLC

CONSTANT d1

MCDates == {d1}
\* The scheduled slot of d1 was dispatched before admissions existed.
MCLegacy == {<<d1, 0>>}
NoLegacy == {}
\* Worker invocations are interchangeable: hs is the only variable they index.
HandlerSymmetry == Permutations(Handlers)
=============================================================================
