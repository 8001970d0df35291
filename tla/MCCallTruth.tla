---------------------------- MODULE MCCallTruth ----------------------------
(* Instances of CallTruth for TLC. *)
EXTENDS CallTruth
Runner  == <<1, 7>>
OneTask == {Runner}

\* CPUs and functions are interchangeable: no action or invariant names one.
PlaceSymmetry == Permutations(CPUs) \union Permutations(Functions)
=============================================================================
