--------------------------- MODULE MCCoordinator ---------------------------
(* Instances of Coordinator for TLC. *)
EXTENDS Coordinator, TLC

CallsOnly  == {"calls"}
AllDetails == {"calls", "instructions"}

\* Ids are interchangeable: no action or invariant names one.
IdSymmetry == Permutations(Sessions) \union Permutations(Jobs)
=============================================================================
