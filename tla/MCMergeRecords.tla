--------------------------- MODULE MCMergeRecords ---------------------------
(* Instances of MergeRecords for TLC. *)
EXTENDS MergeRecords
=============================================================================
