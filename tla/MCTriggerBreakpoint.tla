------------------------ MODULE MCTriggerBreakpoint ------------------------
(* Instances of TriggerBreakpoint for TLC. *)
EXTENDS TriggerBreakpoint, TLC
=============================================================================
