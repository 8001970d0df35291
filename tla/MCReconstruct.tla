--------------------------- MODULE MCReconstruct ---------------------------
(* Instances of Reconstruct for TLC. *)
EXTENDS Reconstruct
TwoTasks == {<<1, 7>>, <<1, 8>>}
=============================================================================
