---------------------------- MODULE MCLaunchShim ----------------------------
(* Instances of LaunchShim for TLC. *)
EXTENDS LaunchShim
=============================================================================
