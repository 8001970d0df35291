---------------------------- MODULE MCDurability ----------------------------
EXTENDS Durability, TLC

ProcSymmetry == Permutations(Procs)
=============================================================================
