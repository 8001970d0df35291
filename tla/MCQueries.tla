----------------------------- MODULE MCQueries -----------------------------
(* Instances of Queries for TLC. *)
EXTENDS Queries, TLC

TwoThreadsAndChild == {<<1, 1>>, <<1, 2>>, <<3, 3>>}
Leader == <<1, 1>>

Insn(kind, target, fall) == [kind |-> kind, target |-> target, fall |-> fall]

\* two images with different code at the same addresses
SmallCode ==
    [A |-> 0 :> Insn("cond", 2, 1) @@ 1 :> Insn("seq", 0, 0) @@ 2 :> Insn("indirect", 0, 0),
     B |-> 0 :> Insn("seq", 1, 1) @@ 1 :> Insn("cond", 2, 2) @@ 2 :> Insn("cond", 0, 1)]

\* f and its second instance differ in the linkage hash
HashedNames == [f |-> "f", f2 |-> "f", g |-> "g"]

SomePairs == {<< >>, << <<<<"f">>, <<"g">>>> >>}

Heavy == [f |-> 1, f2 |-> 2, g |-> 3]
Shrunk == [f |-> 1, f2 |-> 1, g |-> 2]
\* No action or property names a thread of the calls program.
ThreadSymmetry == Permutations(Threads)
=============================================================================
