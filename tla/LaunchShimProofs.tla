-------------------------- MODULE LaunchShimProofs --------------------------
(***************************************************************************)
(* The launch shim and the recorder, proved for any set of threads and any *)
(* budget.                                                                 *)
(***************************************************************************)
EXTENDS LaunchShim, FiniteSetTheorems, WellFoundedInduction, TLAPS

(***************************************************************************)
(* Ring sizes.                                                             *)
(***************************************************************************)
\* A set of natural numbers has a least element: induction without an
\* induction rule.
LEMMA NatMin ==
    ASSUME NEW T, T \subseteq Nat, T # {}
    PROVE  \E x \in T : \A y \in T : x <= y
<1>1. \E x \in T : \A y \in T : ~(<<y, x>> \in OpToRel(<, Nat))
    BY NatLessThanWellFounded, WFMin
<1>2. \A a, b \in Nat : a < b => <<a, b>> \in OpToRel(<, Nat)
    BY Zenon DEF OpToRel
<1>3. \E x \in T : \A y \in T : ~(y < x)
    BY <1>1, <1>2, Zenon
<1> QED BY <1>3

\* There is a largest power of two up to n, so rounding down gives 1..n.
LEMMA FloorPow2Bounds ==
    ASSUME NEW n \in Nat \ {0}
    PROVE  FloorPow2(n) \in 1..n
<1> DEFINE S == {p \in 1..n : \E k \in 0..n : p = 2^k}
           T == {q \in 0..n : n - q \in S}
<1>1. 1 \in S
  <2>1. 1 = 2^0
    BY SMT
  <2>2. 1 \in 1..n /\ 0 \in 0..n
    OBVIOUS
  <2> QED BY <2>1, <2>2, Zenon
<1>2. S \subseteq 1..n
    OBVIOUS
<1> HIDE DEF S
<1>3. n - 1 \in T
    BY <1>1
<1>4. PICK x \in T : \A y \in T : x <= y
  <2>1. T \subseteq Nat
    OBVIOUS
  <2> HIDE DEF T
  <2>2. T # {}
    BY <1>3
  <2> QED BY <2>1, <2>2, NatMin
<1>5. n - x \in S /\ \A y \in S : n - x >= y
  <2> SUFFICES ASSUME NEW y \in S PROVE n - x >= y
    BY <1>4
  <2>1. n - y \in T
    BY <1>2
  <2>2. x <= n - y
    BY <1>4, <2>1
  <2> QED BY <1>2, <1>4, <2>2
<1>6. Max(S) \in S
    BY <1>5 DEF Max
<1> QED BY <1>2, <1>6 DEF FloorPow2, S

\* A new ring fits what is left of the budget.
LEMMA RingSizeFits ==
    ASSUME auxUsed \in Nat
    PROVE  /\ RingSize \in Nat
           /\ RingSize > 0 => auxUsed + RingSize <= AuxBudget
<1> DEFINE left == AuxBudget - auxUsed
           size == IF AuxBytes < left THEN AuxBytes ELSE left
<1>1. RingSize = IF size >= 1 THEN FloorPow2(size) ELSE 0
    BY DEF RingSize
<1>2. CASE size >= 1
  <2>1. size \in Nat \ {0} /\ size <= AuxBudget - auxUsed
    BY <1>2, ShimAssumption
  <2> HIDE DEF size
  <2>2. FloorPow2(size) \in 1..size
    BY <2>1, FloorPow2Bounds
  <2> QED BY <1>1, <1>2, <2>1, <2>2, ShimAssumption
<1>3. CASE ~(size >= 1)
    BY <1>1, <1>3
<1> QED BY <1>2, <1>3

(***************************************************************************)
(* Sums, by induction on the size of the set summed over.                  *)
(***************************************************************************)
\* MapThenFoldSet takes the elements of a set one by one.
Pick(s) == CHOOSE x \in s : TRUE
\* g sums f over every set of B: the recursive function behind the fold.
Folded(f, B, g) == g = [s \in B |-> IF s = {} THEN 0 ELSE f[Pick(s)] + g[s \ {Pick(s)}]]
\* The sum is that function's value at the whole domain.
LEMMA TotalIsFold ==
    ASSUME NEW S, NEW f \in [S -> Nat]
    PROVE  Total(f) = (CHOOSE g : Folded(f, SUBSET S, g))[S]
<1>1. DOMAIN f = S
  OBVIOUS
<1> QED BY <1>1, Zenon DEF Total, FoldFunction, FoldFunctionOnSet, MapThenFoldSet, Folded, Pick

\* What is left when one element is taken.
LEMMA PickFacts ==
    ASSUME NEW S, IsFiniteSet(S), NEW s \in SUBSET S, s # {}
    PROVE  /\ Pick(s) \in s /\ s \ {Pick(s)} \in SUBSET S
           /\ Cardinality(s) \in Nat /\ Cardinality(s \ {Pick(s)}) = Cardinality(s) - 1
           /\ Cardinality(s) > 0
<1>1. Pick(s) \in s
  BY DEF Pick
<1>2. IsFiniteSet(s)
  BY FS_Subset
<1>3. Cardinality(s) \in Nat /\ Cardinality(s \ {Pick(s)}) = Cardinality(s) - 1
  BY <1>1, <1>2, FS_CardinalityType, FS_RemoveElement
<1>4. Cardinality(s) > 0
  BY <1>2, <1>3, FS_EmptySet
<1> QED BY <1>1, <1>3, <1>4

\* That function exists: extend it from the sets of n - 1 elements to those of n.
LEMMA FoldExists ==
    ASSUME NEW S, IsFiniteSet(S), NEW f
    PROVE  \E g : Folded(f, SUBSET S, g)
<1> DEFINE B(n) == {s \in SUBSET S : Cardinality(s) <= n}
           Q == {n \in Nat : ~ \E g : Folded(f, B(n), g)}
<1>1. Q = {}
  <2> SUFFICES ASSUME Q # {} PROVE FALSE
    OBVIOUS
  <2>1. PICK n \in Q : \A m \in Q : n <= m
    <3>1. Q \subseteq Nat
      OBVIOUS
    <3> HIDE DEF Q
    <3> QED BY <3>1, NatMin
  <2>2. CASE n = 0
    <3>1. \A s \in B(0) : s = {}
      <4> SUFFICES ASSUME NEW s \in SUBSET S, s # {}, Cardinality(s) <= 0 PROVE FALSE
        OBVIOUS
      <4>1. Cardinality(s) \in Nat /\ Cardinality(s) > 0
        BY PickFacts, Zenon
      <4> QED BY <4>1
    <3> HIDE DEF B
    <3>2. Folded(f, B(0), [s \in B(0) |-> 0])
      BY <3>1 DEF Folded
    <3> QED BY <2>2, <3>2
  <2>3. CASE n # 0
    <3>0. n \in Nat
      OBVIOUS
    <3>1. n \in Nat /\ n - 1 \in Nat /\ n - 1 \notin Q
      <4> HIDE DEF Q
      <4> QED BY <2>1, <2>3, <3>0
    <3>2. PICK g : Folded(f, B(n - 1), g)
      BY <3>1
    <3> DEFINE h == [s \in B(n) |-> IF s = {} THEN 0 ELSE f[Pick(s)] + g[s \ {Pick(s)}]]
    <3>3. \A u \in B(n - 1) : u \in B(n)
      <4> SUFFICES ASSUME NEW u \in SUBSET S, Cardinality(u) <= n - 1 PROVE Cardinality(u) <= n
        OBVIOUS
      <4>1. Cardinality(u) \in Nat
        BY FS_Subset, FS_CardinalityType
      <4> QED BY <3>1, <4>1
    <3>4. \A u \in B(n - 1) : h[u] = g[u]
      <4> HIDE DEF B
      <4> QED BY <3>2, <3>3 DEF Folded
    <3>5. ASSUME NEW s \in B(n), s # {} PROVE s \ {Pick(s)} \in B(n - 1)
      BY <3>1, <3>5, PickFacts
    <3>6. Folded(f, B(n), h)
      <4> HIDE DEF B
      <4>1. h = [s \in B(n) |-> IF s = {} THEN 0 ELSE f[Pick(s)] + h[s \ {Pick(s)}]]
        BY <3>4, <3>5
      <4> HIDE DEF h
      <4> QED BY <4>1 DEF Folded
    <3> HIDE DEF h, B
    <3> QED BY <3>6
  <2> QED BY <2>2, <2>3
<1>2. Cardinality(S) \in Nat
  BY FS_CardinalityType
<1>3. B(Cardinality(S)) = SUBSET S
  BY FS_Subset
<1>4. PICK g : Folded(f, B(Cardinality(S)), g)
  BY <1>1, <1>2
<1> QED BY <1>3, <1>4

\* Giving a value to an argument that had none adds it to the sum.
LEMMA TotalUpdate ==
    ASSUME NEW S, IsFiniteSet(S), NEW f \in [S -> Nat],
           NEW t \in S, f[t] = 0, NEW v \in Nat
    PROVE  Total(f) \in Nat /\ Total([f EXCEPT ![t] = v]) = Total(f) + v
<1> DEFINE e == [f EXCEPT ![t] = v]
<1>1. PICK g : Folded(f, SUBSET S, g) /\ Total(f) = g[S]
    BY FoldExists, TotalIsFold
<1>2. e \in [S -> Nat]
    OBVIOUS
<1>3. PICK h : Folded(e, SUBSET S, h) /\ Total(e) = h[S]
    BY <1>2, FoldExists, TotalIsFold
<1> DEFINE Good(s) == g[s] \in Nat /\ h[s] = g[s] + (IF t \in s THEN v ELSE 0)
           Q == {n \in Nat : \E s \in SUBSET S : Cardinality(s) = n /\ ~Good(s)}
<1>4. Q = {}
  <2> SUFFICES ASSUME Q # {} PROVE FALSE
    OBVIOUS
  <2>1. PICK n \in Q : \A m \in Q : n <= m
    <3>1. Q \subseteq Nat
      OBVIOUS
    <3> HIDE DEF Q
    <3> QED BY <3>1, NatMin
  <2>2. PICK s \in SUBSET S : Cardinality(s) = n /\ ~Good(s)
    OBVIOUS
  <2>3. CASE s = {}
    BY <1>1, <1>3, <2>2, <2>3 DEF Folded
  <2>4. CASE s # {}
    <3> DEFINE x == Pick(s)
               r == s \ {x}
    <3>1. /\ x \in s /\ r \in SUBSET S /\ Cardinality(s) \in Nat
          /\ Cardinality(r) = Cardinality(s) - 1 /\ Cardinality(s) > 0
      BY <2>4, PickFacts
    <3>2. g[s] = f[x] + g[r] /\ h[s] = e[x] + h[r]
      BY <1>1, <1>3, <2>4 DEF Folded
    <3>3. Good(r)
      <4> HIDE DEF Good
      <4>1. Cardinality(r) \in Nat /\ Cardinality(r) < n
        BY <2>2, <3>1
      <4>2. Cardinality(r) \notin Q
        <5> HIDE DEF Q
        <5>1. n \in Nat
          BY DEF Q
        <5> QED BY <2>1, <4>1, <5>1
      <4> QED BY <3>1, <4>1, <4>2
    <3>4. x \in S /\ (t \in r <=> t \in s /\ t # x)
      BY <3>1
    <3>5. f[x] \in Nat /\ e[x] = (IF x = t THEN v ELSE f[x])
      BY <3>4
    <3> HIDE DEF x, r, e
    <3>6. CASE x = t
      <4>1. t \in s /\ t \notin r /\ h[r] = g[r] /\ g[r] \in Nat
        BY <3>1, <3>3, <3>4, <3>6
      <4>2. g[s] = g[r] /\ h[s] = v + g[r]
        BY <3>2, <3>5, <3>6, <4>1
      <4> QED BY <2>2, <4>1, <4>2
    <3>7. CASE x # t
      <4>1. f[x] \in Nat /\ e[x] = f[x] /\ (t \in r <=> t \in s)
        BY <3>4, <3>5, <3>7
      <4>2. h[r] = g[r] + (IF t \in s THEN v ELSE 0) /\ g[r] \in Nat
        BY <3>3, <4>1
      <4>3. g[s] \in Nat /\ h[s] = g[s] + (IF t \in s THEN v ELSE 0)
        BY <3>2, <4>1, <4>2
      <4> QED BY <2>2, <4>3
    <3> QED BY <3>6, <3>7
  <2> QED BY <2>3, <2>4
<1>5. Good(S)
  <2>1. Cardinality(S) \in Nat /\ S \in SUBSET S
    BY FS_CardinalityType
  <2> HIDE DEF Good
  <2> QED BY <1>4, <2>1
<1> QED BY <1>1, <1>3, <1>5

\* Nothing adds up to nothing.
LEMMA TotalZero ==
    ASSUME NEW S, IsFiniteSet(S)
    PROVE  Total([t \in S |-> 0]) = 0
<1> DEFINE f == [t \in S |-> 0]
<1>1. PICK g : Folded(f, SUBSET S, g) /\ Total(f) = g[S]
    BY FoldExists, TotalIsFold
<1> DEFINE Q == {n \in Nat : \E s \in SUBSET S : Cardinality(s) = n /\ g[s] # 0}
<1>4. Q = {}
  <2> SUFFICES ASSUME Q # {} PROVE FALSE
    OBVIOUS
  <2>1. PICK n \in Q : \A m \in Q : n <= m
    <3>1. Q \subseteq Nat
      OBVIOUS
    <3> HIDE DEF Q
    <3> QED BY <3>1, NatMin
  <2>2. PICK s \in SUBSET S : Cardinality(s) = n /\ g[s] # 0
    OBVIOUS
  <2>3. CASE s = {}
    BY <1>1, <2>2, <2>3 DEF Folded
  <2>4. CASE s # {}
    <3> DEFINE x == Pick(s)
               r == s \ {x}
    <3>1. /\ x \in s /\ r \in SUBSET S /\ Cardinality(s) \in Nat
          /\ Cardinality(r) = Cardinality(s) - 1 /\ Cardinality(s) > 0
      BY <2>4, PickFacts
    <3>2. g[s] = f[x] + g[r]
      BY <1>1, <2>4 DEF Folded
    <3>3. g[r] = 0
      <4>1. Cardinality(r) \in Nat /\ Cardinality(r) < n
        BY <2>2, <3>1
      <4>2. Cardinality(r) \notin Q
        <5> HIDE DEF Q
        <5>1. n \in Nat
          BY DEF Q
        <5> QED BY <2>1, <4>1, <5>1
      <4> QED BY <3>1, <4>1, <4>2
    <3> QED BY <2>2, <3>1, <3>2, <3>3
  <2> QED BY <2>3, <2>4
<1>5. g[S] = 0
  <2>1. Cardinality(S) \in Nat /\ S \in SUBSET S
    BY FS_CardinalityType
  <2> QED BY <1>4, <2>1
<1> QED BY <1>1, <1>5

(***************************************************************************)
(* The inductive invariant: the handshake of report_and_wait has at most   *)
(* one line under way as long as no answer is late, so an answer or an     *)
(* expired wait always belongs to the stop in hand.                        *)
(***************************************************************************)
\* The recorder has acted on a line.
Handled(m) == IF m[1] = "exit" THEN ring[m[2]] > 0 => m[2] \in snapped
                               ELSE Known(m[2])

\* The shim holds a stopped thread, and its message is about that stop.
Busy == shim.pc \in {"notify", "open", "poll"}
InHand == Busy =>
    /\ shim.tid \in Threads
    /\ kthread[shim.tid] \in {"execstop", "cloned", "reexec", "exiting"}
    /\ kthread[shim.tid] = "cloned" => shim.msg = <<"thread", child[shim.tid]>>
    /\ kthread[shim.tid] = "exiting" => shim.msg = <<"exit", shim.tid>>
    /\ kthread[shim.tid] \in {"execstop", "reexec"} => shim.msg = <<"exec", shim.tid>>

\* wait_for_ack has the second FIFO open only while it polls it.
AckIsOpen == ack # "closed" <=> shim.pc = "poll"

\* A recorder that is not late has at most the line of the stop in hand to
\* read, and a stop whose line is read has been acted on.
OneLine == recording /\ ~late =>
    /\ shim.pc \notin {"open", "poll"} => report = <<>>
    /\ shim.pc \in {"open", "poll"} => report \in {<<>>, <<shim.msg>>}
    /\ ack = "go" => report = <<>>
    /\ shim.pc \in {"open", "poll"} /\ report = <<>> => Handled(shim.msg)

\* A thread in a clone stop has a child, which is known once the stop is over.
CloneStops ==
    \A t \in Threads :
        /\ kthread[t] = "cloned" => child[t] \in Threads
        /\ Supervised /\ child[t] # None /\ kthread[t] # "cloned" => Known(child[t])

RootIsKnown == Supervised /\ kthread[Root] # "execstop" => Known(Root)

IInv == /\ TypeOK /\ InHand /\ AckIsOpen /\ OneLine /\ CloneStops /\ RootIsKnown
        /\ ExitIsSnapped /\ BudgetRespected

-----------------------------------------------------------------------------
(***************************************************************************)
(* Types and the budget.                                                   *)
(***************************************************************************)
\* The message of a stop in hand is one, and so is the report of a stop.
LEMMA MessageType ==
    ASSUME TypeOK, CloneStops
    PROVE  /\ InHand /\ Busy => shim.msg \in Messages
           /\ \A t \in Threads : ReportsStop(t) => ReportOf(t) \in Messages
           /\ \A t \in Threads : <<"exec", t>> \in Messages
<1>1. \A t \in Threads : \A k \in {"exec", "thread", "exit"} : <<k, t>> \in Messages
    BY DEF Messages
<1>2. InHand /\ Busy => shim.msg \in Messages
    BY <1>1 DEF InHand, CloneStops
<1>3. ASSUME NEW t \in Threads, ReportsStop(t)
      PROVE  ReportOf(t) \in Messages
    BY <1>1, <1>3 DEF ReportsStop, ReportOf, CloneStops
<1> QED BY <1>1, <1>2, <1>3

\* Every step keeps the types and the budget.
LEMMA TypeStep ==
    TypeOK /\ BudgetRespected /\ InHand /\ CloneStops /\ [Next]_vars => TypeOK' /\ BudgetRespected'
<1> SUFFICES ASSUME TypeOK, BudgetRespected, InHand, CloneStops, [Next]_vars PROVE TypeOK' /\ BudgetRespected'
    OBVIOUS
<1> USE DEF kernelVars, recVars, BudgetRespected
<1>0. /\ {"running", "gone", "starting", "none"} \union Stops \subseteq ThreadStates
      /\ {"cloned", "initial", "exiting", "reexec"} \subseteq Stops
      /\ {"wait", "notify", "open", "poll", "gone"} = ShimStates
    BY DEF ThreadStates, Stops, ShimStates
<1>c. ASSUME NEW t \in Threads PROVE Continued(t) \in [Threads -> ThreadStates]
    BY <1>0 DEF Continued, TypeOK
<1>n. [pc |-> "wait", tid |-> None, msg |-> NoMessage] \in
        [pc : ShimStates, tid : Threads \union {None}, msg : Messages \union {NoMessage}]
    BY <1>0
<1>g. [pc |-> "gone", tid |-> None, msg |-> NoMessage] \in
        [pc : ShimStates, tid : Threads \union {None}, msg : Messages \union {NoMessage}]
    BY <1>0
<1>1. CASE Execs
    BY <1>0, <1>1, ShimAssumption DEF Execs, TypeOK
<1>2. ASSUME NEW t \in Threads, Exits(t) \/ Arrives(t) PROVE TypeOK' /\ BudgetRespected'
    BY <1>0, <1>2 DEF Exits, Arrives, TypeOK
<1>3. ASSUME NEW t \in Threads, NEW u \in Threads, Clones(t, u) PROVE TypeOK' /\ BudgetRespected'
    BY <1>0, <1>3 DEF Clones, TypeOK
<1>4. ASSUME NEW t \in Threads, ShimWaits(t) PROVE TypeOK' /\ BudgetRespected'
  <2>1. CASE ReportsExec(t) \/ ReportsStop(t)
    <3>1. (IF ReportsExec(t) THEN <<"exec", t>> ELSE ReportOf(t)) \in Messages
      BY <2>1, MessageType
    <3>2. shim' \in [pc : ShimStates, tid : Threads \union {None}, msg : Messages \union {NoMessage}]
      BY <1>0, <1>4, <2>1, <3>1 DEF ShimWaits
    <3> QED BY <1>4, <2>1, <3>2 DEF ShimWaits, TypeOK
  <2>2. CASE ~(ReportsExec(t) \/ ReportsStop(t))
    BY <1>c, <1>4, <2>2 DEF ShimWaits, TypeOK
  <2> QED BY <2>1, <2>2
<1>5. CASE ShimNotifies
  <2>1. shim.msg \in Messages
    BY <1>5, MessageType DEF ShimNotifies, Busy
  <2>2. report' \in Seq(Messages)
    BY <1>5, <2>1 DEF ShimNotifies, TypeOK
  <2>3. shim' \in [pc : ShimStates, tid : Threads \union {None}, msg : Messages \union {NoMessage}]
    BY <1>0, <1>5 DEF ShimNotifies, TypeOK
  <2> QED BY <1>5, <2>2, <2>3 DEF ShimNotifies, TypeOK
<1>6. CASE ShimOpensAck
  <2>1. shim' \in [pc : ShimStates, tid : Threads \union {None}, msg : Messages \union {NoMessage}]
    BY <1>0, <1>6 DEF ShimOpensAck, TypeOK
  <2> QED BY <1>6, <2>1 DEF ShimOpensAck, TypeOK
<1>7. CASE ShimGetsAck \/ ShimTimesOut
  <2>1. shim.tid \in Threads
    BY <1>7 DEF ShimGetsAck, ShimTimesOut, InHand, Busy
  <2>2. late' \in BOOLEAN
    BY <1>7 DEF ShimGetsAck, ShimTimesOut, TypeOK
  <2>3. ShimResumes
    BY <1>7 DEF ShimGetsAck, ShimTimesOut
  <2> QED BY <1>c, <1>n, <2>1, <2>2, <2>3 DEF ShimResumes, TypeOK
<1>8. CASE ShimReturns
    BY <1>0, <1>g, <1>8 DEF ShimReturns, TypeOK
<1>9. CASE HandleReport
  <2>1. report' \in Seq(Messages)
    BY <1>9 DEF HandleReport, TypeOK
  <2>2. ack' \in {"closed", "empty", "go"}
    BY <1>9 DEF HandleReport, Acked
  <2>3. Head(report)[2] \in Threads
    <3>1. Head(report) \in Messages
      BY <1>9 DEF HandleReport, TypeOK
    <3> QED BY <3>1 DEF Messages
  <2>4. /\ ring' \in [Threads -> Nat] /\ auxUsed' \in Nat
        /\ auxUsed' = Total(ring') /\ auxUsed' <= AuxBudget
        /\ refused' \in SUBSET Threads /\ snapped' \in SUBSET Threads
    <3>1. CASE Head(report)[1] = "exit"
      BY <1>9, <2>3, <3>1 DEF HandleReport, TypeOK
    <3>2. CASE Head(report)[1] # "exit"
      <4> DEFINE t == Head(report)[2]
      <4>1. OpensEvent(t) /\ UNCHANGED snapped
        BY <1>9, <3>2 DEF HandleReport
      <4>2. RingSize \in Nat /\ (RingSize > 0 => auxUsed + RingSize <= AuxBudget)
        BY RingSizeFits DEF TypeOK
      <4>3. IsFiniteSet(Threads) /\ ring \in [Threads -> Nat] /\ t \in Threads
        BY <2>3, ShimAssumption DEF TypeOK
      <4> HIDE DEF t
      <4>4. ring[t] = 0 => Total([ring EXCEPT ![t] = RingSize]) = Total(ring) + RingSize
        BY <4>2, <4>3, TotalUpdate, Zenon
      <4>5. snapped' \in SUBSET Threads /\ refused' \in SUBSET Threads
        BY <4>1, <4>3 DEF OpensEvent, TypeOK
      <4>6. /\ ring' \in [Threads -> Nat] /\ auxUsed' \in Nat
            /\ auxUsed' = Total(ring') /\ auxUsed' <= AuxBudget
        <5>1. CASE UNCHANGED <<ring, auxUsed>>
          BY <5>1 DEF TypeOK
        <5>2. CASE ~UNCHANGED <<ring, auxUsed>>
          <6>1. /\ ring[t] = 0 /\ RingSize > 0 /\ ring' = [ring EXCEPT ![t] = RingSize]
                /\ auxUsed' = auxUsed + RingSize
            BY <4>1, <5>2, Zenon DEF OpensEvent
          <6> QED BY <4>2, <4>3, <4>4, <6>1 DEF TypeOK
        <5> QED BY <5>1, <5>2
      <4> QED BY <4>5, <4>6
    <3> QED BY <3>1, <3>2
  <2> QED BY <1>9, <2>1, <2>2, <2>4 DEF HandleReport, TypeOK
<1>10. CASE Finish
    BY <1>10 DEF Finish, TypeOK
<1>11. CASE Terminate
    BY <1>0, <1>g, <1>11 DEF Terminate, TypeOK
<1>12. CASE UNCHANGED vars
    BY <1>12 DEF vars, TypeOK
<1> QED BY <1>1, <1>2, <1>3, <1>4, <1>5, <1>6, <1>7, <1>8, <1>9, <1>10, <1>11, <1>12
        DEF Next, Workload, Shim, Recorder

\* The second FIFO is open only while it is polled.
LEMMA AckStep ==
    TypeOK /\ AckIsOpen /\ [Next]_vars => AckIsOpen'
<1> SUFFICES ASSUME TypeOK, AckIsOpen, [Next]_vars PROVE AckIsOpen'
    OBVIOUS
<1> USE DEF kernelVars, recVars, TypeOK, AckIsOpen
<1>1. CASE Execs
    BY <1>1 DEF Execs
<1>2. ASSUME NEW t \in Threads, Exits(t) PROVE AckIsOpen'
    BY <1>2 DEF Exits
<1>3. ASSUME NEW t \in Threads, Arrives(t) PROVE AckIsOpen'
    BY <1>3 DEF Arrives
<1>4. ASSUME NEW t \in Threads, NEW u \in Threads, Clones(t, u) PROVE AckIsOpen'
    BY <1>4 DEF Clones
<1>5. ASSUME NEW t \in Threads, ShimWaits(t) PROVE AckIsOpen'
    BY <1>5 DEF ShimWaits, ReportsExec, ReportsStop, ReportOf, Continued
<1>6. CASE ShimNotifies
    BY <1>6 DEF ShimNotifies
<1>7. CASE ShimOpensAck
    BY <1>7 DEF ShimOpensAck
<1>8. CASE ShimGetsAck
    BY <1>8 DEF ShimGetsAck, ShimResumes, Continued
<1>9. CASE ShimTimesOut
    BY <1>9 DEF ShimTimesOut, ShimResumes, Continued
<1>10. CASE ShimReturns
    BY <1>10 DEF ShimReturns
<1>11. CASE HandleReport
    BY <1>11 DEF HandleReport, Acked, OpensEvent
<1>12. CASE Finish
    BY <1>12 DEF Finish
<1>13. CASE Terminate
    BY <1>13 DEF Terminate
<1>14. CASE UNCHANGED vars
    BY <1>14 DEF vars
<1> QED BY <1>1, <1>2, <1>3, <1>4, <1>5, <1>6, <1>7, <1>8, <1>9, <1>10, <1>11, <1>12, <1>13, <1>14
        DEF Next, Workload, Shim, Recorder

\* A stop in hand stays one until the shim resumes it.
LEMMA HandStep ==
    TypeOK /\ InHand /\ [Next]_vars => InHand'
<1> SUFFICES ASSUME TypeOK, InHand, [Next]_vars PROVE InHand'
    OBVIOUS
<1> USE DEF kernelVars, recVars, TypeOK, InHand, Busy, Stops
<1>1. CASE Execs
    BY <1>1 DEF Execs
<1>2. ASSUME NEW t \in Threads, Exits(t) PROVE InHand'
    BY <1>2 DEF Exits
<1>3. ASSUME NEW t \in Threads, Arrives(t) PROVE InHand'
    BY <1>3 DEF Arrives
<1>4. ASSUME NEW t \in Threads, NEW u \in Threads, Clones(t, u) PROVE InHand'
    BY <1>4 DEF Clones
<1>5. ASSUME NEW t \in Threads, ShimWaits(t) PROVE InHand'
    BY <1>5 DEF ShimWaits, ReportsExec, ReportsStop, ReportOf, Continued
<1>6. CASE ShimNotifies
    BY <1>6 DEF ShimNotifies
<1>7. CASE ShimOpensAck
    BY <1>7 DEF ShimOpensAck
<1>8. CASE ShimGetsAck
    BY <1>8 DEF ShimGetsAck, ShimResumes, Continued
<1>9. CASE ShimTimesOut
    BY <1>9 DEF ShimTimesOut, ShimResumes, Continued
<1>10. CASE ShimReturns
    BY <1>10 DEF ShimReturns
<1>11. CASE HandleReport
    BY <1>11 DEF HandleReport, Acked, OpensEvent
<1>12. CASE Finish
    BY <1>12 DEF Finish
<1>13. CASE Terminate
    BY <1>13 DEF Terminate
<1>14. CASE UNCHANGED vars
    BY <1>14 DEF vars
<1> QED BY <1>1, <1>2, <1>3, <1>4, <1>5, <1>6, <1>7, <1>8, <1>9, <1>10, <1>11, <1>12, <1>13, <1>14
        DEF Next, Workload, Shim, Recorder

\* report_and_wait returns, by an answer or after 30 s, only when the line of
\* the stop in hand has been acted on, unless the recorder is late or done.
LEMMA ResumeFacts ==
    ASSUME TypeOK, InHand, AckIsOpen, OneLine, ShimGetsAck \/ ShimTimesOut
    PROVE  /\ shim.pc = "poll" /\ shim.tid \in Threads /\ ShimResumes
           /\ recording /\ ~late' => ~late /\ report = <<>> /\ Handled(shim.msg)
<1>1. shim.pc = "poll" /\ ShimResumes /\ ack \in {"empty", "go"}
    BY DEF ShimGetsAck, ShimTimesOut
<1>2. shim.tid \in Threads
    BY <1>1 DEF InHand, Busy
<1>3. ASSUME recording, ~late' PROVE ~late /\ report = <<>>
  <2>1. CASE ShimGetsAck
    BY <1>3, <2>1, Zenon DEF ShimGetsAck, OneLine
  <2>2. CASE ShimTimesOut
    BY <1>3, <2>2, Zenon DEF ShimTimesOut
  <2> QED BY <2>1, <2>2
<1>4. ASSUME recording, ~late' PROVE Handled(shim.msg)
    BY <1>1, <1>3, <1>4 DEF OneLine
<1> QED BY <1>1, <1>2, <1>3, <1>4

\* At most the line of the stop in hand is under way.
LEMMA LineStep == TypeOK /\ InHand /\ AckIsOpen /\ OneLine /\ [Next]_vars => OneLine'
<1> SUFFICES ASSUME TypeOK, InHand, AckIsOpen, OneLine, [Next]_vars, recording', ~late'
             PROVE  OneLine'
    BY DEF OneLine
<1> USE DEF kernelVars, recVars
<1>u. ASSUME UNCHANGED <<shim, report, ack, ring, refused, snapped, recording, late>>
      PROVE  OneLine'
    BY <1>u DEF OneLine, Handled, Known
<1>1. CASE Execs
    BY <1>u, <1>1 DEF Execs
<1>2. ASSUME NEW t \in Threads, Exits(t) \/ Arrives(t) PROVE OneLine'
    BY <1>u, <1>2 DEF Exits, Arrives
<1>3. ASSUME NEW t \in Threads, NEW u \in Threads, Clones(t, u) PROVE OneLine'
    BY <1>u, <1>3 DEF Clones
<1>4. ASSUME NEW t \in Threads, ShimWaits(t) PROVE OneLine'
  <2>1. shim.pc = "wait" /\ UNCHANGED <<report, ack, recording, late>> /\ shim'.pc \in {"wait", "notify"}
    <3>1. shim.pc = "wait" /\ UNCHANGED <<report, ack, recording, late>>
      BY <1>4 DEF ShimWaits
    <3>2. \/ shim' = shim
          \/ \E m : shim' = [pc |-> "notify", tid |-> t, msg |-> m]
      BY <1>4, Zenon DEF ShimWaits
    <3>3. CASE shim' = shim
      BY <3>1, <3>3, Zenon
    <3>4. ASSUME NEW m, shim' = [pc |-> "notify", tid |-> t, msg |-> m] PROVE shim'.pc = "notify"
      BY <3>4
    <3> QED BY <3>1, <3>2, <3>3, <3>4, Zenon
  <2>2. report = <<>> /\ ack = "closed"
    BY <2>1 DEF OneLine, AckIsOpen
  <2> QED BY <2>1, <2>2 DEF OneLine
<1>5. CASE ShimNotifies
  <2>1. shim.pc = "notify" /\ shim' = [shim EXCEPT !.pc = "open"]
        /\ report' = Append(report, shim.msg) /\ UNCHANGED <<ack, recording, late>>
    BY <1>5 DEF ShimNotifies
  <2>2. report = <<>> /\ ack = "closed"
    BY <2>1 DEF OneLine, AckIsOpen
  <2>3. report' = <<shim.msg>> /\ shim'.pc = "open" /\ shim'.msg = shim.msg
    BY <2>1, <2>2 DEF TypeOK
  <2>4. report' # <<>>
    BY <2>3
  <2> QED BY <2>1, <2>2, <2>3, <2>4 DEF OneLine
<1>6. CASE ShimOpensAck
  <2>1. shim.pc = "open" /\ shim' = [shim EXCEPT !.pc = "poll"] /\ ack' = "empty"
        /\ UNCHANGED <<report, ring, refused, snapped, recording, late>>
    BY <1>6 DEF ShimOpensAck
  <2>2. shim'.pc = "poll" /\ shim'.msg = shim.msg
    BY <2>1 DEF TypeOK
  <2> QED BY <2>1, <2>2 DEF OneLine, Handled, Known
<1>7. CASE ShimGetsAck \/ ShimTimesOut
  <2>1. ShimResumes
    BY <1>7, ResumeFacts
  <2>2. recording /\ report' = report /\ shim'.pc = "wait" /\ ack' = "closed"
    BY <2>1 DEF ShimResumes
  <2>3. report = <<>>
    BY <1>7, <2>2, ResumeFacts
  <2> QED BY <2>2, <2>3 DEF OneLine
<1>8. CASE ShimReturns
  <2>1. shim.pc = "wait" /\ shim'.pc = "gone" /\ UNCHANGED <<report, ack, recording, late>>
    BY <1>8 DEF ShimReturns
  <2>2. report = <<>> /\ ack = "closed"
    BY <2>1 DEF OneLine, AckIsOpen
  <2> QED BY <2>1, <2>2 DEF OneLine
<1>9. CASE HandleReport
  <2>1. recording /\ report # <<>> /\ report' = Tail(report) /\ UNCHANGED <<shim, recording, late>>
    BY <1>9 DEF HandleReport
  <2>2. report = <<shim.msg>> /\ shim.pc \in {"open", "poll"}
    BY <2>1 DEF OneLine
  <2>3. report' = <<>> /\ Head(report) = shim.msg
    BY <2>1, <2>2
  <2>4. Handled(shim.msg)'
    <3>1. shim.msg[2] \in Threads
      BY <2>2, <2>3 DEF TypeOK, Messages
    <3>2. CASE shim.msg[1] = "exit"
      BY <1>9, <2>1, <2>3, <3>1, <3>2 DEF HandleReport, Handled, TypeOK
    <3>3. CASE shim.msg[1] # "exit"
      <4>1. OpensEvent(shim.msg[2])
        BY <1>9, <2>3, <3>3 DEF HandleReport
      <4>2. Known(shim.msg[2])'
        BY <2>1, <3>1, <4>1 DEF OpensEvent, Known, TypeOK
      <4> QED BY <2>1, <3>3, <4>2 DEF Handled
    <3> QED BY <3>2, <3>3
  <2> QED BY <2>1, <2>2, <2>3, <2>4 DEF OneLine
<1>10. CASE Finish
    BY <1>10 DEF Finish
<1>11. CASE Terminate
    BY <1>11 DEF Terminate
<1>12. CASE UNCHANGED vars
    BY <1>u, <1>12 DEF vars
<1> QED BY <1>1, <1>2, <1>3, <1>4, <1>5, <1>6, <1>7, <1>8, <1>9, <1>10, <1>11, <1>12
        DEF Next, Workload, Shim, Recorder

\* What is known stays known, and a capture once out of supervision stays so.
LEMMA KnownStays ==
    ASSUME TypeOK, [Next]_vars
    PROVE  /\ \A t \in Threads : Known(t) => Known(t)'
           /\ Supervised' => Supervised
           /\ recording' => recording
           /\ resolved' = resolved
           /\ late => late'
<1> USE DEF kernelVars, recVars
<1>1. UNCHANGED <<ring, refused>> \/ \E t \in Threads : OpensEvent(t)
  <2>1. ASSUME HandleReport PROVE UNCHANGED <<ring, refused>> \/ \E t \in Threads : OpensEvent(t)
    <3>1. Head(report)[2] \in Threads
      BY <2>1 DEF HandleReport, TypeOK, Messages
    <3> QED BY <2>1, <3>1 DEF HandleReport
  <2> QED BY <2>1 DEF Next, Workload, Shim, Recorder, Execs, Exits, Arrives, Clones, ShimWaits,
             ShimNotifies,
        ShimOpensAck, ShimGetsAck, ShimTimesOut, ShimResumes, ShimReturns, Finish, Terminate, vars
<1>2. ASSUME NEW t \in Threads, Known(t) PROVE Known(t)'
  <2>1. CASE UNCHANGED <<ring, refused>>
    BY <1>2, <2>1 DEF Known
  <2>2. ASSUME NEW u \in Threads, OpensEvent(u) PROVE Known(t)'
    BY <1>2, <2>2 DEF OpensEvent, Known, TypeOK
  <2> QED BY <1>1, <2>1, <2>2
<1>3. recording' => recording
    BY DEF Next, Workload, Shim, Recorder, Execs, Exits, Arrives, Clones, ShimWaits, ShimNotifies,
        ShimOpensAck, ShimGetsAck, ShimTimesOut, ShimResumes, ShimReturns, HandleReport, Finish, Terminate, vars
<1>4. resolved' = resolved
    BY DEF Next, Workload, Shim, Recorder, Execs, Exits, Arrives, Clones, ShimWaits, ShimNotifies,
        ShimOpensAck, ShimGetsAck, ShimTimesOut, ShimResumes, ShimReturns, HandleReport, Finish, Terminate, vars
<1>5. late => late'
    BY Zenon DEF Next, Workload, Shim, Recorder, Execs, Exits, Arrives, Clones, ShimWaits,
       ShimNotifies,
        ShimOpensAck, ShimGetsAck, ShimTimesOut, ShimResumes, ShimReturns, HandleReport, Finish, Terminate, vars
<1>6. shim.pc = "gone" => shim' = shim \/ shim'.pc = "gone"
    BY DEF Next, Workload, Shim, Recorder, Execs, Exits, Arrives, Clones, ShimWaits, ShimNotifies,
        ShimOpensAck, ShimGetsAck, ShimTimesOut, ShimResumes, ShimReturns, HandleReport, Finish, Terminate, vars
<1>7. shim.pc = "gone" => shim'.pc = "gone"
    BY <1>6
<1>8. Supervised' => Supervised
    BY <1>3, <1>4, <1>5, <1>7, Zenon DEF Supervised
<1> QED BY <1>2, <1>3, <1>4, <1>5, <1>8

\* A child is known once its parent's stop is over, the root once its first is.
LEMMA CloneStep ==
    TypeOK /\ InHand /\ AckIsOpen /\ OneLine /\ CloneStops /\ RootIsKnown /\ [Next]_vars
        => CloneStops' /\ RootIsKnown'
<1> SUFFICES ASSUME TypeOK, InHand, AckIsOpen, OneLine, CloneStops, RootIsKnown, [Next]_vars
             PROVE  CloneStops' /\ RootIsKnown'
    OBVIOUS
<1> USE ShimAssumption DEF kernelVars, recVars
<1>k. /\ \A t \in Threads : Known(t) => Known(t)'
      /\ Supervised' => Supervised
    BY KnownStays
<1>s. kthread \in [Threads -> ThreadStates] /\ child \in [Threads -> Threads \union {None}]
    BY DEF TypeOK
\* no thread leaves a clone stop, the root does not leave its first one
<1>u. ASSUME child' = child,
             \A t \in Threads : kthread'[t] = "cloned" <=> kthread[t] = "cloned",
             kthread[Root] = "execstop" => kthread'[Root] = "execstop"
      PROVE  CloneStops' /\ RootIsKnown'
    BY <1>k, <1>s, <1>u DEF CloneStops, RootIsKnown
<1>1. CASE Execs
    BY <1>s, <1>u, <1>1 DEF Execs
<1>2. ASSUME NEW t \in Threads, Exits(t) \/ Arrives(t) PROVE CloneStops' /\ RootIsKnown'
    BY <1>s, <1>u, <1>2 DEF Exits, Arrives
<1>3. ASSUME NEW t \in Threads, NEW u \in Threads, Clones(t, u) PROVE CloneStops' /\ RootIsKnown'
  <2>1. /\ kthread' = [kthread EXCEPT ![t] = "cloned", ![u] = "starting"]
        /\ child' = [child EXCEPT ![t] = u] /\ kthread[t] = "running" /\ kthread[u] = "none"
    BY <1>3 DEF Clones
  <2>2. CloneStops'
    BY <1>k, <1>s, <2>1 DEF CloneStops
  <2>3. RootIsKnown'
    BY <1>k, <1>s, <2>1 DEF RootIsKnown
  <2> QED BY <2>2, <2>3
<1>4. ASSUME NEW t \in Threads, ShimWaits(t) PROVE CloneStops' /\ RootIsKnown'
  <2>1. CASE ReportsExec(t) \/ ReportsStop(t)
    BY <1>u, <1>4, <2>1 DEF ShimWaits
  <2>2. CASE ~(ReportsExec(t) \/ ReportsStop(t))
    <3>1. kthread' = Continued(t) /\ child' = child /\ resolved' = resolved
      BY <1>4, <2>2 DEF ShimWaits
    <3>2. CASE kthread[t] = "cloned"
      <4>1. ~Supervised'
        BY <2>2, <3>1, <3>2 DEF ReportsStop, Supervised
      <4> QED BY <1>s, <3>1, <4>1 DEF CloneStops, RootIsKnown, Continued
    <3>3. CASE kthread[t] # "cloned"
      BY <1>s, <1>u, <2>2, <3>1, <3>3 DEF ReportsExec, Continued
    <3> QED BY <3>2, <3>3
  <2> QED BY <2>1, <2>2
<1>5. CASE ShimNotifies
    BY <1>u, <1>5 DEF ShimNotifies
<1>6. CASE ShimOpensAck
    BY <1>u, <1>6 DEF ShimOpensAck
<1>7. CASE ShimGetsAck \/ ShimTimesOut
  <2>1. /\ shim.tid \in Threads /\ shim.pc = "poll"
        /\ kthread' = Continued(shim.tid) /\ child' = child /\ recording' = recording
    BY <1>7, ResumeFacts DEF ShimResumes
  <2>2. Supervised' => Handled(shim.msg)
    BY <1>7, <2>1, ResumeFacts DEF Supervised
  <2>3. ASSUME Supervised', kthread[shim.tid] = "cloned" PROVE Known(child[shim.tid])
    BY <2>1, <2>2, <2>3 DEF InHand, Busy, Handled
  <2>4. ASSUME Supervised', kthread[shim.tid] = "execstop" PROVE Known(shim.tid)
    BY <2>1, <2>2, <2>4 DEF InHand, Busy, Handled
  <2>5. CloneStops'
    BY <1>k, <1>s, <2>1, <2>3 DEF CloneStops, Continued
  <2>6. RootIsKnown'
    BY <1>k, <1>s, <2>1, <2>4 DEF RootIsKnown, Continued
  <2> QED BY <2>5, <2>6
<1>8. CASE ShimReturns \/ Terminate
  <2>1. child' = child /\ ~Supervised' /\ \A t \in Threads : kthread'[t] # "cloned"
    BY <1>s, <1>8 DEF ShimReturns, Terminate, Supervised, Stops
  <2> QED BY <2>1 DEF CloneStops, RootIsKnown
<1>9. CASE HandleReport \/ Finish
    BY <1>u, <1>9 DEF HandleReport, Finish
<1>10. CASE UNCHANGED vars
    BY <1>u, <1>10 DEF vars
<1> QED BY <1>1, <1>2, <1>3, <1>4, <1>5, <1>6, <1>7, <1>8, <1>9, <1>10
        DEF Next, Workload, Shim, Recorder

\* A thread is gone only after its ring is taken.
LEMMA ExitStep ==
    TypeOK /\ InHand /\ AckIsOpen /\ OneLine /\ ExitIsSnapped /\ [Next]_vars => ExitIsSnapped'
<1> SUFFICES ASSUME TypeOK, InHand, AckIsOpen, OneLine, ExitIsSnapped, [Next]_vars,
                    recording', resolved', ~late', NEW t \in Threads, kthread'[t] = "gone", ring'[t] > 0
             PROVE  t \in snapped'
    BY DEF ExitIsSnapped
<1> USE DEF kernelVars, recVars
<1>k. recording /\ resolved /\ ~late
    BY KnownStays
<1>s. kthread \in [Threads -> ThreadStates] /\ ring \in [Threads -> Nat]
    BY DEF TypeOK
<1>u. ASSUME kthread[t] = "gone", ring'[t] = ring[t], snapped \subseteq snapped' PROVE t \in snapped'
    BY <1>k, <1>u DEF ExitIsSnapped
<1>1. CASE Execs
    BY <1>s, <1>u, <1>1 DEF Execs
<1>2. ASSUME NEW x \in Threads, Exits(x) \/ Arrives(x) PROVE t \in snapped'
    BY <1>s, <1>u, <1>2 DEF Exits, Arrives
<1>3. ASSUME NEW x \in Threads, NEW u \in Threads, Clones(x, u) PROVE t \in snapped'
    BY <1>s, <1>u, <1>3 DEF Clones
<1>4. ASSUME NEW x \in Threads, ShimWaits(x) PROVE t \in snapped'
  <2>1. CASE ReportsExec(x) \/ ReportsStop(x)
    BY <1>u, <1>4, <2>1 DEF ShimWaits
  <2>2. CASE ~(ReportsExec(x) \/ ReportsStop(x))
    <3>1. kthread[x] # "exiting" /\ kthread' = Continued(x) /\ UNCHANGED <<ring, snapped>>
      BY <1>k, <1>4, <2>2 DEF ShimWaits, ReportsStop
    <3> QED BY <1>s, <1>u, <3>1 DEF Continued
  <2> QED BY <2>1, <2>2
<1>5. CASE ShimNotifies
    BY <1>u, <1>5 DEF ShimNotifies
<1>6. CASE ShimOpensAck
    BY <1>u, <1>6 DEF ShimOpensAck
<1>7. CASE ShimGetsAck \/ ShimTimesOut
  <2>1. /\ shim.tid \in Threads /\ shim.pc = "poll" /\ Handled(shim.msg)
        /\ kthread' = Continued(shim.tid) /\ UNCHANGED <<ring, snapped>>
    BY <1>k, <1>7, ResumeFacts DEF ShimResumes
  <2>2. kthread[t] = "gone" \/ (t = shim.tid /\ kthread[t] = "exiting")
    BY <1>s, <2>1 DEF Continued
  <2>3. CASE t = shim.tid /\ kthread[t] = "exiting"
    BY <2>1, <2>3 DEF InHand, Busy, Handled
  <2> QED BY <1>u, <2>1, <2>2, <2>3
<1>8. CASE ShimReturns
    BY <1>s, <1>u, <1>8 DEF ShimReturns
<1>9. CASE HandleReport
  <2>1. kthread' = kthread
    BY <1>9 DEF HandleReport
  <2>2. snapped \subseteq snapped'
    BY <1>9 DEF HandleReport
  <2>3. ring'[t] = ring[t]
    <3>1. CASE UNCHANGED ring
      BY <3>1
    <3>2. ASSUME OpensEvent(Head(report)[2]) PROVE ring'[t] = ring[t]
      BY <1>s, <2>1, <3>2 DEF OpensEvent
    <3> QED BY <1>9, <3>1, <3>2 DEF HandleReport
  <2> QED BY <1>u, <2>1, <2>2, <2>3
<1>10. CASE Finish \/ Terminate
    BY <1>k, <1>10 DEF Finish, Terminate
<1>11. CASE UNCHANGED vars
    BY <1>u, <1>11 DEF vars
<1> QED BY <1>1, <1>2, <1>3, <1>4, <1>5, <1>6, <1>7, <1>8, <1>9, <1>10, <1>11
        DEF Next, Workload, Shim, Recorder
-----------------------------------------------------------------------------
\* The invariant holds at the start and every step keeps it.
LEMMA Inductive == Spec => []IInv
<1>1. Init => IInv
  <2> SUFFICES ASSUME Init PROVE IInv
    OBVIOUS
  <2> USE ShimAssumption DEF Init
  <2>1. TypeOK
    <3>1. shim \in [pc : ShimStates, tid : Threads \union {None}, msg : Messages \union {NoMessage}]
      BY DEF ShimStates
    <3>2. kthread \in [Threads -> ThreadStates] /\ child \in [Threads -> Threads \union {None}]
      BY DEF ThreadStates, Stops
    <3>3. report \in Seq(Messages) /\ ring \in [Threads -> Nat] /\ auxUsed \in Nat
      OBVIOUS
    <3>4. execed \in BOOLEAN /\ recording \in BOOLEAN /\ resolved \in BOOLEAN /\ late \in BOOLEAN
      BY Zenon
    <3> QED BY <3>1, <3>2, <3>3, <3>4 DEF TypeOK
  <2>2. InHand /\ AckIsOpen
    BY DEF InHand, AckIsOpen, Busy
  <2>3. OneLine
    BY DEF OneLine
  <2>4. CloneStops /\ RootIsKnown
    BY DEF CloneStops, RootIsKnown
  <2>5. ExitIsSnapped
    BY DEF ExitIsSnapped
  <2>6. BudgetRespected
    BY TotalZero DEF BudgetRespected
  <2> QED BY <2>1, <2>2, <2>3, <2>4, <2>5, <2>6 DEF IInv
<1>2. IInv /\ [Next]_vars => IInv'
    BY TypeStep, AckStep, HandStep, LineStep, CloneStep, ExitStep DEF IInv
<1> QED BY <1>1, <1>2, PTL DEF Spec

\* A thread that cloned, and the root, run on only when the recorder has acted
\* on the report of their stop (ParentWaitsForRecorder): while no answer is
\* later than 30 s, an answer is never one to an earlier report.
THEOREM ParentWaits == Spec => []ParentWaitsForRecorder
<1>1. IInv => ParentWaitsForRecorder
  <2> SUFFICES ASSUME CloneStops, RootIsKnown, Supervised, NEW t \in Threads, kthread[t] = "running"
               PROVE  (child[t] # None => Known(child[t])) /\ (t = Root => Known(t))
    BY DEF IInv, ParentWaitsForRecorder
  <2>1. child[t] # None => Known(child[t])
    BY DEF CloneStops
  <2>2. t = Root => Known(t)
    BY DEF RootIsKnown
  <2> QED BY <2>1, <2>2
<1> QED BY <1>1, Inductive, PTL

\* A traced thread that is gone has its ring in the snapshot (ExitIsSnapped),
\* whatever the order of stops, answers and expired waits.
THEOREM ExitSnapped == Spec => []ExitIsSnapped
<1>1. IInv => ExitIsSnapped
    BY DEF IInv
<1> QED BY <1>1, Inductive, PTL

\* handle_report's aux_used is what the rings of all threads take, and never
\* more than max_total_aux_bytes, for any ring size and number of threads
\* (BudgetRespected).
THEOREM BudgetKept == Spec => []BudgetRespected
<1>1. IInv => BudgetRespected
    BY DEF IInv
<1> QED BY <1>1, Inductive, PTL
=============================================================================
