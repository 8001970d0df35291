--------------------------- MODULE TriggerProofs ---------------------------
(***************************************************************************)
(* The symbol trigger patches and restores one byte while other threads    *)
(* run on: proofs for every number of threads, hits and calls.             *)
(***************************************************************************)
EXTENDS TriggerBreakpoint, TLAPS

\* A thread the shim holds has been rewound to the symbol, so nobody creates it.
HeldIsAt == shim[1] # "wait" => pc[shim[2]] = "at"

\* While the trigger is armed the only time the first process lacks the int3 is
\* the single step of a thread of its own.
PatchedOrStepped ==
    armed => byte[Root] = "int3" \/ (shim[1] = "step" /\ space[shim[2]] = Root)

\* The first process is never created a second time.
RootIsThere == pc[Root] # "none"

IInv == /\ TypeOK /\ RootIsThere /\ HeldIsAt
        /\ NeverInsideInstruction /\ PatchedOrStepped /\ FiresOnce

\* A step of the workload keeps the inductive invariant.
LEMMA WorkloadStep == ASSUME IInv, NEW t \in Threads, Workload(t) PROVE IInv'
<1> USE TriggerAssumption DEF IInv, TypeOK, RootIsThere, HeldIsAt, NeverInsideInstruction,
        PatchedOrStepped, FiresOnce, Free, threadVars
<1>1. CASE Calls(t)
    BY <1>1 DEF Calls
<1>2. CASE Executes(t)
    BY <1>2 DEF Executes
<1>3. CASE Signal(t)
    BY <1>3 DEF Signal
<1>4. CASE Delivered(t)
    BY <1>4 DEF Delivered
<1>5. ASSUME NEW u \in Threads, Clone(t, u) PROVE IInv'
    BY <1>5 DEF Clone
<1>6. ASSUME NEW u \in Threads, Fork(t, u) PROVE IInv'
    BY <1>6 DEF Fork
<1> QED BY <1>1, <1>2, <1>3, <1>4, <1>5, <1>6, Workload(t) DEF Workload

\* A step of the shim keeps the inductive invariant.
LEMMA ShimStep == ASSUME IInv, NEW t \in Threads, Shim(t) PROVE IInv'
<1> USE TriggerAssumption DEF IInv, TypeOK, RootIsThere, HeldIsAt, NeverInsideInstruction,
        PatchedOrStepped, FiresOnce, Waiting, threadVars
<1>1. CASE LateTrap(t)
    BY <1>1 DEF LateTrap
<1>2. CASE StepHit(t)
  <2>1. TypeOK' /\ RootIsThere'
      BY <1>2 DEF StepHit
  <2>2. HeldIsAt' /\ NeverInsideInstruction'
      BY <1>2 DEF StepHit
  <2>3. PatchedOrStepped'
      BY <1>2 DEF StepHit
  <2>4. FiresOnce'
      BY <1>2 DEF StepHit
  <2> QED BY <2>1, <2>2, <2>3, <2>4
<1>3. CASE Stepped(t)
  <2>a. pending' \in [Threads -> BOOLEAN]
      BY <1>3, Zenon DEF Stepped
  <2>b. /\ pc' \in [Threads -> {"none", "out", "at", "trapped", "inside"}]
        /\ byte' \in [Threads -> {"int3", "original"}]
      BY <1>3 DEF Stepped
  <2>c. shim' \in {"wait"} \X {Root} \union {"step", "park"} \X Threads
      BY <1>3 DEF Stepped
  <2>d. TypeOK'
      BY <1>3, <2>a, <2>b, <2>c, Zenon DEF Stepped
  <2>1. TypeOK' /\ RootIsThere'
      BY <1>3, <2>d DEF Stepped
  <2>2. HeldIsAt' /\ NeverInsideInstruction'
      BY <1>3 DEF Stepped
  <2>3. PatchedOrStepped'
      BY <1>3 DEF Stepped
  <2>4. FiresOnce'
      BY <1>3 DEF Stepped
  <2> QED BY <2>1, <2>2, <2>3, <2>4
<1>4. CASE LastHit(t)
  <2>1. armed' \in BOOLEAN
      BY <1>4, Zenon DEF LastHit
  <2>2. TypeOK' /\ RootIsThere'
      BY <1>4, <2>1 DEF LastHit
  <2>3. HeldIsAt' /\ NeverInsideInstruction' /\ PatchedOrStepped'
      BY <1>4 DEF LastHit
  <2>4. FiresOnce'
      BY <1>4 DEF LastHit
  <2> QED BY <2>2, <2>3, <2>4
<1>5. CASE Unparked(t)
    BY <1>5 DEF Unparked
<1> QED BY <1>1, <1>2, <1>3, <1>4, <1>5, Shim(t) DEF Shim

\* Every reachable state satisfies the inductive invariant.
LEMMA Inductive == Spec => []IInv
<1>1. Init => IInv
    BY TriggerAssumption DEF Init, IInv, TypeOK, RootIsThere, HeldIsAt,
        NeverInsideInstruction, PatchedOrStepped, FiresOnce
<1>2. IInv /\ [Next]_vars => IInv'
  <2> SUFFICES ASSUME IInv, [Next]_vars PROVE IInv'
      OBVIOUS
  <2>1. CASE UNCHANGED vars
      BY <2>1 DEF vars, IInv, TypeOK, RootIsThere, HeldIsAt, NeverInsideInstruction,
          PatchedOrStepped, FiresOnce
  <2> QED BY <2>1, WorkloadStep, ShimStep DEF Next
<1> QED BY <1>1, <1>2, PTL DEF Spec

\* No thread is ever resumed one byte into the symbol, and between steps the
\* armed breakpoint is in place, for any number of threads, forks and signals
\* (supervise).
THEOREM PatchSound == Spec => []PatchIsSound
<1>1. IInv => PatchIsSound
    BY DEF IInv, PatchIsSound, ArmedIsPatched, PatchedOrStepped
<1> QED BY <1>1, Inductive, PTL

\* The trigger fires when the wanted number of hits is reached and never again,
\* for every wanted number (supervise's hit counting).
THEOREM TriggerFiresOnce == Spec => []FiresOnce
<1>1. IInv => FiresOnce
    BY DEF IInv
<1> QED BY <1>1, Inductive, PTL
=============================================================================
