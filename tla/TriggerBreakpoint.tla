------------------------- MODULE TriggerBreakpoint -------------------------
(***************************************************************************)
(* The symbol trigger of the launch shim (src/src/capture/trigger.rs,      *)
(* supervise): an int3 at the symbol's first byte, stepped over until the  *)
(* wanted number of hits, then removed while the hitting thread is parked  *)
(* until the recorder acks.  The shim is one thread; a ptrace stop stops   *)
(* one tracee only, so the workload's other threads run on while the shim  *)
(* steps one of them.  What the kernel and the CPU do is modelled from how *)
(* the shim uses them.                                                     *)
(***************************************************************************)
EXTENDS Naturals, FiniteSets

CONSTANTS Threads,    \* threads of the workload
          Root,       \* the first one
          Wanted,     \* SymbolTrigger.hits
          MaxCalls,   \* bound of the model: calls of the symbol per thread
          Forks,      \* the workload may fork (a new address space)
          Signals     \* signals may be sent to its threads

ASSUME TriggerAssumption ==
    /\ Root \in Threads /\ IsFiniteSet(Threads)
    /\ Wanted \in Nat \ {0} /\ MaxCalls \in Nat
    /\ Forks \in BOOLEAN /\ Signals \in BOOLEAN

VARIABLES
    space,    \* address space of a thread, named by the thread that made it
    byte,     \* first byte of the symbol in an address space
    pc,       \* a thread: not there, elsewhere, about to execute the symbol's
              \* first byte, stopped by the int3, one byte into the symbol
    pending,  \* a signal is pending for the thread
    calls,    \* calls of the symbol so far, per thread
    shim,     \* the supervisor: in waitpid(-1), stepping or parked with a tid
    hits, armed

vars == <<space, byte, pc, pending, calls, shim, hits, armed>>
threadVars == <<space, pending, calls>>

TypeOK ==
    /\ space \in [Threads -> Threads]
    /\ byte  \in [Threads -> {"int3", "original"}]
    /\ pc    \in [Threads -> {"none", "out", "at", "trapped", "inside"}]
    /\ pending \in [Threads -> BOOLEAN]
    /\ calls   \in [Threads -> 0..MaxCalls]
    /\ hits    \in Nat
    /\ shim    \in {"wait"} \X {Root} \union {"step", "park"} \X Threads
    /\ armed   \in BOOLEAN

\* After exec, resolve_runtime_address, peek and poke; the root continues.
Init ==
    /\ space = [t \in Threads |-> Root]
    /\ byte  = [t \in Threads |-> IF t = Root THEN "int3" ELSE "original"]
    /\ pc    = [t \in Threads |-> IF t = Root THEN "out" ELSE "none"]
    /\ pending = [t \in Threads |-> FALSE]
    /\ calls   = [t \in Threads |-> 0]
    /\ hits  = 0
    /\ shim  = <<"wait", Root>>
    /\ armed = TRUE

-----------------------------------------------------------------------------
(***************************************************************************)
(* The workload.  A thread is free unless it is stopped or in the shim's   *)
(* hand.                                                                   *)
(***************************************************************************)
Free(t) == pc[t] \notin {"none", "trapped"} /\ (shim[1] = "wait" \/ shim[2] # t)

Calls(t) ==
    /\ Free(t) /\ pc[t] = "out" /\ calls[t] < MaxCalls
    /\ pc' = [pc EXCEPT ![t] = "at"]
    /\ calls' = [calls EXCEPT ![t] = @ + 1]
    /\ UNCHANGED <<space, byte, pending, shim, hits, armed>>

\* The CPU executes the symbol's first byte.
Executes(t) ==
    /\ Free(t) /\ pc[t] = "at"
    /\ pc' = [pc EXCEPT ![t] = IF byte[space[t]] = "int3" THEN "trapped" ELSE "out"]
    /\ UNCHANGED <<threadVars, byte, shim, hits, armed>>

\* clone shares the address space, fork copies it.  The initial stops of the
\* new thread are LaunchShim's subject.
Clone(t, u) ==
    /\ Free(t) /\ pc[t] = "out" /\ pc[u] = "none"
    /\ pc' = [pc EXCEPT ![u] = "out"]
    /\ space' = [space EXCEPT ![u] = space[t]]
    /\ UNCHANGED <<byte, pending, calls, shim, hits, armed>>

Fork(t, u) ==
    /\ Forks
    /\ Free(t) /\ pc[t] = "out" /\ pc[u] = "none"
    /\ pc' = [pc EXCEPT ![u] = "out"]
    /\ space' = [space EXCEPT ![u] = u]
    /\ byte' = [byte EXCEPT ![u] = byte[space[t]]]
    /\ UNCHANGED <<pending, calls, shim, hits, armed>>

Signal(t) ==
    /\ Signals
    /\ pc[t] # "none" /\ ~pending[t]
    /\ pending' = [pending EXCEPT ![t] = TRUE]
    /\ UNCHANGED <<space, byte, pc, calls, shim, hits, armed>>

\* A pending signal stops a free thread and the shim passes it on.
Delivered(t) ==
    /\ Free(t) /\ pending[t] /\ shim[1] = "wait"
    /\ pending' = [pending EXCEPT ![t] = FALSE]
    /\ UNCHANGED <<space, byte, pc, calls, shim, hits, armed>>

-----------------------------------------------------------------------------
(***************************************************************************)
(* The shim, on a SIGTRAP with rip = addr + 1.                             *)
(***************************************************************************)
Waiting(t) == shim[1] = "wait" /\ pc[t] = "trapped"

\* Mutant: a trap queued when the trigger was disarmed is continued as it is.
MutLateTrap(t) ==
    /\ Waiting(t) /\ ~armed
    /\ pc' = [pc EXCEPT ![t] = "inside"]
    /\ UNCHANGED <<threadVars, byte, shim, hits, armed>>

\* Mutant: such a trap is not answered.
MutLateTrapDropped(t) == FALSE

\* A trap that was queued when the last hit disarmed the trigger: rewind.
LateTrap(t) ==
    /\ Waiting(t) /\ ~armed
    /\ pc' = [pc EXCEPT ![t] = "at"]
    /\ UNCHANGED <<threadVars, byte, shim, hits, armed>>

\* A hit before the wanted one: restore the byte, rewind, single-step.
StepHit(t) ==
    /\ Waiting(t) /\ armed /\ hits + 1 < Wanted
    /\ hits' = hits + 1
    /\ byte' = [byte EXCEPT ![space[t]] = "original"]
    /\ pc' = [pc EXCEPT ![t] = "at"]
    /\ shim' = <<"step", t>>
    /\ UNCHANGED <<threadVars, armed>>

\* Mutant: the byte is not patched again after the step.
MutStepped(t) ==
    /\ shim = <<"step", t>>
    /\ IF pending[t]
       THEN pending' = [pending EXCEPT ![t] = FALSE] /\ UNCHANGED pc
       ELSE pc' = [pc EXCEPT ![t] = "out"] /\ UNCHANGED pending
    /\ shim' = <<"wait", Root>>
    /\ UNCHANGED <<space, byte, calls, hits, armed>>

\* waitpid(tid) after PTRACE_SINGLESTEP, patch again, PTRACE_CONT without a
\* signal.  The status is not looked at: when a signal was pending the stop is
\* its delivery and the instruction has not been executed.
Stepped(t) ==
    /\ shim = <<"step", t>>
    /\ IF pending[t]
       THEN pending' = [pending EXCEPT ![t] = FALSE] /\ UNCHANGED pc
       ELSE pc' = [pc EXCEPT ![t] = "out"] /\ UNCHANGED pending
    /\ byte' = [byte EXCEPT ![space[t]] = "int3"]
    /\ shim' = <<"wait", Root>>
    /\ UNCHANGED <<space, calls, hits, armed>>

\* Mutant: the trigger stays armed after it fired.
MutLastHit(t) ==
    /\ Waiting(t) /\ armed /\ hits + 1 >= Wanted
    /\ hits' = hits + 1
    /\ byte' = [byte EXCEPT ![space[t]] = "original"]
    /\ pc' = [pc EXCEPT ![t] = "at"]
    /\ shim' = <<"park", t>>
    /\ UNCHANGED <<threadVars, armed>>

\* The wanted hit: disarm, notify the recorder and park the thread.
LastHit(t) ==
    /\ Waiting(t) /\ armed /\ hits + 1 >= Wanted
    /\ hits' = hits + 1
    /\ byte' = [byte EXCEPT ![space[t]] = "original"]
    /\ pc' = [pc EXCEPT ![t] = "at"]
    /\ armed' = FALSE
    /\ shim' = <<"park", t>>
    /\ UNCHANGED threadVars

\* wait_for_ack returns, with the ack or after its 30 s.
Unparked(t) ==
    /\ shim = <<"park", t>>
    /\ shim' = <<"wait", Root>>
    /\ UNCHANGED <<threadVars, byte, pc, hits, armed>>

-----------------------------------------------------------------------------
Workload(t) ==
    \/ Calls(t) \/ Executes(t) \/ Signal(t) \/ Delivered(t)
    \/ \E u \in Threads : Clone(t, u) \/ Fork(t, u)
Shim(t) == LateTrap(t) \/ StepHit(t) \/ Stepped(t) \/ LastHit(t) \/ Unparked(t)

Next == \E t \in Threads : Workload(t) \/ Shim(t)

Spec == Init /\ [][Next]_vars

\* The CPU runs free threads and the shim runs; no call, clone or signal is
\* promised.
Fairness == \A t \in Threads : WF_vars(Executes(t)) /\ SF_vars(Shim(t))
FairSpec == Spec /\ Fairness

-----------------------------------------------------------------------------
(***************************************************************************)
(* Properties.                                                             *)
(***************************************************************************)
\* No thread is resumed one byte into the symbol, where the original
\* instruction has no boundary: not even one whose trap was queued when the
\* trigger was disarmed by another thread.
NeverInsideInstruction == \A t \in Threads : pc[t] # "inside"

\* Between steps the armed trigger is in place: no hit leaves the symbol
\* unpatched in the address space where it was set.
ArmedIsPatched == armed /\ shim[1] = "wait" => byte[Root] = "int3"

\* The byte and the threads at it agree whatever stops interleave (supervise).
PatchIsSound == NeverInsideInstruction /\ ArmedIsPatched

\* The trigger fires at most once, and exactly when the wanted number of hits
\* is reached, whatever traps are queued by other threads at that moment.
FiresOnce == (armed <=> hits < Wanted) /\ hits <= Wanted

\* The process was forked from, or by, the one in which the last hit restored
\* the byte, and has its own copy with the breakpoint still in it.
LeftPatched(t) == ~armed /\ byte[space[t]] = "int3"

\* Every thread that reaches the symbol gets past it: traps are always taken,
\* steps always finish and the last hit leaves no thread parked, in all the
\* processes whose byte the shim restored.
ReachedIsPassed == \A t \in Threads : pc[t] = "at" ~> pc[t] = "out" \/ LeftPatched(t)

\* "the original byte is back in place, so rewind to re-execute it": what
\* supervise says of a trap that comes after the last hit, of any thread it
\* supervises.  Not so in a process that was forked with the breakpoint.
RewoundIsPassed == \A t \in Threads : pc[t] = "at" ~> pc[t] = "out"

=============================================================================
