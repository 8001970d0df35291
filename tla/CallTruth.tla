----------------------------- MODULE CallTruth -----------------------------
(***************************************************************************)
(* Reconstruct driven by a program: one thread calls, returns, tail calls, *)
(* enters the kernel, is moved to another CPU there and gets signals.      *)
(* Each step is traced into the ring of the CPU it runs on; what is older  *)
(* than the start of that ring was overwritten, and a decoder error hides  *)
(* the steps up to the next synchronisation point.  The question is whether*)
(* the reconstructed stack is the stack the program had.                   *)
(*                                                                         *)
(* The program, the kernel and the rings are external: they are modelled by*)
(* the samples the decoder gets from them.                                 *)
(***************************************************************************)
EXTENDS Reconstruct

CONSTANTS Thread,      \* the task that runs
          MaxDepth,    \* bound of the model: depth of the program's stack
          Stubs,       \* calls (not tail calls) go through unsymbolized PLT stubs
          Signals, Errors,
          MaxStart     \* bound of the model: rings start at 0 or at MaxStart

ASSUME CallTruthAssumption ==
    /\ Thread \in Tasks /\ MaxDepth \in Nat /\ MaxStart \in Nat
    /\ {Stubs, Signals, Errors} \subseteq BOOLEAN

VARIABLES
    real,        \* the program's stack, innermost frame last; fn is None in the code
                 \* of a stub and of the signal trampoline (sig)
    inKernel, cpu, clock,
    ringStart,   \* the oldest time left in each CPU's ring
    dark,        \* the decoder is looking for a synchronisation point
    behind,      \* steps since the last one that was decoded were lost
    returned     \* the frames a return popped in the last step

programVars == <<real, inKernel, cpu, clock, ringStart, dark, behind, returned>>
truthVars   == <<vars, programVars>>

TruthInit ==
    /\ Init
    /\ real \in {<<[fn |-> f, since |-> 0, sig |-> FALSE]>> : f \in Functions}
    /\ inKernel = FALSE /\ cpu \in CPUs /\ clock = 0
    /\ ringStart \in [CPUs -> {0, MaxStart}]
    /\ dark = FALSE /\ behind = FALSE /\ returned = {}

-----------------------------------------------------------------------------
Top    == Last(real)
Below  == real[Len(real) - 1]
Now    == clock + 1
Frame(fn, sig) == [fn |-> fn, since |-> Now, sig |-> sig]
InStub == Top.fn = None /\ ~Top.sig

\* An address in fn; without one, in a mapping that has no symbol for it.
At(fn) == [fn |-> fn, map |-> CHOOSE m \in Mappings : TRUE]

Decoded(c) == Now >= ringStart[c] /\ ~dark

Unseen ==
    /\ spans' = {} /\ gaps' = {}
    /\ UNCHANGED <<threadVars, stateVars, cpuFirst, minAbs, nextEvent, nextSpan, stored, closed,
                   phase, pushed>>

\* One step of the program on CPU c, as the decoder sees it.
Traced(flow, from, to, c) ==
    /\ phase = "open" /\ clock < MaxTime /\ clock' = Now /\ cpu' = c
    /\ IF Decoded(c)
       THEN PushSample(Thread, [flow |-> flow, from |-> At(from), to |-> At(to),
                                time |-> Now, cpu |-> c])
       ELSE Unseen
    /\ behind' = ~Decoded(c)
    /\ UNCHANGED <<ringStart, dark>>

Runs == ~inKernel /\ UNCHANGED inKernel

\* fn is None when the call goes through a stub.
Calls(fn) ==
    /\ Runs /\ Top.fn # None /\ Len(real) < MaxDepth /\ (fn = None => Stubs)
    /\ real' = Append(real, Frame(fn, FALSE))
    /\ returned' = {}
    /\ Traced("call", Top.fn, fn, cpu)

TailCalls(fn) ==
    /\ Runs /\ Top.fn \notin {None, fn}
    /\ real' = Append(Front(real), Frame(fn, Top.sig))
    /\ returned' = {}
    /\ Traced("jump", Top.fn, fn, cpu)

\* A stub jumps to the function it stands for.
StubJumps(fn) ==
    /\ Runs /\ InStub
    /\ real' = [real EXCEPT ![Len(real)].fn = fn]
    /\ returned' = {}
    /\ Traced("jump", None, fn, cpu)

Returns ==
    /\ Runs /\ Top.fn # None /\ ~Top.sig /\ Len(real) > 1
    /\ real' = Front(real)
    /\ returned' = {Top}
    /\ Traced("return", Top.fn, Below.fn, cpu)

\* A signal handler returns into the trampoline.
HandlerReturns ==
    /\ Runs /\ Top.fn # None /\ Top.sig
    /\ real' = Append(Front(real), Frame(None, TRUE))
    /\ returned' = {Top}
    /\ Traced("return", Top.fn, None, cpu)

\* A system call, an interrupt or a preemption.
EntersKernel ==
    /\ ~inKernel /\ ~InStub /\ inKernel' = TRUE
    /\ UNCHANGED real /\ returned' = {}
    /\ Traced("end", Top.fn, None, cpu)

\* Back to where it was, perhaps on another CPU.
LeavesKernel(c) ==
    /\ inKernel /\ inKernel' = FALSE /\ Top.fn # None
    /\ UNCHANGED real /\ returned' = {}
    /\ Traced("begin", None, Top.fn, c)

\* Back into a signal handler.
SignalDelivered(fn, c) ==
    /\ Signals /\ inKernel /\ inKernel' = FALSE /\ Len(real) < MaxDepth
    /\ Top.fn \notin {None, fn}
    /\ real' = Append(real, Frame(fn, TRUE)) /\ returned' = {}
    /\ Traced("begin", None, fn, c)

\* The trampoline's system call resumes what the signal interrupted.
SignalReturns(c) ==
    /\ inKernel /\ inKernel' = FALSE /\ Top.fn = None /\ Top.sig
    /\ real' = Front(real) /\ returned' = {}
    /\ Traced("begin", None, Below.fn, c)

DecoderFails ==
    /\ Errors /\ ~dark /\ Now >= ringStart[cpu]
    /\ dark' = TRUE /\ returned' = {}
    /\ PushError(Thread, IF clock = 0 THEN None ELSE clock)
    /\ UNCHANGED <<real, inKernel, cpu, clock, ringStart, behind>>

DecoderSyncs ==
    /\ phase = "open" /\ dark /\ dark' = FALSE /\ returned' = {}
    /\ Unseen
    /\ UNCHANGED <<real, inKernel, cpu, clock, ringStart, behind>>

\* Another process runs on the CPU.
OthersRun(c) ==
    /\ 0 < clock /\ clock >= ringStart[c] /\ (c # cpu \/ inKernel)
    /\ ForeignSample(c, clock) /\ returned' = {}
    /\ UNCHANGED <<real, inKernel, cpu, clock, ringStart, dark, behind>>

CaptureEnds == (Finish \/ FinishFails) /\ UNCHANGED programVars

Ended == Finished /\ UNCHANGED programVars

TruthNext ==
    \/ \E fn \in OptFn : Calls(fn)
    \/ \E fn \in Functions : TailCalls(fn) \/ StubJumps(fn)
    \/ Returns \/ HandlerReturns \/ EntersKernel
    \/ \E c \in CPUs : LeavesKernel(c) \/ SignalReturns(c) \/ OthersRun(c)
    \/ \E c \in CPUs, fn \in Functions : SignalDelivered(fn, c)
    \/ DecoderFails \/ DecoderSyncs \/ CaptureEnds \/ Ended

TruthSpec == TruthInit /\ [][TruthNext]_truthVars

-----------------------------------------------------------------------------
FunctionsOf(s) == [i \in 1..Len(s) |-> s[i].fn]

\* The reconstructed stack is the innermost part of the real one: whatever the
\* ring lost, the frames that are shown are open, in this order.
StackIsTrue ==
    ~behind /\ ~InStub => IsSuffix(FunctionsOf(stack[Thread]), FunctionsOf(real))

\* A call reported as complete happened: it is the call that returned just
\* now, with its function, start and end.
CompleteIsTrue ==
    \A s \in spans : s.comp = "complete" =>
        \E r \in returned : s.fn = r.fn /\ s.start = r.since /\ s.end = clock

=============================================================================
