----------------------------- MODULE LaunchShim -----------------------------
(***************************************************************************)
(* Thread discovery of the direct recorder: the ptrace launch shim         *)
(* (src/src/capture/trigger.rs: launch, supervise, supervise_report_only,  *)
(* handle_ptrace_event, report_and_wait, wait_for_ack, reap_untraced)      *)
(* reports every thread to the recorder over a FIFO and waits for its ack  *)
(* on a second FIFO; the recorder (src/src/capture/direct.rs:              *)
(* DirectRecorder::handle_report, finish) opens one Intel PT ring per      *)
(* reported thread inside a total budget.  The kernel's part (ptrace stops,*)
(* waitpid, FIFO buffers) is modelled from how the shim uses it.           *)
(***************************************************************************)
EXTENDS Naturals, FiniteSetsExt, Sequences, Functions

CONSTANTS Threads,        \* thread ids of the workload
          Root,           \* the exec'd process' first thread
          None,
          AuxBytes,       \* ring size per thread, in units of 64 KiB
          AuxBudget       \* max_total_aux_bytes, in the same units

ASSUME ShimAssumption ==
    /\ IsFiniteSet(Threads) /\ Root \in Threads /\ None \notin Threads
    /\ AuxBytes \in Nat \ {0} /\ AuxBudget \in Nat

VARIABLES
    kthread,   \* kernel state of a thread
    child,     \* PTRACE_GETEVENTMSG: the thread it cloned last
    execed,    \* a wrapper has exec'd the real program (once, in this model)
    shim,      \* the supervisor: program counter, tracee in hand, message
    report,    \* lines in the report FIFO
    ack,       \* the ack FIFO: nobody has it open, open and empty, "go" inside
    ring,      \* PtEvent per thread: ring units, 0 for none
    auxUsed,   \* DirectRecorder.aux_used
    refused,   \* threads noted as not traced
    snapped,   \* events whose snapshot is taken
    recording, \* the capture loop reads reports
    resolved,  \* no symbol trigger, or its symbol was found
    late       \* history: a report was not answered in the 30 s of an ack

vars == <<kthread, child, execed, shim, report, ack, ring, auxUsed, refused, snapped, recording,
          resolved, late>>
kernelVars == <<kthread, child, execed>>
recVars    == <<ring, auxUsed, refused, snapped, recording, resolved, late>>

\* A waitable stop of a thread, as waitpid reports it.
Stops        == {"execstop", "initial", "cloned", "reexec", "exiting"}
ThreadStates == {"none", "starting", "running", "gone"} \union Stops
Messages     == {"exec", "thread", "exit"} \X Threads
ShimStates   == {"wait", "notify", "open", "poll", "gone"}
NoMessage    == <<"none", None>>

TypeOK ==
    /\ kthread \in [Threads -> ThreadStates]
    /\ child   \in [Threads -> Threads \union {None}]
    /\ execed  \in BOOLEAN
    /\ shim    \in [pc : ShimStates, tid : Threads \union {None},
                    msg : Messages \union {NoMessage}]
    /\ report  \in Seq(Messages)
    /\ ack     \in {"closed", "empty", "go"}
    /\ ring    \in [Threads -> Nat]
    /\ auxUsed \in Nat
    /\ refused \in SUBSET Threads
    /\ snapped \in SUBSET Threads
    /\ recording \in BOOLEAN /\ resolved \in BOOLEAN /\ late \in BOOLEAN

Init ==
    /\ kthread = [t \in Threads |-> IF t = Root THEN "execstop" ELSE "none"]
    /\ child   = [t \in Threads |-> None]
    /\ execed  = FALSE
    /\ shim    = [pc |-> "wait", tid |-> None, msg |-> NoMessage]
    /\ report  = <<>>
    /\ ack     = "closed"
    /\ ring    = [t \in Threads |-> 0]
    /\ auxUsed = 0
    /\ refused = {}
    /\ snapped = {}
    /\ recording = TRUE /\ resolved \in BOOLEAN /\ late = FALSE

-----------------------------------------------------------------------------
(***************************************************************************)
(* The workload and the kernel.                                            *)
(***************************************************************************)
\* clone/fork/vfork: the new thread is traced and will stop with SIGSTOP; the
\* parent stops with PTRACE_EVENT_CLONE.  The two stops are independent.
Clones(t, u) ==
    /\ kthread[t] = "running" /\ kthread[u] = "none" /\ shim.pc # "gone"
    /\ kthread' = [kthread EXCEPT ![t] = "cloned", ![u] = "starting"]
    /\ child' = [child EXCEPT ![t] = u]
    /\ UNCHANGED <<execed, shim, report, ack, recVars>>

\* The new thread reaches its initial SIGSTOP.
Arrives(u) ==
    /\ kthread[u] = "starting"
    /\ kthread' = [kthread EXCEPT ![u] = "initial"]
    /\ UNCHANGED <<child, execed, shim, report, ack, recVars>>

\* PTRACE_EVENT_EXIT.
Exits(t) ==
    /\ kthread[t] = "running" /\ shim.pc # "gone"
    /\ kthread' = [kthread EXCEPT ![t] = "exiting"]
    /\ UNCHANGED <<child, execed, shim, report, ack, recVars>>

\* PTRACE_EVENT_EXEC: a wrapper execs the real program.
Execs ==
    /\ kthread[Root] = "running" /\ shim.pc # "gone" /\ ~execed /\ execed' = TRUE
    /\ \A t \in Threads \ {Root} : kthread[t] \in {"none", "gone"}
    /\ kthread' = [kthread EXCEPT ![Root] = "reexec"]
    /\ UNCHANGED <<child, shim, report, ack, recVars>>

-----------------------------------------------------------------------------
(***************************************************************************)
(* The shim.                                                               *)
(***************************************************************************)
\* PTRACE_CONT of a stopped tracee.
Continued(t) == [kthread EXCEPT ![t] = IF @ = "exiting" THEN "gone" ELSE "running"]

\* The first stop, after exec.  When the trigger's symbol cannot be resolved
\* the shim goes on in reap_untraced, but only after this report.
ReportsExec(t) == kthread[t] = "execstop"

\* handle_ptrace_event, called by both supervisors and not by reap_untraced.
ReportOf(t) ==
    CASE kthread[t] = "cloned"  -> <<"thread", child[t]>>
      [] kthread[t] = "reexec"  -> <<"exec", t>>
      [] OTHER -> <<"exit", t>>

\* Mutant: exits are not reported.
MutReportsStop(t) == resolved /\ kthread[t] = "cloned"

ReportsStop(t) == resolved /\ kthread[t] \in {"cloned", "reexec", "exiting"}

\* waitpid(-1) returns some waitable tracee; a stop to be reported puts the
\* shim into report_and_wait, every other one is continued at once.
ShimWaits(t) ==
    /\ shim.pc = "wait"
    /\ kthread[t] \in Stops
    /\ IF ReportsExec(t) \/ ReportsStop(t)
       THEN /\ shim' = [pc |-> "notify", tid |-> t,
                        msg |-> IF ReportsExec(t) THEN <<"exec", t>> ELSE ReportOf(t)]
            /\ UNCHANGED kthread
       ELSE /\ kthread' = Continued(t)
            /\ UNCHANGED shim
    /\ UNCHANGED <<child, execed, report, ack, recVars>>

\* notify: the line is in the FIFO (the recorder holds it open).
ShimNotifies ==
    /\ shim.pc = "notify"
    /\ report' = Append(report, shim.msg)
    /\ shim' = [shim EXCEPT !.pc = "open"]
    /\ UNCHANGED <<kernelVars, ack, recVars>>

\* wait_for_ack opens <fifo>.ack.  Bytes written before are gone: a FIFO that
\* nobody has open keeps none.
ShimOpensAck ==
    /\ shim.pc = "open"
    /\ ack' = "empty"
    /\ shim' = [shim EXCEPT !.pc = "poll"]
    /\ UNCHANGED <<kernelVars, report, recVars>>

ShimResumes ==
    /\ kthread' = Continued(shim.tid)
    /\ shim' = [pc |-> "wait", tid |-> None, msg |-> NoMessage]
    /\ ack' = "closed"
    /\ UNCHANGED <<child, execed, report, ring, auxUsed, refused, snapped, recording, resolved>>

\* poll and read return the ack.
ShimGetsAck == shim.pc = "poll" /\ ack = "go" /\ ShimResumes /\ UNCHANGED late

\* Mutant: the wait has no limit.
MutNeverTimesOut == FALSE

\* Mutant: a line that was not answered is taken back.
MutTimesOutForgets ==
    /\ shim.pc = "poll" /\ ack = "empty"
    /\ late' = (late \/ (recording /\ report # <<>>))
    /\ report' = <<>>
    /\ kthread' = Continued(shim.tid)
    /\ shim' = [pc |-> "wait", tid |-> None, msg |-> NoMessage]
    /\ ack' = "closed"
    /\ UNCHANGED <<child, execed, ring, auxUsed, refused, snapped, recording, resolved>>

\* Nothing for 30 s: the answer was lost, nobody reads any more, or the
\* recorder is late with the line.
ShimTimesOut ==
    /\ shim.pc = "poll" /\ ack = "empty"
    /\ late' = (late \/ (recording /\ report # <<>>))
    /\ ShimResumes

\* waitpid reports the exit of the root: the supervisor returns.  Tracees that
\* are left (forked processes) are detached and run on.
ShimReturns ==
    /\ shim.pc = "wait" /\ kthread[Root] = "gone"
    /\ shim' = [pc |-> "gone", tid |-> None, msg |-> NoMessage]
    /\ kthread' = [t \in Threads |-> IF kthread[t] \in Stops \union {"starting"}
                                    THEN "running" ELSE kthread[t]]
    /\ UNCHANGED <<child, execed, report, ack, recVars>>

-----------------------------------------------------------------------------
(***************************************************************************)
(* The recorder.                                                           *)
(***************************************************************************)
\* The largest power of two that is at most n, for n > 0.
FloorPow2(n) == Max({p \in 1..n : \E k \in 0..n : p = 2^k})

\* Mutant: the ring size ignores what other threads already use.
MutRingSize == FloorPow2(AuxBytes)

\* handle_report's size: what is left of the budget, at least one unit of
\* 64 KiB, rounded down to a power of two; 0 when nothing is left.
RingSize ==
    LET left == AuxBudget - auxUsed
        size == IF AuxBytes < left THEN AuxBytes ELSE left
    IN  IF size >= 1 THEN FloorPow2(size) ELSE 0

\* send_ack: opens, writes, closes.
Acked == IF ack = "closed" THEN "closed" ELSE "go"

\* handle_report("exec t" or "thread t"): open the event unless it exists or
\* nothing is left.  perf_event_open may also fail, and does for a thread that
\* has already exited.
OpensEvent(t) ==
    \/ /\ ring[t] = 0 /\ RingSize > 0 /\ kthread[t] # "gone"
       /\ ring' = [ring EXCEPT ![t] = RingSize]
       /\ auxUsed' = auxUsed + RingSize
       /\ UNCHANGED refused
    \/ /\ ring[t] = 0
       /\ refused' = refused \union {t}
       /\ UNCHANGED <<ring, auxUsed>>
    \/ ring[t] > 0 /\ UNCHANGED <<ring, auxUsed, refused>>

\* Mutant: the line is acknowledged before it is acted on, and forgotten.
MutHandleReport ==
    /\ recording /\ report # <<>>
    /\ report' = Tail(report) /\ ack' = Acked
    /\ UNCHANGED <<kernelVars, shim, recVars>>

HandleReport ==
    /\ recording /\ report # <<>>
    /\ report' = Tail(report)
    /\ ack' = Acked
    /\ LET kind == Head(report)[1]
           t    == Head(report)[2]
       IN  IF kind = "exit"
           THEN /\ snapped' = snapped \union {u \in {t} : ring[u] > 0}   \* take_snapshot
                /\ UNCHANGED <<ring, auxUsed, refused>>
           ELSE OpensEvent(t) /\ UNCHANGED snapped
    /\ UNCHANGED <<kernelVars, shim, recording, resolved, late>>

\* The capture loop ends: finish() snapshots every ring.  Reports are not read
\* any more; the workload runs on against the ack's time limit.
Finish ==
    /\ recording
    /\ recording' = FALSE
    /\ snapped' = {t \in Threads : ring[t] > 0}
    /\ UNCHANGED <<kernelVars, shim, report, ack, ring, auxUsed, refused, resolved, late>>

\* terminate_group: the workload and the shim are killed.
Terminate ==
    /\ ~recording /\ \E t \in Threads : kthread[t] \notin {"none", "gone"}
    /\ kthread' = [t \in Threads |-> IF kthread[t] = "none" THEN "none" ELSE "gone"]
    /\ shim' = [pc |-> "gone", tid |-> None, msg |-> NoMessage]
    /\ ack' = "closed"
    /\ UNCHANGED <<child, execed, report, recVars>>

-----------------------------------------------------------------------------
Workload == Execs \/ \E t \in Threads :
    Exits(t) \/ Arrives(t) \/ \E u \in Threads : Clones(t, u)
Shim == ShimNotifies \/ ShimOpensAck \/ ShimGetsAck \/ ShimTimesOut \/ ShimReturns
            \/ \E t \in Threads : ShimWaits(t)
Recorder == HandleReport \/ Finish \/ Terminate

Next == Workload \/ Shim \/ Recorder

Spec == Init /\ [][Next]_vars

\* The scheduler runs the shim, the recorder's loop and new threads; nothing
\* is promised about what the workload does or when the capture ends.
Fairness ==
    /\ WF_vars(Shim) /\ WF_vars(HandleReport) /\ WF_vars(Terminate)
    /\ WF_vars(Finish /\ shim.pc = "gone")     \* CaptureReason::TargetExit
    /\ \A u \in Threads : WF_vars(Arrives(u)) /\ WF_vars(ShimWaits(u))

FairSpec == Spec /\ Fairness

-----------------------------------------------------------------------------
(***************************************************************************)
(* Properties.                                                             *)
(***************************************************************************)
\* The recorder has acted on the thread: opened its event or noted why not.
Known(t) == ring[t] > 0 \/ t \in refused

\* The capture runs, the shim reports and no line waited longer than 30 s.
Supervised == recording /\ resolved /\ ~late /\ shim.pc # "gone"

\* A thread that cloned runs on only when its child is known, and the root
\* runs only when it is known: report_and_wait's answer is the one to its own
\* report, never a stale one.
ParentWaitsForRecorder ==
    Supervised => \A t \in Threads : kthread[t] = "running" =>
        /\ child[t] # None => Known(child[t])
        /\ t = Root => Known(t)

\* The sum of a function's values.
Total(f) == FoldFunction(LAMBDA a, b : a + b, 0, f)

\* The rings of all threads, those that exited included, fit the total budget,
\* and aux_used says what they take.
BudgetRespected ==
    /\ auxUsed = Total(ring)
    /\ auxUsed <= AuxBudget

\* A traced thread that is gone while the capture runs has its ring in the
\* snapshot, taken at its exit stop (unless the recorder was late, or the shim
\* reports nothing because the trigger's symbol was not found).
ExitIsSnapped ==
    recording /\ resolved /\ ~late =>
        \A t \in Threads : kthread[t] = "gone" /\ ring[t] > 0 => t \in snapped

\* No tracee stays stopped for ever: neither a lost ack nor the end of the
\* capture leaves a thread parked.
StoppedResumes ==
    \A t \in Threads : kthread[t] \in Stops ~> kthread[t] \notin Stops

\* Every thread that is created becomes known, unless the capture ends first,
\* also when the recorder is late or its answers are lost.
ThreadsBecomeKnown ==
    \A t \in Threads : resolved /\ kthread[t] = "starting" ~> Known(t) \/ ~recording

(***************************************************************************)
(* What the documentation says and the shim does not do.                   *)
(***************************************************************************)
\* README: the shim "reports every new thread before it runs its first
\* instruction", and direct.rs: it "keeps each new thread stopped until its
\* event is open".
KnownBeforeRunning ==
    Supervised => \A t \in Threads : kthread[t] = "running" => Known(t)

=============================================================================
