---------------------------- MODULE CaptureTask ----------------------------
(***************************************************************************)
(* One capture_task (service.rs) against a clock: the recorder it starts,  *)
(* the loop that waits for the first of six reasons to stop, and the steps *)
(* that finish a recording, release a parked thread and end the workload.  *)
(* The recorder is the direct one (capture/direct.rs), which drives the    *)
(* launch shim or attaches to a process, or perf record (capture/perf.rs), *)
(* which obeys a control pipe.                                             *)
(*                                                                         *)
(* Time is counted in ticks.  A step of the task takes no time but three:  *)
(* serving a report takes up to HandleTime ticks, waiting for the recorder *)
(* up to Finalize, and a select with nothing ready waits.  A timer of the  *)
(* select whose time has come may still be found pending when another arm  *)
(* is ready: the runtime turns its wheel only when the task yields.        *)
(***************************************************************************)
EXTENDS Integers, FiniteSetsExt

CONSTANTS
    MaxCapture,   \* config.max_capture_ms as requested
    AfterSet,     \* the after_ms values a request may carry
    TailSet,      \* the tail_ms values a request may carry
    HandleTime,   \* the longest a report is served, ticks
    Finalize,     \* finalize_timeout_ms
    AckLimit,     \* how long a parked thread waits for its acknowledgement
    MaxReports,   \* bound: reports the shim sends
    None

ASSUME Bounds ==
    /\ {MaxCapture, HandleTime, Finalize, AckLimit, MaxReports} \subseteq Nat
    /\ AfterSet \subseteq Nat \ {0}   \* normalize_capture_bound refuses 0
    /\ TailSet \subseteq Nat
    /\ None \notin Nat

VARIABLES
    req,       \* the StartRequest: after, tail, trigger, launch, perf
    now,       \* ticks since arming
    pc,        \* where the task is
    stop,      \* the value of the stop channel: None, "finish" or "abort"
    fresh,     \* the channel has a value the task has not seen
    aborted,   \* the task's own flag
    firedAt,   \* when the task read the trigger's line, or None
    listening, \* trigger_rx is open
    line,      \* the line in the trigger FIFO: None, "hit" or "error"
    thread,    \* the thread that hits the trigger
    parkedAt,  \* when it was parked
    report,    \* a report line waits for the task
    sent,      \* reports sent so far
    since,     \* when the current timed step began
    events,    \* threads traced (events the direct recorder opened)
    taken,     \* the direct recorder's rings are copied
    child,     \* the shim or perf: "none", "alive" or "dead"
    work       \* the workload: "none", "alive" or "dead"

task == <<pc, aborted, firedAt, listening, since, events, taken>>
world == <<child, work, thread>>
vars == <<req, now, stop, fresh, line, parkedAt, report, sent, task, world>>

Ended == {"failed", "cancelled", "done"}

\* the requests handle_start accepts: only a launched workload has a trigger
Requests ==
    {r \in [after : AfterSet \cup {None}, tail : TailSet \cup {None},
            trigger : {"no", "symbol", "fifo"}, launch : BOOLEAN,
            perf : BOOLEAN] :
        r.launch \/ r.trigger = "no"}

\* normalize_capture_bound: a requested stop time widens the safety cap
Deadline == Max({MaxCapture} \cup ({req.after, req.tail} \ {None}))

AbsoluteStop == Min({Deadline} \cup ({req.after} \ {None}))

\* bounded_tail_deadline; there is none before the trigger is read
HasTail == req.tail # None /\ req.tail > 0
TailDeadline ==
    IF firedAt # None /\ HasTail
    THEN Min({firedAt + req.tail, AbsoluteStop})
    ELSE None

Due(t) == t # None /\ now >= t

\* mutant: only the timers of the select watch the time
MutNeverExpired == FALSE

\* expired_capture_reason: something to stop for has passed
Expired == Due(Deadline) \/ Due(req.after) \/ Due(TailDeadline)
-----------------------------------------------------------------------------
Init ==
    /\ req \in Requests
    /\ now = 0 /\ pc = "setup"
    /\ stop = None /\ fresh = FALSE /\ aborted = FALSE
    /\ firedAt = None /\ listening = (req.trigger # "no") /\ line = None
    /\ thread = "run" /\ parkedAt = None
    /\ report = FALSE /\ sent = 0 /\ since = 0 /\ events = 0 /\ taken = FALSE
    /\ child = "none" /\ work = (IF req.launch THEN "none" ELSE "alive")

\* terminate_group: SIGTERM, a grace, SIGKILL to the child's process group.
\* A launched workload is in it, an attached process is not.
TerminateGroup ==
    IF child = "none"
    THEN UNCHANGED world
    ELSE /\ child' = "dead"
         /\ work' = IF req.launch THEN "dead" ELSE work
         /\ thread' = IF req.launch THEN "dead" ELSE thread

\* Everything before the recorder runs may fail: the directories, the image
\* archive, the PT capabilities, the topology, the FIFOs, a filter, the spawn.
SetupFails ==
    /\ pc = "setup"
    /\ pc' = "failed"
    /\ UNCHANGED <<req, now, stop, fresh, aborted, firedAt, listening, line,
                   parkedAt, report, sent, since, events, taken, world>>

\* DirectRecorder::spawn: the shim starts the workload, whose threads it reports
SpawnDirect ==
    /\ req.launch /\ ~req.perf
    /\ child' = "alive" /\ work' = "alive" /\ pc' = "arm"
    /\ UNCHANGED events

\* DirectRecorder::attach: no child; poll_threads opened some event
AttachDirect ==
    /\ ~req.launch /\ ~req.perf /\ work = "alive"
    /\ events' = 1 /\ pc' = "arm"
    /\ UNCHANGED <<child, work>>

\* PerfControl::spawn: perf starts the workload or attaches to it
SpawnPerf ==
    /\ req.perf
    /\ child' = "alive" /\ pc' = "ping"
    /\ work' = IF req.launch THEN "alive" ELSE work
    /\ UNCHANGED events

Spawn ==
    /\ pc = "setup"
    /\ SpawnDirect \/ AttachDirect \/ SpawnPerf
    /\ UNCHANGED <<req, now, stop, fresh, aborted, firedAt, listening, line,
                   thread, parkedAt, report, sent, since, taken>>

\* PerfControl::ping: without the acknowledgement perf's group is ended.
Ping ==
    /\ pc = "ping"
    /\ \/ child = "alive" /\ pc' = "arm" /\ UNCHANGED world
       \/ pc' = "failed" /\ TerminateGroup
    /\ UNCHANGED <<req, now, stop, fresh, aborted, firedAt, listening, line,
                   parkedAt, report, sent, since, events, taken>>

\* The Armed state is written; when that fails the task returns at once.
Arm ==
    /\ pc = "arm"
    /\ \/ pc' = "loop" /\ aborted' = (stop = "abort")
       \/ pc' = "failed" /\ UNCHANGED aborted
    /\ UNCHANGED <<req, now, stop, fresh, firedAt, listening, line, parkedAt,
                   report, sent, since, events, taken, world>>

\* The head of the loop: an abort, then the explicit expiry test.
LoopHead ==
    /\ pc = "loop"
    /\ pc' = IF aborted \/ Expired THEN "finish" ELSE "select"
    /\ UNCHANGED <<req, now, stop, fresh, aborted, firedAt, listening, line,
                   parkedAt, report, sent, since, events, taken, world>>
-----------------------------------------------------------------------------
(* The arms of the biased select, in the order they are polled.            *)

\* rec.wait() is ready
RecorderGone == child = "dead" \/ (child = "none" /\ work = "dead")

ReportReady == ~req.perf /\ req.launch /\ report
LineReady == listening /\ TailDeadline = None /\ line # None

StopArm ==
    /\ pc = "select" /\ fresh
    /\ fresh' = FALSE
    /\ aborted' = (stop = "abort")
    /\ pc' = "finish"
    /\ UNCHANGED <<req, now, stop, firedAt, listening, line, parkedAt, report,
                   sent, since, events, taken, world>>

TimerArm ==
    /\ pc = "select" /\ ~fresh
    /\ Due(Deadline) \/ Due(req.after) \/ Due(TailDeadline)
    /\ pc' = "finish"
    /\ UNCHANGED <<req, now, stop, fresh, aborted, firedAt, listening, line,
                   parkedAt, report, sent, since, events, taken, world>>

WaitArm ==
    /\ pc = "select" /\ ~fresh /\ RecorderGone
    /\ pc' = "finish"
    /\ UNCHANGED <<req, now, stop, fresh, aborted, firedAt, listening, line,
                   parkedAt, report, sent, since, events, taken, world>>

ReportArm ==
    /\ pc = "select" /\ ~fresh /\ ~RecorderGone /\ ReportReady
    /\ pc' = "report" /\ since' = now
    /\ UNCHANGED <<req, now, stop, fresh, aborted, firedAt, listening, line,
                   parkedAt, report, sent, events, taken, world>>

\* handle_report: the event is opened, or it cannot be (no permission, no
\* budget, an exit or an error line); the acknowledgement follows either way.
HandleReport ==
    /\ pc = "report"
    /\ \E opened \in {0, 1} : events' = events + opened
    /\ report' = FALSE
    /\ pc' = "loop"
    /\ UNCHANGED <<req, now, stop, fresh, aborted, firedAt, listening, line,
                   parkedAt, sent, since, taken, world>>

\* send_ack on the trigger's FIFO: lost when the thread has not opened it yet
SendAck ==
    \/ UNCHANGED <<thread>>
    \/ thread = "parked" /\ thread' = "released"

\* The trigger's line is read: an error closes the channel; a hit ends the
\* loop, or with a tail lets the thread go on and sets the tail's deadline.
TriggerArm ==
    /\ pc = "select" /\ ~fresh /\ ~RecorderGone /\ ~ReportReady /\ LineReady
    /\ line' = None
    /\ \/ /\ line = "error"
          /\ listening' = FALSE /\ pc' = "loop"
          /\ UNCHANGED <<firedAt, thread>>
       \/ /\ line = "hit" /\ HasTail
          /\ firedAt' = now /\ pc' = "loop" /\ SendAck
          /\ UNCHANGED listening
       \/ /\ line = "hit" /\ ~HasTail
          /\ firedAt' = now /\ pc' = "finish"
          /\ UNCHANGED <<listening, thread>>
    /\ UNCHANGED <<req, now, stop, fresh, aborted, parkedAt, report, sent,
                   since, events, taken, child, work>>
-----------------------------------------------------------------------------
(* The end of a capture.                                                   *)

\* mutant: the thread is let go first, the rings are left for later
MutFinishAcks ==
    /\ pc = "finish"
    /\ pc' = IF req.perf THEN "wait" ELSE "write"
    /\ since' = now
    /\ SendAck
    /\ UNCHANGED <<req, now, stop, fresh, aborted, firedAt, listening, line,
                   parkedAt, report, sent, events, taken, child, work>>

\* DirectRecorder::finish stops and copies every ring
TakeRings == ~req.perf /\ taken' = TRUE /\ pc' = "write" /\ UNCHANGED child

\* PerfControl::stop: perf may leave the command unanswered until the timeout
StopPerf ==
    /\ req.perf /\ pc' = "wait"
    /\ child' \in {child, "dead"}
    /\ UNCHANGED taken

Finish ==
    /\ pc = "finish"
    /\ TakeRings \/ StopPerf
    /\ since' = now
    /\ UNCHANGED <<req, now, stop, fresh, aborted, firedAt, listening, line,
                   parkedAt, report, sent, events, work, thread>>

\* DirectRecorder::write refuses a recording without a thread; it and the
\* file system's errors end the task through `?`.
Write ==
    /\ pc = "write"
    /\ \/ events > 0 /\ pc' = "wait"
       \/ pc' = "failed"
    /\ UNCHANGED <<req, now, stop, fresh, aborted, firedAt, listening, line,
                   parkedAt, report, sent, since, events, taken, world>>

\* mutant: the recorder is waited for without a limit
MutWaitForEver ==
    /\ pc = "wait" /\ RecorderGone
    /\ pc' = "ack"
    /\ UNCHANGED <<req, now, stop, fresh, aborted, firedAt, listening, line,
                   parkedAt, report, sent, since, events, taken, world>>

\* rec.wait() under the finalize timeout; the workload is ended after it
Wait ==
    /\ pc = "wait"
    /\ \/ RecorderGone /\ UNCHANGED world
       \/ /\ ~RecorderGone /\ now >= since + Finalize
          /\ IF req.launch THEN TerminateGroup ELSE UNCHANGED world
    /\ pc' = "ack"
    /\ UNCHANGED <<req, now, stop, fresh, aborted, firedAt, listening, line,
                   parkedAt, report, sent, since, events, taken>>

Ack ==
    /\ pc = "ack"
    /\ IF req.trigger = "no" THEN UNCHANGED thread ELSE SendAck
    /\ pc' = "kill"
    /\ UNCHANGED <<req, now, stop, fresh, aborted, firedAt, listening, line,
                   parkedAt, report, sent, since, events, taken, child, work>>

\* mutant: a workload that outlived the wait is left alone
MutKillNobody ==
    /\ pc = "kill"
    /\ pc' = IF aborted \/ stop = "abort" THEN "cancelled" ELSE "done"
    /\ UNCHANGED <<req, now, stop, fresh, aborted, firedAt, listening, line,
                   parkedAt, report, sent, since, events, taken, world>>

\* the owned workload is ended, and a request to abort is honoured last
Kill ==
    /\ pc = "kill"
    /\ IF req.launch THEN TerminateGroup ELSE UNCHANGED world
    /\ pc' = IF aborted \/ stop = "abort" THEN "cancelled" ELSE "done"
    /\ UNCHANGED <<req, now, stop, fresh, aborted, firedAt, listening, line,
                   parkedAt, report, sent, since, events, taken>>

Task ==
    \/ SetupFails \/ Spawn \/ Ping \/ Arm \/ LoopHead
    \/ StopArm \/ TimerArm \/ WaitArm \/ ReportArm \/ HandleReport
    \/ TriggerArm \/ Finish \/ Write \/ Wait \/ Ack \/ Kill
-----------------------------------------------------------------------------
(* The coordinator, the workload and time.                                 *)

\* handle_snapshot and handle_cancel; an abort may follow a finish
StopRequested ==
    /\ pc \notin Ended
    /\ \E s \in {"finish", "abort"} :
        /\ stop = None \/ (stop = "finish" /\ s = "abort")
        /\ stop' = s /\ fresh' = TRUE
    /\ UNCHANGED <<req, now, line, parkedAt, report, sent, task, world>>

\* The shim is one thread: it reports only while the trigger's is not parked,
\* and waits for each answer.
ShimIdle == work = "alive" /\ thread # "parked" /\ ~report

ShimReports ==
    /\ ShimIdle /\ ~req.perf /\ req.launch /\ sent < MaxReports
    /\ report' = TRUE /\ sent' = sent + 1
    /\ UNCHANGED <<req, now, stop, fresh, line, parkedAt, task, world>>

\* the trigger cannot be armed, is hit by a symbol's thread, which is parked,
\* or is written by the workload, which is not
TriggerHits ==
    /\ req.trigger # "no" /\ line = None /\ ShimIdle
    /\ thread = "run"
    /\ \/ line' = "error" /\ thread' = "untriggered" /\ UNCHANGED parkedAt
       \/ /\ req.trigger = "symbol" /\ line' = "hit"
          /\ thread' = "parked" /\ parkedAt' = now
       \/ /\ req.trigger = "fifo" /\ line' = "hit"
          /\ thread' = "untriggered" /\ UNCHANGED parkedAt
    /\ UNCHANGED <<req, now, stop, fresh, report, sent, task, child, work>>

\* mutant: wait_for_ack polls for ever
MutParkedForEver == FALSE /\ UNCHANGED vars

\* wait_for_ack gives up after its limit and continues the thread
ParkedTooLong ==
    /\ thread = "parked" /\ now >= parkedAt + AckLimit
    /\ thread' = "timed out"
    /\ UNCHANGED <<req, now, stop, fresh, line, parkedAt, report, sent, task,
                   child, work>>

\* the workload ends by itself, and the shim, or perf, with it
WorkExits ==
    /\ work = "alive" /\ thread # "parked" /\ ~report
    /\ work' = "dead" /\ thread' = "dead"
    /\ child' = IF child = "alive" THEN "dead" ELSE child
    /\ UNCHANGED <<req, now, stop, fresh, line, parkedAt, report, sent, task>>

\* perf ends before the workload: killed, failed, or late to obey its stop
PerfExits ==
    /\ req.perf /\ child = "alive"
    /\ child' = "dead"
    /\ UNCHANGED <<req, now, stop, fresh, line, parkedAt, report, sent, task,
                   work, thread>>

\* Time passes while the task waits, serves a report or has ended with a
\* thread still parked.
Idle == ~(fresh \/ Expired \/ RecorderGone \/ ReportReady \/ LineReady)
Tick ==
    /\ \/ pc = "select" /\ Idle
       \/ pc = "report" /\ now < since + HandleTime
       \/ pc = "wait" /\ ~RecorderGone /\ now < since + Finalize
       \/ pc \in Ended /\ thread = "parked" /\ now < parkedAt + AckLimit
    /\ now' = now + 1
    /\ UNCHANGED <<req, stop, fresh, line, parkedAt, report, sent, task, world>>

Next == Task \/ StopRequested \/ ShimReports \/ TriggerHits \/ ParkedTooLong
        \/ WorkExits \/ PerfExits \/ Tick

\* The task is polled, time passes, and the parked thread's poll loop counts.
Fairness == WF_vars(Task) /\ WF_vars(Tick) /\ WF_vars(ParkedTooLong)

Spec == Init /\ [][Next]_vars /\ Fairness
-----------------------------------------------------------------------------
Places == {"setup", "ping", "arm", "loop", "select", "report", "finish",
           "write", "wait", "ack", "kill"} \cup Ended
Stops == {None, "finish", "abort"}
Lines == {None, "hit", "error"}
Threads == {"run", "parked", "released", "timed out", "untriggered", "dead"}
Lives == {"none", "alive", "dead"}
Times == Nat \cup {None}

\* every variable keeps its type
TypeOK ==
    /\ req \in Requests
    /\ now \in Nat /\ since \in Nat /\ events \in Nat
    /\ pc \in Places /\ stop \in Stops /\ line \in Lines
    /\ {fresh, aborted, listening, report, taken} \subseteq BOOLEAN
    /\ firedAt \in Times /\ parkedAt \in Times
    /\ thread \in Threads /\ child \in Lives /\ work \in Lives

\* The first stop time a request has set: the cap, after_ms, or the tail of a
\* trigger that was read.
StopAt == Min({AbsoluteStop} \cup (IF firedAt # None /\ HasTail
                                   THEN {firedAt + req.tail} ELSE {}))

\* A capture never records past the first stop time its request set by more
\* than the one report being served, however many reports are ready
\* (expired_capture_reason at the head of capture_task's loop).
StopsOnTime == pc \in {"loop", "select", "report"} => now <= StopAt + HandleTime

\* A thread parked by the symbol trigger of a capture without a tail is let go
\* by the task only when what led to the trigger is safe: the rings are copied
\* or perf has ended (send_ack after finish, write and wait).
ParkedUntilTaken ==
    thread = "released" /\ ~HasTail => IF req.perf THEN child = "dead" ELSE taken

\* A capture that succeeded or was cancelled leaves no owned workload running
\* (terminate_group on every path but the early returns).
OwnedIsTerminated == pc \in {"done", "cancelled"} /\ req.launch => work = "dead"

\* A parked thread always goes on: the task's acknowledgement, its end, or the
\* limit of wait_for_ack.
ParkedGoesOn == thread = "parked" ~> thread # "parked"

\* Every capture ends: the cap on its duration, the finalize timeout and the
\* bounded report service leave it nothing to wait for without limit.
CaptureEnds == <>(pc \in Ended)

\* Neither the capture nor the thread that hit its trigger waits for ever.
CaptureProgresses == ParkedGoesOn /\ CaptureEnds

\* What the tool's description says of a launch target: it is terminated when
\* the capture ends.  Here of a capture that got as far as taking its rings.
LaunchIsTerminated ==
    pc \in Ended /\ req.launch /\ taken => work # "alive"
=============================================================================
