------------------------- MODULE CaptureTaskProofs -------------------------
(***************************************************************************)
(* The capture task's promises, for all limits, tails and stop times.      *)
(***************************************************************************)
EXTENDS CaptureTask, TLAPS

\* Max and Min of FiniteSetsExt on three numbers.
LEMMA Extrema ==
    ASSUME NEW a \in Nat, NEW b \in Nat, NEW c \in Nat
    PROVE  /\ Max({a, b, c}) \in {a, b, c}
           /\ \A x \in {a, b, c} : Max({a, b, c}) >= x
           /\ Min({a, b, c}) \in {a, b, c}
           /\ \A x \in {a, b, c} : Min({a, b, c}) <= x
<1>1. \E x \in {a, b, c} : \A y \in {a, b, c} : x >= y
    OBVIOUS
<1>2. \E x \in {a, b, c} : \A y \in {a, b, c} : x <= y
    OBVIOUS
<1> QED BY <1>1, <1>2 DEF Max, Min

\* The deadline and the absolute stop are times, and the explicit expiry test
\* on them is that the absolute stop has come (normalize_capture_bound).
LEMMA StopTimes ==
    ASSUME req \in Requests, now \in Nat
    PROVE  /\ Deadline \in Nat /\ AbsoluteStop \in Nat
           /\ Due(Deadline) \/ Due(req.after) <=> now >= AbsoluteStop
<1> DEFINE x == IF req.after = None THEN MaxCapture ELSE req.after
           y == IF req.tail = None THEN MaxCapture ELSE req.tail
<1>1. x \in Nat /\ y \in Nat /\ MaxCapture \in Nat /\ None \notin Nat
    BY Bounds DEF Requests
<1>2. {MaxCapture} \cup ({req.after, req.tail} \ {None}) = {MaxCapture, x, y}
    BY Bounds DEF Requests
<1>3. Deadline \in Nat
    BY <1>1, <1>2, Extrema DEF Deadline
<1> DEFINE z == IF req.after = None THEN Deadline ELSE req.after
<1>4. {Deadline} \cup ({req.after} \ {None}) = {Deadline, z, z}
    OBVIOUS
<1>5. z \in Nat
    BY <1>1, <1>3
<1> HIDE DEF z
<1>6. AbsoluteStop = Min({Deadline, z, z})
    BY <1>4 DEF AbsoluteStop
<1>7. AbsoluteStop \in {Deadline, z} /\ AbsoluteStop <= Deadline /\ AbsoluteStop <= z
    BY <1>3, <1>5, <1>6, Extrema
<1> QED BY <1>1, <1>3, <1>5, <1>7 DEF Due, z

\* StopAt is a time, and expired_capture_reason is that it has come.
LEMMA ExpiredAtStop ==
    ASSUME req \in Requests, now \in Nat, firedAt \in Nat \cup {None}
    PROVE  StopAt \in Nat /\ (Expired <=> now >= StopAt)
<1> DEFINE w == IF firedAt # None /\ HasTail THEN firedAt + req.tail ELSE AbsoluteStop
<1>1. AbsoluteStop \in Nat /\ (Due(Deadline) \/ Due(req.after) <=> now >= AbsoluteStop)
    BY StopTimes
<1>2. HasTail => req.tail \in Nat
    BY Bounds DEF HasTail, Requests
<1>3. w \in Nat
    BY <1>1, <1>2
<1>4. StopAt = Min({AbsoluteStop, w, w})
    BY DEF StopAt
<1>5. TailDeadline = IF firedAt # None /\ HasTail THEN Min({AbsoluteStop, w, w}) ELSE None
    BY DEF TailDeadline
<1> HIDE DEF w
<1>6. Min({AbsoluteStop, w, w}) \in {AbsoluteStop, w} /\ Min({AbsoluteStop, w, w}) <= AbsoluteStop
    BY <1>1, <1>3, Extrema
<1>7. StopAt \in Nat /\ StopAt \in {AbsoluteStop, w} /\ StopAt <= AbsoluteStop
    BY <1>1, <1>3, <1>4, <1>6
<1>8. ~(firedAt # None /\ HasTail) => StopAt = AbsoluteStop
    BY <1>7 DEF w
<1>9. Due(TailDeadline) <=> firedAt # None /\ HasTail /\ now >= StopAt
    BY <1>4, <1>5, <1>7, Bounds DEF Due
<1> QED BY <1>1, <1>7, <1>8, <1>9 DEF Expired

-----------------------------------------------------------------------------
(***************************************************************************)
(* Types.                                                                  *)
(***************************************************************************)
\* Every step keeps the types.
LEMMA TypeStep == TypeOK /\ [Next]_vars => TypeOK'
<1> SUFFICES ASSUME TypeOK, [Next]_vars PROVE TypeOK'
    OBVIOUS
<1>1. CASE SetupFails
    BY <1>1, Zenon DEF SetupFails, TypeOK, world, Places, Ended
<1>2. CASE Spawn
  <2>1. 1 \in Nat
    OBVIOUS
  <2> QED BY <1>2, <2>1, Zenon DEF Spawn, SpawnDirect, AttachDirect, SpawnPerf, TypeOK, world,
             Places, Lives
<1>3. CASE Ping
    BY <1>3, Zenon DEF Ping, TerminateGroup, TypeOK, world, Places, Ended, Lives, Threads
<1>4. CASE Arm
    BY <1>4, Zenon DEF Arm, TypeOK, world, Places, Ended
<1>5. CASE LoopHead
    BY <1>5, Zenon DEF LoopHead, TypeOK, world, Places
<1>6. CASE StopArm
    BY <1>6, Zenon DEF StopArm, TypeOK, world, Places
<1>7. CASE TimerArm
    BY <1>7, Zenon DEF TimerArm, TypeOK, world, Places
<1>8. CASE WaitArm
    BY <1>8, Zenon DEF WaitArm, TypeOK, world, Places
<1>9. CASE ReportArm
    BY <1>9, Zenon DEF ReportArm, TypeOK, world, Places
<1>10. CASE HandleReport
  <2>1. PICK opened \in {0, 1} : events' = events + opened
    BY <1>10 DEF HandleReport
  <2>2. events \in Nat
    BY DEF TypeOK
  <2>3. events' \in Nat
    BY <2>1, <2>2
  <2> QED BY <1>10, <2>3, Zenon DEF HandleReport, TypeOK, world, Places
<1>11. CASE TriggerArm
    BY <1>11, Zenon DEF TriggerArm, SendAck, TypeOK, world, Places, Times, Threads, Lines
<1>12. CASE Finish
    BY <1>12, Zenon DEF Finish, TakeRings, StopPerf, TypeOK, world, Places, Lives
<1>13. CASE Write
    BY <1>13, Zenon DEF Write, TypeOK, world, Places, Ended
<1>14. CASE Wait
    BY <1>14, Zenon DEF Wait, TerminateGroup, TypeOK, world, Places, Lives, Threads
<1>15. CASE Ack
    BY <1>15, Zenon DEF Ack, SendAck, TypeOK, world, Places, Threads
<1>16. CASE Kill
    BY <1>16, Zenon DEF Kill, TerminateGroup, TypeOK, world, Places, Ended, Lives, Threads
<1>17. CASE StopRequested
    BY <1>17, Zenon DEF StopRequested, TypeOK, world, Stops, task
<1>18. CASE ShimReports
    BY <1>18, Zenon DEF ShimReports, TypeOK, world, task
<1>19. CASE TriggerHits
    BY <1>19, Zenon DEF TriggerHits, TypeOK, world, Lines, Threads, Times, task
<1>20. CASE ParkedTooLong
    BY <1>20, Zenon DEF ParkedTooLong, TypeOK, world, Threads, task
<1>21. CASE WorkExits
    BY <1>21, Zenon DEF WorkExits, TypeOK, world, Threads, Lives, task
<1>22. CASE PerfExits
    BY <1>22, Zenon DEF PerfExits, TypeOK, world, Lives, task
<1>23. CASE Tick
  <2>1. now' = now + 1 /\ now \in Nat
    BY <1>23, Zenon DEF Tick, TypeOK, world, task
  <2>2. now' \in Nat
    BY <2>1
  <2> QED BY <1>23, <2>2, Zenon DEF Tick, TypeOK, world, task
<1>24. CASE UNCHANGED vars
    BY <1>24, Zenon DEF vars, TypeOK, world, task
<1> QED BY <1>1, <1>2, <1>3, <1>4, <1>5, <1>6, <1>7, <1>8, <1>9, <1>10, <1>11, <1>12, <1>13,
           <1>14, <1>15, <1>16, <1>17, <1>18, <1>19, <1>20, <1>21, <1>22, <1>23, <1>24 DEF Next,
           Task

\* What Init and Next say of the types, for the specification.
THEOREM CaptureTypes == Spec => []TypeOK
<1>1. Init => TypeOK
  <2> SUFFICES ASSUME Init PROVE TypeOK
    OBVIOUS
  <2>1. 0 \in Nat
    OBVIOUS
  <2> QED BY <2>1, Zenon DEF Init, TypeOK, Places, Stops, Lines, Threads, Lives, Times
<1> QED BY <1>1, TypeStep, PTL DEF Spec
-----------------------------------------------------------------------------
(***************************************************************************)
(* The clock.  StopsOnTime alone is not inductive: a report may be served  *)
(* for HandleTime ticks only because it was taken before the stop time,    *)
(* and the select waits only until it.                                     *)
(***************************************************************************)
Clock ==
    /\ pc \in {"setup", "ping", "arm"} => now = 0
    /\ pc = "loop" => now <= StopAt + HandleTime
    /\ pc = "select" => now <= StopAt
    /\ pc = "report" => since <= StopAt /\ now <= since + HandleTime

\* The stop time depends only on the request and on when the trigger was read.
LEMMA StopAtKept ==
    ASSUME UNCHANGED <<req, firedAt>>
    PROVE  StopAt' = StopAt
BY DEF StopAt, AbsoluteStop, Deadline, HasTail

\* Reading the trigger's line before the stop time sets one that has not
\* passed (bounded_tail_deadline).
LEMMA TailIsAhead ==
    ASSUME TypeOK, UNCHANGED req, TailDeadline = None, HasTail, firedAt' = now,
           now <= StopAt
    PROVE  StopAt' \in Nat /\ now <= StopAt'
<1>1. req \in Requests /\ now \in Nat /\ firedAt \in Nat \cup {None}
    BY DEF TypeOK, Times
<1>2. AbsoluteStop \in Nat /\ AbsoluteStop' = AbsoluteStop
    BY <1>1, StopTimes DEF AbsoluteStop, Deadline
<1>3. req.tail \in Nat /\ HasTail'
    BY <1>1, Bounds DEF HasTail, Requests
<1>4. now + req.tail \in Nat /\ now + req.tail >= now
    BY <1>1, <1>3
<1>5. firedAt = None
  <2> SUFFICES ASSUME firedAt # None PROVE FALSE
    OBVIOUS
  <2>1. firedAt \in Nat /\ firedAt + req.tail \in Nat
    BY <1>1, <1>3
  <2>2. TailDeadline = Min({firedAt + req.tail, AbsoluteStop, AbsoluteStop})
    BY DEF TailDeadline
  <2>3. TailDeadline \in Nat
    BY <1>2, <2>1, <2>2, Extrema
  <2> QED BY <2>3, Bounds
<1>6. StopAt = Min({AbsoluteStop, AbsoluteStop, AbsoluteStop})
    BY <1>5 DEF StopAt
<1>7. StopAt = AbsoluteStop
    BY <1>2, <1>6, Extrema
<1>8. StopAt' = Min({AbsoluteStop, now + req.tail, now + req.tail})
  <2>1. firedAt' # None
    BY <1>1, Bounds
  <2> QED BY <1>2, <1>3, <2>1 DEF StopAt
<1>9. StopAt' \in {AbsoluteStop, now + req.tail}
    BY <1>2, <1>4, <1>8, Extrema
<1> QED BY <1>1, <1>2, <1>4, <1>7, <1>9

\* Every step keeps the clock within its bounds.
LEMMA ClockStep == TypeOK /\ Clock /\ [Next]_vars => Clock'
<1> SUFFICES ASSUME TypeOK, Clock, [Next]_vars PROVE Clock'
    OBVIOUS
<1>1. /\ now \in Nat /\ since \in Nat /\ HandleTime \in Nat
      /\ StopAt \in Nat /\ (Expired <=> now >= StopAt)
  <2>1. req \in Requests /\ now \in Nat /\ since \in Nat /\ firedAt \in Nat \cup {None}
    BY DEF TypeOK, Times
  <2> QED BY <2>1, ExpiredAtStop, Bounds
\* steps to places where no stop time is watched, in no time
<1>2. ASSUME pc' \notin {"loop", "select", "report"}, UNCHANGED now,
             pc' \in {"setup", "ping", "arm"} => pc \in {"setup", "ping", "arm"}
      PROVE  Clock'
    BY <1>2 DEF Clock
\* steps that leave the task where it is, in no time
<1>3. ASSUME UNCHANGED <<pc, now, since, req, firedAt>>
      PROVE  Clock'
    BY <1>3, StopAtKept DEF Clock
<1>4. CASE SetupFails
    BY <1>2, <1>4 DEF SetupFails
<1>5. CASE Spawn
    BY <1>2, <1>5 DEF Spawn, SpawnDirect, AttachDirect, SpawnPerf
<1>6. CASE Ping
    BY <1>2, <1>6 DEF Ping
<1>7. CASE Arm
  <2>1. UNCHANGED <<req, firedAt, now>> /\ pc = "arm" /\ pc' \in {"loop", "failed"}
    BY <1>7 DEF Arm
  <2>2. StopAt' = StopAt /\ now = 0
    BY <2>1, StopAtKept DEF Clock
  <2> QED BY <1>1, <2>1, <2>2 DEF Clock
<1>8. CASE LoopHead
  <2>1. UNCHANGED <<req, firedAt, now>> /\ (pc' = "finish" \/ (pc' = "select" /\ ~Expired))
    BY <1>8 DEF LoopHead
  <2>2. StopAt' = StopAt
    BY <2>1, StopAtKept
  <2> QED BY <1>1, <2>1, <2>2 DEF Clock
<1>9. CASE StopArm
    BY <1>2, <1>9 DEF StopArm
<1>10. CASE TimerArm
    BY <1>2, <1>10 DEF TimerArm
<1>11. CASE WaitArm
    BY <1>2, <1>11 DEF WaitArm
<1>12. CASE ReportArm
  <2>1. /\ UNCHANGED <<req, firedAt, now>>
        /\ pc = "select" /\ pc' = "report" /\ since' = now
    BY <1>12 DEF ReportArm
  <2>2. StopAt' = StopAt
    BY <2>1, StopAtKept
  <2> QED BY <1>1, <2>1, <2>2 DEF Clock
<1>13. CASE HandleReport
  <2>1. UNCHANGED <<req, firedAt, now>> /\ pc = "report" /\ pc' = "loop"
    BY <1>13 DEF HandleReport
  <2>2. StopAt' = StopAt
    BY <2>1, StopAtKept
  <2> QED BY <1>1, <2>1, <2>2 DEF Clock
<1>14. CASE TriggerArm
  <2>1. pc = "select" /\ UNCHANGED <<req, now>> /\ TailDeadline = None /\ now <= StopAt
    BY <1>14 DEF TriggerArm, LineReady, Clock
  <2>2. CASE pc' = "loop" /\ UNCHANGED firedAt
    <3>1. StopAt' = StopAt
      BY <2>1, <2>2, StopAtKept
    <3> QED BY <1>1, <2>1, <2>2, <3>1 DEF Clock
  <2>3. CASE pc' = "loop" /\ HasTail /\ firedAt' = now
    <3>1. StopAt' \in Nat /\ now <= StopAt'
      BY <2>1, <2>3, TailIsAhead
    <3>2. pc' = "loop" /\ now' = now
      BY <2>1, <2>3
    <3>3. now <= StopAt' + HandleTime
      <4>1. \A a, b, c \in Nat : a <= b => a <= b + c
        OBVIOUS
      <4> QED BY <1>1, <3>1, <4>1, Zenon
    <3> QED BY <3>2, <3>3 DEF Clock
  <2>4. CASE pc' = "finish"
    BY <1>2, <2>1, <2>4
  <2> QED BY <1>14, <2>2, <2>3, <2>4 DEF TriggerArm
<1>15. CASE Finish
    BY <1>2, <1>15 DEF Finish, TakeRings, StopPerf
<1>16. CASE Write
    BY <1>2, <1>16 DEF Write
<1>17. CASE Wait
    BY <1>2, <1>17 DEF Wait
<1>18. CASE Ack
    BY <1>2, <1>18 DEF Ack
<1>19. CASE Kill
    BY <1>2, <1>19 DEF Kill
<1>20. CASE StopRequested
    BY <1>3, <1>20 DEF StopRequested, task
<1>21. CASE ShimReports
    BY <1>3, <1>21 DEF ShimReports, task
<1>22. CASE TriggerHits
    BY <1>3, <1>22 DEF TriggerHits, task
<1>23. CASE ParkedTooLong
    BY <1>3, <1>23 DEF ParkedTooLong, task
<1>24. CASE WorkExits
    BY <1>3, <1>24 DEF WorkExits, task
<1>25. CASE PerfExits
    BY <1>3, <1>25 DEF PerfExits, task
<1>26. CASE Tick
  <2>1. /\ UNCHANGED <<req, firedAt, pc, since>> /\ now' = now + 1
        /\ \/ pc = "select" /\ ~Expired
           \/ pc = "report" /\ now < since + HandleTime
           \/ pc = "wait" \/ pc \in Ended
    BY <1>26 DEF Tick, Idle, task
  <2>2. StopAt' = StopAt
    BY <2>1, StopAtKept
  <2> QED BY <1>1, <2>1, <2>2 DEF Clock, Ended
<1>27. CASE UNCHANGED vars
    BY <1>3, <1>27 DEF vars, task
<1> QED BY <1>4, <1>5, <1>6, <1>7, <1>8, <1>9, <1>10, <1>11, <1>12, <1>13, <1>14, <1>15, <1>16,
           <1>17, <1>18, <1>19, <1>20, <1>21, <1>22, <1>23, <1>24, <1>25, <1>26, <1>27 DEF Next,
           Task

\* A capture never records past its first stop time by more than the one
\* report being served (StopsOnTime), whatever the limits: the explicit expiry
\* test at the head of capture_task's loop is what bounds it.
THEOREM CaptureStopsOnTime == Spec => []StopsOnTime
<1>1. Init => Clock
    BY DEF Init, Clock
<1>2. TypeOK /\ Clock => StopsOnTime
  <2> SUFFICES ASSUME TypeOK, Clock PROVE StopsOnTime
    OBVIOUS
  <2>1. req \in Requests /\ now \in Nat /\ since \in Nat /\ firedAt \in Nat \cup {None}
    BY DEF TypeOK, Times
  <2>2. StopAt \in Nat /\ HandleTime \in Nat
    BY <2>1, ExpiredAtStop, Bounds
  <2> QED BY <2>1, <2>2 DEF Clock, StopsOnTime
<1> QED BY <1>1, <1>2, CaptureTypes, ClockStep, PTL DEF Spec
-----------------------------------------------------------------------------
(***************************************************************************)
(* The recorder and the workload.  What the task releases or leaves behind *)
(* depends on which of its steps came before, so the invariant says of     *)
(* each place what is done by then.                                        *)
(***************************************************************************)
\* past DirectRecorder::finish or PerfControl::stop
AfterFinish == {"write", "wait", "ack", "kill", "done", "cancelled"}

Recorder ==
    /\ req \in Requests
    /\ pc = "setup" => thread # "released"
    /\ (req.perf \/ req.launch) /\ pc \notin {"setup", "failed"} => child # "none"
    /\ ~req.perf /\ pc \in AfterFinish => taken
    /\ req.launch /\ pc \in {"ack", "kill", "done", "cancelled"} => child = "dead"
    /\ OwnedIsTerminated
    /\ ParkedUntilTaken

\* Every step keeps what is done by each place.
LEMMA RecorderStep == Recorder /\ [Next]_vars => Recorder'
<1> SUFFICES ASSUME Recorder, [Next]_vars PROVE Recorder'
    OBVIOUS
<1>1. req.trigger # "no" => req.launch
    BY DEF Recorder, Requests
<1> USE DEF Recorder, AfterFinish, OwnedIsTerminated, ParkedUntilTaken, HasTail, world
<1>2. CASE SetupFails
    BY <1>1, <1>2, Zenon DEF SetupFails
<1>3. CASE Spawn
    BY <1>1, <1>3, Zenon DEF Spawn, SpawnDirect, AttachDirect, SpawnPerf
<1>4. CASE Ping
    BY <1>1, <1>4, Zenon DEF Ping, TerminateGroup
<1>5. CASE Arm
    BY <1>1, <1>5, Zenon DEF Arm
<1>6. CASE LoopHead
    BY <1>1, <1>6, Zenon DEF LoopHead
<1>7. CASE StopArm
    BY <1>1, <1>7, Zenon DEF StopArm
<1>8. CASE TimerArm
    BY <1>1, <1>8, Zenon DEF TimerArm
<1>9. CASE WaitArm
    BY <1>1, <1>9, Zenon DEF WaitArm
<1>10. CASE ReportArm
    BY <1>1, <1>10, Zenon DEF ReportArm
<1>11. CASE HandleReport
    BY <1>1, <1>11, Zenon DEF HandleReport
<1>12. CASE TriggerArm
    BY <1>1, <1>12, Zenon DEF TriggerArm, SendAck
<1>13. CASE Finish
    BY <1>1, <1>13, Zenon DEF Finish, TakeRings, StopPerf
<1>14. CASE Write
    BY <1>1, <1>14, Zenon DEF Write
<1>15. CASE Wait
    BY <1>1, <1>15, Zenon DEF Wait, TerminateGroup, RecorderGone
<1>16. CASE Ack
    BY <1>1, <1>16, Zenon DEF Ack, SendAck
<1>17. CASE Kill
    BY <1>1, <1>17, Zenon DEF Kill, TerminateGroup
<1>18. CASE StopRequested
    BY <1>1, <1>18, Zenon DEF StopRequested, task
<1>19. CASE ShimReports
    BY <1>1, <1>19, Zenon DEF ShimReports, task
<1>20. CASE TriggerHits
    BY <1>1, <1>20, Zenon DEF TriggerHits, task
<1>21. CASE ParkedTooLong
    BY <1>1, <1>21, Zenon DEF ParkedTooLong, task
<1>22. CASE WorkExits
    BY <1>1, <1>22, Zenon DEF WorkExits, task
<1>23. CASE PerfExits
    BY <1>1, <1>23, Zenon DEF PerfExits, task
<1>24. CASE Tick
    BY <1>1, <1>24, Zenon DEF Tick, task
<1>25. CASE UNCHANGED vars
    BY <1>25, Zenon DEF vars, task
<1> QED BY <1>2, <1>3, <1>4, <1>5, <1>6, <1>7, <1>8, <1>9, <1>10, <1>11, <1>12, <1>13, <1>14,
           <1>15, <1>16, <1>17, <1>18, <1>19, <1>20, <1>21, <1>22, <1>23, <1>24, <1>25, Zenon
           DEF Next, Task

\* Init gives the recorder's invariant and every step keeps it.
LEMMA RecorderInv == Spec => []Recorder
<1>1. Init => Recorder
    BY Zenon DEF Init, Recorder, AfterFinish, OwnedIsTerminated, ParkedUntilTaken
<1> QED BY <1>1, RecorderStep, PTL DEF Spec

\* A thread parked at a trigger without a tail goes on only when what led to
\* the trigger is safe (ParkedUntilTaken): finish and write come before
\* send_ack on every path.
THEOREM ParkedKept == Spec => []ParkedUntilTaken
BY RecorderInv, PTL DEF Recorder

\* A capture that succeeded or was cancelled leaves no owned workload running
\* (OwnedIsTerminated), whether the recorder ended by itself, in time or not.
THEOREM OwnedTerminated == Spec => []OwnedIsTerminated
BY RecorderInv, PTL DEF Recorder
=============================================================================
