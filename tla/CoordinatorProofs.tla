------------------------- MODULE CoordinatorProofs -------------------------
(***************************************************************************)
(* Theorems about Coordinator for every number of sessions, jobs and       *)
(* every value of the limits.                                              *)
(***************************************************************************)
EXTENDS Coordinator, FiniteSetTheorems, TLAPS

(***************************************************************************)
(* Facts about the operators the actions are built from.                   *)
(***************************************************************************)
\* u32::saturating_sub stays a natural number.
LEMMA PredType == \A n \in Nat : Pred(n) \in Nat
BY DEF Pred

\* The keys the handlers build are keys.
LEMMA KeyTypes ==
    /\ \A s \in Sessions, d \in Details : DecodeKey(s, d) \in Keys
    /\ \A b \in Sessions, c \in Sessions : CompareKey(b, c) \in Keys
BY DEF DecodeKey, CompareKey, Keys, DecodeKeys, CompareKeys

\* release_capture_slot keeps the types of what it writes.
LEMMA ReleaseType ==
    ASSUME TypeOK, NEW s \in Sessions, ReleaseCaptureSlot(s)
    PROVE  slotHeld' \in [Sessions -> BOOLEAN] /\ activeCaptures' \in Nat
BY PredType DEF ReleaseCaptureSlot, TypeOK

\* cancel_queued_session_job returns a job table.
LEMMA CancelQueuedType ==
    ASSUME TypeOK, NEW s \in Sessions
    PROVE  CancelQueuedSessionJob(s) \in [Jobs -> JobRecord]
BY DEF CancelQueuedSessionJob, JobIn, TypeOK, JobRecord, JobPhases

\* Closing a session keeps the types of everything but its phase.
LEMMA CloseType ==
    ASSUME TypeOK, NEW s \in Sessions, CloseSession(s), phase' \in [Sessions -> Phases]
    PROVE  TypeOK'
BY ReleaseType, CancelQueuedType, PredType DEF CloseSession, TypeOK, storeVars

\* Every step keeps every variable in its type.
LEMMA TypeStep == TypeOK /\ [Next]_vars => TypeOK'
<1> SUFFICES ASSUME TypeOK, [Next]_vars PROVE TypeOK'
    OBVIOUS
<1>1. ASSUME NEW s \in Sessions, HandleStart(s) PROVE TypeOK'
    BY <1>1 DEF HandleStart, TypeOK, storeVars, Phases, Capturing, TaskStates
<1>2. ASSUME NEW s \in Sessions, HandleSnapshot(s) PROVE TypeOK'
    BY <1>2 DEF HandleSnapshot, TypeOK, storeVars, taskVars, counters, Phases,
        Capturing, FreshJobs, JobRecord, JobPhases, JobKinds, BusyPhases
<1>3. ASSUME NEW s \in Sessions, HandleSnapshotUnsaved(s) PROVE TypeOK'
    BY <1>3 DEF HandleSnapshotUnsaved, TypeOK, storeVars, taskVars, counters,
        Phases, Capturing, FreshJobs
<1>4. ASSUME NEW s \in Sessions, HandleCancelSession(s) PROVE TypeOK'
    BY <1>4, ReleaseType DEF HandleCancelSession, TypeOK, storeVars, taskVars,
        Phases, Ended
<1>5. ASSUME NEW s \in Sessions, HandlePrune(s) PROVE TypeOK'
    BY <1>5 DEF HandlePrune, TypeOK, sessionVars, counters, taskVars
<1>6. ASSUME NEW s \in Sessions, NEW d \in Details, HandleDecode(s, d) PROVE TypeOK'
    BY <1>6, KeyTypes DEF HandleDecode, TypeOK, sessionVars, storeVars, taskVars,
        FreshJobs, JobRecord, JobPhases, JobKinds, BusyPhases, Worker, WorkStates
<1>7. ASSUME NEW b \in Sessions, NEW c \in Sessions, HandleCompare(b, c) PROVE TypeOK'
    BY <1>7, KeyTypes DEF HandleCompare, TypeOK, sessionVars, storeVars, taskVars,
        FreshJobs, JobRecord, JobPhases, JobKinds, BusyPhases, Worker, WorkStates
<1>8. ASSUME NEW j \in Jobs, HandleCancelJob(j) PROVE TypeOK'
    BY <1>8 DEF HandleCancelJob, JobIn, TypeOK, sessionVars, storeVars, taskVars, counters,
        JobRecord, JobPhases
<1>9. ASSUME NEW s \in Sessions, InternalArmed(s) PROVE TypeOK'
    BY <1>9 DEF InternalArmed, TypeOK, storeVars, counters, Phases, Capturing
<1>10. ASSUME NEW s \in Sessions, InternalFailed(s) PROVE TypeOK'
    <2>1. phase' \in [Sessions -> Phases]
        BY <1>10 DEF InternalFailed, TypeOK, Phases, Ended
    <2> QED BY <1>10, <2>1, CloseType DEF InternalFailed
<1>11. ASSUME NEW s \in Sessions, InternalPublishedBlocked(s) PROVE TypeOK'
    <2>1. phase' \in [Sessions -> Phases]
        BY <1>11 DEF InternalPublishedBlocked, TypeOK
    <2> QED BY <1>11, <2>1, CloseType DEF InternalPublishedBlocked
<1>12. ASSUME NEW s \in Sessions, InternalPublished(s) PROVE TypeOK'
    BY <1>12, ReleaseType, KeyTypes, PredType, DetailAssumption DEF
        InternalPublished, TypeOK, storeVars, Phases, Ended, FreshJobs, JobRecord,
        JobPhases, JobKinds, BusyPhases, Worker, WorkStates
<1>13. ASSUME NEW j \in Jobs, InternalJobFinished(j) PROVE TypeOK'
    BY <1>13, PredType DEF InternalJobFinished, JobIn, WorkerAt, TypeOK, sessionVars, storeVars,
        taskVars, JobRecord, JobPhases, Worker, WorkStates
<1>14. ASSUME NEW s \in Sessions, CaptureTask(s) PROVE TypeOK'
    BY <1>14 DEF CaptureTask, TaskFails, TaskArms, TaskStops, TaskChecksStop,
        TaskPublishes, TaskReports, TaskSends, TaskUnchanged, TypeOK, sessionVars,
        counters, TaskStates
<1>15. ASSUME NEW j \in Jobs, JobWorker(j) PROVE TypeOK'
    <2> USE DEF WorkerUnchanged, WorkerAt, TypeOK, sessionVars, storeVars, taskVars, counters,
            Worker, WorkStates
    <2>1. CASE WorkerOpens(j)  BY <2>1 DEF WorkerOpens
    <2>2. CASE WorkerFails(j)  BY <2>2 DEF WorkerFails
    <2>3. CASE WorkerCommits(j)
        <3>1. work' \in [Jobs -> Worker]
            BY <2>3 DEF WorkerCommits
        <3>2. /\ derived' \in [Sessions -> SUBSET Jobs]
              /\ snapDir' \in [Sessions -> {"absent", "published", "removed", "husk"}]
            <4> DEFINE s == work[j].key[2]
            <4>1. \/ UNCHANGED <<derived, snapDir>>
                  \/ /\ derived' = [derived EXCEPT ![s] = @ \union {j}]
                     /\ snapDir' = [snapDir EXCEPT ![s] = IF @ = "removed" THEN "husk" ELSE @]
                BY <2>3 DEF WorkerCommits
            <4> HIDE DEF s
            <4>2. /\ derived \in [Sessions -> SUBSET Jobs]
                  /\ snapDir \in [Sessions -> {"absent", "published", "removed", "husk"}]
                OBVIOUS
            <4> HIDE DEF TypeOK
            <4> QED BY <4>1, <4>2
        <3>3. WorkerUnchanged
            BY <2>3 DEF WorkerCommits
        <3> QED BY <3>1, <3>2, <3>3
    <2> QED BY <1>15, <2>1, <2>2, <2>3 DEF JobWorker
<1>16. CASE UNCHANGED vars
    BY <1>16 DEF vars, TypeOK
<1> QED
    BY <1>1, <1>2, <1>3, <1>4, <1>5, <1>6, <1>7, <1>8, <1>9, <1>10, <1>11, <1>12,
       <1>13, <1>14, <1>15, <1>16 DEF Next, Client, Internal

\* Every variable keeps its type in every reachable state.
THEOREM CoordinatorTyped == Spec => []TypeOK
<1>1. Init => TypeOK
    BY DEF Init, TypeOK, Phases, JobRecord, NoRecord, JobPhases, JobKinds, Worker,
        WorkStates, TaskStates, NoKey
<1> QED BY <1>1, TypeStep, PTL DEF Spec

-----------------------------------------------------------------------------
(***************************************************************************)
(* The inductive invariant behind the accounting.                          *)
(***************************************************************************)
\* How phase, task and pending event of one session go together.
Lifecycle ==
    \A s \in Sessions :
        /\ phase[s] = "none" => task[s] = "none"
        /\ finalMsg[s] # "none" => task[s] = "done"
        /\ phase[s] \in Capturing => TaskLive(s)
        /\ phase[s] = "captured" => ~TaskLive(s)
        /\ task[s] = "renamed" \/ finalMsg[s] = "published" => snapDir[s] # "absent"

\* A session's decode job is its own, is chosen by handle_snapshot or by
\* Published, and has no worker before Published.
DecodeJobOwned ==
    \A s \in Sessions :
        /\ phase[s] \in {"none", "starting", "armed"} => decodeJob[s] = None
        /\ phase[s] # "captured" /\ decodeJob[s] # None => work[decodeJob[s]].st = "none"
        /\ \A t \in Sessions : decodeJob[s] = decodeJob[t] /\ decodeJob[s] # None => s = t

\* A worker belongs to a recorded job, and a job is Running only with a worker.
WorkerOwned ==
    \A j \in Jobs :
        /\ jobs[j].phase = "none" => work[j].st = "none"
        /\ jobs[j].phase = "running" => WorkerLive(j)

Slots        == {s \in Sessions : slotHeld[s]}
LiveTasks    == {s \in Sessions : TaskLive(s)}
LiveDecodes  == {j \in Jobs : WorkerLive(j) /\ IsDecode(work[j].key)}
LiveCompares == {j \in Jobs : WorkerLive(j) /\ IsCompare(work[j].key)}

\* The four counters, and the bounds the admission guards keep.
Counted ==
    /\ \A s \in Sessions : slotHeld[s] <=> phase[s] \in Capturing
    /\ activeCaptures   = Cardinality(Slots)
    /\ reservedDecode   = Cardinality(LiveTasks)
    /\ runningDecode    = Cardinality(LiveDecodes)
    /\ pendingExpensive = Cardinality(LiveCompares)
    /\ activeCaptures   <= MaxActiveCaptures
    /\ reservedDecode   <= MaxPendingExpensive
    /\ pendingExpensive <= MaxPendingExpensive

Structure == Lifecycle /\ DecodeJobOwned /\ WorkerOwned
IInv == TypeOK /\ Structure /\ Counted /\ QueuedIsServed /\ CapturedIsComplete

\* Every step keeps a session's phase, task and event together.
LEMMA LifecycleStep == TypeOK /\ Lifecycle /\ [Next]_vars => Lifecycle'
<1> SUFFICES ASSUME TypeOK, Lifecycle, [Next]_vars PROVE Lifecycle'
    OBVIOUS
<1> USE DEF Lifecycle, TaskLive, Capturing, TypeOK, sessionVars, counters, taskVars, storeVars
<1>1. ASSUME NEW s \in Sessions, HandleStart(s) PROVE Lifecycle'
    BY <1>1 DEF HandleStart
<1>2. ASSUME NEW s \in Sessions, HandleSnapshot(s) PROVE Lifecycle'
    BY <1>2 DEF HandleSnapshot, FreshJobs
<1>3. ASSUME NEW s \in Sessions, HandleSnapshotUnsaved(s) PROVE Lifecycle'
    BY <1>3 DEF HandleSnapshotUnsaved, FreshJobs
<1>4. ASSUME NEW s \in Sessions, HandleCancelSession(s) PROVE Lifecycle'
    BY <1>4 DEF HandleCancelSession
<1>5. ASSUME NEW s \in Sessions, HandlePrune(s) PROVE Lifecycle'
    BY <1>5 DEF HandlePrune
<1>6. ASSUME NEW s \in Sessions, NEW d \in Details, HandleDecode(s, d) PROVE Lifecycle'
    BY <1>6 DEF HandleDecode, FreshJobs
<1>7. ASSUME NEW b \in Sessions, NEW c \in Sessions, HandleCompare(b, c) PROVE Lifecycle'
    BY <1>7 DEF HandleCompare, FreshJobs
<1>8. ASSUME NEW j \in Jobs, HandleCancelJob(j) PROVE Lifecycle'
    BY <1>8 DEF HandleCancelJob, JobIn
<1>9. ASSUME NEW s \in Sessions, InternalArmed(s) PROVE Lifecycle'
    BY <1>9 DEF InternalArmed
<1>10. ASSUME NEW s \in Sessions, InternalFailed(s) PROVE Lifecycle'
    BY <1>10 DEF InternalFailed, CloseSession, CancelQueuedSessionJob, JobIn
<1>11. ASSUME NEW s \in Sessions, InternalPublishedBlocked(s) PROVE Lifecycle'
    BY <1>11 DEF InternalPublishedBlocked, CloseSession, CancelQueuedSessionJob, JobIn
<1>12. ASSUME NEW s \in Sessions, InternalPublished(s) PROVE Lifecycle'
    BY <1>12 DEF InternalPublished, FreshJobs
<1>13. ASSUME NEW j \in Jobs, InternalJobFinished(j) PROVE Lifecycle'
    BY <1>13 DEF InternalJobFinished, JobIn, WorkerAt
<1>14. ASSUME NEW s \in Sessions, CaptureTask(s) PROVE Lifecycle'
    BY <1>14 DEF CaptureTask, TaskFails, TaskArms, TaskStops, TaskChecksStop,
        TaskPublishes, TaskReports, TaskSends, TaskUnchanged
<1>15. ASSUME NEW j \in Jobs, JobWorker(j) PROVE Lifecycle'
    BY <1>15 DEF JobWorker, WorkerOpens, WorkerFails, WorkerCommits, WorkerAt, WorkerUnchanged
<1>16. CASE UNCHANGED vars
    BY <1>16 DEF vars
<1> QED
    BY <1>1, <1>2, <1>3, <1>4, <1>5, <1>6, <1>7, <1>8, <1>9, <1>10, <1>11, <1>12, <1>13, <1>14,
       <1>15, <1>16 DEF Next, Client, Internal

\* Every step keeps decode jobs distinct and without worker before Published.
LEMMA DecodeJobStep == TypeOK /\ Lifecycle /\ DecodeJobOwned /\ WorkerOwned /\ [Next]_vars => DecodeJobOwned'
<1> SUFFICES ASSUME TypeOK, Lifecycle, DecodeJobOwned, WorkerOwned, [Next]_vars PROVE DecodeJobOwned'
    OBVIOUS
<1> USE DEF DecodeJobOwned, WorkerOwned, Lifecycle, TaskLive, Capturing, TypeOK, sessionVars, counters, taskVars, storeVars
<1>1. ASSUME NEW s \in Sessions, HandleStart(s) PROVE DecodeJobOwned'
    BY <1>1 DEF HandleStart
<1>2. ASSUME NEW s \in Sessions, HandleSnapshot(s) PROVE DecodeJobOwned'
    BY <1>2 DEF HandleSnapshot, FreshJobs
<1>3. ASSUME NEW s \in Sessions, HandleSnapshotUnsaved(s) PROVE DecodeJobOwned'
    BY <1>3 DEF HandleSnapshotUnsaved, FreshJobs
<1>4. ASSUME NEW s \in Sessions, HandleCancelSession(s) PROVE DecodeJobOwned'
    BY <1>4 DEF HandleCancelSession
<1>5. ASSUME NEW s \in Sessions, HandlePrune(s) PROVE DecodeJobOwned'
    BY <1>5 DEF HandlePrune
<1>6. ASSUME NEW s \in Sessions, NEW d \in Details, HandleDecode(s, d) PROVE DecodeJobOwned'
    BY <1>6 DEF HandleDecode, FreshJobs
<1>7. ASSUME NEW b \in Sessions, NEW c \in Sessions, HandleCompare(b, c) PROVE DecodeJobOwned'
    BY <1>7 DEF HandleCompare, FreshJobs
<1>8. ASSUME NEW j \in Jobs, HandleCancelJob(j) PROVE DecodeJobOwned'
    BY <1>8 DEF HandleCancelJob, JobIn
<1>9. ASSUME NEW s \in Sessions, InternalArmed(s) PROVE DecodeJobOwned'
    BY <1>9 DEF InternalArmed
<1>10. ASSUME NEW s \in Sessions, InternalFailed(s) PROVE DecodeJobOwned'
    BY <1>10 DEF InternalFailed, CloseSession, CancelQueuedSessionJob, JobIn
<1>11. ASSUME NEW s \in Sessions, InternalPublishedBlocked(s) PROVE DecodeJobOwned'
    BY <1>11 DEF InternalPublishedBlocked, CloseSession, CancelQueuedSessionJob, JobIn
<1>12. ASSUME NEW s \in Sessions, InternalPublished(s) PROVE DecodeJobOwned'
    BY <1>12 DEF InternalPublished, FreshJobs
<1>13. ASSUME NEW j \in Jobs, InternalJobFinished(j) PROVE DecodeJobOwned'
    BY <1>13 DEF InternalJobFinished, JobIn, WorkerAt
<1>14. ASSUME NEW s \in Sessions, CaptureTask(s) PROVE DecodeJobOwned'
    BY <1>14 DEF CaptureTask, TaskFails, TaskArms, TaskStops, TaskChecksStop,
        TaskPublishes, TaskReports, TaskSends, TaskUnchanged
<1>15. ASSUME NEW j \in Jobs, JobWorker(j) PROVE DecodeJobOwned'
    BY <1>15 DEF JobWorker, WorkerOpens, WorkerFails, WorkerCommits, WorkerAt, WorkerUnchanged
<1>16. CASE UNCHANGED vars
    BY <1>16 DEF vars
<1> QED
    BY <1>1, <1>2, <1>3, <1>4, <1>5, <1>6, <1>7, <1>8, <1>9, <1>10, <1>11, <1>12, <1>13, <1>14,
       <1>15, <1>16 DEF Next, Client, Internal

\* Every step keeps workers and job records together.
LEMMA WorkerStep == TypeOK /\ WorkerOwned /\ [Next]_vars => WorkerOwned'
<1> SUFFICES ASSUME TypeOK, WorkerOwned, [Next]_vars PROVE WorkerOwned'
    OBVIOUS
<1> USE DEF WorkerOwned, WorkerLive, TypeOK, sessionVars, counters, taskVars, storeVars
<1>1. ASSUME NEW s \in Sessions, HandleStart(s) PROVE WorkerOwned'
    BY <1>1 DEF HandleStart
<1>2. ASSUME NEW s \in Sessions, HandleSnapshot(s) PROVE WorkerOwned'
    BY <1>2 DEF HandleSnapshot, FreshJobs
<1>3. ASSUME NEW s \in Sessions, HandleSnapshotUnsaved(s) PROVE WorkerOwned'
    BY <1>3 DEF HandleSnapshotUnsaved, FreshJobs
<1>4. ASSUME NEW s \in Sessions, HandleCancelSession(s) PROVE WorkerOwned'
    BY <1>4 DEF HandleCancelSession
<1>5. ASSUME NEW s \in Sessions, HandlePrune(s) PROVE WorkerOwned'
    BY <1>5 DEF HandlePrune
<1>6. ASSUME NEW s \in Sessions, NEW d \in Details, HandleDecode(s, d) PROVE WorkerOwned'
    BY <1>6 DEF HandleDecode, FreshJobs
<1>7. ASSUME NEW b \in Sessions, NEW c \in Sessions, HandleCompare(b, c) PROVE WorkerOwned'
    BY <1>7 DEF HandleCompare, FreshJobs
<1>8. ASSUME NEW j \in Jobs, HandleCancelJob(j) PROVE WorkerOwned'
    BY <1>8 DEF HandleCancelJob, JobIn
<1>9. ASSUME NEW s \in Sessions, InternalArmed(s) PROVE WorkerOwned'
    BY <1>9 DEF InternalArmed
<1>10. ASSUME NEW s \in Sessions, InternalFailed(s) PROVE WorkerOwned'
    BY <1>10 DEF InternalFailed, CloseSession, CancelQueuedSessionJob, JobIn
<1>11. ASSUME NEW s \in Sessions, InternalPublishedBlocked(s) PROVE WorkerOwned'
    BY <1>11 DEF InternalPublishedBlocked, CloseSession, CancelQueuedSessionJob, JobIn
<1>12. ASSUME NEW s \in Sessions, InternalPublished(s) PROVE WorkerOwned'
    BY <1>12 DEF InternalPublished, FreshJobs
<1>13. ASSUME NEW j \in Jobs, InternalJobFinished(j) PROVE WorkerOwned'
    BY <1>13 DEF InternalJobFinished, JobIn, WorkerAt
<1>14. ASSUME NEW s \in Sessions, CaptureTask(s) PROVE WorkerOwned'
    BY <1>14 DEF CaptureTask, TaskFails, TaskArms, TaskStops, TaskChecksStop,
        TaskPublishes, TaskReports, TaskSends, TaskUnchanged
<1>15. ASSUME NEW j \in Jobs, JobWorker(j) PROVE WorkerOwned'
    BY <1>15 DEF JobWorker, WorkerOpens, WorkerFails, WorkerCommits, WorkerAt, WorkerUnchanged
<1>16. CASE UNCHANGED vars
    BY <1>16 DEF vars
<1> QED
    BY <1>1, <1>2, <1>3, <1>4, <1>5, <1>6, <1>7, <1>8, <1>9, <1>10, <1>11, <1>12, <1>13, <1>14,
       <1>15, <1>16 DEF Next, Client, Internal

\* One more element of a finite set counts one more.
LEMMA CountAdd ==
    ASSUME NEW S, IsFiniteSet(S), NEW T \in SUBSET S, NEW x \in S, x \notin T
    PROVE  Cardinality(T \union {x}) = Cardinality(T) + 1
BY FS_Subset, FS_AddElement

\* One element less counts one less, and there was one to count.
LEMMA CountRemove ==
    ASSUME NEW S, IsFiniteSet(S), NEW T \in SUBSET S, NEW x \in T
    PROVE  /\ Cardinality(T) \in Nat /\ Cardinality(T) > 0
           /\ Cardinality(T \ {x}) = Pred(Cardinality(T))
<1>1. IsFiniteSet(T) /\ Cardinality(T) \in Nat
    BY FS_Subset, FS_CardinalityType
<1>2. Cardinality(T \ {x}) = Cardinality(T) - 1
    BY <1>1, FS_RemoveElement
<1>3. Cardinality(T \ {x}) \in Nat
    BY <1>1, FS_Subset, FS_CardinalityType
<1> QED BY <1>1, <1>2, <1>3 DEF Pred

\* release_capture_slot keeps active_captures equal to the slots held, called
\* once, twice or for a session without a slot.
LEMMA ReleaseCounts ==
    ASSUME TypeOK, NEW s \in Sessions, ReleaseCaptureSlot(s),
           activeCaptures = Cardinality(Slots)
    PROVE  activeCaptures' = Cardinality(Slots') /\ activeCaptures' <= activeCaptures
<1>1. Slots \in SUBSET Sessions /\ Slots' = Slots \ {s}
    BY DEF Slots, ReleaseCaptureSlot, TypeOK
<1>2. CASE slotHeld[s]
    <2>1. s \in Slots  BY <1>2 DEF Slots
    <2> QED BY <1>1, <1>2, <2>1, CountRemove, IdAssumption DEF ReleaseCaptureSlot, Pred
<1>3. CASE ~slotHeld[s]
    <2>1. Slots' = Slots  BY <1>1, <1>3 DEF Slots
    <2> QED BY <1>3, <2>1 DEF ReleaseCaptureSlot, TypeOK
<1> QED BY <1>2, <1>3

\* The last event of a session gives back its slot, if it has one, and its
\* reservation; no worker is concerned.
LEMMA CloseCounts ==
    ASSUME TypeOK, Lifecycle, Counted, NEW s \in Sessions, CloseSession(s),
           finalMsg[s] # "none", phase' \in [Sessions -> Phases],
           \A t \in Sessions \ {s} : phase'[t] = phase[t], phase'[s] \notin Capturing
    PROVE  Counted'
<1>1. activeCaptures' = Cardinality(Slots') /\ activeCaptures' <= activeCaptures
    BY ReleaseCounts DEF CloseSession, Counted
<1>2. reservedDecode' = Cardinality(LiveTasks') /\ reservedDecode' <= reservedDecode
    <2>1. s \in LiveTasks /\ LiveTasks \in SUBSET Sessions
        BY DEF LiveTasks, TaskLive
    <2>2. LiveTasks' = LiveTasks \ {s}
        BY DEF LiveTasks, TaskLive, CloseSession, Lifecycle, TypeOK
    <2>3. reservedDecode = Cardinality(LiveTasks) /\ reservedDecode' = Pred(Cardinality(LiveTasks))
        BY DEF CloseSession, Counted
    <2>4. /\ Cardinality(LiveTasks) \in Nat
          /\ Cardinality(LiveTasks \ {s}) = Pred(Cardinality(LiveTasks))
        BY <2>1, CountRemove, IdAssumption
    <2> QED BY <2>2, <2>3, <2>4 DEF Pred
<1>3. LiveDecodes' = LiveDecodes /\ LiveCompares' = LiveCompares
    BY DEF CloseSession, LiveDecodes, LiveCompares, WorkerLive
<1>4. \A t \in Sessions : slotHeld'[t] <=> phase'[t] \in Capturing
    BY DEF Counted, CloseSession, ReleaseCaptureSlot, TypeOK
<1>5. activeCaptures' \in Nat /\ reservedDecode' \in Nat
    BY CloseType DEF TypeOK
<1> QED
    BY <1>1, <1>2, <1>3, <1>4, <1>5, LimitAssumption DEF Counted, CloseSession, TypeOK

\* Every step keeps the four counters and their bounds.
LEMMA CountedStep ==
    TypeOK /\ Lifecycle /\ DecodeJobOwned /\ WorkerOwned /\ Counted /\ [Next]_vars => Counted'
<1> SUFFICES ASSUME TypeOK, Lifecycle, DecodeJobOwned, WorkerOwned, Counted, [Next]_vars
             PROVE  Counted'
    OBVIOUS
<1>t. TypeOK'
    BY TypeStep
<1> USE LimitAssumption, IdAssumption DEF sessionVars, counters, taskVars, storeVars
<1> DEFINE SameSlots == Slots' = Slots /\ \A s \in Sessions : slotHeld'[s] <=> phase'[s] \in Capturing
           SameTasks == LiveTasks' = LiveTasks
           SameWork  == LiveDecodes' = LiveDecodes /\ LiveCompares' = LiveCompares
<1>s. LiveTasks \in SUBSET Sessions /\ Slots \in SUBSET Sessions
      /\ LiveDecodes \in SUBSET Jobs /\ LiveCompares \in SUBSET Jobs
    BY DEF LiveTasks, Slots, LiveDecodes, LiveCompares
<1>1. ASSUME NEW s \in Sessions, HandleStart(s) PROVE Counted'
    <2>1. s \notin Slots /\ Slots' = Slots \union {s}
        BY <1>1 DEF Slots, HandleStart, TypeOK, Counted, Capturing
    <2>2. s \notin LiveTasks /\ LiveTasks' = LiveTasks \union {s}
        BY <1>1 DEF LiveTasks, TaskLive, HandleStart, TypeOK, Lifecycle
    <2>3. SameWork
        BY <1>1 DEF HandleStart, LiveDecodes, LiveCompares, WorkerLive
    <2>4. \A t \in Sessions : slotHeld'[t] <=> phase'[t] \in Capturing
        BY <1>1 DEF HandleStart, Counted, TypeOK, Capturing
    <2>5. Cardinality(Slots') = activeCaptures' /\ Cardinality(LiveTasks') = reservedDecode'
        <3>1. activeCaptures' = Cardinality(Slots) + 1 /\ reservedDecode' = Cardinality(LiveTasks) + 1
            BY <1>1 DEF Counted, HandleStart
        <3> QED BY <1>s, <2>1, <2>2, <3>1, CountAdd
    <2> QED BY <1>1, <2>3, <2>4, <2>5 DEF Counted, HandleStart, TypeOK
<1>2. ASSUME NEW s \in Sessions, HandleSnapshot(s) \/ HandleSnapshotUnsaved(s) PROVE Counted'
    <2>1. SameSlots
        BY <1>2 DEF HandleSnapshot, HandleSnapshotUnsaved, Slots, Counted, TypeOK, Capturing
    <2>2. SameTasks /\ SameWork
        BY <1>2 DEF HandleSnapshot, HandleSnapshotUnsaved, LiveTasks, TaskLive,
            LiveDecodes, LiveCompares, WorkerLive
    <2> QED BY <1>2, <2>1, <2>2 DEF Counted, HandleSnapshot, HandleSnapshotUnsaved
<1>3. ASSUME NEW s \in Sessions, HandleCancelSession(s) PROVE Counted'
    <2>1. activeCaptures' = Cardinality(Slots') /\ activeCaptures' <= activeCaptures
        BY <1>3, ReleaseCounts DEF HandleCancelSession, Counted
    <2>2. SameTasks /\ SameWork
        BY <1>3 DEF HandleCancelSession, LiveTasks, TaskLive, LiveDecodes, LiveCompares,
            WorkerLive
    <2>3. \A t \in Sessions : slotHeld'[t] <=> phase'[t] \in Capturing
        BY <1>3 DEF HandleCancelSession, ReleaseCaptureSlot, Counted, TypeOK, Capturing
    <2> QED BY <1>3, <1>t, <2>1, <2>2, <2>3 DEF Counted, HandleCancelSession, TypeOK
<1>4. ASSUME NEW s \in Sessions, HandlePrune(s) PROVE Counted'
    BY <1>4 DEF HandlePrune, Counted, Slots, LiveTasks, TaskLive, LiveDecodes,
        LiveCompares, WorkerLive
<1>5. ASSUME NEW s \in Sessions, NEW d \in Details, HandleDecode(s, d) PROVE Counted'
    <2>1. PICK j \in FreshJobs :
            work' = [work EXCEPT ![j] = [st |-> "spawned", key |-> DecodeKey(s, d)]]
        BY <1>5 DEF HandleDecode
    <2>2. j \in Jobs /\ work[j].st = "none"
        BY DEF FreshJobs, WorkerOwned
    <2>3. j \notin LiveDecodes /\ LiveDecodes' = LiveDecodes \union {j}
        BY <2>1, <2>2 DEF LiveDecodes, WorkerLive, TypeOK, IsDecode, DecodeKey
    <2>4. LiveCompares' = LiveCompares
        BY <2>1, <2>2 DEF LiveCompares, WorkerLive, TypeOK, IsCompare, DecodeKey
    <2>5. SameTasks /\ SameSlots
        BY <1>5 DEF HandleDecode, LiveTasks, TaskLive, Slots, Counted
    <2>6. Cardinality(LiveDecodes') = runningDecode'
        <3>1. runningDecode' = Cardinality(LiveDecodes) + 1
            BY <1>5 DEF Counted, HandleDecode
        <3> QED BY <1>s, <2>2, <2>3, <3>1, CountAdd
    <2> QED BY <1>5, <2>4, <2>5, <2>6 DEF Counted, HandleDecode
<1>6. ASSUME NEW b \in Sessions, NEW c \in Sessions, HandleCompare(b, c) PROVE Counted'
    <2>1. PICK j \in FreshJobs :
            work' = [work EXCEPT ![j] = [st |-> "spawned", key |-> CompareKey(b, c)]]
        BY <1>6 DEF HandleCompare
    <2>2. j \in Jobs /\ work[j].st = "none"
        BY DEF FreshJobs, WorkerOwned
    <2>3. j \notin LiveCompares /\ LiveCompares' = LiveCompares \union {j}
        BY <2>1, <2>2 DEF LiveCompares, WorkerLive, TypeOK, IsCompare, CompareKey
    <2>4. LiveDecodes' = LiveDecodes
        BY <2>1, <2>2 DEF LiveDecodes, WorkerLive, TypeOK, IsDecode, CompareKey
    <2>5. SameTasks /\ SameSlots
        BY <1>6 DEF HandleCompare, LiveTasks, TaskLive, Slots, Counted
    <2>6. Cardinality(LiveCompares') = pendingExpensive'
        <3>1. pendingExpensive' = Cardinality(LiveCompares) + 1
            BY <1>6 DEF Counted, HandleCompare
        <3> QED BY <1>s, <2>2, <2>3, <3>1, CountAdd
    <2> QED BY <1>6, <2>4, <2>5, <2>6 DEF Counted, HandleCompare, TypeOK
<1>7. ASSUME NEW j \in Jobs, HandleCancelJob(j) PROVE Counted'
    BY <1>7 DEF HandleCancelJob, Counted, Slots, LiveTasks, TaskLive, LiveDecodes,
        LiveCompares, WorkerLive
<1>8. ASSUME NEW s \in Sessions, InternalArmed(s) PROVE Counted'
    <2>1. SameSlots
        BY <1>8 DEF InternalArmed, Slots, Counted, TypeOK, Capturing
    <2>2. SameTasks /\ SameWork
        BY <1>8 DEF InternalArmed, LiveTasks, TaskLive, LiveDecodes, LiveCompares, WorkerLive
    <2> QED BY <1>8, <2>1, <2>2 DEF Counted, InternalArmed
<1>9. ASSUME NEW s \in Sessions, InternalFailed(s) PROVE Counted'
    BY <1>9, <1>t, CloseCounts DEF InternalFailed, TypeOK, Capturing
<1>10. ASSUME NEW s \in Sessions, InternalPublishedBlocked(s) PROVE Counted'
    BY <1>10, <1>t, CloseCounts DEF InternalPublishedBlocked, TypeOK, Capturing
<1>11. ASSUME NEW s \in Sessions, InternalPublished(s) PROVE Counted'
    <2>1. activeCaptures' = Cardinality(Slots') /\ activeCaptures' <= activeCaptures
        BY <1>11, ReleaseCounts DEF InternalPublished, Counted
    <2>2. PICK j \in Jobs :
            /\ work[j].st = "none"
            /\ work' = [work EXCEPT ![j] = [st |-> "spawned", key |-> DecodeKey(s, "calls")]]
        <3>1. phase[s] # "captured"
            BY <1>11 DEF InternalPublished, Lifecycle, TaskLive
        <3>2. PICK j \in IF decodeJob[s] = None THEN FreshJobs ELSE {decodeJob[s]} :
                work' = [work EXCEPT ![j] = [st |-> "spawned", key |-> DecodeKey(s, "calls")]]
            BY <1>11, Zenon DEF InternalPublished
        <3>3. CASE decodeJob[s] = None
            BY <3>2, <3>3 DEF FreshJobs, WorkerOwned
        <3>4. CASE decodeJob[s] # None
            BY <3>1, <3>2, <3>4 DEF DecodeJobOwned, TypeOK
        <3> QED BY <3>3, <3>4
    <2>3. j \notin LiveDecodes /\ LiveDecodes' = LiveDecodes \union {j}
        BY <2>2 DEF LiveDecodes, WorkerLive, TypeOK, IsDecode, DecodeKey
    <2>4. LiveCompares' = LiveCompares
        BY <2>2 DEF LiveCompares, WorkerLive, TypeOK, IsCompare, DecodeKey
    <2>5. Cardinality(LiveDecodes') = runningDecode'
        <3>1. runningDecode' = Cardinality(LiveDecodes) + 1
            BY <1>11 DEF Counted, InternalPublished
        <3> QED BY <1>s, <2>3, <3>1, CountAdd
    <2>6. s \in LiveTasks /\ LiveTasks' = LiveTasks \ {s}
        BY <1>11 DEF LiveTasks, TaskLive, InternalPublished, Lifecycle, TypeOK
    <2>7. Cardinality(LiveTasks') = reservedDecode' /\ reservedDecode' <= reservedDecode
        <3>1. reservedDecode = Cardinality(LiveTasks) /\ reservedDecode' = Pred(Cardinality(LiveTasks))
            BY <1>11 DEF Counted, InternalPublished
        <3>2. /\ Cardinality(LiveTasks) \in Nat
              /\ Cardinality(LiveTasks \ {s}) = Pred(Cardinality(LiveTasks))
            BY <1>s, <2>6, CountRemove
        <3> QED BY <2>6, <3>1, <3>2 DEF Pred
    <2>8. \A t \in Sessions : slotHeld'[t] <=> phase'[t] \in Capturing
        BY <1>11 DEF InternalPublished, ReleaseCaptureSlot, Counted, TypeOK, Capturing
    <2> QED BY <1>11, <1>t, <2>1, <2>4, <2>5, <2>7, <2>8 DEF Counted, InternalPublished, TypeOK
<1>12. ASSUME NEW j \in Jobs, InternalJobFinished(j) PROVE Counted'
    <2>1. SameSlots /\ SameTasks
        BY <1>12 DEF InternalJobFinished, Slots, LiveTasks, TaskLive, Counted
    <2>2. WorkerLive(j) /\ work' = [work EXCEPT ![j] = [st |-> "gone", key |-> work[j].key]]
        BY <1>12 DEF InternalJobFinished, WorkerLive, WorkerAt
    <2>3. LiveDecodes' = LiveDecodes \ {j} /\ LiveCompares' = LiveCompares \ {j}
        BY <2>2 DEF LiveDecodes, LiveCompares, WorkerLive, TypeOK
    <2>4. Cardinality(LiveDecodes') = runningDecode'
        <3>1. CASE IsDecode(work[j].key)
            <4>1. j \in LiveDecodes  BY <2>2, <3>1 DEF LiveDecodes
            <4>2. runningDecode' = Pred(Cardinality(LiveDecodes))
                BY <1>12, <3>1 DEF Counted, InternalJobFinished
            <4> QED BY <1>s, <2>3, <4>1, <4>2, CountRemove
        <3>2. CASE ~IsDecode(work[j].key)
            <4>1. LiveDecodes' = LiveDecodes  BY <2>3, <3>2 DEF LiveDecodes
            <4> QED BY <1>12, <3>2, <4>1 DEF Counted, InternalJobFinished
        <3> QED BY <3>1, <3>2
    <2>5. Cardinality(LiveCompares') = pendingExpensive' /\ pendingExpensive' <= pendingExpensive
        <3>1. CASE IsCompare(work[j].key)
            <4>1. j \in LiveCompares  BY <2>2, <3>1 DEF LiveCompares
            <4>2. /\ pendingExpensive  = Cardinality(LiveCompares)
                  /\ pendingExpensive' = Pred(Cardinality(LiveCompares))
                BY <1>12, <3>1 DEF Counted, InternalJobFinished
            <4>3. /\ Cardinality(LiveCompares) \in Nat
                  /\ Cardinality(LiveCompares \ {j}) = Pred(Cardinality(LiveCompares))
                BY <1>s, <4>1, CountRemove
            <4> QED BY <2>3, <4>2, <4>3 DEF Pred
        <3>2. CASE ~IsCompare(work[j].key)
            <4>1. LiveCompares' = LiveCompares  BY <2>3, <3>2 DEF LiveCompares
            <4> QED BY <1>12, <3>2, <4>1 DEF Counted, InternalJobFinished, TypeOK
        <3> QED BY <3>1, <3>2
    <2> QED BY <1>12, <1>t, <2>1, <2>4, <2>5 DEF Counted, InternalJobFinished, TypeOK
<1>13. ASSUME NEW s \in Sessions, CaptureTask(s) PROVE Counted'
    <2>1. TaskUnchanged
        BY <1>13 DEF CaptureTask, TaskFails, TaskArms, TaskStops, TaskChecksStop,
            TaskPublishes, TaskReports
    <2>2. SameTasks
        BY <1>13 DEF CaptureTask, TaskFails, TaskArms, TaskStops, TaskChecksStop,
            TaskPublishes, TaskReports, TaskSends, LiveTasks, TaskLive, TypeOK
    <2>3. SameSlots /\ SameWork
        BY <2>1 DEF TaskUnchanged, Slots, Counted, LiveDecodes, LiveCompares, WorkerLive
    <2> QED BY <2>1, <2>2, <2>3 DEF TaskUnchanged, Counted
<1>14. ASSUME NEW j \in Jobs, JobWorker(j) PROVE Counted'
    <2>1. WorkerUnchanged
        BY <1>14 DEF JobWorker, WorkerOpens, WorkerFails, WorkerCommits
    <2>2. PICK st \in {"decoding", "ok", "err"} :
            work' = [work EXCEPT ![j] = [st |-> st, key |-> work[j].key]]
        BY <1>14 DEF JobWorker, WorkerOpens, WorkerFails, WorkerCommits, WorkerAt
    <2>3. WorkerLive(j)
        BY <1>14 DEF JobWorker, WorkerOpens, WorkerFails, WorkerCommits, WorkerLive
    <2>4. SameWork
        BY <2>2, <2>3 DEF LiveDecodes, LiveCompares, WorkerLive, TypeOK
    <2>5. SameSlots /\ SameTasks
        BY <2>1 DEF WorkerUnchanged, Slots, Counted, LiveTasks, TaskLive
    <2> QED BY <2>1, <2>4, <2>5 DEF WorkerUnchanged, Counted
<1>15. CASE UNCHANGED vars
    BY <1>15 DEF vars, Counted, Slots, LiveTasks, TaskLive, LiveDecodes, LiveCompares, WorkerLive
<1> QED
    BY <1>1, <1>2, <1>3, <1>4, <1>5, <1>6, <1>7, <1>8, <1>9, <1>10, <1>11, <1>12,
       <1>13, <1>14, <1>15 DEF Next, Client, Internal

\* Every step leaves every queued or running job with someone to finish it.
LEMMA ServedStep ==
    TypeOK /\ Lifecycle /\ DecodeJobOwned /\ WorkerOwned /\ QueuedIsServed /\ [Next]_vars => QueuedIsServed'
<1> SUFFICES ASSUME TypeOK, Lifecycle, DecodeJobOwned, WorkerOwned, QueuedIsServed, [Next]_vars
             PROVE  QueuedIsServed'
    OBVIOUS
<1> USE IdAssumption DEF QueuedIsServed, BusyPhases, WorkerLive, TaskLive, Lifecycle,
        DecodeJobOwned, WorkerOwned, Capturing, TypeOK, sessionVars, counters, taskVars, storeVars
<1>1. ASSUME NEW s \in Sessions, HandleStart(s) PROVE QueuedIsServed'
    BY <1>1 DEF HandleStart
<1>2. ASSUME NEW s \in Sessions, HandleSnapshot(s) PROVE QueuedIsServed'
    BY <1>2 DEF HandleSnapshot, FreshJobs
<1>3. ASSUME NEW s \in Sessions, HandleSnapshotUnsaved(s) PROVE QueuedIsServed'
    BY <1>3 DEF HandleSnapshotUnsaved, FreshJobs
<1>4. ASSUME NEW s \in Sessions, HandleCancelSession(s) PROVE QueuedIsServed'
    BY <1>4 DEF HandleCancelSession
<1>5. ASSUME NEW s \in Sessions, HandlePrune(s) PROVE QueuedIsServed'
    BY <1>5 DEF HandlePrune
<1>6. ASSUME NEW s \in Sessions, NEW d \in Details, HandleDecode(s, d) PROVE QueuedIsServed'
    BY <1>6 DEF HandleDecode, FreshJobs
<1>7. ASSUME NEW b \in Sessions, NEW c \in Sessions, HandleCompare(b, c) PROVE QueuedIsServed'
    BY <1>7 DEF HandleCompare, FreshJobs
<1>8. ASSUME NEW j \in Jobs, HandleCancelJob(j) PROVE QueuedIsServed'
    BY <1>8 DEF HandleCancelJob, JobIn
<1>9. ASSUME NEW s \in Sessions, InternalArmed(s) PROVE QueuedIsServed'
    BY <1>9 DEF InternalArmed
<1>10. ASSUME NEW s \in Sessions, InternalFailed(s) PROVE QueuedIsServed'
    BY <1>10 DEF InternalFailed, CloseSession, CancelQueuedSessionJob, JobIn
<1>11. ASSUME NEW s \in Sessions, InternalPublishedBlocked(s) PROVE QueuedIsServed'
    BY <1>11 DEF InternalPublishedBlocked, CloseSession, CancelQueuedSessionJob, JobIn
<1>12. ASSUME NEW s \in Sessions, InternalPublished(s) PROVE QueuedIsServed'
    BY <1>12 DEF InternalPublished, FreshJobs
<1>13. ASSUME NEW j \in Jobs, InternalJobFinished(j) PROVE QueuedIsServed'
    BY <1>13 DEF InternalJobFinished, JobIn, WorkerAt
<1>14. ASSUME NEW s \in Sessions, CaptureTask(s) PROVE QueuedIsServed'
    <2>1. \A t \in Sessions : TaskLive(t) => TaskLive(t)'
        BY <1>14 DEF CaptureTask, TaskFails, TaskArms, TaskStops, TaskChecksStop,
            TaskPublishes, TaskReports, TaskSends
    <2>2. UNCHANGED <<jobs, work, decodeJob>>
        BY <1>14 DEF CaptureTask, TaskFails, TaskArms, TaskStops, TaskChecksStop,
            TaskPublishes, TaskReports, TaskUnchanged
    <2> QED BY <2>1, <2>2
<1>15. ASSUME NEW j \in Jobs, JobWorker(j) PROVE QueuedIsServed'
    BY <1>15 DEF JobWorker, WorkerOpens, WorkerFails, WorkerCommits, WorkerAt, WorkerUnchanged
<1>16. CASE UNCHANGED vars
    BY <1>16 DEF vars
<1> QED
    BY <1>1, <1>2, <1>3, <1>4, <1>5, <1>6, <1>7, <1>8, <1>9, <1>10, <1>11, <1>12, <1>13, <1>14,
       <1>15, <1>16 DEF Next, Client, Internal

\* Every step leaves captured sessions with their snapshot and their job.
LEMMA CompleteStep ==
    TypeOK /\ Lifecycle /\ DecodeJobOwned /\ CapturedIsComplete /\ [Next]_vars => CapturedIsComplete'
<1> SUFFICES ASSUME TypeOK, Lifecycle, DecodeJobOwned, CapturedIsComplete, [Next]_vars
             PROVE  CapturedIsComplete'
    OBVIOUS
<1> USE IdAssumption DEF CapturedIsComplete, Lifecycle, DecodeJobOwned, TaskLive,
        Capturing, TypeOK, sessionVars, counters, taskVars, storeVars
<1>1. ASSUME NEW s \in Sessions, HandleStart(s) PROVE CapturedIsComplete'
    BY <1>1 DEF HandleStart
<1>2. ASSUME NEW s \in Sessions, HandleSnapshot(s) PROVE CapturedIsComplete'
    BY <1>2 DEF HandleSnapshot, FreshJobs
<1>3. ASSUME NEW s \in Sessions, HandleSnapshotUnsaved(s) PROVE CapturedIsComplete'
    BY <1>3 DEF HandleSnapshotUnsaved, FreshJobs
<1>4. ASSUME NEW s \in Sessions, HandleCancelSession(s) PROVE CapturedIsComplete'
    BY <1>4 DEF HandleCancelSession
<1>5. ASSUME NEW s \in Sessions, HandlePrune(s) PROVE CapturedIsComplete'
    BY <1>5 DEF HandlePrune
<1>6. ASSUME NEW s \in Sessions, NEW d \in Details, HandleDecode(s, d) PROVE CapturedIsComplete'
    BY <1>6 DEF HandleDecode, FreshJobs
<1>7. ASSUME NEW b \in Sessions, NEW c \in Sessions, HandleCompare(b, c) PROVE CapturedIsComplete'
    BY <1>7 DEF HandleCompare, FreshJobs
<1>8. ASSUME NEW j \in Jobs, HandleCancelJob(j) PROVE CapturedIsComplete'
    BY <1>8 DEF HandleCancelJob, JobIn
<1>9. ASSUME NEW s \in Sessions, InternalArmed(s) PROVE CapturedIsComplete'
    BY <1>9 DEF InternalArmed
<1>10. ASSUME NEW s \in Sessions, InternalFailed(s) PROVE CapturedIsComplete'
    BY <1>10 DEF InternalFailed, CloseSession, CancelQueuedSessionJob, JobIn
<1>11. ASSUME NEW s \in Sessions, InternalPublishedBlocked(s) PROVE CapturedIsComplete'
    BY <1>11 DEF InternalPublishedBlocked, CloseSession, CancelQueuedSessionJob, JobIn
<1>12. ASSUME NEW s \in Sessions, InternalPublished(s) PROVE CapturedIsComplete'
    BY <1>12 DEF InternalPublished, FreshJobs
<1>13. ASSUME NEW j \in Jobs, InternalJobFinished(j) PROVE CapturedIsComplete'
    BY <1>13 DEF InternalJobFinished, JobIn, WorkerAt
<1>14. ASSUME NEW s \in Sessions, CaptureTask(s) PROVE CapturedIsComplete'
    BY <1>14 DEF CaptureTask, TaskFails, TaskArms, TaskStops, TaskChecksStop,
        TaskPublishes, TaskReports, TaskSends, TaskUnchanged
<1>15. ASSUME NEW j \in Jobs, JobWorker(j) PROVE CapturedIsComplete'
    BY <1>15 DEF JobWorker, WorkerOpens, WorkerFails, WorkerCommits, WorkerAt, WorkerUnchanged
<1>16. CASE UNCHANGED vars
    BY <1>16 DEF vars
<1> QED
    BY <1>1, <1>2, <1>3, <1>4, <1>5, <1>6, <1>7, <1>8, <1>9, <1>10, <1>11, <1>12, <1>13, <1>14,
       <1>15, <1>16 DEF Next, Client, Internal

-----------------------------------------------------------------------------
(***************************************************************************)
(* The theorems.                                                           *)
(***************************************************************************)
\* The conjunction is inductive.
LEMMA Inductive == Spec => []IInv
<1>1. Init => IInv
    <2> SUFFICES ASSUME Init PROVE IInv
        OBVIOUS
    <2>1. TypeOK
        BY DEF Init, TypeOK, Phases, JobRecord, NoRecord, JobPhases, JobKinds, Worker,
            WorkStates, TaskStates, NoKey
    <2>2. Structure
        BY IdAssumption DEF Init, Structure, Lifecycle, DecodeJobOwned, WorkerOwned,
            NoRecord, TaskLive, Capturing
    <2>3. Slots = {} /\ LiveTasks = {} /\ LiveDecodes = {} /\ LiveCompares = {}
        BY DEF Init, Slots, LiveTasks, TaskLive, LiveDecodes, LiveCompares, WorkerLive
    <2>4. Counted
        BY <2>3, FS_EmptySet, LimitAssumption DEF Init, Counted, Capturing
    <2>5. QueuedIsServed /\ CapturedIsComplete
        BY DEF Init, QueuedIsServed, CapturedIsComplete, NoRecord, BusyPhases
    <2> QED BY <2>1, <2>2, <2>4, <2>5 DEF IInv
<1>2. IInv /\ [Next]_vars => IInv'
    BY TypeStep, LifecycleStep, DecodeJobStep, WorkerStep, CountedStep, ServedStep,
       CompleteStep DEF IInv, Structure
<1> QED BY <1>1, <1>2, PTL DEF Spec

\* However cancel, failure and publication interleave, a capture slot is held
\* exactly while the session captures and is given back once.
THEOREM SlotsAccounted == Spec => []SlotAccounting
<1>1. IInv => SlotAccounting
    BY DEF IInv, Counted, Slots, SlotAccounting
<1> QED BY <1>1, Inductive, PTL

\* reserved_decode is the number of capture tasks not yet closed.
THEOREM ReservationsAccounted == Spec => []ReservationAccounting
<1>1. IInv => ReservationAccounting
    BY DEF IInv, Counted, LiveTasks, ReservationAccounting
<1> QED BY <1>1, Inductive, PTL

\* running_decode and pending_expensive are the numbers of live workers.
THEOREM WorkersAccounted == Spec => []WorkerAccounting
<1>1. IInv => WorkerAccounting
    BY DEF IInv, Counted, LiveDecodes, LiveCompares, WorkerAccounting
<1> QED BY <1>1, Inductive, PTL

\* All four counters and the slots are what they count.
THEOREM CountersAccounted == Spec => []Accounting
BY SlotsAccounted, ReservationsAccounted, WorkersAccounted, PTL DEF Accounting

\* The limits bound captures, recorders and compare workers, also when
\* sessions are cancelled while their recorder is still running.
THEOREM RecordersAreBounded == Spec => []RecordersBounded
<1>1. IInv => RecordersBounded
    <2> SUFFICES ASSUME IInv PROVE RecordersBounded
        OBVIOUS
    <2>1. {s \in Sessions : phase[s] \in Capturing} = Slots
        BY DEF IInv, Counted, Slots
    <2> QED BY <2>1 DEF IInv, Counted, LiveTasks, LiveCompares, RecordersBounded
<1> QED BY <1>1, Inductive, PTL

\* A captured session has a snapshot on disk and a job to poll.
THEOREM CapturedComplete == Spec => []CapturedIsComplete
<1>1. IInv => CapturedIsComplete
    BY DEF IInv
<1> QED BY <1>1, Inductive, PTL

\* No queued or running job is abandoned.
THEOREM QueuedServed == Spec => []QueuedIsServed
<1>1. IInv => QueuedIsServed
    BY DEF IInv
<1> QED BY <1>1, Inductive, PTL

\* A session's outcome never changes.
THEOREM EndedFinal == Spec => EndedIsFinal
<1> DEFINE Keeps == \A s \in Sessions : phase[s] \in Ended => phase'[s] = phase[s]
<1>1. IInv /\ [Next]_vars => [Keeps]_vars
    <2> SUFFICES ASSUME IInv, Next PROVE Keeps
        OBVIOUS
    <2> USE DEF IInv, TypeOK, Structure, Lifecycle, TaskLive, Ended, Capturing, sessionVars
    <2>1. CASE Client
        BY <2>1 DEF Client, HandleStart, HandleSnapshot, HandleSnapshotUnsaved,
            HandleCancelSession, HandlePrune, HandleDecode, HandleCompare, HandleCancelJob
    <2>2. CASE Internal
        BY <2>2 DEF Internal, InternalArmed, InternalFailed, InternalPublishedBlocked,
            InternalPublished, InternalJobFinished
    <2>3. ASSUME NEW s \in Sessions, CaptureTask(s) PROVE Keeps
        BY <2>3 DEF CaptureTask, TaskFails, TaskArms, TaskStops, TaskChecksStop,
            TaskPublishes, TaskReports, TaskUnchanged
    <2>4. ASSUME NEW j \in Jobs, JobWorker(j) PROVE Keeps
        BY <2>4 DEF JobWorker, WorkerOpens, WorkerFails, WorkerCommits, WorkerUnchanged
    <2> QED BY <2>1, <2>2, <2>3, <2>4 DEF Next
<1> QED BY <1>1, Inductive, PTL DEF Spec, EndedIsFinal

-----------------------------------------------------------------------------
(***************************************************************************)
(* Results on disk.                                                        *)
(***************************************************************************)
\* A snapshot is there from its rename on.  A worker and its record name the
\* same snapshot, and what a worker or a record calls done was committed under
\* it, unless the snapshot was pruned since.
OnDisk ==
    /\ \A s \in Sessions :
          task[s] \in {"none", "starting", "recording", "finishing", "harvesting", "sealed"}
              => snapDir[s] = "absent"
    /\ \A j \in Jobs : WorkerLive(j) =>
          /\ IsDecode(work[j].key) => /\ work[j].key[2] \in Sessions
                                      /\ jobs[j].snap = work[j].key[2]
                                      /\ snapDir[work[j].key[2]] # "absent"
          /\ ~IsDecode(work[j].key) => jobs[j].snap = None
    /\ \A j \in Jobs : work[j].st = "ok" /\ IsDecode(work[j].key)
          /\ snapDir[work[j].key[2]] = "published" => j \in derived[work[j].key[2]]
    /\ \A j \in Jobs : jobs[j].phase = "succeeded" /\ jobs[j].snap # None =>
          /\ snapDir[jobs[j].snap] # "absent"
          /\ snapDir[jobs[j].snap] = "published" => j \in derived[jobs[j].snap]

\* What the constructors of keys build.
LEMMA KeyParts ==
    /\ \A s \in Sessions, d \in Details : IsDecode(DecodeKey(s, d)) /\ DecodeKey(s, d)[2] = s
    /\ \A b \in Sessions, c \in Sessions : ~IsDecode(CompareKey(b, c))
<1>1. ASSUME NEW s \in Sessions, NEW d \in Details
      PROVE  IsDecode(DecodeKey(s, d)) /\ DecodeKey(s, d)[2] = s
    BY DEF DecodeKey, IsDecode
<1>2. ASSUME NEW b \in Sessions, NEW c \in Sessions
      PROVE  ~IsDecode(CompareKey(b, c))
  <2>1. CompareKey(b, c)[1] = "compare"
    BY DEF CompareKey
  <2> QED BY <2>1, Zenon DEF IsDecode
<1> QED BY <1>1, <1>2

\* Every step keeps records, workers and the store together.
LEMMA OnDiskStep == IInv /\ OnDisk /\ [Next]_vars => OnDisk'
<1> SUFFICES ASSUME TypeOK, Lifecycle, DecodeJobOwned, WorkerOwned, OnDisk, [Next]_vars PROVE OnDisk'
    BY DEF IInv, Structure
<1> USE IdAssumption DEF OnDisk, WorkerOwned, WorkerLive, sessionVars, counters, taskVars, storeVars, TypeOK
<1>1. ASSUME NEW s \in Sessions, HandleStart(s) PROVE OnDisk'
    BY <1>1 DEF HandleStart, Lifecycle
<1>2. ASSUME NEW s \in Sessions, HandleSnapshot(s) PROVE OnDisk'
    BY <1>2 DEF HandleSnapshot, FreshJobs
<1>3. ASSUME NEW s \in Sessions, HandleSnapshotUnsaved(s) PROVE OnDisk'
    BY <1>3 DEF HandleSnapshotUnsaved, FreshJobs
<1>4. ASSUME NEW s \in Sessions, HandleCancelSession(s) PROVE OnDisk'
    BY <1>4 DEF HandleCancelSession
<1>5. ASSUME NEW s \in Sessions, HandlePrune(s) PROVE OnDisk'
    BY <1>5 DEF HandlePrune
<1>6. ASSUME NEW s \in Sessions, NEW d \in Details, HandleDecode(s, d) PROVE OnDisk'
    BY <1>6, KeyParts DEF HandleDecode, FreshJobs
<1>7. ASSUME NEW b \in Sessions, NEW c \in Sessions, HandleCompare(b, c) PROVE OnDisk'
    BY <1>7, KeyParts DEF HandleCompare, FreshJobs
<1>8. ASSUME NEW j \in Jobs, HandleCancelJob(j) PROVE OnDisk'
    BY <1>8 DEF HandleCancelJob, JobIn
<1>9. ASSUME NEW s \in Sessions, InternalArmed(s) PROVE OnDisk'
    BY <1>9 DEF InternalArmed
<1>10. ASSUME NEW s \in Sessions, InternalFailed(s) PROVE OnDisk'
    BY <1>10 DEF InternalFailed, CloseSession, CancelQueuedSessionJob, JobIn
<1>11. ASSUME NEW s \in Sessions, InternalPublishedBlocked(s) PROVE OnDisk'
    BY <1>11 DEF InternalPublishedBlocked, CloseSession, CancelQueuedSessionJob, JobIn
<1>12. ASSUME NEW s \in Sessions, InternalPublished(s) PROVE OnDisk'
    BY <1>12, KeyParts, DetailAssumption DEF InternalPublished, FreshJobs, Lifecycle, DecodeJobOwned
<1>13. ASSUME NEW j \in Jobs, InternalJobFinished(j) PROVE OnDisk'
    BY <1>13 DEF InternalJobFinished, JobIn, WorkerAt
<1>14. ASSUME NEW s \in Sessions, CaptureTask(s) PROVE OnDisk'
    <2>1. UNCHANGED <<jobs, work, derived>>
        BY <1>14 DEF CaptureTask, TaskFails, TaskArms, TaskStops, TaskChecksStop,
            TaskPublishes, TaskReports, TaskUnchanged
    <2>2. CASE TaskPublishes(s)
        BY <2>1, <2>2 DEF TaskPublishes
    <2>3. CASE ~TaskPublishes(s)
        <3>1. UNCHANGED snapDir
            BY <1>14, <2>3 DEF CaptureTask, TaskFails, TaskArms, TaskStops, TaskChecksStop, TaskReports
        <3>2. \A t \in Sessions : task'[t] \in {"none", "starting", "recording", "finishing", "harvesting", "sealed"}
                => task[t] \in {"none", "starting", "recording", "finishing", "harvesting", "sealed"}
            BY <1>14, <2>3 DEF CaptureTask, TaskFails, TaskArms, TaskStops, TaskChecksStop,
                TaskReports, TaskSends
        <3> QED BY <2>1, <3>1, <3>2
    <2> QED BY <2>2, <2>3
<1>15. ASSUME NEW j \in Jobs, JobWorker(j) PROVE OnDisk'
    <2>1. CASE WorkerOpens(j)
        BY <2>1 DEF WorkerOpens, WorkerAt, WorkerUnchanged
    <2>2. CASE WorkerFails(j)
        BY <2>2 DEF WorkerFails, WorkerAt, WorkerUnchanged
    <2>3. CASE WorkerCommits(j)
        <3>1. UNCHANGED <<task, jobs>> /\ work' = [work EXCEPT ![j] = WorkerAt(j, "ok")]
            BY <2>3 DEF WorkerCommits, WorkerUnchanged
        <3>2. CASE ~IsDecode(work[j].key)
            BY <2>3, <3>1, <3>2 DEF WorkerCommits, WorkerAt
        <3>3. CASE IsDecode(work[j].key)
            <4> DEFINE s == work[j].key[2]
            <4>1. /\ s \in Sessions /\ jobs[j].snap = s
                  /\ derived' = [derived EXCEPT ![s] = @ \union {j}]
                  /\ snapDir' = [snapDir EXCEPT ![s] = IF @ = "removed" THEN "husk" ELSE @]
                BY <2>3, <3>3 DEF WorkerCommits
            <4> HIDE DEF s
            <4>2. \A x \in Jobs : /\ work'[x].key = work[x].key
                                  /\ x # j => work'[x].st = work[x].st
                BY <3>1 DEF WorkerAt
            <4>3. \A x \in Sessions : /\ snapDir'[x] = "absent" <=> snapDir[x] = "absent"
                                      /\ snapDir'[x] = "published" => snapDir[x] = "published"
                                      /\ derived[x] \subseteq derived'[x]
                BY <4>1
            <4>4. work[j].key[2] = s /\ j \in derived'[s]
                BY <4>1 DEF s
            <4>5. \A x \in Jobs : WorkerLive(x)' => WorkerLive(x)
                BY <2>3, <4>2 DEF WorkerCommits
            <4> QED BY <3>1, <4>1, <4>2, <4>3, <4>4, <4>5
        <3> QED BY <3>2, <3>3
    <2> QED BY <1>15, <2>1, <2>2, <2>3 DEF JobWorker
<1>16. CASE UNCHANGED vars
    BY <1>16 DEF vars
<1> HIDE DEF OnDisk, WorkerOwned, WorkerLive, TypeOK
<1> QED
    BY <1>1, <1>2, <1>3, <1>4, <1>5, <1>6, <1>7, <1>8, <1>9, <1>10, <1>11, <1>12, <1>13, <1>14,
       <1>15, <1>16 DEF Next, Client, Internal

\* What a client is told succeeded can be read: the analysis is under its
\* snapshot, whatever was cancelled, pruned or decoded again meanwhile.
THEOREM SucceededKept == Spec => []SucceededIsOnDisk
<1>1. Init => OnDisk
    BY DEF Init, OnDisk, WorkerLive, NoRecord
<1>2. OnDisk => SucceededIsOnDisk
    BY DEF OnDisk, SucceededIsOnDisk
<1> QED BY <1>1, <1>2, OnDiskStep, Inductive, PTL DEF Spec

-----------------------------------------------------------------------------
(***************************************************************************)
(* The coordinator implements SessionService.                              *)
(***************************************************************************)
\* A session that does not begin or end and a snapshot that does not appear
\* are a stuttering step of the service.
LEMMA ServiceStutters ==
    ASSUME TypeOK,
           \A s \in Sessions : \/ phase'[s] = phase[s]
                               \/ phase[s] \in Capturing /\ phase'[s] \in Capturing,
           \A s \in Sessions : snapDir'[s] = "absent" <=> snapDir[s] = "absent"
    PROVE  UNCHANGED Service!vars
BY DEF Service!vars, TypeOK

\* A session that leaves the capturing phases with an outcome is an End step.
LEMMA ServiceEnds ==
    ASSUME TypeOK, NEW s \in Sessions, NEW o \in Ended, phase[s] \in Capturing,
           phase' = [phase EXCEPT ![s] = o], UNCHANGED snapDir,
           o = "captured" => snapDir[s] # "absent"
    PROVE  Service!Next
<1>1. o \in Service!Outcomes /\ o \notin Capturing
    BY DEF Service!Outcomes, Ended, Capturing
<1>2. [x \in Sessions |-> IF phase'[x] \in Capturing THEN "capturing" ELSE phase'[x]]
        = [[x \in Sessions |-> IF phase[x] \in Capturing THEN "capturing" ELSE phase[x]]
              EXCEPT ![s] = o]
    BY <1>1 DEF TypeOK
<1>3. Service!End(s, o)
    BY <1>2 DEF Service!End
<1> QED BY <1>1, <1>3 DEF Service!Next

\* Every step of the coordinator is one of the service or none.
LEMMA ServiceStep == IInv /\ [Next]_vars => [Service!Next]_(Service!vars)
<1> SUFFICES ASSUME IInv, [Next]_vars PROVE Service!Next \/ UNCHANGED Service!vars
    OBVIOUS
<1>0. TypeOK /\ Lifecycle
    BY DEF IInv, Structure
<1>1. ASSUME NEW s \in Sessions, HandleStart(s) PROVE Service!Next
    <2>1. {x \in Sessions :
              [y \in Sessions |-> IF phase[y] \in Capturing THEN "capturing" ELSE phase[y]][x]
                 = "capturing"} = Slots
        BY <1>0 DEF IInv, Counted, Slots, TypeOK, Phases, Capturing, Ended
    <2>2. Cardinality(Slots) < MaxActiveCaptures
        BY <1>1 DEF HandleStart, IInv, Counted
    <2>3. [x \in Sessions |-> IF phase'[x] \in Capturing THEN "capturing" ELSE phase'[x]]
        = [[x \in Sessions |-> IF phase[x] \in Capturing THEN "capturing" ELSE phase[x]]
              EXCEPT ![s] = "capturing"]
        BY <1>0, <1>1 DEF HandleStart, TypeOK, Capturing
    <2>4. \A S : Service!Cardinality(S) = Cardinality(S)
        BY DEF Cardinality, Service!Cardinality
    <2>5. Service!Begin(s)
        BY <1>0, <1>1, <2>1, <2>2, <2>3, <2>4 DEF HandleStart, Service!Begin, storeVars, Capturing
    <2> QED BY <2>5 DEF Service!Next
<1>2. ASSUME NEW s \in Sessions, HandleCancelSession(s) PROVE Service!Next
    BY <1>0, <1>2, ServiceEnds DEF HandleCancelSession, storeVars, Ended
<1>3. CASE \E s \in Sessions : \/ HandleSnapshot(s) \/ HandleSnapshotUnsaved(s)
                               \/ HandlePrune(s)
                               \/ \E d \in Details : HandleDecode(s, d)
                               \/ \E c \in Sessions : HandleCompare(s, c)
    BY <1>0, <1>3, ServiceStutters DEF HandleSnapshot, HandleSnapshotUnsaved, HandlePrune,
        HandleDecode, HandleCompare, sessionVars, storeVars, Capturing, TypeOK
<1>4. ASSUME NEW j \in Jobs, HandleCancelJob(j) \/ InternalJobFinished(j)
      PROVE  UNCHANGED Service!vars
    BY <1>0, <1>4, ServiceStutters DEF HandleCancelJob, InternalJobFinished, sessionVars,
        storeVars
<1>5. ASSUME NEW s \in Sessions, InternalArmed(s) \/ InternalPublishedBlocked(s)
      PROVE  UNCHANGED Service!vars
    BY <1>0, <1>5, ServiceStutters DEF InternalArmed, InternalPublishedBlocked, CloseSession,
        storeVars, Capturing, TypeOK
<1>6. ASSUME NEW s \in Sessions, InternalFailed(s) \/ InternalPublished(s)
      PROVE  Service!Next \/ UNCHANGED Service!vars
    <2>1. phase[s] \in Capturing \/ phase[s] \in {"cancelled", "failed"}
        BY <1>0, <1>6 DEF InternalFailed, InternalPublished, Lifecycle, TaskLive, TypeOK,
            Phases, Ended
    <2>2. CASE phase[s] \in Capturing
        BY <1>0, <1>6, <2>2, ServiceEnds DEF InternalFailed, InternalPublished, CloseSession,
            storeVars, Ended, Capturing, Lifecycle, TypeOK
    <2>3. CASE phase[s] \in {"cancelled", "failed"}
        BY <1>0, <1>6, <2>3, ServiceStutters DEF InternalFailed, InternalPublished,
            CloseSession, storeVars, TypeOK
    <2> QED BY <2>1, <2>2, <2>3
<1>7. ASSUME NEW s \in Sessions, TaskPublishes(s) PROVE Service!Next
    <2>1. phase[s] # "none" /\ UNCHANGED phase
        BY <1>0, <1>7 DEF TaskPublishes, TaskUnchanged, sessionVars, Lifecycle
    <2>2. {x \in Sessions : snapDir'[x] # "absent"}
            = {x \in Sessions : snapDir[x] # "absent"} \union {s}
        BY <1>0, <1>7 DEF TaskPublishes, TypeOK
    <2>3. Service!Save(s)
        BY <2>1, <2>2 DEF Service!Save, Capturing
    <2> QED BY <2>3 DEF Service!Next
<1>8. ASSUME NEW s \in Sessions, CaptureTask(s), ~TaskPublishes(s)
      PROVE  UNCHANGED Service!vars
    BY <1>0, <1>8, ServiceStutters DEF CaptureTask, TaskFails, TaskArms, TaskStops,
        TaskChecksStop, TaskReports, TaskUnchanged, sessionVars
<1>9. ASSUME NEW j \in Jobs, JobWorker(j) PROVE UNCHANGED Service!vars
    <2>1. UNCHANGED phase
        BY <1>9 DEF JobWorker, WorkerOpens, WorkerFails, WorkerCommits, WorkerUnchanged,
            sessionVars
    <2>2. \A s \in Sessions : snapDir'[s] = "absent" <=> snapDir[s] = "absent"
        BY <1>0, <1>9 DEF JobWorker, WorkerOpens, WorkerFails, WorkerCommits, storeVars, TypeOK
    <2> QED BY <1>0, <2>1, <2>2, ServiceStutters
<1>10. CASE UNCHANGED vars
    BY <1>0, <1>10, ServiceStutters DEF vars
<1> QED BY <1>1, <1>2, <1>3, <1>4, <1>5, <1>6, <1>7, <1>8, <1>9, <1>10
        DEF Next, Client, Internal

\* For any sessions, jobs and limits, the coordinator with its capture tasks
\* and workers implements the service its clients are promised.
THEOREM CoordinatorImplementsService == Spec => ImplementsService
<1>1. Init => Service!Init
    BY DEF Init, Service!Init, Capturing
<1> QED BY <1>1, Inductive, ServiceStep, PTL DEF Spec, ImplementsService, Service!Spec

=============================================================================
