---------------------------- MODULE Coordinator ----------------------------
(***************************************************************************)
(* The coordinator of trace-mcp (src/src/service.rs): one task owns the    *)
(* session table, the job table, the analysis cache and the four admission *)
(* counters, and serves tool calls and internal events one at a time.      *)
(* Around it run, concurrently and unsynchronised with it,                 *)
(*   - one capture task per started session (capture_task), which talks    *)
(*     back with Armed, then Failed or Published, and is told to stop      *)
(*     through a watch channel;                                            *)
(*   - one blocking worker per decode or compare job (decode_job,          *)
(*     compare_job), which reports JobFinished.                            *)
(* A request that is refused (validation, Busy, NotFound, store budget)    *)
(* changes nothing and is a stuttering step.                               *)
(*                                                                         *)
(* Naming of ids.  handle_start generates the session id and its snapshot  *)
(* id together and enters by_request and sessions in one step, so one      *)
(* element of Sessions stands for a request id, its session and the        *)
(* session's snapshot; a retried start finds the session and stutters.     *)
(* Every worker generates its own analysis id, so a job also names the     *)
(* analysis it produces.                                                   *)
(***************************************************************************)
EXTENDS Naturals, FiniteSets

CONSTANTS Sessions,             \* request / session / snapshot ids
          Jobs,                 \* job ids, and the analysis ids of decode jobs
          None,                 \* Option::None for ids
          Details,              \* decode variants a client asks for
          MaxActiveCaptures,    \* Limits.max_active_captures
          MaxDecodeJobs,        \* Limits.max_decode_jobs
          MaxPendingExpensive   \* Limits.max_pending_expensive

ASSUME IdAssumption ==
    /\ IsFiniteSet(Sessions)
    /\ IsFiniteSet(Jobs)
    /\ None \notin Sessions \union Jobs

ASSUME LimitAssumption ==
    /\ MaxActiveCaptures \in Nat
    /\ MaxDecodeJobs \in Nat
    /\ MaxPendingExpensive \in Nat

ASSUME DetailAssumption ==
    /\ "calls" \in Details
    /\ Details \subseteq {"calls", "fast", "instructions"}

VARIABLES
    phase,             \* Session.phase; "none" before handle_start
    slotHeld,          \* Session.slot_held
    decodeJob,         \* Session.decode_job
    stop,              \* last value sent on the session's watch channel
    jobs,              \* Coord.jobs
    cacheJobs,         \* Coord.cache_jobs
    activeCaptures, runningDecode, pendingExpensive, reservedDecode,
    task,              \* program counter of capture_task
    armedMsg,          \* an Armed event of the session is in the queue
    finalMsg,          \* its Failed or Published event is in the queue
    work,              \* the worker spawned for a job and the key it works on
    snapDir,           \* snapshots/<id>: absent, published, removed, husk
    derived            \* analyses present under snapshots/<id>/derived

sessionVars == <<phase, slotHeld, decodeJob, stop>>
counters    == <<activeCaptures, runningDecode, pendingExpensive, reservedDecode>>
taskVars    == <<task, armedMsg, finalMsg>>
storeVars   == <<snapDir, derived>>
vars == <<phase, slotHeld, decodeJob, stop, jobs, cacheJobs, activeCaptures,
          runningDecode, pendingExpensive, reservedDecode, task,
          armedMsg, finalMsg, work, snapDir, derived>>

-----------------------------------------------------------------------------
\* SessionPhase, with "none" for a session that was not started.
Capturing == {"starting", "armed", "finalizing"}
Ended     == {"captured", "failed", "cancelled"}
Phases    == {"none"} \union Capturing \union Ended

\* JobPhase, with "none" for an id that was not generated.
BusyPhases == {"queued", "running"}
JobPhases  == {"none", "succeeded", "failed", "cancelled"} \union BusyPhases
JobKinds   == {"initial", "instructions", "compare"}

\* JobRecord; a compare job names no snapshot, a job queued by
\* handle_snapshot has no analysis id yet.
JobRecord == [phase : JobPhases, kind : JobKinds, snap : Sessions \union {None},
              aid : BOOLEAN]
NoRecord  == [phase |-> "none", kind |-> "initial", snap |-> None, aid |-> FALSE]

\* decode_cache_key and handle_compare's cache key: which result a job computes.
DecodeKeys  == {"decode"} \X Sessions \X Details
CompareKeys == {"compare"} \X Sessions \X Sessions
Keys        == DecodeKeys \union CompareKeys
DecodeKey(s, d)  == <<"decode", s, d>>
CompareKey(b, c) == <<"compare", b, c>>
NoKey       == <<"none", None, None>>

\* capture_task between its await points and its abort checks.
TaskStates == {"none", "starting", "recording", "finishing", "harvesting",
               "sealed", "renamed", "done"}
WorkStates == {"none", "spawned", "decoding", "ok", "err", "gone"}
Worker     == [st : WorkStates, key : Keys \union {NoKey}]
\* A task that has not delivered its last event; a worker that has not
\* delivered JobFinished.
TaskLive(s)   == task[s] \notin {"none", "done"} \/ finalMsg[s] # "none"
WorkerLive(j) == work[j].st \in {"spawned", "decoding", "ok", "err"}
IsDecode(key)  == key[1] = "decode"
IsCompare(key) == key[1] = "compare"

TypeOK ==
    /\ phase     \in [Sessions -> Phases]
    /\ slotHeld  \in [Sessions -> BOOLEAN]
    /\ decodeJob \in [Sessions -> Jobs \union {None}]
    /\ stop      \in [Sessions -> {"none", "finish", "abort"}]
    /\ jobs      \in [Jobs -> JobRecord]
    /\ cacheJobs \in [Keys -> Jobs \union {None}]
    /\ activeCaptures   \in Nat
    /\ runningDecode    \in Nat
    /\ pendingExpensive \in Nat
    /\ reservedDecode   \in Nat
    /\ task     \in [Sessions -> TaskStates]
    /\ armedMsg \in [Sessions -> BOOLEAN]
    /\ finalMsg \in [Sessions -> {"none", "failed", "published"}]
    /\ work     \in [Jobs -> Worker]
    /\ snapDir  \in [Sessions -> {"absent", "published", "removed", "husk"}]
    /\ derived  \in [Sessions -> SUBSET Jobs]

Init ==
    /\ phase     = [s \in Sessions |-> "none"]
    /\ slotHeld  = [s \in Sessions |-> FALSE]
    /\ decodeJob = [s \in Sessions |-> None]
    /\ stop      = [s \in Sessions |-> "none"]
    /\ jobs      = [j \in Jobs |-> NoRecord]
    /\ cacheJobs = [k \in Keys |-> None]
    /\ activeCaptures = 0 /\ runningDecode = 0
    /\ pendingExpensive = 0 /\ reservedDecode = 0
    /\ task     = [s \in Sessions |-> "none"]
    /\ armedMsg = [s \in Sessions |-> FALSE]
    /\ finalMsg = [s \in Sessions |-> "none"]
    /\ work     = [j \in Jobs |-> [st |-> "none", key |-> NoKey]]
    /\ snapDir  = [s \in Sessions |-> "absent"]
    /\ derived  = [s \in Sessions |-> {}]

-----------------------------------------------------------------------------
(***************************************************************************)
(* Helpers of the handlers.                                                *)
(***************************************************************************)
\* u32::saturating_sub(1)
Pred(n) == IF n = 0 THEN 0 ELSE n - 1

\* Job j's record with its phase, worker j with its state, set to a new value.
JobIn(j, p) == [phase |-> p, kind |-> jobs[j].kind, snap |-> jobs[j].snap,
                aid |-> jobs[j].aid]
WorkerAt(j, st) == [st |-> st, key |-> work[j].key]

\* JobId::generate: an id no record and no session uses yet.
FreshJobs == {j \in Jobs : jobs[j].phase = "none" /\ \A s \in Sessions : decodeJob[s] # j}

\* Bound of the model: client requests leave one id for the initial decode
\* of every session, so that the finite set Jobs never blocks Published.
SpareJobIds ==
    Cardinality(FreshJobs) > Cardinality({s \in Sessions : decodeJob[s] = None})

\* Mutant: the slot is given back on every call, as if slot_held were not kept.
MutReleaseAlways(s) ==
    /\ slotHeld' = [slotHeld EXCEPT ![s] = FALSE]
    /\ activeCaptures' = Pred(activeCaptures)

\* release_capture_slot: hand the slot back exactly once.
ReleaseCaptureSlot(s) ==
    /\ slotHeld' = [slotHeld EXCEPT ![s] = FALSE]
    /\ activeCaptures' = IF slotHeld[s] THEN Pred(activeCaptures) ELSE activeCaptures

\* Mutant: the job queued for the session is forgotten.
MutForgetQueuedJob(s) == jobs

\* cancel_queued_session_job: the job table after a session ended unpublished.
CancelQueuedSessionJob(s) ==
    [j \in Jobs |->
        IF j = decodeJob[s] /\ jobs[j].phase = "queued"
        THEN JobIn(j, "cancelled") ELSE jobs[j]]

\* find_analysis_by_key: the analyses of snapshot s on disk computed for key.
FindAnalysisByKey(s, key) == {j \in derived[s] : work[j].key = key}

\* find_calls_analysis(s) finds one (which one it prefers is not modelled).
HasCallsAnalysis(s) ==
    \E d \in Details \ {"instructions"} : FindAnalysisByKey(s, DecodeKey(s, d)) # {}

\* What handle_decode answers for a published snapshot.  "ready": a manifest
\* with this cache key is on disk; "pending": some job, in whatever phase, was
\* entered in cache_jobs for the key; both carry cached: true (a job there has
\* its analysis id).  "busy": all decode workers are taken.
DecodeReply(s, d) ==
    CASE FindAnalysisByKey(s, DecodeKey(s, d)) # {} -> "ready"
      [] FindAnalysisByKey(s, DecodeKey(s, d)) = {}
            /\ cacheJobs[DecodeKey(s, d)] # None -> "pending"
      [] FindAnalysisByKey(s, DecodeKey(s, d)) = {}
            /\ cacheJobs[DecodeKey(s, d)] = None
            /\ runningDecode >= MaxDecodeJobs -> "busy"
      [] OTHER -> "new"

-----------------------------------------------------------------------------
(***************************************************************************)
(* Tool calls.                                                             *)
(***************************************************************************)
\* Mutant: one capture too many is admitted.
MutStartAdmits(s) ==
    /\ phase[s] = "none"
    /\ activeCaptures <= MaxActiveCaptures
    /\ reservedDecode + pendingExpensive < MaxPendingExpensive
    /\ phase' = [phase EXCEPT ![s] = "starting"]
    /\ slotHeld' = [slotHeld EXCEPT ![s] = TRUE]
    /\ activeCaptures' = activeCaptures + 1
    /\ reservedDecode' = reservedDecode + 1
    /\ task' = [task EXCEPT ![s] = "starting"]
    /\ UNCHANGED <<decodeJob, stop, jobs, cacheJobs, runningDecode,
                   pendingExpensive, armedMsg, finalMsg, work, storeVars>>

\* handle_start, accepted.  The capture slot bounds recordings; the decode
\* reservation guarantees that the initial decode can be queued later.
HandleStart(s) ==
    /\ phase[s] = "none"
    /\ activeCaptures < MaxActiveCaptures
    /\ reservedDecode + pendingExpensive < MaxPendingExpensive
    /\ phase' = [phase EXCEPT ![s] = "starting"]
    /\ slotHeld' = [slotHeld EXCEPT ![s] = TRUE]
    /\ activeCaptures' = activeCaptures + 1
    /\ reservedDecode' = reservedDecode + 1
    /\ task' = [task EXCEPT ![s] = "starting"]
    /\ UNCHANGED <<decodeJob, stop, jobs, cacheJobs, runningDecode,
                   pendingExpensive, armedMsg, finalMsg, work, storeVars>>

\* handle_snapshot on an armed session; the other phases only reply.
HandleSnapshot(s) ==
    /\ phase[s] = "armed"
    /\ \E j \in FreshJobs :
        /\ decodeJob' = [decodeJob EXCEPT ![s] = j]
        /\ jobs' = [jobs EXCEPT ![j] = [phase |-> "queued", kind |-> "initial",
                                        snap |-> s, aid |-> FALSE]]
    /\ phase' = [phase EXCEPT ![s] = "finalizing"]
    /\ stop'  = [stop EXCEPT ![s] = "finish"]
    /\ UNCHANGED <<slotHeld, cacheJobs, counters, taskVars, work, storeVars>>

\* handle_snapshot whose persist_session fails: `?` returns after the session
\* went to Finalizing and before the stop request and the job record.
HandleSnapshotUnsaved(s) ==
    /\ phase[s] = "armed"
    /\ \E j \in FreshJobs : decodeJob' = [decodeJob EXCEPT ![s] = j]
    /\ phase' = [phase EXCEPT ![s] = "finalizing"]
    /\ UNCHANGED <<slotHeld, stop, jobs, cacheJobs, counters, taskVars, work, storeVars>>

\* handle_cancel(Session): the slot is free at once, the reservation only when
\* the capture task has reported.
HandleCancelSession(s) ==
    /\ phase[s] \in Capturing
    /\ phase' = [phase EXCEPT ![s] = "cancelled"]
    /\ stop'  = [stop EXCEPT ![s] = "abort"]
    /\ ReleaseCaptureSlot(s)
    /\ UNCHANGED <<decodeJob, jobs, cacheJobs, runningDecode, pendingExpensive,
                   reservedDecode, taskVars, work, storeVars>>

\* handle_cancel(Job): every phase but Succeeded becomes Cancelled; the worker,
\* if there is one, keeps running.
HandleCancelJob(j) ==
    /\ jobs[j].phase \notin {"none", "succeeded", "cancelled"}
    /\ jobs' = [jobs EXCEPT ![j] = JobIn(j, "cancelled")]
    /\ UNCHANGED <<sessionVars, cacheJobs, counters, taskVars, work, storeVars>>

\* handle_prune of one snapshot id and store.remove_snapshot.
HandlePrune(s) ==
    /\ snapDir[s] \in {"published", "husk"}
    /\ ~ \E j \in Jobs : jobs[j].snap = s /\ jobs[j].phase \in BusyPhases
    /\ phase[s] \notin Capturing
    /\ snapDir' = [snapDir EXCEPT ![s] = "removed"]
    /\ derived' = [derived EXCEPT ![s] = {}]
    /\ cacheJobs' = [k \in Keys |->
            IF cacheJobs[k] # None /\ jobs[cacheJobs[k]].snap = s
            THEN None ELSE cacheJobs[k]]
    /\ UNCHANGED <<sessionVars, jobs, counters, taskVars, work>>

\* handle_decode, when it queues a new job and spawns its worker.
HandleDecode(s, d) ==
    /\ snapDir[s] = "published"
    /\ DecodeReply(s, d) = "new"
    /\ SpareJobIds
    /\ \E j \in FreshJobs :
        /\ jobs' = [jobs EXCEPT ![j] =
              [phase |-> "queued", snap |-> s, aid |-> TRUE,
               kind |-> IF d = "instructions" THEN "instructions" ELSE "initial"]]
        /\ cacheJobs' = [cacheJobs EXCEPT ![DecodeKey(s, d)] = j]
        /\ work' = [work EXCEPT ![j] = [st |-> "spawned", key |-> DecodeKey(s, d)]]
    /\ runningDecode' = runningDecode + 1
    /\ UNCHANGED <<sessionVars, activeCaptures, pendingExpensive, reservedDecode,
                   taskVars, storeVars>>

\* handle_compare, when it queues a new job.  The snapshots are not looked at
\* here and the record names none of them.
HandleCompare(b, c) ==
    /\ cacheJobs[CompareKey(b, c)] = None
    /\ pendingExpensive < MaxPendingExpensive
    /\ SpareJobIds
    /\ \E j \in FreshJobs :
        /\ jobs' = [jobs EXCEPT ![j] = [phase |-> "queued", kind |-> "compare",
                                        snap |-> None, aid |-> FALSE]]
        /\ cacheJobs' = [cacheJobs EXCEPT ![CompareKey(b, c)] = j]
        /\ work' = [work EXCEPT ![j] = [st |-> "spawned", key |-> CompareKey(b, c)]]
    /\ pendingExpensive' = pendingExpensive + 1
    /\ UNCHANGED <<sessionVars, activeCaptures, runningDecode, reservedDecode,
                   taskVars, storeVars>>

-----------------------------------------------------------------------------
(***************************************************************************)
(* handle_internal.  The queue keeps the order of one sender, so a task's  *)
(* last event is handled after its Armed.                                  *)
(***************************************************************************)
InternalArmed(s) ==
    /\ armedMsg[s]
    /\ armedMsg' = [armedMsg EXCEPT ![s] = FALSE]
    /\ phase' = [phase EXCEPT ![s] = IF @ = "starting" THEN "armed" ELSE @]
    /\ UNCHANGED <<slotHeld, decodeJob, stop, jobs, cacheJobs, counters, task,
                   finalMsg, work, storeVars>>

\* Mutant: the reservation is only released by a publication.
MutCloseKeepsReservation(s) ==
    /\ finalMsg' = [finalMsg EXCEPT ![s] = "none"]
    /\ jobs' = CancelQueuedSessionJob(s)
    /\ ReleaseCaptureSlot(s)
    /\ UNCHANGED <<decodeJob, stop, cacheJobs, runningDecode, pendingExpensive,
                   reservedDecode, task, armedMsg, work, storeVars>>

\* The last event of a session that does not become Captured: take the event,
\* cancel the job queued for it, release the slot and the reservation.
CloseSession(s) ==
    /\ finalMsg' = [finalMsg EXCEPT ![s] = "none"]
    /\ jobs' = CancelQueuedSessionJob(s)
    /\ ReleaseCaptureSlot(s)
    /\ reservedDecode' = Pred(reservedDecode)
    /\ UNCHANGED <<decodeJob, stop, cacheJobs, runningDecode, pendingExpensive,
                   task, armedMsg, work, storeVars>>

\* Mutant: a failure reported after a cancel overwrites the phase.
MutFailedOverwrites(s) ==
    /\ finalMsg[s] = "failed" /\ ~armedMsg[s]
    /\ phase' = [phase EXCEPT ![s] = "failed"]
    /\ CloseSession(s)

InternalFailed(s) ==
    /\ finalMsg[s] = "failed" /\ ~armedMsg[s]
    /\ phase' = [phase EXCEPT ![s] = IF @ = "cancelled" THEN @ ELSE "failed"]
    /\ CloseSession(s)

\* Published after the session was cancelled: the snapshot stays on disk, no
\* decode is started.
InternalPublishedBlocked(s) ==
    /\ finalMsg[s] = "published" /\ ~armedMsg[s]
    /\ phase[s] \in {"cancelled", "failed"}
    /\ CloseSession(s)
    /\ UNCHANGED phase

\* Published otherwise: the reservation turns into a running decode of the
\* session's job, whatever that job's record said before.
InternalPublished(s) ==
    /\ finalMsg[s] = "published" /\ ~armedMsg[s]
    /\ phase[s] \notin {"cancelled", "failed"}
    /\ finalMsg' = [finalMsg EXCEPT ![s] = "none"]
    /\ phase' = [phase EXCEPT ![s] = "captured"]
    /\ \E j \in IF decodeJob[s] = None THEN FreshJobs ELSE {decodeJob[s]} :
        /\ decodeJob' = [decodeJob EXCEPT ![s] = j]
        /\ jobs' = [jobs EXCEPT ![j] = [phase |-> "running", kind |-> "initial",
                                        snap |-> s, aid |-> TRUE]]
        /\ work' = [work EXCEPT ![j] = [st |-> "spawned",
                                        key |-> DecodeKey(s, "calls")]]
    /\ ReleaseCaptureSlot(s)
    /\ runningDecode'  = runningDecode + 1
    /\ reservedDecode' = Pred(reservedDecode)
    /\ UNCHANGED <<stop, cacheJobs, pendingExpensive, task, armedMsg, storeVars>>

\* Mutant: every finished job gives back a decode slot.
MutFinishedFreesDecode(j) ==
    /\ work[j].st \in {"ok", "err"}
    /\ work' = [work EXCEPT ![j] = WorkerAt(j, "gone")]
    /\ jobs' = [jobs EXCEPT ![j] =
            JobIn(j, IF work[j].st = "ok" THEN "succeeded" ELSE "failed")]
    /\ runningDecode' = Pred(runningDecode)
    /\ UNCHANGED <<sessionVars, cacheJobs, activeCaptures, reservedDecode,
                   pendingExpensive, taskVars, storeVars>>
\* Mutant: the worker's error is dropped.
MutFinishedSucceeds(j) ==
    /\ work[j].st \in {"ok", "err"}
    /\ work' = [work EXCEPT ![j] = WorkerAt(j, "gone")]
    /\ jobs' = [jobs EXCEPT ![j] = JobIn(j, "succeeded")]
    /\ runningDecode' = IF IsDecode(work[j].key) THEN Pred(runningDecode)
                                                 ELSE runningDecode
    /\ pendingExpensive' = IF IsCompare(work[j].key) THEN Pred(pendingExpensive)
                                                     ELSE pendingExpensive
    /\ UNCHANGED <<sessionVars, cacheJobs, activeCaptures, reservedDecode,
                   taskVars, storeVars>>

\* JobFinished: the worker's own copy of the record replaces the table's.
InternalJobFinished(j) ==
    /\ work[j].st \in {"ok", "err"}
    /\ work' = [work EXCEPT ![j] = WorkerAt(j, "gone")]
    /\ jobs' = [jobs EXCEPT ![j] =
            JobIn(j, IF work[j].st = "ok" THEN "succeeded" ELSE "failed")]
    /\ runningDecode' = IF IsDecode(work[j].key) THEN Pred(runningDecode)
                                                 ELSE runningDecode
    /\ pendingExpensive' = IF IsCompare(work[j].key) THEN Pred(pendingExpensive)
                                                     ELSE pendingExpensive
    /\ UNCHANGED <<sessionVars, cacheJobs, activeCaptures, reservedDecode,
                   taskVars, storeVars>>

-----------------------------------------------------------------------------
(***************************************************************************)
(* capture_task, between the points where it looks at or changes shared    *)
(* state.  Its local `aborted` implies stop = "abort" and is left out.     *)
(***************************************************************************)
TaskUnchanged == UNCHANGED <<sessionVars, jobs, cacheJobs, counters, work, derived>>

\* The spawned future sends the task's outcome.
TaskSends(s, evt) ==
    /\ task' = [task EXCEPT ![s] = "done"]
    /\ finalMsg' = [finalMsg EXCEPT ![s] = evt]

\* An error return: setting up the recorder, writing the rings or stopping the
\* workload, sealing the bundle, or writing the session file after the rename.
TaskFails(s) ==
    /\ task[s] \in {"starting", "finishing", "sealed", "renamed"}
    /\ TaskSends(s, "failed")
    /\ UNCHANGED <<armedMsg, snapDir>> /\ TaskUnchanged

\* The recorder runs: session file says Armed, the Armed event is sent.
TaskArms(s) ==
    /\ task[s] = "starting"
    /\ task' = [task EXCEPT ![s] = "recording"]
    /\ armedMsg' = [armedMsg EXCEPT ![s] = TRUE]
    /\ UNCHANGED <<finalMsg, snapDir>> /\ TaskUnchanged

\* Mutant: the loop has no deadline and waits for a stop request.
MutStopsOnRequest(s) ==
    /\ task[s] = "recording" /\ stop[s] # "none"
    /\ task' = [task EXCEPT ![s] = "finishing"]
    /\ UNCHANGED <<armedMsg, finalMsg, snapDir>> /\ TaskUnchanged

\* The select loop ends: stop request, max_capture_ms, after_ms, trigger, tail
\* or target exit, whichever comes first.
TaskStops(s) ==
    /\ task[s] = "recording"
    /\ task' = [task EXCEPT ![s] = "finishing"]
    /\ UNCHANGED <<armedMsg, finalMsg, snapDir>> /\ TaskUnchanged

\* The two looks at the stop channel, after the recorder stopped and after the
\* images were harvested.
TaskChecksStop(s) ==
    /\ task[s] \in {"finishing", "harvesting"}
    /\ IF stop[s] = "abort"
       THEN TaskSends(s, "failed")
       ELSE /\ task' = [task EXCEPT ![s] =
                            IF @ = "finishing" THEN "harvesting" ELSE "sealed"]
            /\ UNCHANGED finalMsg
    /\ UNCHANGED <<armedMsg, snapDir>> /\ TaskUnchanged

\* rename(staging, snapshots/<id>): the snapshot is visible.
TaskPublishes(s) ==
    /\ task[s] = "sealed"
    /\ task' = [task EXCEPT ![s] = "renamed"]
    /\ snapDir' = [snapDir EXCEPT ![s] = "published"]
    /\ UNCHANGED <<armedMsg, finalMsg>> /\ TaskUnchanged

\* Mutant: success is reported before the bundle is renamed into place.
MutReportsBeforeRename(s) ==
    /\ task[s] = "sealed"
    /\ TaskSends(s, "published")
    /\ UNCHANGED <<armedMsg, snapDir>> /\ TaskUnchanged

TaskReports(s) ==
    /\ task[s] = "renamed"
    /\ TaskSends(s, "published")
    /\ UNCHANGED <<armedMsg, snapDir>> /\ TaskUnchanged

CaptureTask(s) ==
    \/ TaskFails(s) \/ TaskArms(s) \/ TaskStops(s)
    \/ TaskChecksStop(s) \/ TaskPublishes(s) \/ TaskReports(s)

-----------------------------------------------------------------------------
(***************************************************************************)
(* Workers on the blocking pool.                                           *)
(***************************************************************************)
WorkerUnchanged == UNCHANGED <<sessionVars, jobs, cacheJobs, counters, taskVars>>

\* What the worker opens before it computes: the snapshot's manifest (and for
\* instruction detail a calls analysis), or a calls analysis of both sides.
InputsReadable(key) ==
    IF IsDecode(key)
    THEN /\ snapDir[key[2]] = "published"
         /\ key[3] = "instructions" => HasCallsAnalysis(key[2])
    ELSE \A s \in {key[2], key[3]} : snapDir[s] = "published" /\ HasCallsAnalysis(s)

WorkerOpens(j) ==
    /\ work[j].st = "spawned"
    /\ work' = [work EXCEPT ![j] =
            WorkerAt(j, IF InputsReadable(work[j].key) THEN "decoding" ELSE "err")]
    /\ UNCHANGED storeVars /\ WorkerUnchanged

\* A decode, a read or a write failed; the staging directory is removed.
WorkerFails(j) ==
    /\ work[j].st = "decoding"
    /\ work' = [work EXCEPT ![j] = WorkerAt(j, "err")]
    /\ UNCHANGED storeVars /\ WorkerUnchanged

\* decode_job: create_dir_all(snapshots/<id>/derived), then rename the staged
\* analysis into it.  compare_job writes its report elsewhere.
WorkerCommits(j) ==
    /\ work[j].st = "decoding"
    /\ work' = [work EXCEPT ![j] = WorkerAt(j, "ok")]
    /\ IF IsDecode(work[j].key)
       THEN LET s == work[j].key[2] IN
            /\ derived' = [derived EXCEPT ![s] = @ \union {j}]
            /\ snapDir' = [snapDir EXCEPT ![s] = IF @ = "removed" THEN "husk" ELSE @]
       ELSE UNCHANGED storeVars
    /\ WorkerUnchanged

JobWorker(j) == WorkerOpens(j) \/ WorkerFails(j) \/ WorkerCommits(j)

-----------------------------------------------------------------------------
Client ==
    \/ \E s \in Sessions :
        \/ HandleStart(s) \/ HandleSnapshot(s) \/ HandleSnapshotUnsaved(s)
        \/ HandleCancelSession(s) \/ HandlePrune(s)
        \/ \E d \in Details : HandleDecode(s, d)
        \/ \E c \in Sessions : HandleCompare(s, c)
    \/ \E j \in Jobs : HandleCancelJob(j)

Internal ==
    \/ \E s \in Sessions :
        \/ InternalArmed(s) \/ InternalFailed(s)
        \/ InternalPublishedBlocked(s) \/ InternalPublished(s)
    \/ \E j \in Jobs : InternalJobFinished(j)

Next ==
    \/ Client
    \/ Internal
    \/ \E s \in Sessions : CaptureTask(s)
    \/ \E j \in Jobs : JobWorker(j)

Spec == Init /\ [][Next]_vars

\* The runtime polls every task and the coordinator drains its queue.  No
\* client call is promised: a recording ends by itself at max_capture_ms.
Fairness ==
    /\ \A s \in Sessions :
        /\ WF_vars(CaptureTask(s))
        /\ WF_vars(InternalArmed(s))
        /\ WF_vars(InternalFailed(s) \/ InternalPublishedBlocked(s) \/ InternalPublished(s))
    /\ \A j \in Jobs : WF_vars(JobWorker(j)) /\ WF_vars(InternalJobFinished(j))

FairSpec == Spec /\ Fairness

-----------------------------------------------------------------------------
(***************************************************************************)
(* Properties.                                                             *)
(***************************************************************************)
\* A session holds a capture slot exactly while it captures, and
\* active_captures counts the slots held: however cancel, failure and
\* publication of several sessions interleave, a slot is given back once.
SlotAccounting ==
    /\ \A s \in Sessions : slotHeld[s] <=> phase[s] \in Capturing
    /\ activeCaptures = Cardinality({s \in Sessions : slotHeld[s]})

\* reserved_decode counts the capture tasks that have not been closed by their
\* last event, whether or not the session was cancelled in between.
ReservationAccounting ==
    reservedDecode = Cardinality({s \in Sessions : TaskLive(s)})

\* running_decode and pending_expensive count the workers that have not
\* reported JobFinished; a lost or doubled decrement would refuse every later
\* decode with Busy, or admit too many.
WorkerAccounting ==
    /\ runningDecode = Cardinality({j \in Jobs : WorkerLive(j) /\ IsDecode(work[j].key)})
    /\ pendingExpensive = Cardinality({j \in Jobs : WorkerLive(j) /\ IsCompare(work[j].key)})

\* The admission counters and the slots are what they count, however tool calls,
\* capture tasks and workers interleave.
Accounting == SlotAccounting /\ ReservationAccounting /\ WorkerAccounting

\* Recorders alive at once (cancelled ones included, which have given their
\* slot back) never exceed max_pending_expensive, and sessions that capture
\* never exceed max_active_captures.
RecordersBounded ==
    /\ Cardinality({s \in Sessions : TaskLive(s)}) <= MaxPendingExpensive
    /\ Cardinality({s \in Sessions : phase[s] \in Capturing}) <= MaxActiveCaptures
    /\ Cardinality({j \in Jobs : WorkerLive(j) /\ IsCompare(work[j].key)}) <= MaxPendingExpensive

\* A session reported as Captured has had its snapshot renamed into place and
\* has a decode job whose record and worker exist: what trace_status returns
\* can be polled.
CapturedIsComplete ==
    \A s \in Sessions : phase[s] = "captured" =>
        /\ snapDir[s] # "absent"
        /\ decodeJob[s] # None
        /\ jobs[decodeJob[s]].phase # "none" /\ jobs[decodeJob[s]].snap = s
        /\ work[decodeJob[s]].key = DecodeKey(s, "calls")

\* No job is left Queued without someone who will finish it: a worker, or the
\* capture task of its session.
QueuedIsServed ==
    \A j \in Jobs : jobs[j].phase \in BusyPhases =>
        \/ WorkerLive(j)
        \/ \E s \in Sessions : decodeJob[s] = j /\ TaskLive(s)

\* A decode job that succeeded has its analysis on disk as long as the
\* snapshot was not pruned.
SucceededIsOnDisk ==
    \A j \in Jobs :
        LET s == jobs[j].snap IN
        jobs[j].phase = "succeeded" /\ s # None /\ snapDir[s] = "published"
            => j \in derived[s]

\* A session that ended keeps its outcome, however late its task reports.
EndedIsFinal ==
    [][\A s \in Sessions : phase[s] \in Ended => phase'[s] = phase[s]]_vars

\* Every session that starts ends, also when nobody asks for a snapshot.
SessionEnds == \A s \in Sessions : phase[s] \in Capturing ~> phase[s] \in Ended

\* Every job a client polls leaves Queued and Running.
JobEnds == \A j \in Jobs : jobs[j].phase \in BusyPhases ~> jobs[j].phase \notin BusyPhases

\* Every session and every job comes to an end.
WorkEnds == SessionEnds /\ JobEnds

\* The coordinator keeps the promises of SessionService: at most
\* max_active_captures sessions capture, a session ends once, whatever its task
\* reports later, and as captured only with its snapshot in the store.
Service == INSTANCE SessionService WITH
    MaxActive <- MaxActiveCaptures,
    status <- [s \in Sessions |-> IF phase[s] \in Capturing THEN "capturing" ELSE phase[s]],
    saved <- {s \in Sessions : snapDir[s] # "absent"}

ImplementsService == Service!Spec

(***************************************************************************)
(* What the tool descriptions say and the code does not do.                *)
(***************************************************************************)
\* The snapshots a job reads.
Reads(j) == IF IsDecode(work[j].key) THEN {work[j].key[2]}
            ELSE IF IsCompare(work[j].key) THEN {work[j].key[2], work[j].key[3]} ELSE {}

\* trace_prune: "Snapshots with a queued or running job are skipped."
PruneSkipsBusySnapshots ==
    [][\A s \in Sessions : snapDir[s] = "published" /\ snapDir'[s] = "removed" =>
          ~ \E j \in Jobs : jobs[j].phase \in BusyPhases /\ s \in Reads(j)]_vars

=============================================================================
