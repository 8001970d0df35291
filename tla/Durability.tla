----------------------------- MODULE Durability -----------------------------
(***************************************************************************)
(* What of trace-mcp outlives a process: the store (src/src/store.rs), the *)
(* session and job files the coordinator, capture_task and the decode      *)
(* workers write (src/src/service.rs), the sweep at exit (cleanup.rs) and  *)
(* the commands that open the store (cli.rs, mcp.rs).                      *)
(*                                                                         *)
(* A process is started once, as a server or a command, and may be killed  *)
(* at any step.  A server that shuts down drops its Store, and with it the *)
(* lock, before its capture tasks and workers end with the process.        *)
(* write_json replaces a file by rename.  capture_task and the workers     *)
(* write in place: the file is first truncated (Torn), and a rename by     *)
(* someone else in between makes the write that follows go to a file       *)
(* nobody sees.                                                            *)
(*                                                                         *)
(* A session names its snapshot, its staging directory and its initial     *)
(* decode job, as in module Coordinator.  Admission counters, the cache    *)
(* and other jobs are modelled there.                                      *)
(***************************************************************************)
EXTENDS Naturals, FiniteSets

CONSTANTS Sessions,     \* sessions, with their snapshots and decode jobs
          Bundles,      \* snapshots of another store that are imported
          Procs,        \* processes
          NoProc        \* no process, and no snapshot

ASSUME ProcAssumption == NoProc \notin Procs \union Sessions \union Bundles

VARIABLES
    proc,       \* what each process is doing
    table,      \* Coord.sessions: phase, and whether decode_job is set
    jobTable,   \* Coord.jobs: phase of the session's decode job
    task,       \* capture_task: program counter, process, session file it read
    armedMsg, finalMsg,
    work,       \* decode worker: program counter and process
    file,       \* sessions/<id>.json
    jobFile,    \* jobs/<id>.json
    stage,      \* where the session's staging directory is
    snap,       \* parts present in snapshots/<id>
    split,      \* snapshots/<id>/split is there
    pruned,     \* history: snapshots somebody asked to remove
    settled,    \* history: outcome of a session whose last event was handled
    started     \* history: sessions whose start was answered

coord == <<table, jobTable, armedMsg, finalMsg>>
disk  == <<file, jobFile, stage, snap, split>>
hist  == <<pruned, settled, started>>
vars  == <<proc, table, jobTable, task, armedMsg, finalMsg, work, file, jobFile,
           stage, snap, split, pruned, settled, started>>

-----------------------------------------------------------------------------
Capturing == {"starting", "armed", "finalizing"}
Ended     == {"captured", "failed", "cancelled"}
JobPhases == {"queued", "running", "succeeded", "failed", "cancelled"}
Parts     == {"manifest", "data"}
Snapshots == Sessions \union Bundles

\* A file that is missing, and one that does not parse.
Missing == [state |-> "missing", job |-> FALSE]
Torn    == [state |-> "torn", job |-> FALSE]
Record(p, j) == [state |-> p, job |-> j]
Records == [state : Capturing \union Ended, job : BOOLEAN]
NoTask  == [pc |-> "none", by |-> NoProc, seen |-> Missing]
NoWork  == [pc |-> "none", by |-> NoProc]

\* The values of the variables.
ProcRec == [st : {"off", "up", "reading", "closing", "gone"}, on : Snapshots \union {NoProc}]
TaskPCs == {"none", "starting", "armSeen", "armTorn", "recording", "renamed",
            "capSeen", "capTorn", "done"}
TaskRec == [pc : TaskPCs, by : Procs \union {NoProc}, seen : Records \union {Missing}]
WorkPCs == {"none", "decoding", "ok", "err", "okTorn", "errTorn", "okSaid", "errSaid"}
WorkRec == [pc : WorkPCs, by : Procs \union {NoProc}]

TypeOK ==
    /\ proc     \in [Procs -> ProcRec]
    /\ table    \in [Sessions -> Records \union {Missing}]
    /\ jobTable \in [Sessions -> JobPhases \union {"none"}]
    /\ task     \in [Sessions -> TaskRec]
    /\ armedMsg \in [Sessions -> BOOLEAN]
    /\ finalMsg \in [Sessions -> {"none", "failed", "published"}]
    /\ work     \in [Sessions -> WorkRec]
    /\ file     \in [Sessions -> Records \union {Missing, Torn}]
    /\ jobFile  \in [Sessions -> JobPhases \union {"none", "torn"}]
    /\ stage    \in [Sessions -> {"none", "staging", "quarantine"}]
    /\ snap     \in [Snapshots -> SUBSET Parts]
    /\ split    \in [Snapshots -> BOOLEAN]
    /\ pruned   \subseteq Snapshots
    /\ settled  \in [Sessions -> {"none"} \union Ended]
    /\ started  \subseteq Sessions

Init ==
    /\ proc     = [p \in Procs |-> [st |-> "off", on |-> NoProc]]
    /\ table    = [s \in Sessions |-> Missing]
    /\ jobTable = [s \in Sessions |-> "none"]
    /\ task     = [s \in Sessions |-> NoTask]
    /\ armedMsg = [s \in Sessions |-> FALSE]
    /\ finalMsg = [s \in Sessions |-> "none"]
    /\ work     = [s \in Sessions |-> NoWork]
    /\ file     = [s \in Sessions |-> Missing]
    /\ jobFile  = [s \in Sessions |-> "none"]
    /\ stage    = [s \in Sessions |-> "none"]
    /\ snap     = [x \in Snapshots |-> {}]
    /\ split    = [x \in Snapshots |-> FALSE]
    /\ pruned = {} /\ started = {}
    /\ settled  = [s \in Sessions |-> "none"]

-----------------------------------------------------------------------------
(***************************************************************************)
(* The lock, and opening the store.                                        *)
(***************************************************************************)
IsReading(p) == proc[p].st = "reading"

\* flock(LOCK): who holds a Store has the lock, exclusively or shared.
ExclusiveFree == \A p \in Procs : proc[p].st # "up" /\ ~IsReading(p)
SharedFree    == \A p \in Procs : proc[p].st # "up"

\* recover_staging: every exclusive open moves all of staging/ aside.
RecoverStaging ==
    [s \in Sessions |-> IF stage[s] = "staging" THEN "quarantine" ELSE stage[s]]

\* Mutant: the state in the file is taken as it is.
MutLoadAsIs(f) == IF f = Torn THEN Missing ELSE f

\* load_persisted, one session: a capture of an earlier process has failed.
LoadSession(f) ==
    CASE f \in {Missing, Torn}      -> Missing
      [] f.state \in Capturing      -> Record("failed", f.job)
      [] OTHER                      -> f

\* Store::open_with(Exclusive) and App::start with load_persisted, which also
\* writes every session it found.
Serve(p) ==
    /\ proc[p].st = "off" /\ ExclusiveFree
    /\ proc' = [proc EXCEPT ![p].st = "up"]
    /\ stage' = RecoverStaging
    /\ table' = [s \in Sessions |-> LoadSession(file[s])]
    /\ file'  = [s \in Sessions |-> IF LoadSession(file[s]) = Missing THEN file[s]
                                    ELSE LoadSession(file[s])]
    /\ jobTable' = [s \in Sessions |-> IF jobFile[s] = "torn" THEN "none" ELSE jobFile[s]]
    /\ UNCHANGED <<task, armedMsg, finalMsg, work, jobFile, snap, split, hist>>

\* remove_snapshot runs to its end, or is cut short (`left` stays behind).
RemoveSnapshot(x, left) ==
    /\ snap'   = [snap EXCEPT ![x] = left]
    /\ split'  = [split EXCEPT ![x] = FALSE]
    /\ pruned' = pruned \union {x}

\* The prune command: open exclusively, remove, exit.  It looks at no table.
CommandPrunes(p, x) ==
    /\ proc[p].st = "off" /\ ExclusiveFree
    /\ proc' = [proc EXCEPT ![p].st = "gone"]
    /\ stage' = RecoverStaging
    /\ snap[x] # {}
    /\ \E left \in SUBSET snap[x] : RemoveSnapshot(x, left)
    /\ UNCHANGED <<coord, task, work, file, jobFile, settled, started>>

\* The import command (import_bundle): copies straight into snapshots/<id>, in
\* directory order, and may be killed while it does.  A destination with a
\* manifest is taken for an earlier import, one without is an error.
CommandImports(p, b) ==
    /\ proc[p].st = "off" /\ ExclusiveFree
    /\ proc' = [proc EXCEPT ![p].st = "gone"]
    /\ stage' = RecoverStaging
    /\ snap' = [snap EXCEPT ![b] = IF @ # {} THEN @ ELSE Parts]
    /\ UNCHANGED <<coord, task, work, file, jobFile, split, hist>>

CommandImportKilled(p, b) ==
    /\ proc[p].st = "off" /\ ExclusiveFree
    /\ proc' = [proc EXCEPT ![p].st = "gone"]
    /\ stage' = RecoverStaging
    /\ snap[b] = {}
    /\ \E some \in SUBSET Parts : snap' = [snap EXCEPT ![b] = some]
    /\ UNCHANGED <<coord, task, work, file, jobFile, split, hist>>

\* The query command: a shared lock while it reads a snapshot's analyses.
CommandQueries(p, x) ==
    /\ proc[p].st = "off" /\ SharedFree
    /\ "manifest" \in snap[x]
    /\ proc' = [proc EXCEPT ![p] = [st |-> "reading", on |-> x]]
    /\ UNCHANGED <<coord, task, work, disk, hist>>

\* The command has printed its page; Store is dropped, the exit sweep follows.
QueryDone(p) ==
    /\ IsReading(p)
    /\ proc' = [proc EXCEPT ![p].st = "closing"]
    /\ UNCHANGED <<coord, task, work, disk, hist>>

\* Op::Shutdown: the coordinator ends, its Store and the lock go with it; its
\* events are no longer received.
Shutdown(p) ==
    /\ proc[p].st = "up"
    /\ proc' = [proc EXCEPT ![p].st = "closing"]
    /\ table' = [s \in Sessions |-> Missing]
    /\ jobTable' = [s \in Sessions |-> "none"]
    /\ UNCHANGED <<task, armedMsg, finalMsg, work, disk, hist>>

\* Mutant: the sweep does not ask for the lock.
MutSweepAnyway(p) ==
    /\ proc[p].st = "closing"
    /\ split' = [x \in Snapshots |-> FALSE]
    /\ stage' = stage
    /\ UNCHANGED <<proc, coord, task, work, file, jobFile, snap, hist>>

\* sweep_store at exit: only under the exclusive lock.  Removes decode-time
\* split files, and what crashed sessions left in quarantine (after a day).
Sweep(p) ==
    /\ proc[p].st = "closing" /\ ExclusiveFree
    /\ split' = [x \in Snapshots |-> FALSE]
    /\ \E old \in SUBSET {s \in Sessions : stage[s] = "quarantine"} :
            stage' = [s \in Sessions |-> IF s \in old THEN "none" ELSE stage[s]]
    /\ UNCHANGED <<proc, coord, task, work, file, jobFile, snap, hist>>

\* The capture tasks, workers and queued events of process p are gone.
TasksDie(p) ==
    /\ task' = [s \in Sessions |-> IF task[s].by = p THEN NoTask ELSE task[s]]
    /\ work' = [s \in Sessions |-> IF work[s].by = p THEN NoWork ELSE work[s]]
    /\ armedMsg' = [s \in Sessions |-> armedMsg[s] /\ task[s].by # p]
    /\ finalMsg' = [s \in Sessions |-> IF task[s].by = p THEN "none" ELSE finalMsg[s]]

\* The process ends, by exit after its sweep or killed anywhere: memory, tasks
\* and lock are gone, files stay as they are.
Exit(p) ==
    /\ proc[p].st \notin {"off", "gone"}
    /\ proc' = [proc EXCEPT ![p].st = "gone"]
    /\ IF proc[p].st = "up"
       THEN /\ table' = [s \in Sessions |-> Missing]
            /\ jobTable' = [s \in Sessions |-> "none"]
       ELSE UNCHANGED <<table, jobTable>>
    /\ TasksDie(p)
    /\ UNCHANGED <<disk, hist>>

-----------------------------------------------------------------------------
(***************************************************************************)
(* The coordinator of process p.                                           *)
(***************************************************************************)
\* persist_session of the record just entered in the table.
Persist(s, r) ==
    /\ table' = [table EXCEPT ![s] = r]
    /\ file'  = [file EXCEPT ![s] = r]

\* write_json of a job record just entered in the table.
SaveJob(s, ph) ==
    /\ jobTable' = [jobTable EXCEPT ![s] = ph]
    /\ jobFile'  = [jobFile EXCEPT ![s] = ph]

\* handle_start of a request id no session of the table has: a new session and
\* its files.  (The model has one session per request id, so a request whose
\* session was forgotten is not started a second time.)
HandleStart(p, s) ==
    /\ proc[p].st = "up" /\ table[s] = Missing /\ s \notin started
    /\ Persist(s, Record("starting", FALSE))
    /\ task' = [task EXCEPT ![s] = [pc |-> "starting", by |-> p, seen |-> Missing]]
    /\ stage' = [stage EXCEPT ![s] = "staging"]
    /\ started' = started \union {s}
    /\ UNCHANGED <<proc, jobTable, armedMsg, finalMsg, work, jobFile, snap, split,
                   pruned, settled>>

HandleSnapshot(p, s) ==
    /\ proc[p].st = "up" /\ table[s].state = "armed"
    /\ Persist(s, Record("finalizing", TRUE))
    /\ SaveJob(s, "queued")
    /\ UNCHANGED <<proc, armedMsg, finalMsg, task, work, stage, snap, split, hist>>

HandleCancelSession(p, s) ==
    /\ proc[p].st = "up" /\ table[s].state \in Capturing
    /\ Persist(s, Record("cancelled", table[s].job))
    /\ UNCHANGED <<proc, jobTable, armedMsg, finalMsg, task, work, jobFile, stage,
                   snap, split, hist>>

HandleCancelJob(p, s) ==
    /\ proc[p].st = "up" /\ jobTable[s] \notin {"none", "succeeded", "cancelled"}
    /\ SaveJob(s, "cancelled")
    /\ UNCHANGED <<proc, table, armedMsg, finalMsg, task, work, file, stage, snap,
                   split, hist>>

\* handle_prune of one id.
HandlePrune(p, x) ==
    /\ proc[p].st = "up" /\ snap[x] # {}
    /\ x \in Sessions => /\ jobTable[x] \notin {"queued", "running"}
                         /\ table[x].state \notin Capturing
    /\ RemoveSnapshot(x, {})
    /\ UNCHANGED <<proc, coord, task, work, file, jobFile, stage, settled, started>>

\* The server is killed while handle_prune removes a directory.
KilledPruning(p, x) ==
    /\ proc[p].st = "up" /\ snap[x] # {}
    /\ x \in Sessions => /\ jobTable[x] \notin {"queued", "running"}
                         /\ table[x].state \notin Capturing
    /\ \E left \in SUBSET snap[x] : RemoveSnapshot(x, left)
    /\ proc' = [proc EXCEPT ![p].st = "gone"]
    /\ table' = [s \in Sessions |-> Missing]
    /\ jobTable' = [s \in Sessions |-> "none"]
    /\ TasksDie(p)
    /\ UNCHANGED <<file, jobFile, stage, settled, started>>

\* A queued event of a task of this server.
Receives(p, s) == proc[p].st = "up" /\ task[s].by = p

InternalArmed(p, s) ==
    /\ Receives(p, s) /\ armedMsg[s]
    /\ armedMsg' = [armedMsg EXCEPT ![s] = FALSE]
    /\ Persist(s, IF table[s].state = "starting" THEN Record("armed", table[s].job)
                                                 ELSE table[s])
    /\ UNCHANGED <<proc, jobTable, finalMsg, task, work, jobFile, stage, snap, split, hist>>

\* Failed, or Published of a cancelled session: the record is written with the
\* phase `ph`, a job that waited for the session is cancelled.
Close(s, ph) ==
    /\ finalMsg' = [finalMsg EXCEPT ![s] = "none"]
    /\ task' = [task EXCEPT ![s] = NoTask]
    /\ Persist(s, Record(ph, table[s].job))
    /\ settled' = [settled EXCEPT ![s] = ph]
    /\ IF table[s].job /\ jobTable[s] = "queued" THEN SaveJob(s, "cancelled")
                                                 ELSE UNCHANGED <<jobTable, jobFile>>
    /\ UNCHANGED <<proc, armedMsg, work, stage, snap, split, pruned, started>>

InternalFailed(p, s) ==
    /\ Receives(p, s) /\ finalMsg[s] = "failed" /\ ~armedMsg[s]
    /\ Close(s, IF table[s].state = "cancelled" THEN "cancelled" ELSE "failed")

\* Mutant: nothing is written, the file keeps what the task wrote.
MutBlockedUnsaved(p, s) ==
    /\ Receives(p, s) /\ finalMsg[s] = "published" /\ ~armedMsg[s]
    /\ table[s].state = "cancelled"
    /\ finalMsg' = [finalMsg EXCEPT ![s] = "none"]
    /\ task' = [task EXCEPT ![s] = NoTask]
    /\ settled' = [settled EXCEPT ![s] = "cancelled"]
    /\ UNCHANGED <<proc, table, jobTable, armedMsg, work, disk, pruned, started>>

InternalPublishedBlocked(p, s) ==
    /\ Receives(p, s) /\ finalMsg[s] = "published" /\ ~armedMsg[s]
    /\ table[s].state \in {"cancelled", "failed"}
    /\ Close(s, table[s].state)

\* The job's file says Queued, its table entry Running.
InternalPublished(p, s) ==
    /\ Receives(p, s) /\ finalMsg[s] = "published" /\ ~armedMsg[s]
    /\ table[s].state \notin {"cancelled", "failed"}
    /\ finalMsg' = [finalMsg EXCEPT ![s] = "none"]
    /\ task' = [task EXCEPT ![s] = NoTask]
    /\ Persist(s, Record("captured", TRUE))
    /\ settled' = [settled EXCEPT ![s] = "captured"]
    /\ jobFile'  = [jobFile EXCEPT ![s] = "queued"]
    /\ jobTable' = [jobTable EXCEPT ![s] = "running"]
    /\ work' = [work EXCEPT ![s] = [pc |-> "decoding", by |-> p]]
    /\ split' = [split EXCEPT ![s] = TRUE]
    /\ UNCHANGED <<proc, armedMsg, stage, snap, pruned, started>>

InternalJobFinished(p, s) ==
    /\ proc[p].st = "up" /\ work[s].by = p /\ work[s].pc \in {"okSaid", "errSaid"}
    /\ jobTable' = [jobTable EXCEPT ![s] =
            IF work[s].pc = "okSaid" THEN "succeeded" ELSE "failed"]
    /\ work' = [work EXCEPT ![s] = NoWork]
    /\ UNCHANGED <<proc, table, armedMsg, finalMsg, task, disk, hist>>

-----------------------------------------------------------------------------
(***************************************************************************)
(* capture_task.                                                           *)
(***************************************************************************)
TaskAt(s, from, to) ==
    /\ task[s].pc = from
    /\ task' = [task EXCEPT ![s].pc = to]

\* write_session_state reads the whole file; when it cannot be read or parsed
\* nothing is written.
TaskReadsFile(s, from, to) ==
    /\ task[s].pc = from
    /\ task' = [task EXCEPT ![s].pc = to, ![s].seen = file[s]]
    /\ UNCHANGED <<proc, coord, work, disk, hist>>

\* std::fs::write truncates the file in place ...
TaskTruncatesFile(s, from, to) ==
    /\ TaskAt(s, from, to)
    /\ file' = [file EXCEPT ![s] = Torn]
    /\ UNCHANGED <<proc, coord, work, jobFile, stage, snap, split, hist>>

\* ... and writes what was read with a new state, into a file that a rename
\* may have replaced meanwhile.
TaskFillsFile(s, state) ==
    file' = [file EXCEPT ![s] = IF @ = Torn THEN Record(state, task[s].seen.job) ELSE @]

\* The recorder runs: write_session_state(Armed), then the Armed event.
TaskArms(s) ==
    /\ TaskAt(s, "armTorn", "recording")
    /\ TaskFillsFile(s, "armed")
    /\ armedMsg' = [armedMsg EXCEPT ![s] = TRUE]
    /\ UNCHANGED <<proc, table, jobTable, finalMsg, work, jobFile, stage, snap, split, hist>>

\* Mutant: the state is written before the directory is renamed.
MutPublishLast(s) ==
    /\ TaskAt(s, "recording", "renamed")
    /\ file' = [file EXCEPT ![s] = Record("captured", @.job)]
    /\ UNCHANGED <<proc, coord, work, jobFile, stage, snap, split, hist>>

\* The sealed staging directory becomes snapshots/<id> in one rename.
TaskPublishes(s) ==
    /\ TaskAt(s, "recording", "renamed")
    /\ stage[s] = "staging"
    /\ stage' = [stage EXCEPT ![s] = "none"]
    /\ snap' = [snap EXCEPT ![s] = Parts]
    /\ UNCHANGED <<proc, coord, work, file, jobFile, split, hist>>

\* write_session_state(Captured) is done, the outcome is sent.
TaskReports(s) ==
    /\ TaskAt(s, "capTorn", "done")
    /\ TaskFillsFile(s, "captured")
    /\ finalMsg' = [finalMsg EXCEPT ![s] = "published"]
    /\ UNCHANGED <<proc, table, jobTable, armedMsg, work, jobFile, stage, snap, split, hist>>

\* An error return: the recorder, a cancelled capture, a lost staging
\* directory, a session file that cannot be opened.
TaskFails(s) ==
    /\ task[s].pc \in {"starting", "armSeen", "recording", "capSeen"}
    /\ task' = [task EXCEPT ![s].pc = "done"]
    /\ finalMsg' = [finalMsg EXCEPT ![s] = "failed"]
    /\ UNCHANGED <<proc, table, jobTable, armedMsg, work, disk, hist>>

-----------------------------------------------------------------------------
(***************************************************************************)
(* The decode worker: derived/<analysis> by rename (module Coordinator),   *)
(* then its own copy of the job record, written in place, then the event.  *)
(***************************************************************************)
WorkerDecides(s, result) ==
    /\ work[s].pc = "decoding"
    /\ result = "ok" => snap[s] # {}
    /\ work' = [work EXCEPT ![s].pc = result]
    /\ UNCHANGED <<proc, coord, task, disk, hist>>

WorkerTruncates(s) ==
    /\ work[s].pc \in {"ok", "err"}
    /\ work' = [work EXCEPT ![s].pc = IF @ = "ok" THEN "okTorn" ELSE "errTorn"]
    /\ jobFile' = [jobFile EXCEPT ![s] = "torn"]
    /\ UNCHANGED <<proc, coord, task, file, stage, snap, split, hist>>

\* Mutant: the outcome is only sent, not written.
MutWorkerOnlyReports(s) ==
    /\ work[s].pc \in {"okTorn", "errTorn"}
    /\ work' = [work EXCEPT ![s].pc = IF @ = "okTorn" THEN "okSaid" ELSE "errSaid"]
    /\ jobFile' = [jobFile EXCEPT ![s] = IF @ = "torn" THEN "queued" ELSE @]
    /\ UNCHANGED <<proc, coord, task, file, stage, snap, split, hist>>

WorkerReports(s) ==
    /\ work[s].pc \in {"okTorn", "errTorn"}
    /\ work' = [work EXCEPT ![s].pc = IF @ = "okTorn" THEN "okSaid" ELSE "errSaid"]
    /\ jobFile' = [jobFile EXCEPT ![s] =
            IF @ # "torn" THEN @ ELSE IF work[s].pc = "okTorn" THEN "succeeded" ELSE "failed"]
    /\ UNCHANGED <<proc, coord, task, file, stage, snap, split, hist>>

-----------------------------------------------------------------------------
ProcStep(p) ==
    \/ Serve(p) \/ Shutdown(p) \/ Sweep(p) \/ Exit(p) \/ QueryDone(p)
    \/ \E x \in Snapshots : \/ CommandPrunes(p, x) \/ CommandQueries(p, x)
                           \/ HandlePrune(p, x) \/ KilledPruning(p, x)
    \/ \E b \in Bundles : CommandImports(p, b) \/ CommandImportKilled(p, b)
    \/ \E s \in Sessions :
        \/ HandleStart(p, s) \/ HandleSnapshot(p, s) \/ HandleCancelSession(p, s)
        \/ HandleCancelJob(p, s) \/ InternalArmed(p, s) \/ InternalFailed(p, s)
        \/ InternalPublishedBlocked(p, s) \/ InternalPublished(p, s)
        \/ InternalJobFinished(p, s)

TaskStep(s) ==
    \/ TaskReadsFile(s, "starting", "armSeen") \/ TaskReadsFile(s, "renamed", "capSeen")
    \/ TaskTruncatesFile(s, "armSeen", "armTorn") \/ TaskTruncatesFile(s, "capSeen", "capTorn")
    \/ TaskArms(s) \/ TaskPublishes(s) \/ TaskReports(s) \/ TaskFails(s)

WorkerStep(s) ==
    \/ \E r \in {"ok", "err"} : WorkerDecides(s, r)
    \/ WorkerTruncates(s) \/ WorkerReports(s)

Next ==
    \/ \E p \in Procs : ProcStep(p)
    \/ \E s \in Sessions : TaskStep(s) \/ WorkerStep(s)

Spec == Init /\ [][Next]_vars

-----------------------------------------------------------------------------
(***************************************************************************)
(* Properties.                                                             *)
(***************************************************************************)
\* A session that is captured, in the file or in a server's table and through
\* any crash, has its whole snapshot on disk unless somebody removed it: the
\* rename comes before the state is written (service.rs:1859-1860).
CapturedOnDisk ==
    \A s \in Sessions :
        "captured" \in {file[s].state, table[s].state} => snap[s] = Parts \/ s \in pruned

\* The outcome a server gave a session when it handled the capture's last event
\* is the outcome every later server loads, whatever crashes in between and
\* although the task had written the same file in place before.
SettledSurvives ==
    \A s \in Sessions : settled[s] # "none" =>
        /\ file[s].state = settled[s]
        /\ table[s] # Missing => table[s].state = settled[s]

\* A session that a server shows as capturing has a capture task of that very
\* server which has not reported yet: none is inherited from a dead process
\* and waits for ever (load_persisted).
CapturingIsAlive ==
    \A s \in Sessions : table[s].state \in Capturing =>
        /\ task[s].pc # "none"
        /\ proc[task[s].by].st = "up"

\* Files in use are not taken away by another process: not from a query that
\* reads a snapshot, not from a worker of a running server that decodes from
\* split/ (the store lock, ensure_exclusive and sweep_store).
UsersKeepFiles ==
    [][ /\ \A p \in Procs : IsReading(p) /\ proc'[p] = proc[p] =>
                snap[proc[p].on] \subseteq snap'[proc[p].on]
        /\ \A s \in Sessions :
                (work[s].pc = "decoding" /\ work'[s] = work[s] /\ proc[work[s].by].st = "up"
                   /\ proc'[work[s].by].st = "up" /\ s \notin pruned')
                => (split[s] => split'[s]) ]_vars

\* trace_status answers from the job's file first, and a running decode is
\* never written as Running: once the server handled a worker's JobFinished,
\* the file no longer says that the job waits.
FinishedJobHasEnded ==
    \A s \in Sessions :
        jobTable[s] \in {"succeeded", "failed"} => jobFile[s] \notin {"queued", "running", "torn"}

\* Retrying a start with the same request id finds the session again, also
\* after a restart (by_request is rebuilt from the session files).
StartedIsRemembered ==
    \A p \in Procs : proc[p].st = "up" => \A s \in started : table[s] # Missing
=============================================================================
