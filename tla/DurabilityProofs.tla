-------------------------- MODULE DurabilityProofs --------------------------
(***************************************************************************)
(* What of trace-mcp outlives a process, proved for any number of          *)
(* processes, sessions and imported bundles.                               *)
(***************************************************************************)
EXTENDS Durability, TLAPS

(***************************************************************************)
(* Types.                                                                  *)
(***************************************************************************)
\* What is written to a session file is a record.
LEMMA RecordType ==
    /\ \A ph \in Capturing \union Ended : \A j \in BOOLEAN : Record(ph, j) \in Records
    /\ \A r \in Records \union {Missing} : r.job \in BOOLEAN
    /\ \A r \in Records : r.state \in Capturing \union Ended
<1>1. ASSUME NEW ph \in Capturing \union Ended, NEW j \in BOOLEAN
      PROVE  Record(ph, j) \in Records
    BY Zenon DEF Record, Records
<1>2. ASSUME NEW r \in Records \union {Missing}
      PROVE  r.job \in BOOLEAN
  <2>1. CASE r \in Records
    BY <2>1, Zenon DEF Records
  <2>2. CASE r = Missing
    <3>1. Missing.job = FALSE
      BY DEF Missing
    <3> QED BY <2>2, <3>1, Zenon
  <2> QED BY <2>1, <2>2
<1>3. ASSUME NEW r \in Records
      PROVE  r.state \in Capturing \union Ended
    BY DEF Records
<1> QED BY <1>1, <1>2, <1>3

\* load_persisted finds a record or nothing.
LEMMA LoadType ==
    ASSUME NEW f \in Records \union {Missing, Torn}
    PROVE  LoadSession(f) \in Records \union {Missing}
<1>1. CASE f \in {Missing, Torn}
  <2>1. f.state \notin Capturing
    BY <1>1 DEF Missing, Torn, Capturing
  <2> QED BY <1>1, <2>1 DEF LoadSession
<1>2. CASE f \in Records /\ f.state \in Capturing /\ f \notin {Missing, Torn}
  <2>1. "failed" \in Capturing \union Ended
    BY DEF Ended
  <2> QED BY <1>2, <2>1, RecordType DEF LoadSession
<1>3. CASE f \in Records /\ f.state \notin Capturing /\ f \notin {Missing, Torn}
    BY <1>3 DEF LoadSession
<1> QED BY <1>1, <1>2, <1>3

\* A process goes on to another state, a task to another place.
LEMMA ProcType ==
    ASSUME proc \in [Procs -> ProcRec], NEW p \in Procs,
           NEW st \in {"off", "up", "reading", "closing", "gone"}
    PROVE  [proc EXCEPT ![p].st = st] \in [Procs -> ProcRec]
BY DEF ProcRec
\* So does a step of a session's task,
LEMMA TaskType ==
    ASSUME task \in [Sessions -> TaskRec], NEW s \in Sessions, NEW pc \in TaskPCs
    PROVE  /\ [task EXCEPT ![s].pc = pc] \in [Sessions -> TaskRec]
           /\ \A f \in Records \union {Missing} :
                [task EXCEPT ![s].pc = pc, ![s].seen = f] \in [Sessions -> TaskRec]
BY DEF TaskRec
\* a step of its decode work,
LEMMA WorkType ==
    ASSUME work \in [Sessions -> WorkRec], NEW s \in Sessions, NEW pc \in WorkPCs
    PROVE  [work EXCEPT ![s].pc = pc] \in [Sessions -> WorkRec]
BY DEF WorkRec
\* and a session without either.
LEMMA NoneType == NoTask \in TaskRec /\ NoWork \in WorkRec
BY DEF NoTask, NoWork, TaskRec, WorkRec, TaskPCs, WorkPCs

\* Losing a process' tasks keeps the types.
LEMMA DieType ==
    ASSUME TypeOK, NEW p \in Procs, TasksDie(p)
    PROVE  /\ task'     \in [Sessions -> TaskRec]
           /\ work'     \in [Sessions -> WorkRec]
           /\ armedMsg' \in [Sessions -> BOOLEAN]
           /\ finalMsg' \in [Sessions -> {"none", "failed", "published"}]
BY NoneType DEF TasksDie, TypeOK

\* So does removing a snapshot.
LEMMA RemoveType ==
    ASSUME TypeOK, NEW x \in Snapshots, NEW left \in SUBSET snap[x], RemoveSnapshot(x, left)
    PROVE  /\ snap' \in [Snapshots -> SUBSET Parts]
           /\ split' \in [Snapshots -> BOOLEAN]
           /\ pruned' \subseteq Snapshots
<1>1. snap' \in [Snapshots -> SUBSET Parts]
    BY DEF RemoveSnapshot, TypeOK
<1>2. split' \in [Snapshots -> BOOLEAN]
  <2>1. FALSE \in BOOLEAN /\ split \in [Snapshots -> BOOLEAN]
    BY Zenon DEF TypeOK
  <2> QED BY <2>1 DEF RemoveSnapshot
<1>3. pruned' \subseteq Snapshots
    BY DEF RemoveSnapshot, TypeOK
<1> QED BY <1>1, <1>2, <1>3

\* A capture task reads a session file that parses.
Whole(s) == file[s] = Torn => task[s].pc \in {"none", "armTorn", "capTorn"}
ReadsWhole == \A s \in Sessions : Whole(s)

\* Every step keeps the types.
LEMMA TypeStep == TypeOK /\ ReadsWhole /\ [Next]_vars => TypeOK'
<1> SUFFICES ASSUME TypeOK, ReadsWhole, [Next]_vars PROVE TypeOK'
    OBVIOUS
<1> USE DEF coord, disk, hist
<1>a. /\ {"starting", "finalizing", "armed", "cancelled", "failed", "captured"}
            \subseteq Capturing \union Ended
      /\ {"queued", "running", "succeeded", "failed", "cancelled"} \subseteq JobPhases
      /\ {"cancelled", "failed", "captured"} \subseteq Ended
    BY DEF Capturing, Ended, JobPhases
<1>1. ASSUME NEW p \in Procs, Serve(p) PROVE TypeOK'
  <2>1. \A s \in Sessions : LoadSession(file[s]) \in Records \union {Missing}
    BY LoadType DEF TypeOK
  <2> QED BY <1>1, <2>1, ProcType DEF Serve, TypeOK, RecoverStaging
<1>2. ASSUME NEW p \in Procs, Shutdown(p) \/ QueryDone(p) PROVE TypeOK'
  <2>1. CASE Shutdown(p)
    BY <2>1, ProcType DEF Shutdown, TypeOK
  <2>2. CASE QueryDone(p)
    BY <2>2, ProcType DEF QueryDone, TypeOK
  <2> QED BY <1>2, <2>1, <2>2
<1>3. ASSUME NEW p \in Procs, Sweep(p) PROVE TypeOK'
    BY <1>3 DEF Sweep, TypeOK
<1>4. ASSUME NEW p \in Procs, Exit(p) PROVE TypeOK'
  <2>1. table' \in [Sessions -> Records \union {Missing}] /\ jobTable' \in [Sessions -> JobPhases \union {"none"}]
    BY <1>4 DEF Exit, TypeOK
  <2>2. proc' \in [Procs -> ProcRec]
    BY <1>4, ProcType DEF Exit, TypeOK
  <2> QED BY <1>4, <2>1, <2>2, DieType DEF Exit, TypeOK
<1>5. ASSUME NEW p \in Procs, NEW x \in Snapshots, CommandPrunes(p, x) PROVE TypeOK'
  <2>1. proc' \in [Procs -> ProcRec]
    BY <1>5, ProcType DEF CommandPrunes, TypeOK
  <2>2. stage' \in [Sessions -> {"none", "staging", "quarantine"}]
    BY <1>5 DEF CommandPrunes, RecoverStaging, TypeOK
  <2>3. /\ snap' \in [Snapshots -> SUBSET Parts] /\ split' \in [Snapshots -> BOOLEAN]
        /\ pruned' \subseteq Snapshots
    BY <1>5, RemoveType DEF CommandPrunes
  <2> QED BY <1>5, <2>1, <2>2, <2>3 DEF CommandPrunes, TypeOK
<1>6. ASSUME NEW p \in Procs, NEW x \in Snapshots, CommandQueries(p, x) PROVE TypeOK'
    BY <1>6 DEF CommandQueries, TypeOK, ProcRec
<1>7. ASSUME NEW p \in Procs, NEW x \in Snapshots, HandlePrune(p, x) PROVE TypeOK'
    BY <1>7 DEF HandlePrune, RemoveSnapshot, TypeOK
<1>8. ASSUME NEW p \in Procs, NEW x \in Snapshots, KilledPruning(p, x) PROVE TypeOK'
  <2>1. proc' \in [Procs -> ProcRec]
    BY <1>8, ProcType DEF KilledPruning, TypeOK
  <2>2. /\ table' \in [Sessions -> Records \union {Missing}]
        /\ jobTable' \in [Sessions -> JobPhases \union {"none"}]
    BY <1>8 DEF KilledPruning
  <2>3. /\ snap' \in [Snapshots -> SUBSET Parts] /\ split' \in [Snapshots -> BOOLEAN]
        /\ pruned' \subseteq Snapshots
    BY <1>8, RemoveType DEF KilledPruning
  <2>4. TasksDie(p)
    BY <1>8 DEF KilledPruning
  <2>5. /\ task' \in [Sessions -> TaskRec] /\ work' \in [Sessions -> WorkRec]
        /\ armedMsg' \in [Sessions -> BOOLEAN]
        /\ finalMsg' \in [Sessions -> {"none", "failed", "published"}]
    BY <2>4, DieType
  <2> QED BY <1>8, <2>1, <2>2, <2>3, <2>5 DEF KilledPruning, TypeOK
<1>9. ASSUME NEW p \in Procs, NEW b \in Bundles,
             CommandImports(p, b) \/ CommandImportKilled(p, b) PROVE TypeOK'
  <2>1. proc' \in [Procs -> ProcRec]
    BY <1>9, ProcType DEF CommandImports, CommandImportKilled, TypeOK
  <2>2. snap' \in [Snapshots -> SUBSET Parts]
    BY <1>9 DEF CommandImports, CommandImportKilled, TypeOK, Snapshots
  <2>3. stage' \in [Sessions -> {"none", "staging", "quarantine"}]
    BY <1>9 DEF CommandImports, CommandImportKilled, RecoverStaging, TypeOK
  <2> QED BY <1>9, <2>1, <2>2, <2>3 DEF CommandImports, CommandImportKilled, TypeOK
<1>10. ASSUME NEW p \in Procs, NEW s \in Sessions, HandleStart(p, s) PROVE TypeOK'
    BY <1>a, <1>10, RecordType DEF HandleStart, Persist, TypeOK, TaskRec, TaskPCs
<1>11. ASSUME NEW p \in Procs, NEW s \in Sessions, HandleSnapshot(p, s) PROVE TypeOK'
    BY <1>a, <1>11, RecordType DEF HandleSnapshot, Persist, SaveJob, TypeOK
<1>12. ASSUME NEW p \in Procs, NEW s \in Sessions, HandleCancelSession(p, s) PROVE TypeOK'
    BY <1>a, <1>12, RecordType DEF HandleCancelSession, Persist, TypeOK
<1>13. ASSUME NEW p \in Procs, NEW s \in Sessions, HandleCancelJob(p, s) PROVE TypeOK'
    BY <1>a, <1>13 DEF HandleCancelJob, SaveJob, TypeOK
<1>14. ASSUME NEW p \in Procs, NEW s \in Sessions, InternalArmed(p, s) PROVE TypeOK'
    BY <1>a, <1>14, RecordType DEF InternalArmed, Persist, TypeOK
<1>15. ASSUME NEW s \in Sessions, NEW ph \in Ended, Close(s, ph) PROVE TypeOK'
  <2>1. Record(ph, table[s].job) \in Records
    <3>1. table[s] \in Records \union {Missing} /\ ph \in Capturing \union Ended
      BY DEF TypeOK
    <3> QED BY <3>1, RecordType, Zenon
  <2>2. /\ table' \in [Sessions -> Records \union {Missing}]
        /\ file'  \in [Sessions -> Records \union {Missing, Torn}]
    BY <1>15, <2>1 DEF Close, Persist, TypeOK
  <2>3. task' \in [Sessions -> TaskRec]
    BY <1>15, NoneType DEF Close, TypeOK
  <2>4. /\ finalMsg' \in [Sessions -> {"none", "failed", "published"}]
        /\ settled'  \in [Sessions -> {"none"} \union Ended]
    BY <1>15 DEF Close, TypeOK
  <2>5. /\ jobTable' \in [Sessions -> JobPhases \union {"none"}]
        /\ jobFile'  \in [Sessions -> JobPhases \union {"none", "torn"}]
    BY <1>a, <1>15 DEF Close, SaveJob, TypeOK
  <2> QED BY <1>15, <2>2, <2>3, <2>4, <2>5 DEF Close, TypeOK
<1>16. ASSUME NEW p \in Procs, NEW s \in Sessions,
              InternalFailed(p, s) \/ InternalPublishedBlocked(p, s) PROVE TypeOK'
    BY <1>a, <1>15, <1>16 DEF InternalFailed, InternalPublishedBlocked
<1>17. ASSUME NEW p \in Procs, NEW s \in Sessions, InternalPublished(p, s) PROVE TypeOK'
    BY <1>a, <1>17, RecordType, NoneType DEF InternalPublished, Persist, TypeOK, WorkRec, WorkPCs,
       Snapshots
<1>18. ASSUME NEW p \in Procs, NEW s \in Sessions, InternalJobFinished(p, s) PROVE TypeOK'
    BY <1>a, <1>18, NoneType DEF InternalJobFinished, TypeOK
<1>19. ASSUME NEW s \in Sessions, TaskStep(s) PROVE TypeOK'
  <2>1. CASE TaskReadsFile(s, "starting", "armSeen") \/ TaskReadsFile(s, "renamed", "capSeen")
    <3>1. file[s] \in Records \union {Missing}
      BY <2>1 DEF TaskReadsFile, ReadsWhole, Whole, TypeOK
    <3>2. PICK pc \in TaskPCs : task' = [task EXCEPT ![s].pc = pc, ![s].seen = file[s]]
      BY <2>1, Zenon DEF TaskReadsFile, TaskPCs
    <3>3. task' \in [Sessions -> TaskRec]
      BY <3>1, <3>2, TaskType DEF TypeOK
    <3> QED BY <2>1, <3>3 DEF TaskReadsFile, TypeOK
  <2>2. CASE TaskTruncatesFile(s, "armSeen", "armTorn") \/ TaskTruncatesFile(s, "capSeen", "capTorn")
    <3>0. PICK pc \in TaskPCs : task' = [task EXCEPT ![s].pc = pc]
      BY <2>2, Zenon DEF TaskTruncatesFile, TaskAt, TaskPCs
    <3>1. task' \in [Sessions -> TaskRec]
      BY <3>0, TaskType DEF TypeOK
    <3>2. file' \in [Sessions -> Records \union {Missing, Torn}]
      BY <2>2 DEF TaskTruncatesFile, TypeOK
    <3> QED BY <2>2, <3>1, <3>2 DEF TaskTruncatesFile, TypeOK
  <2>3. task[s].seen.job \in BOOLEAN
    BY RecordType DEF TypeOK, TaskRec
  <2>a. ASSUME NEW from, NEW to \in {"recording", "renamed", "done"}, TaskAt(s, from, to)
        PROVE  task' \in [Sessions -> TaskRec]
    <3>1. to \in TaskPCs
      BY DEF TaskPCs
    <3> QED BY <2>a, <3>1, TaskType, Zenon DEF TaskAt, TypeOK
  <2>b. ASSUME NEW state \in Capturing \union Ended, TaskFillsFile(s, state)
        PROVE  file' \in [Sessions -> Records \union {Missing, Torn}]
    <3>1. Record(state, task[s].seen.job) \in Records
      BY <2>3, RecordType, Zenon
    <3> QED BY <2>b, <3>1 DEF TaskFillsFile, TypeOK
  <2>4. CASE TaskArms(s)
    <3>1. TaskAt(s, "armTorn", "recording") /\ TaskFillsFile(s, "armed")
      BY <2>4 DEF TaskArms
    <3>2. task' \in [Sessions -> TaskRec] /\ file' \in [Sessions -> Records \union {Missing, Torn}]
      BY <1>a, <2>a, <2>b, <3>1
    <3>3. armedMsg' \in [Sessions -> BOOLEAN]
      BY <2>4, Zenon DEF TaskArms, TypeOK
    <3>4. UNCHANGED <<proc, table, jobTable, finalMsg, work, jobFile, stage, snap, split, hist>>
      BY <2>4 DEF TaskArms
    <3> QED BY <3>2, <3>3, <3>4, Zenon DEF TypeOK
  <2>5. CASE TaskPublishes(s)
    <3>1. TaskAt(s, "recording", "renamed")
      BY <2>5 DEF TaskPublishes
    <3>2. task' \in [Sessions -> TaskRec]
      BY <2>a, <3>1
    <3>3. stage' \in [Sessions -> {"none", "staging", "quarantine"}]
      BY <2>5, Zenon DEF TaskPublishes, TypeOK
    <3>4. snap' \in [Snapshots -> SUBSET Parts]
      BY <2>5, Zenon DEF TaskPublishes, TypeOK
    <3>5. UNCHANGED <<proc, coord, work, file, jobFile, split, hist>>
      BY <2>5 DEF TaskPublishes
    <3> QED BY <3>2, <3>3, <3>4, <3>5, Zenon DEF TypeOK
  <2>6. CASE TaskReports(s)
    <3>1. TaskAt(s, "capTorn", "done") /\ TaskFillsFile(s, "captured")
      BY <2>6 DEF TaskReports
    <3>2. task' \in [Sessions -> TaskRec] /\ file' \in [Sessions -> Records \union {Missing, Torn}]
      BY <1>a, <2>a, <2>b, <3>1
    <3>3. finalMsg' \in [Sessions -> {"none", "failed", "published"}]
      BY <2>6, Zenon DEF TaskReports, TypeOK
    <3>4. UNCHANGED <<proc, table, jobTable, armedMsg, work, jobFile, stage, snap, split, hist>>
      BY <2>6 DEF TaskReports
    <3> QED BY <3>2, <3>3, <3>4, Zenon DEF TypeOK
  <2>7. CASE TaskFails(s)
    <3>1. task' \in [Sessions -> TaskRec]
      BY <2>7, TaskType, Zenon DEF TaskFails, TypeOK, TaskPCs
    <3>2. finalMsg' \in [Sessions -> {"none", "failed", "published"}]
      BY <2>7, Zenon DEF TaskFails, TypeOK
    <3>3. UNCHANGED <<proc, table, jobTable, armedMsg, work, disk, hist>>
      BY <2>7 DEF TaskFails
    <3> QED BY <3>1, <3>2, <3>3, Zenon DEF TypeOK
  <2> QED BY <1>19, <2>1, <2>2, <2>4, <2>5, <2>6, <2>7 DEF TaskStep
<1>20. ASSUME NEW s \in Sessions, WorkerStep(s) PROVE TypeOK'
  <2>1. CASE \E r \in {"ok", "err"} : WorkerDecides(s, r)
    <3>0. PICK r \in WorkPCs : work' = [work EXCEPT ![s].pc = r]
      BY <2>1, Zenon DEF WorkerDecides, WorkPCs
    <3>1. work' \in [Sessions -> WorkRec]
      BY <3>0, WorkType DEF TypeOK
    <3> QED BY <2>1, <3>1 DEF WorkerDecides, TypeOK
  <2>2. CASE WorkerTruncates(s)
    BY <2>2, WorkType DEF WorkerTruncates, TypeOK, WorkPCs
  <2>3. CASE WorkerReports(s)
    BY <1>a, <2>3, WorkType DEF WorkerReports, TypeOK, WorkPCs
  <2> QED BY <1>20, <2>1, <2>2, <2>3 DEF WorkerStep
<1>21. CASE UNCHANGED vars
    BY <1>21 DEF vars, TypeOK
<1> QED
    BY <1>1, <1>2, <1>3, <1>4, <1>5, <1>6, <1>7, <1>8, <1>9, <1>10, <1>11, <1>12, <1>13,
       <1>14, <1>16, <1>17, <1>18, <1>19, <1>20, <1>21 DEF Next, ProcStep

(***************************************************************************)
(* The inductive invariant.                                                *)
(***************************************************************************)
Up(p) == proc[p].st = "up"

\* flock: one server, and no reader beside it.
LockIsHeld ==
    /\ \A p, q \in Procs : Up(p) /\ Up(q) => p = q
    /\ \A p, q \in Procs : Up(p) => ~IsReading(q)
    /\ \A p \in Procs : IsReading(p) => proc[p].on \in Snapshots

\* A task is one of a started session whose last event is not handled yet; it
\* has renamed its directory before it says so.
Safe(s) == snap[s] = Parts \/ s \in pruned
TaskIsSound(s) ==
    /\ task[s] = NoTask \/ (task[s].pc # "none" /\ task[s].by \in Procs)
    /\ task[s].pc # "none" => s \in started /\ settled[s] = "none"
    /\ task[s].pc \in {"renamed", "capSeen", "capTorn"} => Safe(s)
    /\ finalMsg[s] = "published" => Safe(s)
    /\ settled[s] # "none" => s \in started

\* A worker is one of a captured session; what its job's file says follows
\* how far it has come.
WorkIsSound(s) ==
    /\ work[s] = NoWork \/ (work[s].pc # "none" /\ work[s].by \in Procs)
    /\ work[s].pc # "none" => settled[s] = "captured"
    /\ work[s].pc \in {"decoding", "ok", "err"} => jobFile[s] \in {"queued", "cancelled"}
    /\ work[s].pc \in {"okTorn", "errTorn"} => jobFile[s] \in {"torn", "cancelled"}
    /\ work[s].pc \in {"okSaid", "errSaid"} => jobFile[s] \in {"succeeded", "failed", "cancelled"}
    /\ work[s].pc \in {"decoding", "ok", "err", "okTorn", "errTorn"} =>
            jobTable[s] \notin {"succeeded", "failed"}

Captured(s) == "captured" \in {file[s].state, table[s].state} => Safe(s)
Settled(s) == settled[s] # "none" =>
    /\ file[s].state = settled[s]
    /\ table[s] # Missing => table[s].state = settled[s]
Alive(s) == table[s].state \in Capturing => task[s].pc # "none" /\ Up(task[s].by)
Finished(s) == jobTable[s] \in {"succeeded", "failed"} => jobFile[s] \notin {"queued", "running", "torn"}

SessionInv(s) ==
    Whole(s) /\ TaskIsSound(s) /\ WorkIsSound(s) /\ Captured(s) /\ Settled(s) /\ Alive(s) /\ Finished(s)

IInv == TypeOK /\ LockIsHeld /\ \A s \in Sessions : SessionInv(s)

\* What one session can see of a step that is not about it: its files stay, its
\* task, worker and event stay or are gone, a server forgets it altogether or
\* not at all, and a capturing session keeps its task and its server.
Kept(t) ==
    /\ file'[t] = file[t] /\ jobFile'[t] = jobFile[t] /\ settled'[t] = settled[t]
    /\ \/ table'[t] = table[t] /\ jobTable'[t] = jobTable[t]
       \/ table'[t] = Missing /\ jobTable'[t] = "none"
    /\ task'[t] \in {task[t], NoTask}
    /\ finalMsg'[t] \in {finalMsg[t], "none"}
    /\ work'[t] \in {work[t], NoWork}
    /\ Safe(t) => Safe(t)'
    /\ t \in started => t \in started'
    /\ table'[t].state \in Capturing => task'[t] = task[t] /\ Up(task[t].by)'

\* Such a step keeps the session's invariant.
LEMMA Frame ==
    ASSUME NEW t \in Sessions, SessionInv(t), Kept(t)
    PROVE  SessionInv(t)'
<1>1. Missing.state = "missing" /\ NoTask.pc = "none" /\ NoWork.pc = "none"
    BY DEF Missing, NoTask, NoWork
<1>2. Whole(t)'
    BY <1>1 DEF Kept, SessionInv, Whole
<1>3. TaskIsSound(t)'
    BY <1>1 DEF Kept, SessionInv, TaskIsSound
<1>4. WorkIsSound(t)'
    BY <1>1 DEF Kept, SessionInv, WorkIsSound
<1>5. Captured(t)'
    BY <1>1 DEF Kept, SessionInv, Captured
<1>6. Settled(t)'
    BY <1>1 DEF Kept, SessionInv, Settled
<1>7. Alive(t)'
    BY <1>1 DEF Kept, SessionInv, Alive, Capturing, Up
<1>8. Finished(t)'
    BY <1>1 DEF Kept, SessionInv, Finished
<1> QED BY <1>2, <1>3, <1>4, <1>5, <1>6, <1>7, <1>8 DEF SessionInv

\* Every step keeps the lock's meaning.
LEMMA LockStep == TypeOK /\ LockIsHeld /\ [Next]_vars => LockIsHeld'
<1> SUFFICES ASSUME TypeOK, LockIsHeld, [Next]_vars PROVE LockIsHeld'
    OBVIOUS
<1>1. CASE UNCHANGED proc
    BY <1>1 DEF LockIsHeld, Up, IsReading
<1>2. ASSUME NEW p \in Procs, NEW st \in {"closing", "gone"}, proc' = [proc EXCEPT ![p].st = st]
      PROVE  LockIsHeld'
    BY <1>2 DEF LockIsHeld, Up, IsReading, TypeOK, ProcRec
<1>3. ASSUME NEW p \in Procs, Serve(p) PROVE LockIsHeld'
    BY <1>3 DEF Serve, ExclusiveFree, LockIsHeld, Up, IsReading, TypeOK, ProcRec
<1>4. ASSUME NEW p \in Procs, NEW x \in Snapshots, CommandQueries(p, x) PROVE LockIsHeld'
    BY <1>4 DEF CommandQueries, SharedFree, LockIsHeld, Up, IsReading, TypeOK, ProcRec
<1>5. ASSUME NEW p \in Procs, ProcStep(p) PROVE LockIsHeld'
    BY <1>1, <1>2, <1>3, <1>4, <1>5 DEF ProcStep, Shutdown, Sweep, Exit, QueryDone, CommandPrunes,
       HandlePrune, KilledPruning, CommandImports, CommandImportKilled, HandleStart,
       HandleSnapshot, HandleCancelSession, HandleCancelJob, InternalArmed, InternalFailed,
       InternalPublishedBlocked, InternalPublished, InternalJobFinished, Close
<1>6. ASSUME NEW s \in Sessions, TaskStep(s) \/ WorkerStep(s) PROVE LockIsHeld'
    BY <1>1, <1>6 DEF TaskStep, WorkerStep, TaskReadsFile, TaskTruncatesFile, TaskArms,
       TaskPublishes, TaskReports, TaskFails, WorkerDecides, WorkerTruncates, WorkerReports
<1> QED BY <1>1, <1>5, <1>6 DEF Next, vars

-----------------------------------------------------------------------------
(***************************************************************************)
(* Every step keeps every session's invariant: the steps of processes by   *)
(* Frame, the others by Frame for all sessions but their own.              *)
(***************************************************************************)
SessionsInv == \A t \in Sessions : SessionInv(t)

\* Opening, closing and killing a process, the commands and the sweep.
LEMMA ProcessStep ==
    ASSUME TypeOK, LockIsHeld, SessionsInv, NEW p \in Procs,
           \/ Shutdown(p) \/ Sweep(p) \/ Exit(p) \/ QueryDone(p)
           \/ \E x \in Snapshots : \/ CommandPrunes(p, x) \/ CommandQueries(p, x)
                                  \/ HandlePrune(p, x) \/ KilledPruning(p, x)
           \/ \E b \in Bundles : CommandImports(p, b) \/ CommandImportKilled(p, b)
    PROVE  SessionsInv'
<1> SUFFICES ASSUME NEW t \in Sessions PROVE Kept(t)
    BY Frame DEF SessionsInv
<1> USE DEF coord, disk, hist
<1>1. /\ Alive(t) /\ TaskIsSound(t)
      /\ Missing.state \notin Capturing /\ NoTask.pc = "none"
    BY DEF SessionsInv, SessionInv, Missing, Capturing, NoTask
<1>2. table[t].state \in Capturing => task[t].by \in Procs /\ Up(task[t].by)
    BY <1>1 DEF Alive, TaskIsSound
<1>3. t \in Snapshots
    BY DEF Snapshots
\* a process that is not a server has no capturing session
<1>4. ASSUME ~Up(p), NEW st \in {"closing", "gone"}, proc' = [proc EXCEPT ![p].st = st],
             table[t].state \in Capturing
      PROVE  task[t].by # p /\ proc'[task[t].by].st = "up"
    BY <1>2, <1>4 DEF Up, TypeOK, ProcRec
<1>5. CASE Shutdown(p)
  <2>1. table'[t] = Missing /\ jobTable'[t] = "none"
    BY <1>5 DEF Shutdown
  <2> QED BY <1>1, <1>5, <2>1 DEF Shutdown, Kept, Safe
<1>6. CASE Sweep(p)
    BY <1>2, <1>6 DEF Sweep, Kept, Safe, Up
<1>7. CASE Exit(p)
  <2>1. UNCHANGED <<file, jobFile, settled, snap, pruned, started>>
    BY <1>7 DEF Exit
  <2>2. /\ task'[t] = IF task[t].by = p THEN NoTask ELSE task[t]
        /\ work'[t] = IF work[t].by = p THEN NoWork ELSE work[t]
        /\ finalMsg'[t] = IF task[t].by = p THEN "none" ELSE finalMsg[t]
    BY <1>7 DEF Exit, TasksDie
  <2>3. CASE Up(p)
    <3>1. table'[t] = Missing /\ jobTable'[t] = "none"
      BY <1>7, <2>3 DEF Exit, Up
    <3> QED BY <1>1, <2>1, <2>2, <3>1 DEF Kept, Safe
  <2>4. CASE ~Up(p)
    <3>1. table' = table /\ jobTable' = jobTable /\ proc' = [proc EXCEPT ![p].st = "gone"]
      BY <1>7, <2>4 DEF Exit, Up
    <3>2. table[t].state \in Capturing => task[t].by # p /\ proc'[task[t].by].st = "up"
      BY <1>4, <2>4, <3>1
    <3> QED BY <2>1, <2>2, <3>1, <3>2 DEF Kept, Safe, Up
  <2> QED BY <2>3, <2>4
<1>8. CASE QueryDone(p)
  <2>1. ~Up(p) /\ proc' = [proc EXCEPT ![p].st = "closing"]
    BY <1>8 DEF QueryDone, IsReading, Up
  <2> QED BY <1>4, <1>8, <2>1 DEF QueryDone, Kept, Safe, Up
<1>9. ASSUME NEW x \in Snapshots, CommandPrunes(p, x) PROVE Kept(t)
  <2>1. ~Up(p) /\ proc' = [proc EXCEPT ![p].st = "gone"]
    BY <1>9 DEF CommandPrunes, Up
  <2>2. Safe(t) => Safe(t)'
    BY <1>3, <1>9 DEF CommandPrunes, RemoveSnapshot, Safe, TypeOK
  <2> QED BY <1>4, <1>9, <2>1, <2>2 DEF CommandPrunes, Kept, Up
<1>10. ASSUME NEW x \in Snapshots, CommandQueries(p, x) PROVE Kept(t)
  <2>1. proc[p].st = "off" /\ proc' = [proc EXCEPT ![p] = [st |-> "reading", on |-> x]]
    BY <1>10 DEF CommandQueries
  <2>2. table[t].state \in Capturing => proc'[task[t].by].st = "up"
    BY <1>2, <2>1 DEF Up, TypeOK
  <2> QED BY <1>10, <2>2 DEF CommandQueries, Kept, Safe, Up
<1>11. ASSUME NEW x \in Snapshots, HandlePrune(p, x) PROVE Kept(t)
  <2>1. Safe(t) => Safe(t)'
    BY <1>3, <1>11 DEF HandlePrune, RemoveSnapshot, Safe, TypeOK
  <2> QED BY <1>2, <1>11, <2>1 DEF HandlePrune, Kept, Up
<1>12. ASSUME NEW x \in Snapshots, KilledPruning(p, x) PROVE Kept(t)
  <2>1. Safe(t) => Safe(t)'
    BY <1>3, <1>12 DEF KilledPruning, RemoveSnapshot, Safe, TypeOK
  <2> QED BY <1>1, <1>12, <2>1 DEF KilledPruning, TasksDie, Kept
<1>13. ASSUME NEW b \in Bundles, CommandImports(p, b) \/ CommandImportKilled(p, b) PROVE Kept(t)
  <2>1. ~Up(p) /\ proc' = [proc EXCEPT ![p].st = "gone"]
    BY <1>13 DEF CommandImports, CommandImportKilled, Up
  <2>2. Safe(t) => Safe(t)'
    <3>1. b \in Snapshots /\ Parts # {}
      BY DEF Snapshots, Parts
    <3>2. snap[t] = Parts => snap'[t] = Parts
      BY <1>3, <1>13, <3>1 DEF CommandImports, CommandImportKilled, TypeOK
    <3> QED BY <1>13, <3>2 DEF CommandImports, CommandImportKilled, Safe
  <2> QED BY <1>4, <1>13, <2>1, <2>2 DEF CommandImports, CommandImportKilled, Kept, Up
<1> QED BY <1>5, <1>6, <1>7, <1>8, <1>9, <1>10, <1>11, <1>12, <1>13

\* What load_persisted makes of a session file: a capture has failed, the
\* outcome of a session that ended is kept.
LEMMA LoadFacts ==
    ASSUME NEW f \in Records \union {Missing, Torn}
    PROVE  /\ LoadSession(f) \in Records \union {Missing}
           /\ LoadSession(f).state \notin Capturing
           /\ f.state \in Ended => LoadSession(f) = f
           /\ LoadSession(f).state = "captured" => f.state = "captured"
<1> USE DEF Capturing, Ended
<1>1. Missing.state = "missing" /\ Torn.state = "torn"
    BY DEF Missing, Torn
<1>2. CASE f \in {Missing, Torn}
    BY <1>1, <1>2 DEF LoadSession
<1>3. CASE f \in Records /\ f.state \in Capturing
  <2>1. LoadSession(f) = Record("failed", f.job) /\ Record("failed", f.job).state = "failed"
    BY <1>1, <1>3 DEF LoadSession, Record
  <2> QED BY <1>3, <2>1, LoadType
<1>4. CASE f \in Records /\ f.state \notin Capturing
    BY <1>1, <1>4, RecordType DEF LoadSession
<1> QED BY <1>2, <1>3, <1>4

\* A server that starts.
LEMMA ServeStep ==
    ASSUME TypeOK, SessionsInv, NEW p \in Procs, Serve(p)
    PROVE  SessionsInv'
<1> SUFFICES ASSUME NEW t \in Sessions PROVE SessionInv(t)'
    BY DEF SessionsInv
<1> USE DEF hist
<1> DEFINE l == LoadSession(file[t])
<1>1. /\ UNCHANGED <<task, finalMsg, work, jobFile, snap, pruned, started, settled>>
      /\ table'[t] = l
      /\ file'[t] = IF l = Missing THEN file[t] ELSE l
      /\ jobTable'[t] = IF jobFile[t] = "torn" THEN "none" ELSE jobFile[t]
    BY DEF Serve
<1>2. SessionInv(t)
    BY DEF SessionsInv
<1>3. /\ l \in Records \union {Missing} /\ l.state \notin Capturing
      /\ file[t].state \in Ended => l = file[t]
      /\ l.state = "captured" => file[t].state = "captured"
    BY LoadFacts DEF TypeOK
<1>4. settled[t] # "none" => settled[t] \in Ended
    BY DEF TypeOK
<1>5. Missing.state = "missing" /\ Torn.state = "torn" /\ Torn \notin Records
    BY DEF Missing, Torn, Records, Capturing, Ended
<1> HIDE DEF l
<1>6. Whole(t)'
    BY <1>1, <1>2, <1>3, <1>5 DEF SessionInv, Whole
<1>7. TaskIsSound(t)'
    BY <1>1, <1>2 DEF SessionInv, TaskIsSound, Safe
<1>8. WorkIsSound(t)'
    BY <1>1, <1>2 DEF SessionInv, WorkIsSound
<1>9. Captured(t)'
    BY <1>1, <1>2, <1>3 DEF SessionInv, Captured, Safe
<1>10. Settled(t)'
    BY <1>1, <1>2, <1>3, <1>4 DEF SessionInv, Settled
<1>11. Alive(t)'
    BY <1>1, <1>3 DEF Alive
<1>12. Finished(t)'
    BY <1>1, <1>2 DEF SessionInv, Finished
<1> QED BY <1>6, <1>7, <1>8, <1>9, <1>10, <1>11, <1>12 DEF SessionInv

\* A step about session s touches no other session and no process.
Others(s) ==
    /\ UNCHANGED proc
    /\ \A t \in Sessions \ {s} :
        /\ file'[t] = file[t] /\ jobFile'[t] = jobFile[t] /\ settled'[t] = settled[t]
        /\ table'[t] = table[t] /\ jobTable'[t] = jobTable[t] /\ task'[t] = task[t]
        /\ finalMsg'[t] = finalMsg[t] /\ work'[t] = work[t] /\ snap'[t] = snap[t]
        /\ (t \in started => t \in started')
    /\ UNCHANGED pruned

\* So only its own invariant is left to show.
LEMMA FrameOthers ==
    ASSUME SessionsInv, NEW s \in Sessions, Others(s), SessionInv(s)'
    PROVE  SessionsInv'
<1> SUFFICES ASSUME NEW t \in Sessions, t # s PROVE SessionInv(t)'
    BY DEF SessionsInv
<1>1. SessionInv(t)
    BY DEF SessionsInv
<1>2. Kept(t)
    BY <1>1 DEF Others, Kept, Safe, Up, SessionInv, Alive
<1> QED BY <1>1, <1>2, Frame

\* The coordinator's handlers of a request.
LEMMA HandlerStep ==
    ASSUME TypeOK, SessionsInv, NEW p \in Procs, NEW s \in Sessions,
           \/ HandleStart(p, s) \/ HandleSnapshot(p, s) \/ HandleCancelSession(p, s)
           \/ HandleCancelJob(p, s) \/ InternalArmed(p, s)
    PROVE  SessionsInv'
<1> USE DEF coord, disk, hist
<1>0. /\ SessionInv(s) /\ s \in Snapshots
      /\ \A ph \in Capturing \union Ended : \A j \in BOOLEAN :
            Record(ph, j).state = ph /\ Record(ph, j) # Missing /\ Record(ph, j) # Torn
      /\ Missing.state = "missing" /\ Torn.state = "torn" /\ NoTask.pc = "none"
      /\ table[s] \in Records \union {Missing} /\ Torn \notin Records \union {Missing}
    BY DEF SessionsInv, Snapshots, Record, Missing, Torn, NoTask, TypeOK, Records, Capturing, Ended
<1>j. table[s].job \in BOOLEAN
    BY <1>0, RecordType
<1> SUFFICES Others(s) /\ SessionInv(s)'
    BY FrameOthers
<1>1. CASE HandleStart(p, s)
  <2>1. Others(s)
    BY <1>1 DEF HandleStart, Persist, Others, TypeOK
  <2>2. /\ table'[s] = Record("starting", FALSE) /\ file'[s] = Record("starting", FALSE)
        /\ task'[s] = [pc |-> "starting", by |-> p, seen |-> Missing]
        /\ s \in started' /\ s \notin started /\ Up(p)
        /\ UNCHANGED <<proc, jobTable, finalMsg, work, jobFile, snap, pruned, settled>>
    BY <1>1 DEF HandleStart, Persist, TypeOK, Up
  <2>3. table'[s].state = "starting" /\ file'[s].state = "starting" /\ file'[s] # Torn
    BY <1>0, <2>2 DEF Capturing
  <2>4. settled[s] = "none" /\ work[s] = NoWork /\ NoWork.pc = "none"
    BY <1>0, <2>2 DEF SessionInv, TaskIsSound, WorkIsSound, NoWork
  <2>5. task'[s].pc = "starting" /\ task'[s].by = p
    BY <2>2
  <2>6. TaskIsSound(s)'
    BY <1>0, <2>2, <2>4, <2>5 DEF SessionInv, TaskIsSound, Safe
  <2>7. WorkIsSound(s)'
    BY <2>2, <2>4 DEF WorkIsSound
  <2> QED BY <1>0, <2>1, <2>2, <2>3, <2>4, <2>5, <2>6, <2>7
        DEF SessionInv, Whole, Captured, Settled, Alive, Finished, Up
<1>2. CASE HandleSnapshot(p, s)
  <2>1. Others(s)
    BY <1>2 DEF HandleSnapshot, Persist, SaveJob, Others, TypeOK
  <2>2. /\ table'[s] = Record("finalizing", TRUE) /\ file'[s] = Record("finalizing", TRUE)
        /\ jobTable'[s] = "queued" /\ jobFile'[s] = "queued" /\ table[s].state = "armed"
        /\ UNCHANGED <<proc, finalMsg, task, work, snap, pruned, settled, started>>
    BY <1>2 DEF HandleSnapshot, Persist, SaveJob, TypeOK
  <2>3. table'[s].state = "finalizing" /\ file'[s].state = "finalizing" /\ file'[s] # Torn
    BY <1>0, <2>2 DEF Capturing
  <2>4. settled[s] = "none" /\ task[s].pc # "none" /\ Up(task[s].by)
    BY <1>0, <2>2 DEF SessionInv, Settled, Alive, Capturing, TypeOK, Ended, TaskIsSound
  <2> QED BY <1>0, <2>1, <2>2, <2>3, <2>4 DEF SessionInv, Whole, TaskIsSound, WorkIsSound,
             Captured, Settled, Alive, Finished, Safe, Up
<1>3. CASE HandleCancelSession(p, s)
  <2>1. Others(s)
    BY <1>3 DEF HandleCancelSession, Persist, Others, TypeOK
  <2>2. /\ table'[s] = Record("cancelled", table[s].job) /\ file'[s] = Record("cancelled", table[s].job)
        /\ table[s].state \in Capturing
        /\ UNCHANGED <<proc, jobTable, finalMsg, task, work, jobFile, snap, pruned, settled, started>>
    BY <1>3 DEF HandleCancelSession, Persist, TypeOK
  <2>3. table'[s].state = "cancelled" /\ file'[s].state = "cancelled" /\ file'[s] # Torn
    BY <1>0, <1>j, <2>2 DEF Ended
  <2>4. settled[s] = "none"
    BY <1>0, <2>2 DEF SessionInv, Alive, TaskIsSound
  <2> QED BY <1>0, <2>1, <2>2, <2>3, <2>4 DEF SessionInv, Whole, TaskIsSound, WorkIsSound,
             Captured, Settled, Alive, Finished, Safe, Up, Capturing
<1>4. CASE HandleCancelJob(p, s)
  <2>1. Others(s)
    BY <1>4 DEF HandleCancelJob, SaveJob, Others, TypeOK
  <2>2. /\ jobTable'[s] = "cancelled" /\ jobFile'[s] = "cancelled"
        /\ UNCHANGED <<proc, table, finalMsg, task, work, file, snap, pruned, settled, started>>
    BY <1>4 DEF HandleCancelJob, SaveJob, TypeOK
  <2> QED BY <1>0, <2>1, <2>2 DEF SessionInv, Whole, TaskIsSound, WorkIsSound, Captured, Settled,
             Alive, Finished, Safe, Up
<1>5. CASE InternalArmed(p, s)
  <2>1. Others(s)
    BY <1>5 DEF InternalArmed, Persist, Others, TypeOK
  <2>2. /\ table'[s] \in {table[s], Record("armed", table[s].job)} /\ file'[s] = table'[s]
        /\ table'[s] = table[s] \/ table[s].state = "starting"
        /\ Up(p) /\ task[s].by = p
        /\ UNCHANGED <<proc, jobTable, finalMsg, task, work, jobFile, snap, pruned, settled, started>>
    BY <1>5 DEF InternalArmed, Receives, Persist, TypeOK, Up
  <2>3. task[s].pc # "none" /\ settled[s] = "none"
    BY <1>0, <2>2, ProcAssumption DEF SessionInv, TaskIsSound, NoTask
  <2>4. file'[s] # Torn /\ (table'[s] = table[s] \/ table'[s].state = "armed")
    BY <1>0, <1>j, <2>2 DEF Capturing
  <2> QED BY <1>0, <2>1, <2>2, <2>3, <2>4 DEF SessionInv, Whole, TaskIsSound, WorkIsSound,
             Captured, Settled, Alive, Finished, Safe, Up, Capturing
<1> QED BY <1>1, <1>2, <1>3, <1>4, <1>5

\* The capture's last event, and the worker's.
LEMMA InternalStep ==
    ASSUME TypeOK, SessionsInv, NEW p \in Procs, NEW s \in Sessions,
           \/ InternalFailed(p, s) \/ InternalPublishedBlocked(p, s)
           \/ InternalPublished(p, s) \/ InternalJobFinished(p, s)
    PROVE  SessionsInv'
<1> USE DEF disk, hist
<1>0. /\ SessionInv(s) /\ s \in Snapshots
      /\ \A ph \in Capturing \union Ended : \A j \in BOOLEAN :
            Record(ph, j).state = ph /\ Record(ph, j) # Missing /\ Record(ph, j) # Torn
      /\ NoTask.pc = "none" /\ NoWork.pc = "none"
    BY DEF SessionsInv, Snapshots, Record, Missing, Torn, NoTask, NoWork, Capturing, Ended
<1>j. table[s].job \in BOOLEAN
    BY RecordType DEF TypeOK
<1>r. Receives(p, s) => task[s].pc # "none" /\ settled[s] = "none" /\ s \in started /\ work[s].pc = "none"
    BY <1>0, ProcAssumption DEF Receives, SessionInv, TaskIsSound, WorkIsSound, NoTask
<1> SUFFICES Others(s) /\ SessionInv(s)'
    BY FrameOthers
<1>1. ASSUME NEW ph \in {"failed", "cancelled"}, Close(s, ph), Receives(p, s)
      PROVE  Others(s) /\ SessionInv(s)'
  <2>1. Others(s)
    BY <1>1 DEF Close, Persist, SaveJob, Others, TypeOK
  <2>2. /\ table'[s] = Record(ph, table[s].job) /\ file'[s] = Record(ph, table[s].job)
        /\ task'[s] = NoTask /\ finalMsg'[s] = "none" /\ settled'[s] = ph
        /\ \/ jobTable'[s] = jobTable[s] /\ jobFile'[s] = jobFile[s]
           \/ jobTable'[s] = "cancelled" /\ jobFile'[s] = "cancelled"
        /\ UNCHANGED <<proc, work, snap, pruned, started>>
    BY <1>1 DEF Close, Persist, SaveJob, TypeOK
  <2>3. table'[s].state = ph /\ file'[s].state = ph /\ file'[s] # Torn
    BY <1>0, <1>j, <2>2 DEF Ended
  <2> QED BY <1>0, <1>r, <1>1, <2>1, <2>2, <2>3 DEF SessionInv, Whole, TaskIsSound, WorkIsSound,
             Captured, Settled, Alive, Finished, Safe, Up, Capturing
<1>2. CASE InternalFailed(p, s)
    BY <1>1, <1>2 DEF InternalFailed
<1>3. CASE InternalPublishedBlocked(p, s)
    BY <1>1, <1>3 DEF InternalPublishedBlocked
<1>4. CASE InternalPublished(p, s)
  <2>1. Others(s)
    BY <1>4 DEF InternalPublished, Persist, Others, TypeOK
  <2>2. /\ table'[s] = Record("captured", TRUE) /\ file'[s] = Record("captured", TRUE)
        /\ task'[s] = NoTask /\ finalMsg'[s] = "none" /\ settled'[s] = "captured"
        /\ jobTable'[s] = "running" /\ jobFile'[s] = "queued"
        /\ work'[s] = [pc |-> "decoding", by |-> p]
        /\ finalMsg[s] = "published" /\ Receives(p, s)
        /\ UNCHANGED <<proc, snap, pruned, started>>
    BY <1>4 DEF InternalPublished, Persist, TypeOK
  <2>3. table'[s].state = "captured" /\ file'[s].state = "captured" /\ file'[s] # Torn
    BY <1>0, <2>2 DEF Ended
  <2>4. work'[s].pc = "decoding" /\ work'[s].by = p
    BY <2>2
  <2>5. TaskIsSound(s)'
    BY <1>0, <1>r, <2>2 DEF TaskIsSound, Safe
  <2>6. WorkIsSound(s)'
    BY <2>2, <2>4 DEF WorkIsSound
  <2>7. Captured(s)'
    BY <1>0, <2>2, <2>3 DEF SessionInv, TaskIsSound, Captured, Safe
  <2> QED BY <1>0, <2>1, <2>2, <2>3, <2>5, <2>6, <2>7
        DEF SessionInv, Whole, Settled, Alive, Finished, Capturing
<1>5. CASE InternalJobFinished(p, s)
  <2>1. Others(s)
    BY <1>5 DEF InternalJobFinished, Others, TypeOK
  <2>2. /\ work'[s] = NoWork /\ work[s].pc \in {"okSaid", "errSaid"}
        /\ UNCHANGED <<proc, table, file, jobFile, finalMsg, task, snap, pruned, started, settled>>
    BY <1>5 DEF InternalJobFinished, TypeOK
  <2> QED BY <1>0, <2>1, <2>2 DEF SessionInv, Whole, TaskIsSound, WorkIsSound, Captured, Settled,
             Alive, Finished, Safe, Up
<1> QED BY <1>2, <1>3, <1>4, <1>5

\* The steps of a capture task.
LEMMA TaskStepInv ==
    ASSUME TypeOK, SessionsInv, NEW s \in Sessions, TaskStep(s)
    PROVE  SessionsInv'
<1> USE DEF coord, disk, hist
<1>0. /\ SessionInv(s) /\ s \in Snapshots
      /\ \A ph \in Capturing \union Ended : \A j \in BOOLEAN :
            Record(ph, j).state = ph /\ Record(ph, j) # Torn
      /\ Torn.state = "torn" /\ NoTask.pc = "none"
    BY DEF SessionsInv, Snapshots, Record, Torn, NoTask, Capturing, Ended
<1>j. task[s].seen.job \in BOOLEAN
    BY RecordType DEF TypeOK, TaskRec
<1> SUFFICES Others(s) /\ SessionInv(s)'
    BY FrameOthers
\* what every step of a task leaves alone
<1>1. ASSUME UNCHANGED <<proc, table, jobTable, work, jobFile, pruned, settled, started>>,
             task[s].pc # "none", task'[s].pc # "none", task'[s].by = task[s].by,
             file'[s].state = "captured" => file[s].state = "captured" \/ Safe(s),
             Safe(s) => Safe(s)',
             task'[s].pc \in {"renamed", "capSeen", "capTorn"} => Safe(s)',
             finalMsg'[s] = "published" => finalMsg[s] = "published" \/ Safe(s),
             Whole(s)'
      PROVE  SessionInv(s)'
  <2>1. settled[s] = "none" /\ task[s].by \in Procs /\ s \in started /\ work[s].pc = "none"
    BY <1>0, <1>1 DEF SessionInv, TaskIsSound, WorkIsSound, NoTask
  <2>2. TaskIsSound(s)'
    BY <1>0, <1>1, <2>1 DEF SessionInv, TaskIsSound
  <2>3. WorkIsSound(s)' /\ Settled(s)' /\ Finished(s)'
    BY <1>0, <1>1, <2>1 DEF SessionInv, WorkIsSound, Settled, Finished
  <2>4. Captured(s)'
    BY <1>0, <1>1 DEF SessionInv, Captured
  <2>5. Alive(s)'
    BY <1>0, <1>1 DEF SessionInv, Alive, Up
  <2> QED BY <1>1, <2>2, <2>3, <2>4, <2>5 DEF SessionInv
<1>t. task[s].pc # "none" => task[s] \in TaskRec
    BY DEF TypeOK
<1>2. ASSUME NEW a, NEW b, TaskReadsFile(s, a, b),
             <<a, b>> \in {<<"starting", "armSeen">>, <<"renamed", "capSeen">>}
      PROVE  Others(s) /\ SessionInv(s)'
  <2>1. Others(s)
    BY <1>2 DEF TaskReadsFile, Others, TypeOK
  <2>2. task[s].pc = a /\ task'[s].pc = b /\ task'[s].by = task[s].by
    BY <1>2 DEF TaskReadsFile, TypeOK, TaskRec
  <2>3. UNCHANGED <<proc, table, jobTable, work, jobFile, pruned, settled, started, file, snap, finalMsg>>
    BY <1>2 DEF TaskReadsFile
  <2>4. Whole(s)' /\ (b = "capSeen" => Safe(s))
    BY <1>0, <1>2, <2>2, <2>3 DEF SessionInv, Whole, TaskIsSound
  <2>5. a # "none" /\ b # "none" /\ b \in {"armSeen", "capSeen"}
    BY <1>2
  <2> QED BY <1>1, <2>1, <2>2, <2>3, <2>4, <2>5 DEF Safe
<1>3. ASSUME NEW a, NEW b, TaskTruncatesFile(s, a, b),
             <<a, b>> \in {<<"armSeen", "armTorn">>, <<"capSeen", "capTorn">>}
      PROVE  Others(s) /\ SessionInv(s)'
  <2>1. Others(s)
    BY <1>3 DEF TaskTruncatesFile, TaskAt, Others, TypeOK
  <2>2. task[s].pc = a /\ task'[s].pc = b /\ task'[s].by = task[s].by /\ file'[s] = Torn
    BY <1>3 DEF TaskTruncatesFile, TaskAt, TypeOK, TaskRec
  <2>3. UNCHANGED <<proc, table, jobTable, work, jobFile, pruned, settled, started, snap, finalMsg>>
    BY <1>3 DEF TaskTruncatesFile
  <2>5. a # "none" /\ b \in {"armTorn", "capTorn"} /\ (b = "capTorn" => a = "capSeen")
    BY <1>3
  <2>4. Whole(s)' /\ (b = "capTorn" => Safe(s))
    BY <1>0, <2>2, <2>3, <2>5 DEF SessionInv, Whole, TaskIsSound
  <2> QED BY <1>0, <1>1, <2>1, <2>2, <2>3, <2>4, <2>5 DEF Safe
<1>4. ASSUME NEW st \in {"armed", "captured"}, TaskFillsFile(s, st)
      PROVE  /\ file'[s] # Torn
             /\ file'[s] = file[s] \/ file'[s].state = st
             /\ \A t \in Sessions \ {s} : file'[t] = file[t]
    BY <1>0, <1>j, <1>4 DEF TaskFillsFile, TypeOK, Capturing, Ended
<1>5. CASE TaskArms(s)
  <2>1. task[s].pc = "armTorn" /\ task'[s].pc = "recording" /\ task'[s].by = task[s].by
    BY <1>5 DEF TaskArms, TaskAt, TypeOK, TaskRec
  <2>2. /\ UNCHANGED <<proc, table, jobTable, work, jobFile, pruned, settled, started, snap, finalMsg>>
        /\ TaskFillsFile(s, "armed")
    BY <1>5 DEF TaskArms
  <2>3. Others(s)
    BY <1>4, <1>5, <2>2 DEF TaskArms, TaskAt, Others, TypeOK
  <2> QED BY <1>1, <1>4, <2>1, <2>2, <2>3 DEF Safe, Whole
<1>6. CASE TaskPublishes(s)
  <2>1. task[s].pc = "recording" /\ task'[s].pc = "renamed" /\ task'[s].by = task[s].by
    BY <1>6 DEF TaskPublishes, TaskAt, TypeOK, TaskRec
  <2>2. /\ UNCHANGED <<proc, table, jobTable, work, jobFile, pruned, settled, started, finalMsg, file>>
        /\ snap'[s] = Parts
    BY <1>0, <1>6 DEF TaskPublishes, TypeOK
  <2>3. Others(s)
    <3>1. \A t \in Sessions \ {s} : snap'[t] = snap[t] /\ task'[t] = task[t]
      BY <1>6 DEF TaskPublishes, TaskAt, TypeOK, Snapshots
    <3> QED BY <2>2, <3>1 DEF Others
  <2>4. Whole(s)'
    BY <1>0, <2>1, <2>2 DEF SessionInv, Whole
  <2> QED BY <1>1, <2>1, <2>2, <2>3, <2>4 DEF Safe
<1>7. CASE TaskReports(s)
  <2>1. task[s].pc = "capTorn" /\ task'[s].pc = "done" /\ task'[s].by = task[s].by
    BY <1>7 DEF TaskReports, TaskAt, TypeOK, TaskRec
  <2>2. /\ UNCHANGED <<proc, table, jobTable, work, jobFile, pruned, settled, started, snap>>
        /\ TaskFillsFile(s, "captured")
    BY <1>7 DEF TaskReports
  <2>3. Others(s)
    BY <1>4, <1>7, <2>2 DEF TaskReports, TaskAt, Others, TypeOK
  <2>4. Safe(s)
    BY <1>0, <2>1 DEF SessionInv, TaskIsSound
  <2>5. Whole(s)' /\ Safe(s)'
    BY <1>4, <2>2, <2>4 DEF Whole, Safe
  <2> QED BY <1>1, <2>1, <2>2, <2>3, <2>4, <2>5
<1>8. CASE TaskFails(s)
  <2>1. /\ task[s].pc \in {"starting", "armSeen", "recording", "capSeen"}
        /\ task'[s].pc = "done" /\ task'[s].by = task[s].by /\ finalMsg'[s] = "failed"
    BY <1>8 DEF TaskFails, TypeOK, TaskRec
  <2>2. UNCHANGED <<proc, table, jobTable, work, jobFile, file, pruned, settled, started, snap>>
    BY <1>8 DEF TaskFails
  <2>3. Others(s)
    BY <1>8 DEF TaskFails, Others, TypeOK
  <2>4. Whole(s)'
    BY <1>0, <2>1, <2>2 DEF SessionInv, Whole
  <2> QED BY <1>1, <2>1, <2>2, <2>3, <2>4 DEF Safe
<1> QED BY <1>2, <1>3, <1>5, <1>6, <1>7, <1>8 DEF TaskStep

\* The steps of a decode worker.
LEMMA WorkerStepInv ==
    ASSUME TypeOK, SessionsInv, NEW s \in Sessions, WorkerStep(s)
    PROVE  SessionsInv'
<1> USE DEF coord, disk, hist
<1>0. SessionInv(s) /\ NoWork.pc = "none"
    BY DEF SessionsInv, NoWork
<1> SUFFICES Others(s) /\ SessionInv(s)'
    BY FrameOthers
<1>1. ASSUME UNCHANGED <<proc, table, jobTable, task, finalMsg, file, snap, pruned, settled, started>>,
             work[s].pc # "none", work'[s].by = work[s].by, WorkIsSound(s)', Finished(s)'
      PROVE  SessionInv(s)'
    BY <1>0, <1>1 DEF SessionInv, Whole, TaskIsSound, Captured, Settled, Alive, Safe, Up
<1>2. ASSUME NEW r \in {"ok", "err"}, WorkerDecides(s, r) PROVE Others(s) /\ SessionInv(s)'
  <2>1. work[s].pc = "decoding" /\ work'[s].pc = r /\ work'[s].by = work[s].by
    BY <1>2 DEF WorkerDecides, TypeOK, WorkRec
  <2>2. UNCHANGED <<proc, table, jobTable, task, finalMsg, file, jobFile, snap, pruned, settled, started>>
    BY <1>2 DEF WorkerDecides
  <2>3. Others(s)
    BY <1>2 DEF WorkerDecides, Others, TypeOK
  <2>4. WorkIsSound(s)' /\ Finished(s)'
    BY <1>0, <2>1, <2>2 DEF SessionInv, WorkIsSound, Finished
  <2> QED BY <1>1, <2>1, <2>2, <2>3, <2>4
<1>3. CASE WorkerTruncates(s)
  <2>1. /\ work[s].pc \in {"ok", "err"} /\ work'[s].pc \in {"okTorn", "errTorn"}
        /\ work'[s].by = work[s].by /\ jobFile'[s] = "torn"
    BY <1>3 DEF WorkerTruncates, TypeOK, WorkRec
  <2>2. UNCHANGED <<proc, table, jobTable, task, finalMsg, file, snap, pruned, settled, started>>
    BY <1>3 DEF WorkerTruncates
  <2>3. Others(s)
    BY <1>3 DEF WorkerTruncates, Others, TypeOK
  <2>4. WorkIsSound(s)' /\ Finished(s)'
    BY <1>0, <2>1, <2>2 DEF SessionInv, WorkIsSound, Finished
  <2> QED BY <1>1, <2>1, <2>2, <2>3, <2>4
<1>4. CASE WorkerReports(s)
  <2>1. /\ work[s].pc \in {"okTorn", "errTorn"} /\ work'[s].pc \in {"okSaid", "errSaid"}
        /\ work'[s].by = work[s].by
        /\ \/ jobFile'[s] = jobFile[s] /\ jobFile[s] # "torn"
           \/ jobFile'[s] \in {"succeeded", "failed"}
    BY <1>4 DEF WorkerReports, TypeOK, WorkRec
  <2>2. UNCHANGED <<proc, table, jobTable, task, finalMsg, file, snap, pruned, settled, started>>
    BY <1>4 DEF WorkerReports
  <2>3. Others(s)
    BY <1>4 DEF WorkerReports, Others, TypeOK
  <2>4. WorkIsSound(s)' /\ Finished(s)'
    BY <1>0, <2>1, <2>2 DEF SessionInv, WorkIsSound, Finished
  <2> QED BY <1>1, <2>1, <2>2, <2>3, <2>4
<1> QED BY <1>2, <1>3, <1>4 DEF WorkerStep

\* The invariant holds at the start and every step keeps it.
LEMMA Inductive == Spec => []IInv
<1>1. Init => IInv
  <2> SUFFICES ASSUME Init PROVE IInv
    OBVIOUS
  <2>1. TypeOK
    BY NoneType, ProcAssumption DEF Init, TypeOK, ProcRec, Missing, Snapshots, Parts
  <2>2. LockIsHeld
    BY DEF Init, LockIsHeld, Up, IsReading
  <2>3. Missing.state = "missing" /\ Missing # Torn /\ NoTask.pc = "none" /\ NoWork.pc = "none"
    BY DEF Missing, Torn, NoTask, NoWork
  <2>4. ASSUME NEW s \in Sessions PROVE SessionInv(s)
    BY <2>3 DEF Init, SessionInv, Whole, TaskIsSound, WorkIsSound, Captured, Settled, Alive,
       Finished, Safe, Up, Capturing
  <2> QED BY <2>1, <2>2, <2>4 DEF IInv
<1>2. IInv /\ [Next]_vars => IInv'
  <2> SUFFICES ASSUME IInv, [Next]_vars PROVE IInv'
    OBVIOUS
  <2>1. TypeOK /\ LockIsHeld /\ SessionsInv /\ ReadsWhole
    BY DEF IInv, SessionsInv, SessionInv, ReadsWhole
  <2>2. TypeOK' /\ LockIsHeld'
    BY <2>1, TypeStep, LockStep
  <2>3. SessionsInv'
    <3>1. ASSUME NEW p \in Procs, ProcStep(p) PROVE SessionsInv'
      BY <2>1, <3>1, ProcessStep, ServeStep, HandlerStep, InternalStep DEF ProcStep
    <3>2. ASSUME NEW s \in Sessions, TaskStep(s) \/ WorkerStep(s) PROVE SessionsInv'
      BY <2>1, <3>2, TaskStepInv, WorkerStepInv
    <3>3. CASE UNCHANGED vars
      BY <2>1, <3>3 DEF vars, SessionsInv, SessionInv, Whole, TaskIsSound, WorkIsSound, Captured,
         Settled, Alive, Finished, Safe, Up, IsReading
    <3> QED BY <3>1, <3>2, <3>3 DEF Next
  <2> QED BY <2>2, <2>3 DEF IInv, SessionsInv
<1> QED BY <1>1, <1>2, PTL DEF Spec

-----------------------------------------------------------------------------
\* A captured session has its whole snapshot on disk through any crash, unless
\* somebody removed it (CapturedOnDisk): the rename precedes every write of
\* "captured", by the task, by Published and by a server that loads the file.
THEOREM CapturedKept == Spec => []CapturedOnDisk
<1>1. IInv => CapturedOnDisk
    BY DEF IInv, SessionInv, Captured, Safe, CapturedOnDisk
<1> QED BY <1>1, Inductive, PTL

\* The outcome a server gave a session is what every later server loads
\* (SettledSurvives): once the last event is handled no task is left to write
\* the session file in place.
THEOREM OutcomeSurvives == Spec => []SettledSurvives
<1>1. IInv => SettledSurvives
    BY DEF IInv, SessionInv, Settled, SettledSurvives
<1> QED BY <1>1, Inductive, PTL

\* A session shown as capturing has a task of the server that shows it
\* (CapturingIsAlive), also after a crash: load_persisted marks the others failed.
THEOREM CapturingAlive == Spec => []CapturingIsAlive
<1>1. IInv => CapturingIsAlive
    BY DEF IInv, SessionInv, Alive, Up, CapturingIsAlive
<1> QED BY <1>1, Inductive, PTL

\* Once JobFinished is handled the job's file no longer says that it waits
\* (FinishedJobHasEnded): the worker writes before it sends.
THEOREM FinishedJobEnded == Spec => []FinishedJobHasEnded
<1>1. IInv => FinishedJobHasEnded
    BY DEF IInv, SessionInv, Finished, FinishedJobHasEnded
<1> QED BY <1>1, Inductive, PTL

\* No step takes a file away from a reader or from a decode of a running server
\* (UsersKeepFiles): whoever removes one holds the exclusive lock.
THEOREM FilesKept == Spec => UsersKeepFiles
<1> DEFINE Readers == \A p \in Procs : IsReading(p) /\ proc'[p] = proc[p] =>
                            snap[proc[p].on] \subseteq snap'[proc[p].on]
           Decoders == \A s \in Sessions :
                (work[s].pc = "decoding" /\ work'[s] = work[s] /\ proc[work[s].by].st = "up"
                   /\ proc'[work[s].by].st = "up" /\ s \notin pruned')
                => (split[s] => split'[s])
<1>1. IInv /\ [Next]_vars => Readers
  <2> SUFFICES ASSUME IInv, [Next]_vars, NEW r \in Procs, IsReading(r)
               PROVE  snap[proc[r].on] \subseteq snap'[proc[r].on]
    OBVIOUS
  <2> USE DEF coord, disk, hist
  <2>1. /\ proc[r].on \in Snapshots
        /\ \A p \in Procs : proc[p].st # "up" /\ ~ExclusiveFree
    BY DEF IInv, LockIsHeld, Up, ExclusiveFree
  <2>2. CASE UNCHANGED snap
    BY <2>2
  <2>3. ASSUME NEW s \in Sessions, TaskPublishes(s)
        PROVE  snap[proc[r].on] \subseteq snap'[proc[r].on]
    BY <2>1, <2>3 DEF TaskPublishes, IInv, TypeOK
  <2>4. ASSUME NEW p \in Procs, ProcStep(p) PROVE UNCHANGED snap
    BY <2>1, <2>4 DEF ProcStep, Serve, Shutdown, Sweep, Exit, QueryDone, CommandPrunes,
       CommandQueries, HandlePrune, KilledPruning, CommandImports, CommandImportKilled,
       HandleStart, HandleSnapshot, HandleCancelSession, HandleCancelJob, InternalArmed,
       InternalFailed, InternalPublishedBlocked, InternalPublished, InternalJobFinished, Close, Receives
  <2>5. ASSUME NEW s \in Sessions, TaskStep(s) \/ WorkerStep(s), ~TaskPublishes(s) PROVE UNCHANGED snap
    BY <2>5 DEF TaskStep, WorkerStep, TaskReadsFile, TaskTruncatesFile, TaskArms,
       TaskReports, TaskFails, WorkerDecides, WorkerTruncates, WorkerReports
  <2> QED BY <2>2, <2>3, <2>4, <2>5 DEF Next, vars
<1>2. IInv /\ [Next]_vars => Decoders
  <2> SUFFICES ASSUME IInv, [Next]_vars, NEW d \in Sessions, work[d].pc = "decoding",
                      proc[work[d].by].st = "up", d \notin pruned'
               PROVE  split[d] => split'[d]
    OBVIOUS
  <2> USE DEF coord, disk, hist
  <2>1. ~ExclusiveFree /\ d \in Snapshots
    <3>1. work[d].by \in Procs
      BY DEF IInv, SessionInv, WorkIsSound, NoWork
    <3> QED BY <3>1 DEF ExclusiveFree, Snapshots
  <2>2. CASE UNCHANGED split
    BY <2>2
  <2>3. ASSUME NEW x \in Snapshots, NEW left, RemoveSnapshot(x, left) PROVE split[d] => split'[d]
    BY <2>1, <2>3 DEF RemoveSnapshot, IInv, TypeOK
  <2>4. ASSUME NEW p \in Procs, NEW s \in Sessions, InternalPublished(p, s) PROVE split[d] => split'[d]
    BY <2>1, <2>4 DEF InternalPublished, IInv, TypeOK
  <2>5. ASSUME NEW p \in Procs, ProcStep(p) PROVE split[d] => split'[d]
    BY <2>1, <2>2, <2>3, <2>4, <2>5 DEF ProcStep, Serve, Shutdown, Sweep, Exit, QueryDone,
       CommandPrunes,
       CommandQueries, HandlePrune, KilledPruning, CommandImports, CommandImportKilled,
       HandleStart, HandleSnapshot, HandleCancelSession, HandleCancelJob, InternalArmed,
       InternalFailed, InternalPublishedBlocked, InternalJobFinished, Close
  <2>6. ASSUME NEW s \in Sessions, TaskStep(s) \/ WorkerStep(s) PROVE UNCHANGED split
    BY <2>6 DEF TaskStep, WorkerStep, TaskReadsFile, TaskTruncatesFile, TaskArms, TaskPublishes,
       TaskReports, TaskFails, WorkerDecides, WorkerTruncates, WorkerReports
  <2> QED BY <2>2, <2>5, <2>6 DEF Next, vars
<1>3. IInv /\ [Next]_vars => [Readers /\ Decoders]_vars
    BY <1>1, <1>2
<1> QED BY <1>3, Inductive, PTL DEF Spec, UsersKeepFiles
=============================================================================
