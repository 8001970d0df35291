----------------------------- MODULE PidTracker -----------------------------
(***************************************************************************)
(* PidTracker of src/src/decode/perf_script.rs: which tasks of a recording *)
(* belong to the traced program.  A task is a pair <<pid, tid>>.  A launch *)
(* through perf begins in perf and in the launch shim, so a process counts *)
(* only once it has executed the target; threads the shim created never do.*)
(***************************************************************************)
EXTENDS Naturals

\* PidTracker::default().expecting_exec_of(exe)
ExpectingExec == [pids |-> {}, execDone |-> {}, preExec |-> {}, launch |-> TRUE]

\* PidTracker::with_root(pid): an attached process, or a direct bundle's root
WithRoot(pid) ==
    [pids |-> {pid}, execDone |-> {pid}, preExec |-> {}, launch |-> FALSE]

\* PERF_RECORD_COMM: perf-exec, the child perf forked for the workload
ObservePerfExec(t, task) ==
    [t EXCEPT !.pids = @ \union {task[1]},
              !.execDone = IF t.launch THEN @ ELSE @ \union {task[1]}]

\* PERF_RECORD_COMM with the target's name
ObserveExec(t, task) ==
    IF t.launch /\ task[1] \in t.pids
    THEN [t EXCEPT !.execDone = @ \union {task[1]}]
    ELSE t

\* PERF_RECORD_FORK of task by a thread of process ppid
ObserveFork(t, task, ppid) ==
    CASE ppid \notin t.pids -> t
      [] ppid \in t.pids /\ ppid = task[1] /\ task[2] # task[1] ->
            IF t.launch /\ ppid \notin t.execDone
            THEN [t EXCEPT !.preExec = @ \union {task}]
            ELSE t
      [] OTHER ->
            [t EXCEPT !.pids = @ \union {task[1]},
                      !.execDone = IF ppid \in @ THEN @ \union {task[1]} ELSE @]

\* PERF_RECORD_EXIT
ObserveExit(t, task) == [t EXCEPT !.preExec = @ \ {task}]

IsLive(t, pid) == pid \in t.pids /\ (~t.launch \/ pid \in t.execDone)

\* mutant: a process that has executed the target vouches for all its threads
MutIsLiveThread(t, task) == IsLive(t, task[1])

IsLiveThread(t, task) == IsLive(t, task[1]) /\ task \notin t.preExec

\* mapping_is_live; execed: the mapping is not older than exec_time of the
\* process, or the process has none
MappingIsLive(t, pid, execed) == IsLive(t, pid) /\ (t.launch => execed)
=============================================================================
