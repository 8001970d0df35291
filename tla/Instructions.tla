---------------------------- MODULE Instructions ----------------------------
(***************************************************************************)
(* InsnReconstructor of src/src/decode/instructions.rs, fed by perf script *)
(* with a program whose threads execute, fork, execute the target and exit,*)
(* and with decoder errors.  Each step of the program is one record, taken *)
(* by push as the merge delivers it.                                       *)
(*                                                                         *)
(* An instruction is an address; an image maps it to its kind, its branch  *)
(* target and the address behind it.  Time is the number of records.       *)
(***************************************************************************)
EXTENDS Naturals, Sequences, FiniteSets, PidTracker, ThreadIds

CONSTANTS
    Tasks,        \* tasks of the recording: pairs <<pid, tid>>
    Root,         \* the task perf starts, which becomes the target, or attaches to
    Recordings,   \* of "launch", "attach" and "cpu_wide"
    Images,       \* files that can be mapped
    Addrs,        \* addresses
    Code,         \* Code[image][address]: [kind, target, fall]
    MaxRecords,   \* bound: records in the stream
    None

ASSUME InsnAssumption ==
    /\ Recordings \subseteq {"launch", "attach", "cpu_wide"}
    /\ \A t \in Tasks : t = <<t[1], t[2]>>
    /\ Root \in Tasks /\ Root[1] = Root[2]   \* a process is named by its first thread
    /\ Addrs # {} /\ Images # {} /\ None \notin Addrs /\ None \notin Images
    /\ MaxRecords \in Nat
    /\ \A i \in Images, a \in Addrs :
        /\ Code[i][a].kind \in {"seq", "cond", "indirect"}
        /\ {Code[i][a].target, Code[i][a].fall} \subseteq Addrs

VARIABLES
    run,       \* each task: "none", "shim", "target" or "gone"
    at,        \* the address each task executes next
    image,     \* the image each process runs
    records,   \* records delivered so far
    tracker, ids, sel, \* pid_filter, thread_ids; sel_thread with sel_abs
    mapped,    \* mappings: the last one of each process
    told,      \* history: the processes whose mapping has been delivered
    symCache,  \* sym_cache: <<pid, address>> to an image
    seqBy,     \* seq_by_thread
    pending,   \* the record whose outcome each task's next sample decides
    out,       \* the instructions retained
    real,      \* history: what each retained instruction really did
    lastOf,    \* history: the last retained instruction of each task
    crossed    \* history: retained instructions with an exit or an overflow
               \* between them and their task's next sample

program == <<run, at, image>>
recon == <<ids, mapped, symCache, seqBy, pending, out>>
history == <<told, real, lastOf, crossed>>
insnVars == <<program, records, tracker, sel, recon, history>>

Pids == {t[1] : t \in Tasks}

\* What handle_decode asks of an instruction decode: a thread and a window, as
\* named and covered by the calls analysis.
Selections == [thread : {t[2] : t \in Tasks} \X {0, 1}, lo : {0, 3},
               hi : {MaxRecords}]

\* The tracker a decode begins with.  That of a CPU-wide launch has seen the
\* whole sideband once already: the target's exec, and the end of the threads
\* the shim created.
Tracker(recording) ==
    CASE recording = "launch" -> ObservePerfExec(ExpectingExec, Root)
      [] recording = "attach" -> WithRoot(Root[1])
      [] recording = "cpu_wide" ->
            ObserveExec(ObservePerfExec(ExpectingExec, Root), Root)

InsnInit ==
    /\ \E recording \in Recordings :
          /\ tracker = Tracker(recording)
          /\ run = [t \in Tasks |-> IF t # Root THEN "none"
                                    ELSE IF recording = "attach" THEN "target" ELSE "shim"]
          \* bound: a launch spends two records on getting as far
          /\ records = IF recording = "attach" THEN 2 ELSE 0
    /\ at = [t \in Tasks |-> CHOOSE a \in Addrs : TRUE]
    /\ image = [p \in Pids |-> CHOOSE i \in Images : TRUE]
    /\ ids = NoIds(Tasks) /\ sel \in Selections
    \* the mappings of the whole recording are collected first
    /\ mapped \in {[p \in Pids |-> i] : i \in Images \union {None}} /\ told = {} /\ symCache = << >>
    /\ seqBy = [t \in Tasks |-> 0]
    /\ pending = [t \in Tasks |-> 0] /\ out = << >>
    /\ real = << >> /\ lastOf = [t \in Tasks |-> 0] /\ crossed = {}

Deliver == records < MaxRecords /\ records' = records + 1
-----------------------------------------------------------------------------
\* selected: the thread, and the half-open window on the record's time
Selected(time, name) == name = sel.thread /\ sel.lo <= time /\ time < sel.hi

\* resolve_outcome, with what the pending conditional's task did next
Outcome(r, next) ==
    CASE next = None \/ r.target = r.fall -> "unknown"
      [] next # None /\ next = r.target /\ r.target # r.fall -> "taken"
      [] next # None /\ next = r.fall /\ r.target # r.fall -> "not taken"
      [] OTHER -> "unknown"

Resolve(o, tasks, next) ==
    [i \in DOMAIN o |->
        IF \E t \in tasks : pending[t] = i
        THEN [o[i] EXCEPT !.outcome = Outcome(o[i], next)]
        ELSE o[i]]

\* symbolize: through the cache, else the last mapping that covers the address
Symbol(pid, a) ==
    IF <<pid, a>> \in DOMAIN symCache THEN symCache[<<pid, a>>] ELSE mapped[pid]

Cached(pid, a) == [k \in DOMAIN symCache \union {<<pid, a>>} |->
                      IF k \in DOMAIN symCache THEN symCache[k] ELSE mapped[pid]]

\* decode_one and classify of the bytes the sample carries
Decoded(pid, a) == Code[image[pid]][a]

\* push of a sample: the sequence number, the outcome of the conditional before
\* it, the generation of a reused tid, and the record when it is selected
PushSample(t, next) ==
    IF ~IsLiveThread(tracker, t)
    THEN UNCHANGED <<recon, real, lastOf>>
    ELSE LET pid == t[1]
             a == at[t]
             seq == seqBy[t] + 1
             resolved == Resolve(out, {t}, a)
             named == TakeExited(ids, t)
             d == Decoded(pid, a)
             rec == [id |-> Len(out) + 1, thread |-> ThreadName(named, t), seq |-> seq,
                     time |-> records, ip |-> a,
                     kind |-> d.kind, target |-> d.target, fall |-> d.fall,
                     symbol |-> Symbol(pid, a), outcome |-> "none"]
         IN /\ ids' = named
            /\ seqBy' = [seqBy EXCEPT ![t] = IF t \in ids.exited THEN 1 ELSE seq]
            /\ IF Selected(records, rec.thread)
               THEN /\ out' = Append(resolved, rec)
                    /\ pending' = [pending EXCEPT ![t] =
                                      IF d.kind = "cond" THEN Len(out) + 1 ELSE 0]
                    /\ symCache' = Cached(pid, a)
                    /\ real' = Append(real, [next |-> next, image |-> image[pid],
                                             told |-> pid \in told, run |-> run[t],
                                             renamed |-> t \in ids.exited])
                    /\ lastOf' = [lastOf EXCEPT ![t] = Len(out) + 1]
               ELSE /\ out' = resolved
                    /\ pending' = [pending EXCEPT ![t] = 0]
                    /\ lastOf' = [lastOf EXCEPT ![t] = 0]
                    /\ UNCHANGED <<symCache, real>>
            /\ UNCHANGED mapped

\* mutant: an error that names no thread is only counted
MutPushError(tasks) ==
    IF tasks = Tasks
    THEN UNCHANGED recon
    ELSE /\ out' = Resolve(out, tasks, None)
         /\ pending' = [t \in Tasks |-> IF t \in tasks THEN 0 ELSE pending[t]]
         /\ seqBy' = [t \in Tasks |-> IF t \in tasks /\ seqBy[t] > 0
                                      THEN seqBy[t] + 1 ELSE seqBy[t]]
         /\ UNCHANGED <<ids, mapped, symCache>>

\* push of a decoder error: of one task, or of nobody in particular
PushError(tasks) ==
    /\ out' = Resolve(out, tasks, None)
    /\ pending' = [t \in Tasks |-> IF t \in tasks THEN 0 ELSE pending[t]]
    /\ seqBy' = [t \in Tasks |-> IF t \in tasks /\ seqBy[t] > 0
                                 THEN seqBy[t] + 1 ELSE seqBy[t]]
    /\ UNCHANGED <<ids, mapped, symCache>>

\* pid, if it is the launched process, has executed the target
Execed(pid) == pid = Root[1] => run[Root] = "target"

\* mutant: the cache outlives the mapping
MutPushMmap(pid) ==
    /\ mapped' = IF MappingIsLive(tracker, pid, Execed(pid))
                 THEN [mapped EXCEPT ![pid] = image'[pid]] ELSE mapped
    /\ UNCHANGED <<ids, symCache, seqBy, pending, out>>

\* push of a mapping: the newest wins, and the process's symbols are forgotten
PushMmap(pid) ==
    /\ IF MappingIsLive(tracker, pid, Execed(pid))
       THEN /\ mapped' = [mapped EXCEPT ![pid] = image'[pid]]
            /\ symCache' = [k \in {k \in DOMAIN symCache : k[1] # pid} |-> symCache[k]]
       ELSE UNCHANGED <<mapped, symCache>>
    /\ UNCHANGED <<ids, seqBy, pending, out>>
-----------------------------------------------------------------------------
(* The program, as the recording shows it.                                 *)

Runs(t) == run[t] \in {"shim", "target"}

Next1(t) == LET c == Decoded(t[1], at[t])
            IN CASE c.kind = "seq"  -> {c.fall}
                 [] c.kind = "cond" -> {c.target, c.fall}
                 [] OTHER           -> Addrs

\* a thread executes an instruction, which is sampled
Executes(t) ==
    /\ Runs(t) /\ Deliver
    /\ \E next \in Next1(t) : PushSample(t, next) /\ at' = [at EXCEPT ![t] = next]
    /\ UNCHANGED <<run, image, tracker, sel, told, crossed>>

\* instructions of a thread are not decoded: the decoder says so, with the
\* thread or without
Undecoded(t) ==
    /\ Runs(t) /\ Deliver
    /\ \E a \in Addrs : at' = [at EXCEPT ![t] = a]
    /\ \E tasks \in {{t}, Tasks} : PushError(tasks)
    /\ UNCHANGED <<run, image, tracker, sel, history>>

\* the recorder overflows: what push gets is a Lost record, which it ignores
Overflows(t) ==
    /\ Runs(t) /\ Deliver
    /\ \E a \in Addrs : at' = [at EXCEPT ![t] = a]
    /\ crossed' = crossed \union {lastOf[t]}
    /\ UNCHANGED <<run, image, tracker, sel, recon, told, real, lastOf>>

\* a thread creates a thread of its process, or forks; the kernel gives a tid to
\* one thread at a time and a pid to one process
Forks(t, new) ==
    /\ Runs(t) /\ ~Runs(new) /\ Deliver
    /\ \A u \in Tasks : Runs(u) => u[2] # new[2]
    /\ \/ new[1] = t[1]
       \/ new[1] = new[2] /\ \A u \in Tasks : Runs(u) => u[1] # new[1]
    /\ run[t] = "shim" => new[1] = t[1]       \* the shim only creates threads,
    /\ t[1] = Root[1] => run[t] = run[Root]   \* which end when it executes the target
    /\ run' = [run EXCEPT ![new] = run[t]]
    /\ image' = [image EXCEPT ![new[1]] = image[t[1]]]
    /\ \E a \in Addrs : at' = [at EXCEPT ![new] = a]
    /\ tracker' = ObserveFork(tracker, new, t[1])
    /\ told' = IF new[1] = t[1] THEN told ELSE told \ {new[1]}   \* a new process
    /\ UNCHANGED <<sel, recon, real, lastOf, crossed>>

\* A thread exits: its generation ends.
Exits(t) ==
    /\ Runs(t) /\ t # Root /\ Deliver
    /\ run' = [run EXCEPT ![t] = "gone"]
    /\ tracker' = ObserveExit(tracker, t)
    /\ ids' = Observe(ids, t)
    /\ crossed' = crossed \union {lastOf[t]}
    /\ UNCHANGED <<at, image, sel, mapped, symCache, seqBy, pending, out, told, real,
                   lastOf>>

\* The shim executes the target.  Its other threads run on in the record
\* until their exit is seen.
ExecsTarget ==
    /\ run[Root] = "shim" /\ Deliver
    /\ run' = [run EXCEPT ![Root] = "target"]
    /\ tracker' = ObserveExec(tracker, Root)
    /\ UNCHANGED <<at, image, sel, recon, history>>

\* code is mapped over code
Remaps(t) ==
    /\ Runs(t) /\ Deliver
    /\ \E i \in Images : image' = [image EXCEPT ![t[1]] = i]
    /\ told' = IF MappingIsLive(tracker, t[1], Execed(t[1])) THEN told \union {t[1]} ELSE told
    /\ UNCHANGED <<run, at, tracker, sel, real, lastOf, crossed>>
    /\ PushMmap(t[1])

InsnNext ==
    \/ \E t \in Tasks : \/ Executes(t) \/ Undecoded(t) \/ Overflows(t)
                        \/ Exits(t) \/ Remaps(t)
                        \/ \E new \in Tasks : Forks(t, new)
    \/ ExecsTarget

InsnSpec == InsnInit /\ [][InsnNext]_insnVars
-----------------------------------------------------------------------------
\* insn_selected: the part of the analysis a query asks for, as indices of out
Window(lo, hi) == {i \in DOMAIN out : lo <= out[i].time /\ out[i].time < hi}

\* aggregate_branches: an indirect branch's target is the next record of the part
\* when it is the same thread's next instruction
Follows(part, i, j) ==
    /\ i < j /\ \A k \in part : k <= i \/ j <= k
    /\ out[j].thread = out[i].thread /\ out[j].seq = out[i].seq + 1

Targets(part) ==
    {<<p[1], out[p[2]].ip>> : p \in {p \in part \X part :
        out[p[1]].kind = "indirect" /\ Follows(part, p[1], p[2])}}

\* The outcome of a retained conditional is what the thread did next, and its
\* symbol is from the image mapped then, in a process whose mappings were
\* recorded; when neither an exit nor an overflow hid the next instruction
\* (InsnReconstructor::push, symbolize).
OutcomesAreTrue ==
    \A i \in DOMAIN out \ crossed :
        /\ out[i].outcome = "taken" => real[i].next = out[i].target
        /\ out[i].outcome = "not taken" => real[i].next = out[i].fall
        /\ real[i].told => out[i].symbol = real[i].image

\* A target the branches query reports, for whatever window of the analysis, is
\* one the branch really went to (aggregate_branches), with the same exception;
\* the first instruction of a reused tid is another, as its sequence number
\* still counts from the thread that exited.
TargetsAreTrue ==
    \A lo, hi \in 0..MaxRecords : \A x \in Targets(Window(lo, hi)) :
        x[1] \notin crossed /\ ~real[x[1]].renamed => real[x[1]].next = x[2]

\* What the instruction analysis says of branches happened.
BranchesAreTrue == OutcomesAreTrue /\ TargetsAreTrue

\* Every retained instruction is the target's own: nothing the launch shim or
\* its threads executed is reported (PidTracker).
OnlyTarget == \A i \in DOMAIN real : real[i].run = "target"
=============================================================================
