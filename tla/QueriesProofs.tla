--------------------------- MODULE QueriesProofs ---------------------------
(***************************************************************************)
(* Instructions and queries, proved for any tasks, images and code, any    *)
(* threads and functions, and any number of records, spans and pages: what *)
(* the instruction reconstructor retains, what a client that follows its   *)
(* cursors sees while further decodes are published, what a comparison     *)
(* reports, and what a thread is said to have executed at an instant.      *)
(***************************************************************************)
EXTENDS Queries, FiniteSetTheorems, TLAPS

(***************************************************************************)
(* Types.                                                                  *)
(***************************************************************************)
Trackers == [pids : SUBSET Pids, execDone : SUBSET Pids, preExec : SUBSET Tasks,
             launch : BOOLEAN]
IdTables == [generation : [Tasks -> Nat], exited : SUBSET Tasks]
ThreadNames == {t[2] : t \in Tasks} \X Nat
Insns    == [id : Nat, thread : ThreadNames, seq : Nat, time : Nat, ip : Addrs,
             kind : {"seq", "cond", "indirect"}, target : Addrs, fall : Addrs,
             symbol : Images \union {None},
             outcome : {"none", "taken", "not taken", "unknown"}]
Truths   == [next : Addrs, image : Images, told : BOOLEAN,
             run : {"shim", "target"}, renamed : BOOLEAN]

ProgramType ==
    /\ run \in [Tasks -> {"none", "shim", "target", "gone"}]
    /\ at \in [Tasks -> Addrs] /\ image \in [Pids -> Images]
    /\ records \in Nat /\ told \subseteq Pids
TrackerType == tracker \in Trackers /\ ids \in IdTables /\ sel \in Selections
SymbolType ==
    /\ mapped \in [Pids -> Images \union {None}]
    /\ DOMAIN symCache \subseteq Pids \X Addrs
    /\ symCache \in [DOMAIN symCache -> Images \union {None}]
OutType ==
    /\ seqBy \in [Tasks -> Nat]
    /\ out \in Seq(Insns) /\ real \in Seq(Truths) /\ Len(real) = Len(out)
LinkType ==
    /\ pending \in [Tasks -> Nat] /\ lastOf \in [Tasks -> Nat] /\ crossed \subseteq Nat

TypeOK == ProgramType /\ TrackerType /\ SymbolType /\ OutType /\ LinkType

\* What the tracker's observers return.
LEMMA TrackerTypes ==
    ASSUME NEW k \in Trackers, NEW t \in Tasks, NEW p \in Pids
    PROVE  /\ ObserveFork(k, t, p) \in Trackers
           /\ ObserveExit(k, t) \in Trackers
           /\ ObserveExec(k, t) \in Trackers
           /\ ObservePerfExec(k, t) \in Trackers
<1>1. t[1] \in Pids
    BY DEF Pids
<1>2. ObserveFork(k, t, p) \in Trackers
    BY <1>1 DEF ObserveFork, Trackers
<1>3. ObserveExit(k, t) \in Trackers /\ ObserveExec(k, t) \in Trackers
    BY <1>1 DEF ObserveExit, ObserveExec, Trackers
<1>4. ObservePerfExec(k, t) \in Trackers
    BY <1>1 DEF ObservePerfExec, Trackers
<1> QED BY <1>2, <1>3, <1>4

\* The tracker a decode begins with is one.
LEMMA TrackerStart ==
    ASSUME NEW r \in {"launch", "attach", "cpu_wide"}
    PROVE  Tracker(r) \in Trackers
<1>1. Root \in Tasks /\ Root[1] \in Pids
    BY InsnAssumption DEF Pids
<1>2. ExpectingExec \in Trackers /\ WithRoot(Root[1]) \in Trackers
  <2>1. TRUE \in BOOLEAN /\ FALSE \in BOOLEAN
    OBVIOUS
  <2> QED BY <1>1, <2>1, Zenon DEF ExpectingExec, WithRoot, Trackers
<1> QED BY <1>1, <1>2, TrackerTypes, InsnAssumption DEF Tracker

\* What a step of the program makes of the tracker: processes and executions
\* are never forgotten, and no thread that runs becomes one from before the
\* exec.
Grown ==
    /\ tracker'.launch = tracker.launch
    /\ tracker.pids \subseteq tracker'.pids /\ tracker.execDone \subseteq tracker'.execDone
    /\ \A u \in Tasks : Runs(u) /\ u \in tracker'.preExec => u \in tracker.preExec

\* The target, once executed, is what the root runs.
Stays == run[Root] = "target" => run'[Root] = "target"

\* Every step only lets the tracker grow.
LEMMA TrackerGrows == ASSUME TypeOK, [InsnNext]_insnVars PROVE Grown /\ Stays
<1> USE DEF TypeOK, ProgramType, TrackerType
<1>0. \A t \in Tasks : t[1] \in Pids
    BY DEF Pids
<1>1. ASSUME UNCHANGED <<run, tracker>>
      PROVE  Grown /\ Stays
    BY <1>1 DEF Grown, Stays
<1>2. ASSUME NEW t \in Tasks, NEW new \in Tasks, Forks(t, new)
      PROVE  Grown /\ Stays
  <2>1. tracker' = ObserveFork(tracker, new, t[1]) /\ ~Runs(new)
    BY <1>2 DEF Forks
  <2>2. Grown
    BY <2>1 DEF ObserveFork, Trackers, Grown
  <2>3. Stays
    BY <1>2, InsnAssumption DEF Forks, Stays, Runs
  <2> QED BY <2>2, <2>3
<1>3. ASSUME NEW t \in Tasks, Exits(t)
      PROVE  Grown /\ Stays
  <2>1. Grown
    BY <1>3 DEF Exits, ObserveExit, Trackers, Grown
  <2>2. Stays
    BY <1>3, InsnAssumption DEF Exits, Stays
  <2> QED BY <2>1, <2>2
<1>4. CASE ExecsTarget
  <2>1. Grown
    BY <1>4 DEF ExecsTarget, ObserveExec, Trackers, Grown
  <2>2. Stays
    BY <1>4 DEF ExecsTarget, Stays
  <2> QED BY <2>1, <2>2
<1> QED BY <1>1, <1>2, <1>3, <1>4 DEF InsnNext, Executes, Undecoded, Overflows, Remaps,
        insnVars, program

-----------------------------------------------------------------------------
\* Two retained instructions that differ at most in the branch's outcome.
SameInsn(r, o) ==
    /\ r.id = o.id /\ r.thread = o.thread /\ r.seq = o.seq /\ r.time = o.time /\ r.ip = o.ip
    /\ r.kind = o.kind /\ r.target = o.target /\ r.fall = o.fall /\ r.symbol = o.symbol

\* resolve_outcome decides the outcome of what is pending, and nothing else.
LEMMA ResolveFacts ==
    ASSUME out \in Seq(Insns), NEW tasks, NEW next
    PROVE  /\ Resolve(out, tasks, next) \in Seq(Insns)
           /\ Len(Resolve(out, tasks, next)) = Len(out)
           /\ \A i \in 1..Len(out) :
                /\ SameInsn(Resolve(out, tasks, next)[i], out[i])
                /\ Resolve(out, tasks, next)[i].outcome =
                      IF \E t \in tasks : pending[t] = i THEN Outcome(out[i], next)
                                                          ELSE out[i].outcome
<1> DEFINE r == Resolve(out, tasks, next)
<1>1. DOMAIN out = 1..Len(out) /\ Len(out) \in Nat /\ \A i \in 1..Len(out) : out[i] \in Insns
    OBVIOUS
<1>2. r = [i \in 1..Len(out) |-> IF \E t \in tasks : pending[t] = i
                                 THEN [out[i] EXCEPT !.outcome = Outcome(out[i], next)]
                                 ELSE out[i]]
    BY <1>1 DEF Resolve
<1>3. ASSUME NEW o \in Insns
      PROVE  /\ [o EXCEPT !.outcome = Outcome(o, next)] \in Insns
             /\ SameInsn([o EXCEPT !.outcome = Outcome(o, next)], o) /\ SameInsn(o, o)
             /\ [o EXCEPT !.outcome = Outcome(o, next)].outcome = Outcome(o, next)
  <2>1. Outcome(o, next) \in {"none", "taken", "not taken", "unknown"}
    BY DEF Outcome
  <2> QED BY <2>1 DEF Insns, SameInsn
<1> HIDE DEF r
<1>4. r \in Seq(Insns) /\ Len(r) = Len(out)
  <2>1. r \in [1..Len(out) -> Insns]
    BY <1>1, <1>2, <1>3
  <2> QED BY <1>1, <2>1
<1>5. ASSUME NEW i \in 1..Len(out)
      PROVE  /\ SameInsn(r[i], out[i])
             /\ r[i].outcome = IF \E t \in tasks : pending[t] = i THEN Outcome(out[i], next)
                                                                  ELSE out[i].outcome
  <2>1. CASE \E t \in tasks : pending[t] = i
    BY <1>1, <1>2, <1>3, <2>1
  <2>2. CASE ~\E t \in tasks : pending[t] = i
    BY <1>1, <1>2, <1>3, <2>2
  <2> QED BY <2>1, <2>2
<1> QED BY <1>4, <1>5 DEF r

\* The record a sample of t gives.
NewInsn(t) ==
    [id |-> Len(out) + 1, thread |-> ThreadName(TakeExited(ids, t), t), seq |-> seqBy[t] + 1,
     time |-> records, ip |-> at[t],
     kind |-> Decoded(t[1], at[t]).kind, target |-> Decoded(t[1], at[t]).target,
     fall |-> Decoded(t[1], at[t]).fall,
     symbol |-> Symbol(t[1], at[t]), outcome |-> "none"]
NewTruth(t, next) == [next |-> next, image |-> image[t[1]], told |-> t[1] \in told,
                      run |-> run[t], renamed |-> t \in ids.exited]

\* What a sample of t changes when it is not retained, and when it is.
Passed(t) ==
    /\ ~Selected(records, NewInsn(t).thread)
    /\ ids' = TakeExited(ids, t)
    /\ seqBy' = [seqBy EXCEPT ![t] = IF t \in ids.exited THEN 1 ELSE seqBy[t] + 1]
    /\ out' = Resolve(out, {t}, at[t])
    /\ pending' = [pending EXCEPT ![t] = 0] /\ lastOf' = [lastOf EXCEPT ![t] = 0]
    /\ UNCHANGED <<symCache, mapped, real>>
Retained(t, next) ==
    /\ Selected(records, NewInsn(t).thread)
    /\ ids' = TakeExited(ids, t)
    /\ seqBy' = [seqBy EXCEPT ![t] = IF t \in ids.exited THEN 1 ELSE seqBy[t] + 1]
    /\ out' = Append(Resolve(out, {t}, at[t]), NewInsn(t))
    /\ pending' = [pending EXCEPT ![t] = IF NewInsn(t).kind = "cond" THEN Len(out) + 1 ELSE 0]
    /\ lastOf' = [lastOf EXCEPT ![t] = Len(out) + 1]
    /\ symCache' = Cached(t[1], at[t])
    /\ real' = Append(real, NewTruth(t, next))
    /\ UNCHANGED mapped

\* A sample is dropped, passed or retained.
LEMMA PushCases ==
    ASSUME NEW t \in Tasks, NEW next, PushSample(t, next)
    PROVE  \/ ~IsLiveThread(tracker, t) /\ UNCHANGED <<recon, real, lastOf>>
           \/ IsLiveThread(tracker, t) /\ Passed(t)
           \/ IsLiveThread(tracker, t) /\ Retained(t, next)
<1>1. CASE ~IsLiveThread(tracker, t)
    BY <1>1 DEF PushSample
<1>2. CASE IsLiveThread(tracker, t)
  <2>1. NewInsn(t).thread = ThreadName(TakeExited(ids, t), t)
        /\ NewInsn(t).kind = Decoded(t[1], at[t]).kind
    BY DEF NewInsn
  <2>2. CASE Selected(records, ThreadName(TakeExited(ids, t), t))
    BY <1>2, <2>1, <2>2 DEF PushSample, Retained, NewTruth, NewInsn
  <2>3. CASE ~Selected(records, ThreadName(TakeExited(ids, t), t))
    BY <1>2, <2>1, <2>3 DEF PushSample, Passed
  <2> QED BY <2>2, <2>3
<1> QED BY <1>1, <1>2

\* The parts of a record are what the images and tables hold.
LEMMA NewTypes ==
    ASSUME TypeOK, NEW t \in Tasks, NEW next \in Addrs, Runs(t)
    PROVE  /\ NewInsn(t) \in Insns /\ NewTruth(t, next) \in Truths
           /\ Decoded(t[1], at[t]).target \in Addrs /\ Decoded(t[1], at[t]).fall \in Addrs
           /\ TakeExited(ids, t) \in IdTables /\ t[1] \in Pids
           /\ Next1(t) \subseteq Addrs
<1> USE DEF TypeOK
<1>1. t[1] \in Pids /\ at[t] \in Addrs /\ image[t[1]] \in Images
    BY DEF Pids, ProgramType
<1>2. /\ Decoded(t[1], at[t]).target \in Addrs /\ Decoded(t[1], at[t]).fall \in Addrs
      /\ Decoded(t[1], at[t]).kind \in {"seq", "cond", "indirect"}
    BY <1>1, InsnAssumption DEF Decoded
<1>3. TakeExited(ids, t) \in IdTables
    BY DEF TakeExited, TrackerType, IdTables
<1>4. ThreadName(TakeExited(ids, t), t) \in ThreadNames
    BY <1>3 DEF ThreadName, IdTables, ThreadNames
<1>5. Symbol(t[1], at[t]) \in Images \union {None}
    BY <1>1 DEF Symbol, SymbolType
<1>6. seqBy[t] + 1 \in Nat /\ Len(out) + 1 \in Nat /\ records \in Nat
    BY DEF OutType, ProgramType
<1>7. NewInsn(t) \in Insns
    BY <1>1, <1>2, <1>4, <1>5, <1>6 DEF NewInsn, Insns
<1>8. NewTruth(t, next) \in Truths
  <2>1. run[t] \in {"shim", "target"}
    BY DEF Runs
  <2>2. ASSUME NEW b \in BOOLEAN, NEW c \in BOOLEAN
        PROVE  [next |-> next, image |-> image[t[1]], told |-> b, run |-> run[t], renamed |-> c]
                   \in Truths
    BY <1>1, <2>1 DEF Truths
  <2>3. (t[1] \in told) \in BOOLEAN /\ (t \in ids.exited) \in BOOLEAN
    OBVIOUS
  <2> QED BY <2>2, <2>3, Zenon DEF NewTruth
<1>9. Next1(t) \subseteq Addrs
    BY <1>2 DEF Next1
<1> QED BY <1>1, <1>2, <1>3, <1>7, <1>8, <1>9

\* Every step keeps the types.
LEMMA TypeStep == ASSUME TypeOK, [InsnNext]_insnVars PROVE TypeOK'
<1>a. \A t \in Tasks : t[1] \in Pids
    BY DEF Pids
<1>1. ASSUME NEW t \in Tasks, Executes(t) PROVE TypeOK'
  <2>1. PICK next \in Next1(t) : PushSample(t, next) /\ at' = [at EXCEPT ![t] = next]
    BY <1>1 DEF Executes
  <2>2. next \in Addrs /\ Runs(t)
    BY <1>1, <2>1, NewTypes, InsnAssumption DEF Executes
  <2>3. ProgramType' /\ records' = records + 1 /\ UNCHANGED <<tracker, sel, crossed>>
    BY <1>1, <2>1, <2>2 DEF Executes, Deliver, TypeOK, ProgramType
  <2>4. CASE UNCHANGED <<recon, real, lastOf>>
    BY <2>3, <2>4 DEF TypeOK, TrackerType, SymbolType, OutType, LinkType, recon
  <2>5. /\ Resolve(out, {t}, at[t]) \in Seq(Insns)
        /\ Len(Resolve(out, {t}, at[t])) = Len(out)
    BY ResolveFacts DEF TypeOK, OutType
  <2>6. /\ NewInsn(t) \in Insns /\ NewTruth(t, next) \in Truths
        /\ TakeExited(ids, t) \in IdTables
    BY <2>2, NewTypes
  <2>7. CASE Passed(t)
    <3>1. TrackerType' /\ SymbolType'
      BY <2>3, <2>6, <2>7 DEF Passed, TypeOK, TrackerType, SymbolType
    <3>2. OutType' /\ LinkType'
      BY <2>3, <2>5, <2>7 DEF Passed, TypeOK, OutType, LinkType
    <3> QED BY <2>3, <3>1, <3>2 DEF TypeOK
  <2>8. CASE Retained(t, next)
    <3>1. TrackerType'
      BY <2>3, <2>6, <2>8 DEF Retained, TypeOK, TrackerType
    <3>2. SymbolType'
      <4>1. t[1] \in Pids /\ at[t] \in Addrs /\ mapped[t[1]] \in Images \union {None}
        BY <1>a DEF TypeOK, SymbolType, ProgramType
      <4>2. /\ symCache' = [k \in DOMAIN symCache \union {<<t[1], at[t]>>} |->
                               IF k \in DOMAIN symCache THEN symCache[k] ELSE mapped[t[1]]]
            /\ UNCHANGED mapped
        BY <2>8 DEF Retained, Cached
      <4> QED BY <4>1, <4>2 DEF TypeOK, SymbolType
    <3>3. OutType'
      BY <2>5, <2>6, <2>8 DEF Retained, TypeOK, OutType
    <3>4. LinkType'
      <4>1. Len(out) + 1 \in Nat
        BY DEF TypeOK, OutType
      <4> QED BY <2>3, <2>8, <4>1 DEF Retained, TypeOK, LinkType
    <3> QED BY <2>3, <3>1, <3>2, <3>3, <3>4 DEF TypeOK
  <2> QED BY <2>1, <2>4, <2>7, <2>8, PushCases
<1>2. ASSUME NEW t \in Tasks, Undecoded(t) PROVE TypeOK'
  <2>1. PICK tasks \in {{t}, Tasks} : PushError(tasks)
    BY <1>2 DEF Undecoded
  <2>2. ProgramType' /\ TrackerType' /\ SymbolType'
    BY <1>2, <2>1 DEF Undecoded, Deliver, PushError, TypeOK, ProgramType, TrackerType, SymbolType,
        history
  <2>3. out' \in Seq(Insns) /\ Len(out') = Len(out)
    BY <2>1, ResolveFacts DEF PushError, TypeOK, OutType
  <2>4. OutType'
    BY <1>2, <2>1, <2>3 DEF Undecoded, PushError, TypeOK, OutType, history
  <2>5. LinkType'
    BY <1>2, <2>1 DEF Undecoded, PushError, TypeOK, LinkType, history
  <2> QED BY <2>2, <2>4, <2>5 DEF TypeOK
<1>3. ASSUME NEW t \in Tasks, Overflows(t) PROVE TypeOK'
    BY <1>3 DEF Overflows, Deliver, TypeOK, ProgramType, TrackerType, SymbolType, OutType, LinkType,
        recon
<1>4. ASSUME NEW t \in Tasks, Exits(t) PROVE TypeOK'
  <2>1. tracker' \in Trackers
    BY <1>a, <1>4, TrackerTypes DEF Exits, TypeOK, TrackerType
  <2>2. ids' \in IdTables
    BY <1>4 DEF Exits, Observe, TypeOK, TrackerType, IdTables
  <2> QED BY <1>4, <2>1, <2>2 DEF Exits, Deliver, TypeOK, ProgramType, TrackerType, SymbolType,
             OutType, LinkType
<1>5. ASSUME NEW t \in Tasks, Remaps(t) PROVE TypeOK'
  <2>1. ProgramType' /\ image'[t[1]] \in Images
    BY <1>a, <1>5 DEF Remaps, Deliver, TypeOK, ProgramType
  <2>2. SymbolType'
    BY <1>a, <1>5, <2>1 DEF Remaps, PushMmap, TypeOK, SymbolType
  <2>3. TrackerType' /\ OutType' /\ LinkType'
    BY <1>5 DEF Remaps, PushMmap, TypeOK, TrackerType, OutType, LinkType
  <2> QED BY <2>1, <2>2, <2>3 DEF TypeOK
<1>6. ASSUME NEW t \in Tasks, NEW new \in Tasks, Forks(t, new) PROVE TypeOK'
  <2>1. tracker' \in Trackers
    BY <1>a, <1>6, TrackerTypes DEF Forks, TypeOK, TrackerType
  <2>2. ProgramType'
    BY <1>a, <1>6 DEF Forks, Deliver, TypeOK, ProgramType
  <2> QED BY <1>6, <2>1, <2>2 DEF Forks, TypeOK, TrackerType, SymbolType, OutType, LinkType, recon
<1>7. CASE ExecsTarget
  <2>1. tracker' \in Trackers
    BY <1>a, <1>7, TrackerTypes, InsnAssumption DEF ExecsTarget, TypeOK, TrackerType
  <2>2. ProgramType'
    <3>1. /\ run' = [run EXCEPT ![Root] = "target"] /\ records' = records + 1
          /\ at' = at /\ image' = image /\ told' = told
      BY <1>7 DEF ExecsTarget, Deliver, history
    <3>2. run' \in [Tasks -> {"none", "shim", "target", "gone"}]
      BY <3>1 DEF TypeOK, ProgramType
    <3> QED BY <3>1, <3>2 DEF TypeOK, ProgramType
  <2> QED BY <1>7, <2>1, <2>2 DEF ExecsTarget, TypeOK, TrackerType, SymbolType, OutType, LinkType,
             recon, history
<1>8. CASE UNCHANGED insnVars
    BY <1>8 DEF insnVars, program, recon, history, TypeOK, ProgramType, TrackerType, SymbolType,
        OutType, LinkType
<1> QED BY <1>1, <1>2, <1>3, <1>4, <1>5, <1>6, <1>7, <1>8 DEF InsnNext

\* The first state is typed.
LEMMA TypeInit == InsnInit => TypeOK
<1> SUFFICES ASSUME InsnInit PROVE TypeOK
    OBVIOUS
<1>1. PICK r \in Recordings :
          /\ tracker = Tracker(r)
          /\ run = [t \in Tasks |-> IF t # Root THEN "none"
                                    ELSE IF r = "attach" THEN "target" ELSE "shim"]
          /\ records = IF r = "attach" THEN 2 ELSE 0
    BY DEF InsnInit
<1>2. tracker \in Trackers
    BY <1>1, TrackerStart, InsnAssumption
<1>3. (CHOOSE a \in Addrs : TRUE) \in Addrs /\ (CHOOSE i \in Images : TRUE) \in Images
    BY InsnAssumption
<1>4. ProgramType
    BY <1>1, <1>3 DEF InsnInit, ProgramType
<1>5. TrackerType
  <2>1. {} \in SUBSET Tasks /\ [t \in Tasks |-> 0] \in [Tasks -> Nat]
    OBVIOUS
  <2> QED BY <1>2, <2>1 DEF InsnInit, TrackerType, NoIds, IdTables
<1>6. SymbolType
  <2>1. mapped \in [Pids -> Images \union {None}] /\ symCache = <<>>
    BY DEF InsnInit
  <2> QED BY <2>1 DEF SymbolType
<1>7. OutType /\ LinkType
    BY DEF InsnInit, OutType, LinkType
<1> QED BY <1>4, <1>5, <1>6, <1>7 DEF TypeOK

-----------------------------------------------------------------------------
(***************************************************************************)
(* Samples of the launch shim.  Nothing of the root counts before its exec,*)
(* and of what it created before that, only threads whose tids are kept    *)
(* until their exit.                                                       *)
(***************************************************************************)
Shims ==
    /\ Runs(Root) /\ Root[1] \in tracker.pids
    /\ run[Root] = "shim" => tracker.execDone = {} /\ \A t \in Tasks : run[t] # "target"
    /\ \A t \in Tasks : run[t] = "shim" =>
          t[1] = Root[1] /\ tracker.launch /\ (t = Root \/ t \in tracker.preExec)

\* Every step keeps the shim's threads known as such.
LEMMA ShimsStep == ASSUME TypeOK, Shims, [InsnNext]_insnVars PROVE Shims'
<1> USE InsnAssumption DEF TypeOK, ProgramType, TrackerType
<1>1. ASSUME UNCHANGED <<run, tracker>> PROVE Shims'
    BY <1>1 DEF Shims, Runs
<1>2. ASSUME NEW t \in Tasks, NEW new \in Tasks, Forks(t, new) PROVE Shims'
  <2>1. /\ Runs(t) /\ ~Runs(new) /\ new # Root
        /\ run' = [run EXCEPT ![new] = run[t]]
        /\ tracker' = ObserveFork(tracker, new, t[1])
        /\ run[t] = "shim" => new[1] = t[1]
        /\ t[1] = Root[1] => run[t] = run[Root]
    BY <1>2 DEF Forks, Shims
  <2>2. CASE run[t] = "shim"
    <3>1. /\ t[1] = Root[1] /\ new[1] = Root[1] /\ run[Root] = "shim" /\ tracker.execDone = {}
          /\ tracker.launch /\ Root[1] \in tracker.pids
      BY <2>1, <2>2 DEF Shims
    <3>2. new[2] # new[1]
      BY <2>1, <3>1
    <3>3. tracker' = [tracker EXCEPT !.preExec = @ \union {new}]
      BY <2>1, <3>1, <3>2 DEF ObserveFork
    <3> QED BY <2>1, <2>2, <3>1, <3>3 DEF Shims, Runs, Trackers
  <2>3. CASE run[t] = "target"
    <3>1. run[Root] = "target"
      BY <2>1, <2>3 DEF Shims, Runs
    <3>2. Grown
      BY TrackerGrows, <1>2 DEF InsnNext
    <3>3. tracker.preExec \subseteq tracker'.preExec
      BY <2>1 DEF ObserveFork, Trackers
    <3> QED BY <2>1, <2>3, <3>1, <3>2, <3>3 DEF Shims, Runs, Grown
  <2> QED BY <2>1, <2>2, <2>3 DEF Runs
<1>3. ASSUME NEW t \in Tasks, Exits(t) PROVE Shims'
    BY <1>3 DEF Exits, ObserveExit, Shims, Runs, Trackers
<1>4. CASE ExecsTarget
    BY <1>4 DEF ExecsTarget, ObserveExec, Shims, Runs, Trackers
<1> QED BY <1>1, <1>2, <1>3, <1>4 DEF InsnNext, Executes, Undecoded, Overflows, Remaps,
        insnVars, program

\* What the tracker lets through is not the shim.
LEMMA LiveIsTarget ==
    ASSUME TypeOK, Shims, NEW t \in Tasks, Runs(t), IsLiveThread(tracker, t)
    PROVE  run[t] = "target"
BY DEF Shims, Runs, IsLiveThread, IsLive

\* Every retained instruction is the target's own in a recording of the
\* workload's own events (OnlyTarget): PidTracker knows the threads the shim
\* created, by their fork and until their exit.  CPU-wide recordings, whose
\* tracker has seen the exec before the first sample, are excluded.
THEOREM OnlyTargetKept ==
    ASSUME "cpu_wide" \notin Recordings
    PROVE  InsnSpec => []OnlyTarget
<1>1. InsnInit => TypeOK /\ Shims /\ OnlyTarget
  <2> SUFFICES ASSUME InsnInit PROVE TypeOK /\ Shims /\ OnlyTarget
    OBVIOUS
  <2>1. PICK r \in Recordings :
            /\ tracker = Tracker(r)
            /\ run = [t \in Tasks |-> IF t # Root THEN "none"
                                      ELSE IF r = "attach" THEN "target" ELSE "shim"]
    BY DEF InsnInit
  <2>2. r \in {"launch", "attach"} /\ Root \in Tasks
    BY InsnAssumption
  <2>3. Shims
    <3>1. CASE r = "launch"
      <4>1. tracker = [pids |-> {} \union {Root[1]}, execDone |-> {}, preExec |-> {}, launch |-> TRUE]
        BY <2>1, <3>1 DEF Tracker, ObservePerfExec, ExpectingExec
      <4> QED BY <2>1, <2>2, <3>1, <4>1 DEF Shims, Runs
    <3>2. CASE r = "attach"
      <4>1. tracker.pids = {Root[1]}
        BY <2>1, <3>2 DEF Tracker, WithRoot
      <4> QED BY <2>1, <2>2, <3>2, <4>1 DEF Shims, Runs
    <3> QED BY <2>2, <3>1, <3>2
  <2>4. OnlyTarget
    BY DEF InsnInit, OnlyTarget
  <2> QED BY <2>3, <2>4, TypeInit
<1>2. TypeOK /\ Shims /\ OnlyTarget /\ [InsnNext]_insnVars => (TypeOK /\ Shims /\ OnlyTarget)'
  <2> SUFFICES ASSUME TypeOK, Shims, OnlyTarget, [InsnNext]_insnVars
               PROVE  (TypeOK /\ Shims /\ OnlyTarget)'
    OBVIOUS
  <2>1. ASSUME NEW t \in Tasks, Executes(t) PROVE OnlyTarget'
    <3>1. PICK next \in Next1(t) : PushSample(t, next)
      BY <2>1 DEF Executes
    <3>2. CASE UNCHANGED real
      BY <3>2 DEF OnlyTarget
    <3>3. CASE IsLiveThread(tracker, t) /\ Retained(t, next)
      <4>1. run[t] = "target"
        BY <2>1, <3>3, LiveIsTarget DEF Executes
      <4>2. real' = Append(real, NewTruth(t, next)) /\ NewTruth(t, next).run = "target"
        BY <3>3, <4>1 DEF Retained, NewTruth
      <4>3. real \in Seq(Truths)
        BY DEF TypeOK, OutType
      <4> HIDE DEF NewTruth
      <4>4. DOMAIN real' = 1..(Len(real) + 1) /\ Len(real) \in Nat
        BY <4>2, <4>3
      <4>5. \A i \in 1..Len(real) : real'[i] = real[i]
        BY <4>2, <4>3
      <4>6. real'[Len(real) + 1] = NewTruth(t, next)
        BY <4>2, <4>3
      <4> QED BY <4>2, <4>3, <4>4, <4>5, <4>6 DEF OnlyTarget
    <3> QED BY <3>1, <3>2, <3>3, PushCases DEF Passed
  <2>2. ASSUME UNCHANGED real PROVE OnlyTarget'
    BY <2>2 DEF OnlyTarget
  <2>3. ASSUME NEW t \in Tasks, NEW new \in Tasks,
               Undecoded(t) \/ Overflows(t) \/ Exits(t) \/ Remaps(t) \/ Forks(t, new) \/ ExecsTarget
        PROVE  OnlyTarget'
    BY <2>2, <2>3 DEF Undecoded, Overflows, Forks, Exits, ExecsTarget, Remaps, history
  <2>4. ASSUME UNCHANGED insnVars PROVE OnlyTarget'
    BY <2>2, <2>4 DEF insnVars, history
  <2>5. OnlyTarget'
    BY <2>1, <2>3, <2>4, InsnAssumption DEF InsnNext
  <2> QED BY <2>5, TypeStep, ShimsStep
<1> QED BY <1>1, <1>2, PTL DEF InsnSpec

-----------------------------------------------------------------------------
(***************************************************************************)
(* Branches and symbols.                                                   *)
(***************************************************************************)
\* One thread at a time has a tid.
UniqueTids == \A t, u \in Tasks : Runs(t) /\ Runs(u) /\ t[2] = u[2] => t = u

\* The last retained instruction of a task, unless an exit or an overflow
\* followed it, is of a thread that runs, and when its outcome is pending the
\* task is where it went.
LinkedTo(t, i) ==
    /\ i <= Len(out) /\ pending[t] \in {0, i}
    /\ i > 0 /\ i \notin crossed => Runs(t) /\ IsLiveThread(tracker, t)
    /\ pending[t] > 0 /\ i \notin crossed => at[t] = real[i].next
Linked == \A t \in Tasks : LinkedTo(t, lastOf[t])
Single == \A t, u \in Tasks : lastOf[t] = lastOf[u] /\ lastOf[t] > 0 => t = u

\* A process whose mapping was delivered, and whose later ones will be, is
\* symbolized with what it runs.
ToldIsKnown ==
    \A p \in told :
        /\ MappingIsLive(tracker, p, Execed(p)) /\ mapped[p] = image[p]
        /\ \A k \in DOMAIN symCache : k[1] = p => symCache[k] = image[p]

\* What is retained is of one thread's name, in a window, in the order of time.
Listed ==
    \A i \in 1..Len(out) :
        /\ out[i].thread = sel.thread /\ sel.lo <= out[i].time /\ out[i].time < records
        /\ out[i].seq > 0
        /\ \A j \in 1..Len(out) : i < j => out[i].time < out[j].time

\* Instructions with successive numbers were executed one after the other.
Adjacent ==
    \A i \in 1..Len(out) :
        i + 1 \in 1..Len(out) /\ i \notin crossed /\ ~real[i].renamed
            /\ out[i + 1].seq = out[i].seq + 1 => real[i].next = out[i + 1].ip

\* The thread of the last instruction retained is still there, and a decoder
\* error that hid something of it has taken a number, or the window is over.
Resumes(u, n) ==
    /\ Runs(u) /\ IsLiveThread(tracker, u) /\ lastOf[u] = n
    /\ ThreadName(ids, u) = sel.thread /\ u \notin ids.exited
    /\ seqBy[u] >= out[n].seq
    /\ seqBy[u] = out[n].seq => at[u] = real[n].next
LatestAt(n) ==
    n > 0 /\ n \notin crossed /\ ~real[n].renamed =>
        records >= sel.hi \/ \E u \in Tasks : Resumes(u, n)
Latest == LatestAt(Len(out))

IInv == /\ TypeOK /\ UniqueTids /\ Linked /\ Single /\ ToldIsKnown /\ OutcomesAreTrue
        /\ Listed /\ Adjacent /\ Latest

\* The numbers and times of the records.
LEMMA RecordNumbers ==
    ASSUME TypeOK
    PROVE  Len(out) \in Nat /\ \A i \in 1..Len(out) : out[i].seq \in Nat /\ out[i].time \in Nat
<1>1. out \in Seq(Insns) /\ \A o \in Insns : o.time \in Nat /\ o.seq \in Nat
    BY DEF TypeOK, OutType, Insns
<1> QED BY <1>1

\* What a sample leaves of the records before it.
LEMMA KeptRecords ==
    ASSUME TypeOK, NEW t \in Tasks, NEW next \in Addrs, Runs(t), Passed(t) \/ Retained(t, next)
    PROVE  /\ \A i \in 1..Len(out) :
                /\ i \in 1..Len(out') /\ SameInsn(out'[i], out[i]) /\ real'[i] = real[i]
                /\ out'[i].outcome = IF pending[t] = i THEN Outcome(out[i], at[t])
                                                        ELSE out[i].outcome
           /\ Passed(t) => Len(out') = Len(out)
           /\ Retained(t, next) =>
                /\ Len(out') = Len(out) + 1
                /\ out'[Len(out) + 1] = NewInsn(t) /\ real'[Len(out) + 1] = NewTruth(t, next)
<1> DEFINE r == Resolve(out, {t}, at[t])
           n == Len(out)
<1>1. /\ r \in Seq(Insns) /\ Len(r) = n
      /\ \A i \in 1..n :
            /\ SameInsn(r[i], out[i])
            /\ r[i].outcome = IF pending[t] = i THEN Outcome(out[i], at[t]) ELSE out[i].outcome
  <2>1. \A i : (\E u \in {t} : pending[u] = i) <=> pending[t] = i
    OBVIOUS
  <2> QED BY <2>1, ResolveFacts DEF TypeOK, OutType
<1>2. n \in Nat /\ out \in Seq(Insns) /\ real \in Seq(Truths) /\ Len(real) = n
    BY DEF TypeOK, OutType
<1>3. NewInsn(t) \in Insns /\ NewTruth(t, next) \in Truths
    BY NewTypes
<1>4. CASE Passed(t)
  <2>1. out' = r /\ real' = real /\ ~Retained(t, next)
    BY <1>4 DEF Passed, Retained
  <2> HIDE DEF r
  <2> QED BY <1>1, <1>2, <2>1
<1>5. CASE Retained(t, next)
  <2>1. out' = Append(r, NewInsn(t)) /\ real' = Append(real, NewTruth(t, next)) /\ ~Passed(t)
    BY <1>5 DEF Retained, Passed
  <2> HIDE DEF r
  <2>2. Len(out') = n + 1 /\ out'[n + 1] = NewInsn(t) /\ \A i \in 1..n : out'[i] = r[i]
    BY <1>1, <1>2, <1>3, <2>1
  <2>3. real'[n + 1] = NewTruth(t, next) /\ \A i \in 1..n : real'[i] = real[i]
    BY <1>2, <1>3, <2>1
  <2> QED BY <1>1, <1>2, <2>1, <2>2, <2>3
<1> QED BY <1>4, <1>5

\* What a step that is no sample leaves of them.
LEMMA ErrorRecords ==
    ASSUME TypeOK, NEW tasks, PushError(tasks)
    PROVE  /\ Len(out') = Len(out)
           /\ \A i \in 1..Len(out) :
                /\ SameInsn(out'[i], out[i])
                /\ out'[i].outcome \in {out[i].outcome, "unknown"}
<1>1. \A o : Outcome(o, None) = "unknown"
    BY DEF Outcome
<1>2. out' = Resolve(out, tasks, None)
    BY DEF PushError
<1>3. /\ Len(out') = Len(out)
      /\ \A i \in 1..Len(out) :
            /\ SameInsn(out'[i], out[i])
            /\ out'[i].outcome = IF \E t \in tasks : pending[t] = i THEN Outcome(out[i], None)
                                                                   ELSE out[i].outcome
    BY <1>2, ResolveFacts DEF TypeOK, OutType
<1> QED BY <1>1, <1>3

\* Every step keeps the tids of running threads apart.
LEMMA UniqueStep == ASSUME TypeOK, UniqueTids, [InsnNext]_insnVars PROVE UniqueTids'
<1> USE InsnAssumption DEF TypeOK, ProgramType
<1>1. ASSUME UNCHANGED run PROVE UniqueTids'
    BY <1>1 DEF UniqueTids, Runs
<1>2. ASSUME NEW t \in Tasks, NEW new \in Tasks, Forks(t, new) PROVE UniqueTids'
    BY <1>2 DEF Forks, UniqueTids, Runs
<1>3. ASSUME NEW t \in Tasks, Exits(t) PROVE UniqueTids'
    BY <1>3 DEF Exits, UniqueTids, Runs
<1>4. CASE ExecsTarget
    BY <1>4 DEF ExecsTarget, UniqueTids, Runs
<1> QED BY <1>1, <1>2, <1>3, <1>4 DEF InsnNext, Executes, Undecoded, Overflows, Remaps,
        insnVars, program

\* Whoever is live stays so.
LEMMA StaysLive ==
    ASSUME Grown, Stays
    PROVE  /\ \A u \in Tasks : Runs(u) /\ IsLiveThread(tracker, u) => IsLiveThread(tracker', u)
           /\ \A p : MappingIsLive(tracker, p, Execed(p)) =>
                        MappingIsLive(tracker', p, Execed(p)')
<1>1. \A p : IsLive(tracker, p) => IsLive(tracker', p)
    BY DEF Grown, IsLive
<1>2. \A p : Execed(p) => Execed(p)'
    BY DEF Execed, Stays
<1> QED BY <1>1, <1>2 DEF Grown, IsLiveThread, MappingIsLive

\* Every step keeps what is known of a process that was told.
LEMMA ToldStep == ASSUME TypeOK, ToldIsKnown, [InsnNext]_insnVars PROVE ToldIsKnown'
<1>1. \A p : MappingIsLive(tracker, p, Execed(p)) => MappingIsLive(tracker', p, Execed(p)')
    BY TrackerGrows, StaysLive
<1>a. \A t \in Tasks : t[1] \in Pids
    BY DEF Pids
<1>2. ASSUME UNCHANGED <<image, mapped, symCache, told>> PROVE ToldIsKnown'
    BY <1>1, <1>2 DEF ToldIsKnown
<1>3. ASSUME NEW t \in Tasks, Executes(t) PROVE ToldIsKnown'
  <2>1. PICK next \in Next1(t) : PushSample(t, next)
    BY <1>3 DEF Executes
  <2>2. UNCHANGED <<image, told>>
    BY <1>3 DEF Executes
  <2>3. ASSUME Retained(t, next) PROVE ToldIsKnown'
    <3>1. /\ UNCHANGED mapped
          /\ symCache' = [k \in DOMAIN symCache \union {<<t[1], at[t]>>} |->
                             IF k \in DOMAIN symCache THEN symCache[k] ELSE mapped[t[1]]]
      BY <2>3 DEF Retained, Cached
    <3> QED BY <1>1, <2>2, <3>1 DEF ToldIsKnown
  <2> QED BY <1>2, <2>1, <2>2, <2>3, PushCases DEF Passed, recon
<1>4. ASSUME NEW t \in Tasks, NEW new \in Tasks, Forks(t, new) PROVE ToldIsKnown'
  <2>1. /\ image' = [image EXCEPT ![new[1]] = image[t[1]]]
        /\ told' = IF new[1] = t[1] THEN told ELSE told \ {new[1]}
        /\ UNCHANGED <<mapped, symCache>>
    BY <1>4 DEF Forks, recon
  <2> QED BY <1>1, <1>a, <2>1 DEF ToldIsKnown, TypeOK, ProgramType
<1>5. ASSUME NEW t \in Tasks, Remaps(t) PROVE ToldIsKnown'
  <2>1. PICK i \in Images : image' = [image EXCEPT ![t[1]] = i]
    BY <1>5 DEF Remaps
  <2>2. CASE MappingIsLive(tracker, t[1], Execed(t[1]))
    <3>1. /\ mapped' = [mapped EXCEPT ![t[1]] = image'[t[1]]] /\ told' = told \union {t[1]}
          /\ symCache' = [k \in {k \in DOMAIN symCache : k[1] # t[1]} |-> symCache[k]]
      BY <1>5, <2>2 DEF Remaps, PushMmap
    <3>2. MappingIsLive(tracker', t[1], Execed(t[1])')
      BY <1>1, <2>2
    <3>3. image'[t[1]] = i /\ mapped'[t[1]] = i /\ \A k \in DOMAIN symCache' : k[1] # t[1]
      BY <1>a, <2>1, <3>1 DEF TypeOK, ProgramType, SymbolType
    <3>4. ASSUME NEW p \in told, p # t[1]
          PROVE  /\ image'[p] = image[p] /\ mapped'[p] = mapped[p]
                 /\ \A k \in DOMAIN symCache' : k \in DOMAIN symCache /\ symCache'[k] = symCache[k]
      BY <2>1, <3>1, <3>4 DEF TypeOK, ProgramType, SymbolType
    <3> QED BY <1>1, <3>1, <3>2, <3>3, <3>4 DEF ToldIsKnown
  <2>3. CASE ~MappingIsLive(tracker, t[1], Execed(t[1]))
    <3>1. UNCHANGED <<mapped, symCache, told>> /\ t[1] \notin told
      BY <1>5, <2>3 DEF Remaps, PushMmap, ToldIsKnown
    <3>2. \A p \in told : image'[p] = image[p]
      BY <2>1, <3>1 DEF TypeOK, ProgramType
    <3> QED BY <1>1, <3>1, <3>2 DEF ToldIsKnown
  <2> QED BY <2>2, <2>3
<1>6. ASSUME NEW t \in Tasks, Undecoded(t) \/ Overflows(t) \/ Exits(t) \/ ExecsTarget
      PROVE  ToldIsKnown'
    BY <1>2, <1>6 DEF Undecoded, Overflows, Exits, ExecsTarget, PushError, recon, history
<1>7. ASSUME UNCHANGED insnVars PROVE ToldIsKnown'
    BY <1>2, <1>7 DEF insnVars, program, recon, history
<1> QED BY <1>3, <1>4, <1>5, <1>6, <1>7, InsnAssumption DEF InsnNext


\* The frame of one task: its links are kept when it is not moved, or when
\* what it is linked to is marked.
LEMMA LinkFrame ==
    ASSUME TypeOK, NEW u \in Tasks, LinkedTo(u, lastOf[u]),
           lastOf'[u] = lastOf[u], pending'[u] \in {0, pending[u]},
           Len(out') \in Nat, Len(out) <= Len(out'), crossed \subseteq crossed',
           \A i \in 1..Len(out) : real'[i] = real[i],
           \/ lastOf[u] = 0 \/ lastOf[u] \in crossed'
           \/ /\ Runs(u)' /\ IsLiveThread(tracker', u)
              /\ pending'[u] = 0 \/ at'[u] = at[u]
    PROVE  LinkedTo(u, lastOf[u])'
<1>1. lastOf[u] \in Nat /\ pending[u] \in Nat /\ Len(out) \in Nat
    BY DEF TypeOK, LinkType, OutType
<1>2. lastOf[u] <= Len(out) /\ pending[u] \in {0, lastOf[u]}
    BY DEF LinkedTo
<1>3. lastOf'[u] <= Len(out') /\ pending'[u] \in {0, lastOf'[u]}
    BY <1>1, <1>2
<1>4. lastOf'[u] > 0 /\ lastOf'[u] \notin crossed' => Runs(u)' /\ IsLiveThread(tracker', u)
    BY <1>1
<1>5. ASSUME pending'[u] > 0, lastOf'[u] \notin crossed'
      PROVE  at'[u] = real'[lastOf'[u]].next
  <2>1. pending[u] > 0 /\ lastOf[u] \in 1..Len(out) /\ lastOf[u] \notin crossed
    BY <1>1, <1>2, <1>5
  <2>2. at[u] = real[lastOf[u]].next /\ at'[u] = at[u]
    BY <1>5, <2>1 DEF LinkedTo
  <2> QED BY <2>1, <2>2
<1> QED BY <1>3, <1>4, <1>5 DEF LinkedTo

\* Every step keeps the links.
LEMMA LinkedStep ==
    ASSUME TypeOK, Linked, Single, [InsnNext]_insnVars
    PROVE  Linked' /\ Single'
<1> USE DEF Linked
<1>a. \A u \in Tasks : Runs(u) /\ IsLiveThread(tracker, u) => IsLiveThread(tracker', u)
    BY TrackerGrows, StaysLive
<1>b. /\ Len(out) \in Nat /\ lastOf \in [Tasks -> Nat] /\ pending \in [Tasks -> Nat]
      /\ at \in [Tasks -> Addrs] /\ run \in [Tasks -> {"none", "shim", "target", "gone"}]
    BY DEF TypeOK, OutType, LinkType, ProgramType
<1>c. ASSUME NEW u \in Tasks, lastOf[u] > 0, lastOf[u] \notin crossed
      PROVE  Runs(u) /\ IsLiveThread(tracker, u) /\ IsLiveThread(tracker', u)
    BY <1>a, <1>c DEF LinkedTo
<1>1. ASSUME NEW t \in Tasks, Executes(t) PROVE Linked' /\ Single'
  <2>1. PICK next \in Next1(t) : PushSample(t, next) /\ at' = [at EXCEPT ![t] = next]
    BY <1>1 DEF Executes
  <2>2. next \in Addrs /\ Runs(t) /\ UNCHANGED <<run, tracker, crossed>>
    BY <1>1, <2>1, NewTypes, InsnAssumption DEF Executes
  <2>3. CASE ~IsLiveThread(tracker, t) /\ UNCHANGED <<recon, real, lastOf>>
    <3>1. lastOf[t] = 0 \/ lastOf[t] \in crossed
      BY <1>b, <1>c, <2>3
    <3>2. UNCHANGED <<out, pending, real, lastOf>>
      BY <2>3 DEF recon
    <3>3. ASSUME NEW u \in Tasks PROVE LinkedTo(u, lastOf[u])'
      <4>1. lastOf[u] = 0 \/ lastOf[u] \in crossed \/ (u # t /\ Runs(u) /\ IsLiveThread(tracker, u))
        BY <1>b, <1>c, <3>1
      <4>2. u # t => at'[u] = at[u]
        BY <1>b, <2>1
      <4> QED BY <1>b, <2>2, <3>2, <4>1, <4>2, LinkFrame DEF Runs
    <3> QED BY <3>2, <3>3 DEF Single
  <2>4. CASE IsLiveThread(tracker, t) /\ Passed(t)
    <3>1. /\ lastOf' = [lastOf EXCEPT ![t] = 0] /\ pending' = [pending EXCEPT ![t] = 0]
          /\ real' = real /\ Len(out') = Len(out)
      BY <2>2, <2>4, KeptRecords DEF Passed
    <3>2. LinkedTo(t, lastOf[t])'
      BY <1>b, <3>1 DEF LinkedTo
    <3>3. ASSUME NEW u \in Tasks, u # t PROVE LinkedTo(u, lastOf[u])'
      <4>1. /\ lastOf'[u] = lastOf[u] /\ pending'[u] = pending[u] /\ at'[u] = at[u]
            /\ lastOf[u] = 0 \/ lastOf[u] \in crossed \/ (Runs(u) /\ IsLiveThread(tracker, u))
        BY <1>b, <1>c, <2>1, <3>1, <3>3
      <4> QED BY <1>b, <2>2, <3>1, <4>1, LinkFrame DEF Runs
    <3>4. Single'
      BY <1>b, <3>1 DEF Single
    <3> QED BY <3>2, <3>3, <3>4
  <2>5. CASE IsLiveThread(tracker, t) /\ Retained(t, next)
    <3> DEFINE n == Len(out)
    <3>1. /\ lastOf' = [lastOf EXCEPT ![t] = n + 1] /\ pending'[t] \in {0, n + 1}
          /\ \A u \in Tasks \ {t} : pending'[u] = pending[u]
          /\ Len(out') = n + 1 /\ \A i \in 1..n : real'[i] = real[i]
          /\ real'[n + 1] = NewTruth(t, next)
      BY <1>b, <2>2, <2>5, KeptRecords DEF Retained
    <3>2. NewTruth(t, next).next = next
      BY DEF NewTruth
    <3> HIDE DEF n
    <3>3. LinkedTo(t, lastOf[t])'
      BY <1>b, <2>1, <2>2, <2>5, <3>1, <3>2 DEF LinkedTo, Runs, n
    <3>4. ASSUME NEW u \in Tasks, u # t PROVE LinkedTo(u, lastOf[u])'
      <4>1. /\ lastOf'[u] = lastOf[u] /\ pending'[u] = pending[u] /\ at'[u] = at[u]
            /\ lastOf[u] = 0 \/ lastOf[u] \in crossed \/ (Runs(u) /\ IsLiveThread(tracker, u))
        BY <1>b, <1>c, <2>1, <3>1, <3>4
      <4> QED BY <1>b, <2>2, <3>1, <4>1, LinkFrame DEF Runs, n
    <3>5. Single'
      <4>1. \A u \in Tasks : lastOf[u] <= n /\ n \in Nat
        BY <1>b DEF LinkedTo, n
      <4> QED BY <1>b, <3>1, <4>1 DEF Single
    <3> QED BY <3>3, <3>4, <3>5
  <2> QED BY <2>1, <2>3, <2>4, <2>5, PushCases
<1>2. ASSUME NEW t \in Tasks, Undecoded(t) PROVE Linked' /\ Single'
  <2>1. PICK tasks \in {{t}, Tasks} : PushError(tasks)
    BY <1>2 DEF Undecoded
  <2>2. /\ pending' = [u \in Tasks |-> IF u \in tasks THEN 0 ELSE pending[u]]
        /\ UNCHANGED <<lastOf, real, crossed, run, tracker>> /\ Len(out') = Len(out)
        /\ \A u \in Tasks \ {t} : at'[u] = at[u]
    BY <1>2, <1>b, <2>1, ErrorRecords DEF Undecoded, PushError, history
  <2>3. ASSUME NEW u \in Tasks PROVE LinkedTo(u, lastOf[u])'
    <3>1. /\ lastOf'[u] = lastOf[u] /\ pending'[u] \in {0, pending[u]}
          /\ pending'[u] = 0 \/ at'[u] = at[u]
          /\ lastOf[u] = 0 \/ lastOf[u] \in crossed \/ (Runs(u) /\ IsLiveThread(tracker, u))
      BY <1>b, <1>c, <2>2
    <3> QED BY <1>b, <2>2, <3>1, LinkFrame DEF Runs
  <2> QED BY <2>2, <2>3 DEF Single
<1>3. ASSUME NEW t \in Tasks, NEW new \in Tasks,
             Overflows(t) \/ Exits(t) \/ Remaps(t) \/ ExecsTarget \/ Forks(t, new)
                 \/ UNCHANGED insnVars
      PROVE  Linked' /\ Single'
  <2>1. UNCHANGED <<out, real, lastOf, pending>> /\ crossed \subseteq crossed'
    BY <1>3 DEF Overflows, Exits, Remaps, PushMmap, ExecsTarget, Forks, insnVars, recon, history
  <2>2. ASSUME NEW u \in Tasks, lastOf[u] > 0, lastOf[u] \notin crossed'
        PROVE  Runs(u)' /\ at'[u] = at[u]
    <3>1. Runs(u)
      BY <1>c, <2>1, <2>2
    <3>2. CASE Overflows(t) \/ Exits(t)
      <4>1. u # t
        BY <2>2, <3>2 DEF Overflows, Exits
      <4> QED BY <1>b, <3>1, <3>2, <4>1 DEF Overflows, Exits, Runs
    <3>3. CASE Forks(t, new)
      BY <1>b, <3>1, <3>3 DEF Forks, Runs
    <3>4. CASE Remaps(t) \/ ExecsTarget \/ UNCHANGED insnVars
      BY <1>b, <3>1, <3>4, InsnAssumption DEF Remaps, ExecsTarget, insnVars, program, Runs
    <3> QED BY <1>3, <3>2, <3>3, <3>4
  <2>3. ASSUME NEW u \in Tasks PROVE LinkedTo(u, lastOf[u])'
    <3>1. \/ lastOf[u] = 0 \/ lastOf[u] \in crossed'
          \/ Runs(u)' /\ at'[u] = at[u] /\ IsLiveThread(tracker', u)
      BY <1>b, <1>c, <2>1, <2>2
    <3> QED BY <1>b, <2>1, <3>1, LinkFrame
  <2> QED BY <2>1, <2>3 DEF Single
<1> QED BY <1>1, <1>2, <1>3, InsnAssumption DEF InsnNext

\* Every step keeps what OutcomesAreTrue says: a pending branch is decided by
\* where its own task is, and symbols come from what the process runs.
LEMMA OutcomesStep ==
    ASSUME TypeOK, Linked, ToldIsKnown, OutcomesAreTrue, [InsnNext]_insnVars
    PROVE  OutcomesAreTrue'
<1> DEFINE n == Len(out)
           Sound(o, r) == /\ o.outcome = "taken" => r.next = o.target
                          /\ o.outcome = "not taken" => r.next = o.fall
                          /\ r.told => o.symbol = r.image
<1>a. /\ n \in Nat /\ DOMAIN out = 1..n /\ pending \in [Tasks -> Nat] /\ lastOf \in [Tasks -> Nat]
      /\ \A i \in 1..n : i \notin crossed => Sound(out[i], real[i])
  <2>1. n \in Nat /\ DOMAIN out = 1..n /\ pending \in [Tasks -> Nat] /\ lastOf \in [Tasks -> Nat]
    BY DEF TypeOK, OutType, LinkType
  <2> QED BY <2>1, Zenon DEF OutcomesAreTrue
<1>b. DOMAIN out' = 1..Len(out')
    BY TypeStep DEF TypeOK, OutType
<1>c. ASSUME \A i \in 1..Len(out') : i \notin crossed' => Sound(out'[i], real'[i])
      PROVE  OutcomesAreTrue'
    BY <1>b, <1>c DEF OutcomesAreTrue
<1>d. ASSUME NEW o, NEW q, NEW r, SameInsn(q, o), q.outcome \in {o.outcome, "unknown"}, Sound(o, r)
      PROVE  Sound(q, r)
    BY <1>d DEF SameInsn
<1> HIDE DEF Sound
<1>1. ASSUME NEW t \in Tasks, Executes(t) PROVE OutcomesAreTrue'
  <2>1. PICK next \in Next1(t) : PushSample(t, next)
    BY <1>1 DEF Executes
  <2>2. next \in Addrs /\ Runs(t) /\ UNCHANGED crossed /\ t[1] \in Pids /\ at[t] \in Addrs
    BY <1>1, <2>1, NewTypes, InsnAssumption DEF Executes, TypeOK, ProgramType
  <2>3. ASSUME Passed(t) \/ Retained(t, next), NEW i \in 1..n, i \notin crossed
        PROVE  Sound(out'[i], real'[i])
    <3>1. /\ SameInsn(out'[i], out[i]) /\ real'[i] = real[i] /\ Sound(out[i], real[i])
          /\ out'[i].outcome = IF pending[t] = i THEN Outcome(out[i], at[t]) ELSE out[i].outcome
      BY <1>a, <2>2, <2>3, KeptRecords
    <3>2. CASE pending[t] = i
      <4>1. at[t] = real[i].next
        <5>1. lastOf[t] = i /\ pending[t] > 0
          BY <1>a, <3>2 DEF Linked, LinkedTo
        <5> QED BY <2>3, <5>1 DEF Linked, LinkedTo
      <4>2. /\ Outcome(out[i], at[t]) = "taken" => at[t] = out[i].target
            /\ Outcome(out[i], at[t]) = "not taken" => at[t] = out[i].fall
        BY DEF Outcome
      <4> QED BY <3>1, <3>2, <4>1, <4>2 DEF Sound, SameInsn
    <3>3. CASE pending[t] # i
      BY <1>d, <3>1, <3>3
    <3> QED BY <3>2, <3>3
  <2>4. CASE UNCHANGED <<recon, real, lastOf>>
    BY <2>2, <2>4 DEF recon, OutcomesAreTrue
  <2>5. CASE Passed(t)
    <3>1. Len(out') = n
      BY <2>2, <2>5, KeptRecords
    <3> QED BY <1>c, <2>2, <2>3, <2>5, <3>1
  <2>6. CASE Retained(t, next)
    <3>1. /\ Len(out') = n + 1 /\ out'[n + 1] = NewInsn(t) /\ real'[n + 1] = NewTruth(t, next)
      BY <2>2, <2>6, KeptRecords
    <3>2. t[1] \in told => Symbol(t[1], at[t]) = image[t[1]]
      <4>1. <<t[1], at[t]>>[1] = t[1]
        OBVIOUS
      <4> QED BY <4>1 DEF Symbol, ToldIsKnown
    <3>3. /\ NewInsn(t).outcome = "none" /\ NewInsn(t).symbol = Symbol(t[1], at[t])
          /\ NewTruth(t, next).image = image[t[1]] /\ NewTruth(t, next).told = (t[1] \in told)
      BY DEF NewInsn, NewTruth
    <3>4. Sound(out'[n + 1], real'[n + 1])
      BY <3>1, <3>2, <3>3 DEF Sound
    <3> HIDE DEF n
    <3>5. \A i \in 1..Len(out') : i \in 1..n \/ i = n + 1
      BY <1>a, <3>1
    <3> QED BY <1>c, <2>2, <2>3, <2>6, <3>4, <3>5
  <2> QED BY <2>1, <2>4, <2>5, <2>6, PushCases
<1>2. ASSUME NEW t \in Tasks, Undecoded(t) PROVE OutcomesAreTrue'
  <2>1. PICK tasks \in {{t}, Tasks} : PushError(tasks)
    BY <1>2 DEF Undecoded
  <2>2. UNCHANGED <<real, crossed>>
    BY <1>2 DEF Undecoded, history
  <2>3. /\ Len(out') = n
        /\ \A i \in 1..n : SameInsn(out'[i], out[i]) /\ out'[i].outcome \in {out[i].outcome, "unknown"}
    BY <2>1, ErrorRecords
  <2> QED BY <1>a, <1>c, <1>d, <2>2, <2>3
<1>3. ASSUME NEW t \in Tasks, NEW new \in Tasks,
             Overflows(t) \/ Exits(t) \/ Remaps(t) \/ ExecsTarget \/ Forks(t, new)
                 \/ UNCHANGED insnVars
      PROVE  OutcomesAreTrue'
  <2>1. UNCHANGED <<out, real>> /\ crossed \subseteq crossed'
    BY <1>3 DEF Overflows, Exits, Remaps, PushMmap, ExecsTarget, Forks, insnVars, recon, history
  <2> QED BY <1>a, <1>c, <2>1
<1> QED BY <1>1, <1>2, <1>3, InsnAssumption DEF InsnNext

\* Every step keeps the retained records in order.
LEMMA ListedStep == ASSUME TypeOK, Listed, [InsnNext]_insnVars PROVE Listed'
<1> DEFINE n == Len(out)
<1>a. /\ n \in Nat /\ records \in Nat /\ sel \in Selections /\ seqBy \in [Tasks -> Nat]
      /\ \A i \in 1..n : out[i].time \in Nat /\ out[i].seq \in Nat
    BY RecordNumbers DEF TypeOK, ProgramType, TrackerType, OutType
<1>b. sel.lo \in Nat
    BY <1>a DEF Selections
<1>1. ASSUME Len(out') = n, \A i \in 1..n : SameInsn(out'[i], out[i]),
             records' \in {records, records + 1}, UNCHANGED sel
      PROVE  Listed'
  <2>1. \A i \in 1..n : /\ out'[i].thread = out[i].thread /\ out'[i].time = out[i].time
                        /\ out'[i].seq = out[i].seq
    BY <1>1 DEF SameInsn
  <2>2. ASSUME NEW i \in 1..n
        PROVE  /\ out'[i].thread = sel'.thread /\ sel'.lo <= out'[i].time
               /\ out'[i].time < records' /\ out'[i].seq > 0
    <3>1. /\ out[i].thread = sel.thread /\ sel.lo <= out[i].time
          /\ out[i].time < records /\ out[i].seq > 0
      BY DEF Listed
    <3> HIDE DEF n
    <3>2. out[i].time < records'
      BY <1>a, <1>1, <3>1
    <3> QED BY <1>1, <2>1, <3>1, <3>2
  <2>3. ASSUME NEW i \in 1..n, NEW j \in 1..n, i < j
        PROVE  out'[i].time < out'[j].time
    BY <2>1, <2>3 DEF Listed
  <2> QED BY <1>1, <2>2, <2>3 DEF Listed
<1>2. ASSUME NEW t \in Tasks, Executes(t) PROVE Listed'
  <2>1. PICK next \in Next1(t) : PushSample(t, next)
    BY <1>2 DEF Executes
  <2>2. next \in Addrs /\ Runs(t) /\ records' = records + 1 /\ UNCHANGED sel
    BY <1>2, <2>1, NewTypes, InsnAssumption DEF Executes, Deliver
  <2>3. CASE UNCHANGED <<recon, real, lastOf>>
    BY <1>1, <2>2, <2>3 DEF recon, SameInsn
  <2>4. CASE Passed(t)
    BY <1>1, <2>2, <2>4, KeptRecords
  <2>5. CASE Retained(t, next)
    <3>1. /\ Len(out') = n + 1 /\ out'[n + 1] = NewInsn(t)
          /\ \A i \in 1..n : SameInsn(out'[i], out[i])
      BY <2>2, <2>5, KeptRecords
    <3>2. /\ NewInsn(t).thread = sel.thread /\ sel.lo <= NewInsn(t).time
          /\ NewInsn(t).time = records /\ NewInsn(t).seq = seqBy[t] + 1
      BY <2>5 DEF Retained, Selected, NewInsn
    <3>3. \A i \in 1..n : /\ out'[i].thread = out[i].thread /\ out'[i].time = out[i].time
                          /\ out'[i].seq = out[i].seq
      BY <3>1 DEF SameInsn
    <3> HIDE DEF n
    <3>4. ASSUME NEW i \in 1..(n + 1)
          PROVE  /\ out'[i].thread = sel'.thread /\ sel'.lo <= out'[i].time
                 /\ out'[i].time < records' /\ out'[i].seq > 0
      <4>1. CASE i \in 1..n
        BY <1>a, <2>2, <3>3, <4>1 DEF Listed, n
      <4>2. CASE i = n + 1
        BY <1>a, <1>b, <2>2, <3>1, <3>2, <4>2
      <4> QED BY <1>a, <4>1, <4>2
    <3>5. ASSUME NEW i \in 1..(n + 1), NEW j \in 1..(n + 1), i < j
          PROVE  out'[i].time < out'[j].time
      <4>1. i \in 1..n
        BY <1>a, <3>5
      <4>2. CASE j \in 1..n
        BY <3>3, <3>5, <4>1, <4>2 DEF Listed, n
      <4>3. CASE j = n + 1
        BY <1>a, <3>1, <3>2, <3>3, <4>1, <4>3 DEF Listed, n
      <4> QED BY <1>a, <4>2, <4>3
    <3> QED BY <3>1, <3>4, <3>5 DEF Listed
  <2> QED BY <2>1, <2>3, <2>4, <2>5, PushCases
<1>3. ASSUME NEW t \in Tasks, Undecoded(t) PROVE Listed'
  <2>1. PICK tasks \in {{t}, Tasks} : PushError(tasks)
    BY <1>3 DEF Undecoded
  <2>2. records' = records + 1 /\ UNCHANGED sel
    BY <1>3 DEF Undecoded, Deliver
  <2> QED BY <1>1, <2>1, <2>2, ErrorRecords
<1>4. ASSUME NEW t \in Tasks, NEW new \in Tasks,
             Overflows(t) \/ Exits(t) \/ Remaps(t) \/ ExecsTarget \/ Forks(t, new)
                 \/ UNCHANGED insnVars
      PROVE  Listed'
  <2>1. UNCHANGED <<out, sel>> /\ records' \in {records, records + 1}
    BY <1>4 DEF Overflows, Exits, Remaps, PushMmap, ExecsTarget, Forks, insnVars, recon, Deliver
  <2> QED BY <1>1, <2>1 DEF SameInsn
<1> QED BY <1>2, <1>3, <1>4, InsnAssumption DEF InsnNext

\* Every step keeps successive numbers true.
LEMMA AdjacentStep ==
    ASSUME TypeOK, UniqueTids, Adjacent, Latest, [InsnNext]_insnVars
    PROVE  Adjacent'
<1> DEFINE n == Len(out)
<1>a. n \in Nat
    BY DEF TypeOK, OutType
<1>1. ASSUME Len(out') = n, \A i \in 1..n : SameInsn(out'[i], out[i]), UNCHANGED real,
             crossed \subseteq crossed'
      PROVE  Adjacent'
    BY <1>a, <1>1 DEF Adjacent, SameInsn
<1>2. ASSUME NEW t \in Tasks, Executes(t) PROVE Adjacent'
  <2>1. PICK next \in Next1(t) : PushSample(t, next)
    BY <1>2 DEF Executes
  <2>2. next \in Addrs /\ Runs(t) /\ UNCHANGED crossed
    BY <1>2, <2>1, NewTypes, InsnAssumption DEF Executes
  <2>3. CASE UNCHANGED <<recon, real, lastOf>>
    BY <1>1, <2>2, <2>3 DEF recon, SameInsn
  <2>4. CASE Passed(t)
    BY <1>1, <2>2, <2>4, KeptRecords DEF Passed
  <2>5. CASE Retained(t, next)
    <3>1. /\ Len(out') = n + 1 /\ out'[n + 1] = NewInsn(t)
          /\ \A i \in 1..n : SameInsn(out'[i], out[i]) /\ real'[i] = real[i]
      BY <2>2, <2>5, KeptRecords
    <3>2. ASSUME n > 0, n \notin crossed, ~real[n].renamed, NewInsn(t).seq = out[n].seq + 1
          PROVE  real[n].next = NewInsn(t).ip
      <4>1. /\ NewInsn(t).ip = at[t] /\ NewInsn(t).seq = seqBy[t] + 1
            /\ NewInsn(t).thread = <<t[2], TakeExited(ids, t).generation[t]>>
        BY DEF NewInsn, ThreadName
      <4>2. NewInsn(t).thread = sel.thread /\ ~(records >= sel.hi)
        <5>1. NewInsn(t).thread = sel.thread /\ records < sel.hi
          BY <2>5 DEF Retained, Selected
        <5>2. records \in Nat /\ sel.hi \in Nat
          BY InsnAssumption DEF TypeOK, ProgramType, TrackerType, Selections
        <5> QED BY <5>1, <5>2
      <4>3. PICK u \in Tasks : Resumes(u, n)
        BY <3>2, <4>2 DEF Latest, LatestAt
      <4>4. u[2] = t[2]
        BY <4>1, <4>2, <4>3 DEF Resumes, ThreadName
      <4>5. u = t
        BY <2>2, <4>3, <4>4 DEF Resumes, UniqueTids
      <4>6. seqBy[t] \in Nat /\ out[n].seq \in Nat
        BY <1>a, <3>2, RecordNumbers DEF TypeOK, OutType
      <4> QED BY <3>2, <4>1, <4>3, <4>5, <4>6 DEF Resumes
    <3> HIDE DEF n
    <3>3. ASSUME NEW i \in 1..Len(out'), i + 1 \in 1..Len(out'), i \notin crossed',
                 ~real'[i].renamed, out'[i + 1].seq = out'[i].seq + 1
          PROVE  real'[i].next = out'[i + 1].ip
      <4>1. CASE i + 1 \in 1..n
        <5>1. i \in 1..n
          BY <1>a, <3>1, <3>3, <4>1
        <5>2. /\ real'[i] = real[i] /\ out'[i].seq = out[i].seq
              /\ out'[i + 1].seq = out[i + 1].seq /\ out'[i + 1].ip = out[i + 1].ip
          BY <3>1, <4>1, <5>1 DEF SameInsn
        <5> QED BY <2>2, <3>3, <4>1, <5>1, <5>2 DEF Adjacent, n
      <4>2. CASE i = n
        <5>1. n > 0 /\ n \in 1..n
          BY <1>a, <3>3, <4>2
        <5>2. real'[n] = real[n] /\ out'[n].seq = out[n].seq
          BY <3>1, <5>1 DEF SameInsn
        <5> QED BY <2>2, <3>1, <3>2, <3>3, <4>2, <5>1, <5>2
      <4> QED BY <1>a, <3>1, <3>3, <4>1, <4>2
    <3> QED BY <3>3 DEF Adjacent
  <2> QED BY <2>1, <2>3, <2>4, <2>5, PushCases
<1>3. ASSUME NEW t \in Tasks, Undecoded(t) PROVE Adjacent'
  <2>1. PICK tasks \in {{t}, Tasks} : PushError(tasks)
    BY <1>3 DEF Undecoded
  <2>2. UNCHANGED <<real, crossed>>
    BY <1>3 DEF Undecoded, history
  <2> QED BY <1>1, <2>1, <2>2, ErrorRecords
<1>4. ASSUME NEW t \in Tasks, NEW new \in Tasks,
             Overflows(t) \/ Exits(t) \/ Remaps(t) \/ ExecsTarget \/ Forks(t, new)
                 \/ UNCHANGED insnVars
      PROVE  Adjacent'
  <2>1. UNCHANGED <<out, real>> /\ crossed \subseteq crossed'
    BY <1>4 DEF Overflows, Exits, Remaps, PushMmap, ExecsTarget, Forks, insnVars, recon, history
  <2> QED BY <1>1, <2>1 DEF SameInsn
<1> QED BY <1>2, <1>3, <1>4, InsnAssumption DEF InsnNext

\* The frame of the thread retained last: its samples go on where they were,
\* or a number is missing.
LEMMA ResumesFrame ==
    ASSUME TypeOK, NEW u \in Tasks, NEW n, Resumes(u, n), out[n].seq \in Nat,
           Runs(u)', IsLiveThread(tracker', u), lastOf'[u] = lastOf[u],
           ids'.generation[u] = ids.generation[u], u \notin ids'.exited, sel' = sel,
           out'[n].seq = out[n].seq, real'[n] = real[n], seqBy'[u] \in Nat,
           (seqBy'[u] = seqBy[u] /\ at'[u] = at[u]) \/ seqBy'[u] > seqBy[u]
    PROVE  Resumes(u, n)'
<1>1. seqBy[u] \in Nat
    BY DEF TypeOK, OutType
<1>2. ThreadName(ids', u) = sel'.thread
    BY DEF Resumes, ThreadName
<1>3. seqBy'[u] >= out'[n].seq /\ (seqBy'[u] = out'[n].seq => at'[u] = real'[n].next)
    BY <1>1 DEF Resumes
<1> QED BY <1>2, <1>3 DEF Resumes

\* Every step keeps the thread retained last.
LEMMA LatestStep ==
    ASSUME TypeOK, UniqueTids, Listed, Latest, [InsnNext]_insnVars
    PROVE  Latest'
<1> DEFINE n == Len(out)
<1>a. /\ n \in Nat /\ records \in Nat /\ sel.hi \in Nat /\ sel.lo \in Nat
      /\ seqBy \in [Tasks -> Nat] /\ seqBy' \in [Tasks -> Nat]
      /\ at \in [Tasks -> Addrs] /\ lastOf \in [Tasks -> Nat]
      /\ run \in [Tasks -> {"none", "shim", "target", "gone"}]
      /\ ids \in IdTables
  <2>1. sel.hi \in Nat /\ sel.lo \in Nat
    BY InsnAssumption DEF TypeOK, TrackerType, Selections
  <2>2. seqBy' \in [Tasks -> Nat]
    BY TypeStep DEF TypeOK, OutType
  <2> QED BY <2>1, <2>2 DEF TypeOK, ProgramType, TrackerType, OutType, LinkType
<1>b. \A i \in 1..n : out[i].seq \in Nat /\ out[i].time \in Nat
    BY RecordNumbers
<1>c. \A u \in Tasks : Runs(u) /\ IsLiveThread(tracker, u) => IsLiveThread(tracker', u)
    BY TrackerGrows, StaysLive
\* A step that retains nothing: the window was over, or the thread goes on.
<1>d. ASSUME Len(out') = n, \A i \in 1..n : SameInsn(out'[i], out[i]), UNCHANGED <<real, sel>>,
             crossed \subseteq crossed', records' \in {records, records + 1},
             \A u \in Tasks : Resumes(u, n) /\ n \in 1..n =>
                 \/ n \in crossed' \/ records' >= sel.hi
                 \/ /\ Runs(u)' /\ lastOf'[u] = lastOf[u]
                    /\ ids'.generation[u] = ids.generation[u] /\ u \notin ids'.exited
                    /\ (seqBy'[u] = seqBy[u] /\ at'[u] = at[u]) \/ seqBy'[u] > seqBy[u]
      PROVE  Latest'
  <2> SUFFICES ASSUME n > 0, n \notin crossed', ~real'[n].renamed, ~(records' >= sel'.hi)
               PROVE  \E u \in Tasks : Resumes(u, n)'
    BY <1>d DEF Latest, LatestAt
  <2>1. n \in 1..n /\ n \notin crossed /\ ~real[n].renamed /\ ~(records >= sel.hi)
    BY <1>a, <1>d
  <2>2. PICK u \in Tasks : Resumes(u, n)
    BY <2>1 DEF Latest, LatestAt
  <2>3. out'[n].seq = out[n].seq /\ out[n].seq \in Nat /\ real'[n] = real[n] /\ seqBy'[u] \in Nat
    BY <1>a, <1>b, <1>d, <2>1 DEF SameInsn
  <2>4. IsLiveThread(tracker', u)
    BY <1>c, <2>2 DEF Resumes
  <2>5. Resumes(u, n)'
    BY <1>d, <2>1, <2>2, <2>3, <2>4, ResumesFrame
  <2> QED BY <2>5
<1>1. ASSUME NEW t \in Tasks, Executes(t) PROVE Latest'
  <2>1. PICK next \in Next1(t) : PushSample(t, next) /\ at' = [at EXCEPT ![t] = next]
    BY <1>1 DEF Executes
  <2>2. /\ next \in Addrs /\ Runs(t) /\ UNCHANGED <<run, tracker, crossed, sel>>
        /\ records' = records + 1
    BY <1>1, <2>1, NewTypes, InsnAssumption DEF Executes, Deliver
  <2>3. \A u \in Tasks : (Runs(u) => Runs(u)') /\ (u # t => at'[u] = at[u])
    BY <1>a, <2>1, <2>2 DEF Runs
  <2>4. CASE ~IsLiveThread(tracker, t) /\ UNCHANGED <<recon, real, lastOf>>
    <3>1. UNCHANGED <<out, ids, seqBy, real, lastOf>>
      BY <2>4 DEF recon
    <3>2. \A u \in Tasks : Resumes(u, n) => u # t /\ Runs(u) /\ u \notin ids.exited
      BY <2>4 DEF Resumes
    <3> HIDE DEF n
    <3> QED BY <1>d, <2>2, <2>3, <3>1, <3>2 DEF SameInsn, n
  <2>5. CASE IsLiveThread(tracker, t) /\ Passed(t)
    <3>1. /\ Len(out') = n /\ \A i \in 1..n : SameInsn(out'[i], out[i])
          /\ real' = real /\ ids' = TakeExited(ids, t)
          /\ \A u \in Tasks \ {t} : seqBy'[u] = seqBy[u] /\ lastOf'[u] = lastOf[u]
      BY <1>a, <2>2, <2>5, KeptRecords DEF Passed
    <3>2. ASSUME NEW u \in Tasks, u # t
          PROVE  ids'.generation[u] = ids.generation[u] /\ (u \notin ids.exited => u \notin ids'.exited)
      BY <1>a, <3>1, <3>2 DEF TakeExited, IdTables
    <3>3. ASSUME Resumes(t, n), n \in 1..n PROVE records' >= sel.hi
      <4>1. NewInsn(t).thread = sel.thread
        BY <3>3 DEF NewInsn, Resumes, TakeExited
      <4>2. sel.lo <= out[n].time /\ out[n].time < records
        BY <3>3 DEF Listed
      <4>3. ~(records < sel.hi)
        BY <1>a, <1>b, <2>5, <3>3, <4>1, <4>2 DEF Passed, Selected
      <4> QED BY <1>a, <2>2, <4>3
    <3>4. \A u \in Tasks : Resumes(u, n) => Runs(u) /\ u \notin ids.exited
      BY DEF Resumes
    <3> HIDE DEF n
    <3> QED BY <1>d, <2>2, <2>3, <3>1, <3>2, <3>3, <3>4 DEF n
  <2>6. CASE IsLiveThread(tracker, t) /\ Retained(t, next)
    <3>1. /\ Len(out') = n + 1 /\ out'[n + 1] = NewInsn(t) /\ real'[n + 1] = NewTruth(t, next)
      BY <2>2, <2>6, KeptRecords
    <3>2. /\ NewInsn(t).seq = seqBy[t] + 1 /\ NewTruth(t, next).next = next
          /\ NewTruth(t, next).renamed = (t \in ids.exited)
          /\ NewInsn(t).thread = ThreadName(TakeExited(ids, t), t)
      BY DEF NewInsn, NewTruth
    <3>3. ASSUME t \notin ids.exited PROVE Resumes(t, Len(out))'
      <4>1. ids' = ids /\ NewInsn(t).thread = ThreadName(ids, t)
        BY <2>6, <3>2, <3>3 DEF Retained, TakeExited
      <4>2. NewInsn(t).thread = sel.thread
        BY <2>6 DEF Retained, Selected
      <4>3. lastOf'[t] = n + 1 /\ seqBy'[t] = seqBy[t] + 1 /\ at'[t] = next
        BY <1>a, <2>1, <2>6, <3>3 DEF Retained
      <4>4. ThreadName(ids', t) = sel'.thread /\ t \notin ids'.exited
        BY <2>2, <3>3, <4>1, <4>2
      <4>5. Runs(t)' /\ IsLiveThread(tracker', t)
        BY <2>2, <2>3, <2>6
      <4>6. out'[Len(out')].seq = seqBy'[t] /\ real'[Len(out')].next = at'[t]
        BY <3>1, <3>2, <4>3
      <4>7. seqBy'[t] >= seqBy'[t] /\ lastOf'[t] = Len(out')
        BY <1>a, <3>1, <4>3
      <4> QED BY <4>4, <4>5, <4>6, <4>7 DEF Resumes
    <3>4. ~real'[Len(out')].renamed => t \notin ids.exited
      BY <3>1, <3>2
    <3> QED BY <3>3, <3>4 DEF Latest, LatestAt
  <2> QED BY <2>1, <2>4, <2>5, <2>6, PushCases
<1>2. ASSUME NEW t \in Tasks, Undecoded(t) PROVE Latest'
  <2>1. PICK tasks \in {{t}, Tasks} : PushError(tasks)
    BY <1>2 DEF Undecoded
  <2>2. /\ UNCHANGED <<real, crossed, lastOf, run, ids, sel>> /\ records' = records + 1
        /\ seqBy' = [u \in Tasks |-> IF u \in tasks /\ seqBy[u] > 0 THEN seqBy[u] + 1 ELSE seqBy[u]]
        /\ \A u \in Tasks \ {t} : at'[u] = at[u]
    BY <1>2, <1>a, <2>1 DEF Undecoded, Deliver, PushError, history
  <2>3. Len(out') = n /\ \A i \in 1..n : SameInsn(out'[i], out[i])
    BY <2>1, ErrorRecords
  <2>4. ASSUME NEW u \in Tasks, Resumes(u, n), n \in 1..n
        PROVE  /\ Runs(u) /\ u \notin ids.exited
               /\ (seqBy'[u] = seqBy[u] /\ at'[u] = at[u]) \/ seqBy'[u] > seqBy[u]
    <3>1. seqBy[u] > 0 /\ Runs(u) /\ u \notin ids.exited
      <4>1. out[n].seq > 0 /\ out[n].seq \in Nat
        BY <1>b, <2>4 DEF Listed
      <4> QED BY <1>a, <2>4, <4>1 DEF Resumes
    <3> QED BY <1>a, <2>1, <2>2, <3>1
  <2> HIDE DEF n
  <2> QED BY <1>d, <2>2, <2>3, <2>4 DEF Runs, n
<1>3. ASSUME NEW t \in Tasks, NEW new \in Tasks,
             Overflows(t) \/ Exits(t) \/ Remaps(t) \/ ExecsTarget \/ Forks(t, new)
                 \/ UNCHANGED insnVars
      PROVE  Latest'
  <2>1. /\ UNCHANGED <<out, real, lastOf, seqBy, sel>> /\ crossed \subseteq crossed'
        /\ records' \in {records, records + 1}
    BY <1>3 DEF Overflows, Exits, Remaps, PushMmap, ExecsTarget, Forks, insnVars, recon, history,
        Deliver
  <2>2. ASSUME NEW u \in Tasks, Resumes(u, n), n \notin crossed'
        PROVE  /\ Runs(u)' /\ at'[u] = at[u]
               /\ ids'.generation[u] = ids.generation[u] /\ u \notin ids'.exited
    <3>1. Runs(u) /\ lastOf[u] = n /\ u \notin ids.exited
      BY <2>2 DEF Resumes
    <3>2. CASE Overflows(t)
      <4>1. u # t
        BY <2>2, <3>1, <3>2 DEF Overflows
      <4> QED BY <1>a, <3>1, <3>2, <4>1 DEF Overflows, recon, Runs
    <3>3. CASE Exits(t)
      <4>1. u # t
        BY <2>2, <3>1, <3>3 DEF Exits
      <4>2. ids' = [ids EXCEPT !.exited = @ \union {t}]
        BY <3>3 DEF Exits, Observe
      <4>3. ids'.generation = ids.generation /\ ids'.exited = ids.exited \union {t}
        BY <1>a, <4>2 DEF IdTables
      <4> QED BY <1>a, <3>1, <3>3, <4>1, <4>3 DEF Exits, Runs
    <3>4. CASE Forks(t, new)
      BY <1>a, <3>1, <3>4 DEF Forks, Runs, recon
    <3>5. CASE Remaps(t) \/ ExecsTarget \/ UNCHANGED insnVars
      BY <1>a, <3>1, <3>5, InsnAssumption DEF Remaps, PushMmap, ExecsTarget, insnVars, program,
         recon, Runs
    <3> QED BY <1>3, <3>2, <3>3, <3>4, <3>5
  <2>3. \A i \in 1..n : SameInsn(out'[i], out[i])
    BY <2>1 DEF SameInsn
  <2> HIDE DEF n
  <2> QED BY <1>d, <2>1, <2>2, <2>3 DEF n
<1> QED BY <1>1, <1>2, <1>3, InsnAssumption DEF InsnNext

-----------------------------------------------------------------------------
\* The inductive invariant holds first, and is kept.
LEMMA InvInit == InsnInit => IInv
<1> SUFFICES ASSUME InsnInit PROVE IInv
    OBVIOUS
<1>1. TypeOK
    BY TypeInit
<1>2. /\ out = <<>> /\ told = {} /\ Len(out) = 0
      /\ lastOf = [t \in Tasks |-> 0] /\ pending = [t \in Tasks |-> 0]
    BY DEF InsnInit
<1>3. \A t \in Tasks : Runs(t) => t = Root
    BY DEF InsnInit, Runs
<1>4. UniqueTids
    BY <1>3 DEF UniqueTids
<1>5. Linked /\ Single
    BY <1>2 DEF Linked, LinkedTo, Single
<1>6. ToldIsKnown /\ OutcomesAreTrue /\ Listed /\ Adjacent /\ Latest
    BY <1>2 DEF ToldIsKnown, OutcomesAreTrue, Listed, Adjacent, Latest, LatestAt
<1> QED BY <1>1, <1>4, <1>5, <1>6 DEF IInv

\* So does every step.
LEMMA InvStep == IInv /\ [InsnNext]_insnVars => IInv'
BY TypeStep, UniqueStep, LinkedStep, ToldStep, OutcomesStep, ListedStep, AdjacentStep, LatestStep
   DEF IInv

\* The next record of a window is the next one retained, as times rise.
LEMMA NextInWindow ==
    ASSUME TypeOK, Listed, NEW lo \in Nat, NEW hi \in Nat,
           NEW i \in Window(lo, hi), NEW j \in Window(lo, hi), Follows(Window(lo, hi), i, j)
    PROVE  i \in 1..Len(out) /\ j = i + 1
<1>1. Len(out) \in Nat /\ DOMAIN out = 1..Len(out)
    BY DEF TypeOK, OutType
<1>2. /\ i \in 1..Len(out) /\ j \in 1..Len(out) /\ i < j
      /\ lo <= out[i].time /\ out[j].time < hi
    BY <1>1 DEF Window, Follows
<1>3. ASSUME i + 1 < j PROVE FALSE
  <2>1. i + 1 \in 1..Len(out)
    BY <1>1, <1>2, <1>3
  <2>2. out[i].time < out[i + 1].time /\ out[i + 1].time < out[j].time
    BY <1>1, <1>2, <1>3, <2>1 DEF Listed
  <2>3. lo <= out[i + 1].time /\ out[i + 1].time < hi
    BY <1>2, <2>1, <2>2, RecordNumbers
  <2>4. i + 1 \in Window(lo, hi)
    BY <1>1, <2>1, <2>3 DEF Window
  <2> QED BY <1>1, <1>2, <1>3, <2>4 DEF Follows
<1> QED BY <1>1, <1>2, <1>3

\* What the instruction analysis says of branches happened (BranchesAreTrue),
\* for any code, tasks, forks, exits, mappings and decoder errors: the pending
\* conditional of a task is decided by that task's next sample or given up, and
\* numbers that follow each other are of instructions that did.
THEOREM BranchesTrue == InsnSpec => []BranchesAreTrue
<1>1. IInv => BranchesAreTrue
  <2> SUFFICES ASSUME IInv PROVE BranchesAreTrue
    OBVIOUS
  <2>1. ASSUME NEW lo \in 0..MaxRecords, NEW hi \in 0..MaxRecords, NEW x \in Targets(Window(lo, hi)),
               x[1] \notin crossed, ~real[x[1]].renamed
        PROVE  real[x[1]].next = x[2]
    <3>1. PICK p \in Window(lo, hi) \X Window(lo, hi) :
              x = <<p[1], out[p[2]].ip>> /\ Follows(Window(lo, hi), p[1], p[2])
      BY DEF Targets
    <3>2. p[1] \in Window(lo, hi) /\ p[2] \in Window(lo, hi) /\ lo \in Nat /\ hi \in Nat
      BY InsnAssumption
    <3>3. p[1] \in 1..Len(out) /\ p[2] = p[1] + 1
      BY <3>1, <3>2, NextInWindow DEF IInv
    <3>4. p[2] \in 1..Len(out) /\ out[p[2]].seq = out[p[1]].seq + 1
      BY <3>1, <3>2 DEF Window, Follows, IInv, TypeOK, OutType
    <3> QED BY <2>1, <3>1, <3>3, <3>4 DEF IInv, Adjacent
  <2> QED BY <2>1 DEF IInv, BranchesAreTrue, TargetsAreTrue
<1> QED BY <1>1, InvInit, InvStep, PTL DEF InsnSpec

-----------------------------------------------------------------------------
\* A set of natural numbers has a least element.
LEMMA NatMin ==
    ASSUME NEW T, T \subseteq Nat, T # {}
    PROVE  \E x \in T : \A y \in T : x <= y
<1>1. \E x \in T : \A y \in T : ~(<<y, x>> \in OpToRel(<, Nat))
    BY NatLessThanWellFounded, WFMin, Zenon
<1>2. \A a, b \in Nat : a < b => <<a, b>> \in OpToRel(<, Nat)
    BY Zenon DEF OpToRel
<1>3. \E x \in T : \A y \in T : ~(y < x)
    BY <1>1, <1>2, Zenon
<1> QED BY <1>3

\* The elements of a finite set as a sequence.
LEMMA SetAsSeq ==
    ASSUME NEW S, IsFiniteSet(S)
    PROVE  /\ SetToSeq(S) \in Seq(S) /\ Len(SetToSeq(S)) = Cardinality(S)
           /\ \A x \in S : \E i \in 1..Len(SetToSeq(S)) : SetToSeq(S)[i] = x
<1>1. Cardinality(S) \in Nat
    BY FS_CardinalityType
<1>2. PICK f \in Bijection(1..Cardinality(S), S) : TRUE
    BY FS_CardinalityType, Zenon DEF ExistsBijection
<1>3. f \in [1..Cardinality(S) -> S] /\ IsInjective(f)
    BY <1>2, Zenon DEF Bijection, Injection, IsInjective
<1>4. SetToSeq(S) \in [1..Cardinality(S) -> S] /\ IsInjective(SetToSeq(S))
    BY <1>3, Zenon DEF SetToSeq
<1>5. SetToSeq(S) \in Seq(S) /\ Len(SetToSeq(S)) = Cardinality(S)
    BY <1>1, <1>4
<1>6. SetToSeq(S) \in Injection(1..Cardinality(S), S)
    BY <1>4, Zenon DEF Injection, IsInjective
<1>7. SetToSeq(S) \in Surjection(1..Cardinality(S), S)
  <2>1. IsFiniteSet(1..Cardinality(S)) /\ Cardinality(1..Cardinality(S)) = Cardinality(S)
    BY <1>1, FS_Interval
  <2> QED BY <2>1, <1>6, FS_Injection
<1> QED BY <1>5, <1>7, Zenon DEF Surjection

\* The elements of a sequence are finitely many.
LEMMA ElementsFinite ==
    ASSUME NEW X, NEW s \in Seq(X), NEW S, S \subseteq ToSet(s)
    PROVE  IsFiniteSet(S)
<1>1. Len(s) \in Nat /\ DOMAIN s = 1..Len(s) /\ s \in [1..Len(s) -> X]
    OBVIOUS
<1>2. s \in Surjection(1..Len(s), ToSet(s))
  <2>1. s \in [1..Len(s) -> ToSet(s)]
    BY <1>1 DEF ToSet
  <2> QED BY <1>1, <2>1, Zenon DEF Surjection, ToSet
<1>3. IsFiniteSet(1..Len(s))
    BY <1>1, FS_Interval
<1> QED BY <1>2, <1>3, FS_Surjection, FS_Subset

\* Induction up to n.
LEMMA Upward ==
    ASSUME NEW n \in Nat, NEW Q, 0 \in Q, \A i \in 1..n : i - 1 \in Q => i \in Q
    PROVE  \A i \in 0..n : i \in Q
<1> DEFINE T == {i \in 0..n : i \notin Q}
<1>1. SUFFICES T = {}
    OBVIOUS
<1>2. SUFFICES ASSUME T # {} PROVE FALSE
    OBVIOUS
<1>3. PICK m \in T : \A y \in T : m <= y
  <2>1. T \subseteq Nat
    OBVIOUS
  <2> HIDE DEF T
  <2> QED BY <1>2, <2>1, NatMin
<1>4. m \in 1..n /\ m - 1 \in 0..n /\ m - 1 \notin T
    BY <1>3
<1> QED BY <1>3, <1>4

\* step is the function of a recursion over 1..n from start, and f what it defines.
Recursive(n, start, step, f) ==
    f = [i \in 0..n |-> IF i = 0 THEN start ELSE step[<<i, f[i - 1]>>]]

\* A recursion over 1..n defines a function, whose values stay where its steps stay.
LEMMA RecursionExists ==
    ASSUME NEW n \in Nat, NEW S, NEW start \in S, NEW step \in [(1..n) \X S -> S]
    PROVE  \E f \in [0..n -> S] : Recursive(n, start, step, f)
<1> DEFINE Upto(m, f) == /\ f \in [0..m -> S]
                         /\ f = [i \in 0..m |-> IF i = 0 THEN start ELSE step[<<i, f[i - 1]>>]]
           Q == {m \in 0..n : \E f : Upto(m, f)}
<1>1. 0 \in Q
  <2>1. Upto(0, [i \in 0..0 |-> start])
    OBVIOUS
  <2> HIDE DEF Upto
  <2> QED BY <2>1
<1>2. ASSUME NEW m \in 1..n, m - 1 \in Q
      PROVE  m \in Q
  <2>1. PICK g : Upto(m - 1, g)
    BY <1>2
  <2>2. g[m - 1] \in S /\ m \in Nat /\ 0..m = (0..(m - 1)) \union {m} /\ m \notin 0..(m - 1) /\ m # 0
    BY <2>1
  <2> DEFINE h == [i \in 0..m |-> IF i = m THEN step[<<m, g[m - 1]>>] ELSE g[i]]
  <2>3. h \in [0..m -> S]
    <3>1. step[<<m, g[m - 1]>>] \in S
      BY <2>2
    <3> QED BY <2>1, <2>2, <3>1
  <2>4. \A i \in 0..m : h[i] = IF i = 0 THEN start ELSE step[<<i, h[i - 1]>>]
    <3>1. ASSUME NEW i \in 0..m
          PROVE  h[i] = IF i = 0 THEN start ELSE step[<<i, h[i - 1]>>]
      <4>1. CASE i = m
        <5>1. h[m] = step[<<m, g[m - 1]>>] /\ h[m - 1] = g[m - 1]
          BY <2>2
        <5> QED BY <4>1, <5>1, <2>2
      <4>2. CASE i # m
        <5>1. i \in 0..(m - 1) /\ h[i] = g[i]
          BY <4>2, <2>2
        <5>2. g[i] = IF i = 0 THEN start ELSE step[<<i, g[i - 1]>>]
          BY <2>1, <5>1, Zenon
        <5>3. i # 0 => h[i - 1] = g[i - 1]
          BY <5>1, <2>2
        <5> HIDE DEF h
        <5> QED BY <5>1, <5>2, <5>3
      <4> QED BY <4>1, <4>2
    <3> QED BY <3>1
  <2>5. Upto(m, h)
    <3> HIDE DEF h
    <3>1. h = [i \in 0..m |-> h[i]]
      BY <2>3
    <3> QED BY <2>3, <2>4, <3>1, Zenon
  <2> HIDE DEF Upto
  <2> QED BY <2>5
<1>3. \A m \in 0..n : m \in Q
  <2> HIDE DEF Q
  <2> QED BY <1>1, <1>2, Upward
<1>4. PICK f : Upto(n, f)
    BY <1>3
<1> QED BY <1>4, Zenon DEF Recursive

\* The indices of a sequence are finitely many.
LEMMA LenInterval ==
    ASSUME NEW X, NEW s \in Seq(X)
    PROVE  IsFiniteSet(1..Len(s)) /\ Cardinality(1..Len(s)) = Len(s) /\ Len(s) \in Nat
<1>1. Len(s) \in Nat /\ Len(s) \in Int /\ 1 \in Int
    OBVIOUS
<1>2. /\ IsFiniteSet(1..Len(s))
      /\ Cardinality(1..Len(s)) = IF 1 > Len(s) THEN 0 ELSE Len(s) - 1 + 1
    BY <1>1, FS_Interval, Zenon
<1> QED BY <1>1, <1>2

\* first is the recursive function behind Sorted.
Sorting(list, before, first) ==
    first = [n \in 0..Len(list) |->
                IF n = 0 THEN << >>
                ELSE InsertAt(first[n - 1],
                              1 + Cardinality({i \in DOMAIN first[n - 1] :
                                                   <<list[n], first[n - 1][i]>> \notin before}),
                              list[n])]

\* There is such a function, and what it gives are sequences.
LEMMA SortedBy ==
    ASSUME NEW X, NEW list \in Seq(X), NEW before
    PROVE  \E first : /\ Sorting(list, before, first)
                      /\ \A i \in 0..Len(list) : first[i] \in Seq(X)
                      /\ Sorted(list, before) = first[Len(list)]
<1> DEFINE n == Len(list)
           place(l, x) == 1 + Cardinality({i \in DOMAIN l : <<x, l[i]>> \notin before})
           put(l, x) == InsertAt(l, place(l, x), x)
           step == [p \in (1..n) \X Seq(X) |-> put(p[2], list[p[1]])]
<1>1. n \in Nat /\ \A i \in 1..n : list[i] \in X
    OBVIOUS
<1>2. ASSUME NEW l \in Seq(X), NEW x \in X
      PROVE  put(l, x) \in Seq(X)
  <2> DEFINE K == {i \in DOMAIN l : <<x, l[i]>> \notin before}
             k == Cardinality(K)
  <2>1. IsFiniteSet(1..Len(l)) /\ Cardinality(1..Len(l)) = Len(l) /\ Len(l) \in Nat
    BY LenInterval
  <2>2. K \in SUBSET (1..Len(l))
    OBVIOUS
  <2>3. IsFiniteSet(K) /\ k \in Nat /\ k <= Len(l)
    <3> HIDE DEF K
    <3>1. IsFiniteSet(K) /\ k <= Cardinality(1..Len(l))
      BY <2>1, <2>2, FS_Subset, Zenon
    <3>2. k \in Nat
      BY <3>1, FS_CardinalityType, Zenon
    <3> QED BY <2>1, <3>1, <3>2
  <2>4. k \in 0..Len(l)
    <3> HIDE DEF k
    <3> QED BY <2>1, <2>3
  <2> HIDE DEF k
  <2>5. SubSeq(l, 1, k) \in Seq(X) /\ SubSeq(l, k + 1, Len(l)) \in Seq(X)
    BY <2>4
  <2>6. InsertAt(l, 1 + k, x) = SubSeq(l, 1, k) \o <<x>> \o SubSeq(l, k + 1, Len(l))
    <3>1. (1 + k) - 1 = k /\ 1 + k = k + 1
      BY <2>4
    <3> QED BY <3>1, Zenon DEF InsertAt
  <2>7. InsertAt(l, 1 + k, x) \in Seq(X)
    <3>1. \A a, b \in Seq(X) : a \o <<x>> \o b \in Seq(X)
      OBVIOUS
    <3> QED BY <2>5, <2>6, <3>1, Zenon
  <2> QED BY <2>7, Zenon DEF k
<1>3. PICK f \in [0..n -> Seq(X)] : Recursive(n, << >>, step, f)
  <2>1. step \in [(1..n) \X Seq(X) -> Seq(X)]
    <3> HIDE DEF put
    <3> QED BY <1>1, <1>2
  <2>2. << >> \in Seq(X)
    OBVIOUS
  <2> HIDE DEF step, n
  <2> QED BY <1>1, <2>1, <2>2, RecursionExists
<1>4. Sorting(list, before, f)
  <2>1. \A i \in 0..n : i # 0 => f[i - 1] \in Seq(X) /\ i \in 1..n
    BY <1>1
  <2>2. \A i \in 0..n : i # 0 => step[<<i, f[i - 1]>>] = put(f[i - 1], list[i])
    <3> HIDE DEF put
    <3> QED BY <2>1
  <2>3. f = [i \in 0..n |-> IF i = 0 THEN << >> ELSE put(f[i - 1], list[i])]
    <3> HIDE DEF put, step
    <3> QED BY <1>3, <2>2, Zenon DEF Recursive
  <2> QED BY <2>3, Zenon DEF Sorting
<1> DEFINE g == CHOOSE first : Sorting(list, before, first)
<1>5. Sorting(list, before, g) /\ Sorted(list, before) = g[n]
    BY <1>4, Zenon DEF Sorted, Sorting
<1> HIDE DEF g
<1> DEFINE Q == {i \in 0..n : g[i] \in Seq(X)}
<1>6. 0 \in Q
  <2>1. 0 \in 0..n
    BY <1>1
  <2>2. 0 \in 0..n /\ g[0] = << >>
    BY <1>5, <2>1, Zenon DEF Sorting
  <2> QED BY <2>2
<1>7. ASSUME NEW i \in 1..n, i - 1 \in Q
      PROVE  i \in Q
  <2>1. i \in 0..n /\ i # 0 /\ g[i - 1] \in Seq(X) /\ list[i] \in X
    BY <1>7, <1>1
  <2>2. g[i] = put(g[i - 1], list[i])
    BY <1>5, <2>1, Zenon DEF Sorting
  <2>3. put(g[i - 1], list[i]) \in Seq(X)
    <3> HIDE DEF put
    <3> QED BY <1>2, <2>1
  <2> QED BY <2>1, <2>2, <2>3, Zenon
<1>8. \A i \in 0..n : i \in Q
  <2> HIDE DEF Q, n
  <2>1. \A i \in 1..n : i - 1 \in Q => i \in Q
    BY <1>7
  <2> QED BY <1>1, <1>6, <2>1, Upward, Zenon
<1>9. \A i \in 0..n : g[i] \in Seq(X)
    BY <1>8
<1> QED BY <1>5, <1>9, Zenon

\* Sorting a sequence gives one of the same elements.
LEMMA SortedSeq ==
    ASSUME NEW X, NEW list \in Seq(X), NEW before
    PROVE  Sorted(list, before) \in Seq(X)
<1>1. Len(list) \in 0..Len(list)
    OBVIOUS
<1>2. PICK first : /\ Sorting(list, before, first)
                   /\ \A i \in 0..Len(list) : first[i] \in Seq(X)
                   /\ Sorted(list, before) = first[Len(list)]
    BY SortedBy
<1> QED BY <1>1, <1>2, Zenon

\* f is the recursive function behind FlattenSeq.
Flattening(ss, f) == f = [i \in 1..Len(ss) |-> IF i = 1 THEN ss[i] ELSE f[i - 1] \o ss[i]]

\* There is such a function, and what it gives are sequences.
LEMMA FlattenedBy ==
    ASSUME NEW X, NEW ss \in Seq(Seq(X)), Len(ss) # 0
    PROVE  \E f : /\ Flattening(ss, f)
                  /\ \A i \in 1..Len(ss) : f[i] \in Seq(X)
                  /\ FlattenSeq(ss) = f[Len(ss)]
<1> DEFINE n == Len(ss)
           Flat(f) == f = [i \in 1..n |-> IF i = 1 THEN ss[i] ELSE f[i - 1] \o ss[i]]
           step == [p \in (1..n) \X Seq(X) |-> IF p[1] = 1 THEN ss[p[1]] ELSE p[2] \o ss[p[1]]]
<1>0. n \in Nat /\ \A i \in 1..n : ss[i] \in Seq(X)
    OBVIOUS
<1>1. PICK h \in [0..n -> Seq(X)] : Recursive(n, << >>, step, h)
  <2>1. step \in [(1..n) \X Seq(X) -> Seq(X)]
    <3>1. \A s, t \in Seq(X) : s \o t \in Seq(X)
      OBVIOUS
    <3> QED BY <1>0, <3>1
  <2>2. << >> \in Seq(X)
    OBVIOUS
  <2> HIDE DEF step, n
  <2> QED BY <1>0, <2>1, <2>2, RecursionExists
<1> DEFINE f == [i \in 1..n |-> h[i]]
<1>2. \A i \in 1..n : h[i] = IF i = 1 THEN ss[i] ELSE h[i - 1] \o ss[i]
  <2>1. \A i \in 1..n : i \in 0..n /\ i # 0 /\ i - 1 \in 0..n
    <3> HIDE DEF n
    <3> QED BY <1>0
  <2>2. \A i \in 1..n : i \in 0..n /\ i # 0 /\ i - 1 \in 0..n /\ h[i - 1] \in Seq(X)
    BY <1>1, <2>1, Zenon
  <2>3. \A i \in 1..n : h[i] = step[<<i, h[i - 1]>>]
    <3> HIDE DEF step
    <3> QED BY <1>1, <2>2, Zenon DEF Recursive
  <2> QED BY <2>2, <2>3
<1>3. Flat(f)
  <2>1. \A i \in 1..n : i # 1 => i - 1 \in 1..n
    BY <1>0
  <2>2. \A i \in 1..n : i # 1 => f[i - 1] = h[i - 1]
    <3> HIDE DEF n
    <3> QED BY <2>1
  <2>3. f = [i \in 1..n |-> IF i = 1 THEN ss[i] ELSE f[i - 1] \o ss[i]]
    <3>1. \A i \in 1..n : (IF i = 1 THEN ss[i] ELSE f[i - 1] \o ss[i]) = h[i]
      <4> HIDE DEF f
      <4> QED BY <1>2, <2>2, Zenon
    <3> QED BY <3>1, Zenon
  <2> QED BY <2>3, Zenon
<1> DEFINE g == CHOOSE e : Flat(e)
<1>4. Flat(g)
  <2> HIDE DEF f, Flat
  <2> QED BY <1>3, Zenon
<1>5. FlattenSeq(ss) = g[n]
    BY Zenon DEF FlattenSeq
<1> HIDE DEF g
<1> DEFINE Q == {i \in 0..n : i = 0 \/ g[i] \in Seq(X)}
<1>6. 0 \in Q
    BY <1>0
<1>7. ASSUME NEW i \in 1..n, i - 1 \in Q
      PROVE  i \in Q
  <2>1. g[i] = IF i = 1 THEN ss[i] ELSE g[i - 1] \o ss[i]
    BY <1>4, Zenon
  <2>2. i # 1 => g[i - 1] \in Seq(X)
    BY <1>7, <1>0
  <2>3. \A s, t \in Seq(X) : s \o t \in Seq(X)
    OBVIOUS
  <2>4. g[i] \in Seq(X)
    <3> HIDE DEF n
    <3> QED BY <1>0, <2>1, <2>2, <2>3, Zenon
  <2> QED BY <1>0, <2>4
<1>8. \A i \in 0..n : i \in Q
  <2> HIDE DEF Q, n
  <2>1. \A i \in 1..n : i - 1 \in Q => i \in Q
    BY <1>7
  <2> QED BY <1>0, <1>6, <2>1, Upward, Zenon
<1>9. \A i \in 1..n : g[i] \in Seq(X)
  <2>1. \A i \in 1..n : i \in 0..n /\ i # 0
    <3> HIDE DEF n
    <3> QED BY <1>0
  <2> QED BY <1>8, <2>1
<1> QED BY <1>4, <1>5, <1>9, Zenon DEF Flattening

\* Flattening a sequence of sequences gives one of the same elements.
LEMMA FlattenedSeq ==
    ASSUME NEW X, NEW ss \in Seq(Seq(X))
    PROVE  FlattenSeq(ss) \in Seq(X)
<1>1. CASE Len(ss) = 0
  <2>1. FlattenSeq(ss) = << >>
    BY <1>1 DEF FlattenSeq
  <2> QED BY <2>1
<1>2. CASE Len(ss) # 0
  <2>1. Len(ss) \in 1..Len(ss)
    BY <1>2
  <2>2. PICK f : /\ Flattening(ss, f)
                 /\ \A i \in 1..Len(ss) : f[i] \in Seq(X)
                 /\ FlattenSeq(ss) = f[Len(ss)]
    BY <1>2, FlattenedBy
  <2> QED BY <2>1, <2>2, Zenon
<1> QED BY <1>1, <1>2

-----------------------------------------------------------------------------
\* Types of the calls program and of what is published of it.
Frames   == [id : Nat, fn : Names, start : Nat, comp : {"open_end", "open_start"},
             parent : Nat \union {None}]
Spans    == [id : Nat, thread : Threads, fn : Names, parent : Nat \union {None}, start : Nat,
             end : Nat \union {None},
             comp : {"complete", "open_both", "uncertain", "interrupted", "open_end"}]
Analyses == [detail : {"calls", "instructions"}, full : BOOLEAN,
             ir : {IrVersion - 1, IrVersion}, spans : Seq(Spans), inline : BOOLEAN]

CallsType == /\ clock \in Nat /\ nextSpan \in Nat
             /\ frames \in [Threads -> Seq(Frames)] /\ spans \in Seq(Spans)

\* What is open ends as spans.
LEMMA EndedType ==
    ASSUME CallsType, NEW t \in Threads, NEW comp \in {"interrupted", "open_end"}
    PROVE  Ended(t, comp) \in Seq(Spans)
<1> DEFINE fs == frames[t]
           part == [i \in DOMAIN fs |-> SpanOf(t, fs[i], None, comp)]
<1>1. fs \in Seq(Frames) /\ Len(fs) \in Nat /\ DOMAIN fs = 1..Len(fs)
    BY DEF CallsType
<1>2. \A f \in Frames : SpanOf(t, f, None, comp) \in Spans
    BY DEF SpanOf, Frames, Spans
<1>3. part \in Seq(Spans) /\ Len(part) = Len(fs)
  <2> HIDE DEF fs
  <2> QED BY <1>1, <1>2
<1>4. Reverse(part) \in Seq(Spans)
  <2> HIDE DEF part, fs
  <2> QED BY <1>3 DEF Reverse
<1> QED BY <1>4, Zenon DEF Ended

QueryTypes == CallsType /\ analyses \in Seq(Analyses)

\* At the beginning.
LEMMA QueryTypesInit == Init => QueryTypes
<1> SUFFICES ASSUME Init PROVE QueryTypes
    OBVIOUS
<1>1. clock = 0 /\ nextSpan = 1 /\ spans = << >> /\ analyses = << >>
    BY DEF Init
<1>2. frames \in [Threads -> Seq(Frames)]
  <2>1. frames = [t \in Threads |-> << >>]
    BY Zenon DEF Init
  <2> QED BY <2>1
<1> QED BY <1>1, <1>2 DEF QueryTypes, CallsType

\* What a frame opened on others is.
LEMMA OpenedType ==
    ASSUME CallsType, NEW t \in Threads, NEW fs \in Seq(Frames), NEW fn \in Names,
           NEW comp \in {"open_end", "open_start"}
    PROVE  Opened(t, fs, fn, comp) \in Seq(Frames)
<1> DEFINE parent == IF fs = << >> THEN None ELSE Last(fs).id
           f == [id |-> nextSpan, fn |-> fn, start |-> clock, comp |-> comp, parent |-> parent]
<1>1. parent \in Nat \union {None}
  <2>1. fs # << >> => Last(fs) \in Frames
    BY DEF Last
  <2> QED BY <2>1 DEF Frames
<1>2. f \in Frames
  <2> HIDE DEF parent
  <2> QED BY <1>1 DEF CallsType, Frames
<1>3. Append(fs, f) \in Seq(Frames)
  <2> HIDE DEF f
  <2> QED BY <1>2
<1> QED BY <1>3, Zenon DEF Opened

\* The spans that are emitted keep their type.
LEMMA AppendSpan ==
    ASSUME CallsType, NEW t \in Threads, NEW end \in Nat \union {None},
           NEW comp \in {"complete", "open_both", "uncertain"}, frames[t] # << >>
    PROVE  /\ Last(frames[t]) \in Frames
           /\ Append(spans, SpanOf(t, Last(frames[t]), end, comp)) \in Seq(Spans)
           /\ Front(frames[t]) \in Seq(Frames)
<1>1. frames[t] \in Seq(Frames) /\ spans \in Seq(Spans)
    BY DEF CallsType
<1>2. Last(frames[t]) \in Frames
    BY <1>1 DEF Last
<1>3. SpanOf(t, Last(frames[t]), end, comp) \in Spans
    BY <1>2 DEF SpanOf, Frames, Spans
<1>4. Front(frames[t]) \in Seq(Frames)
  <2> DEFINE k == Len(frames[t]) - 1
  <2>1. k \in 0..Len(frames[t])
    BY <1>1
  <2> HIDE DEF k
  <2>2. SubSeq(frames[t], 1, k) \in Seq(Frames)
    BY <1>1, <2>1
  <2> QED BY <2>2, Zenon DEF Front, k
<1> QED BY <1>1, <1>2, <1>3, <1>4

\* A step keeps the types of the calls program and of the analyses.
LEMMA QueryTypesStep == ASSUME QueryTypes, [Next]_vars PROVE QueryTypes'
<1>1. CallsType /\ frames \in [Threads -> Seq(Frames)] /\ spans \in Seq(Spans)
      /\ nextSpan \in Nat /\ clock \in Nat
    BY DEF QueryTypes, CallsType
<1>2. ASSUME UNCHANGED <<clock, frames, nextSpan, spans>>, UNCHANGED analyses
      PROVE  QueryTypes'
    BY <1>2 DEF QueryTypes, CallsType
<1>3. ASSUME NEW t \in Threads, NEW fs \in Seq(Frames), Opens(t, fs), clock' = clock,
             spans' \in Seq(Spans), UNCHANGED analyses
      PROVE  QueryTypes'
  <2>1. frames' \in [Threads -> Seq(Frames)] /\ nextSpan' \in Nat
    BY <1>1, <1>3 DEF Opens
  <2> QED BY <1>1, <1>3, <2>1 DEF QueryTypes, CallsType
<1>4. ASSUME NEW t \in Threads, NEW fn \in Names, Calls(t, fn)
      PROVE  QueryTypes'
  <2>1. Opened(t, frames[t], fn, "open_end") \in Seq(Frames)
    BY <1>1, OpenedType
  <2>2. Opens(t, Opened(t, frames[t], fn, "open_end")) /\ clock' = clock /\ spans' = spans
        /\ analyses' = analyses
    BY <1>4 DEF Calls, Calling, serveVars
  <2> QED BY <1>1, <1>3, <2>1, <2>2, Zenon
<1>5. ASSUME NEW t \in Threads, Returns(t)
      PROVE  QueryTypes'
  <2>1. /\ frames[t] # << >> /\ frames' = [frames EXCEPT ![t] = Front(@)]
        /\ spans' = Append(spans, SpanOf(t, Last(frames[t]), clock,
                        IF Last(frames[t]).comp = "open_start" THEN "open_both" ELSE "complete"))
        /\ clock' = clock /\ nextSpan' = nextSpan /\ analyses' = analyses
    BY <1>5 DEF Returns, Calling, serveVars
  <2>2. (IF Last(frames[t]).comp = "open_start" THEN "open_both" ELSE "complete")
           \in {"complete", "open_both", "uncertain"} /\ clock \in Nat \union {None}
    BY <1>1
  <2>3. spans' \in Seq(Spans) /\ Front(frames[t]) \in Seq(Frames)
    BY <1>1, <2>1, <2>2, AppendSpan, Zenon
  <2>4. frames' \in [Threads -> Seq(Frames)]
    BY <1>1, <2>1, <2>3, Zenon
  <2> QED BY <1>1, <2>1, <2>3, <2>4 DEF QueryTypes, CallsType
<1>6. ASSUME NEW t \in Threads, NEW fn \in Names, TailCalls(t, fn)
      PROVE  QueryTypes'
  <2>1. /\ frames[t] # << >> /\ Opens(t, Opened(t, Front(frames[t]), fn, "open_start"))
        /\ spans' = Append(spans, SpanOf(t, Last(frames[t]), clock, "uncertain"))
        /\ clock' = clock /\ analyses' = analyses
    BY <1>6 DEF TailCalls, Calling, serveVars
  <2>2. clock \in Nat \union {None} /\ "uncertain" \in {"complete", "open_both", "uncertain"}
    BY <1>1
  <2>3. spans' \in Seq(Spans) /\ Front(frames[t]) \in Seq(Frames)
    BY <1>1, <2>1, <2>2, AppendSpan, Zenon
  <2>4. Opened(t, Front(frames[t]), fn, "open_start") \in Seq(Frames)
    BY <1>1, <2>3, OpenedType
  <2> QED BY <1>3, <2>1, <2>3, <2>4, Zenon
<1>7. ASSUME NEW t \in Threads, Cuts(t)
      PROVE  QueryTypes'
  <2>1. /\ spans' = spans \o Ended(t, "interrupted") /\ frames' = [frames EXCEPT ![t] = << >>]
        /\ clock' = clock /\ nextSpan' = nextSpan /\ analyses' = analyses
    BY <1>7 DEF Cuts, Calling, serveVars
  <2>2. Ended(t, "interrupted") \in Seq(Spans)
    BY <1>1, EndedType
  <2>3. spans' \in Seq(Spans)
    <3>1. \A s, u \in Seq(Spans) : s \o u \in Seq(Spans)
      OBVIOUS
    <3> QED BY <1>1, <2>1, <2>2, <3>1, Zenon
  <2>4. frames' \in [Threads -> Seq(Frames)]
    BY <1>1, <2>1
  <2> QED BY <1>1, <2>1, <2>3, <2>4 DEF QueryTypes, CallsType
<1>8. CASE Ticks
    BY <1>1, <1>8 DEF Ticks, Calling, serveVars, QueryTypes, CallsType
<1>9. CASE Publishes
  <2> DEFINE n == Cardinality(Threads)
             ends == [i \in 1..n |-> Ended(SetToSeq(Threads)[i], "open_end")]
             all == spans \o FlattenSeq(ends)
             byId == Sorted(all, {p \in ToSet(all) \X ToSet(all) : p[1].id < p[2].id})
  <2>1. all \in Seq(Spans)
    <3>1. IsFiniteSet(Threads) /\ n \in Nat
      BY QueriesAssumption, FS_CardinalityType
    <3>2. \A i \in 1..n : SetToSeq(Threads)[i] \in Threads
      <4> DEFINE ts == SetToSeq(Threads)
      <4>1. ts \in Seq(Threads) /\ Len(ts) = n
        BY <3>1, SetAsSeq
      <4> HIDE DEF ts, n
      <4>2. \A i \in 1..n : ts[i] \in Threads
        BY <4>1
      <4> QED BY <4>2 DEF ts
    <3>3. \A i \in 1..n : Ended(SetToSeq(Threads)[i], "open_end") \in Seq(Spans)
      BY <1>1, <3>2, EndedType
    <3>4. ends \in Seq(Seq(Spans))
      <4> HIDE DEF n
      <4> QED BY <3>1, <3>3
    <3>5. FlattenSeq(ends) \in Seq(Spans)
      BY <3>4, FlattenedSeq
    <3>6. \A s, u \in Seq(Spans) : s \o u \in Seq(Spans)
      OBVIOUS
    <3> QED BY <1>1, <3>5, <3>6, Zenon
  <2>2. byId \in Seq(Spans)
    <3> HIDE DEF all
    <3> QED BY <2>1, SortedSeq
  <2>3. PICK list \in {all, byId} : \E ir \in {IrVersion - 1, IrVersion} :
            spans' = list /\ analyses' = <<Analysis(detail, TRUE, ir, list)>>
    <3> HIDE DEF all
    <3> QED BY <1>9, Zenon DEF Publishes, all
  <2>4. PICK ir \in {IrVersion - 1, IrVersion} :
            spans' = list /\ analyses' = <<Analysis(detail, TRUE, ir, list)>>
    BY <2>3
  <2>5. list \in Seq(Spans) /\ detail = "calls"
    <3>1. detail = "calls"
      BY <1>9, Zenon DEF Publishes
    <3> HIDE DEF all, byId
    <3> QED BY <2>1, <2>2, <3>1
  <2>6. analyses' \in Seq(Analyses)
    <3>1. Analysis(detail, TRUE, ir, list) \in Analyses
      BY <2>4, <2>5 DEF Analysis, Analyses
    <3>2. \A x \in Analyses : <<x>> \in Seq(Analyses)
      OBVIOUS
    <3> QED BY <2>4, <3>1, <3>2, Zenon
  <2>7. frames' \in [Threads -> Seq(Frames)] /\ clock' = clock /\ nextSpan' = nextSpan
    <3>1. frames' = [t \in Threads |-> << >>] /\ clock' = clock /\ nextSpan' = nextSpan
      BY <1>9, Zenon DEF Publishes
    <3> QED BY <3>1
  <2> QED BY <1>1, <2>4, <2>5, <2>6, <2>7 DEF QueryTypes, CallsType
<1>10. ASSUME NEW full \in BOOLEAN, Redecodes(full)
      PROVE  QueryTypes'
  <2>1. /\ UNCHANGED <<clock, frames, nextSpan, spans>> /\ spans # << >>
        /\ analyses' = Append(analyses, Analysis("calls", full, IrVersion,
                                                IF full THEN spans ELSE Tail(spans)))
    BY <1>10 DEF Redecodes, callVars
  <2>2. (IF full THEN spans ELSE Tail(spans)) \in Seq(Spans)
    BY <1>1, <2>1
  <2>3. Analysis("calls", full, IrVersion, IF full THEN spans ELSE Tail(spans)) \in Analyses
    BY <2>2 DEF Analysis, Analyses
  <2>4. analyses' \in Seq(Analyses)
    BY <2>1, <2>3 DEF QueryTypes
  <2> QED BY <2>1, <2>4 DEF QueryTypes, CallsType
<1>11. ASSUME NEW c, Asks(c)
       PROVE  QueryTypes'
    BY <1>2, <1>11, Zenon DEF Asks, callVars
<1> QED
  <2>1. CASE UNCHANGED vars
    BY <1>2, <2>1, Zenon DEF vars, callVars, serveVars
  <2>2. CASE detail = "instructions" /\ stage = "tracing" /\ InsnNext
             /\ UNCHANGED <<detail, stage, callVars, serveVars>>
    BY <1>2, <2>2, Zenon DEF callVars, serveVars
  <2>3. CASE FirstPage
    BY <1>11, <2>3, Zenon DEF FirstPage
  <2>4. CASE NextPage
    BY <1>11, <2>4, Zenon DEF NextPage
  <2>5. ASSUME NEW group, NEW b, NEW c, NEW pairs, Compares(group, b, c, pairs)
        PROVE  QueryTypes'
    BY <1>2, <2>5, Zenon DEF Compares, callVars
  <2> QED BY <1>4, <1>5, <1>6, <1>7, <1>8, <1>9, <1>10, <2>1, <2>2, <2>3, <2>4, <2>5, Zenon
          DEF Next

\* The image of a finite set under a function is finite.
LEMMA ImageFinite ==
    ASSUME NEW S, IsFiniteSet(S), NEW f
    PROVE  IsFiniteSet({f[x] : x \in S})
<1> DEFINE T == {f[x] : x \in S}
           g == [x \in S |-> f[x]]
<1>1. g \in Surjection(S, T)
    BY Zenon DEF Surjection
<1> QED BY <1>1, FS_Surjection, Zenon

\* The rows of a timeline are spans of the analysis.
LEMMA TimelineSeq ==
    ASSUME NEW list \in Seq(Spans), NEW s
    PROVE  TimelineRows(list, s) \in Seq(Spans)
<1> DEFINE rows == {sp \in ToSet(list) : OfThread(s, sp) /\ Intersects(s, sp)}
<1>1. ToSet(list) \subseteq Spans
    BY DEF ToSet
<1>2. IsFiniteSet(rows)
    BY ElementsFinite
<1>3. SetToSeq(rows) \in Seq(Spans)
  <2>1. SetToSeq(rows) \in Seq(rows)
    BY <1>2, SetAsSeq
  <2>2. rows \subseteq Spans
    BY <1>1
  <2> HIDE DEF rows
  <2> QED BY <2>1, <2>2
<1> QED BY <1>3, SortedSeq, Zenon DEF TimelineRows

\* The rows of a hot path query are a sequence, and by function each is one name's.
LEMMA HotpathSeq ==
    ASSUME NEW list \in Seq(Spans), NEW s, NEW group
    PROVE  \E X : /\ HotpathRows(list, s, group, None) \in Seq(X)
                  /\ group = "function" => \A r \in X : \E n \in Names : r.path = <<n>>
<1> DEFINE mine == {sp \in ToSet(list) : OfThread(s, sp)}
           paths == Paths(ThreadSpans(list, s))
           Key(sp) == IF group = "path" THEN Truncated(paths[sp.id], None) ELSE <<sp.fn>>
           Of(k) == {sp \in mine : Key(sp) = k}
           Full(k) == {sp \in Of(k) : Eligible(s, sp)}
           Timed(k) == {sp \in Full(k) : None \notin {sp.start, sp.end}}
           Selfs(k) == {sp \in Timed(k) : SelfOf(list, sp) # None}
           Row(k) == [path |-> k, calls |-> Cardinality(Full(k)), observed |-> Cardinality(Of(k)),
                      inclusive |-> SumIfAny([sp \in Timed(k) |->
                                        IF sp.end < sp.start THEN 0 ELSE sp.end - sp.start]),
                      self |-> SumIfAny([sp \in Selfs(k) |-> SelfOf(list, sp)]),
                      excluded |-> Cardinality(Of(k) \ Full(k))]
           keys == {Key(sp) : sp \in mine}
           rows == {Row(k) : k \in keys}
           before == {p \in rows \X rows : Or(p[1].inclusive, -1) > Or(p[2].inclusive, -1)}
<1>1. HotpathRows(list, s, group, None) = Sorted(SetToSeq(rows), before)
    BY Zenon DEF HotpathRows, LargestFirst
<1> HIDE DEF before
<1>2. IsFiniteSet(keys)
  <2>1. IsFiniteSet(mine)
    BY ElementsFinite
  <2> DEFINE f == [sp \in mine |-> Key(sp)]
  <2>2. keys = {f[sp] : sp \in mine}
    <3> HIDE DEF Key, mine
    <3> QED OBVIOUS
  <2> HIDE DEF f, keys, mine
  <2> QED BY <2>1, <2>2, ImageFinite
<1>3. IsFiniteSet(rows)
  <2> DEFINE f == [k \in keys |-> Row(k)]
  <2>1. rows = {f[k] : k \in keys}
    <3> HIDE DEF Row, keys
    <3> QED OBVIOUS
  <2> HIDE DEF f, keys, rows
  <2> QED BY <1>2, <2>1, ImageFinite
<1>4. SetToSeq(rows) \in Seq(rows)
  <2> HIDE DEF rows
  <2> QED BY <1>3, SetAsSeq
<1>5. HotpathRows(list, s, group, None) \in Seq(rows)
  <2> HIDE DEF rows
  <2> QED BY <1>1, <1>4, SortedSeq
<1>6. ASSUME group = "function", NEW r \in rows
      PROVE  \E n \in Names : r.path = <<n>>
  <2>1. PICK sp \in mine : r = Row(Key(sp))
    <3> HIDE DEF Row, Key, mine
    <3> QED BY <1>6
  <2>2. r.path = Key(sp)
    <3> HIDE DEF Key, Of, Full, Timed, Selfs
    <3> QED BY <2>1
  <2>3. Key(sp) = <<sp.fn>>
    BY <1>6
  <2>4. sp.fn \in Names
    <3>1. sp \in Spans
      BY DEF ToSet
    <3> QED BY <3>1 DEF Spans
  <2> HIDE DEF Key
  <2> QED BY <2>2, <2>3, <2>4
<1> HIDE DEF rows
<1> QED BY <1>5, <1>6

\* A function on 1..n is a sequence, and the other way round.
LEMMA FunSeq ==
    ASSUME NEW X, NEW n \in Nat, NEW f \in [1..n -> X]
    PROVE  f \in Seq(X) /\ Len(f) = n
    OBVIOUS

\* A sequence is the function of its elements.
LEMMA SeqFun ==
    ASSUME NEW X, NEW s \in Seq(X)
    PROVE  s = [i \in 1..Len(s) |-> s[i]]
    OBVIOUS

\* The k elements of a sequence after the first c.
IsPart(X, q, c, k, part) ==
    part \in Seq(X) /\ Len(part) = k /\ \A i \in 1..k : part[i] = q[c + i]

\* SubSeq gives such a part.
LEMMA PartSeq ==
    ASSUME NEW X, NEW q \in Seq(X), NEW c \in Nat, NEW k \in Nat, c + k <= Len(q)
    PROVE  IsPart(X, q, c, k, SubSeq(q, c + 1, c + k))
<1>1. Len(q) \in Nat
    OBVIOUS
<1>2. SubSeq(q, c + 1, c + k) \in Seq(X)
    BY <1>1
<1>3. Len(SubSeq(q, c + 1, c + k)) = k
    BY <1>1
<1>4. \A i \in 1..k : SubSeq(q, c + 1, c + k)[i] = q[c + i]
    BY <1>1
<1> QED BY <1>2, <1>3, <1>4, Zenon DEF IsPart

\* The first part of a part of a sequence.
LEMMA SubSubSeq ==
    ASSUME NEW X, NEW q \in Seq(X), NEW c \in Nat, NEW m \in Nat, c + m <= Len(q),
           NEW p, p = SubSeq(q, c + 1, c + m), NEW n \in 0..m
    PROVE  SubSeq(p, 1, n) = SubSeq(q, c + 1, c + n)
<1> DEFINE r == SubSeq(q, c + 1, c + n)
<1>1. n \in Nat /\ c + n <= Len(q) /\ \A i \in 1..n : i \in 1..m
    OBVIOUS
<1>2. p \in Seq(X) /\ Len(p) = m /\ \A i \in 1..m : p[i] = q[c + i]
  <2>1. IsPart(X, q, c, m, p)
    BY PartSeq, Zenon
  <2> QED BY <2>1, Zenon DEF IsPart
<1>3. r \in Seq(X) /\ Len(r) = n /\ \A i \in 1..n : r[i] = q[c + i]
  <2>1. IsPart(X, q, c, n, r)
    BY <1>1, PartSeq, Zenon
  <2> QED BY <2>1, Zenon DEF IsPart
<1> HIDE DEF r
<1>4. SubSeq(p, 1, n) \in Seq(X) /\ Len(SubSeq(p, 1, n)) = n
    BY <1>2
<1>5. \A i \in 1..n : SubSeq(p, 1, n)[i] = r[i]
  <2>1. \A i \in 1..n : SubSeq(p, 1, n)[i] = p[i]
    BY <1>2
  <2> QED BY <1>1, <1>2, <1>3, <2>1, Zenon
<1>6. SubSeq(p, 1, n) = [i \in 1..n |-> SubSeq(p, 1, n)[i]] /\ r = [i \in 1..n |-> r[i]]
    BY <1>3, <1>4, SeqFun, Zenon
<1> QED BY <1>5, <1>6, Zenon DEF r

\* Of a set of numbers that is bounded there is a largest.
LEMMA NatMax ==
    ASSUME NEW n \in Nat, NEW T, T \subseteq 0..n, T # {}
    PROVE  \E x \in T : \A y \in T : y <= x
<1> DEFINE U == {n - x : x \in T}
<1>1. U \subseteq Nat /\ U # {}
  <2>1. \A x \in T : x \in 0..n
    OBVIOUS
  <2>2. \A x \in 0..n : n - x \in Nat
    OBVIOUS
  <2> QED BY <2>1, <2>2, Zenon
<1>2. PICK u \in U : \A v \in U : u <= v
  <2> HIDE DEF U
  <2> QED BY <1>1, NatMin
<1>3. PICK x \in T : u = n - x
    OBVIOUS
<1>4. \A y \in T : n - y \in U
    OBVIOUS
<1>5. \A y \in T : y <= x
  <2> HIDE DEF U
  <2> QED BY <1>2, <1>3, <1>4
<1> QED BY <1>5

\* p is the page of the k rows past c.
Page(p, rows, c, k) ==
    /\ p.page = SubSeq(rows, c + 1, c + k)
    /\ p.next = IF c + k = Len(rows) THEN None ELSE c + k

\* A page fitted to the budget holds the rows after its offset, as many as the next
\* cursor passes over; there are some when the first row can shrink to the budget.
LEMMA PageFacts ==
    ASSUME NEW X, NEW rows \in Seq(X), NEW c \in 0..Len(rows), NEW limit \in Nat \ {0},
           NEW budget, NEW weight, NEW least
    PROVE  \E k \in 0..(Len(rows) - c) :
              /\ Page(Fitted(Paginate(rows, c, limit), c, budget, weight, least), rows, c, k)
              /\ c < Len(rows) /\ least[1] <= budget => k # 0
<1> DEFINE m == Smaller(c + limit, Len(rows)) - c
           page == SubSeq(rows, c + 1, Smaller(c + limit, Len(rows)))
           whole == Paginate(rows, c, limit)
           p == Fitted(whole, c, budget, weight, least)
           Shows(q, k) == /\ q.page = SubSeq(rows, c + 1, c + k)
                          /\ q.next = IF c + k = Len(rows) THEN None ELSE c + k
           size(n) == SumOver([i \in 1..n |-> weight[i]])
           fits == {n \in 1..Len(page) : size(n) <= budget}
           Cut(n) == [page |-> SubSeq(page, 1, n), next |-> c + n]
<1>1. /\ Len(rows) \in Nat /\ c \in Nat /\ m \in Nat /\ c + m <= Len(rows)
      /\ Smaller(c + limit, Len(rows)) = c + m /\ (c < Len(rows) => m # 0)
    BY DEF Smaller
<1>2. /\ page = SubSeq(rows, c + 1, c + m) /\ page \in Seq(X) /\ Len(page) = m
      /\ \A n \in 0..m : SubSeq(page, 1, n) = SubSeq(rows, c + 1, c + n)
  <2>1. page = SubSeq(rows, c + 1, c + m)
    BY <1>1, Zenon
  <2>2. m \in 0..m
    BY <1>1
  <2> HIDE DEF m, page
  <2>3. page \in Seq(X) /\ Len(page) = m
    <3>1. m \in Nat /\ c \in Nat /\ c + m <= Len(rows)
      BY <1>1, Zenon
    <3>2. IsPart(X, rows, c, m, SubSeq(rows, c + 1, c + m))
      BY <3>1, PartSeq, Zenon
    <3> QED BY <2>1, <3>2, Zenon DEF IsPart
  <2>4. ASSUME NEW n \in 0..m
        PROVE  SubSeq(page, 1, n) = SubSeq(rows, c + 1, c + n)
    BY <1>1, <2>1, SubSubSeq
  <2> QED BY <2>1, <2>3, <2>4, Zenon
<1>3. whole.page = page /\ Shows(whole, m)
  <2>1. whole = [page |-> page, next |-> IF c + Len(page) < Len(rows) THEN c + Len(page) ELSE None]
    BY Zenon DEF Paginate
  <2> HIDE DEF page, m, whole
  <2> QED BY <1>1, <1>2, <2>1
<1>4. ASSUME NEW n \in 0..m, n # m
      PROVE  Shows(Cut(n), n)
  <2> HIDE DEF page, m
  <2> QED BY <1>1, <1>2, <1>4
<1>5. p = CASE page = << >> \/ Len(page) \in fits -> whole
            [] page # << >> /\ Len(page) \notin fits /\ fits # {} ->
                   Cut(CHOOSE n \in fits : \A j \in fits : j <= n)
            [] page # << >> /\ fits = {} /\ least[1] <= budget ->
                   IF Len(page) = 1 THEN whole ELSE Cut(1)
            [] OTHER -> [page |-> << >>, next |-> c]
  <2>1. p = CASE whole.page = << >> \/ Len(whole.page) \in
                       {n \in 1..Len(whole.page) : size(n) <= budget} -> whole
            [] whole.page # << >> /\ Len(whole.page) \notin
                       {n \in 1..Len(whole.page) : size(n) <= budget}
                 /\ {n \in 1..Len(whole.page) : size(n) <= budget} # {} ->
                   [page |-> SubSeq(whole.page, 1,
                       CHOOSE n \in {n \in 1..Len(whole.page) : size(n) <= budget} :
                           \A j \in {n_1 \in 1..Len(whole.page) : size(n_1) <= budget} : j <= n),
                    next |-> c + CHOOSE n \in {n \in 1..Len(whole.page) : size(n) <= budget} :
                           \A j \in {n_1 \in 1..Len(whole.page) : size(n_1) <= budget} : j <= n]
            [] whole.page # << >> /\ {n \in 1..Len(whole.page) : size(n) <= budget} = {}
                 /\ least[1] <= budget ->
                   IF Len(whole.page) = 1 THEN whole ELSE
                     [page |-> SubSeq(whole.page, 1, 1), next |-> c + 1]
            [] OTHER -> [page |-> << >>, next |-> c]
    BY Zenon DEF Fitted
  <2> QED BY <1>3, <2>1, Zenon
<1>6. \E k \in 0..m : Shows(p, k) /\ (c < Len(rows) /\ least[1] <= budget => k # 0)
  <2>1. page = << >> <=> m = 0
    <3> HIDE DEF page, m
    <3> QED BY <1>1, <1>2
  <2>2. m \in 0..m /\ (m # 0 => 0 \in 0..m /\ 1 \in 0..m /\ 0 # m) /\ 1 # 0
    <3> HIDE DEF m
    <3> QED BY <1>1
  <2>3. CASE p = whole /\ (page = << >> => m = 0)
    BY <1>1, <1>3, <2>2, <2>3, Zenon
  <2>4. CASE Len(page) \notin fits /\ fits # {}
             /\ p = Cut(CHOOSE n \in fits : \A j \in fits : j <= n)
    <3> DEFINE n == CHOOSE x \in fits : \A j \in fits : j <= x
    <3>1. fits \subseteq 0..m
      <4>1. 1..Len(page) \subseteq 0..m
        <5> HIDE DEF page, m
        <5> QED BY <1>1, <1>2
      <4> QED BY <4>1, Zenon
    <3>2. n \in fits
      <4> HIDE DEF fits, m
      <4>1. \E x \in fits : \A j \in fits : j <= x
        BY <1>1, <2>4, <3>1, NatMax, Zenon
      <4> QED BY <4>1, Zenon
    <3>3. n \in 0..m /\ n # m /\ n # 0
      <4>1. n \in 1..Len(page) /\ n # Len(page)
        <5> HIDE DEF n
        <5> QED BY <2>4, <3>2, Zenon
      <4> HIDE DEF n, page, m
      <4> QED BY <1>1, <1>2, <4>1
    <3>4. p = Cut(n)
      BY <2>4, Zenon
    <3>5. Shows(Cut(n), n)
      <4> HIDE DEF n, Cut, Shows, m
      <4> QED BY <1>4, <3>3, Zenon
    <3> HIDE DEF n, Cut, Shows, m
    <3> QED BY <3>3, <3>4, <3>5, Zenon
  <2>5. CASE page # << >> /\ Len(page) # 1 /\ p = Cut(1)
    <3>1. m # 0 /\ 1 # m
      <4> HIDE DEF page, m, Cut
      <4> QED BY <1>2, <2>1, <2>5
    <3>2. Shows(Cut(1), 1)
      <4> HIDE DEF Cut, Shows, m
      <4> QED BY <1>4, <2>2, <3>1, Zenon
    <3> HIDE DEF Cut, Shows, m
    <3> QED BY <2>2, <2>5, <3>1, <3>2, Zenon
  <2>6. CASE page # << >> /\ ~(least[1] <= budget) /\ p = [page |-> << >>, next |-> c]
    <3>1. m # 0 /\ 0 # m
      <4> HIDE DEF page, m
      <4> QED BY <2>1, <2>6
    <3>2. SubSeq(rows, c + 1, c + 0) = << >> /\ c + 0 = c /\ c # Len(rows)
      <4> HIDE DEF page, m
      <4> QED BY <1>1, <3>1
    <3>3. Shows(p, 0)
      <4> HIDE DEF page, m
      <4> QED BY <2>6, <3>2
    <3> HIDE DEF Shows, m
    <3> QED BY <2>2, <2>6, <3>1, <3>3, Zenon
  <2> HIDE DEF whole, Shows, m, page, fits, Cut
  <2> QED BY <1>5, <2>1, <2>3, <2>4, <2>5, <2>6, Zenon
<1>7. \A k \in 0..m : k \in 0..(Len(rows) - c)
  <2> HIDE DEF m
  <2> QED BY <1>1
<1>8. \A k : Shows(p, k) => Page(p, rows, c, k)
    BY Zenon DEF Page
<1> HIDE DEF m, Shows
<1> QED BY <1>6, <1>7, <1>8, Zenon

-----------------------------------------------------------------------------
\* A full decode by this version of the program.
Current(i) == analyses[i].full /\ analyses[i].ir = IrVersion

\* The analyses of a snapshot: none while it is traced; then the one it was published
\* with, which is full, and further ones by this version, of which one at most, the first
\* included, is full and current (find_analysis_by_key).
Decodes ==
    /\ stage \in {"tracing", "ready"}
    /\ stage = "tracing" => analyses = << >>
    /\ stage = "ready" => detail = "calls" /\ Len(analyses) >= 1
    /\ \A i \in 1..Len(analyses) : analyses[i].detail = "calls"
    /\ Len(analyses) >= 1 => analyses[1].full
    /\ \A i \in 2..Len(analyses) : analyses[i].ir = IrVersion
    /\ \A i, j \in 1..Len(analyses) : Current(i) /\ Current(j) => i = j

\* There is no analysis at the beginning.
LEMMA DecodesInit == Init => Decodes
    BY DEF Init, Decodes

\* A published analysis stays.
Kept == /\ Len(analyses) <= Len(analyses')
          /\ \A i \in 1..Len(analyses) : analyses'[i] = analyses[i]

\* No step brings back what a published analysis was, or publishes the current full decode
\* twice: what is in the cache is found by its key.
LEMMA DecodesStep ==
    ASSUME QueryTypes, Decodes, [Next]_vars
    PROVE  Decodes' /\ Kept /\ (stage = "ready" => stage' = "ready")
<1> DEFINE Goal == Decodes' /\ Kept /\ (stage = "ready" => stage' = "ready")
<1>1. analyses \in Seq(Analyses) /\ Len(analyses) \in Nat
    BY DEF QueryTypes
<1>2. ASSUME UNCHANGED <<stage, detail, analyses>>
      PROVE  Goal
    BY <1>1, <1>2 DEF Decodes, Kept, Current
<1>3. CASE Publishes
  <2>1. /\ stage = "tracing" /\ stage' = "ready" /\ detail' = detail /\ detail = "calls"
        /\ \E list, ir : analyses' = <<Analysis(detail, TRUE, ir, list)>>
    BY <1>3, Zenon DEF Publishes
  <2>2. PICK list, ir : analyses' = <<Analysis(detail, TRUE, ir, list)>>
    BY <2>1
  <2>3. Len(analyses') = 1 /\ analyses'[1].detail = "calls" /\ analyses'[1].full = TRUE
    BY <2>1, <2>2 DEF Analysis
  <2>4. Len(analyses) = 0
    BY <2>1 DEF Decodes
  <2>5. (\A i \in 1..Len(analyses') : i = 1) /\ 2..Len(analyses') = {} /\ Len(analyses') >= 1
    BY <2>3
  <2>6. Kept
    BY <2>3, <2>4 DEF Kept
  <2>7. Decodes'
    BY <2>1, <2>3, <2>5, Zenon DEF Decodes
  <2> QED BY <2>1, <2>6, <2>7
<1>4. ASSUME NEW full \in BOOLEAN, Redecodes(full)
      PROVE  Goal
  <2>1. /\ stage = "ready" /\ stage' = stage /\ detail' = detail /\ ~FindAnalysisByKey(full)
        /\ analyses' = Append(analyses, Analysis("calls", full, IrVersion,
                                                IF full THEN spans ELSE Tail(spans)))
    BY <1>4, Zenon DEF Redecodes, Served
  <2> DEFINE new == Analysis("calls", full, IrVersion, IF full THEN spans ELSE Tail(spans))
  <2>2. new.detail = "calls" /\ new.full = full /\ new.ir = IrVersion
    BY DEF Analysis
  <2>3. analyses' = Append(analyses, new)
    BY <2>1
  <2> HIDE DEF new
  <2>4. /\ Len(analyses') = Len(analyses) + 1
        /\ \A i \in 1..Len(analyses) : analyses'[i] = analyses[i]
        /\ analyses'[Len(analyses) + 1] = new
    BY <1>1, <2>3
  <2>5. \A i \in 1..Len(analyses) : ~(analyses[i].full = full /\ analyses[i].ir = IrVersion)
    BY <1>1, <2>1 DEF FindAnalysisByKey, Decodes
  <2>6. Kept
    BY <1>1, <2>4 DEF Kept
  <2>7. Len(analyses) >= 1 /\ Len(analyses') >= 1
    BY <1>1, <2>1, <2>4 DEF Decodes
  <2>8. \A i \in 1..Len(analyses') : i \in 1..Len(analyses) \/ (i = Len(analyses) + 1)
    BY <1>1, <2>4
  <2>9. (\A i \in 1..Len(analyses) : analyses[i].detail = "calls") /\ analyses[1].full
        /\ \A i \in 2..Len(analyses) : analyses[i].ir = IrVersion
    BY <2>7 DEF Decodes
  <2>10. \A i \in 1..Len(analyses') : analyses'[i].detail = "calls"
    BY <2>2, <2>4, <2>8, <2>9, Zenon
  <2>11. analyses'[1].full
    <3>1. 1 \in 1..Len(analyses)
      BY <1>1, <2>7
    <3> QED BY <2>4, <2>9, <3>1, Zenon
  <2>12. \A i \in 2..Len(analyses') : analyses'[i].ir = IrVersion
    <3>1. \A i \in 2..Len(analyses') : i \in 1..Len(analyses') /\ (i \in 1..Len(analyses) => i \in 2..Len(analyses))
      BY <1>1, <2>4
    <3> QED BY <2>2, <2>4, <2>8, <2>9, <3>1, Zenon
  <2>13. \A i, j \in 1..Len(analyses') : Current(i)' /\ Current(j)' => i = j
    <3>1. \A i \in 1..Len(analyses) : Current(i)' <=> Current(i)
      BY <2>4, Zenon DEF Current
    <3>2. \A i \in 1..Len(analyses') : i = Len(analyses) + 1 /\ Current(i)' => full
      BY <2>2, <2>4, Zenon DEF Current
    <3>3. full => \A i \in 1..Len(analyses) : ~Current(i)
      BY <1>1, <2>5 DEF Current, Analyses
    <3>4. \A i, j \in 1..Len(analyses) : Current(i) /\ Current(j) => i = j
      BY Zenon DEF Decodes
    <3> QED BY <2>8, <3>1, <3>2, <3>3, <3>4, Zenon
  <2> QED BY <2>1, <2>6, <2>7, <2>10, <2>11, <2>12, <2>13 DEF Decodes
<1>5. ASSUME NEW c, Asks(c)
      PROVE  Goal
    BY <1>2, <1>5, Zenon DEF Asks
<1> QED
  <2>1. CASE UNCHANGED vars
    BY <1>2, <2>1, Zenon DEF vars, serveVars
  <2>2. CASE detail = "instructions" /\ stage = "tracing" /\ InsnNext
             /\ UNCHANGED <<detail, stage, callVars, serveVars>>
    BY <1>2, <2>2, Zenon DEF serveVars
  <2>3. ASSUME NEW t, Returns(t) \/ Cuts(t) \/ \E fn \in Names : Calls(t, fn) \/ TailCalls(t, fn)
        PROVE  Goal
    BY <1>2, <2>3, Zenon DEF Returns, Cuts, Calls, TailCalls, Calling, serveVars
  <2>4. CASE Ticks
    BY <1>2, <2>4, Zenon DEF Ticks, Calling, serveVars
  <2>5. CASE FirstPage \/ NextPage
    BY <1>5, <2>5, Zenon DEF FirstPage, NextPage
  <2>6. ASSUME NEW group, NEW b, NEW c, NEW pairs, Compares(group, b, c, pairs)
        PROVE  Goal
    BY <1>2, <2>6, Zenon DEF Compares
  <2> QED BY <1>3, <1>4, <2>1, <2>2, <2>3, <2>4, <2>5, <2>6, Zenon DEF Next

\* The default analysis of a snapshot is one of its own, and is the full decode by this
\* version when there is one.
LEMMA BestFacts ==
    ASSUME QueryTypes, Decodes, stage = "ready"
    PROVE  /\ FindCallsAnalysis \in 1..Len(analyses)
           /\ \A i \in 1..Len(analyses) : Current(i) => FindCallsAnalysis = i
<1> DEFINE n == Len(analyses)
           Full(i) == IF analyses[i].full THEN 1 ELSE 0
           Rank(i) == <<analyses[i].ir, Full(i), i>>
           Worse(i, j) == \E k \in 1..3 : /\ Rank(i)[k] < Rank(j)[k]
                                          /\ \A l \in 1..(k - 1) : Rank(i)[l] = Rank(j)[l]
<1>1. /\ n \in Nat /\ n >= 1 /\ analyses \in Seq(Analyses)
      /\ \A i \in 1..n : analyses[i] \in Analyses
    BY DEF QueryTypes, Decodes
<1>2. FindCallsAnalysis = CHOOSE i \in 1..n : \A j \in (1..n) \ {i} : Worse(j, i)
  <2>1. {i \in DOMAIN analyses : analyses[i].detail = "calls"} = 1..n
    BY <1>1 DEF Decodes
  <2>2. 1..n # {}
    BY <1>1
  <2> QED BY <2>1, <2>2, Zenon DEF FindCallsAnalysis
<1>3. \A i \in 1..n : analyses[i].ir \in {IrVersion - 1, IrVersion} /\ analyses[i].full \in BOOLEAN
    BY <1>1 DEF Analyses
<1>4. \A i, j \in 1..n : Worse(i, j) <=>
          \/ analyses[i].ir < analyses[j].ir
          \/ analyses[i].ir = analyses[j].ir /\ Full(i) < Full(j)
          \/ analyses[i].ir = analyses[j].ir /\ Full(i) = Full(j) /\ i < j
  <2> TAKE i, j \in 1..n
  <2> DEFINE R == Rank(i)
             S == Rank(j)
  <2>1. R[1] = analyses[i].ir /\ R[2] = Full(i) /\ R[3] = i
        /\ S[1] = analyses[j].ir /\ S[2] = Full(j) /\ S[3] = j
    <3> HIDE DEF Full
    <3> QED OBVIOUS
  <2> HIDE DEF R, S, Full
  <2>2. (\E k \in 1..3 : R[k] < S[k] /\ \A l \in 1..(k - 1) : R[l] = S[l]) <=>
            \/ R[1] < S[1]
            \/ R[1] = S[1] /\ R[2] < S[2]
            \/ R[1] = S[1] /\ R[2] = S[2] /\ R[3] < S[3]
    <3>1. \A k \in 1..3 : k = 1 \/ k = 2 \/ k = 3
      OBVIOUS
    <3>2. 1..(1 - 1) = {} /\ 1..(2 - 1) = {1} /\ 1..(3 - 1) = {1, 2} /\ 1 \in 1..3 /\ 2 \in 1..3
          /\ 3 \in 1..3
      OBVIOUS
    <3> QED BY <3>1, <3>2, Zenon
  <2> QED BY <2>1, <2>2, Zenon DEF R, S
<1>5. \E i \in 1..n : \A j \in (1..n) \ {i} : Worse(j, i)
  <2>1. CASE \E i \in 1..n : Current(i)
    <3>1. PICK i \in 1..n : Current(i)
      BY <2>1
    <3>2. \A j \in (1..n) \ {i} : ~Current(j)
      BY <3>1 DEF Decodes
    <3>3. ASSUME NEW j \in (1..n) \ {i}
          PROVE  Worse(j, i)
      <4>1. /\ analyses[i].ir = 2 /\ Full(i) = 1 /\ analyses[j].ir \in {1, 2}
            /\ (analyses[j].ir = 2 => Full(j) = 0)
        BY <1>3, <3>1, <3>2 DEF Current, IrVersion
      <4> HIDE DEF Worse, Full
      <4>2. \/ analyses[j].ir < analyses[i].ir
            \/ analyses[j].ir = analyses[i].ir /\ Full(j) < Full(i)
        BY <4>1
      <4> QED BY <1>4, <4>2, Zenon
    <3> QED BY <3>3
  <2>2. CASE ~\E i \in 1..n : Current(i)
    <3>1. analyses[1].full /\ \A i \in 2..n : analyses[i].ir = 2
      BY <1>1 DEF Decodes, IrVersion
    <3>2. \A i \in 1..n : ~(analyses[i].full /\ analyses[i].ir = 2)
      BY <2>2 DEF Current, IrVersion
    <3>3. n \in 1..n /\ 1 \in 1..n /\ \A j \in (1..n) \ {n} : j < n /\ j \in 1..n
      BY <1>1
    <3>4. ASSUME NEW j \in (1..n) \ {n}
          PROVE  Worse(j, n)
      <4>1. n \in 2..n /\ analyses[n].ir = 2 /\ Full(n) = 0
        BY <1>1, <3>1, <3>2, <3>3
      <4>2. j = 1 => analyses[j].ir = 1
        BY <1>3, <3>1, <3>2, <3>3 DEF IrVersion
      <4>3. j # 1 => analyses[j].ir = 2 /\ Full(j) = 0
        BY <1>1, <3>1, <3>2, <3>3
      <4> HIDE DEF Worse, Full
      <4>4. \/ analyses[j].ir < analyses[n].ir
            \/ analyses[j].ir = analyses[n].ir /\ Full(j) = Full(n) /\ j < n
        BY <3>3, <4>1, <4>2, <4>3
      <4> QED BY <1>4, <3>3, <4>4, Zenon
    <3> QED BY <3>3, <3>4, Zenon
  <2> QED BY <2>1, <2>2
<1> DEFINE best == FindCallsAnalysis
<1>6. best \in 1..n /\ \A j \in (1..n) \ {best} : Worse(j, best)
  <2> HIDE DEF Worse
  <2> QED BY <1>2, <1>5, Zenon
<1> HIDE DEF best
<1>7. ASSUME NEW i \in 1..n, Current(i), best # i
      PROVE  FALSE
  <2>1. Worse(i, best)
    <3> HIDE DEF Worse
    <3> QED BY <1>6, <1>7, Zenon
  <2>2. ~Current(best)
    BY <1>6, <1>7 DEF Decodes
  <2>3. /\ analyses[i].ir = 2 /\ Full(i) = 1 /\ analyses[best].ir \in {1, 2}
        /\ (analyses[best].ir = 2 => Full(best) = 0)
    BY <1>3, <1>6, <1>7, <2>2 DEF Current, IrVersion
  <2>4. \/ analyses[i].ir < analyses[best].ir
        \/ analyses[i].ir = analyses[best].ir /\ Full(i) < Full(best)
        \/ analyses[i].ir = analyses[best].ir /\ Full(i) = Full(best) /\ i < best
    <3> HIDE DEF Worse, Full
    <3> QED BY <1>4, <1>6, <2>1, Zenon
  <2> HIDE DEF Full
  <2> QED BY <2>3, <2>4
<1> QED BY <1>6, <1>7 DEF best

-----------------------------------------------------------------------------
\* What a client that has passed n rows of an analysis has seen of it.
Told(a, rows, n) == [i \in 1..n |-> <<a, rows[i]>>]

\* What a page of an analysis shows.
Shown(a, page) == [i \in DOMAIN page |-> <<a, page[i]>>]

\* A client's question stays the same analysis: it named one, or the default was a full
\* decode by this version.
Settled == client.pin # 0 \/ Current(client.first)

\* A page asked for before the end has a first row.
LEMMA PageFirst ==
    ASSUME NEW X, NEW rows \in Seq(X), NEW c \in Nat, c < Len(rows), NEW limit \in Nat \ {0}
    PROVE  1 \in DOMAIN Paginate(rows, c, limit).page /\ Paginate(rows, c, limit).page[1] \in X
<1> DEFINE m == Smaller(c + limit, Len(rows)) - c
           page == SubSeq(rows, c + 1, c + m)
<1>1. /\ m \in Nat /\ m # 0 /\ c + m <= Len(rows) /\ Smaller(c + limit, Len(rows)) = c + m
      /\ c + 1 \in 1..Len(rows) /\ m \in 0..m /\ 1 \in 1..m
    BY DEF Smaller
<1>2. Paginate(rows, c, limit).page = page
  <2> HIDE DEF m
  <2> QED BY <1>1 DEF Paginate
<1>3. page \in Seq(X) /\ Len(page) = m /\ \A i \in 1..m : page[i] = rows[c + i]
  <2> HIDE DEF m
  <2>1. m \in Nat /\ c + m <= Len(rows)
    BY <1>1, Zenon
  <2>2. IsPart(X, rows, c, m, page)
    BY <2>1, PartSeq, Zenon
  <2> QED BY <2>2, Zenon DEF IsPart
<1>4. 1 \in DOMAIN page /\ page[1] \in X
  <2> HIDE DEF page, m
  <2> QED BY <1>1, <1>3
<1> QED BY <1>2, <1>4, Zenon

\* The client between its pages.
Paging ==
    client.st # "idle" =>
        /\ stage = "ready"
        /\ client.st \in {"paging", "done"} /\ client.kind \in {"timeline", "hotpaths"}
        /\ client.limit \in Limits /\ client.cursor \in Nat
        /\ client.first \in 1..Len(analyses)
        /\ client.pin # 0 => client.pin = client.first
        /\ Settled =>
              LET rows == RowsOf(client.kind, client.first)
              IN /\ client.cursor \in 0..Len(rows)
                 /\ client.seen = Told(client.first, rows,
                                       IF client.st = "done" THEN Len(rows) ELSE client.cursor)

\* The rows of an analysis are a sequence, and each is of a function.
LEMMA RowsSeq ==
    ASSUME QueryTypes, NEW a \in 1..Len(analyses), NEW kind \in {"timeline", "hotpaths"}
    PROVE  \E X : RowsOf(kind, a) \in Seq(X) /\ \A r \in X : NameOf(kind, r) \in Names
<1> DEFINE list == analyses[a].spans
<1>1. list \in Seq(Spans)
  <2>1. analyses[a] \in Analyses
    BY DEF QueryTypes
  <2> QED BY <2>1 DEF Analyses
<1> HIDE DEF list
<1>2. CASE kind = "timeline"
  <2>1. RowsOf(kind, a) = TimelineRows(list, Whole)
    BY <1>2, Zenon DEF RowsOf, list
  <2>2. RowsOf(kind, a) \in Seq(Spans)
    BY <1>1, <2>1, TimelineSeq, Zenon
  <2>3. \A r \in Spans : NameOf(kind, r) \in Names
    BY <1>2 DEF NameOf, Spans
  <2> QED BY <2>2, <2>3
<1>3. CASE kind = "hotpaths"
  <2>1. RowsOf(kind, a) = HotpathRows(list, Whole, "function", None)
    BY <1>3 DEF RowsOf, list
  <2>2. PICK X : /\ HotpathRows(list, Whole, "function", None) \in Seq(X)
                 /\ \A r \in X : \E n \in Names : r.path = <<n>>
    <3>1. "function" = "function"
      OBVIOUS
    <3> QED BY <1>1, <3>1, HotpathSeq, Zenon
  <2>3. ASSUME NEW r \in X
        PROVE  NameOf(kind, r) \in Names
    <3>1. PICK n \in Names : r.path = <<n>>
      BY <2>2, Zenon
    <3>2. NameOf(kind, r) = Last(<<n>>)
      BY <1>3, <3>1 DEF NameOf
    <3>3. Last(<<n>>) = n
      BY DEF Last
    <3> QED BY <3>2, <3>3, Zenon
  <2> QED BY <2>1, <2>2, <2>3, Zenon
<1> QED BY <1>2, <1>3

\* One sequence after another.
LEMMA Concatenated ==
    ASSUME NEW Y, NEW s \in Seq(Y), NEW u \in Seq(Y)
    PROVE  /\ s \o u \in Seq(Y)
           /\ Len(s \o u) = Len(s) + Len(u)
           /\ \A i \in 1..(Len(s) + Len(u)) :
                 (s \o u)[i] = IF i <= Len(s) THEN s[i] ELSE u[i - Len(s)]
<1>1. s \o u \in Seq(Y)
    OBVIOUS
<1>2. Len(s \o u) = Len(s) + Len(u)
    OBVIOUS
<1>3. \A i \in 1..(Len(s) + Len(u)) :
         (s \o u)[i] = IF i <= Len(s) THEN s[i] ELSE u[i - Len(s)]
    OBVIOUS
<1> QED BY <1>1, <1>2, <1>3

\* A page is the k rows past c.
PageAt(rows, c, k, page) ==
    /\ \E X : rows \in Seq(X)
    /\ c \in Nat /\ k \in Nat /\ c + k <= Len(rows)
    /\ page = SubSeq(rows, c + 1, c + k)

\* Such a page follows what was told before.
Joins(a, rows, c, k, page) == Told(a, rows, c) \o Shown(a, page) = Told(a, rows, c + k)

\* What such a page shows follows what was told before.
LEMMA ToldMore ==
    ASSUME NEW a, NEW rows, NEW c, NEW k, NEW page, PageAt(rows, c, k, page)
    PROVE  Joins(a, rows, c, k, page)
<1>1. PICK X : rows \in Seq(X)
    BY DEF PageAt
<1>2. c \in Nat /\ k \in Nat /\ c + k <= Len(rows) /\ page = SubSeq(rows, c + 1, c + k)
    BY DEF PageAt
<1> DEFINE new == [i \in DOMAIN page |-> <<a, page[i]>>]
           old == Told(a, rows, c)
           Y == {<<a, rows[i]>> : i \in 1..Len(rows)}
<1>3. Len(rows) \in Nat
    BY <1>1
<1>4. page \in Seq(X) /\ Len(page) = k /\ \A i \in 1..k : page[i] = rows[c + i]
  <2>1. IsPart(X, rows, c, k, page)
    BY <1>1, <1>2, PartSeq, Zenon
  <2> QED BY <2>1, Zenon DEF IsPart
<1>5. DOMAIN page = 1..k
    BY <1>4, <1>2
<1>6. new = [i \in 1..k |-> <<a, rows[c + i]>>]
    BY <1>4, <1>5
<1>7. new \in Seq(Y) /\ Len(new) = k
  <2> HIDE DEF new
  <2>1. \A i \in 1..k : c + i \in 1..Len(rows)
    BY <1>3, <1>2
  <2>2. \A i \in 1..k : <<a, rows[c + i]>> \in Y
    BY <2>1
  <2> HIDE DEF Y
  <2>3. new \in [1..k -> Y]
    BY <1>6, <2>2, Zenon
  <2> QED BY <1>2, <2>3, FunSeq, Zenon
<1>8. old \in Seq(Y) /\ Len(old) = c
  <2>1. \A i \in 1..c : <<a, rows[i]>> \in Y
    BY <1>3, <1>2
  <2> HIDE DEF Y
  <2> QED BY <1>2, <2>1 DEF Told
<1>9. /\ old \o new \in Seq(Y) /\ Len(old \o new) = c + k
      /\ \A i \in 1..(c + k) : (old \o new)[i] = IF i <= c THEN old[i] ELSE new[i - c]
  <2> HIDE DEF old, new, Y
  <2>1. /\ old \o new \in Seq(Y) /\ Len(old \o new) = Len(old) + Len(new)
        /\ \A i \in 1..(Len(old) + Len(new)) :
              (old \o new)[i] = IF i <= Len(old) THEN old[i] ELSE new[i - Len(old)]
    BY <1>7, <1>8, Concatenated
  <2> QED BY <1>7, <1>8, <2>1, Zenon
<1>10. \A i \in 1..(c + k) : (old \o new)[i] = <<a, rows[i]>>
  <2>1. \A i \in 1..c : old[i] = <<a, rows[i]>>
    BY DEF Told
  <2>2. \A i \in 1..k : new[i] = <<a, rows[c + i]>>
    <3> HIDE DEF new
    <3> QED BY <1>6, Zenon
  <2>3. \A i \in 1..(c + k) : (i <= c => i \in 1..c) /\ (~(i <= c) => i - c \in 1..k /\ c + (i - c) = i)
    BY <1>2
  <2> HIDE DEF old, new
  <2>4. ASSUME NEW i \in 1..(c + k)
        PROVE  (old \o new)[i] = <<a, rows[i]>>
    <3>1. CASE i <= c
      BY <1>9, <2>1, <2>3, <3>1, Zenon
    <3>2. CASE ~(i <= c)
      <4>1. (old \o new)[i] = new[i - c] /\ i - c \in 1..k /\ c + (i - c) = i
        BY <1>9, <2>3, <3>2, Zenon
      <4>2. new[i - c] = <<a, rows[c + (i - c)]>>
        BY <2>2, <4>1, Zenon
      <4> QED BY <4>1, <4>2, Zenon
    <3> QED BY <3>1, <3>2
  <2> QED BY <2>4
<1>11. old \o new = [i \in 1..(c + k) |-> (old \o new)[i]]
  <2> HIDE DEF old, new, Y
  <2> QED BY <1>9, SeqFun, Zenon
<1> QED BY <1>10, <1>11, Zenon DEF Told, Shown, Joins

\* A page asked for past the end is empty, and the last.
LEMMA PagePast ==
    ASSUME NEW X, NEW rows \in Seq(X), NEW c \in Nat, c >= Len(rows), NEW limit \in Nat,
           NEW budget, NEW weight, NEW least
    PROVE  Fitted(Paginate(rows, c, limit), c, budget, weight, least).next = None
<1> DEFINE page == SubSeq(rows, c + 1, Smaller(c + limit, Len(rows)))
           whole == Paginate(rows, c, limit)
<1>1. page = << >>
    BY DEF Smaller
<1>2. whole = [page |-> page, next |-> IF c + Len(page) < Len(rows) THEN c + Len(page) ELSE None]
    BY Zenon DEF Paginate
<1>3. whole.page = << >> /\ whole.next = None
  <2> HIDE DEF page, whole
  <2>1. Len(page) = 0 /\ ~(c + 0 < Len(rows)) /\ Len(rows) \in Nat
    BY <1>1
  <2> QED BY <1>1, <1>2, <2>1
<1>4. Fitted(whole, c, budget, weight, least) = whole
    BY <1>3, Zenon DEF Fitted
<1> QED BY <1>3, <1>4, Zenon

\* A client is a record of these fields.
Shape(c) == c = [st |-> c.st, kind |-> c.kind, pin |-> c.pin, limit |-> c.limit,
                 cursor |-> c.cursor, first |-> c.first, seen |-> c.seen]

\* What a client that asks for a page brings along.
Asking(c) ==
    /\ Shape(c) /\ c.kind \in {"timeline", "hotpaths"} /\ c.limit \in Limits /\ c.cursor \in Nat
    /\ c.pin \in 0..Len(analyses) /\ c.first \in 0..Len(analyses)
    /\ c.first = 0 => c.cursor = 0 /\ c.seen = << >>
    /\ c.first # 0 /\ c.pin # 0 => c.pin = c.first
    /\ c.first # 0 /\ (c.pin # 0 \/ Current(c.first)) =>
          /\ c.cursor \in 0..Len(RowsOf(c.kind, c.first))
          /\ c.seen = Told(c.first, RowsOf(c.kind, c.first), c.cursor)

\* What the page does to the client: it is of the target, and brings rows unless it is
\* the last.
Answered(c, a, page, next) ==
    /\ a = Target(c.pin) /\ \E X : RowsOf(c.kind, a) \in Seq(X)
    /\ client' = [st |-> IF next = None THEN "done" ELSE "paging",
                  kind |-> c.kind, pin |-> c.pin, limit |-> c.limit,
                  cursor |-> IF next = None THEN c.cursor ELSE next,
                  first |-> IF c.first = 0 THEN a ELSE c.first,
                  seen |-> c.seen \o [i \in DOMAIN page |-> <<a, page[i]>>]]
    /\ c.cursor >= Len(RowsOf(c.kind, a)) => next = None
    /\ c.cursor \in 0..Len(RowsOf(c.kind, a)) =>
          \E k \in 0..(Len(RowsOf(c.kind, a)) - c.cursor) :
             /\ Page([page |-> page, next |-> next], RowsOf(c.kind, a), c.cursor, k)
             /\ c.cursor < Len(RowsOf(c.kind, a)) => k # 0

\* Asks does no more: the default is an analysis, and a page asked for before the end
\* brings a row, since a row that is too heavy for the budget shrinks to its least.
LEMMA AsksPage ==
    ASSUME QueryTypes, Decodes, NEW c, Asking(c), Asks(c)
    PROVE  \E a \in 1..Len(analyses) : \E page, next : Answered(c, a, page, next)
<1>1. stage = "ready" /\ analyses \in Seq(Analyses) /\ Len(analyses) \in Nat
    BY DEF Asks, Served, QueryTypes
<1>2. PICK a \in {Target(c.pin)} \ {0} :
        \E whole \in {Paginate(RowsOf(c.kind, a), c.cursor, c.limit)} :
        \E p \in {PageOf(c, whole)} :
           client' = [c EXCEPT
             !.st = IF p.next = None THEN "done" ELSE "paging",
             !.cursor = IF p.next = None THEN @ ELSE p.next,
             !.first = IF @ = 0 THEN a ELSE @,
             !.seen = @ \o [i \in DOMAIN p.page |-> <<a, p.page[i]>>]]
    BY Zenon DEF Asks
<1> DEFINE rows == RowsOf(c.kind, a)
<1>3. PICK whole \in {Paginate(rows, c.cursor, c.limit)} :
        \E p \in {PageOf(c, whole)} :
           client' = [c EXCEPT
             !.st = IF p.next = None THEN "done" ELSE "paging",
             !.cursor = IF p.next = None THEN @ ELSE p.next,
             !.first = IF @ = 0 THEN a ELSE @,
             !.seen = @ \o [i \in DOMAIN p.page |-> <<a, p.page[i]>>]]
    BY <1>2
<1>4. PICK p \in {PageOf(c, whole)} :
           client' = [c EXCEPT
             !.st = IF p.next = None THEN "done" ELSE "paging",
             !.cursor = IF p.next = None THEN @ ELSE p.next,
             !.first = IF @ = 0 THEN a ELSE @,
             !.seen = @ \o [i \in DOMAIN p.page |-> <<a, p.page[i]>>]]
    BY <1>3
<1>5. whole = Paginate(rows, c.cursor, c.limit) /\ p = PageOf(c, whole)
    BY <1>3, <1>4, Zenon
<1>6. a = Target(c.pin) /\ a \in 1..Len(analyses)
  <2>1. c.pin \in 0..Len(analyses)
    BY Zenon DEF Asking
  <2>2. FindCallsAnalysis \in 1..Len(analyses)
    BY <1>1, BestFacts
  <2>3. a = IF c.pin = 0 THEN FindCallsAnalysis ELSE c.pin
    BY <1>2 DEF Target
  <2>4. a \in 1..Len(analyses)
    BY <1>1, <2>1, <2>2, <2>3
  <2> QED BY <1>2, <2>4
<1>7. c.kind \in {"timeline", "hotpaths"} /\ c.limit \in Nat \ {0} /\ c.cursor \in Nat
    BY QueriesAssumption DEF Asking
<1>8. PICK X : rows \in Seq(X) /\ \A r \in X : NameOf(c.kind, r) \in Names
    BY <1>6, <1>7, RowsSeq, Zenon
<1> DEFINE weight == [i \in DOMAIN whole.page |-> Weight[NameOf(c.kind, whole.page[i])]]
           least == [i \in DOMAIN whole.page |-> Least[NameOf(c.kind, whole.page[i])]]
<1>9. /\ p = Fitted(whole, c.cursor, Budget, weight, least)
      /\ p = Fitted(Paginate(rows, c.cursor, c.limit), c.cursor, Budget, weight, least)
  <2>1. p = Fitted(whole, c.cursor, Budget, weight, least)
    BY <1>5, Zenon DEF PageOf
  <2> HIDE DEF weight, least
  <2> QED BY <1>5, <2>1, Zenon
<1>10. client' = [st |-> IF p.next = None THEN "done" ELSE "paging",
                 kind |-> c.kind, pin |-> c.pin, limit |-> c.limit,
                 cursor |-> IF p.next = None THEN c.cursor ELSE p.next,
                 first |-> IF c.first = 0 THEN a ELSE c.first,
                 seen |-> c.seen \o [i \in DOMAIN p.page |-> <<a, p.page[i]>>]]
  <2>1. Shape(c)
    BY Zenon DEF Asking
  <2> DEFINE st == IF p.next = None THEN "done" ELSE "paging"
             cursor == IF p.next = None THEN c.cursor ELSE p.next
             first == IF c.first = 0 THEN a ELSE c.first
             seen == c.seen \o [i \in DOMAIN p.page |-> <<a, p.page[i]>>]
  <2>2. client' = [c EXCEPT !.st = st, !.cursor = cursor, !.first = first, !.seen = seen]
    BY <1>4, Zenon
  <2> HIDE DEF st, cursor, first, seen
  <2>3. client' = [st |-> st, kind |-> c.kind, pin |-> c.pin, limit |-> c.limit,
                   cursor |-> cursor, first |-> first, seen |-> seen]
    BY <2>1, <2>2 DEF Shape
  <2> QED BY <2>3, Zenon DEF st, cursor, first, seen
<1>11. c.cursor >= Len(rows) => p.next = None
  <2> HIDE DEF rows, weight, least
  <2> QED BY <1>7, <1>8, <1>9, PagePast
<1>12. ASSUME c.cursor \in 0..Len(rows)
       PROVE  \E k \in 0..(Len(rows) - c.cursor) :
                 /\ Page([page |-> p.page, next |-> p.next], rows, c.cursor, k)
                 /\ c.cursor < Len(rows) => k # 0
  <2>1. PICK k \in 0..(Len(rows) - c.cursor) :
                /\ Page(p, rows, c.cursor, k)
                /\ c.cursor < Len(rows) /\ least[1] <= Budget => k # 0
    <3> HIDE DEF rows, weight, least
    <3> QED BY <1>7, <1>8, <1>9, <1>12, PageFacts, SMTT(30)
  <2>2. ASSUME c.cursor < Len(rows)
        PROVE  least[1] <= Budget
    <3>1. 1 \in DOMAIN whole.page /\ whole.page[1] \in X
      <4> HIDE DEF rows
      <4>1. 1 \in DOMAIN Paginate(rows, c.cursor, c.limit).page
            /\ Paginate(rows, c.cursor, c.limit).page[1] \in X
        BY <1>7, <1>8, <2>2, PageFirst
      <4> QED BY <1>5, <4>1, Zenon
    <3>2. least[1] = Least[NameOf(c.kind, whole.page[1])] /\ NameOf(c.kind, whole.page[1]) \in Names
      BY <1>8, <3>1, Zenon
    <3> QED BY <3>2, QueriesAssumption, Zenon
  <2>3. Page([page |-> p.page, next |-> p.next], rows, c.cursor, k)
    <3> HIDE DEF rows
    <3> QED BY <2>1, Zenon DEF Page
  <2> QED BY <2>1, <2>2, <2>3, Zenon
<1>13. Answered(c, a, p.page, p.next)
    BY <1>6, <1>8, <1>10, <1>11, <1>12, Zenon DEF Answered
<1> QED BY <1>6, <1>13, Zenon

\* A page leaves the client as it should be, and a page that is not the last moved the
\* cursor on.
LEMMA AsksStep ==
    ASSUME QueryTypes, Decodes, NEW c, Asking(c), Asks(c)
    PROVE  /\ Paging' /\ Shape(client)' /\ client'.st # "idle"
           /\ client'.st = "paging" => client'.cursor > c.cursor
<1>1. PICK a \in 1..Len(analyses) : \E page, next : Answered(c, a, page, next)
    BY AsksPage
<1>2. PICK page, next : Answered(c, a, page, next)
    BY <1>1
<1> DEFINE rows == RowsOf(c.kind, a)
           first == IF c.first = 0 THEN a ELSE c.first
           cursor == IF next = None THEN c.cursor ELSE next
           seen == c.seen \o [i \in DOMAIN page |-> <<a, page[i]>>]
           st == IF next = None THEN "done" ELSE "paging"
<1>3. client' = [st |-> st, kind |-> c.kind, pin |-> c.pin, limit |-> c.limit,
                 cursor |-> cursor, first |-> first, seen |-> seen]
    BY <1>2, Zenon DEF Answered
<1>4. /\ a = Target(c.pin)
      /\ c.cursor >= Len(rows) => next = None
      /\ c.cursor \in 0..Len(rows) =>
            \E k \in 0..(Len(rows) - c.cursor) :
               /\ Page([page |-> page, next |-> next], rows, c.cursor, k)
               /\ c.cursor < Len(rows) => k # 0
    BY <1>2, Zenon DEF Answered
<1>5. PICK X : rows \in Seq(X)
    BY <1>2, Zenon DEF Answered
<1>6. Len(rows) \in Nat
  <2> HIDE DEF rows
  <2> QED BY <1>5
<1>7. /\ c.kind \in {"timeline", "hotpaths"} /\ c.limit \in Limits /\ c.cursor \in Nat
      /\ c.pin \in 0..Len(analyses) /\ c.first \in 0..Len(analyses)
      /\ c.first = 0 => c.cursor = 0 /\ c.seen = << >>
      /\ c.first # 0 /\ c.pin # 0 => c.pin = c.first
    BY Zenon DEF Asking
<1>8. /\ client'.st = st /\ client'.kind = c.kind /\ client'.pin = c.pin
      /\ client'.limit = c.limit /\ client'.cursor = cursor /\ client'.first = first
      /\ client'.seen = seen
  <2> HIDE DEF st, cursor, first, seen
  <2> QED BY <1>3
<1>9. stage = "ready" /\ stage' = stage /\ analyses' = analyses /\ Len(analyses) \in Nat
    BY DEF Asks, Served, QueryTypes
\* a page of the rows, when the cursor is among them
<1>10. ASSUME c.cursor \in 0..Len(rows)
       PROVE  \E k \in 0..(Len(rows) - c.cursor) :
                 /\ page = SubSeq(rows, c.cursor + 1, c.cursor + k)
                 /\ next = IF c.cursor + k = Len(rows) THEN None ELSE c.cursor + k
                 /\ c.cursor < Len(rows) => k # 0
  <2>1. PICK k \in 0..(Len(rows) - c.cursor) :
               /\ Page([page |-> page, next |-> next], rows, c.cursor, k)
               /\ c.cursor < Len(rows) => k # 0
    BY <1>4, <1>10
  <2>2. /\ page = SubSeq(rows, c.cursor + 1, c.cursor + k)
        /\ next = IF c.cursor + k = Len(rows) THEN None ELSE c.cursor + k
    <3> HIDE DEF rows
    <3> QED BY <2>1 DEF Page
  <2> HIDE DEF rows
  <2> QED BY <2>1, <2>2, Zenon
<1>11. next # None => cursor \in Nat /\ cursor > c.cursor
  <2>1. ASSUME next # None
        PROVE  cursor \in Nat /\ cursor > c.cursor
    <3> HIDE DEF rows
    <3>1. c.cursor \in 0..Len(rows) /\ c.cursor < Len(rows)
      BY <1>4, <1>6, <1>7, <2>1
    <3>2. PICK k \in 0..(Len(rows) - c.cursor) :
              /\ next = IF c.cursor + k = Len(rows) THEN None ELSE c.cursor + k
              /\ k # 0
      BY <1>10, <3>1, Zenon
    <3>3. next = c.cursor + k
      BY <2>1, <3>2, Zenon
    <3> QED BY <1>6, <1>7, <2>1, <3>1, <3>2, <3>3
  <2> QED BY <2>1
<1>12. Shape(client)' /\ client'.st # "idle" /\ client'.st \in {"paging", "done"}
       /\ (client'.st = "paging" <=> next # None)
  <2>1. Shape(client)'
    <3> HIDE DEF st, cursor, first, seen
    <3> QED BY <1>3, <1>8, Zenon DEF Shape
  <2>2. client'.st # "idle" /\ client'.st \in {"paging", "done"}
        /\ (client'.st = "paging" <=> next # None)
    BY <1>8
  <2> QED BY <2>1, <2>2
<1>13. first \in 1..Len(analyses) /\ cursor \in Nat /\ (c.pin # 0 => c.pin = first)
  <2>1. first \in 1..Len(analyses)
    BY <1>7, <1>9
  <2>2. cursor \in Nat
    BY <1>7, <1>11, Zenon
  <2>3. c.pin # 0 => c.pin = first
    BY <1>4, <1>7, Zenon DEF Target
  <2> QED BY <2>1, <2>2, <2>3
<1>14. ASSUME c.pin # 0 \/ Current(first)
       PROVE  /\ a = first /\ c.cursor \in 0..Len(rows)
              /\ c.seen = Told(a, rows, c.cursor)
  <2>1. c.pin = 0 => \A i \in 1..Len(analyses) : Current(i) => a = i
    BY <1>4, <1>9, BestFacts, Zenon DEF Target
  <2>2. a = first
    <3>1. CASE c.pin # 0
      BY <1>4, <1>13, <3>1, Zenon DEF Target
    <3>2. CASE c.pin = 0
      BY <1>13, <1>14, <2>1, <3>2, Zenon
    <3> QED BY <3>1, <3>2
  <2>3. CASE c.first = 0
    <3>1. c.cursor = 0 /\ c.seen = << >> /\ 0 \in 0..Len(rows)
      BY <1>6, <1>7, <2>3
    <3>2. Told(a, rows, 0) = << >>
      BY DEF Told
    <3> QED BY <2>2, <3>1, <3>2, Zenon
  <2>4. CASE c.first # 0
    <3>1. c.first = first
      BY <2>4
    <3>2. /\ c.cursor \in 0..Len(RowsOf(c.kind, c.first))
          /\ c.seen = Told(c.first, RowsOf(c.kind, c.first), c.cursor)
      BY <1>14, <2>4, <3>1, Zenon DEF Asking
    <3> QED BY <2>2, <3>1, <3>2, Zenon
  <2> QED BY <2>3, <2>4
<1>15. ASSUME c.pin # 0 \/ Current(first)
       PROVE  /\ cursor \in 0..Len(rows)
              /\ seen = Told(first, rows, IF st = "done" THEN Len(rows) ELSE cursor)
  <2> HIDE DEF rows
  <2>1. PICK k \in 0..(Len(rows) - c.cursor) :
                 /\ page = SubSeq(rows, c.cursor + 1, c.cursor + k)
                 /\ next = IF c.cursor + k = Len(rows) THEN None ELSE c.cursor + k
    BY <1>10, <1>14, <1>15, Zenon
  <2>2. k \in Nat /\ c.cursor + k <= Len(rows) /\ c.cursor + k \in 0..Len(rows)
        /\ c.cursor + k \in Nat
    BY <1>6, <1>7, <2>1
  <2>3. seen = Told(a, rows, c.cursor + k)
    <3>1. PageAt(rows, c.cursor, k, page)
      BY <1>5, <1>7, <2>1, <2>2, Zenon DEF PageAt
    <3>2. Told(a, rows, c.cursor) \o Shown(a, page) = Told(a, rows, c.cursor + k)
      <4>1. Joins(a, rows, c.cursor, k, page)
        BY <3>1, ToldMore, Zenon
      <4> QED BY <4>1, Zenon DEF Joins
    <3>3. seen = c.seen \o Shown(a, page)
      BY Zenon DEF seen, Shown
    <3> QED BY <1>14, <1>15, <3>2, <3>3, Zenon
  <2>4. CASE c.cursor + k = Len(rows)
    <3>1. next = None
      BY <2>1, <2>4, Zenon
    <3>2. st = "done" /\ cursor = c.cursor
      BY <3>1, Zenon
    <3> QED BY <1>14, <1>15, <2>3, <2>4, <3>2, Zenon
  <2>5. CASE c.cursor + k # Len(rows)
    <3>1. next = c.cursor + k /\ next # None
      BY <2>1, <2>2, <2>5, QueriesAssumption, Zenon
    <3>2. st # "done" /\ cursor = c.cursor + k
      BY <3>1
    <3> QED BY <1>14, <1>15, <2>2, <2>3, <3>2, Zenon
  <2> QED BY <2>4, <2>5
<1>16. RowsOf(client.kind, client.first)' = RowsOf(c.kind, first)
    BY <1>8, <1>9, Zenon DEF RowsOf
<1>17. Settled' => c.pin # 0 \/ Current(first)
    BY <1>8, <1>9, Zenon DEF Settled, Current
<1>18. Paging'
  <2> HIDE DEF rows, st, cursor, first, seen
  <2>1. ASSUME Settled'
        PROVE  LET rs == RowsOf(client.kind, client.first)'
               IN /\ client'.cursor \in 0..Len(rs)
                  /\ client'.seen = Told(client'.first, rs,
                                         IF client'.st = "done" THEN Len(rs) ELSE client'.cursor)
    <3>1. RowsOf(client.kind, client.first)' = rows
      BY <1>14, <1>16, <1>17, <2>1, Zenon DEF rows
    <3>2. /\ cursor \in 0..Len(rows)
          /\ seen = Told(first, rows, IF st = "done" THEN Len(rows) ELSE cursor)
      BY <1>15, <1>17, <2>1, Zenon
    <3> QED BY <1>8, <3>1, <3>2, Zenon
  <2> QED BY <1>7, <1>8, <1>9, <1>12, <1>13, <2>1, Zenon DEF Paging
<1> QED BY <1>8, <1>11, <1>12, <1>18

-----------------------------------------------------------------------------
\* What a client that follows its cursors knows.
PagingInv ==
    /\ QueryTypes /\ Decodes /\ Paging /\ Shape(client)
    /\ client.st = "idle" => client = NoClient

\* No client asks at the beginning.
LEMMA PagingInit == Init => PagingInv
<1> SUFFICES ASSUME Init PROVE PagingInv
    OBVIOUS
<1>1. client = NoClient /\ analyses = << >>
    BY DEF Init
<1>2. client.st = "idle" /\ Shape(client)
  <2>1. NoClient.st = "idle" /\ Shape(NoClient)
    BY DEF NoClient, Shape
  <2> QED BY <1>1, <2>1, Zenon
<1>3. Paging
    BY <1>2, Zenon DEF Paging
<1> QED BY <1>1, <1>2, <1>3, QueryTypesInit, DecodesInit, Zenon DEF PagingInv

\* Publishing changes neither what a client has seen nor what it is about to see.
LEMMA PagingKept ==
    ASSUME PagingInv, Kept, analyses' \in Seq(Analyses), UNCHANGED client,
           stage = "ready" => stage' = "ready"
    PROVE  Paging'
<1>1. CASE client.st = "idle"
    BY <1>1, Zenon DEF Paging
<1>2. CASE client.st # "idle"
  <2>1. /\ stage = "ready" /\ stage' = "ready" /\ client' = client
        /\ client.first \in 1..Len(analyses) /\ client.limit \in Limits /\ client.cursor \in Nat
        /\ client.st \in {"paging", "done"} /\ client.kind \in {"timeline", "hotpaths"}
        /\ (client.pin # 0 => client.pin = client.first)
    BY <1>2, Zenon DEF PagingInv, Paging
  <2>2. analyses'[client.first] = analyses[client.first]
    BY <2>1, Zenon DEF Kept
  <2>3. client.first \in 1..Len(analyses')
    <3>1. analyses \in Seq(Analyses) /\ Len(analyses) \in Nat /\ Len(analyses') \in Nat
      BY DEF PagingInv, QueryTypes
    <3>2. Len(analyses) <= Len(analyses')
      BY DEF Kept
    <3> QED BY <2>1, <3>1, <3>2
  <2>4. RowsOf(client.kind, client.first)' = RowsOf(client.kind, client.first)
    BY <2>1, <2>2, Zenon DEF RowsOf
  <2>5. Settled' = Settled
    BY <2>1, <2>2, Zenon DEF Settled, Current
  <2>6. Settled =>
              LET rows == RowsOf(client.kind, client.first)
              IN /\ client.cursor \in 0..Len(rows)
                 /\ client.seen = Told(client.first, rows,
                                       IF client.st = "done" THEN Len(rows) ELSE client.cursor)
    BY <1>2, Zenon DEF PagingInv, Paging
  <2> QED BY <2>1, <2>3, <2>4, <2>5, <2>6, Zenon DEF Paging
<1> QED BY <1>1, <1>2

\* What a page does, whichever it is.
LEMMA PagingAsks ==
    ASSUME PagingInv, [Next]_vars, NEW c, Asking(c), Asks(c), c.cursor = client.cursor
    PROVE  PagingInv' /\ (client'.st = "paging" => client'.cursor > client.cursor)
<1>1. QueryTypes /\ Decodes
    BY Zenon DEF PagingInv
<1>2. QueryTypes' /\ Decodes'
    BY <1>1, QueryTypesStep, DecodesStep, Zenon
<1>3. /\ Paging' /\ Shape(client)' /\ client'.st # "idle"
      /\ client'.st = "paging" => client'.cursor > c.cursor
    BY <1>1, AsksStep, Zenon
<1>4. PagingInv'
    BY <1>2, <1>3, Zenon DEF PagingInv
<1>5. client'.st = "paging" => client'.cursor > client.cursor
    BY <1>3, Zenon
<1> QED BY <1>4, <1>5, Zenon

\* A client that begins.
LEMMA NewClient ==
    ASSUME NEW kind, NEW pin, NEW limit
    PROVE  [NoClient EXCEPT !.kind = kind, !.pin = pin, !.limit = limit]
               = [st |-> "idle", kind |-> kind, pin |-> pin, limit |-> limit,
                  cursor |-> 0, first |-> 0, seen |-> << >>]
<1>1. PICK n : n = NoClient
    OBVIOUS
<1>2. /\ n.st = "idle" /\ n.cursor = 0 /\ n.first = 0 /\ n.seen = << >>
      /\ n = [st |-> n.st, kind |-> n.kind, pin |-> n.pin, limit |-> n.limit,
              cursor |-> n.cursor, first |-> n.first, seen |-> n.seen]
    BY <1>1 DEF NoClient
<1>3. n = [st |-> n.st, kind |-> n.kind, pin |-> n.pin, limit |-> n.limit,
           cursor |-> n.cursor, first |-> n.first, seen |-> n.seen]
    BY <1>2, Zenon
<1>4. PICK m : m = [n EXCEPT !.kind = kind, !.pin = pin, !.limit = limit]
    OBVIOUS
<1>5. m = [st |-> n.st, kind |-> kind, pin |-> pin, limit |-> limit,
           cursor |-> n.cursor, first |-> n.first, seen |-> n.seen]
    BY <1>3, <1>4
<1> QED BY <1>1, <1>2, <1>4, <1>5, Zenon

\* The first page.
LEMMA PagingFirst ==
    ASSUME PagingInv, [Next]_vars, FirstPage
    PROVE  PagingInv' /\ (client'.st = "paging" => client'.cursor > client.cursor)
<1>1. PICK kind \in {"timeline", "hotpaths"} : \E pin \in {0} \union DOMAIN analyses,
          limit \in Limits : Asks([NoClient EXCEPT !.kind = kind, !.pin = pin, !.limit = limit])
    BY Zenon DEF FirstPage
<1>2. PICK pin \in {0} \union DOMAIN analyses : \E limit \in Limits :
          Asks([NoClient EXCEPT !.kind = kind, !.pin = pin, !.limit = limit])
    BY <1>1
<1>3. PICK limit \in Limits :
          Asks([NoClient EXCEPT !.kind = kind, !.pin = pin, !.limit = limit])
    BY <1>2
<1>4. PICK c : c = [st |-> "idle", kind |-> kind, pin |-> pin, limit |-> limit,
                    cursor |-> 0, first |-> 0, seen |-> << >>]
    OBVIOUS
<1>5. Asks(c)
  <2>1. c = [NoClient EXCEPT !.kind = kind, !.pin = pin, !.limit = limit]
    BY <1>4, NewClient, Zenon
  <2> QED BY <1>3, <2>1, Zenon
<1>6. /\ c.kind = kind /\ c.pin = pin /\ c.limit = limit /\ c.cursor = 0 /\ c.first = 0
      /\ c.seen = << >> /\ Shape(c)
    BY <1>4 DEF Shape
<1>7. pin \in 0..Len(analyses) /\ 0 \in 0..Len(analyses)
    BY DEF PagingInv, QueryTypes
<1>8. Asking(c)
  <2>1. /\ c.kind \in {"timeline", "hotpaths"} /\ c.limit \in Limits
        /\ c.pin \in 0..Len(analyses) /\ c.first \in 0..Len(analyses)
    BY <1>6, <1>7, Zenon
  <2>2. c.cursor \in Nat /\ c.first = 0
    BY <1>6
  <2> QED BY <1>6, <2>1, <2>2, Zenon DEF Asking
<1>9. client = NoClient
    BY Zenon DEF FirstPage, PagingInv
<1>10. c.cursor = client.cursor
    BY <1>6, <1>9 DEF NoClient
<1> QED BY <1>5, <1>8, <1>10, PagingAsks, Zenon

\* The page of a cursor.
LEMMA PagingNext ==
    ASSUME PagingInv, [Next]_vars, NextPage
    PROVE  PagingInv' /\ (client'.st = "paging" => client'.cursor > client.cursor)
<1>1. PICK c : c = client
    OBVIOUS
<1>2. Asks(c) /\ c.st = "paging"
    BY <1>1, Zenon DEF NextPage
<1>3. /\ Shape(c) /\ c.kind \in {"timeline", "hotpaths"} /\ c.limit \in Limits
      /\ c.cursor \in Nat /\ c.first \in 1..Len(analyses)
      /\ (c.pin # 0 => c.pin = c.first)
      /\ Settled =>
              LET rows == RowsOf(c.kind, c.first)
              IN /\ c.cursor \in 0..Len(rows)
                 /\ c.seen = Told(c.first, rows,
                                  IF c.st = "done" THEN Len(rows) ELSE c.cursor)
    BY <1>1, <1>2, Zenon DEF PagingInv, Paging
<1>4. c.first # 0 /\ c.first \in 0..Len(analyses) /\ 0 \in 0..Len(analyses)
  <2>1. Len(analyses) \in Nat
    BY DEF PagingInv, QueryTypes
  <2> QED BY <1>3, <2>1
<1>5. c.pin \in 0..Len(analyses)
    BY <1>3, <1>4, Zenon
<1>6. c.pin # 0 \/ Current(c.first) =>
          /\ c.cursor \in 0..Len(RowsOf(c.kind, c.first))
          /\ c.seen = Told(c.first, RowsOf(c.kind, c.first), c.cursor)
  <2>1. c.st # "done"
    BY <1>2
  <2>2. c.pin # 0 \/ Current(c.first) => Settled
    BY <1>1, Zenon DEF Settled
  <2> QED BY <1>3, <2>1, <2>2, Zenon
<1>7. Asking(c)
    BY <1>3, <1>4, <1>5, <1>6, Zenon DEF Asking
<1>8. c.cursor = client.cursor
    BY <1>1
<1> QED BY <1>2, <1>7, <1>8, PagingAsks, Zenon

\* What every other step leaves alone.
LEMMA PagingOther ==
    ASSUME PagingInv, [Next]_vars, UNCHANGED client
    PROVE  PagingInv'
<1>1. QueryTypes /\ Decodes
    BY Zenon DEF PagingInv
<1>2. QueryTypes' /\ Decodes' /\ Kept /\ (stage = "ready" => stage' = "ready")
    BY <1>1, QueryTypesStep, DecodesStep, Zenon
<1>3. analyses' \in Seq(Analyses)
    BY <1>2 DEF QueryTypes
<1>4. Paging'
    BY <1>2, <1>3, PagingKept, Zenon
<1>5. Shape(client)' /\ (client.st = "idle" => client = NoClient)'
    BY Zenon DEF PagingInv, Shape
<1> QED BY <1>2, <1>3, <1>4, <1>5, Zenon DEF PagingInv

\* Every step, of whichever actor.
LEMMA PagingStep ==
    ASSUME PagingInv, [Next]_vars
    PROVE  /\ PagingInv'
           /\ UNCHANGED client \/ (client'.st = "paging" => client'.cursor > client.cursor)
<1> DEFINE Goal ==
           /\ PagingInv'
           /\ UNCHANGED client \/ (client'.st = "paging" => client'.cursor > client.cursor)
<1>1. ASSUME UNCHANGED client PROVE Goal
    BY <1>1, PagingOther, Zenon
<1>2. ASSUME FirstPage PROVE Goal
    BY <1>2, PagingFirst, Zenon
<1>3. ASSUME NextPage PROVE Goal
    BY <1>3, PagingNext, Zenon
<1>4. ASSUME NEW t \in Threads,
             \/ Returns(t)
             \/ Cuts(t)
             \/ \E fn \in Names : Calls(t, fn) \/ TailCalls(t, fn)
      PROVE  UNCHANGED client
    BY <1>4, Zenon DEF Returns, Cuts, Calls, TailCalls, Calling, serveVars
<1>5. ASSUME NEW full \in BOOLEAN, Redecodes(full) PROVE UNCHANGED client
    BY <1>5, Zenon DEF Redecodes
<1>6. ASSUME NEW group, NEW b, NEW d, NEW pairs, Compares(group, b, d, pairs)
      PROVE  UNCHANGED client
    BY <1>6, Zenon DEF Compares
<1>7. ASSUME Ticks PROVE UNCHANGED client
    BY <1>7, Zenon DEF Ticks, Calling, serveVars
<1>8. ASSUME Publishes PROVE UNCHANGED client
    BY <1>8, Zenon DEF Publishes
<1>9. ASSUME UNCHANGED vars PROVE UNCHANGED client
    BY <1>9, Zenon DEF vars, serveVars
<1>10. ASSUME UNCHANGED <<detail, stage, callVars, serveVars>> PROVE UNCHANGED client
    BY <1>10, Zenon DEF serveVars
<1>11. UNCHANGED client \/ FirstPage \/ NextPage
  <2>1. CASE UNCHANGED vars
    BY <1>9, <2>1
  <2>2. CASE detail = "instructions" /\ stage = "tracing" /\ InsnNext
                /\ UNCHANGED <<detail, stage, callVars, serveVars>>
    BY <1>10, <2>2, Zenon
  <2>3. CASE \E t \in Threads : \/ Returns(t) \/ Cuts(t)
                                \/ \E fn \in Names : Calls(t, fn) \/ TailCalls(t, fn)
    BY <1>4, <2>3, Zenon
  <2>4. CASE \E group \in {"path", "function", "inline"}, b, c \in Threads, pairs \in Pairs :
                b # c /\ Compares(group, b, c, pairs)
    BY <1>6, <2>4, Zenon
  <2>5. CASE \E full \in BOOLEAN : Redecodes(full)
    BY <1>5, <2>5, Zenon
  <2> QED BY <1>7, <1>8, <2>1, <2>2, <2>3, <2>4, <2>5, Zenon DEF Next
<1> HIDE DEF Goal
<1> QED BY <1>1, <1>2, <1>3, <1>11, Zenon DEF Goal

\* A client that followed the cursors to the end has seen every row once and in order.
LEMMA PagingMeans == PagingInv => PagedOnce
<1> SUFFICES ASSUME PagingInv, client.st = "done"
             PROVE  \/ client.pin = 0 /\ ~(analyses[client.first].full
                                            /\ analyses[client.first].ir = IrVersion)
                    \/ client.seen = LET rows == RowsOf(client.kind, client.first)
                                     IN [i \in DOMAIN rows |-> <<client.first, rows[i]>>]
    BY Zenon DEF PagedOnce
<1>1. CASE ~Settled
    BY <1>1, Zenon DEF Settled, Current
<1>2. CASE Settled
  <2> DEFINE rows == RowsOf(client.kind, client.first)
  <2>1. /\ client.seen = Told(client.first, rows, Len(rows))
        /\ client.first \in 1..Len(analyses) /\ client.kind \in {"timeline", "hotpaths"}
    BY <1>2, Zenon DEF PagingInv, Paging
  <2>2. QueryTypes
    BY Zenon DEF PagingInv
  <2>3. PICK X : rows \in Seq(X)
    BY <2>1, <2>2, RowsSeq, Zenon
  <2>4. DOMAIN rows = 1..Len(rows)
    <3> HIDE DEF rows
    <3> QED BY <2>3
  <2>5. client.seen = [i \in DOMAIN rows |-> <<client.first, rows[i]>>]
    <3> HIDE DEF rows
    <3> QED BY <2>1, <2>4, Zenon DEF Told
  <2> QED BY <2>5, Zenon
<1> QED BY <1>1, <1>2

\* A client that followed the cursors to the end saw every row once and in order, of one
\* analysis, also when others were published between its pages, if it named the analysis
\* or the default was a full decode of this version (find_calls_analysis, paginate,
\* fit_json).
THEOREM PagedOnceHolds == Spec => []PagedOnce
<1>1. PagingInv /\ [Next]_vars => PagingInv'
    BY PagingStep
<1> QED BY <1>1, PagingInit, PagingMeans, PTL DEF Spec

\* Every page brings a client nearer to the end, so that following the cursors ends: also
\* when one row is too heavy for the budget (fit_json).
THEOREM PagingAdvancesHolds == Spec => PagingAdvances
<1>1. PagingInv /\ [Next]_vars => PagingInv'
    BY PagingStep
<1>2. PagingInv /\ [Next]_vars =>
          [client'.st = "paging" => client'.cursor > client.cursor]_client
    BY PagingStep, Zenon
<1> QED BY <1>1, <1>2, PagingInit, PTL DEF Spec, PagingAdvances

-----------------------------------------------------------------------------
\* The rows of a report so far: they tell of the rows B of the baseline and C of the
\* candidate, of each once.
Tells(rows, B, C) ==
    /\ \A r \in 1..Len(rows) : rows[r].b \in B \union {None} /\ rows[r].c \in C \union {None}
    /\ \A i \in B : \E r \in 1..Len(rows) : rows[r].b = i
    /\ \A j \in C : \E r \in 1..Len(rows) : rows[r].c = j
    /\ \A r, q \in 1..Len(rows) : rows[r].b = rows[q].b /\ rows[r].b # None => r = q
    /\ \A r, q \in 1..Len(rows) : rows[r].c = rows[q].c /\ rows[r].c # None => r = q

\* A row that tells of rows not told of yet.
LEMMA TellsMore ==
    ASSUME NEW X, NEW rows \in Seq(X), NEW B, NEW C, None \notin B, None \notin C,
           Tells(rows, B, C), NEW row \in X, row.b \notin B, row.c \notin C
    PROVE  Tells(Append(rows, row), Marked(B, row.b), Marked(C, row.c))
<1> DEFINE more == Append(rows, row)
           B2 == Marked(B, row.b)
           C2 == Marked(C, row.c)
           n == Len(rows)
<1>1. /\ n \in Nat /\ Len(more) = n + 1 /\ more[n + 1] = row
      /\ \A r \in 1..n : more[r] = rows[r]
    OBVIOUS
<1>2. \A r \in 1..(n + 1) : r \in 1..n \/ r = n + 1
    BY <1>1
<1>3. \A r \in 1..n : r \in 1..(n + 1)
    BY <1>1
<1>4. n + 1 \in 1..(n + 1) /\ n + 1 \notin 1..n
    BY <1>1
<1>5. /\ \A i : i \in B2 <=> i \in B \/ (i = row.b /\ row.b # None)
      /\ \A j : j \in C2 <=> j \in C \/ (j = row.c /\ row.c # None)
    BY Zenon DEF Marked
<1> HIDE DEF more, B2, C2, n
<1>6. \A r \in 1..n : rows[r].b \in B \union {None} /\ rows[r].c \in C \union {None}
    BY Zenon DEF Tells, n
<1>7. \A r \in 1..(n + 1) : more[r].b \in B2 \union {None} /\ more[r].c \in C2 \union {None}
    BY <1>1, <1>2, <1>5, <1>6, Zenon
<1>8. \A i \in B2 : \E r \in 1..(n + 1) : more[r].b = i
  <2>1. \A i \in B : \E r \in 1..n : rows[r].b = i
    BY Zenon DEF Tells, n
  <2> QED BY <1>1, <1>3, <1>4, <1>5, <2>1, Zenon
<1>9. \A j \in C2 : \E r \in 1..(n + 1) : more[r].c = j
  <2>1. \A i \in C : \E r \in 1..n : rows[r].c = i
    BY Zenon DEF Tells, n
  <2> QED BY <1>1, <1>3, <1>4, <1>5, <2>1, Zenon
<1>10. \A r, q \in 1..(n + 1) : more[r].b = more[q].b /\ more[r].b # None => r = q
  <2>1. \A r, q \in 1..n : rows[r].b = rows[q].b /\ rows[r].b # None => r = q
    BY Zenon DEF Tells, n
  <2>2. \A r \in 1..n : more[r].b # None => more[r].b \in B
    BY <1>1, <1>6, Zenon
  <2>3. \A r \in 1..n : more[r].b = row.b => more[r].b = None
    BY <2>2, Zenon
  <2> QED BY <1>1, <1>2, <2>1, <2>3, Zenon
<1>11. \A r, q \in 1..(n + 1) : more[r].c = more[q].c /\ more[r].c # None => r = q
  <2>1. \A r, q \in 1..n : rows[r].c = rows[q].c /\ rows[r].c # None => r = q
    BY Zenon DEF Tells, n
  <2>2. \A r \in 1..n : more[r].c # None => more[r].c \in C
    BY <1>1, <1>6, Zenon
  <2>3. \A r \in 1..n : more[r].c = row.c => more[r].c = None
    BY <2>2, Zenon
  <2> QED BY <1>1, <1>2, <2>1, <2>3, Zenon
<1>12. Tells(more, B2, C2)
    BY <1>1, <1>7, <1>8, <1>9, <1>10, <1>11, Zenon DEF Tells
<1> QED BY <1>12, Zenon DEF more, B2, C2

\* The first of some indices, if there is one.
LEMMA FirstOf ==
    ASSUME NEW n \in Nat, NEW hits, hits \subseteq 1..n
    PROVE  (IF hits = {} THEN None ELSE CHOOSE i \in hits : \A j \in hits : i <= j)
               \in hits \union {None}
<1>1. CASE hits = {}
    BY <1>1, Zenon
<1>2. CASE hits # {}
  <2>1. \E i \in hits : \A j \in hits : i <= j
    <3>1. hits \subseteq Nat
      OBVIOUS
    <3> QED BY <1>2, <3>1, NatMin
  <2> QED BY <1>2, <2>1, Zenon
<1> QED BY <1>1, <1>2

\* A position is an index of the rows, or none.
LEMMA PositionIn ==
    ASSUME NEW X, NEW rows \in Seq(X), NEW id
    PROVE  Position(rows, id) \in (1..Len(rows)) \union {None}
<1> DEFINE hits == {i \in DOMAIN rows : MatchesId(rows[i], id)}
<1>1. Len(rows) \in Nat /\ hits \subseteq 1..Len(rows)
    OBVIOUS
<1>2. Position(rows, id) = IF hits = {} THEN None ELSE CHOOSE i \in hits : \A j \in hits : i <= j
    BY Zenon DEF Position
<1> HIDE DEF hits
<1>3. Position(rows, id) \in hits \union {None}
    BY <1>1, <1>2, FirstOf, Zenon
<1> QED BY <1>1, <1>3, Zenon

\* A partner is free, and of the same stem.
IsPartner(bs, cs, used, i, j) ==
    j = None \/ (j \in 1..Len(cs) /\ j \notin used /\ Stem(cs[j]) = Stem(bs[i]))

\* The first of the free ones is one.
LEMMA PartnerIn ==
    ASSUME NEW X, NEW bs, NEW cs \in Seq(X), NEW used, NEW i
    PROVE  IsPartner(bs, cs, used, i, Partner(bs, cs, used, i))
<1> DEFINE hits == {j \in DOMAIN cs \ used : Stem(cs[j]) = Stem(bs[i])}
<1>1. Len(cs) \in Nat /\ DOMAIN cs = 1..Len(cs)
    OBVIOUS
<1>2. hits \subseteq 1..Len(cs) /\ \A j \in hits : j \notin used /\ Stem(cs[j]) = Stem(bs[i])
    BY <1>1, Zenon
<1>3. Partner(bs, cs, used, i)
          = IF hits = {} THEN None ELSE CHOOSE h \in hits : \A k \in hits : h <= k
    BY Zenon DEF Partner
<1> HIDE DEF hits
<1>4. Partner(bs, cs, used, i) \in hits \union {None}
    BY <1>1, <1>2, <1>3, FirstOf, Zenon
<1> QED BY <1>2, <1>4, Zenon DEF IsPartner

\* A row counts towards its own stem.
LEMMA CountsItself ==
    ASSUME NEW X, NEW rows \in Seq(X), NEW i \in 1..Len(rows)
    PROVE  /\ StemCount(rows, Stem(rows[i])) \in Nat
           /\ ~(StemCount(rows, Stem(rows[i])) > 1) => StemCount(rows, Stem(rows[i])) = 1
<1> DEFINE same == {j \in DOMAIN rows : Stem(rows[j]) = Stem(rows[i])}
<1>1. DOMAIN rows = 1..Len(rows) /\ IsFiniteSet(1..Len(rows))
    BY LenInterval
<1>2. same \subseteq 1..Len(rows) /\ i \in same
    BY <1>1, Zenon
<1>3. StemCount(rows, Stem(rows[i])) = Cardinality(same)
    BY Zenon DEF StemCount
<1> HIDE DEF same
<1>4. IsFiniteSet(same)
    BY <1>1, <1>2, FS_Subset, Zenon
<1>5. Cardinality(same) \in Nat /\ Cardinality(same) # 0
    BY <1>2, <1>4, FS_CardinalityType, FS_EmptySet, Zenon
<1> QED BY <1>3, <1>5

-----------------------------------------------------------------------------
\* Rows a report may have, and what pair_rows keeps of them.
Kinds == {"ambiguous", "unmatched", "paired", "explicit_pair"}
MaybeIn(rows) == (1..Len(rows)) \union {None}

Reports(bs, cs) ==
    {DeltaRow(bs, cs, x[1], x[2], x[3], x[4]) : x \in MaybeIn(bs) \X MaybeIn(cs) \X BOOLEAN \X Kinds}

Accs(bs, cs) == [rows : Seq(Reports(bs, cs)), usedB : SUBSET (1..Len(bs)),
                 usedC : SUBSET (1..Len(cs))]

\* A delta is given for an explicit pair or for two rows alone with their stem.
Comparable(bs, cs, row) ==
    row.delta # None =>
        \/ row.kind = "explicit_pair"
        \/ /\ Stem(bs[row.b]) = Stem(cs[row.c])
           /\ StemCount(bs, Stem(bs[row.b])) = 1
           /\ StemCount(cs, Stem(bs[row.b])) = 1

Sound(bs, cs, acc, B, C) ==
    /\ acc \in Accs(bs, cs) /\ Tells(acc.rows, B, C)
    /\ \A r \in 1..Len(acc.rows) : Comparable(bs, cs, acc.rows[r])

IsRow(bs, cs, b, c, kind, row) ==
    /\ row \in Reports(bs, cs) /\ row.b = b /\ row.c = c /\ row.kind = kind
    /\ kind \in {"ambiguous", "unmatched"} => row.delta = None

\* What delta_row returns is one; two rows that do not match have no delta.
LEMMA RowIn ==
    ASSUME NEW bs, NEW cs, NEW b \in MaybeIn(bs), NEW c \in MaybeIn(cs),
           NEW allowed \in BOOLEAN, NEW kind \in Kinds
    PROVE  IsRow(bs, cs, b, c, kind, DeltaRow(bs, cs, b, c, allowed, kind))
<1>1. DeltaRow(bs, cs, b, c, allowed, kind) \in Reports(bs, cs)
  <2> DEFINE x == <<b, c, allowed, kind>>
  <2>1. x \in MaybeIn(bs) \X MaybeIn(cs) \X BOOLEAN \X Kinds
    BY Zenon
  <2>2. x[1] = b /\ x[2] = c /\ x[3] = allowed /\ x[4] = kind
    BY Zenon
  <2> HIDE DEF x
  <2> QED BY <2>1, <2>2, Zenon DEF Reports
<1>2. /\ DeltaRow(bs, cs, b, c, allowed, kind).b = b
      /\ DeltaRow(bs, cs, b, c, allowed, kind).c = c
      /\ DeltaRow(bs, cs, b, c, allowed, kind).kind = kind
    BY Zenon DEF DeltaRow
<1>3. kind \in {"ambiguous", "unmatched"} =>
          DeltaRow(bs, cs, b, c, allowed, kind).delta = None
    BY Zenon DEF DeltaRow
<1> QED BY <1>1, <1>2, <1>3, Zenon DEF IsRow

\* What is kept has its type.
LEMMA AccIn ==
    ASSUME NEW bs, NEW cs, NEW m \in Seq(Reports(bs, cs)), NEW u \in SUBSET (1..Len(bs)),
           NEW v \in SUBSET (1..Len(cs)), NEW acc,
           acc = [rows |-> m, usedB |-> u, usedC |-> v]
    PROVE  acc \in Accs(bs, cs)
<1>1. \A R, P, Q : \A k \in R, x \in P, y \in Q :
          [rows |-> k, usedB |-> x, usedC |-> y] \in [rows : R, usedB : P, usedC : Q]
    OBVIOUS
<1> DEFINE R == Seq(Reports(bs, cs))
           P == SUBSET (1..Len(bs))
           Q == SUBSET (1..Len(cs))
<1>2. m \in R /\ u \in P /\ v \in Q /\ Accs(bs, cs) = [rows : R, usedB : P, usedC : Q]
    BY Zenon DEF Accs
<1> HIDE DEF R, P, Q
<1>3. [rows |-> m, usedB |-> u, usedC |-> v] \in [rows : R, usedB : P, usedC : Q]
    BY <1>2
<1> QED BY <1>2, <1>3, Zenon

\* A row of what was not told of yet is added.
LEMMA SoundMore ==
    ASSUME NEW bs, NEW cs, NEW acc, NEW B, NEW C, Sound(bs, cs, acc, B, C),
           None \notin B, None \notin C,
           NEW row \in Reports(bs, cs), row.b \notin B, row.c \notin C, Comparable(bs, cs, row),
           NEW U \in SUBSET (1..Len(bs)), NEW V \in SUBSET (1..Len(cs)), NEW acc2,
           acc2 = [rows |-> Append(acc.rows, row), usedB |-> U, usedC |-> V]
    PROVE  Sound(bs, cs, acc2, Marked(B, row.b), Marked(C, row.c))
<1>1. acc \in Accs(bs, cs) /\ Tells(acc.rows, B, C)
      /\ \A r \in 1..Len(acc.rows) : Comparable(bs, cs, acc.rows[r])
    BY Zenon DEF Sound
<1> DEFINE X == Reports(bs, cs)
           rows == acc.rows
           more == Append(rows, row)
<1>2. rows \in Seq(X)
    BY <1>1, Zenon DEF Accs
<1> HIDE DEF X, rows
<1>3. row \in X
    BY Zenon DEF X
<1>4. more \in Seq(X)
    BY <1>2, <1>3
<1>5. \A r \in 1..Len(more) : more[r] = row \/ (r \in 1..Len(rows) /\ more[r] = rows[r])
    BY <1>2, <1>3
<1> HIDE DEF more
<1>6. Tells(more, Marked(B, row.b), Marked(C, row.c))
    BY <1>1, <1>2, <1>3, TellsMore, Zenon DEF rows, more
<1>7. \A r \in 1..Len(more) : Comparable(bs, cs, more[r])
    BY <1>1, <1>5, Zenon DEF rows
<1>8. acc2 = [rows |-> more, usedB |-> U, usedC |-> V]
    BY Zenon DEF more, rows
<1>9. acc2.rows = more /\ acc2 \in Accs(bs, cs)
  <2>1. acc2 \in Accs(bs, cs)
    BY <1>4, <1>8, AccIn, Zenon DEF X
  <2>2. acc2.rows = more
    BY <1>8
  <2> QED BY <2>1, <2>2
<1> QED BY <1>6, <1>7, <1>9, Zenon DEF Sound

NothingTold == [rows |-> << >>, usedB |-> {}, usedC |-> {}]

\* Before the first pair nothing is told.
LEMMA NothingSound ==
    ASSUME NEW bs, NEW cs
    PROVE  NothingTold \in Accs(bs, cs) /\ Sound(bs, cs, NothingTold, {}, {})
<1>1. NothingTold.rows = << >> /\ NothingTold \in Accs(bs, cs)
    BY DEF NothingTold, Accs
<1>2. Tells(<< >>, {}, {})
    BY DEF Tells
<1>3. \A r \in 1..Len(<< >>) : Comparable(bs, cs, << >>[r])
    OBVIOUS
<1> QED BY <1>1, <1>2, <1>3, Zenon DEF Sound

\* A pair of the caller's, the first one.
LEMMA ExplicitSound ==
    ASSUME NEW X, NEW bs \in Seq(X), NEW cs \in Seq(X), NEW pair, NEW allowed \in BOOLEAN,
           NEW acc, acc = Explicit(NothingTold, bs, cs, pair, allowed)
    PROVE  acc \in Accs(bs, cs) /\ Sound(bs, cs, acc, acc.usedB, acc.usedC)
<1>1. None \notin Nat
    BY Zenon, QueriesAssumption
<1> DEFINE b == Position(bs, pair[1])
           c == Position(cs, pair[2])
           kind == IF None \in {b, c} THEN "unmatched" ELSE "explicit_pair"
           row == DeltaRow(bs, cs, b, c, allowed, kind)
<1>2. b \in MaybeIn(bs) /\ c \in MaybeIn(cs)
    BY PositionIn, Zenon DEF MaybeIn
<1>3. CASE b = None /\ c = None
  <2>1. acc = NothingTold
    BY <1>3, Zenon DEF Explicit
  <2>2. acc.usedB = {} /\ acc.usedC = {}
    BY <2>1 DEF NothingTold
  <2> QED BY <2>1, <2>2, NothingSound, Zenon
<1>4. CASE ~(b = None /\ c = None)
  <2>1. acc = [rows |-> Append(NothingTold.rows, row),
               usedB |-> Marked(NothingTold.usedB, b), usedC |-> Marked(NothingTold.usedC, c)]
    BY <1>4, Zenon DEF Explicit
  <2>2. NothingTold.usedB = {} /\ NothingTold.usedC = {}
    BY DEF NothingTold
  <2>3. kind \in Kinds
    BY Zenon DEF Kinds
  <2> HIDE DEF b, c, kind
  <2>4. /\ row \in Reports(bs, cs) /\ row.b = b /\ row.c = c /\ row.kind = kind
        /\ kind \in {"ambiguous", "unmatched"} => row.delta = None
    <3>1. IsRow(bs, cs, b, c, kind, row)
      BY <1>2, <2>3, RowIn, Zenon
    <3> HIDE DEF row
    <3> QED BY <3>1, Zenon DEF IsRow
  <2> HIDE DEF row
  <2>5. Comparable(bs, cs, row)
    BY <2>4, Zenon DEF Comparable, kind
  <2>6. Marked({}, b) \in SUBSET (1..Len(bs)) /\ Marked({}, c) \in SUBSET (1..Len(cs))
    BY <1>2, Zenon DEF Marked, MaybeIn
  <2>7. acc = [rows |-> Append(NothingTold.rows, row), usedB |-> Marked({}, b),
               usedC |-> Marked({}, c)]
    BY <2>1, <2>2, Zenon
  <2>8. row.b \notin {} /\ row.c \notin {} /\ None \notin {}
    OBVIOUS
  <2>9. Sound(bs, cs, acc, Marked({}, row.b), Marked({}, row.c))
    BY <2>4, <2>5, <2>6, <2>7, <2>8, NothingSound, SoundMore, Zenon
  <2>10. acc.usedB = Marked({}, row.b) /\ acc.usedC = Marked({}, row.c)
    <3>1. acc.usedB = Marked({}, b) /\ acc.usedC = Marked({}, c)
      BY <2>7
    <3> QED BY <2>4, <3>1, Zenon
  <2>11. acc \in Accs(bs, cs)
    BY <2>9, Zenon DEF Sound
  <2> QED BY <2>9, <2>10, <2>11, Zenon
<1> QED BY <1>3, <1>4

\* A row of the baseline follows.
BaselineKeeps(bs, cs, acc, more, B, i) ==
    /\ more \in Accs(bs, cs) /\ more.usedB = acc.usedB
    /\ Sound(bs, cs, acc, B \union acc.usedB, acc.usedC) =>
          Sound(bs, cs, more, B \union {i} \union acc.usedB, more.usedC)

\* It does: its partner is free, and alone with its stem.
LEMMA BaselineSound ==
    ASSUME NEW X, NEW bs \in Seq(X), NEW cs \in Seq(X), NEW i \in 1..Len(bs),
           NEW allowed \in BOOLEAN, NEW acc \in Accs(bs, cs), NEW B, None \notin B, i \notin B,
           NEW more, more = Baseline(acc, bs, cs, i, allowed)
    PROVE  BaselineKeeps(bs, cs, acc, more, B, i)
<1>1. None \notin Nat
    BY Zenon, QueriesAssumption
<1> DEFINE single == ~Ambiguous(bs, cs, bs[i])
           j == IF single THEN Partner(bs, cs, acc.usedC, i) ELSE None
           kind == CASE ~single -> "ambiguous"
                     [] single /\ j = None -> "unmatched"
                     [] OTHER -> "paired"
           row == DeltaRow(bs, cs, i, j, allowed, kind)
<1>2. /\ acc.usedB \in SUBSET (1..Len(bs)) /\ acc.usedC \in SUBSET (1..Len(cs))
      /\ acc.rows \in Seq(Reports(bs, cs))
    BY Zenon DEF Accs
<1>3. CASE i \in acc.usedB
  <2>1. more = acc
    BY <1>3, Zenon DEF Baseline
  <2>2. B \union {i} \union acc.usedB = B \union acc.usedB
    BY <1>3, Zenon
  <2> QED BY <2>1, <2>2, Zenon DEF BaselineKeeps
<1>4. CASE i \notin acc.usedB
  <2>1. more = [rows |-> Append(acc.rows, row), usedB |-> acc.usedB, usedC |-> Marked(acc.usedC, j)]
    BY <1>4, Zenon DEF Baseline
  <2>2. /\ j \in MaybeIn(cs) /\ j \notin acc.usedC
        /\ j # None => single /\ Stem(cs[j]) = Stem(bs[i])
    <3>1. None \notin acc.usedC
      <4>1. \A x \in 1..Len(cs) : x \in Nat
        OBVIOUS
      <4> QED BY <1>1, <1>2, <4>1, Zenon
    <3>2. IsPartner(bs, cs, acc.usedC, i, Partner(bs, cs, acc.usedC, i))
      BY PartnerIn, Zenon
    <3>3. IsPartner(bs, cs, acc.usedC, i, j) /\ (j # None => single)
      BY <3>2, Zenon DEF IsPartner
    <3> HIDE DEF j
    <3> QED BY <3>1, <3>3, Zenon DEF IsPartner, MaybeIn
  <2>3. kind \in Kinds /\ (j = None => kind \in {"ambiguous", "unmatched"})
    BY <2>2, Zenon DEF Kinds
  <2>4. i \in MaybeIn(bs)
    BY Zenon DEF MaybeIn
  <2> HIDE DEF j, kind
  <2>5. /\ row \in Reports(bs, cs) /\ row.b = i /\ row.c = j /\ row.kind = kind
        /\ kind \in {"ambiguous", "unmatched"} => row.delta = None
    <3>1. IsRow(bs, cs, i, j, kind, row)
      BY <2>2, <2>3, <2>4, RowIn, Zenon
    <3> HIDE DEF row
    <3> QED BY <3>1, Zenon DEF IsRow
  <2> HIDE DEF row
  <2>6. Comparable(bs, cs, row)
    <3>1. CASE row.delta = None
      BY <3>1, Zenon DEF Comparable
    <3>2. CASE row.delta # None
      <4>1. j # None
        BY <2>3, <2>5, <3>2, Zenon
      <4>2. single /\ Stem(cs[j]) = Stem(bs[i]) /\ j \in 1..Len(cs)
        BY <2>2, <4>1, Zenon DEF MaybeIn
      <4>3. ~(StemCount(bs, Stem(bs[i])) > 1) /\ ~(StemCount(cs, Stem(bs[i])) > 1)
        BY <4>2, Zenon DEF Ambiguous
      <4>4. StemCount(bs, Stem(bs[i])) = 1
        BY <4>3, CountsItself, Zenon
      <4>5. StemCount(cs, Stem(cs[j])) = 1
        BY <4>2, <4>3, CountsItself, Zenon
      <4> QED BY <2>5, <4>2, <4>4, <4>5, Zenon DEF Comparable
    <3> QED BY <3>1, <3>2
  <2>7. Marked(acc.usedC, j) \in SUBSET (1..Len(cs))
    BY <1>2, <2>2, Zenon DEF Marked, MaybeIn
  <2>8. more \in Accs(bs, cs) /\ more.usedB = acc.usedB /\ more.usedC = Marked(acc.usedC, j)
    <3>1. Append(acc.rows, row) \in Seq(Reports(bs, cs))
      <4>1. \A R : \A s \in Seq(R), r \in R : Append(s, r) \in Seq(R)
        OBVIOUS
      <4> QED BY <1>2, <2>5, <4>1, Zenon
    <3>2. more \in Accs(bs, cs)
      BY <1>2, <2>1, <2>7, <3>1, AccIn, Zenon
    <3>3. more.usedB = acc.usedB /\ more.usedC = Marked(acc.usedC, j)
      BY <2>1
    <3> QED BY <3>2, <3>3
  <2>9. ASSUME Sound(bs, cs, acc, B \union acc.usedB, acc.usedC)
        PROVE  Sound(bs, cs, more, B \union {i} \union acc.usedB, more.usedC)
    <3>1. None \notin B \union acc.usedB /\ None \notin acc.usedC
      <4>1. (\A x \in 1..Len(cs) : x \in Nat) /\ (\A x \in 1..Len(bs) : x \in Nat)
        OBVIOUS
      <4> QED BY <1>1, <1>2, <4>1, Zenon
    <3>2. row.b \notin B \union acc.usedB /\ row.c \notin acc.usedC
      BY <1>4, <2>2, <2>5, Zenon
    <3>3. Sound(bs, cs, more, Marked(B \union acc.usedB, row.b), Marked(acc.usedC, row.c))
      BY <1>2, <2>1, <2>5, <2>6, <2>7, <2>9, <3>1, <3>2, SoundMore, Zenon
    <3>4. i # None
      <4>1. i \in Nat
        OBVIOUS
      <4> QED BY <1>1, <4>1, Zenon
    <3>5. Marked(B \union acc.usedB, row.b) = B \union {i} \union acc.usedB
      BY <2>5, <3>4, Zenon DEF Marked
    <3> QED BY <2>5, <2>8, <3>3, <3>5, Zenon
  <2> QED BY <2>8, <2>9, Zenon DEF BaselineKeeps
<1> QED BY <1>3, <1>4

\* What is left of the candidate follows.
CandidateKeeps(bs, cs, acc, more, B, C, j) ==
    /\ more \in Accs(bs, cs) /\ more.usedB = acc.usedB /\ more.usedC = acc.usedC
    /\ Sound(bs, cs, acc, B, C \union acc.usedC) =>
          Sound(bs, cs, more, B, C \union {j} \union acc.usedC)

\* It does.
LEMMA CandidateSound ==
    ASSUME NEW X, NEW bs \in Seq(X), NEW cs \in Seq(X), NEW j \in 1..Len(cs),
           NEW acc \in Accs(bs, cs), NEW B, None \notin B, NEW C, None \notin C, j \notin C,
           NEW more, more = Candidate(acc, bs, cs, j)
    PROVE  CandidateKeeps(bs, cs, acc, more, B, C, j)
<1>1. None \notin Nat
    BY Zenon, QueriesAssumption
<1> DEFINE kind == IF StemCount(cs, Stem(cs[j])) > 1 THEN "ambiguous" ELSE "unmatched"
           row == DeltaRow(bs, cs, None, j, FALSE, kind)
<1>2. /\ acc.usedB \in SUBSET (1..Len(bs)) /\ acc.usedC \in SUBSET (1..Len(cs))
      /\ acc.rows \in Seq(Reports(bs, cs))
    BY Zenon DEF Accs
<1>3. CASE j \in acc.usedC
  <2>1. more = acc
    BY <1>3, Zenon DEF Candidate
  <2>2. C \union {j} \union acc.usedC = C \union acc.usedC
    BY <1>3, Zenon
  <2> QED BY <2>1, <2>2, Zenon DEF CandidateKeeps
<1>4. CASE j \notin acc.usedC
  <2>1. more = [acc EXCEPT !.rows = Append(@, row)]
    BY <1>4, Zenon DEF Candidate
  <2>2. kind \in Kinds /\ kind \in {"ambiguous", "unmatched"}
    BY Zenon DEF Kinds
  <2>3. None \in MaybeIn(bs) /\ j \in MaybeIn(cs) /\ FALSE \in BOOLEAN
    BY Zenon DEF MaybeIn
  <2> HIDE DEF kind
  <2>4. row \in Reports(bs, cs) /\ row.b = None /\ row.c = j /\ row.delta = None
    <3>1. IsRow(bs, cs, None, j, kind, row)
      BY <2>2, <2>3, RowIn, Zenon
    <3> HIDE DEF row
    <3> QED BY <2>2, <3>1, Zenon DEF IsRow
  <2> HIDE DEF row
  <2>5. more = [rows |-> Append(acc.rows, row), usedB |-> acc.usedB, usedC |-> acc.usedC]
    <3>1. acc = [rows |-> acc.rows, usedB |-> acc.usedB, usedC |-> acc.usedC]
      <4>1. \A R, P, Q : \A m \in [rows : R, usedB : P, usedC : Q] :
                m = [rows |-> m.rows, usedB |-> m.usedB, usedC |-> m.usedC]
        OBVIOUS
      <4> QED BY <4>1, Zenon DEF Accs
    <3> DEFINE longer == Append(acc.rows, row)
    <3>2. more = [acc EXCEPT !.rows = longer]
      BY <2>1, Zenon
    <3> HIDE DEF longer
    <3>3. more = [rows |-> longer, usedB |-> acc.usedB, usedC |-> acc.usedC]
      BY <3>1, <3>2
    <3> QED BY <3>3, Zenon DEF longer
  <2>6. Comparable(bs, cs, row)
    BY <2>4, Zenon DEF Comparable
  <2>7. more \in Accs(bs, cs) /\ more.usedB = acc.usedB /\ more.usedC = acc.usedC
    <3>1. Append(acc.rows, row) \in Seq(Reports(bs, cs))
      <4>1. \A R : \A s \in Seq(R), r \in R : Append(s, r) \in Seq(R)
        OBVIOUS
      <4> QED BY <1>2, <2>4, <4>1, Zenon
    <3>2. more \in Accs(bs, cs)
      BY <1>2, <2>5, <3>1, AccIn, Zenon
    <3>3. more.usedB = acc.usedB /\ more.usedC = acc.usedC
      BY <2>5
    <3> QED BY <3>2, <3>3
  <2>8. ASSUME Sound(bs, cs, acc, B, C \union acc.usedC)
        PROVE  Sound(bs, cs, more, B, C \union {j} \union acc.usedC)
    <3>1. None \notin C \union acc.usedC /\ j # None
      <4>1. \A x \in 1..Len(cs) : x \in Nat
        OBVIOUS
      <4> QED BY <1>1, <1>2, <4>1, Zenon
    <3>2. row.b \notin B /\ row.c \notin C \union acc.usedC
      BY <1>4, <2>4, Zenon
    <3>3. Sound(bs, cs, more, Marked(B, row.b), Marked(C \union acc.usedC, row.c))
      BY <1>2, <2>4, <2>5, <2>6, <2>8, <3>1, <3>2, SoundMore, Zenon
    <3>4. Marked(B, row.b) = B /\ Marked(C \union acc.usedC, row.c) = C \union {j} \union acc.usedC
      BY <2>4, <3>1, Zenon DEF Marked
    <3> QED BY <3>3, <3>4, Zenon
  <2> QED BY <2>7, <2>8, Zenon DEF CandidateKeeps
<1> QED BY <1>3, <1>4

-----------------------------------------------------------------------------
\* The recursive functions behind ExplicitPairs and PairRows.
Explaining(pairs, bs, cs, allowed, after) ==
    after = [n \in 0..Len(pairs) |->
                IF n = 0 THEN [rows |-> << >>, usedB |-> {}, usedC |-> {}]
                ELSE Explicit(after[n - 1], bs, cs, pairs[n], allowed)]
Basing(start, bs, cs, allowed, based) ==
    based = [i \in 0..Len(bs) |->
                IF i = 0 THEN start ELSE Baseline(based[i - 1], bs, cs, i, allowed)]
Leaving(start, bs, cs, left) ==
    left = [j \in 0..Len(cs) |-> IF j = 0 THEN start ELSE Candidate(left[j - 1], bs, cs, j)]

\* The pairs of the caller's, one at most: the second could name a row of the first.
LEMMA ExplicitPairsSound ==
    ASSUME NEW X, NEW bs \in Seq(X), NEW cs \in Seq(X), NEW Y, NEW pairs \in Seq(Y),
           Len(pairs) <= 1, NEW allowed \in BOOLEAN,
           NEW acc, acc = ExplicitPairs(pairs, bs, cs, allowed)
    PROVE  acc \in Accs(bs, cs) /\ Sound(bs, cs, acc, acc.usedB, acc.usedC)
<1> DEFINE n == Len(pairs)
           f == [k \in 0..n |-> IF k = 0 THEN NothingTold
                                ELSE Explicit(NothingTold, bs, cs, pairs[k], allowed)]
           g == CHOOSE after : Explaining(pairs, bs, cs, allowed, after)
<1>1. n \in {0, 1} /\ 0 \in 0..n /\ n \in 0..n /\ \A k \in 0..n : k # 0 => k - 1 = 0
  <2>1. n \in Nat /\ n <= 1
    OBVIOUS
  <2> HIDE DEF n
  <2> QED BY <2>1
<1> HIDE DEF n
<1>2. Explaining(pairs, bs, cs, allowed, f)
  <2>1. f[0] = NothingTold
    BY <1>1, Zenon
  <2>2. \A k \in 0..n : k # 0 => f[k - 1] = NothingTold
    <3> HIDE DEF f
    <3> QED BY <1>1, <2>1, Zenon
  <2>3. f = [k \in 0..n |-> IF k = 0 THEN NothingTold
                            ELSE Explicit(f[k - 1], bs, cs, pairs[k], allowed)]
    <3>1. \A k \in 0..n : (IF k = 0 THEN NothingTold
                           ELSE Explicit(NothingTold, bs, cs, pairs[k], allowed))
                          = (IF k = 0 THEN NothingTold
                             ELSE Explicit(f[k - 1], bs, cs, pairs[k], allowed))
      <4> HIDE DEF f
      <4> QED BY <2>2, Zenon
    <3> QED BY <3>1, Zenon
  <2> HIDE DEF f
  <2> QED BY <2>3, Zenon DEF Explaining, NothingTold, n
<1> HIDE DEF f
<1>3. Explaining(pairs, bs, cs, allowed, g) /\ acc = g[n]
    BY <1>2, Zenon DEF ExplicitPairs, Explaining, n
<1> HIDE DEF g
<1>4. g[0] = NothingTold /\ \A k \in 0..n : k # 0 => g[k] = Explicit(g[k - 1], bs, cs, pairs[k], allowed)
    BY <1>1, <1>3, Zenon DEF Explaining, NothingTold, n
<1>5. CASE n = 0
  <2>1. acc = NothingTold /\ acc.usedB = {} /\ acc.usedC = {}
    BY <1>3, <1>4, <1>5 DEF NothingTold
  <2> QED BY <2>1, NothingSound, Zenon
<1>6. CASE n # 0
  <2>1. acc = Explicit(NothingTold, bs, cs, pairs[n], allowed)
    BY <1>1, <1>3, <1>4, <1>6, Zenon
  <2> QED BY <2>1, ExplicitSound, Zenon
<1> QED BY <1>5, <1>6

\* The rows of the baseline after the pairs of the caller's.
LEMMA BasedSound ==
    ASSUME NEW X, NEW bs \in Seq(X), NEW cs \in Seq(X), NEW allowed \in BOOLEAN,
           NEW start \in Accs(bs, cs), Sound(bs, cs, start, start.usedB, start.usedC),
           NEW acc, acc = (CHOOSE based : Basing(start, bs, cs, allowed, based))[Len(bs)]
    PROVE  acc \in Accs(bs, cs) /\ Sound(bs, cs, acc, 1..Len(bs), acc.usedC)
<1> DEFINE n == Len(bs)
           S == Accs(bs, cs)
           step == [p \in (1..n) \X S |-> Baseline(p[2], bs, cs, p[1], allowed)]
           g == CHOOSE based : Basing(start, bs, cs, allowed, based)
           used == start.usedB
           Holds(i, a) == /\ a \in S /\ a.usedB = used
                          /\ Sound(bs, cs, a, (1..i) \union used, a.usedC)
           Q == {i \in 0..n : Holds(i, g[i])}
<1>1. n \in Nat /\ None \notin Nat
  <2>1. n \in Nat
    OBVIOUS
  <2> QED BY <2>1, QueriesAssumption, Zenon
<1>2. ASSUME NEW i \in 1..n, NEW a \in S
      PROVE  /\ Baseline(a, bs, cs, i, allowed) \in S
             /\ Holds(i - 1, a) => Holds(i, Baseline(a, bs, cs, i, allowed))
  <2> DEFINE more == Baseline(a, bs, cs, i, allowed)
             B == 1..(i - 1)
  <2>1. None \notin B /\ i \notin B /\ 1..i = B \union {i}
    <3>1. i \in Nat /\ \A x \in B : x \in Nat
      BY <1>1
    <3>2. i \notin B /\ 1..i = B \union {i}
      BY <1>1
    <3> QED BY <1>1, <3>1, <3>2, Zenon
  <2> HIDE DEF B, more
  <2>2. more = Baseline(a, bs, cs, i, allowed)
    BY Zenon DEF more
  <2>3. /\ more \in Accs(bs, cs) /\ more.usedB = a.usedB
        /\ Sound(bs, cs, a, B \union a.usedB, a.usedC) =>
              Sound(bs, cs, more, B \union {i} \union a.usedB, more.usedC)
    <3>1. BaselineKeeps(bs, cs, a, more, B, i)
      BY <2>1, <2>2, BaselineSound, Zenon
    <3> QED BY <3>1, Zenon DEF BaselineKeeps
  <2>4. Holds(i - 1, a) => Holds(i, more)
    BY <2>1, <2>3, Zenon DEF B
  <2> QED BY <2>2, <2>3, <2>4, Zenon
<1>3. PICK f \in [0..n -> S] : Recursive(n, start, step, f)
  <2>1. step \in [(1..n) \X S -> S]
    <3> HIDE DEF Holds, n, S
    <3> QED BY <1>2
  <2> HIDE DEF step, n, S
  <2> QED BY <1>1, <2>1, RecursionExists DEF S
<1>4. Basing(start, bs, cs, allowed, f)
  <2> HIDE DEF n, S, step
  <2>1. \A i \in 0..n : i # 0 => f[i - 1] \in S /\ i \in 1..n
    BY <1>1, <1>3
  <2>2. \A i \in 0..n : i # 0 => step[<<i, f[i - 1]>>] = Baseline(f[i - 1], bs, cs, i, allowed)
    BY <2>1 DEF step
  <2>3. f = [i \in 0..n |-> IF i = 0 THEN start ELSE Baseline(f[i - 1], bs, cs, i, allowed)]
    BY <1>3, <2>2, Zenon DEF Recursive
  <2> QED BY <2>3, Zenon DEF Basing, n
<1>5. Basing(start, bs, cs, allowed, g) /\ acc = g[n]
    BY <1>4, Zenon
<1> HIDE DEF g
<1>6. 0 \in Q
  <2>1. 0 \in 0..n
    BY <1>1
  <2>2. g[0] = start
    BY <1>5, <2>1, Zenon DEF Basing
  <2>3. (1..0) \union used = used
    OBVIOUS
  <2> QED BY <2>1, <2>2, <2>3, Zenon
<1>7. ASSUME NEW i \in 1..n, i - 1 \in Q
      PROVE  i \in Q
  <2>1. i \in 0..n /\ i # 0
    BY <1>1
  <2>2. g[i] = Baseline(g[i - 1], bs, cs, i, allowed)
    BY <1>5, <2>1, Zenon DEF Basing
  <2>3. Holds(i - 1, g[i - 1])
    BY <1>7, Zenon
  <2>4. g[i - 1] \in S
    BY <2>3, Zenon
  <2> HIDE DEF Holds, S
  <2>5. Holds(i, g[i])
    BY <1>2, <2>2, <2>3, <2>4, Zenon
  <2> QED BY <2>1, <2>5, Zenon
<1>8. n \in Q
  <2> HIDE DEF Q, n
  <2>1. n \in 0..n /\ \A i \in 1..n : i - 1 \in Q => i \in Q
    BY <1>1, <1>7
  <2>2. \A i \in 0..n : i \in Q
    BY <1>1, <1>6, <2>1, Upward, Zenon
  <2> QED BY <2>1, <2>2, Zenon
<1>9. (1..n) \union used = 1..n
  <2>1. used \in SUBSET (1..n)
    BY Zenon DEF Accs
  <2> QED BY <2>1, Zenon
<1> QED BY <1>5, <1>8, <1>9, Zenon

\* The rows left of the candidate.
LEMMA LeftSound ==
    ASSUME NEW X, NEW bs \in Seq(X), NEW cs \in Seq(X), NEW start \in Accs(bs, cs),
           Sound(bs, cs, start, 1..Len(bs), start.usedC),
           NEW acc, acc = (CHOOSE left : Leaving(start, bs, cs, left))[Len(cs)]
    PROVE  Sound(bs, cs, acc, 1..Len(bs), 1..Len(cs))
<1> DEFINE n == Len(cs)
           S == Accs(bs, cs)
           B == 1..Len(bs)
           step == [p \in (1..n) \X S |-> Candidate(p[2], bs, cs, p[1])]
           g == CHOOSE left : Leaving(start, bs, cs, left)
           used == start.usedC
           Holds(j, a) == a \in S /\ a.usedC = used /\ Sound(bs, cs, a, B, (1..j) \union used)
           Q == {j \in 0..n : Holds(j, g[j])}
<1>1. n \in Nat /\ None \notin Nat /\ None \notin B
  <2>1. n \in Nat /\ \A x \in B : x \in Nat
    OBVIOUS
  <2> QED BY <2>1, QueriesAssumption, Zenon
<1>2. ASSUME NEW j \in 1..n, NEW a \in S
      PROVE  /\ Candidate(a, bs, cs, j) \in S
             /\ Holds(j - 1, a) => Holds(j, Candidate(a, bs, cs, j))
  <2> DEFINE more == Candidate(a, bs, cs, j)
             C == 1..(j - 1)
  <2>1. None \notin C /\ j \notin C /\ 1..j = C \union {j}
    <3>1. j \in Nat /\ \A x \in C : x \in Nat
      BY <1>1
    <3>2. j \notin C /\ 1..j = C \union {j}
      BY <1>1
    <3> QED BY <1>1, <3>1, <3>2, Zenon
  <2> HIDE DEF C, more, B
  <2>2. more = Candidate(a, bs, cs, j)
    BY Zenon DEF more
  <2>3. /\ more \in Accs(bs, cs) /\ more.usedC = a.usedC
        /\ Sound(bs, cs, a, B, C \union a.usedC) =>
              Sound(bs, cs, more, B, C \union {j} \union a.usedC)
    <3>1. CandidateKeeps(bs, cs, a, more, B, C, j)
      BY <1>1, <2>1, <2>2, CandidateSound, Zenon
    <3> QED BY <3>1, Zenon DEF CandidateKeeps
  <2>4. Holds(j - 1, a) => Holds(j, more)
    BY <2>1, <2>3, Zenon DEF C
  <2> QED BY <2>2, <2>3, <2>4, Zenon
<1>3. PICK f \in [0..n -> S] : Recursive(n, start, step, f)
  <2>1. step \in [(1..n) \X S -> S]
    <3> HIDE DEF Holds, n, S
    <3> QED BY <1>2
  <2> HIDE DEF step, n, S
  <2> QED BY <1>1, <2>1, RecursionExists DEF S
<1>4. Leaving(start, bs, cs, f)
  <2> HIDE DEF n, S, step
  <2>1. \A j \in 0..n : j # 0 => f[j - 1] \in S /\ j \in 1..n
    BY <1>1, <1>3
  <2>2. \A j \in 0..n : j # 0 => step[<<j, f[j - 1]>>] = Candidate(f[j - 1], bs, cs, j)
    BY <2>1 DEF step
  <2>3. f = [j \in 0..n |-> IF j = 0 THEN start ELSE Candidate(f[j - 1], bs, cs, j)]
    BY <1>3, <2>2, Zenon DEF Recursive
  <2> QED BY <2>3, Zenon DEF Leaving, n
<1>5. Leaving(start, bs, cs, g) /\ acc = g[n]
    BY <1>4, Zenon
<1> HIDE DEF g
<1>6. 0 \in Q
  <2>1. 0 \in 0..n
    BY <1>1
  <2>2. g[0] = start
    BY <1>5, <2>1, Zenon DEF Leaving
  <2>3. (1..0) \union used = used
    OBVIOUS
  <2> QED BY <2>1, <2>2, <2>3, Zenon
<1>7. ASSUME NEW j \in 1..n, j - 1 \in Q
      PROVE  j \in Q
  <2>1. j \in 0..n /\ j # 0
    BY <1>1
  <2>2. g[j] = Candidate(g[j - 1], bs, cs, j)
    BY <1>5, <2>1, Zenon DEF Leaving
  <2>3. Holds(j - 1, g[j - 1])
    BY <1>7, Zenon
  <2>4. g[j - 1] \in S
    BY <2>3, Zenon
  <2> HIDE DEF Holds, S
  <2>5. Holds(j, g[j])
    BY <1>2, <2>2, <2>3, <2>4, Zenon
  <2> QED BY <2>1, <2>5, Zenon
<1>8. n \in Q
  <2> HIDE DEF Q, n
  <2>1. n \in 0..n /\ \A j \in 1..n : j - 1 \in Q => j \in Q
    BY <1>1, <1>7
  <2>2. \A j \in 0..n : j \in Q
    BY <1>1, <1>6, <2>1, Upward, Zenon
  <2> QED BY <2>1, <2>2, Zenon
<1>9. (1..n) \union used = 1..n
  <2>1. used \in SUBSET (1..n)
    BY Zenon DEF Accs
  <2> QED BY <2>1, Zenon
<1> QED BY <1>5, <1>8, <1>9, Zenon

\* What PairRows promises.
Paired(bs, cs, rows) ==
    /\ \A i \in DOMAIN bs : Cardinality({r \in DOMAIN rows : rows[r].b = i}) = 1
    /\ \A j \in DOMAIN cs : Cardinality({r \in DOMAIN rows : rows[r].c = j}) = 1
    /\ \A r \in DOMAIN rows : rows[r].delta # None =>
          \/ rows[r].kind = "explicit_pair"
          \/ /\ Stem(bs[rows[r].b]) = Stem(cs[rows[r].c])
             /\ StemCount(bs, Stem(bs[rows[r].b])) = 1
             /\ StemCount(cs, Stem(bs[rows[r].b])) = 1

\* A comparison with at most one pair of the caller's reports every row of both sides once.
LEMMA PairRowsSound ==
    ASSUME NEW X, NEW bs \in Seq(X), NEW cs \in Seq(X), NEW Y, NEW pairs \in Seq(Y),
           Len(pairs) <= 1, NEW allowed \in BOOLEAN,
           NEW rows, rows = PairRows(pairs, bs, cs, allowed)
    PROVE  Paired(bs, cs, rows)
<1> DEFINE start == ExplicitPairs(pairs, bs, cs, allowed)
           based == (CHOOSE f : Basing(start, bs, cs, allowed, f))[Len(bs)]
           left == (CHOOSE f : Leaving(based, bs, cs, f))[Len(cs)]
<1>1. rows = left.rows
    BY Zenon DEF PairRows, Basing, Leaving
<1>2. start = ExplicitPairs(pairs, bs, cs, allowed)
    BY Zenon
<1>3. based = (CHOOSE f : Basing(start, bs, cs, allowed, f))[Len(bs)]
    BY Zenon
<1>4. left = (CHOOSE f : Leaving(based, bs, cs, f))[Len(cs)]
    BY Zenon
<1> HIDE DEF start, based, left
<1>5. start \in Accs(bs, cs) /\ Sound(bs, cs, start, start.usedB, start.usedC)
    BY <1>2, ExplicitPairsSound, Zenon
<1>6. based \in Accs(bs, cs) /\ Sound(bs, cs, based, 1..Len(bs), based.usedC)
    BY <1>5, <1>3, BasedSound, Zenon
<1>7. Sound(bs, cs, left, 1..Len(bs), 1..Len(cs))
    BY <1>6, <1>4, LeftSound, Zenon
<1>8. /\ rows \in Seq(Reports(bs, cs)) /\ Tells(rows, 1..Len(bs), 1..Len(cs))
      /\ \A r \in 1..Len(rows) : Comparable(bs, cs, rows[r])
    BY <1>7, <1>1, Zenon DEF Sound, Accs
<1>9. DOMAIN bs = 1..Len(bs) /\ DOMAIN cs = 1..Len(cs)
    OBVIOUS
<1>10. DOMAIN rows = 1..Len(rows)
  <2>1. \A R : \A s \in Seq(R) : DOMAIN s = 1..Len(s)
    OBVIOUS
  <2> QED BY <1>8, <2>1, Zenon
<1>11. None \notin Nat /\ (\A i \in 1..Len(bs) : i \in Nat) /\ (\A j \in 1..Len(cs) : j \in Nat)
  <2>1. (\A i \in 1..Len(bs) : i \in Nat) /\ (\A j \in 1..Len(cs) : j \in Nat)
    OBVIOUS
  <2> QED BY <2>1, QueriesAssumption, Zenon
<1>12. ASSUME NEW i \in 1..Len(bs)
       PROVE  Cardinality({r \in DOMAIN rows : rows[r].b = i}) = 1
  <2>1. i # None
    BY <1>11, Zenon
  <2>2. PICK r \in 1..Len(rows) : rows[r].b = i
    BY <1>8, Zenon DEF Tells
  <2>3. \A q \in 1..Len(rows) : rows[q].b = i => q = r
    BY <1>8, <2>1, <2>2, Zenon DEF Tells
  <2>4. {q \in DOMAIN rows : rows[q].b = i} = {r}
    BY <1>10, <2>2, <2>3, Zenon
  <2> QED BY <2>4, FS_Singleton, Zenon
<1>13. ASSUME NEW j \in 1..Len(cs)
       PROVE  Cardinality({r \in DOMAIN rows : rows[r].c = j}) = 1
  <2>1. j # None
    BY <1>11, Zenon
  <2>2. PICK r \in 1..Len(rows) : rows[r].c = j
    BY <1>8, Zenon DEF Tells
  <2>3. \A q \in 1..Len(rows) : rows[q].c = j => q = r
    BY <1>8, <2>1, <2>2, Zenon DEF Tells
  <2>4. {q \in DOMAIN rows : rows[q].c = j} = {r}
    BY <1>10, <2>2, <2>3, Zenon
  <2> QED BY <2>4, FS_Singleton, Zenon
<1> QED BY <1>8, <1>9, <1>10, <1>12, <1>13, Zenon DEF Paired, Comparable

-----------------------------------------------------------------------------
\* What comparisons rely on and promise.
PairingInv == QueryTypes /\ Decodes /\ PairedOnce

\* A comparison reports every row of both sides once.
LEMMA ComparesPairs ==
    ASSUME PairingInv, NEW group, NEW b, NEW c, NEW pairs \in Pairs, Compares(group, b, c, pairs)
    PROVE  PairedOnce'
<1>1. SUFFICES ASSUME report'.st = "ok", Len(report'.pairs) <= 1
               PROVE  Paired(report'.sides[1], report'.sides[2], report'.rows)
    BY Zenon DEF PairedOnce, Paired
<1> DEFINE bs == SideRows(group, b)
           cs == SideRows(group, c)
           list == analyses[FindCallsAnalysis].spans
<1>2. report' = [st |-> IF group = "inline" /\ InlineFile("snapshot") = {}
                        THEN "detail_not_ready" ELSE "ok",
                 group |-> group, pairs |-> pairs,
                 rows |-> IF group = "inline" /\ InlineFile("snapshot") = {} THEN << >>
                          ELSE PairRows(pairs, bs, cs, TRUE),
                 sides |-> <<bs, cs>>]
    BY Zenon DEF Compares
<1>3. InlineFile("snapshot") = {}
    BY Zenon DEF InlineFile
<1>4. group # "inline"
  <2>1. report'.st = IF group = "inline" /\ InlineFile("snapshot") = {}
                     THEN "detail_not_ready" ELSE "ok"
    BY <1>2, Zenon
  <2>2. "detail_not_ready" # "ok"
    OBVIOUS
  <2> QED BY <1>1, <1>3, <2>1, <2>2, Zenon
<1>5. /\ report'.pairs = pairs /\ report'.rows = PairRows(pairs, bs, cs, TRUE)
      /\ report'.sides[1] = bs /\ report'.sides[2] = cs
    BY <1>2, <1>4, Zenon
<1>6. list \in Seq(Spans)
  <2>1. stage = "ready"
    BY Zenon DEF Compares, Served
  <2>2. FindCallsAnalysis \in 1..Len(analyses)
    BY <2>1, BestFacts, Zenon DEF PairingInv
  <2>3. analyses[FindCallsAnalysis] \in Analyses
    BY <2>2 DEF PairingInv, QueryTypes
  <2> HIDE DEF list
  <2>4. \A a \in Analyses : a.spans \in Seq(Spans)
    BY DEF Analyses
  <2> QED BY <2>3, <2>4, Zenon DEF list
<1>7. bs = HotpathRows(list, OnThread(b), group, None)
      /\ cs = HotpathRows(list, OnThread(c), group, None)
    BY <1>4, Zenon DEF SideRows
<1> HIDE DEF list, bs, cs
<1>8. PICK X : bs \in Seq(X)
    BY <1>6, <1>7, HotpathSeq, Zenon
<1>9. PICK Z : cs \in Seq(Z)
    BY <1>6, <1>7, HotpathSeq, Zenon
<1>10. bs \in Seq(X \union Z) /\ cs \in Seq(X \union Z)
    BY <1>8, <1>9
<1>11. pairs \in Seq(Seq(Names) \X Seq(Names))
    BY QueriesAssumption, Zenon
<1>12. PICK rows : rows = PairRows(pairs, bs, cs, TRUE)
    OBVIOUS
<1>13. Paired(bs, cs, rows)
  <2>1. Len(pairs) <= 1 /\ TRUE \in BOOLEAN
    BY <1>1, <1>5, Zenon
  <2> QED BY <1>10, <1>11, <1>12, <2>1, PairRowsSound, Zenon
<1> QED BY <1>5, <1>12, <1>13, Zenon

\* Every other step leaves the report alone.
LEMMA PairingStep == ASSUME PairingInv, [Next]_vars PROVE PairingInv'
<1>1. QueryTypes' /\ Decodes'
    BY QueryTypesStep, DecodesStep, Zenon DEF PairingInv
<1> SUFFICES PairedOnce'
    BY <1>1, Zenon DEF PairingInv
<1>2. ASSUME UNCHANGED report PROVE PairedOnce'
    BY <1>2, Zenon DEF PairingInv, PairedOnce
<1>3. ASSUME NEW group, NEW b, NEW c, NEW pairs \in Pairs, Compares(group, b, c, pairs)
      PROVE  PairedOnce'
    BY <1>3, ComparesPairs, Zenon
<1>4. CASE UNCHANGED vars
    BY <1>2, <1>4, Zenon DEF vars, serveVars
<1>5. CASE detail = "instructions" /\ stage = "tracing" /\ InsnNext
              /\ UNCHANGED <<detail, stage, callVars, serveVars>>
    BY <1>2, <1>5, Zenon DEF serveVars
<1>6. CASE \E t \in Threads : \/ Returns(t) \/ Cuts(t)
                              \/ \E fn \in Names : Calls(t, fn) \/ TailCalls(t, fn)
    BY <1>2, <1>6, Zenon DEF Returns, Cuts, Calls, TailCalls, Calling, serveVars
<1>7. CASE Ticks \/ Publishes
    BY <1>2, <1>7, Zenon DEF Ticks, Calling, serveVars, Publishes
<1>8. CASE \E full \in BOOLEAN : Redecodes(full)
    BY <1>2, <1>8, Zenon DEF Redecodes
<1>9. CASE FirstPage \/ NextPage
    BY <1>2, <1>9, Zenon DEF FirstPage, NextPage, Asks
<1>10. CASE \E group \in {"path", "function", "inline"}, b, c \in Threads, pairs \in Pairs :
                b # c /\ Compares(group, b, c, pairs)
    BY <1>3, <1>10, Zenon
<1> QED BY <1>4, <1>5, <1>6, <1>7, <1>8, <1>9, <1>10, Zenon DEF Next

\* A comparison with at most one pair of the caller's reports every row of both sides, each
\* once, and gives a delta only for that pair or for two rows alone with their stem
\* (pair_rows).
THEOREM PairedOnceHolds == Spec => []PairedOnce
<1>1. Init => PairingInv
  <2>1. Init => PairedOnce
    <3>1. NoReport.st # "ok"
      BY DEF NoReport
    <3> QED BY <3>1, Zenon DEF Init, PairedOnce
  <2> QED BY <2>1, QueryTypesInit, DecodesInit, Zenon DEF PairingInv
<1>2. PairingInv /\ [Next]_vars => PairingInv'
    BY PairingStep
<1>3. PairingInv => PairedOnce
    BY Zenon DEF PairingInv
<1> QED BY <1>1, <1>2, <1>3, PTL DEF Spec

-----------------------------------------------------------------------------
\* The snapshot's instructions are those of the reconstructor alone, whatever is decoded and
\* asked beside it: what is proved of InsnSpec holds of the snapshot.
THEOREM InsnsAreReconstructed == Spec => InsnSpec
<1>1. Init => InsnInit
    BY Zenon DEF Init
<1>2. [Next]_vars => [InsnNext]_insnVars
  <2> SUFFICES ASSUME [Next]_vars PROVE [InsnNext]_insnVars
    OBVIOUS
  <2>1. CASE UNCHANGED vars
    BY <2>1, Zenon DEF vars
  <2>2. CASE InsnNext
    BY <2>2, Zenon
  <2>3. CASE \E t \in Threads : \/ Returns(t) \/ Cuts(t)
                                \/ \E fn \in Names : Calls(t, fn) \/ TailCalls(t, fn)
    BY <2>3, Zenon DEF Returns, Cuts, Calls, TailCalls, Calling
  <2>4. CASE Ticks \/ Publishes
    BY <2>4, Zenon DEF Ticks, Calling, Publishes
  <2>5. CASE \E full \in BOOLEAN : Redecodes(full)
    BY <2>5, Zenon DEF Redecodes
  <2>6. CASE FirstPage \/ NextPage
    BY <2>6, Zenon DEF FirstPage, NextPage, Asks
  <2>7. CASE \E group \in {"path", "function", "inline"}, b, c \in Threads, pairs \in Pairs :
                b # c /\ Compares(group, b, c, pairs)
    BY <2>7, Zenon DEF Compares
  <2> QED BY <2>1, <2>2, <2>3, <2>4, <2>5, <2>6, <2>7, Zenon DEF Next
<1> QED BY <1>1, <1>2, PTL DEF Spec, InsnSpec

-----------------------------------------------------------------------------
\* A one-element set as a sequence, and none.
LEMMA SingletonSeq ==
    ASSUME NEW x
    PROVE  SetToSeq({x}) = <<x>>
<1> DEFINE s == SetToSeq({x})
<1>1. IsFiniteSet({x}) /\ Cardinality({x}) = 1
    BY FS_Singleton, Zenon
<1>2. s \in Seq({x}) /\ Len(s) = 1
    BY <1>1, SetAsSeq
<1> HIDE DEF s
<1>3. s = [i \in 1..1 |-> x]
    BY <1>2
<1> QED BY <1>3 DEF s

\* The same of no element.
LEMMA SeqOfNone ==
    ASSUME NEW S, S = {}
    PROVE  SetToSeq(S) = << >>
<1>1. IsFiniteSet(S) /\ Cardinality(S) = 0
    BY FS_EmptySet, Zenon
<1>2. SetToSeq(S) \in Seq(S) /\ Len(SetToSeq(S)) = 0
    BY <1>1, SetAsSeq, Zenon
<1>3. \A s \in Seq(S) : Len(s) = 0 => s = << >>
    OBVIOUS
<1>4. SetToSeq(S) = << >>
    BY <1>2, <1>3
<1> QED BY <1>4

\* The spans of a list, each with an id of its own.
UniqueIds(S) == \A x, y \in S : x.id = y.id => x = y

\* r is a chain of calls among them, outermost first.
Chained(S, r) ==
    /\ r \in Seq(S)
    /\ \A i \in 1..Len(r) : r[i].parent = IF i = 1 THEN None ELSE r[i - 1].id

\* The parents of a span of a chain.
LEMMA ChainParent ==
    ASSUME NEW list \in Seq(Spans), UniqueIds(ToSet(list)), NEW r, Chained(ToSet(list), r),
           NEW i \in 1..Len(r)
    PROVE  Parent(list, r[i]) = IF i = 1 THEN {} ELSE {r[i - 1]}
<1> DEFINE S == ToSet(list)
<1>1. S \subseteq Spans
    BY DEF ToSet
<1>2. Len(r) \in Nat /\ r[i] \in S /\ r[i].parent = IF i = 1 THEN None ELSE r[i - 1].id
    BY DEF Chained
<1>3. Parent(list, r[i]) = {sp \in S : sp.id = r[i].parent}
    BY Zenon DEF Parent, SpanOfId
<1>4. CASE i = 1
  <2>1. \A sp \in S : sp.id # None
    <3>1. \A sp \in S : sp.id \in Nat
      BY <1>1 DEF Spans
    <3>2. None \notin Nat
      BY QueriesAssumption
    <3> HIDE DEF S
    <3> QED BY <3>1, <3>2, Zenon
  <2>2. r[i].parent = None
    BY <1>2, <1>4
  <2> HIDE DEF S
  <2> QED BY <1>3, <1>4, <2>1, <2>2, Zenon
<1>5. CASE i # 1
  <2>1. r[i - 1] \in S
    <3>1. i - 1 \in 1..Len(r)
      BY <1>2, <1>5
    <3> QED BY <3>1 DEF Chained
  <2>2. r[i].parent = r[i - 1].id
    BY <1>2, <1>5
  <2>3. \A sp \in S : sp.id = r[i - 1].id => sp = r[i - 1]
    BY <2>1, Zenon DEF UniqueIds
  <2> HIDE DEF S
  <2>4. {sp \in S : sp.id = r[i].parent} = {r[i - 1]}
    BY <2>1, <2>2, <2>3
  <2> QED BY <1>3, <1>5, <2>4, Zenon
<1> QED BY <1>4, <1>5

\* The walk up a chain from its k-th span, after n steps.
Up(r, k, n) == [j \in 1..Smaller(n + 1, k) |-> r[k + 1 - j]]

\* One step of it: the next caller, if there is one.
LEMMA UpStep ==
    ASSUME NEW list \in Seq(Spans), UniqueIds(ToSet(list)), NEW r, Chained(ToSet(list), r),
           NEW k \in 1..Len(r), NEW n \in Nat \ {0}
    PROVE  Up(r, k, n) = Up(r, k, n - 1) \o SetToSeq(Parent(list, Last(Up(r, k, n - 1))))
<1> DEFINE S == ToSet(list)
           c == Up(r, k, n - 1)
<1>1. r \in Seq(S) /\ Len(r) \in Nat /\ k \in Nat /\ \A i \in 1..Len(r) : r[i] \in S
    BY DEF Chained
<1>2. CASE n < k
  <2>1. c = [j \in 1..n |-> r[k + 1 - j]]
    BY <1>1, <1>2 DEF Up, Smaller
  <2>2. c \in Seq(S) /\ Len(c) = n
    <3>1. c \in [1..n -> S]
      <4>1. \A j \in 1..n : k + 1 - j \in 1..Len(r)
        BY <1>1, <1>2
      <4> HIDE DEF S, c
      <4> QED BY <1>1, <2>1, <4>1
    <3> HIDE DEF c, S
    <3> QED BY <3>1, FunSeq
  <2>3. Last(c) = r[k + 1 - n]
    <3> HIDE DEF c
    <3> QED BY <1>2, <2>1, <2>2 DEF Last
  <2>4. k + 1 - n \in 1..Len(r) /\ k + 1 - n # 1 /\ (k + 1 - n) - 1 = k - n
    BY <1>1, <1>2
  <2>5. Parent(list, Last(c)) = {r[k - n]}
    <3> HIDE DEF c
    <3>1. Parent(list, r[k + 1 - n]) = {r[(k + 1 - n) - 1]}
      BY <2>4, ChainParent
    <3> QED BY <2>3, <2>4, <3>1
  <2>6. SetToSeq(Parent(list, Last(c))) = <<r[k - n]>>
    <3> HIDE DEF c
    <3> QED BY <2>5, SingletonSeq, Zenon
  <2>7. r[k - n] \in S
    BY <1>1, <1>2
  <2>8. c \o <<r[k - n]>> = [j \in 1..(n + 1) |-> r[k + 1 - j]]
    <3> DEFINE d == c \o <<r[k - n]>>
    <3>1. d \in Seq(S) /\ Len(d) = n + 1 /\ d[n + 1] = r[k - n] /\ \A j \in 1..n : d[j] = c[j]
      <4> HIDE DEF c, S
      <4> QED BY <2>2, <2>7
    <3>2. \A j \in 1..(n + 1) : d[j] = r[k + 1 - j]
      <4>1. \A j \in 1..n : c[j] = r[k + 1 - j]
        <5> HIDE DEF c
        <5> QED BY <2>1
      <4>2. k + 1 - (n + 1) = k - n
        BY <1>1
      <4> HIDE DEF c, d, S
      <4>3. \A j \in 1..(n + 1) : j = n + 1 \/ j \in 1..n
        OBVIOUS
      <4>4. \A j \in 1..n : d[j] = r[k + 1 - j]
        BY <3>1, <4>1
      <4>5. d[n + 1] = r[k + 1 - (n + 1)]
        BY <3>1, <4>2
      <4> QED BY <4>3, <4>4, <4>5, Zenon
    <3>3. d = [j \in 1..(n + 1) |-> d[j]]
      <4> HIDE DEF d, S
      <4> QED BY <3>1
    <3> HIDE DEF d
    <3>4. d = [j \in 1..(n + 1) |-> r[k + 1 - j]]
      BY <3>2, <3>3
    <3> QED BY <3>4 DEF d
  <2>9. Up(r, k, n) = [j \in 1..(n + 1) |-> r[k + 1 - j]]
    BY <1>1, <1>2 DEF Up, Smaller
  <2> HIDE DEF c
  <2>10. Up(r, k, n) = c \o SetToSeq(Parent(list, Last(c)))
    BY <2>6, <2>8, <2>9, Zenon
  <2> QED BY <2>10, Zenon DEF c
<1>3. CASE n >= k
  <2>1. c = [j \in 1..k |-> r[k + 1 - j]] /\ Up(r, k, n) = c
    BY <1>1, <1>3 DEF Up, Smaller
  <2>2. c \in Seq(S) /\ Len(c) = k
    <3>1. c \in [1..k -> S]
      <4>1. \A j \in 1..k : k + 1 - j \in 1..Len(r)
        BY <1>1
      <4> HIDE DEF S, c
      <4> QED BY <1>1, <2>1, <4>1
    <3> HIDE DEF c, S
    <3> QED BY <1>1, <3>1, FunSeq
  <2>3. Last(c) = r[1] /\ 1 \in 1..Len(r)
    <3> HIDE DEF c
    <3> QED BY <1>1, <2>1, <2>2 DEF Last
  <2>4. Parent(list, Last(c)) = {}
    <3> HIDE DEF c
    <3>1. Parent(list, r[1]) = {}
      BY <2>3, ChainParent
    <3> QED BY <2>3, <3>1
  <2>5. SetToSeq(Parent(list, Last(c))) = << >>
    <3> HIDE DEF c
    <3> QED BY <2>4, SeqOfNone, Zenon
  <2>6. c \o << >> = c
    <3> HIDE DEF c, S
    <3> QED BY <2>2
  <2> HIDE DEF c
  <2>7. Up(r, k, n) = c \o SetToSeq(Parent(list, Last(c)))
    BY <2>1, <2>5, <2>6, Zenon
  <2> QED BY <2>7, Zenon DEF c
<1> QED BY <1>1, <1>2, <1>3

\* walk is the recursive function behind Ancestors.
Walking(list, sp, limit, walk) ==
    walk = [n \in 0..limit |->
               IF n = 0 THEN <<sp>>
               ELSE walk[n - 1] \o SetToSeq(Parent(list, Last(walk[n - 1])))]

\* The callers of a span of a chain, innermost first, where the walk is long enough.
LEMMA AncestorsOf ==
    ASSUME NEW list \in Seq(Spans), UniqueIds(ToSet(list)), NEW r, Chained(ToSet(list), r),
           NEW k \in 1..Len(r), NEW limit \in Nat, k - 1 <= limit
    PROVE  Ancestors(list, r[k], limit) = [j \in 1..(k - 1) |-> r[k - j]]
<1> DEFINE S == ToSet(list)
           w == [n \in 0..limit |-> Up(r, k, n)]
<1>1. r \in Seq(S) /\ Len(r) \in Nat /\ k \in Nat /\ \A i \in 1..Len(r) : r[i] \in S
    BY DEF Chained
<1>2. Up(r, k, 0) = <<r[k]>>
  <2>1. Up(r, k, 0) = [j \in 1..1 |-> r[k + 1 - j]]
    BY <1>1 DEF Up, Smaller
  <2>2. \A j \in 1..1 : k + 1 - j = k
    BY <1>1
  <2>3. Up(r, k, 0) = [j \in 1..1 |-> r[k]]
    BY <2>1, <2>2
  <2> QED BY <2>3
<1>3. \A n \in 1..limit :
         Up(r, k, n) = Up(r, k, n - 1) \o SetToSeq(Parent(list, Last(Up(r, k, n - 1))))
  <2>1. \A n \in 1..limit : n \in Nat \ {0}
    OBVIOUS
  <2> QED BY <2>1, UpStep
<1>4. Walking(list, r[k], limit, w)
  <2>1. \A n \in 0..limit : n # 0 => n \in 1..limit /\ n - 1 \in 0..limit
    OBVIOUS
  <2>2. \A n \in 0..limit : n # 0 => w[n - 1] = Up(r, k, n - 1)
    BY <2>1
  <2>3. \A n \in 0..limit :
           Up(r, k, n) = IF n = 0 THEN <<r[k]>>
                         ELSE w[n - 1] \o SetToSeq(Parent(list, Last(w[n - 1])))
    <3> HIDE DEF w
    <3> QED BY <1>2, <1>3, <2>1, <2>2, Zenon
  <2>4. w = [n \in 0..limit |->
               IF n = 0 THEN <<r[k]>>
               ELSE w[n - 1] \o SetToSeq(Parent(list, Last(w[n - 1])))]
    BY <2>3, Zenon
  <2> QED BY <2>4, Zenon DEF Walking
<1> DEFINE g == CHOOSE walk : Walking(list, r[k], limit, walk)
<1>5. Walking(list, r[k], limit, g) /\ Ancestors(list, r[k], limit) = Tail(g[limit])
  <2> HIDE DEF w
  <2> QED BY <1>4, Zenon DEF Ancestors, Walking
<1> HIDE DEF g
<1> DEFINE Q == {n \in 0..limit : g[n] = Up(r, k, n)}
<1>6. 0 \in Q
  <2>1. 0 \in 0..limit
    OBVIOUS
  <2>2. g[0] = <<r[k]>>
    BY <1>5, <2>1, Zenon DEF Walking
  <2> QED BY <1>2, <2>1, <2>2, Zenon
<1>7. ASSUME NEW n \in 1..limit, n - 1 \in Q
      PROVE  n \in Q
  <2>1. n \in 0..limit /\ n # 0 /\ g[n - 1] = Up(r, k, n - 1)
    BY <1>7
  <2>2. g[n] = g[n - 1] \o SetToSeq(Parent(list, Last(g[n - 1])))
    BY <1>5, <2>1, Zenon DEF Walking
  <2> QED BY <1>3, <2>1, <2>2, Zenon
<1>8. g[limit] = Up(r, k, limit)
  <2> HIDE DEF Q
  <2>1. limit \in 0..limit /\ \A n \in 1..limit : n - 1 \in Q => n \in Q
    BY <1>7
  <2>2. \A n \in 0..limit : n \in Q
    BY <1>6, <2>1, Upward, Zenon
  <2> QED BY <2>1, <2>2, Zenon DEF Q
<1>9. Up(r, k, limit) = [j \in 1..k |-> r[k + 1 - j]]
    BY <1>1 DEF Up, Smaller
<1> DEFINE u == [j \in 1..k |-> r[k + 1 - j]]
<1>10. Tail(u) = [j \in 1..(k - 1) |-> r[k - j]]
  <2>1. u \in Seq(S) /\ Len(u) = k
    <3>1. u \in [1..k -> S]
      <4>1. \A j \in 1..k : k + 1 - j \in 1..Len(r)
        BY <1>1
      <4> HIDE DEF S
      <4> QED BY <1>1, <4>1
    <3> HIDE DEF u, S
    <3> QED BY <1>1, <3>1, FunSeq
  <2>2. \A j \in 1..(k - 1) : u[j + 1] = r[k - j]
    <3>1. \A j \in 1..(k - 1) : j + 1 \in 1..k /\ k + 1 - (j + 1) = k - j
      BY <1>1
    <3> QED BY <3>1
  <2> HIDE DEF u, S
  <2>3. Tail(u) \in Seq(S) /\ Len(Tail(u)) = k - 1 /\ \A j \in 1..(k - 1) : Tail(u)[j] = u[j + 1]
    <3>1. u # << >>
      BY <1>1, <2>1
    <3> QED BY <1>1, <2>1, <3>1
  <2>4. Tail(u) = [j \in 1..(k - 1) |-> Tail(u)[j]]
    BY <2>3, SeqFun
  <2> QED BY <2>2, <2>3, <2>4
<1> QED BY <1>5, <1>8, <1>9, <1>10, Zenon

\* The depth of a span of a chain.
LEMMA DepthOf ==
    ASSUME NEW list \in Seq(Spans), UniqueIds(ToSet(list)), NEW r, Chained(ToSet(list), r),
           Len(r) <= PathDepth + 1, NEW k \in 1..Len(r)
    PROVE  Depth(list, r[k]) = k - 1
<1> DEFINE S == ToSet(list)
           u == [j \in 1..(k - 1) |-> r[k - j]]
<1>1. r \in Seq(S) /\ Len(r) \in Nat /\ k - 1 \in Nat /\ PathDepth + 1 \in Nat
      /\ k - 1 <= PathDepth + 1
    BY QueriesAssumption DEF Chained
<1>2. \A j \in 1..(k - 1) : k - j \in 1..Len(r) /\ r[k - j] \in S
  <2>1. \A j \in 1..(k - 1) : k - j \in 1..Len(r)
    BY <1>1
  <2> HIDE DEF S
  <2> QED BY <1>1, <2>1
<1>3. u \in [1..(k - 1) -> S]
  <2> HIDE DEF S
  <2> QED BY <1>2
<1>4. Len(u) = k - 1
  <2> HIDE DEF u, S
  <2> QED BY <1>1, <1>3, FunSeq
<1>5. Ancestors(list, r[k], PathDepth + 1) = u
    BY <1>1, AncestorsOf
<1> QED BY <1>4, <1>5 DEF Depth

\* What is open on a thread at an instant is a chain.
OpenChain(S, r, t, when) ==
    \A x \in S : x.thread = t /\ OpenAt(x, when) <=> \E k \in 1..Len(r) : x = r[k]

\* Then the span taken for the innermost is the innermost.
LEMMA InnermostOf ==
    ASSUME NEW list \in Seq(Spans), UniqueIds(ToSet(list)), NEW r, Chained(ToSet(list), r),
           Len(r) <= PathDepth + 1, NEW t, NEW when, OpenChain(ToSet(list), r, t, when), r # << >>
    PROVE  Innermost(list, t, when) = r[Len(r)]
<1> DEFINE S == ToSet(list)
           m == Len(r)
           open == {i \in DOMAIN list : list[i].thread = t /\ OpenAt(list[i], when)}
           D(i) == Depth(list, list[i])
           Before(i, j) == \/ D(i) > D(j)
                           \/ D(i) = D(j) /\ list[i].start > list[j].start
                           \/ D(i) = D(j) /\ list[i].start = list[j].start /\ i < j
           best == CHOOSE i \in open : \A j \in open \ {i} : Before(i, j)
<1>1. r \in Seq(S) /\ m \in Nat /\ m \in 1..m /\ DOMAIN list = 1..Len(list) /\ Len(list) \in Nat
    BY DEF Chained
<1>2. \A i \in open : \E k \in 1..m : list[i] = r[k] /\ D(i) = k - 1
  <2>1. \A i \in open : list[i] \in S
    BY DEF ToSet
  <2>2. \A i \in open : \E k \in 1..m : list[i] = r[k]
    <3> HIDE DEF D, best, Before
    <3> QED BY <2>1 DEF OpenChain
  <2> QED BY <2>2, DepthOf
<1>3. \E i \in open : list[i] = r[m]
  <2>1. r[m] \in S
    <3>1. \A k \in 1..m : r[k] \in S
      BY <1>1
    <3> QED BY <1>1, <3>1
  <2>2. PICK i \in DOMAIN list : list[i] = r[m]
    BY <2>1 DEF ToSet
  <2>3. list[i].thread = t /\ OpenAt(list[i], when)
    <3>1. r[m].thread = t /\ OpenAt(r[m], when)
      BY <1>1, <2>1 DEF OpenChain
    <3> QED BY <2>2, <3>1
  <2> QED BY <2>2, <2>3
<1> DEFINE last == {i \in open : list[i] = r[m]}
<1>4. PICK i \in last : \A j \in last : i <= j
  <2>1. last \subseteq Nat /\ last # {}
    <3>1. open \subseteq Nat
      BY <1>1
    <3> HIDE DEF open
    <3> QED BY <1>3, <3>1
  <2> HIDE DEF last
  <2> QED BY <2>1, NatMin
<1>5. \A j \in open : j \in Nat /\ D(j) \in Nat
  <2> HIDE DEF D
  <2> QED BY <1>1, <1>2
<1>6. i \in open /\ list[i] = r[m] /\ D(i) = m - 1
  <2>1. i \in open /\ list[i] = r[m]
    BY <1>4
  <2> QED BY <1>1, <2>1, DepthOf
<1> HIDE DEF D, open
<1>7. \A j \in open \ {i} : Before(i, j)
  <2> SUFFICES ASSUME NEW j \in open, j # i PROVE Before(i, j)
    OBVIOUS
  <2>1. PICK k \in 1..m : list[j] = r[k] /\ D(j) = k - 1
    BY <1>2
  <2>2. CASE k = m
    <3>1. list[j] = list[i] /\ D(i) = D(j) /\ j \in last
      BY <1>6, <2>1, <2>2
    <3>2. i < j
      BY <1>1, <1>4, <1>5, <1>6, <3>1
    <3>3. list[i].start = list[j].start
      BY <3>1, Zenon
    <3> QED BY <3>1, <3>2, <3>3, Zenon
  <2>3. CASE k # m
    <3>1. D(i) > D(j)
      BY <1>1, <1>6, <2>1, <2>3
    <3> QED BY <3>1
  <2> QED BY <2>2, <2>3
<1>8. best \in open /\ \A j \in open \ {best} : Before(best, j)
  <2> HIDE DEF Before
  <2> QED BY <1>6, <1>7, Zenon
<1> HIDE DEF best
<1>9. list[best] = r[m]
  <2>1. PICK k \in 1..m : list[best] = r[k] /\ D(best) = k - 1
    BY <1>2, <1>8
  <2>2. SUFFICES ASSUME k # m PROVE FALSE
    BY <2>1
  <2>3. D(best) < D(i)
    BY <1>1, <1>6, <2>1, <2>2
  <2>4. best # i
    BY <1>5, <1>6, <2>3
  <2>5. Before(best, i)
    BY <1>6, <1>8, <2>4, Zenon
  <2> QED BY <1>5, <1>6, <1>8, <2>3, <2>5
<1>10. Innermost(list, t, when) = list[best]
    BY Zenon DEF Innermost, best, Before, open, D
<1> QED BY <1>9, <1>10

\* at_instant tells the names of such a chain, and nothing of a thread without one.
TellsNames(list, when, t, r) ==
    /\ t \in DOMAIN AtInstant(list, when) <=> r # << >>
    /\ r # << >> => AtInstant(list, when)[t] = [k \in 1..Len(r) |-> r[k].fn]

\* What is open being such a chain, that is its answer.
LEMMA InstantOf ==
    ASSUME NEW list \in Seq(Spans), UniqueIds(ToSet(list)), NEW r, Chained(ToSet(list), r),
           Len(r) <= PathDepth + 1, NEW t, NEW when, OpenChain(ToSet(list), r, t, when)
    PROVE  TellsNames(list, when, t, r)
<1> DEFINE S == ToSet(list)
           m == Len(r)
           T == {sp.thread : sp \in {x \in S : OpenAt(x, when)}}
           names(sp) == <<sp>> \o Ancestors(list, sp, PathDepth)
           answer(sp) == Reverse([i \in DOMAIN names(sp) |-> names(sp)[i].fn])
<1>1. r \in Seq(S) /\ m \in Nat /\ PathDepth \in Nat /\ \A k \in 1..m : r[k] \in S
    BY QueriesAssumption DEF Chained
<1>2. AtInstant(list, when) = [u \in T |-> answer(Innermost(list, u, when))]
    BY Zenon DEF AtInstant
<1>3. t \in T <=> r # << >>
  <2>1. ASSUME t \in T PROVE r # << >>
    <3>1. PICK x \in S : x.thread = t /\ OpenAt(x, when)
      BY <2>1
    <3>2. \E k \in 1..m : x = r[k]
      BY <3>1 DEF OpenChain
    <3> QED BY <3>2
  <2>2. ASSUME r # << >> PROVE t \in T
    <3>1. 1 \in 1..m
      BY <1>1, <2>2
    <3>2. r[1] \in S
      BY <1>1, <3>1
    <3>3. r[1].thread = t /\ OpenAt(r[1], when)
      BY <3>1, <3>2 DEF OpenChain
    <3> QED BY <3>2, <3>3
  <2> QED BY <2>1, <2>2
<1>4. ASSUME r # << >>
      PROVE  answer(r[m]) = [k \in 1..m |-> r[k].fn]
  <2> DEFINE a == [j \in 1..(m - 1) |-> r[m - j]]
             v == [j \in 1..m |-> r[m + 1 - j]]
  <2>1. m \in 1..m /\ m - 1 \in Nat /\ m - 1 <= PathDepth
    BY <1>1, <1>4
  <2>2. Ancestors(list, r[m], PathDepth) = a
    <3> HIDE DEF a
    <3>1. Ancestors(list, r[m], PathDepth) = [j \in 1..(m - 1) |-> r[m - j]]
      BY <1>1, <2>1, AncestorsOf
    <3> QED BY <3>1 DEF a
  <2>3. a \in Seq(S) /\ Len(a) = m - 1
    <3>1. \A j \in 1..(m - 1) : m - j \in 1..m
      BY <2>1
    <3>2. a \in [1..(m - 1) -> S]
      <4> HIDE DEF S, m
      <4> QED BY <1>1, <3>1
    <3> HIDE DEF a, S, m
    <3> QED BY <2>1, <3>2, FunSeq
  <2>4. <<r[m]>> \o a = v
    <3> DEFINE d == <<r[m]>> \o a
    <3>1. d \in Seq(S) /\ Len(d) = m /\ d[1] = r[m] /\ \A j \in 2..m : d[j] = a[j - 1]
      <4>1. r[m] \in S
        BY <1>1, <2>1
      <4> HIDE DEF a, S, m
      <4> QED BY <2>1, <2>3, <4>1
    <3>2. \A j \in 2..m : a[j - 1] = r[m + 1 - j]
      <4>1. \A j \in 2..m : j - 1 \in 1..(m - 1) /\ m - (j - 1) = m + 1 - j
        BY <1>1
      <4> QED BY <4>1
    <3>3. \A j \in 1..m : d[j] = r[m + 1 - j]
      <4>1. \A j \in 1..m : j = 1 \/ j \in 2..m
        BY <1>1
      <4>2. m + 1 - 1 = m
        BY <1>1
      <4> HIDE DEF d, a, m, S
      <4>3. \A j \in 2..m : d[j] = r[m + 1 - j]
        BY <3>1, <3>2
      <4>4. d[1] = r[m + 1 - 1]
        BY <3>1, <4>2
      <4> QED BY <4>1, <4>3, <4>4, Zenon
    <3> HIDE DEF d
    <3>4. d = [j \in 1..m |-> d[j]]
      <4> HIDE DEF S, m
      <4> QED BY <3>1, SeqFun
    <3>5. d = v
      BY <3>3, <3>4
    <3> QED BY <3>5 DEF d
  <2>5. names(r[m]) = v
    <3> HIDE DEF v, a
    <3> QED BY <2>2, <2>4
  <2>6. answer(r[m]) = Reverse([i \in DOMAIN v |-> v[i].fn])
    <3> HIDE DEF v, names
    <3> QED BY <2>5
  <2> DEFINE f == [i \in 1..m |-> r[m + 1 - i].fn]
  <2>7. [i \in DOMAIN v |-> v[i].fn] = f
    OBVIOUS
  <2>8. f \in Seq(Names) /\ Len(f) = m
    <3>1. \A i \in 1..m : m + 1 - i \in 1..m
      BY <1>1
    <3>2. \A x \in S : x.fn \in Names
      <4>1. S \subseteq Spans
        BY DEF ToSet
      <4> HIDE DEF S
      <4> QED BY <4>1 DEF Spans
    <3>3. f \in [1..m -> Names]
      <4> HIDE DEF S, m
      <4> QED BY <1>1, <3>1, <3>2
    <3> HIDE DEF f, m
    <3> QED BY <1>1, <3>3, FunSeq
  <2>9. Reverse(f) = [i \in 1..m |-> f[(m - i) + 1]]
    <3> HIDE DEF f
    <3> QED BY <2>8 DEF Reverse
  <2>10. \A i \in 1..m : f[(m - i) + 1] = r[i].fn
    <3>1. \A i \in 1..m : (m - i) + 1 \in 1..m /\ m + 1 - ((m - i) + 1) = i
      BY <1>1
    <3> HIDE DEF m
    <3> QED BY <3>1
  <2> HIDE DEF f, v, answer, m
  <2>11. Reverse(f) = [i \in 1..m |-> r[i].fn]
    BY <2>9, <2>10
  <2> QED BY <2>6, <2>7, <2>11
<1>5. ASSUME r # << >>
      PROVE  AtInstant(list, when)[t] = [k \in 1..m |-> r[k].fn]
  <2>1. Innermost(list, t, when) = r[m]
    BY <1>5, InnermostOf
  <2> HIDE DEF T, answer, m
  <2> QED BY <1>2, <1>3, <1>4, <1>5, <2>1
<1>6. DOMAIN AtInstant(list, when) = T
  <2> HIDE DEF T, answer
  <2> QED BY <1>2
<1> HIDE DEF T
<1> QED BY <1>3, <1>5, <1>6, Zenon DEF TellsNames

-----------------------------------------------------------------------------
\* All but the last of a sequence, and the last.
LEMMA FrontFacts ==
    ASSUME NEW X, NEW s \in Seq(X), s # << >>
    PROVE  /\ Front(s) \in Seq(X) /\ Len(Front(s)) = Len(s) - 1 /\ Len(s) \in Nat \ {0}
           /\ \A i \in 1..(Len(s) - 1) : Front(s)[i] = s[i]
           /\ Last(s) = s[Len(s)] /\ Last(s) \in X
<1> DEFINE k == Len(s) - 1
<1>1. k \in Nat /\ 0 + k <= Len(s) /\ 0 + 1 = 1 /\ 0 + k = k /\ Len(s) \in Nat \ {0}
    OBVIOUS
<1> HIDE DEF k
<1>2. IsPart(X, s, 0, k, SubSeq(s, 0 + 1, 0 + k))
  <2>1. 0 \in Nat
    OBVIOUS
  <2> QED BY <1>1, <2>1, PartSeq, Zenon
<1>3. Front(s) = SubSeq(s, 0 + 1, 0 + k)
    BY <1>1, Zenon DEF Front, k
<1>4. Front(s) \in Seq(X) /\ Len(Front(s)) = k /\ \A i \in 1..k : Front(s)[i] = s[0 + i]
    BY <1>2, <1>3, Zenon DEF IsPart
<1>5. \A i \in 1..k : 0 + i = i
    OBVIOUS
<1>6. Last(s) = s[Len(s)] /\ Last(s) \in X
    BY <1>1 DEF Last
<1> QED BY <1>1, <1>4, <1>5, <1>6 DEF k

\* The elements of a sequence with one more.
LEMMA SetOfAppend ==
    ASSUME NEW X, NEW s \in Seq(X), NEW x
    PROVE  ToSet(Append(s, x)) = ToSet(s) \union {x}
<1>1. Len(s) \in Nat /\ DOMAIN s = 1..Len(s) /\ Len(s) + 1 \notin 1..Len(s)
    OBVIOUS
<1> DEFINE u == Append(s, x)
<1>2. DOMAIN u = (1..Len(s)) \union {Len(s) + 1} /\ u[Len(s) + 1] = x
      /\ \A i \in 1..Len(s) : u[i] = s[i]
    BY <1>1
<1> HIDE DEF u
<1>3. ToSet(u) = ToSet(s) \union {x}
    BY <1>1, <1>2 DEF ToSet
<1> QED BY <1>3 DEF u

\* The elements of two sequences in a row.
LEMMA SetOfJoin ==
    ASSUME NEW X, NEW s \in Seq(X), NEW u \in Seq(X)
    PROVE  ToSet(s \o u) = ToSet(s) \union ToSet(u)
<1> DEFINE w == s \o u
<1>1. /\ Len(s) \in Nat /\ Len(u) \in Nat /\ DOMAIN s = 1..Len(s) /\ DOMAIN u = 1..Len(u)
      /\ DOMAIN w = 1..(Len(s) + Len(u))
      /\ \A i \in 1..Len(s) : w[i] = s[i]
      /\ \A i \in 1..Len(u) : w[Len(s) + i] = u[i]
    OBVIOUS
<1> HIDE DEF w
<1>2. \A i \in 1..(Len(s) + Len(u)) : i \in 1..Len(s) \/ \E j \in 1..Len(u) : i = Len(s) + j
  <2> TAKE i \in 1..(Len(s) + Len(u))
  <2>1. CASE i <= Len(s)
    BY <1>1, <2>1
  <2>2. CASE i > Len(s)
    <3>1. i - Len(s) \in 1..Len(u) /\ i = Len(s) + (i - Len(s))
      BY <1>1, <2>2
    <3> QED BY <3>1
  <2> QED BY <1>1, <2>1, <2>2
<1>3. \A i \in 1..Len(s) : i \in 1..(Len(s) + Len(u))
    BY <1>1
<1>4. \A j \in 1..Len(u) : Len(s) + j \in 1..(Len(s) + Len(u))
    BY <1>1
<1>5. ToSet(w) \subseteq ToSet(s) \union ToSet(u)
  <2> SUFFICES ASSUME NEW i \in 1..(Len(s) + Len(u)) PROVE w[i] \in ToSet(s) \union ToSet(u)
    BY <1>1 DEF ToSet
  <2>1. CASE i \in 1..Len(s)
    BY <1>1, <2>1 DEF ToSet
  <2>2. ASSUME NEW j \in 1..Len(u), i = Len(s) + j PROVE w[i] \in ToSet(u)
    BY <1>1, <2>2 DEF ToSet
  <2> QED BY <1>2, <2>1, <2>2
<1>6. ToSet(s) \subseteq ToSet(w)
    BY <1>1, <1>3 DEF ToSet
<1>7. ToSet(u) \subseteq ToSet(w)
    BY <1>1, <1>4 DEF ToSet
<1>8. ToSet(w) = ToSet(s) \union ToSet(u)
    BY <1>5, <1>6, <1>7, Zenon
<1> QED BY <1>8, Zenon DEF w

\* What is open ends as its spans.
LEMMA SetOfEnded ==
    ASSUME CallsType, NEW t \in Threads, NEW comp
    PROVE  ToSet(Ended(t, comp)) = {SpanOf(t, frames[t][i], None, comp) : i \in 1..Len(frames[t])}
<1> DEFINE fs == frames[t]
           n == Len(fs)
           part == [i \in DOMAIN fs |-> SpanOf(t, fs[i], None, comp)]
<1>1. n \in Nat /\ DOMAIN fs = 1..n
    BY DEF CallsType
<1> HIDE DEF fs
<1>2. DOMAIN part = 1..n /\ Len(part) = n /\ \A i \in 1..n : part[i] = SpanOf(t, fs[i], None, comp)
  <2>1. part \in Seq({SpanOf(t, fs[i], None, comp) : i \in 1..n})
    BY <1>1
  <2> QED BY <1>1, <2>1
<1>3. \A i \in 1..n : (n - i) + 1 \in 1..n /\ (n - ((n - i) + 1)) + 1 = i
    BY <1>1
<1> DEFINE rev == Reverse(part)
<1>4. DOMAIN rev = 1..n /\ \A i \in 1..n : rev[i] = part[(n - i) + 1]
  <2> HIDE DEF part, n
  <2> QED BY <1>2 DEF Reverse
<1> HIDE DEF rev, part, n
<1>5. ToSet(rev) = {rev[i] : i \in 1..n}
    BY <1>4 DEF ToSet
<1>6. ToSet(rev) = {SpanOf(t, fs[i], None, comp) : i \in 1..n}
  <2>1. \A i \in 1..n : rev[i] = SpanOf(t, fs[(n - i) + 1], None, comp)
    BY <1>2, <1>3, <1>4, Zenon
  <2>2. \A i \in 1..n : rev[(n - i) + 1] = SpanOf(t, fs[i], None, comp)
    BY <1>3, <2>1, Zenon
  <2> QED BY <1>3, <1>5, <2>1, <2>2
<1> QED BY <1>6, Zenon DEF Ended, rev, part, n, fs

\* Where an element is put into a sequence.
LEMMA PlaceIn ==
    ASSUME NEW X, NEW l \in Seq(X), NEW x, NEW before
    PROVE  Cardinality({i \in DOMAIN l : <<x, l[i]>> \notin before}) \in 0..Len(l)
<1> DEFINE K == {i \in DOMAIN l : <<x, l[i]>> \notin before}
<1>1. IsFiniteSet(1..Len(l)) /\ Cardinality(1..Len(l)) = Len(l) /\ Len(l) \in Nat
    BY LenInterval
<1>2. K \in SUBSET (1..Len(l))
    OBVIOUS
<1> HIDE DEF K
<1>3. IsFiniteSet(K) /\ Cardinality(K) <= Cardinality(1..Len(l))
    BY <1>1, <1>2, FS_Subset, Zenon
<1>4. Cardinality(K) \in Nat
    BY <1>3, FS_CardinalityType, Zenon
<1>5. Cardinality(K) \in 0..Len(l)
    BY <1>1, <1>3, <1>4
<1> QED BY <1>5 DEF K

\* Putting it there adds it.
LEMMA SetOfInsert ==
    ASSUME NEW X, NEW l \in Seq(X), NEW x \in X, NEW k \in 0..Len(l)
    PROVE  ToSet(InsertAt(l, 1 + k, x)) = ToSet(l) \union {x}
<1> DEFINE n == Len(l)
           m == n - k
           low == SubSeq(l, 0 + 1, 0 + k)
           high == SubSeq(l, k + 1, k + m)
<1>1. n \in Nat /\ k \in Nat /\ m \in Nat /\ 0 + k <= n /\ k + m = n /\ 0 + 1 = 1 /\ 0 + k = k
      /\ (1 + k) - 1 = k /\ 1 + k = k + 1 /\ 0 \in Nat /\ k + m <= n
    OBVIOUS
<1>2. InsertAt(l, 1 + k, x) = low \o <<x>> \o high
    BY <1>1, Zenon DEF InsertAt
<1> HIDE DEF m
<1>3. IsPart(X, l, 0, k, low)
    BY <1>1, PartSeq, Zenon
<1>4. IsPart(X, l, k, m, high)
    BY <1>1, PartSeq, Zenon
<1> HIDE DEF low, high, n
<1>5. low \in Seq(X) /\ Len(low) = k /\ \A i \in 1..k : low[i] = l[i]
  <2>1. \A i \in 1..k : 0 + i = i
    BY <1>1
  <2> QED BY <1>3, <2>1, Zenon DEF IsPart
<1>6. high \in Seq(X) /\ Len(high) = m /\ \A i \in 1..m : high[i] = l[k + i]
    BY <1>4, Zenon DEF IsPart
<1>7. <<x>> \in Seq(X) /\ low \o <<x>> \in Seq(X) /\ ToSet(<<x>>) = {x}
    BY <1>5 DEF ToSet
<1>8. ToSet(low \o <<x>> \o high) = (ToSet(low) \union {x}) \union ToSet(high)
  <2>1. PICK one : one = <<x>>
    OBVIOUS
  <2>2. PICK left : left = low \o one
    OBVIOUS
  <2>3. one \in Seq(X) /\ ToSet(one) = {x} /\ left \in Seq(X)
    BY <1>7, <2>1, <2>2
  <2>4. ToSet(left) = ToSet(low) \union ToSet(one)
    <3>1. ToSet(low \o one) = ToSet(low) \union ToSet(one)
      BY <1>5, <2>3, SetOfJoin
    <3> QED BY <2>2, <3>1
  <2>5. ToSet(left \o high) = ToSet(left) \union ToSet(high)
    BY <1>6, <2>3, SetOfJoin
  <2>6. ToSet(left \o high) = (ToSet(low) \union {x}) \union ToSet(high)
    BY <2>3, <2>4, <2>5, Zenon
  <2> QED BY <2>1, <2>2, <2>6, Zenon
<1>9. DOMAIN low = 1..k /\ DOMAIN high = 1..m /\ DOMAIN l = 1..n
    BY <1>5, <1>6 DEF n
<1>10. \A i \in 1..k : i \in 1..n
    BY <1>1
<1>11. \A i \in 1..m : k + i \in 1..n
    BY <1>1
<1>12. \A i \in 1..n : i \in 1..k \/ \E j \in 1..m : i = k + j
  <2> TAKE i \in 1..n
  <2>1. CASE i <= k
    BY <1>1, <2>1
  <2>2. CASE i > k
    <3>1. i - k \in 1..m /\ i = k + (i - k)
      BY <1>1, <2>2
    <3> QED BY <3>1
  <2> QED BY <1>1, <2>1, <2>2
<1>13. ToSet(low) \subseteq ToSet(l)
    BY <1>5, <1>9, <1>10 DEF ToSet
<1>14. ToSet(high) \subseteq ToSet(l)
    BY <1>6, <1>9, <1>11 DEF ToSet
<1>15. ToSet(l) \subseteq ToSet(low) \union ToSet(high)
  <2> SUFFICES ASSUME NEW i \in 1..n PROVE l[i] \in ToSet(low) \union ToSet(high)
    BY <1>9 DEF ToSet
  <2>1. CASE i \in 1..k
    BY <1>5, <1>9, <2>1 DEF ToSet
  <2>2. ASSUME NEW j \in 1..m, i = k + j PROVE l[i] \in ToSet(high)
    BY <1>6, <1>9, <2>2 DEF ToSet
  <2> QED BY <1>12, <2>1, <2>2
<1>16. (ToSet(low) \union {x}) \union ToSet(high) = ToSet(l) \union {x}
    BY <1>13, <1>14, <1>15, Zenon
<1> QED BY <1>2, <1>8, <1>16, Zenon

\* A sequence is one of its own elements.
LEMMA OwnElements ==
    ASSUME NEW X, NEW s \in Seq(X)
    PROVE  s \in Seq(ToSet(s)) /\ DOMAIN s = 1..Len(s) /\ Len(s) \in Nat
<1>1. DOMAIN s = 1..Len(s) /\ Len(s) \in Nat /\ s = [i \in 1..Len(s) |-> s[i]]
    BY SeqFun
<1>2. s \in [1..Len(s) -> ToSet(s)]
  <2>1. \A i \in 1..Len(s) : s[i] \in ToSet(s)
    BY <1>1 DEF ToSet
  <2> QED BY <1>1, <2>1
<1> QED BY <1>1, <1>2, FunSeq

\* Sorting neither loses nor adds an element.
LEMMA SetOfSorted ==
    ASSUME NEW X, NEW list \in Seq(X), NEW before
    PROVE  ToSet(Sorted(list, before)) = ToSet(list)
<1> DEFINE S == ToSet(list)
           n == Len(list)
<1>1. list \in Seq(S) /\ DOMAIN list = 1..n /\ n \in Nat
    BY OwnElements
<1>2. \A i \in 1..n : list[i] \in S
    BY <1>1 DEF ToSet
<1>3. PICK first : /\ Sorting(list, before, first)
                   /\ \A i \in 0..n : first[i] \in Seq(S)
                   /\ Sorted(list, before) = first[n]
  <2> HIDE DEF S
  <2> QED BY <1>1, SortedBy
<1> HIDE DEF S
<1> DEFINE Q == {i \in 0..n : \A j \in 1..i : list[j] \in ToSet(first[i])}
<1>4. 0 \in Q
    BY <1>1
<1>5. ASSUME NEW i \in 1..n, i - 1 \in Q
      PROVE  i \in Q
  <2> DEFINE l == first[i - 1]
             k == Cardinality({p \in DOMAIN l : <<list[i], l[p]>> \notin before})
  <2>1. i \in 0..n /\ i # 0 /\ i - 1 \in 0..n
    BY <1>1
  <2>2. l \in Seq(S) /\ list[i] \in S /\ \A j \in 1..(i - 1) : list[j] \in ToSet(l)
    BY <1>2, <1>3, <1>5, <2>1
  <2>3. first[i] = InsertAt(l, 1 + k, list[i])
    BY <1>3, <2>1, Zenon DEF Sorting
  <2>4. k \in 0..Len(l)
    <3> HIDE DEF l
    <3> QED BY <2>2, PlaceIn
  <2> HIDE DEF l, k
  <2>5. ToSet(first[i]) = ToSet(l) \union {list[i]}
    <3>1. ToSet(InsertAt(l, 1 + k, list[i])) = ToSet(l) \union {list[i]}
      BY <2>2, <2>4, SetOfInsert
    <3> QED BY <2>3, <3>1, Zenon
  <2>6. \A j \in 1..i : j = i \/ j \in 1..(i - 1)
    BY <1>1
  <2>7. \A j \in 1..i : list[j] \in ToSet(first[i])
    BY <2>2, <2>5, <2>6
  <2> QED BY <2>1, <2>7
<1>6. \A i \in 0..n : i \in Q
  <2> HIDE DEF Q, n
  <2>1. \A i \in 1..n : i - 1 \in Q => i \in Q
    BY <1>5
  <2> QED BY <1>1, <1>4, <2>1, Upward, Zenon
<1>7. n \in 0..n
    BY <1>1
<1>8. \A j \in 1..n : list[j] \in ToSet(first[n])
    BY <1>6, <1>7
<1>9. ToSet(first[n]) \subseteq S
  <2>1. first[n] \in Seq(S)
    BY <1>3, <1>7
  <2> QED BY <2>1 DEF ToSet
<1>10. S \subseteq ToSet(first[n])
    BY <1>1, <1>8 DEF S, ToSet
<1>11. ToSet(first[n]) = S
    BY <1>9, <1>10, Zenon
<1> QED BY <1>3, <1>11, Zenon DEF S

\* Flattening neither loses nor adds an element.
LEMMA SetOfFlatten ==
    ASSUME NEW X, NEW ss \in Seq(Seq(X))
    PROVE  ToSet(FlattenSeq(ss)) = UNION {ToSet(ss[i]) : i \in 1..Len(ss)}
<1> DEFINE n == Len(ss)
           S == UNION {ToSet(ss[i]) : i \in 1..n}
<1>1. n \in Nat /\ DOMAIN ss = 1..n /\ \A i \in 1..n : ss[i] \in Seq(X)
    OBVIOUS
<1>2. \A i \in 1..n : ss[i] \in Seq(S)
  <2> TAKE i \in 1..n
  <2>1. ss[i] \in Seq(ToSet(ss[i]))
    BY <1>1, OwnElements
  <2>2. ToSet(ss[i]) \subseteq S
    OBVIOUS
  <2> HIDE DEF S
  <2> QED BY <2>1, <2>2
<1>3. ss \in Seq(Seq(S))
  <2> HIDE DEF S
  <2>1. ss = [i \in 1..n |-> ss[i]]
    BY SeqFun
  <2>2. ss \in [1..n -> Seq(S)]
    BY <1>2, <2>1
  <2> HIDE DEF n
  <2> QED BY <1>1, <2>2, FunSeq
<1>4. CASE n = 0
  <2>1. ss = << >> /\ FlattenSeq(ss) = << >>
    BY <1>1, <1>4 DEF FlattenSeq
  <2>2. S = {}
    BY <1>4
  <2>3. ToSet(FlattenSeq(ss)) = {}
    BY <2>1 DEF ToSet
  <2> QED BY <2>2, <2>3
<1>5. CASE n # 0
  <2>1. PICK f : /\ Flattening(ss, f)
                 /\ \A i \in 1..n : f[i] \in Seq(S)
                 /\ FlattenSeq(ss) = f[n]
    <3> HIDE DEF S
    <3> QED BY <1>3, <1>5, FlattenedBy
  <2> DEFINE Q == {i \in 0..n : \A j \in 1..i : ToSet(ss[j]) \subseteq ToSet(f[i])}
  <2> HIDE DEF S
  <2>2. 0 \in Q
    BY <1>1
  <2>3. ASSUME NEW i \in 1..n, i - 1 \in Q
        PROVE  i \in Q
    <3>1. i \in 0..n /\ i - 1 \in 0..n /\ \A j \in 1..i : j = i \/ j \in 1..(i - 1)
      BY <1>1
    <3>2. f[i] = IF i = 1 THEN ss[i] ELSE f[i - 1] \o ss[i]
      BY <2>1, Zenon DEF Flattening
    <3>3. CASE i = 1
      <4>1. \A j \in 1..i : j = i
        BY <3>3
      <4>2. f[i] = ss[i]
        BY <3>2, <3>3
      <4>3. \A j \in 1..i : ToSet(ss[j]) \subseteq ToSet(f[i])
        BY <4>1, <4>2
      <4> QED BY <3>1, <4>3
    <3>4. CASE i # 1
      <4>1. i - 1 \in 1..n /\ f[i] = f[i - 1] \o ss[i]
        BY <1>1, <3>2, <3>4
      <4>2. f[i - 1] \in Seq(S) /\ ss[i] \in Seq(S)
        BY <1>2, <2>1, <4>1
      <4>3. ToSet(f[i]) = ToSet(f[i - 1]) \union ToSet(ss[i])
        <5>1. ToSet(f[i - 1] \o ss[i]) = ToSet(f[i - 1]) \union ToSet(ss[i])
          BY <4>2, SetOfJoin
        <5> QED BY <4>1, <5>1, Zenon
      <4>4. \A j \in 1..(i - 1) : ToSet(ss[j]) \subseteq ToSet(f[i - 1])
        BY <2>3
      <4>5. \A j \in 1..i : ToSet(ss[j]) \subseteq ToSet(f[i])
        BY <3>1, <4>3, <4>4
      <4> QED BY <3>1, <4>5
    <3> QED BY <3>3, <3>4
  <2>4. \A i \in 0..n : i \in Q
    <3> HIDE DEF Q, n
    <3>1. \A i \in 1..n : i - 1 \in Q => i \in Q
      BY <2>3
    <3> QED BY <1>1, <2>2, <3>1, Upward, Zenon
  <2>5. n \in 0..n /\ n \in 1..n
    BY <1>1, <1>5
  <2>6. \A j \in 1..n : ToSet(ss[j]) \subseteq ToSet(f[n])
    BY <2>4, <2>5
  <2>7. ToSet(f[n]) \subseteq S
    <3>1. f[n] \in Seq(S)
      BY <2>1, <2>5
    <3> QED BY <3>1 DEF ToSet
  <2>8. S \subseteq ToSet(f[n])
    BY <2>6 DEF S
  <2>9. ToSet(f[n]) = S
    BY <2>7, <2>8, Zenon
  <2> QED BY <2>1, <2>9, Zenon DEF S
<1> QED BY <1>4, <1>5

-----------------------------------------------------------------------------
\* The spans of thread t as they stand with the frames fr and the emitted spans S: what
\* is open ends as at the end of its history.
OpenSpans(fr, t, comp) == {SpanOf(t, fr[t][i], None, comp) : i \in 1..Len(fr[t])}
Items(fr, S, t) == {x \in S : x.thread = t} \union OpenSpans(fr, t, "open_end")

\* Each frame is called by the one below it.
Stack(fs, ck) ==
    /\ Len(fs) <= MaxStack
    /\ \A i \in 1..Len(fs) : /\ fs[i].start <= ck
                            /\ fs[i].parent = IF i = 1 THEN None ELSE fs[i - 1].id

Stacked(fr, ck) == \A t \in Threads : Stack(fr[t], ck)

\* No id is given twice.
FramesDiffer(fr) ==
    \A t, u \in Threads : \A i \in 1..Len(fr[t]), j \in 1..Len(fr[u]) :
        fr[t][i].id = fr[u][j].id => t = u /\ i = j

FramesAreNew(fr, S, nx) ==
    \A t \in Threads : \A i \in 1..Len(fr[t]) :
        fr[t][i].id < nx /\ \A x \in S : x.id # fr[t][i].id

Distinct(fr, S, nx) ==
    /\ UniqueIds(S) /\ \A x \in S : x.id < nx
    /\ FramesAreNew(fr, S, nx) /\ FramesDiffer(fr)

Good(fr, S, nx, ck) ==
    /\ fr \in [Threads -> Seq(Frames)] /\ S \subseteq Spans /\ nx \in Nat /\ ck \in Nat
    /\ Stacked(fr, ck) /\ Distinct(fr, S, nx)

\* y is the span x, told at another time: until c they were open together.
Alike(x, y, c) == /\ x.id = y.id /\ x.fn = y.fn /\ x.parent = y.parent
                  /\ \A now \in 0..(c - 1) : OpenAt(x, now) <=> OpenAt(y, now)

Later(y, c) == \A now \in 0..(c - 1) : ~OpenAt(y, now)

Progress(I, J, c) == /\ \A x \in I : \E y \in J : Alike(x, y, c)
                     /\ \A y \in J : Later(y, c) \/ \E x \in I : Alike(x, y, c)

\* What a step does to the spans of a thread may be done in two steps.
LEMMA ProgressTwice ==
    ASSUME NEW I, NEW J, NEW K, NEW c, Progress(I, J, c), Progress(J, K, c)
    PROVE  Progress(I, K, c)
<1>1. ASSUME NEW x, NEW y, NEW z, Alike(x, y, c), Alike(y, z, c)
      PROVE  Alike(x, z, c)
    BY <1>1, Zenon DEF Alike
<1>2. ASSUME NEW x, NEW y, Later(x, c), Alike(x, y, c)
      PROVE  Later(y, c)
    BY <1>2, Zenon DEF Alike, Later
<1>3. \A x \in I : \E z \in K : Alike(x, z, c)
  <2> TAKE x \in I
  <2>1. PICK y \in J : Alike(x, y, c)
    BY Zenon DEF Progress
  <2>2. PICK z \in K : Alike(y, z, c)
    BY Zenon DEF Progress
  <2> QED BY <1>1, <2>1, <2>2, Zenon
<1>4. \A y \in K : Later(y, c) \/ \E x \in I : Alike(x, y, c)
    BY <1>1, <1>2, Zenon DEF Progress
<1> QED BY <1>3, <1>4, Zenon DEF Progress

\* Nothing happens to the spans of a thread.
LEMMA ProgressNone ==
    ASSUME NEW I, NEW c
    PROVE  Progress(I, I, c)
<1>1. \A x : Alike(x, x, c)
    BY Zenon DEF Alike
<1> QED BY <1>1, Zenon DEF Progress

\* The spans r of I are those that were open at an instant, and have these names.
IsPast(I, now, r, names) ==
    /\ Chained(I, r) /\ Len(r) <= MaxStack
    /\ \A x \in I : OpenAt(x, now) <=> \E k \in 1..Len(r) : x = r[k]
    /\ names = [k \in 1..Len(r) |-> r[k].fn]

\* What was open at an instant of the past remains that.
LEMMA PastKept ==
    ASSUME NEW I, NEW J, NEW c, Progress(I, J, c), UniqueIds(J), NEW now \in 0..(c - 1),
           NEW r, NEW names, IsPast(I, now, r, names)
    PROVE  \E q : IsPast(J, now, q, names)
<1> DEFINE n == Len(r)
           q == [k \in 1..n |-> CHOOSE y \in J : Alike(r[k], y, c)]
<1>1. r \in Seq(I) /\ n \in Nat /\ \A k \in 1..n : r[k] \in I
    BY DEF IsPast, Chained
<1>2. \A k \in 1..n : q[k] \in J /\ Alike(r[k], q[k], c)
    BY <1>1, Zenon DEF Progress
<1>0. q = [k \in 1..n |-> q[k]]
    OBVIOUS
<1> HIDE DEF q
<1>3. q \in Seq(J) /\ Len(q) = n
  <2>1. q = [k \in 1..n |-> q[k]]
    BY <1>0
  <2>2. q \in [1..n -> J]
    <3> HIDE DEF n
    <3> QED BY <1>2, <2>1
  <2> HIDE DEF n
  <2> QED BY <1>1, <2>2, FunSeq
<1>4. \A k \in 1..n : q[k].parent = IF k = 1 THEN None ELSE q[k - 1].id
  <2> TAKE k \in 1..n
  <2>1. r[k].parent = IF k = 1 THEN None ELSE r[k - 1].id
    BY Zenon DEF IsPast, Chained
  <2>2. q[k].parent = r[k].parent
    BY <1>2, Zenon DEF Alike
  <2>3. k # 1 => k - 1 \in 1..n
    BY <1>1
  <2>4. k # 1 => q[k - 1].id = r[k - 1].id
    BY <1>2, <2>3, Zenon DEF Alike
  <2> QED BY <2>1, <2>2, <2>4, Zenon
<1>5. \A k \in 1..n : OpenAt(r[k], now)
    BY <1>1, Zenon DEF IsPast
<1>6. ASSUME NEW y \in J
      PROVE  OpenAt(y, now) <=> \E k \in 1..n : y = q[k]
  <2>1. ASSUME OpenAt(y, now) PROVE \E k \in 1..n : y = q[k]
    <3>1. PICK x \in I : Alike(x, y, c)
      BY <2>1, Zenon DEF Progress, Later
    <3>2. PICK k \in 1..n : x = r[k]
      BY <2>1, <3>1, Zenon DEF Alike, IsPast
    <3>3. y.id = q[k].id /\ q[k] \in J
      BY <1>2, <3>1, <3>2, Zenon DEF Alike
    <3> QED BY <3>3, Zenon DEF UniqueIds
  <2>2. ASSUME NEW k \in 1..n, y = q[k] PROVE OpenAt(y, now)
    BY <1>2, <1>5, <2>2, Zenon DEF Alike
  <2> QED BY <2>1, <2>2, Zenon
<1>7. names = [k \in 1..n |-> q[k].fn]
  <2>1. \A k \in 1..n : q[k].fn = r[k].fn
    BY <1>2, Zenon DEF Alike
  <2>2. names = [k \in 1..n |-> r[k].fn]
    BY Zenon DEF IsPast
  <2> HIDE DEF n
  <2> QED BY <2>1, <2>2
<1>8. n <= MaxStack
    BY Zenon DEF IsPast
<1> HIDE DEF n
<1>9. 1..n = 1..Len(q) /\ Len(q) <= MaxStack /\ q \in Seq(J)
    BY <1>3, <1>8
<1>10. Chained(J, q)
    BY <1>4, <1>9, Zenon DEF Chained
<1>11. IsPast(J, now, q, names)
    BY <1>6, <1>7, <1>9, <1>10, Zenon DEF IsPast
<1> QED BY <1>11, Zenon

\* The fields of a span.
IsSpan(x, t, f, end) ==
    /\ x.id = f.id /\ x.thread = t /\ x.fn = f.fn /\ x.parent = f.parent
    /\ x.start = f.start /\ x.end = end

\* A span has the fields of its frame.
LEMMA SpanFields ==
    ASSUME NEW t, NEW f, NEW end, NEW comp
    PROVE  IsSpan(SpanOf(t, f, end, comp), t, f, end)
    BY DEF SpanOf, IsSpan

\* The span of a frame is a span.
LEMMA SpanTyped ==
    ASSUME NEW t \in Threads, NEW f \in Frames, NEW end \in Nat \union {None},
           NEW comp \in {"complete", "open_both", "uncertain", "interrupted", "open_end"}
    PROVE  SpanOf(t, f, end, comp) \in Spans
    BY DEF SpanOf, Frames, Spans

\* What a thread has still open.
LEMMA OpenSpansIn ==
    ASSUME NEW fr, NEW S, NEW nx, NEW ck, Good(fr, S, nx, ck), NEW t \in Threads,
           NEW comp \in {"interrupted", "open_end"}
    PROVE  OpenSpans(fr, t, comp) \subseteq Spans
<1>1. \A i \in 1..Len(fr[t]) : fr[t][i] \in Frames
  <2>1. fr[t] \in Seq(Frames)
    BY DEF Good
  <2> QED BY <2>1
<1>2. \A f \in Frames : SpanOf(t, f, None, comp) \in Spans
    BY SpanTyped
<1> QED BY <1>1, <1>2, Zenon DEF OpenSpans

\* An element of it.
LEMMA OpenSpanIs ==
    ASSUME NEW fr, NEW t, NEW comp, NEW z \in OpenSpans(fr, t, comp)
    PROVE  \E i \in 1..Len(fr[t]) :
              z = SpanOf(t, fr[t][i], None, comp) /\ IsSpan(z, t, fr[t][i], None)
<1>1. PICK i \in 1..Len(fr[t]) : z = SpanOf(t, fr[t][i], None, comp)
    BY Zenon DEF OpenSpans
<1>2. IsSpan(SpanOf(t, fr[t][i], None, comp), t, fr[t][i], None)
    BY SpanFields, Zenon
<1>3. IsSpan(z, t, fr[t][i], None)
    BY <1>1, <1>2, Zenon
<1> QED BY <1>1, <1>3, Zenon

\* The spans of a thread have ids of their own.
LEMMA ItemsUnique ==
    ASSUME NEW fr, NEW S, NEW nx, NEW ck, Good(fr, S, nx, ck), NEW t \in Threads
    PROVE  UniqueIds(Items(fr, S, t))
<1> SUFFICES ASSUME NEW x \in Items(fr, S, t), NEW y \in Items(fr, S, t), x.id = y.id
             PROVE  x = y
    BY Zenon DEF UniqueIds
<1>1. Distinct(fr, S, nx)
    BY Zenon DEF Good
<1>2. ASSUME NEW z \in OpenSpans(fr, t, "open_end")
      PROVE  \E i \in 1..Len(fr[t]) : z = SpanOf(t, fr[t][i], None, "open_end") /\ z.id = fr[t][i].id
  <2>1. PICK i \in 1..Len(fr[t]) :
            z = SpanOf(t, fr[t][i], None, "open_end") /\ IsSpan(z, t, fr[t][i], None)
    BY OpenSpanIs
  <2> QED BY <2>1, Zenon DEF IsSpan
<1>7. ASSUME NEW v \in S, NEW z \in OpenSpans(fr, t, "open_end")
      PROVE  v.id # z.id
  <2>1. PICK i \in 1..Len(fr[t]) : z.id = fr[t][i].id
    BY <1>2
  <2>2. v.id # fr[t][i].id
    BY <1>1, Zenon DEF Distinct, FramesAreNew
  <2> QED BY <2>1, <2>2
<1>3. CASE x \in S /\ y \in S
    BY <1>1, <1>3, Zenon DEF Distinct, UniqueIds
<1>4. CASE x \in S /\ y \in OpenSpans(fr, t, "open_end")
    BY <1>4, <1>7
<1>5. CASE y \in S /\ x \in OpenSpans(fr, t, "open_end")
    BY <1>5, <1>7
<1>6. CASE x \in OpenSpans(fr, t, "open_end") /\ y \in OpenSpans(fr, t, "open_end")
  <2>1. PICK i \in 1..Len(fr[t]) : x = SpanOf(t, fr[t][i], None, "open_end") /\ x.id = fr[t][i].id
    BY <1>2, <1>6
  <2>2. PICK j \in 1..Len(fr[t]) : y = SpanOf(t, fr[t][j], None, "open_end") /\ y.id = fr[t][j].id
    BY <1>2, <1>6
  <2>3. i = j
    <3>1. fr[t][i].id = fr[t][j].id
      BY <2>1, <2>2
    <3>2. FramesDiffer(fr)
      BY <1>1, Zenon DEF Distinct
    <3> QED BY <3>1, <3>2 DEF FramesDiffer
  <2> QED BY <2>1, <2>2, <2>3
<1> QED BY <1>3, <1>4, <1>5, <1>6, Zenon DEF Items

\* Only the frames of t differ.
Only(fr, gr, t) == gr \in [Threads -> Seq(Frames)] /\ \A u \in Threads \ {t} : gr[u] = fr[u]

\* f is the frame pushed on fs.
Pushed(fs, f, nx, ck) ==
    /\ f \in Frames /\ f.id = nx /\ f.start = ck
    /\ f.parent = IF Len(fs) = 0 THEN None ELSE fs[Len(fs)].id

\* A frame more.
LEMMA GoodPush ==
    ASSUME NEW fr, NEW S, NEW nx, NEW ck, Good(fr, S, nx, ck), NEW t \in Threads, NEW f,
           Pushed(fr[t], f, nx, ck), NEW gr, Only(fr, gr, t), gr[t] = Append(fr[t], f),
           Len(gr[t]) <= MaxStack
    PROVE  Good(gr, S, nx + 1, ck)
<1> DEFINE n == Len(fr[t])
<1>1. /\ fr[t] \in Seq(Frames) /\ n \in Nat /\ f \in Frames /\ nx \in Nat /\ ck \in Nat
      /\ S \subseteq Spans /\ Stacked(fr, ck) /\ Distinct(fr, S, nx)
    BY DEF Good, Pushed
<1>2. Len(gr[t]) = n + 1 /\ gr[t][n + 1] = f /\ \A i \in 1..n : gr[t][i] = fr[t][i]
    BY <1>1
<1>3. 1..Len(gr[t]) = (1..n) \union {n + 1} /\ n + 1 \notin 1..n
    BY <1>1, <1>2
<1>4. \A u \in Threads \ {t} : gr[u] = fr[u]
    BY Zenon DEF Only
<1>5. \A x \in S : x.id \in Nat
    BY <1>1 DEF Spans
<1>6. \A u \in Threads : \A i \in 1..Len(fr[u]) : fr[u][i].id \in Nat /\ fr[u][i].id < nx
  <2>1. \A u \in Threads : \A i \in 1..Len(fr[u]) : fr[u][i] \in Frames
    <3>1. \A u \in Threads : fr[u] \in Seq(Frames)
      BY DEF Good
    <3> QED BY <3>1
  <2>2. \A g \in Frames : g.id \in Nat
    BY DEF Frames
  <2>3. \A u \in Threads : \A i \in 1..Len(fr[u]) : fr[u][i].id < nx
    BY <1>1, Zenon DEF Distinct, FramesAreNew
  <2> QED BY <2>1, <2>2, <2>3, Zenon
<1>7. Stacked(gr, ck)
  <2> SUFFICES ASSUME NEW u \in Threads PROVE Stack(gr[u], ck)
    BY Zenon DEF Stacked
  <2>1. CASE u # t
    <3>1. gr[u] = fr[u] /\ Stack(fr[u], ck)
      BY <1>1, <1>4, <2>1, Zenon DEF Stacked
    <3> QED BY <3>1, Zenon
  <2>2. CASE u = t
    <3>1. ASSUME NEW i \in 1..n
          PROVE  /\ gr[t][i].start <= ck
                 /\ gr[t][i].parent = IF i = 1 THEN None ELSE gr[t][i - 1].id
      <4>1. i # 1 => i - 1 \in 1..n
        BY <1>1
      <4>2. /\ fr[t][i].start <= ck
            /\ fr[t][i].parent = IF i = 1 THEN None ELSE fr[t][i - 1].id
        BY <1>1, Zenon DEF Stacked, Stack
      <4> QED BY <1>2, <4>1, <4>2, Zenon
    <3>2. f.start <= ck
      BY <1>1 DEF Pushed
    <3>3. f.parent = IF n + 1 = 1 THEN None ELSE gr[t][(n + 1) - 1].id
      <4>1. (n + 1) - 1 = n /\ (n + 1 = 1 <=> n = 0) /\ (n # 0 => n \in 1..n)
        BY <1>1
      <4>2. n # 0 => gr[t][n] = fr[t][n]
        BY <1>2, <4>1
      <4> QED BY <4>1, <4>2, Zenon DEF Pushed
    <3>4. \A i \in 1..Len(gr[t]) :
             /\ gr[t][i].start <= ck
             /\ gr[t][i].parent = IF i = 1 THEN None ELSE gr[t][i - 1].id
      <4> TAKE i \in 1..Len(gr[t])
      <4>1. CASE i \in 1..n
        BY <3>1, <4>1
      <4>2. CASE i = n + 1
        BY <1>2, <3>2, <3>3, <4>2, Zenon
      <4> QED BY <1>3, <4>1, <4>2
    <3> QED BY <2>2, <3>4, Zenon DEF Stack
  <2> QED BY <2>1, <2>2
<1>8. \A u \in Threads : \A i \in 1..Len(gr[u]) :
          \/ u = t /\ i = n + 1 /\ gr[u][i].id = nx
          \/ i \in 1..Len(fr[u]) /\ gr[u][i] = fr[u][i]
  <2> TAKE u \in Threads
  <2> TAKE i \in 1..Len(gr[u])
  <2>1. CASE u # t
    BY <1>4, <2>1
  <2>2. CASE u = t
    <3>1. f.id = nx
      BY Zenon DEF Pushed
    <3> QED BY <1>2, <1>3, <2>2, <3>1
  <2> QED BY <2>1, <2>2
<1>9. Distinct(gr, S, nx + 1)
  <2>1. UniqueIds(S)
    BY <1>1, Zenon DEF Distinct
  <2>2. \A x \in S : x.id < nx /\ x.id < nx + 1
    <3>1. \A x \in S : x.id < nx
      BY <1>1, Zenon DEF Distinct
    <3> QED BY <1>1, <1>5, <3>1
  <2>3. FramesAreNew(gr, S, nx + 1)
    <3> SUFFICES ASSUME NEW u \in Threads, NEW i \in 1..Len(gr[u])
                 PROVE  gr[u][i].id < nx + 1 /\ \A x \in S : x.id # gr[u][i].id
      BY Zenon DEF FramesAreNew
    <3>1. CASE gr[u][i].id = nx
      <4>1. \A x \in S : x.id # nx
        BY <1>1, <1>5, <2>2
      <4> QED BY <1>1, <3>1, <4>1
    <3>2. CASE i \in 1..Len(fr[u]) /\ gr[u][i] = fr[u][i]
      <4>1. \A x \in S : x.id # fr[u][i].id
        BY <1>1, <3>2, Zenon DEF Distinct, FramesAreNew
      <4>2. fr[u][i].id < nx + 1
        BY <1>1, <1>6, <3>2
      <4> QED BY <3>2, <4>1, <4>2
    <3> QED BY <1>8, <3>1, <3>2
  <2>4. FramesDiffer(gr)
    <3> SUFFICES ASSUME NEW u \in Threads, NEW v \in Threads, NEW i \in 1..Len(gr[u]),
                        NEW j \in 1..Len(gr[v]), gr[u][i].id = gr[v][j].id
                 PROVE  u = v /\ i = j
      BY DEF FramesDiffer
    <3>1. CASE /\ i \in 1..Len(fr[u]) /\ gr[u][i] = fr[u][i]
               /\ j \in 1..Len(fr[v]) /\ gr[v][j] = fr[v][j]
      <4>1. fr[u][i].id = fr[v][j].id
        BY <3>1
      <4>2. FramesDiffer(fr)
        BY <1>1, Zenon DEF Distinct
      <4> QED BY <3>1, <4>1, <4>2 DEF FramesDiffer
    <3>2. \A w \in Threads : \A k \in 1..Len(fr[w]) : fr[w][k].id # nx
      BY <1>1, <1>6
    <3>3. CASE u = t /\ i = n + 1 /\ gr[u][i].id = nx
      <4>1. v = t /\ j = n + 1
        BY <1>8, <3>2, <3>3
      <4> QED BY <3>3, <4>1
    <3>4. CASE v = t /\ j = n + 1 /\ gr[v][j].id = nx
      <4>1. u = t /\ i = n + 1
        BY <1>8, <3>2, <3>4
      <4> QED BY <3>4, <4>1
    <3> QED BY <1>8, <3>1, <3>3, <3>4
  <2> QED BY <2>1, <2>2, <2>3, <2>4, Zenon DEF Distinct
<1>10. gr \in [Threads -> Seq(Frames)] /\ nx + 1 \in Nat
    BY <1>1 DEF Only
<1> QED BY <1>1, <1>7, <1>9, <1>10, Zenon DEF Good

\* Frames are left: gr keeps the outer ones of each thread, and what T has more than S
\* are spans of the others, one of each.
Leaves(fr, gr, S, T) ==
    /\ gr \in [Threads -> Seq(Frames)] /\ S \subseteq T /\ T \subseteq Spans
    /\ \A u \in Threads : /\ Len(gr[u]) <= Len(fr[u])
                          /\ \A i \in 1..Len(gr[u]) : gr[u][i] = fr[u][i]
    /\ \A x \in T \ S : \E u \in Threads : \E i \in 1..Len(fr[u]) :
           i > Len(gr[u]) /\ x.id = fr[u][i].id
    /\ \A x, y \in T \ S : x.id = y.id => x = y

\* Leaving frames keeps ids unique and the callers of what remains.
LEMMA GoodLeave ==
    ASSUME NEW fr, NEW S, NEW nx, NEW ck, Good(fr, S, nx, ck), NEW gr, NEW T,
           Leaves(fr, gr, S, T)
    PROVE  Good(gr, T, nx, ck)
<1>1. /\ fr \in [Threads -> Seq(Frames)] /\ gr \in [Threads -> Seq(Frames)]
      /\ nx \in Nat /\ ck \in Nat /\ S \subseteq T /\ T \subseteq Spans
      /\ Stacked(fr, ck) /\ Distinct(fr, S, nx)
    BY DEF Good, Leaves
<1>2. \A u \in Threads : /\ Len(gr[u]) \in Nat /\ Len(fr[u]) \in Nat /\ Len(gr[u]) <= Len(fr[u])
                         /\ \A i \in 1..Len(gr[u]) : i \in 1..Len(fr[u]) /\ gr[u][i] = fr[u][i]
  <2> TAKE u \in Threads
  <2>1. gr[u] \in Seq(Frames) /\ fr[u] \in Seq(Frames)
    BY <1>1
  <2>2. Len(gr[u]) \in Nat /\ Len(fr[u]) \in Nat
    BY <2>1
  <2>3. Len(gr[u]) <= Len(fr[u]) /\ \A i \in 1..Len(gr[u]) : gr[u][i] = fr[u][i]
    BY Zenon DEF Leaves
  <2>4. \A i \in 1..Len(gr[u]) : i \in 1..Len(fr[u])
    BY <2>2, <2>3
  <2> QED BY <2>2, <2>3, <2>4
<1>3. Stacked(gr, ck)
  <2> SUFFICES ASSUME NEW u \in Threads PROVE Stack(gr[u], ck)
    BY Zenon DEF Stacked
  <2>1. Stack(fr[u], ck)
    BY <1>1, Zenon DEF Stacked
  <2>2. Len(gr[u]) <= MaxStack
    <3>1. MaxStack \in Nat /\ Len(fr[u]) <= MaxStack
      BY <2>1, QueriesAssumption DEF Stack
    <3> QED BY <1>2, <3>1
  <2>3. \A i \in 1..Len(gr[u]) : /\ gr[u][i].start <= ck
                                 /\ gr[u][i].parent = IF i = 1 THEN None ELSE gr[u][i - 1].id
    <3> TAKE i \in 1..Len(gr[u])
    <3>1. i \in 1..Len(fr[u]) /\ gr[u][i] = fr[u][i]
      BY <1>2
    <3>2. i # 1 => i - 1 \in 1..Len(gr[u])
      BY <1>2
    <3>3. i # 1 => gr[u][i - 1] = fr[u][i - 1]
      BY <1>2, <3>2
    <3>4. fr[u][i].start <= ck /\ fr[u][i].parent = IF i = 1 THEN None ELSE fr[u][i - 1].id
      BY <2>1, <3>1, Zenon DEF Stack
    <3> QED BY <3>1, <3>3, <3>4, Zenon
  <2> QED BY <2>2, <2>3, Zenon DEF Stack
<1>4. UniqueIds(S) /\ (\A x \in S : x.id < nx) /\ FramesAreNew(fr, S, nx) /\ FramesDiffer(fr)
    BY <1>1, Zenon DEF Distinct
<1>5. ASSUME NEW y \in T \ S
      PROVE  y.id < nx /\ \A x \in S : x.id # y.id
  <2>1. PICK u \in Threads : \E i \in 1..Len(fr[u]) : i > Len(gr[u]) /\ y.id = fr[u][i].id
    BY Zenon DEF Leaves
  <2>2. PICK i \in 1..Len(fr[u]) : y.id = fr[u][i].id
    BY <2>1
  <2>3. fr[u][i].id < nx /\ \A x \in S : x.id # fr[u][i].id
    BY <1>4, Zenon DEF FramesAreNew
  <2> QED BY <2>2, <2>3
<1>6. UniqueIds(T)
  <2> SUFFICES ASSUME NEW x \in T, NEW y \in T, x.id = y.id PROVE x = y
    BY Zenon DEF UniqueIds
  <2>1. CASE x \in S /\ y \in S
    BY <1>4, <2>1, Zenon DEF UniqueIds
  <2>2. CASE x \in S /\ y \notin S
    BY <1>5, <2>2
  <2>3. CASE x \notin S /\ y \in S
    BY <1>5, <2>3
  <2>4. CASE x \notin S /\ y \notin S
    <3>1. \A v, w \in T \ S : v.id = w.id => v = w
      BY Zenon DEF Leaves
    <3> QED BY <2>4, <3>1
  <2> QED BY <2>1, <2>2, <2>3, <2>4
<1>7. \A x \in T : x.id < nx
    BY <1>4, <1>5
<1>8. FramesAreNew(gr, T, nx)
  <2> SUFFICES ASSUME NEW u \in Threads, NEW i \in 1..Len(gr[u])
               PROVE  gr[u][i].id < nx /\ \A x \in T : x.id # gr[u][i].id
    BY Zenon DEF FramesAreNew
  <2>1. i \in 1..Len(fr[u]) /\ gr[u][i] = fr[u][i]
    BY <1>2
  <2>2. fr[u][i].id < nx /\ \A x \in S : x.id # fr[u][i].id
    BY <1>4, <2>1, Zenon DEF FramesAreNew
  <2>3. ASSUME NEW x \in T \ S PROVE x.id # fr[u][i].id
    <3>1. PICK v \in Threads : \E j \in 1..Len(fr[v]) : j > Len(gr[v]) /\ x.id = fr[v][j].id
      BY Zenon DEF Leaves
    <3>2. PICK j \in 1..Len(fr[v]) : j > Len(gr[v]) /\ x.id = fr[v][j].id
      BY <3>1
    <3>3. fr[v][j].id = fr[u][i].id => v = u /\ j = i
      BY <1>4, <2>1 DEF FramesDiffer
    <3>4. ~(v = u /\ j = i)
      BY <1>2, <3>2
    <3> QED BY <3>2, <3>3, <3>4
  <2> QED BY <2>1, <2>2, <2>3
<1>9. FramesDiffer(gr)
  <2> SUFFICES ASSUME NEW u \in Threads, NEW v \in Threads, NEW i \in 1..Len(gr[u]),
                      NEW j \in 1..Len(gr[v]), gr[u][i].id = gr[v][j].id
               PROVE  u = v /\ i = j
    BY DEF FramesDiffer
  <2>1. i \in 1..Len(fr[u]) /\ gr[u][i] = fr[u][i] /\ j \in 1..Len(fr[v]) /\ gr[v][j] = fr[v][j]
    BY <1>2
  <2>2. fr[u][i].id = fr[v][j].id
    BY <2>1
  <2> QED BY <1>4, <2>1, <2>2 DEF FramesDiffer
<1>10. Distinct(gr, T, nx)
    BY <1>6, <1>7, <1>8, <1>9, Zenon DEF Distinct
<1> QED BY <1>1, <1>3, <1>10, Zenon DEF Good

\* A frame less: its span is emitted.
LEMMA LeavesOne ==
    ASSUME NEW fr, NEW S, NEW nx, NEW ck, Good(fr, S, nx, ck), NEW t \in Threads,
           fr[t] # << >>, NEW gr, Only(fr, gr, t), gr[t] = Front(fr[t]), NEW y \in Spans,
           y.id = Last(fr[t]).id
    PROVE  Leaves(fr, gr, S, S \union {y})
<1> DEFINE n == Len(fr[t])
<1>1. fr[t] \in Seq(Frames) /\ S \subseteq Spans /\ gr \in [Threads -> Seq(Frames)]
    BY DEF Good, Only
<1>2. /\ Len(gr[t]) = n - 1 /\ n \in Nat \ {0} /\ Last(fr[t]) = fr[t][n]
      /\ \A i \in 1..(n - 1) : gr[t][i] = fr[t][i]
    BY <1>1, FrontFacts
<1>3. ASSUME NEW u \in Threads
      PROVE  /\ Len(gr[u]) <= Len(fr[u])
             /\ \A i \in 1..Len(gr[u]) : gr[u][i] = fr[u][i]
  <2>1. CASE u = t
    BY <1>2, <2>1
  <2>2. CASE u # t
    <3>1. gr[u] = fr[u] /\ fr[u] \in Seq(Frames)
      BY <2>2 DEF Only, Good
    <3> QED BY <3>1
  <2> QED BY <2>1, <2>2
<1>4. \A x \in (S \union {y}) \ S : \E u \in Threads : \E i \in 1..Len(fr[u]) :
          i > Len(gr[u]) /\ x.id = fr[u][i].id
  <2>1. n \in 1..Len(fr[t]) /\ n > Len(gr[t]) /\ y.id = fr[t][n].id
    BY <1>2
  <2> QED BY <2>1, Zenon
<1>5. \A x, z \in (S \union {y}) \ S : x.id = z.id => x = z
    OBVIOUS
<1> QED BY <1>1, <1>3, <1>4, <1>5, Zenon DEF Leaves

\* The threads of D leave all frames.
LEMMA LeavesAll ==
    ASSUME NEW fr, NEW S, NEW nx, NEW ck, Good(fr, S, nx, ck), NEW D, D \subseteq Threads,
           NEW gr, gr \in [Threads -> Seq(Frames)], \A u \in D : gr[u] = << >>,
           \A u \in Threads \ D : gr[u] = fr[u], NEW comp \in {"interrupted", "open_end"},
           NEW E, E = UNION {OpenSpans(fr, u, comp) : u \in D}
    PROVE  Leaves(fr, gr, S, S \union E)
<1>1. S \subseteq Spans /\ fr \in [Threads -> Seq(Frames)] /\ FramesDiffer(fr)
    BY DEF Good, Distinct
<1>2. E \subseteq Spans
    BY OpenSpansIn
<1>3. ASSUME NEW u \in Threads
      PROVE  /\ Len(gr[u]) <= Len(fr[u])
             /\ \A i \in 1..Len(gr[u]) : gr[u][i] = fr[u][i]
  <2>1. fr[u] \in Seq(Frames)
    BY <1>1
  <2>2. CASE u \in D
    <3>1. gr[u] = << >>
      BY <2>2
    <3> QED BY <2>1, <3>1
  <2>3. CASE u \notin D
    BY <2>1, <2>3
  <2> QED BY <2>2, <2>3
<1>4. ASSUME NEW x \in E
      PROVE  \E u \in D : \E i \in 1..Len(fr[u]) :
                 x = SpanOf(u, fr[u][i], None, comp) /\ x.id = fr[u][i].id
  <2>1. PICK u \in D : x \in OpenSpans(fr, u, comp)
    OBVIOUS
  <2>2. PICK i \in 1..Len(fr[u]) :
            x = SpanOf(u, fr[u][i], None, comp) /\ IsSpan(x, u, fr[u][i], None)
    BY <2>1, OpenSpanIs
  <2> QED BY <2>2, Zenon DEF IsSpan
<1>5. \A x \in E : \E u \in Threads : \E i \in 1..Len(fr[u]) :
          i > Len(gr[u]) /\ x.id = fr[u][i].id
  <2> TAKE x \in E
  <2>1. PICK u \in D : \E i \in 1..Len(fr[u]) : x.id = fr[u][i].id
    BY <1>4
  <2>2. PICK i \in 1..Len(fr[u]) : x.id = fr[u][i].id
    BY <2>1
  <2>3. Len(gr[u]) = 0 /\ u \in Threads
    BY <2>1
  <2>4. i > Len(gr[u])
    BY <2>3
  <2> QED BY <2>2, <2>3, <2>4, Zenon
<1>6. \A x, z \in E : x.id = z.id => x = z
  <2> SUFFICES ASSUME NEW x \in E, NEW z \in E, x.id = z.id PROVE x = z
    OBVIOUS
  <2>1. PICK u \in D : \E i \in 1..Len(fr[u]) :
            x = SpanOf(u, fr[u][i], None, comp) /\ x.id = fr[u][i].id
    BY <1>4
  <2>2. PICK i \in 1..Len(fr[u]) : x = SpanOf(u, fr[u][i], None, comp) /\ x.id = fr[u][i].id
    BY <2>1
  <2>3. PICK v \in D : \E j \in 1..Len(fr[v]) :
            z = SpanOf(v, fr[v][j], None, comp) /\ z.id = fr[v][j].id
    BY <1>4
  <2>4. PICK j \in 1..Len(fr[v]) : z = SpanOf(v, fr[v][j], None, comp) /\ z.id = fr[v][j].id
    BY <2>3
  <2>5. u = v /\ i = j
    <3>1. fr[u][i].id = fr[v][j].id
      BY <2>2, <2>4
    <3>2. u \in Threads /\ v \in Threads
      OBVIOUS
    <3> QED BY <1>1, <3>1, <3>2 DEF FramesDiffer
  <2> QED BY <2>2, <2>4, <2>5
<1>7. Leaves(fr, gr, S, S \union E)
  <2>1. S \subseteq S \union E /\ S \union E \subseteq Spans /\ (S \union E) \ S \subseteq E
    BY <1>1, <1>2
  <2>2. /\ \A x \in (S \union E) \ S : \E u \in Threads : \E i \in 1..Len(fr[u]) :
               i > Len(gr[u]) /\ x.id = fr[u][i].id
        /\ \A x, z \in (S \union E) \ S : x.id = z.id => x = z
    BY <1>5, <1>6, <2>1, Zenon
  <2> QED BY <1>3, <2>1, <2>2, Zenon DEF Leaves
<1> QED BY <1>7

\* A new span was not open in the past.
LEMMA ProgressPush ==
    ASSUME NEW fr, NEW S, NEW nx, NEW ck, Good(fr, S, nx, ck), NEW t \in Threads, NEW f,
           Pushed(fr[t], f, nx, ck), NEW gr, Only(fr, gr, t), gr[t] = Append(fr[t], f),
           NEW u \in Threads
    PROVE  Progress(Items(fr, S, u), Items(gr, S, u), ck)
<1>1. CASE u # t
  <2>1. gr[u] = fr[u]
    BY <1>1, Zenon DEF Only
  <2>2. Items(gr, S, u) = Items(fr, S, u)
    BY <2>1, Zenon DEF Items, OpenSpans
  <2> QED BY <2>2, ProgressNone, Zenon
<1>2. CASE u = t
  <2> DEFINE n == Len(fr[t])
             y == SpanOf(t, f, None, "open_end")
  <2>1. n \in Nat /\ fr[t] \in Seq(Frames) /\ ck \in Nat
    BY DEF Good
  <2>2. 1..Len(gr[t]) = (1..n) \union {n + 1} /\ gr[t][n + 1] = f
        /\ \A i \in 1..n : gr[t][i] = fr[t][i]
    BY <2>1 DEF Pushed
  <2>3. OpenSpans(gr, t, "open_end") = OpenSpans(fr, t, "open_end") \union {y}
    <3> HIDE DEF n
    <3> QED BY <2>2 DEF OpenSpans, n
  <2>4. Items(gr, S, t) = Items(fr, S, t) \union {y}
    BY <2>3, Zenon DEF Items
  <2>5. Later(y, ck)
    <3>1. y.start = ck
      <4>1. IsSpan(y, t, f, None)
        BY SpanFields, Zenon
      <4> QED BY <4>1, Zenon DEF IsSpan, Pushed
    <3>2. \A now \in 0..(ck - 1) : ~(ck <= now)
      BY <2>1
    <3> HIDE DEF y
    <3> QED BY <3>1, <3>2, Zenon DEF Later, OpenAt
  <2>6. \A x : Alike(x, x, ck)
    BY Zenon DEF Alike
  <2> HIDE DEF y
  <2>7. \A x \in Items(fr, S, t) : \E z \in Items(gr, S, t) : Alike(x, z, ck)
    BY <2>4, <2>6, Zenon
  <2>8. \A z \in Items(gr, S, t) : Later(z, ck) \/ \E x \in Items(fr, S, t) : Alike(x, z, ck)
    BY <2>4, <2>5, <2>6, Zenon
  <2> QED BY <1>2, <2>7, <2>8, Zenon DEF Progress
<1> QED BY <1>1, <1>2

\* A span that ends now was open until now.
LEMMA ProgressPop ==
    ASSUME NEW fr, NEW S, NEW nx, NEW ck, Good(fr, S, nx, ck), NEW t \in Threads,
           fr[t] # << >>, NEW gr, Only(fr, gr, t), gr[t] = Front(fr[t]), NEW y,
           IsSpan(y, t, Last(fr[t]), ck), NEW u \in Threads
    PROVE  Progress(Items(fr, S, u), Items(gr, S \union {y}, u), ck)
<1>1. CASE u # t
  <2>1. gr[u] = fr[u]
    BY <1>1, Zenon DEF Only
  <2>2. {x \in S \union {y} : x.thread = u} = {x \in S : x.thread = u}
    <3>1. y.thread # u
      BY <1>1, Zenon DEF IsSpan
    <3> QED BY <3>1
  <2>3. Items(gr, S \union {y}, u) = Items(fr, S, u)
    BY <2>1, <2>2, Zenon DEF Items, OpenSpans
  <2> QED BY <2>3, ProgressNone, Zenon
<1>2. CASE u = t
  <2> DEFINE n == Len(fr[t])
             z == SpanOf(t, fr[t][n], None, "open_end")
             A == Items(fr, S, t)
             B == Items(gr, S \union {y}, t)
  <2>1. n \in Nat \ {0} /\ fr[t] \in Seq(Frames) /\ ck \in Nat
    BY DEF Good
  <2>2. Len(gr[t]) = n - 1 /\ Last(fr[t]) = fr[t][n] /\ \A i \in 1..(n - 1) : gr[t][i] = fr[t][i]
    BY <2>1, FrontFacts
  <2>3. 1..n = (1..(n - 1)) \union {n} /\ 1..Len(gr[t]) = 1..(n - 1)
    BY <2>1, <2>2
  <2>4. OpenSpans(fr, t, "open_end") = OpenSpans(gr, t, "open_end") \union {z}
    <3> HIDE DEF n
    <3> QED BY <2>2, <2>3 DEF OpenSpans, n
  <2>5. y.thread = t
    BY Zenon DEF IsSpan
  <2> DEFINE R == {x \in S : x.thread = t} \union OpenSpans(gr, t, "open_end")
  <2>6. A = R \union {z}
    <3> HIDE DEF z
    <3> QED BY <2>4, Zenon DEF Items
  <2>7. B = R \union {y}
    <3>1. {x \in S \union {y} : x.thread = t} = {x \in S : x.thread = t} \union {y}
      BY <2>5
    <3> QED BY <3>1, Zenon DEF Items
  <2>8. Alike(z, y, ck)
    <3>1. IsSpan(z, t, fr[t][n], None) /\ IsSpan(y, t, fr[t][n], ck)
      BY <2>2, SpanFields, Zenon
    <3> HIDE DEF z
    <3>2. z.id = y.id /\ z.fn = y.fn /\ z.parent = y.parent /\ z.start = y.start
          /\ z.end = None /\ y.end = ck
      BY <3>1, Zenon DEF IsSpan
    <3>3. \A now \in 0..(ck - 1) : ck > now
      BY <2>1
    <3>4. \A now \in 0..(ck - 1) : OpenAt(z, now) <=> OpenAt(y, now)
      BY <3>2, <3>3, Zenon DEF OpenAt
    <3> QED BY <3>2, <3>4, Zenon DEF Alike
  <2>9. \A x : Alike(x, x, ck)
    BY Zenon DEF Alike
  <2> HIDE DEF z, R, A, B
  <2>10. \A x \in A : \E v \in B : Alike(x, v, ck)
    BY <2>6, <2>7, <2>8, <2>9, Zenon
  <2>11. \A v \in B : Later(v, ck) \/ \E x \in A : Alike(x, v, ck)
    BY <2>6, <2>7, <2>8, <2>9, Zenon
  <2> QED BY <1>2, <2>10, <2>11, Zenon DEF Progress, A, B
<1> QED BY <1>1, <1>2

\* What is open now is what the frames tell.
LEMMA NowIsPast ==
    ASSUME NEW fr, NEW S, NEW nx, NEW ck, Good(fr, S, nx, ck), NEW t \in Threads,
           \A x \in S : x.thread = t => x.end \in Nat /\ x.end <= ck
    PROVE  \E r : IsPast(Items(fr, S, t), ck, r, NamesOf(fr[t]))
<1> DEFINE n == Len(fr[t])
           r == [i \in 1..n |-> SpanOf(t, fr[t][i], None, "open_end")]
           I == Items(fr, S, t)
<1>1. /\ fr[t] \in Seq(Frames) /\ n \in Nat /\ DOMAIN fr[t] = 1..n /\ ck \in Nat
      /\ Stack(fr[t], ck) /\ S \subseteq Spans
    BY DEF Good, Stacked
<1>2. \A i \in 1..n : r[i] \in OpenSpans(fr, t, "open_end") /\ IsSpan(r[i], t, fr[t][i], None)
  <2> TAKE i \in 1..n
  <2>1. r[i] = SpanOf(t, fr[t][i], None, "open_end")
    OBVIOUS
  <2>2. IsSpan(SpanOf(t, fr[t][i], None, "open_end"), t, fr[t][i], None)
    BY SpanFields, Zenon
  <2> HIDE DEF r
  <2> QED BY <2>1, <2>2, Zenon DEF OpenSpans
<1>3. OpenSpans(fr, t, "open_end") = {r[i] : i \in 1..n}
    BY DEF OpenSpans
<1>4. r = [i \in 1..n |-> r[i]]
    OBVIOUS
<1> HIDE DEF r
<1>5. r \in Seq(I) /\ Len(r) = n
  <2>1. \A i \in 1..n : r[i] \in I
    BY <1>2, Zenon DEF Items
  <2>2. r \in [1..n -> I]
    <3> HIDE DEF I, n
    <3> QED BY <1>4, <2>1
  <2> HIDE DEF I, n
  <2> QED BY <1>1, <2>2, FunSeq
<1>6. \A i \in 1..n : r[i].parent = IF i = 1 THEN None ELSE r[i - 1].id
  <2> TAKE i \in 1..n
  <2>1. r[i].parent = fr[t][i].parent
    BY <1>2, Zenon DEF IsSpan
  <2>2. i # 1 => i - 1 \in 1..n
    BY <1>1
  <2>3. i # 1 => r[i - 1].id = fr[t][i - 1].id
    BY <1>2, <2>2, Zenon DEF IsSpan
  <2>4. fr[t][i].parent = IF i = 1 THEN None ELSE fr[t][i - 1].id
    BY <1>1, Zenon DEF Stack
  <2> QED BY <2>1, <2>3, <2>4, Zenon
<1>7. \A i \in 1..n : OpenAt(r[i], ck)
  <2> TAKE i \in 1..n
  <2>1. r[i].start = fr[t][i].start /\ r[i].end = None
    BY <1>2, Zenon DEF IsSpan
  <2>2. fr[t][i].start <= ck
    BY <1>1, Zenon DEF Stack
  <2>3. fr[t][i].start # None
    <3>1. fr[t][i] \in Frames
      BY <1>1
    <3>2. fr[t][i].start \in Nat
      BY <3>1 DEF Frames
    <3> QED BY <3>2, QueriesAssumption, Zenon
  <2> QED BY <2>1, <2>2, <2>3, Zenon DEF OpenAt
<1>8. ASSUME NEW x \in I
      PROVE  OpenAt(x, ck) <=> \E k \in 1..n : x = r[k]
  <2>1. ASSUME NEW k \in 1..n, x = r[k] PROVE OpenAt(x, ck)
    BY <1>7, <2>1
  <2>2. ASSUME OpenAt(x, ck) PROVE \E k \in 1..n : x = r[k]
    <3>1. CASE x \in S /\ x.thread = t
      <4>1. x.end \in Nat /\ x.end <= ck
        BY <3>1
      <4>2. x.end # None
        BY <4>1, QueriesAssumption, Zenon
      <4>3. x.end > ck
        BY <2>2, <4>2, Zenon DEF OpenAt
      <4> QED BY <1>1, <4>1, <4>3
    <3>2. CASE x \in OpenSpans(fr, t, "open_end")
      BY <1>3, <3>2
    <3> QED BY <3>1, <3>2 DEF Items
  <2> QED BY <2>1, <2>2, Zenon
<1>9. NamesOf(fr[t]) = [k \in 1..n |-> r[k].fn]
  <2>1. \A k \in 1..n : r[k].fn = fr[t][k].fn
    BY <1>2, Zenon DEF IsSpan
  <2> HIDE DEF n
  <2> QED BY <1>1, <2>1 DEF NamesOf
<1>10. n <= MaxStack
    BY <1>1, Zenon DEF Stack
<1> HIDE DEF n, I
<1>11. 1..n = 1..Len(r) /\ Len(r) <= MaxStack
    BY <1>5, <1>10
<1>12. Chained(I, r)
    BY <1>5, <1>6, <1>11, Zenon DEF Chained
<1>13. IsPast(I, ck, r, NamesOf(fr[t]))
    BY <1>8, <1>9, <1>11, <1>12, Zenon DEF IsPast
<1> QED BY <1>13, Zenon DEF I

-----------------------------------------------------------------------------
\* What is emitted of a thread that was not cut has ended.
Closed(S, t, ck) == \A x \in S : x.thread = t => x.end \in Nat /\ x.end <= ck

\* The spans I of thread t tell what it executed at the end of each tick.
Remembers(I, t) ==
    \A now \in 0..(Len(stacks) - 1) : \E r : IsPast(I, now, r, stacks[now + 1][t])

Ran == /\ stage \in {"tracing", "ready"}
       /\ stage = "ready" => \A t \in Threads : frames[t] = << >>
       /\ stacks \in Seq([Threads -> Seq(Names)])
       /\ Len(stacks) = IF stage = "ready" THEN clock + 1 ELSE clock
       /\ cutAt \in [Threads -> Nat \union {None}]

\* The program's history is told by its spans.
HistoryIsTold == \A t \in Threads : cutAt[t] = None =>
             /\ stage = "tracing" => Closed(ToSet(spans), t, clock)
             /\ Remembers(Items(frames, ToSet(spans), t), t)

InstantInv == QueryTypes /\ Ran /\ Good(frames, ToSet(spans), nextSpan, clock) /\ HistoryIsTold

\* At the beginning nothing ran.
LEMMA InstantInit == Init => InstantInv
<1> SUFFICES ASSUME Init PROVE InstantInv
    OBVIOUS
<1>1. QueryTypes
    BY QueryTypesInit
<1>2. clock = 0 /\ nextSpan = 1 /\ spans = << >> /\ stacks = << >> /\ stage = "tracing"
    BY DEF Init
<1>3. frames = [t \in Threads |-> << >>] /\ cutAt = [t \in Threads |-> None]
    BY Zenon DEF Init
<1>4. \A t \in Threads : frames[t] = << >> /\ Len(frames[t]) = 0
    BY <1>3
<1>5. ToSet(spans) = {}
    BY <1>2 DEF ToSet
<1>6. Ran
    BY <1>2, <1>3 DEF Ran
<1>7. \A t \in Threads : \A i \in 1..Len(frames[t]) : FALSE
    BY <1>4
<1>8. Good(frames, ToSet(spans), nextSpan, clock)
  <2>1. Stacked(frames, clock)
    <3>1. \A t \in Threads : Len(frames[t]) <= MaxStack
      BY <1>4, QueriesAssumption
    <3> QED BY <1>7, <3>1, Zenon DEF Stacked, Stack
  <2>2. Distinct(frames, {}, nextSpan)
    BY <1>7, Zenon DEF Distinct, UniqueIds, FramesAreNew, FramesDiffer
  <2>3. frames \in [Threads -> Seq(Frames)] /\ nextSpan \in Nat /\ clock \in Nat
    BY <1>1 DEF QueryTypes, CallsType
  <2> QED BY <1>5, <2>1, <2>2, <2>3, Zenon DEF Good
<1>9. HistoryIsTold
  <2>1. \A now \in 0..(Len(stacks) - 1) : FALSE
    BY <1>2
  <2> QED BY <1>5, <2>1, Zenon DEF HistoryIsTold, Closed, Remembers
<1> QED BY <1>1, <1>6, <1>8, <1>9, Zenon DEF InstantInv

\* A step of the program between two ticks.
LEMMA InstantMoves ==
    ASSUME InstantInv, QueryTypes', stage = "tracing", stage' = stage, clock' = clock,
           stacks' = stacks, cutAt' \in [Threads -> Nat \union {None}],
           Good(frames', ToSet(spans'), nextSpan', clock),
           \A t \in Threads : cutAt'[t] = None =>
               /\ cutAt[t] = None /\ Closed(ToSet(spans'), t, clock)
               /\ Progress(Items(frames, ToSet(spans), t), Items(frames', ToSet(spans'), t), clock)
    PROVE  InstantInv'
<1>1. Ran'
    BY Zenon DEF InstantInv, Ran
<1>2. Good(frames, ToSet(spans), nextSpan, clock)'
  <2> QED BY Zenon
<1>3. ASSUME NEW t \in Threads, cutAt'[t] = None
      PROVE  \A now \in 0..(Len(stacks) - 1) :
                \E r : IsPast(Items(frames', ToSet(spans'), t), now, r, stacks[now + 1][t])
  <2> TAKE now \in 0..(Len(stacks) - 1)
  <2>1. Len(stacks) = clock
    BY Zenon DEF InstantInv, Ran
  <2>2. PICK r : IsPast(Items(frames, ToSet(spans), t), now, r, stacks[now + 1][t])
    BY <1>3, Zenon DEF InstantInv, HistoryIsTold, Remembers
  <2>3. UniqueIds(Items(frames', ToSet(spans'), t))
    BY ItemsUnique, Zenon
  <2>4. Progress(Items(frames, ToSet(spans), t), Items(frames', ToSet(spans'), t), clock)
    BY <1>3, Zenon
  <2>5. now \in 0..(clock - 1)
    BY <2>1
  <2> QED BY <2>2, <2>3, <2>4, <2>5, PastKept
<1>4. HistoryIsTold'
    BY <1>3, Zenon DEF HistoryIsTold, Remembers
<1> QED BY <1>1, <1>2, <1>4, Zenon DEF InstantInv

\* A frame that is opened is pushed.
LEMMA OpenedPushes ==
    ASSUME CallsType, NEW t \in Threads, NEW fs \in Seq(Frames), NEW fn \in Names,
           NEW comp \in {"open_end", "open_start"}
    PROVE  \E f : Opened(t, fs, fn, comp) = Append(fs, f) /\ Pushed(fs, f, nextSpan, clock)
<1> DEFINE parent == IF fs = << >> THEN None ELSE Last(fs).id
<1>1. PICK f : f = [id |-> nextSpan, fn |-> fn, start |-> clock, comp |-> comp, parent |-> parent]
    OBVIOUS
<1>2. Opened(t, fs, fn, comp) = Append(fs, f)
    BY <1>1, Zenon DEF Opened
<1>3. parent \in Nat \union {None}
  <2>1. fs # << >> => Last(fs) \in Frames
    BY DEF Last
  <2> QED BY <2>1 DEF Frames
<1>4. parent = IF Len(fs) = 0 THEN None ELSE fs[Len(fs)].id
  <2>1. fs = << >> <=> Len(fs) = 0
    OBVIOUS
  <2>2. Last(fs) = fs[Len(fs)]
    BY DEF Last
  <2> QED BY <2>1, <2>2, Zenon
<1> HIDE DEF parent
<1>5. f.id = nextSpan /\ f.start = clock /\ f.parent = parent
    BY <1>1
<1>6. f \in Frames
    BY <1>1, <1>3 DEF CallsType, Frames
<1>7. Pushed(fs, f, nextSpan, clock)
    BY <1>4, <1>5, <1>6, Zenon DEF Pushed
<1> QED BY <1>2, <1>7, Zenon

\* A call.
LEMMA InstantCalls ==
    ASSUME InstantInv, QueryTypes', NEW t \in Threads, NEW fn \in Names, Calls(t, fn)
    PROVE  InstantInv'
<1>1. /\ QueryTypes /\ CallsType /\ Good(frames, ToSet(spans), nextSpan, clock) /\ Ran /\ HistoryIsTold
      /\ frames \in [Threads -> Seq(Frames)] /\ frames' \in [Threads -> Seq(Frames)]
    BY DEF InstantInv, QueryTypes, CallsType
<1>2. /\ stage = "tracing" /\ stage' = stage /\ clock' = clock /\ spans' = spans
      /\ stacks' = stacks /\ cutAt' = cutAt /\ Opens(t, Opened(t, frames[t], fn, "open_end"))
    BY Zenon DEF Calls, Calling
<1>3. PICK f : /\ Opened(t, frames[t], fn, "open_end") = Append(frames[t], f)
               /\ Pushed(frames[t], f, nextSpan, clock)
  <2>1. frames[t] \in Seq(Frames)
    BY <1>1
  <2> QED BY <1>1, <2>1, OpenedPushes
<1>4. /\ frames' = [frames EXCEPT ![t] = Append(frames[t], f)] /\ nextSpan' = nextSpan + 1
      /\ Len(Append(frames[t], f)) <= MaxStack
    BY <1>2, <1>3, Zenon DEF Opens
<1>5. frames'[t] = Append(frames[t], f) /\ Only(frames, frames', t)
    BY <1>1, <1>4 DEF Only
<1>6. Good(frames', ToSet(spans'), nextSpan', clock)
  <2>1. Good(frames', ToSet(spans), nextSpan + 1, clock)
    <3>1. Len(frames'[t]) <= MaxStack
      BY <1>4, <1>5, Zenon
    <3> QED BY <1>1, <1>3, <1>5, <3>1, GoodPush, Zenon
  <2> QED BY <1>2, <1>4, <2>1, Zenon
<1>7. ASSUME NEW u \in Threads, cutAt'[u] = None
      PROVE  /\ cutAt[u] = None /\ Closed(ToSet(spans'), u, clock)
             /\ Progress(Items(frames, ToSet(spans), u), Items(frames', ToSet(spans'), u), clock)
  <2>1. cutAt[u] = None
    BY <1>2, <1>7, Zenon
  <2>2. Closed(ToSet(spans), u, clock)
    BY <1>1, <1>2, <2>1, Zenon DEF HistoryIsTold
  <2>3. Progress(Items(frames, ToSet(spans), u), Items(frames', ToSet(spans), u), clock)
    BY <1>1, <1>3, <1>5, ProgressPush, Zenon
  <2> QED BY <1>2, <2>1, <2>2, <2>3, Zenon
<1>8. cutAt' \in [Threads -> Nat \union {None}]
    BY <1>1, <1>2, Zenon DEF Ran
<1> QED BY <1>2, <1>6, <1>7, <1>8, InstantMoves, Zenon

\* The innermost frame of a thread ends now.
LEMMA InstantPops ==
    ASSUME InstantInv, stage = "tracing", NEW t \in Threads, frames[t] # << >>,
           NEW comp \in {"complete", "open_both", "uncertain"},
           NEW gr, gr = [frames EXCEPT ![t] = Front(frames[t])],
           NEW y, y = SpanOf(t, Last(frames[t]), clock, comp)
    PROVE  /\ Good(gr, ToSet(spans) \union {y}, nextSpan, clock)
           /\ Front(frames[t]) \in Seq(Frames) /\ gr \in [Threads -> Seq(Frames)]
           /\ ToSet(Append(spans, y)) = ToSet(spans) \union {y}
           /\ \A u \in Threads : cutAt[u] = None =>
                 /\ Closed(ToSet(spans) \union {y}, u, clock)
                 /\ Progress(Items(frames, ToSet(spans), u),
                             Items(gr, ToSet(spans) \union {y}, u), clock)
<1>1. /\ CallsType /\ Good(frames, ToSet(spans), nextSpan, clock) /\ HistoryIsTold
      /\ frames \in [Threads -> Seq(Frames)] /\ spans \in Seq(Spans) /\ clock \in Nat
    BY DEF InstantInv, QueryTypes, CallsType
<1>2. clock \in Nat \union {None}
    BY <1>1
<1>3. Last(frames[t]) \in Frames /\ Front(frames[t]) \in Seq(Frames)
    BY <1>1, <1>2, AppendSpan, Zenon
<1>4. IsSpan(y, t, Last(frames[t]), clock) /\ y \in Spans
  <2>1. IsSpan(SpanOf(t, Last(frames[t]), clock, comp), t, Last(frames[t]), clock)
    BY SpanFields, Zenon
  <2>2. comp \in {"complete", "open_both", "uncertain", "interrupted", "open_end"}
    OBVIOUS
  <2>3. SpanOf(t, Last(frames[t]), clock, comp) \in Spans
    BY <1>2, <1>3, <2>2, SpanTyped, Zenon
  <2> QED BY <2>1, <2>3, Zenon
<1>5. gr \in [Threads -> Seq(Frames)] /\ gr[t] = Front(frames[t]) /\ Only(frames, gr, t)
    BY <1>1, <1>3 DEF Only
<1>6. Good(gr, ToSet(spans) \union {y}, nextSpan, clock)
  <2>1. y.id = Last(frames[t]).id
    BY <1>4, Zenon DEF IsSpan
  <2>2. Leaves(frames, gr, ToSet(spans), ToSet(spans) \union {y})
    BY <1>1, <1>4, <1>5, <2>1, LeavesOne, Zenon
  <2> QED BY <1>1, <2>2, GoodLeave, Zenon
<1>7. ToSet(Append(spans, y)) = ToSet(spans) \union {y}
    BY <1>1, SetOfAppend
<1>8. ASSUME NEW u \in Threads, cutAt[u] = None
      PROVE  /\ Closed(ToSet(spans) \union {y}, u, clock)
             /\ Progress(Items(frames, ToSet(spans), u),
                         Items(gr, ToSet(spans) \union {y}, u), clock)
  <2>1. Closed(ToSet(spans), u, clock)
    BY <1>1, <1>8, Zenon DEF HistoryIsTold
  <2>2. y.end = clock /\ clock <= clock
    BY <1>1, <1>4 DEF IsSpan
  <2>3. Closed(ToSet(spans) \union {y}, u, clock)
    BY <1>1, <2>1, <2>2, Zenon DEF Closed
  <2>4. Progress(Items(frames, ToSet(spans), u), Items(gr, ToSet(spans) \union {y}, u), clock)
    BY <1>1, <1>4, <1>5, ProgressPop, Zenon
  <2> QED BY <2>3, <2>4
<1> QED BY <1>3, <1>5, <1>6, <1>7, <1>8, Zenon

\* A return.
LEMMA InstantReturns ==
    ASSUME InstantInv, QueryTypes', NEW t \in Threads, Returns(t)
    PROVE  InstantInv'
<1> DEFINE comp == IF Last(frames[t]).comp = "open_start" THEN "open_both" ELSE "complete"
<1>1. PICK y : y = SpanOf(t, Last(frames[t]), clock, comp)
    OBVIOUS
<1>2. comp \in {"complete", "open_both", "uncertain"}
    OBVIOUS
<1>3. /\ stage = "tracing" /\ stage' = stage /\ clock' = clock /\ nextSpan' = nextSpan
      /\ stacks' = stacks /\ cutAt' = cutAt /\ frames[t] # << >>
      /\ spans' = Append(spans, y) /\ frames' = [frames EXCEPT ![t] = Front(frames[t])]
    BY <1>1, Zenon DEF Returns, Calling
<1> HIDE DEF comp
<1>4. /\ Good(frames', ToSet(spans) \union {y}, nextSpan, clock)
      /\ ToSet(spans') = ToSet(spans) \union {y}
      /\ \A u \in Threads : cutAt[u] = None =>
            /\ Closed(ToSet(spans) \union {y}, u, clock)
            /\ Progress(Items(frames, ToSet(spans), u),
                        Items(frames', ToSet(spans) \union {y}, u), clock)
    BY <1>1, <1>2, <1>3, InstantPops
<1>5. cutAt' \in [Threads -> Nat \union {None}]
    BY <1>3, Zenon DEF Ran, InstantInv
<1>6. Good(frames', ToSet(spans'), nextSpan', clock)
    BY <1>3, <1>4, Zenon
<1>7. \A u \in Threads : cutAt'[u] = None =>
          /\ cutAt[u] = None /\ Closed(ToSet(spans'), u, clock)
          /\ Progress(Items(frames, ToSet(spans), u), Items(frames', ToSet(spans'), u), clock)
    BY <1>3, <1>4, Zenon
<1> QED BY <1>3, <1>5, <1>6, <1>7, InstantMoves, Zenon

\* A jump to a function: the innermost frame ends and another one is pushed.
LEMMA InstantTailCalls ==
    ASSUME InstantInv, QueryTypes', NEW t \in Threads, NEW fn \in Names, TailCalls(t, fn)
    PROVE  InstantInv'
<1>1. PICK y : y = SpanOf(t, Last(frames[t]), clock, "uncertain")
    OBVIOUS
<1>2. PICK gr : gr = [frames EXCEPT ![t] = Front(frames[t])]
    OBVIOUS
<1>3. /\ stage = "tracing" /\ stage' = stage /\ clock' = clock /\ stacks' = stacks
      /\ cutAt' = cutAt /\ frames[t] # << >> /\ spans' = Append(spans, y)
      /\ Opens(t, Opened(t, Front(frames[t]), fn, "open_start"))
    BY <1>1, Zenon DEF TailCalls, Calling
<1>4. /\ CallsType /\ Good(frames, ToSet(spans), nextSpan, clock)
      /\ frames \in [Threads -> Seq(Frames)] /\ frames' \in [Threads -> Seq(Frames)]
    BY DEF InstantInv, QueryTypes, CallsType
<1>5. "uncertain" \in {"complete", "open_both", "uncertain"}
    OBVIOUS
<1>6. /\ Good(gr, ToSet(spans) \union {y}, nextSpan, clock)
      /\ Front(frames[t]) \in Seq(Frames) /\ gr \in [Threads -> Seq(Frames)]
      /\ ToSet(spans') = ToSet(spans) \union {y}
      /\ \A u \in Threads : cutAt[u] = None =>
            /\ Closed(ToSet(spans) \union {y}, u, clock)
            /\ Progress(Items(frames, ToSet(spans), u),
                        Items(gr, ToSet(spans) \union {y}, u), clock)
    BY <1>1, <1>2, <1>3, <1>5, InstantPops
<1>7. PICK f : /\ Opened(t, Front(frames[t]), fn, "open_start") = Append(Front(frames[t]), f)
               /\ Pushed(Front(frames[t]), f, nextSpan, clock)
  <2>1. "open_start" \in {"open_end", "open_start"}
    OBVIOUS
  <2> QED BY <1>4, <1>6, <2>1, OpenedPushes
<1>8. /\ frames' = [frames EXCEPT ![t] = Append(Front(frames[t]), f)]
      /\ nextSpan' = nextSpan + 1 /\ Len(Append(Front(frames[t]), f)) <= MaxStack
    BY <1>3, <1>7, Zenon DEF Opens
<1>9. gr[t] = Front(frames[t])
    BY <1>2, <1>4
<1>10. frames'[t] = Append(gr[t], f) /\ Only(gr, frames', t) /\ Len(frames'[t]) <= MaxStack
  <2>1. frames'[t] = Append(Front(frames[t]), f)
    BY <1>4, <1>8
  <2>2. \A u \in Threads \ {t} : frames'[u] = gr[u]
    BY <1>2, <1>4, <1>8
  <2> QED BY <1>4, <1>8, <1>9, <2>1, <2>2, Zenon DEF Only
<1>11. Pushed(gr[t], f, nextSpan, clock)
    BY <1>7, <1>9, Zenon
<1>12. Good(frames', ToSet(spans'), nextSpan', clock)
  <2>1. Good(frames', ToSet(spans) \union {y}, nextSpan + 1, clock)
    BY <1>6, <1>10, <1>11, GoodPush, Zenon
  <2> QED BY <1>6, <1>8, <2>1, Zenon
<1>13. ASSUME NEW u \in Threads, cutAt'[u] = None
       PROVE  /\ cutAt[u] = None /\ Closed(ToSet(spans'), u, clock)
              /\ Progress(Items(frames, ToSet(spans), u), Items(frames', ToSet(spans'), u), clock)
  <2>1. cutAt[u] = None
    BY <1>3, <1>13, Zenon
  <2>2. /\ Closed(ToSet(spans) \union {y}, u, clock)
        /\ Progress(Items(frames, ToSet(spans), u), Items(gr, ToSet(spans) \union {y}, u), clock)
    BY <1>6, <2>1, Zenon
  <2>3. Progress(Items(gr, ToSet(spans) \union {y}, u),
                 Items(frames', ToSet(spans) \union {y}, u), clock)
    BY <1>6, <1>10, <1>11, ProgressPush, Zenon
  <2>4. Progress(Items(frames, ToSet(spans), u), Items(frames', ToSet(spans) \union {y}, u), clock)
    BY <2>2, <2>3, ProgressTwice, Zenon
  <2> QED BY <1>6, <2>1, <2>2, <2>4, Zenon
<1>14. cutAt' \in [Threads -> Nat \union {None}]
    BY <1>3, Zenon DEF Ran, InstantInv
<1> QED BY <1>3, <1>12, <1>13, <1>14, InstantMoves, Zenon

\* A thread is cut: nothing is said of it any more.
LEMMA InstantCuts ==
    ASSUME InstantInv, QueryTypes', NEW t \in Threads, Cuts(t)
    PROVE  InstantInv'
<1> DEFINE E == OpenSpans(frames, t, "interrupted")
<1>1. /\ stage = "tracing" /\ stage' = stage /\ clock' = clock /\ stacks' = stacks
      /\ nextSpan' = nextSpan /\ spans' = spans \o Ended(t, "interrupted")
      /\ frames' = [frames EXCEPT ![t] = << >>] /\ cutAt' = [cutAt EXCEPT ![t] = clock]
    BY Zenon DEF Cuts, Calling
<1>2. /\ CallsType /\ Good(frames, ToSet(spans), nextSpan, clock) /\ HistoryIsTold
      /\ frames \in [Threads -> Seq(Frames)] /\ frames' \in [Threads -> Seq(Frames)]
      /\ spans \in Seq(Spans) /\ clock \in Nat /\ clock # None
      /\ cutAt \in [Threads -> Nat \union {None}]
    BY QueriesAssumption DEF InstantInv, QueryTypes, CallsType, Ran
<1>3. ToSet(spans') = ToSet(spans) \union E
  <2>1. Ended(t, "interrupted") \in Seq(Spans)
    BY <1>2, EndedType
  <2>2. ToSet(Ended(t, "interrupted")) = E
    BY <1>2, SetOfEnded DEF OpenSpans
  <2>3. ToSet(spans \o Ended(t, "interrupted")) = ToSet(spans) \union ToSet(Ended(t, "interrupted"))
    BY <1>2, <2>1, SetOfJoin
  <2> QED BY <1>1, <2>2, <2>3, Zenon
<1>4. frames'[t] = << >> /\ \A u \in Threads \ {t} : frames'[u] = frames[u]
    BY <1>1, <1>2
<1>5. Good(frames', ToSet(spans'), nextSpan', clock)
  <2>1. "interrupted" \in {"interrupted", "open_end"} /\ {t} \subseteq Threads
    OBVIOUS
  <2>2. E = UNION {OpenSpans(frames, u, "interrupted") : u \in {t}}
    OBVIOUS
  <2>3. \A u \in {t} : frames'[u] = << >>
    BY <1>4
  <2> HIDE DEF E
  <2>4. Leaves(frames, frames', ToSet(spans), ToSet(spans) \union E)
    BY <1>2, <1>4, <2>1, <2>2, <2>3, LeavesAll
  <2>5. Leaves(frames, frames', ToSet(spans), ToSet(spans'))
    BY <1>3, <2>4, Zenon
  <2>6. Good(frames', ToSet(spans'), nextSpan, clock)
    BY <1>2, <2>5, GoodLeave, Zenon
  <2> QED BY <1>1, <2>6, Zenon
<1>6. \A x \in E : x.thread = t
  <2> TAKE x \in E
  <2>1. PICK i \in 1..Len(frames[t]) : IsSpan(x, t, frames[t][i], None)
    BY OpenSpanIs, Zenon
  <2> QED BY <2>1, Zenon DEF IsSpan
<1> HIDE DEF E
<1>7. ASSUME NEW u \in Threads, cutAt'[u] = None
      PROVE  /\ cutAt[u] = None /\ Closed(ToSet(spans'), u, clock)
             /\ Progress(Items(frames, ToSet(spans), u), Items(frames', ToSet(spans'), u), clock)
  <2>1. u # t /\ cutAt[u] = None
    <3>1. cutAt'[t] = clock /\ (u # t => cutAt'[u] = cutAt[u])
      BY <1>1, <1>2
    <3> QED BY <1>2, <1>7, <3>1, Zenon
  <2>2. Closed(ToSet(spans), u, clock)
    BY <1>1, <1>2, <2>1, Zenon DEF HistoryIsTold
  <2>3. {x \in ToSet(spans') : x.thread = u} = {x \in ToSet(spans) : x.thread = u}
    BY <1>3, <1>6, <2>1
  <2>4. Closed(ToSet(spans'), u, clock)
    BY <2>2, <2>3, Zenon DEF Closed
  <2>5. frames'[u] = frames[u]
    BY <1>4, <2>1, Zenon
  <2>6. Items(frames', ToSet(spans'), u) = Items(frames, ToSet(spans), u)
    BY <2>3, <2>5, Zenon DEF Items, OpenSpans
  <2>7. Progress(Items(frames, ToSet(spans), u), Items(frames', ToSet(spans'), u), clock)
    BY <2>6, ProgressNone, Zenon
  <2> QED BY <2>1, <2>4, <2>7
<1>8. cutAt' \in [Threads -> Nat \union {None}]
    BY <1>1, <1>2
<1> QED BY <1>1, <1>5, <1>7, <1>8, InstantMoves, Zenon

\* The end of a tick joins the history.
LEMMA InstantRecords ==
    ASSUME InstantInv, stage = "tracing", stacks' = Append(stacks, Now),
           NEW t \in Threads, cutAt[t] = None
    PROVE  \A now \in 0..(Len(stacks') - 1) :
               \E r : IsPast(Items(frames, ToSet(spans), t), now, r, stacks'[now + 1][t])
<1>1. /\ Len(stacks) = clock /\ clock \in Nat /\ stacks \in Seq([Threads -> Seq(Names)])
      /\ Good(frames, ToSet(spans), nextSpan, clock)
      /\ Closed(ToSet(spans), t, clock) /\ Remembers(Items(frames, ToSet(spans), t), t)
    BY DEF InstantInv, Ran, QueryTypes, CallsType, HistoryIsTold
<1>2. /\ Len(stacks') = clock + 1 /\ stacks'[clock + 1] = Now
      /\ \A i \in 1..clock : stacks'[i] = stacks[i]
    BY <1>1
<1> TAKE now \in 0..(Len(stacks') - 1)
<1>3. now \in 0..clock /\ (now # clock => now \in 0..(Len(stacks) - 1) /\ now + 1 \in 1..clock)
    BY <1>1, <1>2
<1>4. CASE now = clock
  <2>1. \E r : IsPast(Items(frames, ToSet(spans), t), clock, r, NamesOf(frames[t]))
    BY <1>1, NowIsPast DEF Closed
  <2>2. stacks'[now + 1][t] = NamesOf(frames[t])
    <3>1. Now[t] = NamesOf(frames[t])
      BY Zenon DEF Now
    <3> QED BY <1>2, <1>4, <3>1, Zenon
  <2> QED BY <1>4, <2>1, <2>2, Zenon
<1>5. CASE now # clock
  <2>1. \E r : IsPast(Items(frames, ToSet(spans), t), now, r, stacks[now + 1][t])
    BY <1>1, <1>3, <1>5, Zenon DEF Remembers
  <2>2. stacks'[now + 1] = stacks[now + 1]
    BY <1>2, <1>3, <1>5, Zenon
  <2> QED BY <2>1, <2>2, Zenon
<1> QED BY <1>4, <1>5

\* The names of the stacks.
LEMMA StacksType ==
    ASSUME CallsType, stacks \in Seq([Threads -> Seq(Names)])
    PROVE  /\ Append(stacks, Now) \in Seq([Threads -> Seq(Names)])
           /\ Len(Append(stacks, Now)) = Len(stacks) + 1
<1>1. Now \in [Threads -> Seq(Names)]
  <2> SUFFICES ASSUME NEW t \in Threads PROVE NamesOf(frames[t]) \in Seq(Names)
    BY DEF Now
  <2> DEFINE fs == frames[t]
             n == Len(fs)
             g == [i \in DOMAIN fs |-> fs[i].fn]
  <2>1. n \in Nat /\ DOMAIN fs = 1..n /\ \A i \in 1..n : fs[i] \in Frames
    BY DEF CallsType
  <2>2. \A f \in Frames : f.fn \in Names
    BY DEF Frames
  <2>3. g \in [1..n -> Names]
    <3> HIDE DEF n, fs
    <3> QED BY <2>1, <2>2
  <2> HIDE DEF g, n
  <2>4. g \in Seq(Names)
    BY <2>1, <2>3, FunSeq
  <2> QED BY <2>4, Zenon DEF NamesOf, g
<1>2. \A X : \A s \in Seq(X) : \A x \in X : Append(s, x) \in Seq(X) /\ Len(Append(s, x)) = Len(s) + 1
    OBVIOUS
<1> QED BY <1>1, <1>2, Zenon

\* A tick.
LEMMA InstantTicks ==
    ASSUME InstantInv, QueryTypes', Ticks
    PROVE  InstantInv'
<1>1. /\ stage = "tracing" /\ stage' = stage /\ clock' = clock + 1 /\ stacks' = Append(stacks, Now)
      /\ frames' = frames /\ nextSpan' = nextSpan /\ spans' = spans /\ cutAt' = cutAt
    BY Zenon DEF Ticks, Calling
<1>2. /\ CallsType /\ Good(frames, ToSet(spans), nextSpan, clock) /\ HistoryIsTold /\ Ran
      /\ frames \in [Threads -> Seq(Frames)] /\ spans \in Seq(Spans) /\ clock \in Nat
    BY DEF InstantInv, QueryTypes, CallsType
<1>3. Ran'
  <2>1. stacks' \in Seq([Threads -> Seq(Names)]) /\ Len(stacks') = Len(stacks) + 1
    BY <1>1, <1>2, StacksType, Zenon DEF Ran
  <2>2. Len(stacks) = clock
    BY <1>1, <1>2, Zenon DEF Ran
  <2>3. Len(stacks') = IF stage' = "ready" THEN clock' + 1 ELSE clock'
    BY <1>1, <2>1, <2>2
  <2> QED BY <1>1, <1>2, <2>1, <2>3, Zenon DEF Ran
<1>4. Good(frames', ToSet(spans'), nextSpan', clock')
  <2>1. Stacked(frames, clock + 1)
    <3> SUFFICES ASSUME NEW t \in Threads, NEW i \in 1..Len(frames[t])
                 PROVE  frames[t][i].start <= clock + 1
      BY <1>2, Zenon DEF Good, Stacked, Stack
    <3>1. frames[t][i].start <= clock
      BY <1>2, Zenon DEF Good, Stacked, Stack
    <3>2. frames[t][i] \in Frames
      <4>1. frames[t] \in Seq(Frames)
        BY <1>2
      <4> QED BY <4>1
    <3>3. frames[t][i].start \in Nat
      BY <3>2 DEF Frames
    <3> QED BY <1>2, <3>1, <3>3
  <2>2. clock + 1 \in Nat
    BY <1>2
  <2>3. Good(frames, ToSet(spans), nextSpan, clock + 1)
    BY <1>2, <2>1, <2>2, Zenon DEF Good
  <2> QED BY <1>1, <2>3, Zenon
<1>5. ASSUME NEW t \in Threads, cutAt'[t] = None
      PROVE  /\ Closed(ToSet(spans'), t, clock')
             /\ \A now \in 0..(Len(stacks') - 1) :
                   \E r : IsPast(Items(frames', ToSet(spans'), t), now, r, stacks'[now + 1][t])
  <2>1. cutAt[t] = None
    BY <1>1, <1>5, Zenon
  <2>2. \A x \in ToSet(spans) : x.thread = t => x.end \in Nat /\ x.end <= clock
    BY <1>1, <1>2, <2>1, Zenon DEF HistoryIsTold, Closed
  <2>3. \A x \in ToSet(spans) : x.thread = t => x.end \in Nat /\ x.end <= clock + 1
    BY <1>2, <2>2
  <2>4. Closed(ToSet(spans'), t, clock')
    BY <1>1, <2>3, Zenon DEF Closed
  <2>5. \A now \in 0..(Len(stacks') - 1) :
            \E r : IsPast(Items(frames, ToSet(spans), t), now, r, stacks'[now + 1][t])
    BY <1>1, <2>1, InstantRecords
  <2> QED BY <1>1, <2>4, <2>5, Zenon
<1>6. HistoryIsTold'
    BY <1>5, Zenon DEF HistoryIsTold, Remembers
<1>7. Good(frames, ToSet(spans), nextSpan, clock)'
    BY <1>4, Zenon
<1> QED BY <1>3, <1>6, <1>7, Zenon DEF InstantInv

\* What is published is what was emitted and what is still open.
LEMMA PublishedSpans ==
    ASSUME CallsType, Publishes
    PROVE  ToSet(spans') = ToSet(spans) \union UNION {OpenSpans(frames, u, "open_end") : u \in Threads}
<1> DEFINE n == Cardinality(Threads)
           ts == SetToSeq(Threads)
           ends == [i \in 1..n |-> Ended(ts[i], "open_end")]
           all == spans \o FlattenSeq(ends)
           byId == Sorted(all, {p \in ToSet(all) \X ToSet(all) : p[1].id < p[2].id})
           E == UNION {OpenSpans(frames, u, "open_end") : u \in Threads}
<1>1. IsFiniteSet(Threads) /\ n \in Nat /\ spans \in Seq(Spans)
    BY QueriesAssumption, FS_CardinalityType DEF CallsType
<1>2. /\ ts \in Seq(Threads) /\ Len(ts) = n /\ \A u \in Threads : \E i \in 1..Len(ts) : ts[i] = u
    BY <1>1, SetAsSeq, Zenon
<1> HIDE DEF ts, n
<1>3. \A i \in 1..n : ts[i] \in Threads
    BY <1>2
<1>4. \A i \in 1..n : Ended(ts[i], "open_end") \in Seq(Spans)
    BY <1>3, EndedType
<1>5. ends \in Seq(Seq(Spans)) /\ Len(ends) = n
    BY <1>1, <1>4
<1>6. \A i \in 1..n : ToSet(ends[i]) = OpenSpans(frames, ts[i], "open_end")
  <2> TAKE i \in 1..n
  <2>1. ends[i] = Ended(ts[i], "open_end")
    OBVIOUS
  <2>2. ToSet(Ended(ts[i], "open_end")) = OpenSpans(frames, ts[i], "open_end")
    <3>1. PICK u \in Threads : u = ts[i]
      BY <1>3
    <3>2. ToSet(Ended(u, "open_end")) = OpenSpans(frames, u, "open_end")
      BY SetOfEnded DEF OpenSpans
    <3> QED BY <3>1, <3>2, Zenon
  <2> HIDE DEF ends
  <2> QED BY <2>1, <2>2, Zenon
<1> HIDE DEF ends
<1>7. FlattenSeq(ends) \in Seq(Spans)
    BY <1>5, FlattenedSeq
<1>8. ToSet(FlattenSeq(ends)) = E
  <2>1. ToSet(FlattenSeq(ends)) = UNION {ToSet(ends[i]) : i \in 1..n}
    BY <1>5, SetOfFlatten
  <2>2. \A i \in 1..n : ToSet(ends[i]) \subseteq E
    BY <1>3, <1>6
  <2>3. \A u \in Threads : \E i \in 1..n : OpenSpans(frames, u, "open_end") = ToSet(ends[i])
    <3> TAKE u \in Threads
    <3>1. PICK i \in 1..n : ts[i] = u
      BY <1>2
    <3> QED BY <1>6, <3>1, Zenon
  <2>4. UNION {ToSet(ends[i]) : i \in 1..n} = E
    BY <2>2, <2>3
  <2> QED BY <2>1, <2>4, Zenon
<1>9. all \in Seq(Spans) /\ ToSet(all) = ToSet(spans) \union E
  <2>1. \A s, u \in Seq(Spans) : s \o u \in Seq(Spans)
    OBVIOUS
  <2>2. all \in Seq(Spans)
    BY <1>1, <1>7, <2>1, Zenon
  <2>3. ToSet(spans \o FlattenSeq(ends)) = ToSet(spans) \union ToSet(FlattenSeq(ends))
    BY <1>1, <1>7, SetOfJoin
  <2> QED BY <1>8, <2>2, <2>3, Zenon
<1>10. spans' \in {all, byId}
  <2>1. PICK list \in {all, byId} : \E ir \in {IrVersion - 1, IrVersion} :
            spans' = list /\ analyses' = <<Analysis(detail, TRUE, ir, list)>>
    BY Zenon DEF Publishes, n, ts, ends
  <2> QED BY <2>1
<1> HIDE DEF all
<1>11. ToSet(byId) = ToSet(all)
    BY <1>9, SetOfSorted
<1>12. ToSet(spans') = ToSet(all)
    BY <1>10, <1>11
<1> QED BY <1>9, <1>12, Zenon

\* The end: the spans are published.
LEMMA InstantPublishes ==
    ASSUME InstantInv, QueryTypes', Publishes
    PROVE  InstantInv'
<1> DEFINE E == UNION {OpenSpans(frames, u, "open_end") : u \in Threads}
<1>1. /\ stage = "tracing" /\ stage' = "ready" /\ clock' = clock /\ stacks' = Append(stacks, Now)
      /\ frames' = [t \in Threads |-> << >>] /\ nextSpan' = nextSpan /\ cutAt' = cutAt
    BY Zenon DEF Publishes
<1>2. /\ CallsType /\ Good(frames, ToSet(spans), nextSpan, clock) /\ HistoryIsTold /\ Ran
      /\ clock \in Nat /\ frames' \in [Threads -> Seq(Frames)]
    BY DEF InstantInv, QueryTypes, CallsType
<1>3. ToSet(spans') = ToSet(spans) \union E
    BY <1>2, PublishedSpans, Zenon
<1>4. \A t \in Threads : frames'[t] = << >> /\ Len(frames'[t]) = 0
    BY <1>1
<1>5. Ran'
  <2>1. stacks' \in Seq([Threads -> Seq(Names)]) /\ Len(stacks') = Len(stacks) + 1
    BY <1>1, <1>2, StacksType, Zenon DEF Ran
  <2>2. Len(stacks) = clock
    BY <1>1, <1>2, Zenon DEF Ran
  <2>3. Len(stacks') = IF stage' = "ready" THEN clock' + 1 ELSE clock'
    BY <1>1, <2>1, <2>2
  <2>4. stage' \in {"tracing", "ready"}
    BY <1>1
  <2> QED BY <1>1, <1>2, <1>4, <2>1, <2>3, <2>4, Zenon DEF Ran
<1>6. Good(frames', ToSet(spans'), nextSpan', clock')
  <2> DEFINE D == Threads
  <2>1. "open_end" \in {"interrupted", "open_end"} /\ D \subseteq Threads
    OBVIOUS
  <2>2. \A u \in D : frames'[u] = << >>
    BY <1>4
  <2>3. \A u \in Threads \ D : frames'[u] = frames[u]
    OBVIOUS
  <2>4. E = UNION {OpenSpans(frames, u, "open_end") : u \in D}
    OBVIOUS
  <2> HIDE DEF D, E
  <2>5. Leaves(frames, frames', ToSet(spans), ToSet(spans) \union E)
    BY <1>2, <2>1, <2>2, <2>3, <2>4, LeavesAll
  <2>6. Leaves(frames, frames', ToSet(spans), ToSet(spans'))
    BY <1>3, <2>5, Zenon
  <2>7. Good(frames', ToSet(spans'), nextSpan, clock)
    BY <1>2, <2>6, GoodLeave, Zenon
  <2> QED BY <1>1, <2>7, Zenon
<1>7. ASSUME NEW t \in Threads
      PROVE  Items(frames', ToSet(spans'), t) = Items(frames, ToSet(spans), t)
  <2>1. \A u \in Threads : \A x \in OpenSpans(frames, u, "open_end") : x.thread = u
    <3> TAKE u \in Threads
    <3> TAKE x \in OpenSpans(frames, u, "open_end")
    <3>1. PICK i \in 1..Len(frames[u]) : IsSpan(x, u, frames[u][i], None)
      BY OpenSpanIs, Zenon
    <3> QED BY <3>1, Zenon DEF IsSpan
  <2>2. {x \in E : x.thread = t} = OpenSpans(frames, t, "open_end")
    BY <2>1
  <2>3. OpenSpans(frames', t, "open_end") = {}
    <3>1. \A i \in 1..Len(frames'[t]) : FALSE
      BY <1>4
    <3> QED BY <3>1, Zenon DEF OpenSpans
  <2> HIDE DEF E
  <2>4. {x \in ToSet(spans') : x.thread = t} = {x \in ToSet(spans) : x.thread = t}
                                               \union {x \in E : x.thread = t}
    BY <1>3
  <2> QED BY <2>2, <2>3, <2>4, Zenon DEF Items
<1>8. ASSUME NEW t \in Threads, cutAt'[t] = None
      PROVE  \A now \in 0..(Len(stacks') - 1) :
                 \E r : IsPast(Items(frames', ToSet(spans'), t), now, r, stacks'[now + 1][t])
  <2>1. cutAt[t] = None
    BY <1>1, <1>8, Zenon
  <2>2. \A now \in 0..(Len(stacks') - 1) :
            \E r : IsPast(Items(frames, ToSet(spans), t), now, r, stacks'[now + 1][t])
    BY <1>1, <2>1, InstantRecords
  <2> QED BY <1>7, <2>2, Zenon
<1>9. HistoryIsTold'
  <2>1. stage' # "tracing"
    BY <1>1
  <2> QED BY <1>8, <2>1, Zenon DEF HistoryIsTold, Remembers
<1>10. Good(frames, ToSet(spans), nextSpan, clock)'
    BY <1>6, Zenon
<1> QED BY <1>5, <1>9, <1>10, Zenon DEF InstantInv

\* Every step, of whichever actor.
LEMMA InstantStep == ASSUME InstantInv, [Next]_vars PROVE InstantInv'
<1>1. QueryTypes'
    BY QueryTypesStep, Zenon DEF InstantInv
<1>2. ASSUME UNCHANGED <<stage, clock, frames, nextSpan, spans, stacks, cutAt>>
      PROVE  InstantInv'
  <2>1. Ran'
    BY <1>2, Zenon DEF InstantInv, Ran
  <2>2. Good(frames, ToSet(spans), nextSpan, clock)'
    BY <1>2, Zenon DEF InstantInv
  <2>3. HistoryIsTold'
    BY <1>2, Zenon DEF InstantInv, HistoryIsTold, Remembers
  <2> QED BY <1>1, <2>1, <2>2, <2>3, Zenon DEF InstantInv
<1>3. ASSUME UNCHANGED callVars, UNCHANGED stage
      PROVE  InstantInv'
    BY <1>2, <1>3, Zenon DEF callVars
<1>4. ASSUME NEW t \in Threads,
             \/ Returns(t)
             \/ Cuts(t)
             \/ \E fn \in Names : Calls(t, fn) \/ TailCalls(t, fn)
      PROVE  InstantInv'
    BY <1>1, <1>4, InstantReturns, InstantCuts, InstantCalls, InstantTailCalls, Zenon
<1>5. ASSUME NEW c, Asks(c) PROVE InstantInv'
    BY <1>3, <1>5, Zenon DEF Asks
<1>6. ASSUME NEW full \in BOOLEAN, Redecodes(full) PROVE InstantInv'
    BY <1>3, <1>6, Zenon DEF Redecodes
<1>7. ASSUME NEW group, NEW b, NEW d, NEW pairs, Compares(group, b, d, pairs)
      PROVE  InstantInv'
    BY <1>3, <1>7, Zenon DEF Compares
<1> QED
  <2>1. CASE UNCHANGED vars
    BY <1>3, <2>1, Zenon DEF vars
  <2>2. CASE detail = "instructions" /\ stage = "tracing" /\ InsnNext
                /\ UNCHANGED <<detail, stage, callVars, serveVars>>
    BY <1>3, <2>2, Zenon
  <2>3. CASE \E t \in Threads : \/ Returns(t) \/ Cuts(t)
                                \/ \E fn \in Names : Calls(t, fn) \/ TailCalls(t, fn)
    BY <1>4, <2>3, Zenon
  <2>4. CASE \E group \in {"path", "function", "inline"}, b, c \in Threads, pairs \in Pairs :
                b # c /\ Compares(group, b, c, pairs)
    BY <1>7, <2>4, Zenon
  <2>5. CASE \E full \in BOOLEAN : Redecodes(full)
    BY <1>6, <2>5, Zenon
  <2>6. CASE FirstPage
    BY <1>5, <2>6, Zenon DEF FirstPage
  <2>7. CASE NextPage
    BY <1>5, <2>7, Zenon DEF NextPage
  <2>8. CASE Ticks
    BY <1>1, <2>8, InstantTicks, Zenon
  <2>9. CASE Publishes
    BY <1>1, <2>9, InstantPublishes, Zenon
  <2> QED BY <2>1, <2>2, <2>3, <2>4, <2>5, <2>6, <2>7, <2>8, <2>9, Zenon DEF Next

\* What at_instant says is what was open, where its walks reach that far.
LEMMA InstantMeans ==
    ASSUME InstantInv, MaxStack <= PathDepth + 1
    PROVE  InstantIsStack
<1> SUFFICES ASSUME stage = "ready", NEW now \in 0..clock, NEW t \in Threads, cutAt[t] = None
             PROVE  LET answer == AtInstant(spans, now)
                    IN IF t \in DOMAIN answer THEN answer[t] = stacks[now + 1][t]
                       ELSE stacks[now + 1][t] = << >>
    BY Zenon DEF InstantIsStack, Ready
<1> DEFINE S == ToSet(spans)
<1>1. /\ clock \in Nat /\ Len(stacks) = clock + 1 /\ spans \in Seq(Spans)
      /\ frames[t] = << >> /\ Good(frames, S, nextSpan, clock)
    BY DEF InstantInv, Ran, QueryTypes, CallsType
<1>2. PICK r : IsPast(Items(frames, S, t), now, r, stacks[now + 1][t])
  <2>1. now \in 0..(Len(stacks) - 1)
    BY <1>1
  <2>2. Remembers(Items(frames, S, t), t)
    BY Zenon DEF InstantInv, HistoryIsTold
  <2> QED BY <2>1, <2>2, Zenon DEF Remembers
<1>3. Items(frames, S, t) = {x \in S : x.thread = t}
  <2>1. \A i \in 1..Len(frames[t]) : FALSE
    BY <1>1
  <2>2. OpenSpans(frames, t, "open_end") = {}
    BY <2>1, Zenon DEF OpenSpans
  <2> QED BY <2>2, Zenon DEF Items
<1>4. UniqueIds(S)
    BY <1>1, Zenon DEF Good, Distinct
<1>5. Chained(S, r)
  <2>1. r \in Seq({x \in S : x.thread = t})
    BY <1>2, <1>3, Zenon DEF IsPast, Chained
  <2>2. r \in Seq(S)
    <3> DEFINE T == {x \in S : x.thread = t}
    <3>1. T \subseteq S
      OBVIOUS
    <3> HIDE DEF S, T
    <3>2. r \in Seq(T)
      BY <2>1 DEF T
    <3> QED BY <3>1, <3>2
  <2> QED BY <1>2, <2>2, Zenon DEF IsPast, Chained
<1>6. OpenChain(S, r, t, now)
  <2> SUFFICES ASSUME NEW x \in S
               PROVE  x.thread = t /\ OpenAt(x, now) <=> \E k \in 1..Len(r) : x = r[k]
    BY Zenon DEF OpenChain
  <2>1. \A y \in {z \in S : z.thread = t} : OpenAt(y, now) <=> \E k \in 1..Len(r) : y = r[k]
    BY <1>2, <1>3, Zenon DEF IsPast
  <2>2. \A k \in 1..Len(r) : r[k].thread = t
    <3>1. r \in Seq({z \in S : z.thread = t})
      BY <1>2, <1>3, Zenon DEF IsPast, Chained
    <3>2. \A k \in 1..Len(r) : r[k] \in {z \in S : z.thread = t}
      <4> HIDE DEF S
      <4> QED BY <3>1
    <3> QED BY <3>2
  <2> QED BY <2>1, <2>2, Zenon
<1>7. Len(r) <= PathDepth + 1
  <2>1. Len(r) <= MaxStack /\ Len(r) \in Nat /\ MaxStack \in Nat /\ PathDepth \in Nat
    BY <1>2, <1>5, QueriesAssumption DEF IsPast, Chained
  <2> QED BY <2>1
<1>8. TellsNames(spans, now, t, r)
    BY <1>1, <1>4, <1>5, <1>6, <1>7, InstantOf, Zenon
<1>9. stacks[now + 1][t] = [k \in 1..Len(r) |-> r[k].fn]
    BY <1>2, Zenon DEF IsPast
<1>10. r = << >> => stacks[now + 1][t] = << >>
    BY <1>9
<1> QED BY <1>8, <1>9, <1>10, Zenon DEF TellsNames

\* What at_instant says a thread was executing is what it executed at the end of that
\* tick, for threads that were not cut before: whatever the number of threads, spans and
\* ticks, and in whichever order the spans are published, as long as no stack is deeper
\* than its walks reach (at_instant_rows).
THEOREM InstantIsStackHolds == MaxStack <= PathDepth + 1 => (Spec => []InstantIsStack)
<1> SUFFICES ASSUME MaxStack <= PathDepth + 1 PROVE Spec => []InstantIsStack
    OBVIOUS
<1>1. InstantInv /\ [Next]_vars => InstantInv'
    BY InstantStep
<1>2. InstantInv => InstantIsStack
    BY InstantMeans
<1> QED BY <1>1, <1>2, InstantInit, PTL DEF Spec
=============================================================================
