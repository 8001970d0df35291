---------------------------- MODULE Reconstruct ----------------------------
(***************************************************************************)
(* Call reconstruction (src/src/decode/reconstruct.rs): records arrive one *)
(* at a time, per-thread stacks of open frames grow and shrink with calls, *)
(* returns, tail calls and trace boundaries, and every discontinuity cuts  *)
(* the stack and is recorded as a gap.  Addresses are abstracted to the    *)
(* function and the mapping they resolve to; counters that only feed the   *)
(* report's notes, inline attribution and the spill files are left out.    *)
(***************************************************************************)
EXTENDS ThreadIds, Sequences, SequencesExt, FiniteSets

CONSTANTS Tasks,        \* <<pid, tid>> of the traced process tree
          Functions, Mappings, CPUs,
          None,         \* Option::None
          MaxTime,      \* bound of the model: timestamps 1..MaxTime
          MaxRecords    \* bound of the model: records pushed

ASSUME ReconstructAssumption ==
    /\ \A t \in Tasks : t = <<t[1], t[2]>>
    /\ None \notin Functions \union Mappings \union CPUs \union Nat
    /\ None \notin {t[2] : t \in Tasks} \X Nat
    /\ MaxTime \in Nat /\ MaxRecords \in Nat

VARIABLES
    live, ids,      \* threads with a ThreadState, ThreadIds
    retired,        \* pids and names of the retired ones
    stack, pend, lastAbs, segments,      \* of the ThreadStates
    cpuFirst, minAbs,
    nextEvent, nextSpan,
    stored,         \* ids of the events kept
    closed,         \* ids of the spans emitted
    spans, gaps,    \* the spans and gaps the last record added
    phase,          \* "open", "done" or "failed"
    pushed          \* records pushed so far

threadVars == <<live, ids, retired>>
stateVars  == <<stack, pend, lastAbs, segments>>
vars == <<live, ids, retired, stack, pend, lastAbs, segments, cpuFirst, minAbs,
          nextEvent, nextSpan, stored, closed, spans, gaps, phase, pushed>>

-----------------------------------------------------------------------------
Times   == 1..MaxTime
OptTime == Times \union {None}
OptNat  == Nat \union {None}
OptFn   == Functions \union {None}

\* Resolved: an address in a function of a mapping, in a mapping only (no
\* symbol, or no archived image), or nowhere.
Places  == {p \in [fn : OptFn, map : Mappings \union {None}] : p.map = None => p.fn = None}
Nowhere == [fn |-> None, map |-> None]

\* flags_kind and flags_boundary: what a sample is.  "end" stands for every
\* combination with tr end, "async" for async, interrupts and aborts without
\* it, "syscall" for a system call without it.
Flows   == {"call", "return", "jump", "cond", "begin", "end", "async", "syscall"}
\* The places a sample of each flow is looked at for.
FromOf(flow) == IF flow \in {"jump", "cond"} THEN Places
                ELSE {[fn |-> f, map |-> None] : f \in IF flow \in {"return", "begin", "end"} THEN OptFn ELSE {None}}
ToOf(flow)   == IF flow \in {"jump", "cond"} THEN Places
                ELSE {[fn |-> f, map |-> None] : f \in IF flow \in {"call", "return", "begin"} THEN OptFn ELSE {None}}
Samples == UNION {[flow : {w}, from : FromOf(w), to : ToOf(w), time : OptTime,
                   cpu : CPUs \union {None}] : w \in Flows}

Completeness == {"complete", "open_start", "open_end", "open_both", "interrupted", "uncertain"}
Frames == [id : Nat, fn : OptFn, parent : OptNat, start : OptTime, ev : Nat, comp : Completeness]
Names  == {t[2] : t \in Tasks} \X Nat
Spans  == [id : Nat, thread : Names, fn : OptFn, parent : OptNat, start : OptTime, end : OptTime,
           from : Nat, to : Nat, comp : Completeness]
GapKinds == {"ring_truncation", "pt_loss", "decoder_error", "time_regression",
             "trace_boundary", "unknown"}
Gaps   == [thread : Names \union {None}, kind : GapKinds, start : OptTime, end : OptTime]
\* PendingEnd; the reason and the location are not kept.
NoEnd  == [fn |-> None, abs |-> None, cpu |-> None, set |-> FALSE]
Ends   == [fn : OptFn, abs : OptTime, cpu : CPUs \union {None}, set : BOOLEAN]

TypeOK ==
    /\ live \in SUBSET Tasks /\ retired \subseteq {t[1] : t \in Tasks} \X Names
    /\ ids  \in [generation : [Tasks -> Nat], exited : SUBSET Tasks]
    /\ stack \in [Tasks -> Seq(Frames)]
    /\ pend  \in [Tasks -> Ends]
    /\ lastAbs \in [Tasks -> OptTime]
    /\ segments \in [Tasks -> Seq(Times \X Times)]
    /\ cpuFirst \in [CPUs -> OptTime] /\ minAbs \in OptTime
    /\ nextEvent \in Nat /\ nextSpan \in Nat
    /\ stored \subseteq 0..nextEvent /\ closed \subseteq 0..nextSpan
    /\ spans \subseteq Spans /\ gaps \subseteq Gaps
    /\ phase \in {"open", "done", "failed"} /\ pushed \in 0..MaxRecords

Init ==
    /\ live = {} /\ retired = {} /\ ids = NoIds(Tasks)
    /\ stack    = [t \in Tasks |-> <<>>]
    /\ pend     = [t \in Tasks |-> NoEnd]
    /\ lastAbs  = [t \in Tasks |-> None]
    /\ segments = [t \in Tasks |-> <<>>]
    /\ cpuFirst = [c \in CPUs |-> None] /\ minAbs = None
    /\ nextEvent = 0 /\ nextSpan = 0
    /\ stored = {} /\ closed = {} /\ spans = {} /\ gaps = {}
    /\ phase = "open" /\ pushed = 0

-----------------------------------------------------------------------------
(***************************************************************************)
(* The helpers work on the part c of the state that one record of one      *)
(* thread may change: its name, stack, pending end and segments, the next  *)
(* span id, and the spans and gaps added.                                  *)
(***************************************************************************)
Context(t) == [name |-> ThreadName(ids, t), stack |-> stack[t], pend |-> pend[t],
               segments |-> segments[t], next |-> nextSpan, spans |-> {}, gaps |-> {}]

SpanOf(c, f, end, to, comp) ==
    [id |-> f.id, thread |-> c.name, fn |-> f.fn, parent |-> f.parent, start |-> f.start,
     end |-> end, from |-> f.ev, to |-> to, comp |-> comp]

PushGap(c, kind, start, end) ==
    [c EXCEPT !.gaps = @ \union {[thread |-> c.name, kind |-> kind, start |-> start, end |-> end]}]

PushOpen(c, fn, start, ev, comp) ==
    [c EXCEPT !.next = @ + 1,
              !.stack = Append(@, [id |-> c.next, fn |-> fn, start |-> start, ev |-> ev,
                                   comp |-> comp,
                                   parent |-> IF c.stack = <<>> THEN None ELSE Last(c.stack).id])]

\* if let Some(f) = fn { push_open(...) }
PushOpenKnown(c, fn, start, ev) ==
    IF fn = None THEN c ELSE PushOpen(c, fn, start, ev, "open_start")

\* Pop the innermost frame and close_span it.
PopSpan(c, end, ev, comp) ==
    [c EXCEPT !.stack = Front(@), !.spans = @ \union {SpanOf(c, Last(c.stack), end, ev, comp)}]

\* Mutant: the frames stay open.
MutInterruptThread(c) == c

\* Every open frame ends here, with its end unknown: interrupt_thread.
InterruptThread(c) ==
    [c EXCEPT !.stack = <<>>,
              !.spans = @ \union {SpanOf(c, f, None, f.ev, "interrupted") : f \in ToSet(c.stack)}]

\* Mutant: the frames are dropped without a span.
MutCloseAll(c, end) == [c EXCEPT !.stack = <<>>, !.pend = NoEnd]

\* retire_thread and finish: what is open stays open at its end.
CloseAll(c, end) ==
    [c EXCEPT !.stack = <<>>, !.pend = NoEnd,
              !.spans = @ \union {SpanOf(c, f, end, f.ev,
                  IF f.comp \in {"open_start", "open_both"} THEN "open_both" ELSE "open_end") :
                      f \in ToSet(c.stack)}]

-----------------------------------------------------------------------------
(***************************************************************************)
(* apply_flow: first the pending tr end, then the sample itself.           *)
(***************************************************************************)
OrElse(a, b) == IF a = None THEN b ELSE a

\* cpu_first_abs with this sample's time entered already.
CpuFirst(s) == IF s.cpu = None THEN None ELSE OrElse(cpuFirst[s.cpu], s.time)

\* The thread resumed on another CPU, whose ring starts after it left.
RingHole(p, s) ==
    /\ s.cpu # None /\ s.cpu # p.cpu /\ p.abs # None
    /\ CpuFirst(s) # None => CpuFirst(s) > p.abs

\* A ring hole ends the segment where the thread left and starts another one.
SplitSegment(segs, left, now) ==
    LET upto == IF segs # <<>> /\ left # None
                THEN Front(segs) \o << <<Last(segs)[1], left>> >> ELSE segs
    IN  IF now = None THEN segs ELSE Append(upto, <<now, now>>)

\* The samples that go on to ApplyFlow after a pending end.
Continues(c, s) == ~c.pend.set \/ s.flow # "begin"

ResolvePending(c, s, ev) ==
    LET p    == c.pend
        c0   == [c EXCEPT !.pend = NoEnd]
        ic   == InterruptThread(c0)
        hole == [PushGap(ic, "ring_truncation", p.abs, OrElse(CpuFirst(s), s.time))
                     EXCEPT !.segments = SplitSegment(@, p.abs, s.time)]
        same == PushGap(c0, "trace_boundary", p.abs, s.time)
        lost == PushGap(ic, "unknown", p.abs, s.time)
        fn   == OrElse(s.to.fn, s.from.fn)
        ResumedHere == p.fn # None /\ s.to.fn = p.fn
    IN  CASE ~p.set -> c
          [] p.set /\ RingHole(p, s) ->
                IF s.flow = "begin" THEN PushOpenKnown(hole, fn, s.time, ev) ELSE hole
          [] p.set /\ ~RingHole(p, s) /\ s.flow = "begin" /\ ResumedHere ->
                IF c.stack = <<>> THEN PushOpenKnown(same, s.to.fn, OrElse(p.abs, s.time), ev)
                ELSE same
          [] p.set /\ ~RingHole(p, s) /\ s.flow = "begin" /\ ~ResumedHere ->
                PushOpenKnown(lost, fn, s.time, ev)
          [] OTHER -> lost

\* Mutant: a frame whose start was not seen is closed as complete.
MutReturn(c, s, ev) ==
    IF c.stack # <<>> THEN PopSpan(c, s.time, ev, "complete")
    ELSE PushOpenKnown(c, s.to.fn, s.time, ev)

\* FlowKind::Return: close the innermost frame; with none open, the function
\* returned from gets a span of its own and the caller becomes the context.
Return(c, s, ev) ==
    IF c.stack # <<>>
    THEN PopSpan(c, s.time, ev,
                 IF Last(c.stack).comp = "open_start" THEN "open_both" ELSE "complete")
    ELSE PushOpenKnown(
            [c EXCEPT !.next = @ + 1,
                      !.spans = @ \union {[id |-> c.next, thread |-> c.name, fn |-> s.from.fn,
                                           parent |-> None, start |-> None, end |-> s.time,
                                           from |-> ev, to |-> ev, comp |-> "uncertain"]}],
            s.to.fn, s.time, ev)

\* Mutant: the target of a tail call becomes a child of the frame it replaces.
MutTailCall(c, s, ev) ==
    LET parent == IF c.stack = <<>> THEN None ELSE Last(c.stack).id
        popped == IF c.stack = <<>> THEN c ELSE PopSpan(c, s.time, ev, "uncertain")
        opened == PushOpen(popped, s.to.fn, s.time, ev, "open_start")
    IN  [opened EXCEPT !.stack[Len(opened.stack)].parent = parent]

\* A jump between two functions: the current frame ends and the target takes
\* its parent.
TailCall(c, s, ev) ==
    LET parent == IF c.stack = <<>> THEN None ELSE Last(c.stack).parent
        popped == IF c.stack = <<>> THEN c ELSE PopSpan(c, s.time, ev, "uncertain")
        opened == PushOpen(popped, s.to.fn, s.time, ev, "open_start")
    IN  [opened EXCEPT !.stack[Len(opened.stack)].parent = parent]

\* Mutant: the frame stays without a name.
MutNameStub(c, s) == c

\* A frame opened by a call into a stub gets the name the stub jumps to.
NameStub(c, s) == [c EXCEPT !.stack[Len(c.stack)].fn = s.to.fn]

ApplyFlow(c, s, ev) ==
    CASE s.flow = "end" ->
            [c EXCEPT !.pend = [fn |-> s.from.fn, abs |-> s.time, cpu |-> s.cpu, set |-> TRUE]]
      [] s.flow = "async" -> PushGap(InterruptThread(c), "unknown", s.time, None)
      [] s.flow = "begin" ->
            IF c.stack = <<>> THEN PushOpenKnown(c, OrElse(s.to.fn, s.from.fn), s.time, ev) ELSE c
      [] s.flow = "call" -> PushOpen(c, s.to.fn, s.time, ev, "open_end")
      [] s.flow = "return" -> Return(c, s, ev)
      [] s.flow \in {"jump", "cond"} /\ s.from.fn # None /\ s.to.fn # None
            /\ s.from.fn # s.to.fn -> TailCall(c, s, ev)
      [] s.flow \in {"jump", "cond"} /\ s.from.fn = None /\ s.to.fn # None
            /\ c.stack # <<>> /\ Last(c.stack).fn = None -> NameStub(c, s)
      [] OTHER -> c

-----------------------------------------------------------------------------
(***************************************************************************)
(* The records.                                                            *)
(***************************************************************************)
\* Mutant: jumps between functions are taken for jumps inside one.
MutIntra(s) == s.flow \in {"jump", "cond"}

\* Jumps inside a function are counted, not kept.
Intra(s) ==
    /\ s.flow \in {"jump", "cond"}
    /\ s.from.fn = s.to.fn
    /\ \/ s.from.fn # None
       \/ s.from.map = s.to.map /\ (s.flow = "cond" \/ s.from.map = None)

\* Mutant: the origin is the first time seen.
MutNoteAbs(time) == minAbs' = OrElse(minAbs, time)

\* note_abs
NoteAbs(time) ==
    minAbs' = IF time # None /\ (minAbs = None \/ time < minAbs) THEN time ELSE minAbs

SeesCpu(s) ==
    cpuFirst' = IF s.cpu = None THEN cpuFirst
                ELSE [cpuFirst EXCEPT ![s.cpu] = OrElse(@, s.time)]

\* What a record changes and adds.
Adds(t, c) ==
    /\ stack' = [stack EXCEPT ![t] = c.stack]
    /\ pend'  = [pend EXCEPT ![t] = c.pend]
    /\ nextSpan' = c.next
    /\ closed' = closed \union {s.id : s \in c.spans}
    /\ spans' = c.spans /\ gaps' = c.gaps

\* The kernel gives a tid to one task at a time.
TidFree(t) == \A u \in live : u[2] = t[2] => u = t

\* Mutant: time regressions are not a discontinuity.
MutRegressed(c, t, s) == c

Regressed(c, t, s) ==
    IF lastAbs[t] # None /\ s.time # None /\ s.time < lastAbs[t]
    THEN PushGap(InterruptThread(c), "time_regression", lastAbs[t], s.time) ELSE c

\* The current segment reaches to this sample.
Extended(segs, time) ==
    IF time = None THEN segs
    ELSE IF segs = <<>> THEN << <<time, time>> >>
    ELSE Front(segs) \o << <<Last(segs)[1], IF Last(segs)[2] > time THEN Last(segs)[2] ELSE time>> >>

\* push, up to the bound of the model.
Push == phase = "open" /\ pushed < MaxRecords /\ pushed' = pushed + 1

\* push_sample
PushSample(t, s) ==
    /\ Push /\ TidFree(t)
    /\ live' = live \union {t}
    /\ SeesCpu(s) /\ NoteAbs(s.time)
    /\ lastAbs' = [lastAbs EXCEPT ![t] = OrElse(s.time, @)]
    /\ nextEvent' = nextEvent + 1
    /\ stored' = IF Intra(s) THEN stored ELSE stored \union {nextEvent}
    /\ LET c0 == [Context(t) EXCEPT !.segments = Extended(@, s.time)]
           c1 == ResolvePending(Regressed(c0, t, s), s, nextEvent)
           c2 == IF Continues(c0, s) THEN ApplyFlow(c1, s, nextEvent) ELSE c1
       IN  Adds(t, c2) /\ segments' = [segments EXCEPT ![t] = c2.segments]
    /\ UNCHANGED <<ids, retired, phase>>

\* A sample of a task outside the traced tree: only its CPU's first time counts.
ForeignSample(cpu, time) ==
    /\ Push /\ cpuFirst[cpu] = None
    /\ cpuFirst' = [cpuFirst EXCEPT ![cpu] = time]
    /\ spans' = {} /\ gaps' = {}
    /\ UNCHANGED <<threadVars, stateVars, minAbs, nextEvent, nextSpan, stored, closed,
                   phase>>

\* RawRecord::DecoderError of a known task.
PushError(t, time) ==
    /\ Push /\ TidFree(t)
    /\ live' = live \union {t}
    /\ NoteAbs(time)
    /\ Adds(t, PushGap(InterruptThread(Context(t)), "decoder_error", time, None))
    /\ UNCHANGED <<ids, retired, lastAbs, segments, cpuFirst, nextEvent, stored, phase>>

\* RawRecord::Lost, or a decoder error of no known task: a gap of no thread.
PushLost(kind) ==
    /\ Push
    /\ spans' = {}
    /\ gaps' = {[thread |-> None, kind |-> kind, start |-> None, end |-> None]}
    /\ UNCHANGED <<threadVars, stateVars, cpuFirst, minAbs, nextEvent, nextSpan, stored,
                   closed, phase>>

\* PERF_RECORD_EXIT of a task that has samples: retire_thread.
PushExit(t, time) ==
    /\ Push /\ t \in live
    /\ NoteAbs(time)
    /\ live' = live \ {t}
    /\ retired' = retired \union {<<t[1], ThreadName(ids, t)>>}
    /\ ids' = TakeExited(Observe(ids, t), t)
    /\ Adds(t, CloseAll(Context(t), time))
    /\ lastAbs'  = [lastAbs EXCEPT ![t] = None]
    /\ segments' = [segments EXCEPT ![t] = <<>>]
    /\ UNCHANGED <<cpuFirst, nextEvent, stored, phase>>

\* PERF_RECORD_EXIT of a task without any.
PushExitUnseen(t, time) ==
    /\ Push /\ t \notin live
    /\ NoteAbs(time)
    /\ ids' = Observe(ids, t)
    /\ spans' = {} /\ gaps' = {}
    /\ UNCHANGED <<live, retired, stateVars, cpuFirst, nextEvent, nextSpan, stored, closed,
                   phase>>

\* finish, with a usable timestamp: every frame that is open ends open.
Finish ==
    /\ phase = "open" /\ minAbs # None
    /\ phase' = "done"
    /\ spans' = UNION {CloseAll(Context(t), None).spans : t \in live}
    /\ closed' = closed \union {s.id : s \in spans'}
    /\ gaps' = {}
    /\ stack' = [t \in Tasks |-> <<>>]
    /\ pend'  = [t \in Tasks |-> NoEnd]
    /\ UNCHANGED <<threadVars, lastAbs, segments, cpuFirst, minAbs, nextEvent, nextSpan,
                   stored, pushed>>

\* finish without one: the decode fails.
FinishFails ==
    /\ phase = "open" /\ minAbs = None
    /\ phase' = "failed"
    /\ spans' = {} /\ gaps' = {}
    /\ UNCHANGED <<threadVars, stateVars, cpuFirst, minAbs, nextEvent, nextSpan, stored, closed,
                   pushed>>

Finished == phase # "open" /\ UNCHANGED vars

-----------------------------------------------------------------------------
Next ==
    \/ \E t \in Tasks, s \in Samples : PushSample(t, s)
    \/ \E c \in CPUs, time \in Times : ForeignSample(c, time)
    \/ \E t \in Tasks, time \in OptTime : PushError(t, time) \/ PushExit(t, time)
                                          \/ PushExitUnseen(t, time)
    \/ \E kind \in {"pt_loss", "decoder_error"} : PushLost(kind)
    \/ Finish \/ FinishFails \/ Finished

Spec == Init /\ [][Next]_vars

-----------------------------------------------------------------------------
(***************************************************************************)
(* Properties.                                                             *)
(***************************************************************************)
\* The ids of the frames open on t's stack.
OpenIds(t) == {stack[t][i].id : i \in 1..Len(stack[t])}

\* No call is lost and none is told twice: every span id handed out is either
\* open on exactly one stack, once, or has been emitted, and finish emits all.
SpansConserved ==
    /\ closed \union UNION {OpenIds(t) : t \in Tasks} = {n \in 0..nextSpan : n < nextSpan}
    /\ \A t \in Tasks : OpenIds(t) \intersect closed = {}
    /\ \A t \in Tasks : Cardinality(OpenIds(t)) = Len(stack[t])
    /\ \A t, u \in Tasks : t # u => OpenIds(t) \intersect OpenIds(u) = {}
    /\ phase = "done" => closed = {n \in 0..nextSpan : n < nextSpan}

\* A frame's parent is the frame below it, also after tail calls; the outermost
\* frame has none.
StackLinked ==
    \A t \in Tasks : \A i \in 1..Len(stack[t]) :
        stack[t][i].parent = IF i = 1 THEN None ELSE stack[t][i - 1].id

\* The evidence of every span is a stored event: no frame is opened or closed
\* by a sample the retention policy throws away.
EvidenceStored ==
    /\ \A t \in Tasks : \A i \in 1..Len(stack[t]) : stack[t][i].ev \in stored
    /\ \A s \in spans : s.from \in stored /\ s.to \in stored

\* Frames are linked and backed by events that are in the analysis.
FramesAreGrounded == StackLinked /\ EvidenceStored

\* A call reported as complete does not end before it started, whatever order
\* the records of its thread came in.
DurationsSane ==
    \A s \in spans : s.comp = "complete" /\ s.start # None /\ s.end # None
        => s.start <= s.end

\* rebase never fails: no stored time precedes the origin of the snapshot.
OriginIsFirst ==
    \A x \in spans \union gaps : \A time \in {x.start, x.end} \ {None} :
        minAbs # None /\ minAbs <= time

\* Times stay usable however the records of threads and CPUs are ordered: no
\* complete call of negative length, none before the origin (rebase, close_span).
TimesAreSane == DurationsSane /\ OriginIsFirst

\* A discontinuity of a thread cuts its stack: no frame that was open before
\* it is open after it, so no complete span reaches across one.
GapsCut ==
    [][\A t \in Tasks :
          (\E g \in gaps' : g.thread = ThreadName(ids, t) /\ t \in live' /\ g.kind # "trace_boundary")
              => \A i \in 1..Len(stack'[t]) : stack'[t][i].id >= nextSpan]_vars

\* Within a process a name stands for one thread, "t_<tid>_g<n> for the n-th
\* reuse of a tid": no thread gets the name of another, nor of one that exited.
NamesAreUnique ==
    /\ \A t \in live : <<t[1], ThreadName(ids, t)>> \notin retired
    /\ \A t, u \in live : t[1] = u[1] /\ ThreadName(ids, t) = ThreadName(ids, u) => t = u

=============================================================================
