-------------------------- MODULE ReconstructProofs --------------------------
(***************************************************************************)
(* Call reconstruction, proved for any tasks, functions, CPUs, times and   *)
(* number of records.                                                      *)
(*                                                                         *)
(* The helpers of push_sample work on a context: the part of the state one *)
(* record of one thread may change.  What the invariants say of the state  *)
(* is said of a context here, and every helper keeps it.                   *)
(*                                                                         *)
(* The second part follows the program of CallTruth along with the records *)
(* of its steps, and proves the reconstructed stack to be the program's.   *)
(***************************************************************************)
EXTENDS CallTruth, FiniteSetTheorems, TLAPS

Segs     == Seq(Times \X Times)
Contexts == [name : Names, stack : Seq(Frames), pend : Ends, segments : Segs,
             next : Nat, spans : SUBSET Spans, gaps : SUBSET Gaps]

\* The ids of the open frames and of the spans added.
OpenIn(c)  == {c.stack[i].id : i \in 1..Len(c.stack)}
Emitted(c) == {s.id : s \in c.spans}

\* Frames are opened in the order of their ids.
Ordered(c) ==
    \A i \in 1..Len(c.stack) :
        /\ c.stack[i].id < c.next
        /\ \A j \in 1..Len(c.stack) : i < j => c.stack[i].id < c.stack[j].id

\* The ids handed out since id n, and those that were open, are open or emitted.
Conserved(c, n, open) ==
    /\ n <= c.next /\ \A k \in open : k \in Nat /\ k < n
    /\ OpenIn(c) \union Emitted(c) = open \union {k \in Nat : n <= k /\ k < c.next}
    /\ OpenIn(c) \intersect Emitted(c) = {}

Linked(c) ==
    \A i \in 1..Len(c.stack) :
        c.stack[i].parent = IF i = 1 THEN None ELSE c.stack[i - 1].id

\* The evidence is among the events kept.
Backed(c, kept) ==
    /\ \A i \in 1..Len(c.stack) : c.stack[i].ev \in kept
    /\ \A s \in c.spans : s.from \in kept /\ s.to \in kept

\* A time, if there is one, is not before the origin.
After(origin, time) == time # None => origin # None /\ origin <= time

Timely(c, origin) ==
    /\ After(origin, c.pend.abs)
    /\ \A i \in 1..Len(c.stack) : After(origin, c.stack[i].start)
    /\ \A x \in c.spans \union c.gaps : After(origin, x.start) /\ After(origin, x.end)

\* A frame opened by a call, the only kind that ends complete, started no
\* later than the last sample.
Started(c, last) ==
    /\ \A i \in 1..Len(c.stack) :
          /\ c.stack[i].comp \in {"open_start", "open_end"}
          /\ c.stack[i].comp = "open_end" /\ c.stack[i].start # None
                => last # None /\ c.stack[i].start <= last
    /\ \A s \in c.spans : s.comp = "complete" /\ s.start # None /\ s.end # None => s.start <= s.end

\* A discontinuity leaves nothing open that was open before.
Cut(c, n) ==
    (\E g \in c.gaps : g.kind # "trace_boundary") =>
        \A i \in 1..Len(c.stack) : c.stack[i].id >= n

\* Gaps carry the name of the thread.
Signed(c, name) == c.name = name /\ \A g \in c.gaps : g.thread = name

\* One frame more, and another frame on top.
Grows(a, b)  == Len(b) = Len(a) + 1 /\ \A i \in 1..Len(a) : b[i] = a[i]
Retops(a, b) == Len(b) = Len(a) /\ \A i \in 1..Len(a) - 1 : b[i] = a[i]

\* All of it: n and open are from before the record, kept, last and origin are
\* those after it.
Good(c, n, open, kept, last, origin, name) ==
    /\ c \in Contexts /\ Ordered(c) /\ Conserved(c, n, open) /\ Linked(c) /\ Backed(c, kept)
    /\ Timely(c, origin) /\ Started(c, last) /\ Cut(c, n) /\ Signed(c, name)

-----------------------------------------------------------------------------
\* What the elements of a context are.
LEMMA ContextTypes ==
    ASSUME NEW c \in Contexts
    PROVE  /\ c.stack \in Seq(Frames) /\ Len(c.stack) \in Nat
           /\ \A i \in 1..Len(c.stack) :
                 /\ c.stack[i] \in Frames
                 /\ c.stack[i].id \in Nat /\ c.stack[i].ev \in Nat
                 /\ c.stack[i].start \in OptTime /\ c.stack[i].comp \in Completeness
           /\ c.next \in Nat /\ c.name \in Names /\ c.pend \in Ends /\ c.pend.abs \in OptTime
           /\ c.spans \subseteq Spans /\ c.gaps \subseteq Gaps
<1>1. /\ c.stack \in Seq(Frames) /\ c.next \in Nat /\ c.name \in Names /\ c.pend \in Ends
      /\ c.spans \subseteq Spans /\ c.gaps \subseteq Gaps
    BY DEF Contexts
<1>2. c.pend.abs \in OptTime
    BY <1>1 DEF Ends
<1>3. Len(c.stack) \in Nat /\ \A i \in 1..Len(c.stack) : c.stack[i] \in Frames
    BY <1>1
<1>4. \A f \in Frames : f.id \in Nat /\ f.ev \in Nat /\ f.start \in OptTime /\ f.comp \in Completeness
    BY DEF Frames
<1> QED BY <1>1, <1>2, <1>3, <1>4

\* interrupt_thread emits what is open.
LEMMA InterruptGood ==
    ASSUME NEW c, NEW n \in Nat, NEW open, NEW kept, NEW last, NEW last2, NEW origin, NEW name,
           Good(c, n, open, kept, last, origin, name)
    PROVE  /\ Good(InterruptThread(c), n, open, kept, last2, origin, name)
           /\ InterruptThread(c).stack = <<>> /\ InterruptThread(c).pend = c.pend
           /\ InterruptThread(c).gaps = c.gaps
<1> DEFINE d == InterruptThread(c)
           Closing(f) == SpanOf(c, f, None, f.ev, "interrupted")
<1>1. c \in Contexts
    BY DEF Good
<1>2. /\ d.stack = <<>> /\ d.pend = c.pend /\ d.gaps = c.gaps /\ d.next = c.next
      /\ d.name = c.name /\ d.segments = c.segments
      /\ d.spans = c.spans \union {Closing(c.stack[i]) : i \in 1..Len(c.stack)}
  <2>1. ToSet(c.stack) = {c.stack[i] : i \in 1..Len(c.stack)}
    BY <1>1, ContextTypes DEF ToSet
  <2> QED BY <1>1, <2>1 DEF InterruptThread, Contexts
<1>3. /\ Ordered(c) /\ Conserved(c, n, open) /\ Linked(c) /\ Backed(c, kept)
      /\ Timely(c, origin) /\ Started(c, last) /\ Cut(c, n) /\ Signed(c, name)
    BY DEF Good
<1>t. /\ Len(c.stack) \in Nat /\ c.next \in Nat /\ c.name \in Names
      /\ \A i \in 1..Len(c.stack) : c.stack[i] \in Frames
    BY <1>1, ContextTypes
<1>e. Len(d.stack) = 0 /\ 1..Len(d.stack) = {}
    BY <1>2
<1>s. \A f : /\ Closing(f).id = f.id /\ Closing(f).from = f.ev /\ Closing(f).to = f.ev
             /\ Closing(f).start = f.start /\ Closing(f).end = None
             /\ Closing(f).comp = "interrupted"
    BY DEF SpanOf
<1>4. d \in Contexts
  <2>1. \A f \in Frames : Closing(f) \in Spans
    BY <1>t DEF SpanOf, Spans, Frames, OptTime, Completeness
  <2>2. d.spans \in SUBSET Spans
    BY <1>1, <1>2, <1>t, <2>1, ContextTypes
  <2>3. \A x \in Seq(Frames), y \in SUBSET Spans : [c EXCEPT !.stack = x, !.spans = y] \in Contexts
    BY <1>1 DEF Contexts
  <2>4. d = [c EXCEPT !.stack = <<>>, !.spans = d.spans]
    BY <1>1, <1>2 DEF InterruptThread, Contexts
  <2>5. <<>> \in Seq(Frames)
    OBVIOUS
  <2> QED BY <2>2, <2>3, <2>4, <2>5, Zenon
<1> HIDE DEF d, Closing
<1>5. Ordered(d) /\ Linked(d) /\ Cut(d, n)
    BY <1>e DEF Ordered, Linked, Cut
<1>6. Conserved(d, n, open)
  <2>1. OpenIn(d) = {}
    BY <1>e DEF OpenIn
  <2>2. Emitted(d) = Emitted(c) \union OpenIn(c)
    <3>1. ASSUME NEW x \in d.spans PROVE x.id \in Emitted(c) \union OpenIn(c)
      BY <1>2, <1>s, <3>1 DEF Emitted, OpenIn
    <3>2. ASSUME NEW i \in 1..Len(c.stack) PROVE c.stack[i].id \in Emitted(d)
      <4>1. Closing(c.stack[i]) \in d.spans
        BY <1>2
      <4> QED BY <1>s, <4>1 DEF Emitted
    <3>3. Emitted(c) \subseteq Emitted(d)
      BY <1>2 DEF Emitted
    <3> QED BY <3>1, <3>2, <3>3 DEF Emitted, OpenIn
  <2> QED BY <1>2, <1>3, <2>1, <2>2 DEF Conserved
<1>7. Backed(d, kept)
    BY <1>2, <1>3, <1>e, <1>s DEF Backed
<1>8. Timely(d, origin)
    BY <1>2, <1>3, <1>e, <1>s DEF Timely, After
<1>9. Started(d, last2)
    BY <1>2, <1>3, <1>e, <1>s DEF Started
<1>y. Signed(d, name)
    BY <1>2, <1>3 DEF Signed
<1> QED BY <1>2, <1>4, <1>5, <1>6, <1>7, <1>8, <1>9, <1>y DEF Good, d

\* push_gap, of a boundary or of a thread with nothing open.
LEMMA PushGapGood ==
    ASSUME NEW c, NEW n \in Nat, NEW open, NEW kept, NEW last, NEW origin, NEW name,
           Good(c, n, open, kept, last, origin, name),
           NEW kind \in GapKinds, NEW start \in OptTime, NEW end \in OptTime,
           After(origin, start), After(origin, end),
           kind = "trace_boundary" \/ c.stack = <<>>
    PROVE  /\ Good(PushGap(c, kind, start, end), n, open, kept, last, origin, name)
           /\ PushGap(c, kind, start, end).stack = c.stack
           /\ PushGap(c, kind, start, end).pend = c.pend
<1> DEFINE d == PushGap(c, kind, start, end)
           g == [thread |-> c.name, kind |-> kind, start |-> start, end |-> end]
<1>1. c \in Contexts
    BY DEF Good
<1>2. /\ d.stack = c.stack /\ d.pend = c.pend /\ d.spans = c.spans /\ d.next = c.next
      /\ d.name = c.name /\ d.segments = c.segments /\ d.gaps = c.gaps \union {g}
    BY <1>1 DEF PushGap, Contexts
<1>3. /\ Ordered(c) /\ Conserved(c, n, open) /\ Linked(c) /\ Backed(c, kept)
      /\ Timely(c, origin) /\ Started(c, last) /\ Cut(c, n) /\ Signed(c, name)
    BY DEF Good
<1>4. d \in Contexts
  <2>1. g \in Gaps
    BY <1>1, ContextTypes DEF Gaps
  <2>2. \A y \in SUBSET Gaps : [c EXCEPT !.gaps = y] \in Contexts
    BY <1>1 DEF Contexts
  <2>3. d = [c EXCEPT !.gaps = c.gaps \union {g}]
    BY DEF PushGap
  <2>4. c.gaps \union {g} \in SUBSET Gaps
    BY <1>1, <2>1, ContextTypes
  <2> QED BY <2>2, <2>3, <2>4, Zenon
<1>g. g.thread = c.name /\ g.kind = kind /\ g.start = start /\ g.end = end
    OBVIOUS
<1> HIDE DEF d, g
<1>5. Ordered(d) /\ Linked(d)
    BY <1>2, <1>3 DEF Ordered, Linked
<1>6. Conserved(d, n, open) /\ Backed(d, kept)
  <2>1. OpenIn(d) = OpenIn(c) /\ Emitted(d) = Emitted(c)
    BY <1>2 DEF OpenIn, Emitted
  <2>2. Conserved(d, n, open)
    BY <1>2, <1>3, <2>1 DEF Conserved
  <2>3. Backed(d, kept)
    BY <1>2, <1>3 DEF Backed
  <2> QED BY <2>2, <2>3
<1>7. Timely(d, origin)
  <2>1. \A x \in d.spans \union d.gaps : x = g \/ x \in c.spans \union c.gaps
    BY <1>2
  <2> QED BY <1>2, <1>3, <1>g, <2>1 DEF Timely
<1>8. Started(d, last)
    BY <1>2, <1>3 DEF Started
<1>9. Cut(d, n)
  <2>1. CASE c.stack = <<>>
    BY <1>2, <2>1 DEF Cut
  <2>2. CASE kind = "trace_boundary"
    BY <1>2, <1>3, <1>g, <2>2 DEF Cut
  <2> QED BY <2>1, <2>2
<1>y. Signed(d, name)
    BY <1>2, <1>3, <1>g DEF Signed
<1> QED BY <1>2, <1>4, <1>5, <1>6, <1>7, <1>8, <1>9, <1>y DEF Good, d

\* push_open: the new frame is the innermost one.
LEMMA PushOpenGood ==
    ASSUME NEW c, NEW n \in Nat, NEW open, NEW kept, NEW last, NEW origin, NEW name,
           Good(c, n, open, kept, last, origin, name),
           NEW fn \in OptFn, NEW start \in OptTime, NEW ev \in Nat, ev \in kept,
           NEW comp \in {"open_start", "open_end"},
           After(origin, start),
           comp = "open_end" /\ start # None => last # None /\ start <= last
    PROVE  Good(PushOpen(c, fn, start, ev, comp), n, open, kept, last, origin, name)
<1> DEFINE d == PushOpen(c, fn, start, ev, comp)
           up == IF c.stack = <<>> THEN None ELSE Last(c.stack).id
           f == [id |-> c.next, fn |-> fn, start |-> start, ev |-> ev, comp |-> comp, parent |-> up]
           m == Len(c.stack) + 1
<1>1. c \in Contexts
    BY DEF Good
<1>2. /\ d.stack = Append(c.stack, f) /\ d.pend = c.pend /\ d.spans = c.spans /\ d.next = c.next + 1
      /\ d.name = c.name /\ d.segments = c.segments /\ d.gaps = c.gaps
    BY <1>1 DEF PushOpen, Contexts
<1>3. /\ Ordered(c) /\ Conserved(c, n, open) /\ Linked(c) /\ Backed(c, kept)
      /\ Timely(c, origin) /\ Started(c, last) /\ Cut(c, n) /\ Signed(c, name)
    BY DEF Good
<1>t. /\ c.stack \in Seq(Frames) /\ Len(c.stack) \in Nat /\ c.next \in Nat
      /\ \A i \in 1..Len(c.stack) : c.stack[i] \in Frames /\ c.stack[i].id \in Nat
    BY <1>1, ContextTypes
<1>u. /\ c.stack = <<>> => up = None
      /\ c.stack # <<>> => Len(c.stack) >= 1 /\ up = c.stack[Len(c.stack)].id /\ up \in Nat
    BY <1>t DEF Last
<1> HIDE DEF up
<1>f. /\ f \in Frames /\ f.id = c.next /\ f.start = start /\ f.ev = ev /\ f.comp = comp
      /\ f.parent = up
    BY <1>t, <1>u DEF Frames, OptNat, Completeness
<1> HIDE DEF f
<1>s. /\ Len(d.stack) = m /\ m \in Nat /\ d.stack[m] = f
      /\ \A i \in 1..Len(c.stack) : d.stack[i] = c.stack[i]
      /\ \A i \in 1..m : i \in 1..Len(c.stack) \/ i = m
      /\ \A i \in 1..Len(c.stack) : i \in 1..m /\ i < m
    BY <1>2, <1>f, <1>t
<1>4. d \in Contexts
  <2>1. \A x \in Seq(Frames), y \in Nat : [c EXCEPT !.next = y, !.stack = x] \in Contexts
    BY <1>1 DEF Contexts
  <2>2. d = [c EXCEPT !.next = c.next + 1, !.stack = Append(c.stack, f)]
    BY DEF PushOpen, f, up
  <2>3. c.next + 1 \in Nat /\ Append(c.stack, f) \in Seq(Frames)
    BY <1>f, <1>t
  <2> QED BY <2>1, <2>2, <2>3, Zenon
<1> HIDE DEF d, m
<1>5. Ordered(d)
  <2>1. d.next = c.next + 1 /\ c.next \in Nat /\ f.id = c.next
    BY <1>2, <1>f, <1>t
  <2>2. ASSUME NEW i \in 1..m PROVE d.stack[i].id < d.next
    <3>1. CASE i \in 1..Len(c.stack)
      <4>1. c.stack[i].id < c.next /\ c.stack[i].id \in Nat /\ d.stack[i] = c.stack[i]
        BY <1>3, <1>s, <1>t, <3>1 DEF Ordered
      <4> QED BY <2>1, <4>1
    <3>2. CASE i = m
      BY <1>s, <2>1, <3>2
    <3> QED BY <1>s, <3>1, <3>2
  <2>3. ASSUME NEW i \in 1..m, NEW j \in 1..m, i < j
        PROVE  d.stack[i].id < d.stack[j].id
    <3>1. i \in 1..Len(c.stack) /\ c.stack[i].id < c.next
      BY <1>3, <1>s, <2>3 DEF Ordered
    <3>2. CASE j \in 1..Len(c.stack)
      BY <1>3, <1>s, <2>3, <3>1, <3>2 DEF Ordered
    <3>3. CASE j = m
      BY <1>s, <2>1, <3>1, <3>3
    <3> QED BY <1>s, <3>2, <3>3
  <2> QED BY <1>s, <2>2, <2>3 DEF Ordered
<1>6. Linked(d)
  <2> SUFFICES ASSUME NEW i \in 1..m
               PROVE  d.stack[i].parent = IF i = 1 THEN None ELSE d.stack[i - 1].id
    BY <1>s DEF Linked
  <2>1. CASE i \in 1..Len(c.stack)
    <3>1. c.stack[i].parent = IF i = 1 THEN None ELSE c.stack[i - 1].id
      BY <1>3, <2>1 DEF Linked
    <3>2. d.stack[i] = c.stack[i] /\ (i # 1 => d.stack[i - 1] = c.stack[i - 1])
      <4>1. i # 1 => i - 1 \in 1..Len(c.stack)
        BY <1>t, <2>1
      <4> QED BY <1>s, <2>1, <4>1
    <3> QED BY <3>1, <3>2
  <2>2. CASE i = m
    <3>1. d.stack[i].parent = up
      BY <1>f, <1>s, <2>2
    <3>2. CASE c.stack = <<>>
      BY <1>u, <2>2, <3>1, <3>2 DEF m
    <3>3. CASE c.stack # <<>>
      <4>1. i # 1 /\ i - 1 = Len(c.stack) /\ i - 1 \in 1..Len(c.stack)
        BY <1>t, <1>u, <2>2, <3>3 DEF m
      <4> QED BY <1>s, <1>u, <3>1, <3>3, <4>1
    <3> QED BY <3>2, <3>3
  <2> QED BY <1>s, <2>1, <2>2
<1>7. Conserved(d, n, open)
  <2>1. OpenIn(d) = OpenIn(c) \union {c.next} /\ Emitted(d) = Emitted(c)
    <3>1. OpenIn(d) = {d.stack[i].id : i \in 1..Len(c.stack)} \union {d.stack[m].id}
      BY <1>s DEF OpenIn, m
    <3>2. {d.stack[i].id : i \in 1..Len(c.stack)} = OpenIn(c)
      BY <1>s DEF OpenIn
    <3> QED BY <1>2, <1>f, <1>s, <3>1, <3>2 DEF Emitted
  <2>2. {k \in Nat : n <= k /\ k < d.next} = {k \in Nat : n <= k /\ k < c.next} \union {c.next}
    BY <1>2, <1>3, <1>t DEF Conserved
  <2>3. c.next \notin Emitted(c)
    BY <1>3, <1>t DEF Conserved
  <2> QED BY <1>2, <1>3, <1>t, <2>1, <2>2, <2>3 DEF Conserved
<1>8. Backed(d, kept)
    BY <1>2, <1>3, <1>f, <1>s DEF Backed
<1>9. Timely(d, origin)
    BY <1>2, <1>3, <1>f, <1>s DEF Timely
<1>10. Started(d, last)
    BY <1>2, <1>3, <1>f, <1>s DEF Started
<1>11. Cut(d, n)
    BY <1>2, <1>3, <1>f, <1>s, <1>t DEF Cut, Conserved
<1>y. Signed(d, name)
    BY <1>2, <1>3 DEF Signed
<1> QED BY <1>4, <1>5, <1>6, <1>7, <1>8, <1>9, <1>10, <1>11, <1>y DEF Good, d

\* The frame push_open adds: its parent is the one that was innermost.
LEMMA PushOpenStack ==
    ASSUME NEW c \in Contexts, NEW fn, NEW start, NEW ev, NEW comp
    PROVE  PushOpen(c, fn, start, ev, comp).stack =
             Append(c.stack, [id |-> c.next, fn |-> fn, start |-> start, ev |-> ev, comp |-> comp,
                              parent |-> IF c.stack = <<>> THEN None ELSE Last(c.stack).id])
    BY DEF PushOpen, Contexts

\* if let Some(f) = fn { push_open(...) }
LEMMA PushOpenKnownGood ==
    ASSUME NEW c, NEW n \in Nat, NEW open, NEW kept, NEW last, NEW origin, NEW name,
           Good(c, n, open, kept, last, origin, name),
           NEW fn \in OptFn, NEW start \in OptTime, NEW ev \in Nat, ev \in kept,
           After(origin, start)
    PROVE  Good(PushOpenKnown(c, fn, start, ev), n, open, kept, last, origin, name)
<1>1. CASE fn = None
    BY <1>1 DEF PushOpenKnown
<1>2. CASE fn # None
    BY <1>2, PushOpenGood DEF PushOpenKnown
<1> QED BY <1>1, <1>2

\* A span closes the innermost frame.
LEMMA PopSpanGood ==
    ASSUME NEW c, NEW n \in Nat, NEW open, NEW kept, NEW last, NEW origin, NEW name,
           Good(c, n, open, kept, last, origin, name), c.stack # <<>>,
           NEW end \in OptTime, NEW ev \in Nat, ev \in kept, NEW comp \in Completeness,
           After(origin, end),
           comp = "complete" /\ Last(c.stack).start # None /\ end # None
                => Last(c.stack).start <= end
    PROVE  /\ Good(PopSpan(c, end, ev, comp), n, open, kept, last, origin, name)
           /\ PopSpan(c, end, ev, comp).stack = Front(c.stack)
<1> DEFINE d == PopSpan(c, end, ev, comp)
           f == Last(c.stack)
           sp == SpanOf(c, f, end, ev, comp)
           m == Len(c.stack)
<1>1. c \in Contexts
    BY DEF Good
<1>2. /\ d.stack = Front(c.stack) /\ d.pend = c.pend /\ d.spans = c.spans \union {sp}
      /\ d.next = c.next /\ d.name = c.name /\ d.segments = c.segments /\ d.gaps = c.gaps
    BY <1>1 DEF PopSpan, Contexts
<1>3. /\ Ordered(c) /\ Conserved(c, n, open) /\ Linked(c) /\ Backed(c, kept)
      /\ Timely(c, origin) /\ Started(c, last) /\ Cut(c, n) /\ Signed(c, name)
    BY DEF Good
<1>t. /\ c.stack \in Seq(Frames) /\ m \in Nat /\ c.next \in Nat /\ c.name \in Names
      /\ \A i \in 1..m : c.stack[i] \in Frames /\ c.stack[i].id \in Nat
    BY <1>1, ContextTypes
<1>f. m >= 1 /\ m \in 1..m /\ f = c.stack[m] /\ f \in Frames /\ f.id \in Nat
    BY <1>t DEF Last
<1>s. /\ Len(d.stack) = m - 1 /\ d.stack \in Seq(Frames)
      /\ \A i \in 1..Len(d.stack) : i \in 1..m /\ i < m /\ d.stack[i] = c.stack[i]
      /\ \A i \in 1..m : i \in 1..Len(d.stack) \/ i = m
    BY <1>2, <1>t, <1>f DEF Front
<1>p. /\ sp.id = f.id /\ sp.from = f.ev /\ sp.to = ev /\ sp.start = f.start /\ sp.end = end
      /\ sp.comp = comp
    BY DEF SpanOf
<1>4. d \in Contexts
  <2>1. sp \in Spans
    <3> HIDE DEF f
    <3> QED BY <1>t, <1>f DEF SpanOf, Spans, Frames
  <2>2. \A x \in Seq(Frames), y \in SUBSET Spans : [c EXCEPT !.stack = x, !.spans = y] \in Contexts
    BY <1>1 DEF Contexts
  <2>3. d = [c EXCEPT !.stack = d.stack, !.spans = d.spans]
    BY <1>1, <1>2 DEF PopSpan, Contexts
  <2>4. d.spans \in SUBSET Spans
    BY <1>1, <1>2, <2>1, ContextTypes
  <2> QED BY <1>s, <2>2, <2>3, <2>4, Zenon
<1> HIDE DEF d, f, sp, m
<1>5. Ordered(d)
    BY <1>2, <1>3, <1>s, <1>t DEF Ordered, m
<1>6. Linked(d)
  <2> SUFFICES ASSUME NEW i \in 1..Len(d.stack)
               PROVE  d.stack[i].parent = IF i = 1 THEN None ELSE d.stack[i - 1].id
    BY DEF Linked
  <2>1. c.stack[i].parent = IF i = 1 THEN None ELSE c.stack[i - 1].id
    BY <1>3, <1>s DEF Linked, m
  <2>2. d.stack[i] = c.stack[i] /\ (i # 1 => d.stack[i - 1] = c.stack[i - 1])
    <3>1. i # 1 => i - 1 \in 1..Len(d.stack)
      BY <1>f, <1>s, <1>t
    <3> QED BY <1>s, <3>1
  <2> QED BY <2>1, <2>2
<1>7. Conserved(d, n, open)
  <2>1. Emitted(d) = Emitted(c) \union {f.id}
    BY <1>2, <1>p DEF Emitted
  <2>2. OpenIn(c) = OpenIn(d) \union {f.id}
    <3>1. OpenIn(d) = {c.stack[i].id : i \in 1..Len(d.stack)}
      BY <1>s DEF OpenIn
    <3>0. 1..m = 1..Len(d.stack) \union {m} /\ OpenIn(c) = {c.stack[i].id : i \in 1..m}
      BY <1>f, <1>s DEF OpenIn, m
    <3>2. OpenIn(c) = {c.stack[i].id : i \in 1..Len(d.stack)} \union {c.stack[m].id}
      <4>1. \A S, T, x : S = T \union {x} =>
                {c.stack[i].id : i \in S} = {c.stack[i].id : i \in T} \union {c.stack[x].id}
        OBVIOUS
      <4> QED BY <3>0, <4>1
    <3> QED BY <1>f, <3>1, <3>2
  <2>3. f.id \notin OpenIn(d)
    <3>1. ASSUME NEW i \in 1..Len(d.stack) PROVE d.stack[i].id # f.id
      <4>1. i \in 1..m /\ i < m /\ d.stack[i] = c.stack[i] /\ m \in 1..m
        BY <1>f, <1>s
      <4>2. c.stack[i].id < c.stack[m].id
        BY <1>3, <4>1 DEF Ordered, m
      <4> QED BY <1>f, <1>t, <4>1, <4>2
    <3> QED BY <3>1 DEF OpenIn
  <2> QED BY <1>2, <1>3, <2>1, <2>2, <2>3 DEF Conserved
<1>8. Backed(d, kept)
    BY <1>2, <1>3, <1>f, <1>p, <1>s DEF Backed, m
<1>9. Timely(d, origin)
  <2>1. \A x \in d.spans \union d.gaps : x = sp \/ x \in c.spans \union c.gaps
    BY <1>2
  <2>2. After(origin, f.start)
    BY <1>3, <1>f DEF Timely, m
  <2> QED BY <1>2, <1>3, <1>p, <1>s, <2>1, <2>2 DEF Timely, m
<1>10. Started(d, last)
    BY <1>2, <1>3, <1>p, <1>s DEF Started, m, f
<1>11. Cut(d, n)
    BY <1>2, <1>3, <1>s DEF Cut, m
<1>y. Signed(d, name)
    BY <1>2, <1>3 DEF Signed
<1> QED BY <1>2, <1>4, <1>5, <1>6, <1>7, <1>8, <1>9, <1>10, <1>11, <1>y DEF Good, d

\* A span of its own, with the next id.
LEMMA FreshSpanGood ==
    ASSUME NEW c, NEW n \in Nat, NEW open, NEW kept, NEW last, NEW origin, NEW name,
           Good(c, n, open, kept, last, origin, name),
           NEW sp \in Spans, sp.id = c.next, sp.from \in kept, sp.to \in kept,
           sp.comp # "complete", After(origin, sp.start), After(origin, sp.end)
    PROVE  Good([c EXCEPT !.next = @ + 1, !.spans = @ \union {sp}], n, open, kept, last, origin, name)
<1> DEFINE d == [c EXCEPT !.next = @ + 1, !.spans = @ \union {sp}]
<1>1. c \in Contexts
    BY DEF Good
<1>2. /\ d.stack = c.stack /\ d.pend = c.pend /\ d.spans = c.spans \union {sp}
      /\ d.next = c.next + 1 /\ d.name = c.name /\ d.segments = c.segments /\ d.gaps = c.gaps
    BY <1>1 DEF Contexts
<1>3. /\ Ordered(c) /\ Conserved(c, n, open) /\ Linked(c) /\ Backed(c, kept)
      /\ Timely(c, origin) /\ Started(c, last) /\ Cut(c, n) /\ Signed(c, name)
    BY DEF Good
<1>t. /\ c.next \in Nat /\ c.next + 1 \in Nat /\ c.spans \union {sp} \in SUBSET Spans
      /\ \A i \in 1..Len(c.stack) : c.stack[i].id \in Nat
    BY <1>1, ContextTypes
<1>4. d \in Contexts
  <2>1. \A x \in Nat, y \in SUBSET Spans : [c EXCEPT !.next = x, !.spans = y] \in Contexts
    BY <1>1 DEF Contexts
  <2> QED BY <1>t, <2>1, Zenon
<1> HIDE DEF d
<1>5. Ordered(d) /\ Linked(d)
    BY <1>2, <1>3, <1>t DEF Ordered, Linked
<1>6. Conserved(d, n, open)
  <2>1. Emitted(d) = Emitted(c) \union {c.next} /\ OpenIn(d) = OpenIn(c)
    BY <1>2 DEF Emitted, OpenIn
  <2>2. {k \in Nat : n <= k /\ k < d.next} = {k \in Nat : n <= k /\ k < c.next} \union {c.next}
    BY <1>2, <1>3, <1>t DEF Conserved
  <2>3. c.next \notin OpenIn(c)
    BY <1>3, <1>t DEF Conserved
  <2> QED BY <1>2, <1>3, <1>t, <2>1, <2>2, <2>3 DEF Conserved
<1>7. Backed(d, kept)
    BY <1>2, <1>3 DEF Backed
<1>8. Timely(d, origin)
  <2>1. \A x \in d.spans \union d.gaps : x = sp \/ x \in c.spans \union c.gaps
    BY <1>2
  <2> QED BY <1>2, <1>3, <2>1 DEF Timely
<1>9. Started(d, last) /\ Cut(d, n)
    BY <1>2, <1>3 DEF Started, Cut
<1>y. Signed(d, name)
    BY <1>2, <1>3 DEF Signed
<1> QED BY <1>4, <1>5, <1>6, <1>7, <1>8, <1>9, <1>y DEF Good, d

\* A change of the innermost frame's name.
LEMMA NameStubGood ==
    ASSUME NEW c, NEW n \in Nat, NEW open, NEW kept, NEW last, NEW origin, NEW name,
           Good(c, n, open, kept, last, origin, name), c.stack # <<>>,
           NEW s, s.to.fn \in OptFn
    PROVE  /\ Good(NameStub(c, s), n, open, kept, last, origin, name)
           /\ NameStub(c, s).pend = c.pend /\ NameStub(c, s).spans = c.spans
           /\ Retops(c.stack, NameStub(c, s).stack)
           /\ NameStub(c, s).stack[Len(c.stack)].fn = s.to.fn
           /\ NameStub(c, s).stack[Len(c.stack)].comp = c.stack[Len(c.stack)].comp
           /\ NameStub(c, s).stack[Len(c.stack)].start = c.stack[Len(c.stack)].start
<1> DEFINE d == NameStub(c, s)
           m == Len(c.stack)
           f == [c.stack[m] EXCEPT !.fn = s.to.fn]
<1>1. c \in Contexts
    BY DEF Good
<1>t. /\ c.stack \in Seq(Frames) /\ m \in Nat /\ m >= 1 /\ m \in 1..m /\ c.stack[m] \in Frames
    BY <1>1, ContextTypes
<1>f. /\ f \in Frames /\ f.id = c.stack[m].id /\ f.start = c.stack[m].start /\ f.ev = c.stack[m].ev
      /\ f.comp = c.stack[m].comp /\ f.parent = c.stack[m].parent /\ f.fn = s.to.fn
  <2>1. \A x \in Frames : /\ [x EXCEPT !.fn = s.to.fn] \in Frames
                          /\ [x EXCEPT !.fn = s.to.fn].fn = s.to.fn
                          /\ [x EXCEPT !.fn = s.to.fn].id = x.id
                          /\ [x EXCEPT !.fn = s.to.fn].start = x.start
                          /\ [x EXCEPT !.fn = s.to.fn].ev = x.ev
                          /\ [x EXCEPT !.fn = s.to.fn].comp = x.comp
                          /\ [x EXCEPT !.fn = s.to.fn].parent = x.parent
    BY DEF Frames
  <2> QED BY <1>t, <2>1, Zenon
<1> HIDE DEF f
<1>2. /\ d.stack = [c.stack EXCEPT ![m] = f] /\ d.pend = c.pend /\ d.spans = c.spans
      /\ d.next = c.next /\ d.name = c.name /\ d.segments = c.segments /\ d.gaps = c.gaps
    BY <1>1 DEF NameStub, Contexts, f
<1>3. /\ Ordered(c) /\ Conserved(c, n, open) /\ Linked(c) /\ Backed(c, kept)
      /\ Timely(c, origin) /\ Started(c, last) /\ Cut(c, n) /\ Signed(c, name)
    BY DEF Good
<1>s. /\ Len(d.stack) = m /\ d.stack \in Seq(Frames)
      /\ \A i \in 1..m : d.stack[i] = IF i = m THEN f ELSE c.stack[i]
    BY <1>2, <1>t, <1>f
<1>4. d \in Contexts
  <2>1. \A x \in Seq(Frames) : [c EXCEPT !.stack = x] \in Contexts
    BY <1>1 DEF Contexts
  <2>2. d = [c EXCEPT !.stack = d.stack]
    BY <1>1, <1>2 DEF NameStub, Contexts
  <2> QED BY <1>s, <2>1, <2>2, Zenon
<1> HIDE DEF d
<1>5. \A i \in 1..m :
        /\ d.stack[i].id = c.stack[i].id /\ d.stack[i].start = c.stack[i].start
        /\ d.stack[i].ev = c.stack[i].ev /\ d.stack[i].comp = c.stack[i].comp
        /\ d.stack[i].parent = c.stack[i].parent
    BY <1>s, <1>f
<1> HIDE DEF m
<1>m. Len(c.stack) = m
    BY DEF m
<1>6. Ordered(d)
    BY <1>2, <1>3, <1>5, <1>m, <1>s DEF Ordered
<1>7. Linked(d)
  <2> SUFFICES ASSUME NEW i \in 1..m
               PROVE  d.stack[i].parent = IF i = 1 THEN None ELSE d.stack[i - 1].id
    BY <1>s DEF Linked
  <2>1. c.stack[i].parent = IF i = 1 THEN None ELSE c.stack[i - 1].id
    BY <1>3, <1>m DEF Linked
  <2>2. i # 1 => d.stack[i - 1].id = c.stack[i - 1].id
    BY <1>5, <1>t
  <2> QED BY <1>5, <2>1, <2>2
<1>8. Conserved(d, n, open)
  <2>1. Emitted(d) = Emitted(c)
    BY <1>2 DEF Emitted
  <2>2. OpenIn(d) = OpenIn(c)
    BY <1>5, <1>m, <1>s DEF OpenIn
  <2> QED BY <1>2, <1>3, <2>1, <2>2 DEF Conserved
<1>9. Backed(d, kept)
    BY <1>2, <1>3, <1>5, <1>m, <1>s DEF Backed
<1>10. Timely(d, origin)
    BY <1>2, <1>3, <1>5, <1>m, <1>s DEF Timely
<1>11. Started(d, last)
    BY <1>2, <1>3, <1>5, <1>m, <1>s DEF Started
<1>12. Cut(d, n)
    BY <1>2, <1>3, <1>5, <1>m, <1>s DEF Cut
<1>y. Signed(d, name)
    BY <1>2, <1>3 DEF Signed
<1>r. /\ Retops(c.stack, d.stack)
      /\ d.stack[m].fn = s.to.fn /\ d.stack[m].comp = c.stack[m].comp
      /\ d.stack[m].start = c.stack[m].start
  <2>1. d.stack[m] = f /\ \A i \in 1..m - 1 : d.stack[i] = c.stack[i]
    BY <1>s, <1>t
  <2> QED BY <1>f, <1>m, <1>s, <2>1 DEF Retops
<1>g. Good(d, n, open, kept, last, origin, name)
    BY <1>4, <1>6, <1>7, <1>8, <1>9, <1>10, <1>11, <1>12, <1>y DEF Good
<1> QED BY <1>2, <1>g, <1>m, <1>r, Zenon DEF d

\* retire_thread and finish emit what is open.
LEMMA CloseAllGood ==
    ASSUME NEW c, NEW n \in Nat, NEW open, NEW kept, NEW last, NEW last2, NEW origin, NEW name,
           Good(c, n, open, kept, last, origin, name), NEW end \in OptTime, After(origin, end)
    PROVE  /\ Good(CloseAll(c, end), n, open, kept, last2, origin, name)
           /\ CloseAll(c, end).stack = <<>> /\ CloseAll(c, end).pend = NoEnd
           /\ CloseAll(c, end).gaps = c.gaps /\ CloseAll(c, end).next = c.next
<1> DEFINE d == CloseAll(c, end)
           Closing(f) == SpanOf(c, f, end, f.ev,
                  IF f.comp \in {"open_start", "open_both"} THEN "open_both" ELSE "open_end")
<1>1. c \in Contexts
    BY DEF Good
<1>2. /\ d.stack = <<>> /\ d.pend = NoEnd /\ d.gaps = c.gaps /\ d.next = c.next
      /\ d.name = c.name /\ d.segments = c.segments
      /\ d.spans = c.spans \union {Closing(c.stack[i]) : i \in 1..Len(c.stack)}
  <2>1. ToSet(c.stack) = {c.stack[i] : i \in 1..Len(c.stack)}
    BY <1>1, ContextTypes DEF ToSet
  <2> QED BY <1>1, <2>1 DEF CloseAll, Contexts
<1>3. /\ Ordered(c) /\ Conserved(c, n, open) /\ Linked(c) /\ Backed(c, kept)
      /\ Timely(c, origin) /\ Started(c, last) /\ Cut(c, n) /\ Signed(c, name)
    BY DEF Good
<1>t. /\ Len(c.stack) \in Nat /\ c.next \in Nat /\ c.name \in Names
      /\ \A i \in 1..Len(c.stack) : c.stack[i] \in Frames
    BY <1>1, ContextTypes
<1>e. Len(d.stack) = 0 /\ 1..Len(d.stack) = {}
    BY <1>2
<1>s. \A f : /\ Closing(f).id = f.id /\ Closing(f).from = f.ev /\ Closing(f).to = f.ev
             /\ Closing(f).start = f.start /\ Closing(f).end = end
             /\ Closing(f).comp # "complete"
    BY DEF SpanOf
<1>n. NoEnd \in Ends /\ NoEnd.abs = None
    BY Zenon DEF NoEnd, Ends, OptFn, OptTime
<1>4. d \in Contexts
  <2>1. \A f \in Frames : Closing(f) \in Spans
    BY <1>t DEF SpanOf, Spans, Frames, Completeness
  <2>2. d.spans \in SUBSET Spans
    BY <1>1, <1>2, <1>t, <2>1, ContextTypes
  <2>3. \A x \in Seq(Frames), y \in SUBSET Spans, z \in Ends :
            [c EXCEPT !.stack = x, !.pend = z, !.spans = y] \in Contexts
    BY <1>1 DEF Contexts
  <2>4. d = [c EXCEPT !.stack = <<>>, !.pend = NoEnd, !.spans = d.spans]
    BY <1>1, <1>2 DEF CloseAll, Contexts
  <2>5. <<>> \in Seq(Frames)
    OBVIOUS
  <2> HIDE DEF d
  <2>6. [c EXCEPT !.stack = <<>>, !.pend = NoEnd, !.spans = d.spans] \in Contexts
    BY <1>n, <2>2, <2>3, <2>5, Zenon
  <2> QED BY <2>4, <2>6, Zenon
<1> HIDE DEF d, Closing
<1>5. Ordered(d) /\ Linked(d) /\ Cut(d, n)
    BY <1>e DEF Ordered, Linked, Cut
<1>6. Conserved(d, n, open)
  <2>1. OpenIn(d) = {}
    BY <1>e DEF OpenIn
  <2>2. Emitted(d) = Emitted(c) \union OpenIn(c)
    <3>1. ASSUME NEW x \in d.spans PROVE x.id \in Emitted(c) \union OpenIn(c)
      BY <1>2, <1>s, <3>1 DEF Emitted, OpenIn
    <3>2. ASSUME NEW i \in 1..Len(c.stack) PROVE c.stack[i].id \in Emitted(d)
      <4>1. Closing(c.stack[i]) \in d.spans
        BY <1>2
      <4> QED BY <1>s, <4>1 DEF Emitted
    <3>3. Emitted(c) \subseteq Emitted(d)
      BY <1>2 DEF Emitted
    <3> QED BY <3>1, <3>2, <3>3 DEF Emitted, OpenIn
  <2> QED BY <1>2, <1>3, <2>1, <2>2 DEF Conserved
<1>7. Backed(d, kept)
    BY <1>2, <1>3, <1>e, <1>s DEF Backed
<1>8. Timely(d, origin)
    BY <1>2, <1>3, <1>e, <1>n, <1>s DEF Timely, After
<1>9. Started(d, last2)
    BY <1>2, <1>3, <1>e, <1>s DEF Started
<1>y. Signed(d, name)
    BY <1>2, <1>3 DEF Signed
<1> QED BY <1>2, <1>4, <1>5, <1>6, <1>7, <1>8, <1>9, <1>y DEF Good, d

\* The pending end and the segments are of no account to the rest.
LEMMA PendGood ==
    ASSUME NEW c, NEW n \in Nat, NEW open, NEW kept, NEW last, NEW origin, NEW name,
           Good(c, n, open, kept, last, origin, name), NEW p \in Ends, After(origin, p.abs)
    PROVE  /\ Good([c EXCEPT !.pend = p], n, open, kept, last, origin, name)
           /\ [c EXCEPT !.pend = p].stack = c.stack
<1> DEFINE d == [c EXCEPT !.pend = p]
<1>1. c \in Contexts
    BY DEF Good
<1>2. /\ d.stack = c.stack /\ d.pend = p /\ d.spans = c.spans /\ d.next = c.next
      /\ d.name = c.name /\ d.gaps = c.gaps /\ d \in Contexts
    BY <1>1 DEF Contexts
<1> HIDE DEF d
<1>3. OpenIn(d) = OpenIn(c) /\ Emitted(d) = Emitted(c)
    BY <1>2 DEF OpenIn, Emitted
<1>4. Ordered(d) /\ Conserved(d, n, open)
    BY <1>2, <1>3 DEF Ordered, Conserved, Good
<1>5. Linked(d) /\ Backed(d, kept) /\ Cut(d, n)
    BY <1>2, <1>3 DEF Linked, Backed, Cut, Good
<1>6. Timely(d, origin)
    BY <1>2, <1>3 DEF Timely, Good
<1>7. Started(d, last)
    BY <1>2, <1>3 DEF Started, Good
<1>y. Signed(d, name)
    BY <1>2 DEF Signed, Good
<1> QED BY <1>2, <1>4, <1>5, <1>6, <1>7, <1>y DEF Good, d

\* The segments play no part in the frames and spans.
LEMMA SegmentsGood ==
    ASSUME NEW c, NEW n \in Nat, NEW open, NEW kept, NEW last, NEW origin, NEW name,
           Good(c, n, open, kept, last, origin, name), NEW g \in Segs
    PROVE  /\ Good([c EXCEPT !.segments = g], n, open, kept, last, origin, name)
           /\ [c EXCEPT !.segments = g].stack = c.stack
           /\ [c EXCEPT !.segments = g].pend = c.pend
           /\ [c EXCEPT !.segments = g].gaps = c.gaps
<1> DEFINE d == [c EXCEPT !.segments = g]
<1>1. c \in Contexts
    BY DEF Good
<1>2. /\ d.stack = c.stack /\ d.pend = c.pend /\ d.spans = c.spans /\ d.next = c.next
      /\ d.name = c.name /\ d.gaps = c.gaps /\ d \in Contexts
    BY <1>1 DEF Contexts
<1> HIDE DEF d
<1>3. OpenIn(d) = OpenIn(c) /\ Emitted(d) = Emitted(c)
    BY <1>2 DEF OpenIn, Emitted
<1>4. Ordered(d) /\ Conserved(d, n, open)
    BY <1>2, <1>3 DEF Ordered, Conserved, Good
<1>5. Linked(d) /\ Backed(d, kept) /\ Cut(d, n)
    BY <1>2, <1>3 DEF Linked, Backed, Cut, Good
<1>6. Timely(d, origin)
    BY <1>2, <1>3 DEF Timely, Good
<1>7. Started(d, last)
    BY <1>2, <1>3 DEF Started, Good
<1>y. Signed(d, name)
    BY <1>2 DEF Signed, Good
<1> QED BY <1>2, <1>4, <1>5, <1>6, <1>7, <1>y DEF Good, d

\* Segments stay segments.
LEMMA SegmentTypes ==
    ASSUME NEW segs \in Segs, NEW left \in OptTime, NEW now \in OptTime
    PROVE  SplitSegment(segs, left, now) \in Segs /\ Extended(segs, now) \in Segs
<1>1. \A t \in OptTime : t # None => t \in Times
    BY DEF OptTime
<1>2. ASSUME NEW t \in Times, segs # <<>> PROVE Front(segs) \o << <<Last(segs)[1], t>> >> \in Segs
  <2>1. Front(segs) \in Segs
    BY <1>2 DEF Segs, Front
  <2>2. Last(segs) \in Times \X Times
    BY <1>2 DEF Segs, Last
  <2>3. << <<Last(segs)[1], t>> >> \in Segs
    BY <2>2 DEF Segs
  <2> QED BY <2>1, <2>3 DEF Segs
<1>3. \A g \in Segs : \A t \in Times : Append(g, <<t, t>>) \in Segs
    BY DEF Segs
<1>4. SplitSegment(segs, left, now) \in Segs
    BY <1>1, <1>2, <1>3 DEF SplitSegment
<1>5. Extended(segs, now) \in Segs
  <2>1. CASE now = None
    BY <2>1 DEF Extended
  <2>2. CASE now # None /\ segs = <<>>
    BY <1>1, <2>2 DEF Extended, Segs
  <2>3. CASE now # None /\ segs # <<>>
    <3>1. now \in Times /\ Last(segs)[2] \in Times
      BY <1>1, <2>3 DEF Segs, Last
    <3> QED BY <1>2, <2>3, <3>1 DEF Extended
  <2> QED BY <2>1, <2>2, <2>3
<1> QED BY <1>4, <1>5

\* What the helpers rely on: a sample's flow, time and CPU, and the functions
\* its addresses resolve to.
IsSample(s) ==
    /\ s.flow \in Flows /\ s.time \in OptTime /\ s.cpu \in CPUs \union {None}
    /\ s.from.fn \in OptFn /\ s.to.fn \in OptFn

\* All samples have that.
LEMMA SampleTypes ==
    ASSUME NEW s \in Samples
    PROVE  IsSample(s)
<1>1. PICK w \in Flows : s \in [flow : {w}, from : FromOf(w), to : ToOf(w), time : OptTime,
                                cpu : CPUs \union {None}]
    BY DEF Samples
<1>2. \A x \in FromOf(w) \union ToOf(w) : x.fn \in OptFn
    BY DEF FromOf, ToOf, Places, OptFn
<1> QED BY <1>1, <1>2 DEF IsSample

\* A sample that is no regression is the last one from now on; before it, a
\* regression closes what is open.
LEMMA RegressedGood ==
    ASSUME NEW c, NEW n \in Nat, NEW open, NEW kept, NEW origin, NEW name,
           NEW t \in Tasks, NEW s, IsSample(s),
           lastAbs[t] \in OptTime, Good(c, n, open, kept, lastAbs[t], origin, name),
           After(origin, lastAbs[t]), After(origin, s.time)
    PROVE  /\ Good(Regressed(c, t, s), n, open, kept, OrElse(s.time, lastAbs[t]), origin, name)
           /\ Regressed(c, t, s).pend = c.pend
<1> DEFINE back == lastAbs[t] # None /\ s.time # None /\ s.time < lastAbs[t]
           now == OrElse(s.time, lastAbs[t])
<1>s. s.time \in OptTime
    BY DEF IsSample
<1>1. CASE back
  <2>1. /\ Good(InterruptThread(c), n, open, kept, now, origin, name)
        /\ InterruptThread(c).stack = <<>> /\ InterruptThread(c).pend = c.pend
    BY InterruptGood
  <2>2. "time_regression" \in GapKinds
    BY DEF GapKinds
  <2>3. Regressed(c, t, s) = PushGap(InterruptThread(c), "time_regression", lastAbs[t], s.time)
    BY <1>1 DEF Regressed
  <2> HIDE DEF now
  <2> QED BY <1>s, <2>1, <2>2, <2>3, PushGapGood DEF now
<1>2. CASE ~back
  <2>1. Regressed(c, t, s) = c
    BY <1>2 DEF Regressed
  <2>2. lastAbs[t] # None => now # None /\ lastAbs[t] <= now
    BY <1>s, <1>2 DEF OrElse, OptTime, Times
  <2>3. lastAbs[t] # None => lastAbs[t] \in Nat /\ now \in Nat
    BY <1>s, <1>2 DEF OrElse, OptTime, Times
  <2>4. \A i \in 1..Len(c.stack) : c.stack[i].start # None => c.stack[i].start \in Nat
    BY ContextTypes DEF Good, OptTime, Times
  <2> HIDE DEF now
  <2>5. Started(c, now)
    BY <2>2, <2>3, <2>4 DEF Good, Started
  <2> QED BY <2>1, <2>5 DEF Good, now
<1> QED BY <1>1, <1>2

\* apply_flow settles the pending end.
LEMMA ResolveGood ==
    ASSUME NEW c, NEW n \in Nat, NEW open, NEW kept, NEW last, NEW origin, NEW name, NEW s, IsSample(s),
           NEW ev \in Nat, s.flow = "begin" => ev \in kept,
           cpuFirst \in [CPUs -> OptTime], origin \in OptTime,
           Good(c, n, open, kept, last, origin, name), After(origin, s.time)
    PROVE  Good(ResolvePending(c, s, ev), n, open, kept, last, origin, name)
<1> DEFINE p    == c.pend
           c0   == [c EXCEPT !.pend = NoEnd]
           ic   == InterruptThread(c0)
           gap  == PushGap(ic, "ring_truncation", p.abs, OrElse(CpuFirst(s), s.time))
           hole == [gap EXCEPT !.segments = SplitSegment(@, p.abs, s.time)]
           same == PushGap(c0, "trace_boundary", p.abs, s.time)
           lost == PushGap(ic, "unknown", p.abs, s.time)
           fn   == OrElse(s.to.fn, s.from.fn)
           here == p.fn # None /\ s.to.fn = p.fn
           G(x) == Good(x, n, open, kept, last, origin, name)
<1>s. /\ s.time \in OptTime /\ s.to.fn \in OptFn /\ fn \in OptFn
      /\ s.cpu \in CPUs \union {None}
    BY DEF IsSample, OrElse
<1>k. {"ring_truncation", "trace_boundary", "unknown"} \subseteq GapKinds
    BY DEF GapKinds
<1>p. p.abs \in OptTime /\ After(origin, p.abs)
    BY ContextTypes DEF Good, Timely
<1>n. NoEnd \in Ends /\ NoEnd.abs = None
    BY Zenon DEF NoEnd, Ends, OptFn, OptTime
<1>0. G(c0) /\ c0.stack = c.stack
    BY <1>n, PendGood DEF After
<1>i. G(ic) /\ ic.stack = <<>>
    BY <1>0, InterruptGood
<1>o. OrElse(p.abs, s.time) \in OptTime /\ After(origin, OrElse(p.abs, s.time))
    BY <1>p, <1>s DEF OrElse
<1>1. ASSUME RingHole(p, s) PROVE G(hole)
  <2>1. p.abs # None /\ (CpuFirst(s) # None => CpuFirst(s) > p.abs)
    BY <1>1 DEF RingHole
  <2>0. None \in OptTime
    BY DEF OptTime
  <2>2. CpuFirst(s) \in OptTime
    BY <1>s, <2>0 DEF CpuFirst, OrElse
  <2>3. After(origin, CpuFirst(s))
    BY <1>p, <2>1, <2>2 DEF After, OptTime, Times
  <2>4. OrElse(CpuFirst(s), s.time) \in OptTime /\ After(origin, OrElse(CpuFirst(s), s.time))
    BY <1>s, <2>2, <2>3 DEF OrElse
  <2>5. G(gap)
    <3> HIDE DEF ic
    <3> QED BY <1>i, <1>k, <1>p, <2>4, PushGapGood
  <2>6. gap.segments \in Segs
    <3>1. gap \in Contexts
      BY <2>5 DEF Good
    <3> HIDE DEF gap
    <3> QED BY <3>1 DEF Contexts
  <2>7. SplitSegment(gap.segments, p.abs, s.time) \in Segs
    BY <1>p, <1>s, <2>6, SegmentTypes
  <2> HIDE DEF gap
  <2> QED BY <2>5, <2>7, SegmentsGood
<1>2. G(same) /\ same.stack = c.stack
  <2> HIDE DEF c0
  <2> QED BY <1>0, <1>k, <1>p, <1>s, PushGapGood
<1>3. G(lost)
  <2> HIDE DEF ic
  <2> QED BY <1>i, <1>k, <1>p, <1>s, PushGapGood
<1>r. ResolvePending(c, s, ev) =
        CASE ~p.set -> c
          [] p.set /\ RingHole(p, s) ->
                IF s.flow = "begin" THEN PushOpenKnown(hole, fn, s.time, ev) ELSE hole
          [] p.set /\ ~RingHole(p, s) /\ s.flow = "begin" /\ here ->
                IF c.stack = <<>> THEN PushOpenKnown(same, s.to.fn, OrElse(p.abs, s.time), ev)
                ELSE same
          [] p.set /\ ~RingHole(p, s) /\ s.flow = "begin" /\ ~here ->
                PushOpenKnown(lost, fn, s.time, ev)
          [] OTHER -> lost
    BY DEF ResolvePending
<1>h. ASSUME NEW x, G(x), s.flow = "begin", NEW f \in OptFn, NEW time \in OptTime, After(origin, time)
      PROVE  G(PushOpenKnown(x, f, time, ev))
    BY <1>h, PushOpenKnownGood
<1> HIDE DEF hole, same, lost, fn, here, p
<1>4. CASE ~p.set
    BY <1>4, <1>r
<1>5. CASE p.set /\ RingHole(p, s)
    BY <1>1, <1>5, <1>h, <1>r, <1>s
<1>6. CASE p.set /\ ~RingHole(p, s) /\ s.flow = "begin" /\ here
    BY <1>2, <1>6, <1>h, <1>o, <1>r, <1>s
<1>7. CASE p.set /\ ~RingHole(p, s) /\ s.flow = "begin" /\ ~here
    BY <1>3, <1>7, <1>h, <1>r, <1>s
<1>8. CASE p.set /\ ~RingHole(p, s) /\ s.flow # "begin"
    BY <1>3, <1>8, <1>r
<1> QED BY <1>4, <1>5, <1>6, <1>7, <1>8

\* A tail call pops a frame and opens one in its place: the parent it takes
\* over is the frame below, which is where push_open puts it anyway.
LEMMA TailCallGood ==
    ASSUME NEW c, NEW n \in Nat, NEW open, NEW kept, NEW last, NEW origin, NEW name, NEW s, IsSample(s),
           NEW ev \in Nat, ev \in kept,
           Good(c, n, open, kept, last, origin, name), After(origin, s.time)
    PROVE  /\ Good(TailCall(c, s, ev), n, open, kept, last, origin, name)
           /\ TailCall(c, s, ev) =
                PushOpen(IF c.stack = <<>> THEN c ELSE PopSpan(c, s.time, ev, "uncertain"),
                         s.to.fn, s.time, ev, "open_start")
<1> DEFINE parent == IF c.stack = <<>> THEN None ELSE Last(c.stack).parent
           popped == IF c.stack = <<>> THEN c ELSE PopSpan(c, s.time, ev, "uncertain")
           opened == PushOpen(popped, s.to.fn, s.time, ev, "open_start")
           up     == IF popped.stack = <<>> THEN None ELSE Last(popped.stack).id
           f      == [id |-> popped.next, fn |-> s.to.fn, start |-> s.time, ev |-> ev,
                      comp |-> "open_start", parent |-> up]
           m      == Len(opened.stack)
<1>s. s.time \in OptTime /\ s.to.fn \in OptFn
    BY DEF IsSample
<1>1. c \in Contexts /\ Linked(c)
    BY DEF Good
<1>t. c.stack \in Seq(Frames) /\ Len(c.stack) \in Nat
    BY <1>1, ContextTypes
<1>2. /\ Good(popped, n, open, kept, last, origin, name)
      /\ popped.stack = IF c.stack = <<>> THEN <<>> ELSE Front(c.stack)
  <2>1. CASE c.stack = <<>>
    BY <2>1
  <2>2. CASE c.stack # <<>>
    <3>1. "uncertain" \in Completeness
      BY DEF Completeness
    <3> QED BY <1>s, <2>2, <3>1, PopSpanGood
  <2> QED BY <2>1, <2>2
<1> HIDE DEF popped
<1>3. /\ Good(opened, n, open, kept, last, origin, name)
      /\ opened.stack = Append(popped.stack, f)
  <2>1. Good(opened, n, open, kept, last, origin, name)
    <3>1. ASSUME NEW x \in {"open_start"}
          PROVE  Good(PushOpen(popped, s.to.fn, s.time, ev, x), n, open, kept, last, origin, name)
      BY <1>2, <1>s, PushOpenGood
    <3> QED BY <3>1
  <2>2. popped \in Contexts
    BY <1>2 DEF Good
  <2> QED BY <2>1, <2>2, PushOpenStack
<1>4. up = parent
  <2>1. CASE c.stack = <<>>
    BY <1>2, <2>1
  <2>2. CASE c.stack # <<>> /\ Len(c.stack) = 1
    <3>1. popped.stack = <<>>
      BY <1>2, <1>t, <2>2 DEF Front
    <3>2. Last(c.stack).parent = None
      BY <1>1, <2>2 DEF Linked, Last
    <3> QED BY <2>2, <3>1, <3>2
  <2>3. CASE c.stack # <<>> /\ Len(c.stack) # 1
    <3>0. Len(c.stack) >= 1
      BY <1>t, <2>3
    <3>1. Len(c.stack) >= 2
      <4>1. \A k \in Nat : k >= 1 /\ k # 1 => k >= 2
        OBVIOUS
      <4> QED BY <1>t, <2>3, <3>0, <4>1, Zenon
    <3>a. popped.stack = SubSeq(c.stack, 1, Len(c.stack) - 1)
      BY <1>2, <2>3 DEF Front
    <3>2. /\ popped.stack # <<>> /\ Len(popped.stack) = Len(c.stack) - 1
          /\ popped.stack[Len(c.stack) - 1] = c.stack[Len(c.stack) - 1]
      <4> DEFINE k == Len(c.stack) - 1
      <4>1. k \in Nat /\ k >= 1 /\ \A i \in 1..k : c.stack[i] \in Frames
        BY <1>t, <3>1
      <4>2. /\ Len(SubSeq(c.stack, 1, k)) = k
            /\ SubSeq(c.stack, 1, k)[k] = c.stack[k]
        <5> HIDE DEF k
        <5> QED BY <4>1
      <4>3. Len(popped.stack) = k /\ popped.stack[k] = c.stack[k]
        BY <3>a, <4>2, Zenon
      <4>4. popped.stack # <<>>
        <5> HIDE DEF k
        <5> QED BY <4>1, <4>3
      <4> QED BY <4>3, <4>4, Zenon
    <3>3. c.stack[Len(c.stack)].parent = c.stack[Len(c.stack) - 1].id
      BY <1>1, <1>t, <3>1 DEF Linked
    <3> QED BY <2>3, <3>2, <3>3 DEF Last
  <2> QED BY <2>1, <2>2, <2>3
<1>5. opened.stack[m].parent = parent /\ m \in DOMAIN opened.stack
  <2>1. popped.stack \in Seq(Frames)
    BY <1>2, ContextTypes DEF Good
  <2>2. opened.stack[m] = f /\ m \in DOMAIN opened.stack
    <3> HIDE DEF f, opened
    <3> QED BY <1>3, <2>1
  <2>3. f.parent = up
    OBVIOUS
  <2> QED BY <1>4, <2>2, <2>3
<1>6. TailCall(c, s, ev) = [opened EXCEPT !.stack[m].parent = parent]
    BY DEF TailCall, popped
<1>7. opened \in Contexts
    BY <1>3 DEF Good
<1> HIDE DEF opened, parent
<1>8. [opened EXCEPT !.stack[m].parent = parent] = opened
  <2>1. opened.stack \in Seq(Frames) /\ opened.stack[m] \in Frames
    BY <1>5, <1>7, ContextTypes
  <2>2. [opened.stack[m] EXCEPT !.parent = parent] = opened.stack[m]
    BY <1>5, <2>1 DEF Frames
  <2>3. [opened.stack EXCEPT ![m] = opened.stack[m]] = opened.stack
    BY <2>1
  <2>4. [opened EXCEPT !.stack = opened.stack] = opened
    BY <1>7 DEF Contexts
  <2>5. [opened EXCEPT !.stack[m].parent = parent]
          = [opened EXCEPT !.stack = [opened.stack EXCEPT ![m] = [opened.stack[m] EXCEPT !.parent = parent]]]
    OBVIOUS
  <2> QED BY <2>2, <2>3, <2>4, <2>5
<1> QED BY <1>3, <1>6, <1>8, Zenon DEF opened, popped

\* A return closes the innermost frame; it is complete only if it started no
\* later than this sample.
LEMMA ReturnGood ==
    ASSUME NEW c, NEW n \in Nat, NEW open, NEW kept, NEW last, NEW origin, NEW name, NEW s, IsSample(s),
           NEW ev \in Nat, ev \in kept, s.time # None => last = s.time,
           Good(c, n, open, kept, last, origin, name), After(origin, s.time)
    PROVE  Good(Return(c, s, ev), n, open, kept, last, origin, name)
<1>s. s.time \in OptTime /\ s.to.fn \in OptFn /\ s.from.fn \in OptFn
    BY DEF IsSample
<1>c. {"complete", "open_both", "uncertain"} \subseteq Completeness
    BY DEF Completeness
<1>t. c \in Contexts /\ Started(c, last)
    BY DEF Good
<1>1. CASE c.stack # <<>>
  <2> DEFINE comp == IF Last(c.stack).comp = "open_start" THEN "open_both" ELSE "complete"
  <2>1. Len(c.stack) \in 1..Len(c.stack) /\ Last(c.stack) = c.stack[Len(c.stack)]
    BY <1>t, <1>1, ContextTypes DEF Last
  <2>2. comp = "complete" /\ Last(c.stack).start # None /\ s.time # None
            => Last(c.stack).start <= s.time
    BY <1>t, <2>1 DEF Started
  <2>3. comp \in Completeness
    BY <1>c
  <2>4. Return(c, s, ev) = PopSpan(c, s.time, ev, comp)
    BY <1>1 DEF Return
  <2> HIDE DEF comp
  <2> QED BY <1>1, <1>s, <2>2, <2>3, <2>4, PopSpanGood
<1>2. CASE c.stack = <<>>
  <2> DEFINE sp == [id |-> c.next, thread |-> c.name, fn |-> s.from.fn, parent |-> None,
                    start |-> None, end |-> s.time, from |-> ev, to |-> ev, comp |-> "uncertain"]
             d == [c EXCEPT !.next = @ + 1, !.spans = @ \union {sp}]
  <2>1. sp \in Spans
    <3>1. c.next \in Nat /\ c.name \in Names
      BY <1>t, ContextTypes
    <3> QED BY <1>c, <1>s, <3>1 DEF Spans, OptNat, OptTime
  <2>2. /\ sp.id = c.next /\ sp.from = ev /\ sp.to = ev /\ sp.comp # "complete"
        /\ After(origin, sp.start) /\ After(origin, sp.end)
    BY DEF After
  <2>3. Good(d, n, open, kept, last, origin, name)
    <3> HIDE DEF sp
    <3> QED BY <2>1, <2>2, FreshSpanGood
  <2>4. Return(c, s, ev) = PushOpenKnown(d, s.to.fn, s.time, ev)
    BY <1>2 DEF Return
  <2> HIDE DEF d
  <2> QED BY <1>s, <2>3, <2>4, PushOpenKnownGood
<1> QED BY <1>1, <1>2

\* apply_flow of the sample itself.  Only a sample that is kept opens a frame
\* or ends one by name.
LEMMA ApplyGood ==
    ASSUME NEW c, NEW n \in Nat, NEW open, NEW kept, NEW last, NEW origin, NEW name, NEW s, IsSample(s),
           NEW ev \in Nat, ~Intra(s) => ev \in kept, s.time # None => last = s.time,
           Good(c, n, open, kept, last, origin, name), After(origin, s.time)
    PROVE  Good(ApplyFlow(c, s, ev), n, open, kept, last, origin, name)
<1> DEFINE G(x) == Good(x, n, open, kept, last, origin, name)
           end == [fn |-> s.from.fn, abs |-> s.time, cpu |-> s.cpu, set |-> TRUE]
           jump == s.flow \in {"jump", "cond"}
           tail == jump /\ s.from.fn # None /\ s.to.fn # None /\ s.from.fn # s.to.fn
           stub == jump /\ s.from.fn = None /\ s.to.fn # None
                        /\ c.stack # <<>> /\ Last(c.stack).fn = None
<1>s. /\ s.time \in OptTime /\ s.to.fn \in OptFn /\ s.from.fn \in OptFn
      /\ s.cpu \in CPUs \union {None}
    BY DEF IsSample
<1>n. None \in OptTime /\ After(origin, None) /\ "unknown" \in GapKinds
    BY DEF After, OptTime, GapKinds
<1>1. CASE s.flow = "end"
  <2>1. end \in Ends /\ end.abs = s.time
    BY <1>s, Zenon DEF Ends
  <2>2. ApplyFlow(c, s, ev) = [c EXCEPT !.pend = end]
    BY <1>1 DEF ApplyFlow
  <2> HIDE DEF end
  <2> QED BY <2>1, <2>2, PendGood
<1>2. CASE s.flow = "async"
  <2>1. G(InterruptThread(c)) /\ InterruptThread(c).stack = <<>>
    BY InterruptGood
  <2>2. ApplyFlow(c, s, ev) = PushGap(InterruptThread(c), "unknown", s.time, None)
    BY <1>2 DEF ApplyFlow
  <2> QED BY <1>n, <1>s, <2>1, <2>2, PushGapGood
<1>3. CASE s.flow = "begin"
  <2>1. ApplyFlow(c, s, ev) =
          IF c.stack = <<>> THEN PushOpenKnown(c, OrElse(s.to.fn, s.from.fn), s.time, ev) ELSE c
    BY <1>3 DEF ApplyFlow
  <2>2. OrElse(s.to.fn, s.from.fn) \in OptFn /\ ev \in kept
    BY <1>3, <1>s DEF OrElse, Intra
  <2> QED BY <1>s, <2>1, <2>2, PushOpenKnownGood
<1>4. CASE s.flow = "call"
  <2>1. ApplyFlow(c, s, ev) = PushOpen(c, s.to.fn, s.time, ev, "open_end") /\ ev \in kept
    BY <1>4 DEF ApplyFlow, Intra
  <2>2. s.time # None => last # None /\ s.time <= last
    BY <1>s DEF OptTime, Times
  <2>3. ASSUME NEW x \in {"open_end"}
        PROVE  G(PushOpen(c, s.to.fn, s.time, ev, x))
    BY <1>s, <2>1, <2>2, PushOpenGood
  <2> QED BY <2>1, <2>3
<1>5. CASE s.flow = "return"
  <2>1. ApplyFlow(c, s, ev) = Return(c, s, ev) /\ ev \in kept
    BY <1>5 DEF ApplyFlow, Intra
  <2> QED BY <2>1, ReturnGood
<1>6. CASE tail
  <2>1. ApplyFlow(c, s, ev) = TailCall(c, s, ev) /\ ev \in kept
    BY <1>6 DEF ApplyFlow, Intra
  <2> QED BY <2>1, TailCallGood
<1>7. CASE stub
  <2>1. ApplyFlow(c, s, ev) = NameStub(c, s)
    BY <1>7 DEF ApplyFlow
  <2> QED BY <1>7, <1>s, <2>1, NameStubGood
<1>8. CASE s.flow \notin {"end", "async", "begin", "call", "return"} /\ ~tail /\ ~stub
  <2>1. ApplyFlow(c, s, ev) = c
    BY <1>8 DEF ApplyFlow
  <2> QED BY <2>1
<1> QED BY <1>1, <1>2, <1>3, <1>4, <1>5, <1>6, <1>7, <1>8

-----------------------------------------------------------------------------
(***************************************************************************)
(* The inductive invariant.                                                *)
(***************************************************************************)
\* What is open is in order, and nothing is open for a thread without samples.
ThreadInv(t) ==
    /\ Good(Context(t), nextSpan, OpenIds(t), stored, lastAbs[t], minAbs, ThreadName(ids, t))
    /\ After(minAbs, lastAbs[t])
    /\ t \notin live => stack[t] = <<>>

\* Every id handed out is open on one stack or emitted.
Ledger ==
    /\ closed \union UNION {OpenIds(t) : t \in Tasks} = {n \in 0..nextSpan : n < nextSpan}
    /\ \A t \in Tasks : OpenIds(t) \intersect closed = {}
    /\ \A t, u \in Tasks : t # u => OpenIds(t) \intersect OpenIds(u) = {}
    /\ phase = "done" => \A t \in Tasks : stack[t] = <<>>

\* What the last record added.
Added ==
    /\ \A s \in spans : s.from \in stored /\ s.to \in stored
    /\ DurationsSane /\ OriginIsFirst

\* A retired name is of an earlier generation.
Named ==
    \A r \in retired, t \in Tasks :
        r[1] = t[1] /\ r[2][1] = t[2] => r[2][2] < ids.generation[t]

IInv == TypeOK /\ (\A t \in Tasks : ThreadInv(t)) /\ Ledger /\ Added /\ Named

-----------------------------------------------------------------------------
\* The parts of the state make a context.
IsContext(t) ==
    /\ Context(t) \in Contexts /\ OpenIn(Context(t)) = OpenIds(t)
    /\ Context(t).stack = stack[t] /\ Context(t).pend = pend[t]
    /\ Context(t).segments = segments[t] /\ Context(t).next = nextSpan
    /\ Context(t).spans = {} /\ Context(t).gaps = {}
    /\ Context(t).name = ThreadName(ids, t)
HaveContexts == \A t \in Tasks : IsContext(t)

\* That holds in every well-typed state.
LEMMA ContextOf == TypeOK => HaveContexts
<1> SUFFICES ASSUME TypeOK, NEW t \in Tasks PROVE IsContext(t)
    BY DEF HaveContexts
<1>1. ThreadName(ids, t) \in Names
    BY DEF TypeOK, ThreadName, Names
<1>2. stack[t] \in Seq(Frames) /\ pend[t] \in Ends /\ segments[t] \in Segs /\ nextSpan \in Nat
    BY DEF TypeOK, Segs
<1>3. /\ Context(t).stack = stack[t] /\ Context(t).pend = pend[t]
      /\ Context(t).segments = segments[t] /\ Context(t).next = nextSpan
      /\ Context(t).spans = {} /\ Context(t).gaps = {}
      /\ Context(t).name = ThreadName(ids, t)
    BY DEF Context
<1>4. Context(t) \in Contexts
  <2> HIDE DEF ThreadName
  <2> QED BY <1>1, <1>2 DEF Context, Contexts
<1>5. OpenIn(Context(t)) = OpenIds(t)
    BY <1>3 DEF OpenIn, OpenIds
<1> QED BY <1>3, <1>4, <1>5 DEF IsContext

\* Between records: what was added is written, ids only grow, events only come
\* in and the origin only moves back.
LEMMA Settled ==
    ASSUME NEW c, NEW n \in Nat, NEW open, NEW kept, NEW last, NEW origin, NEW name,
           Good(c, n, open, kept, last, origin, name),
           NEW d \in Contexts, d.stack = c.stack, d.pend = c.pend, d.spans = {}, d.gaps = {},
           c.next <= d.next, NEW kept2, kept \subseteq kept2,
           NEW origin2, \A x \in OptTime : After(origin, x) => After(origin2, x)
    PROVE  Good(d, d.next, OpenIn(d), kept2, last, origin2, d.name)
<1>1. c \in Contexts /\ Ordered(c) /\ Linked(c) /\ Backed(c, kept) /\ Timely(c, origin) /\ Started(c, last)
    BY DEF Good
<1>t. /\ c.next \in Nat /\ d.next \in Nat /\ c.pend.abs \in OptTime
      /\ \A i \in 1..Len(c.stack) : c.stack[i].id \in Nat /\ c.stack[i].start \in OptTime
    BY <1>1, ContextTypes
<1>2. Ordered(d)
    BY <1>1, <1>t DEF Ordered
<1>3. Linked(d) /\ Backed(d, kept2)
    BY <1>1 DEF Linked, Backed
<1>4. Timely(d, origin2)
    BY <1>1, <1>t DEF Timely
<1>5. Started(d, last)
    BY <1>1 DEF Started
<1>6. Cut(d, d.next) /\ Signed(d, d.name)
    BY DEF Cut, Signed
<1>7. Conserved(d, d.next, OpenIn(d))
  <2>1. Emitted(d) = {}
    BY DEF Emitted
  <2>2. \A k \in OpenIn(d) : k \in Nat /\ k < d.next
    BY <1>1, <1>2, <1>t DEF OpenIn, Ordered
  <2>3. {k \in Nat : d.next <= k /\ k < d.next} = {}
    BY <1>t
  <2> QED BY <1>t, <2>1, <2>2, <2>3 DEF Conserved
<1> QED BY <1>2, <1>3, <1>4, <1>5, <1>6, <1>7 DEF Good

\* A record of one thread that ends in a good context has well-formed results.
LEMMA AddsTypes ==
    ASSUME TypeOK, NEW t \in Tasks, NEW c, NEW kept, NEW last, NEW origin, NEW name,
           Good(c, nextSpan, OpenIds(t), kept, last, origin, name), Adds(t, c)
    PROVE  /\ stack' \in [Tasks -> Seq(Frames)] /\ pend' \in [Tasks -> Ends]
           /\ nextSpan' \in Nat /\ closed' \subseteq 0..nextSpan'
           /\ spans' \subseteq Spans /\ gaps' \subseteq Gaps
           /\ c.segments \in Segs /\ nextSpan <= nextSpan'
<1>1. c \in Contexts /\ Conserved(c, nextSpan, OpenIds(t))
    BY DEF Good
<1>2. /\ c.stack \in Seq(Frames) /\ c.pend \in Ends /\ c.next \in Nat
      /\ c.spans \subseteq Spans /\ c.gaps \subseteq Gaps /\ c.segments \in Segs
    BY <1>1 DEF Contexts
<1>3. nextSpan \in Nat /\ nextSpan <= c.next /\ nextSpan' = c.next
    BY <1>1 DEF TypeOK, Conserved, Adds
<1>4. closed' \subseteq 0..nextSpan'
  <2>1. closed' = closed \union Emitted(c)
    BY DEF Adds, Emitted
  <2>2. \A k \in Emitted(c) : k \in Nat /\ k < c.next
    BY <1>1, <1>2, <1>3 DEF Conserved
  <2>3. \A k \in closed : k \in Nat /\ k <= nextSpan
    <3>1. closed \subseteq 0..nextSpan
      BY DEF TypeOK
    <3> HIDE DEF TypeOK
    <3> QED BY <1>3, <3>1
  <2>4. ASSUME NEW k \in closed' PROVE k \in Nat /\ k <= c.next
    <3>1. CASE k \in closed
      <4>1. k \in Nat /\ k <= nextSpan
        BY <2>3, <3>1
      <4> QED BY <1>2, <1>3, <4>1
    <3>2. CASE k \in Emitted(c)
      <4>1. k \in Nat /\ k < c.next
        BY <2>2, <3>2
      <4> QED BY <1>2, <4>1
    <3> QED BY <2>1, <3>1, <3>2
  <2> QED BY <1>2, <1>3, <2>4
<1>5. stack' \in [Tasks -> Seq(Frames)] /\ pend' \in [Tasks -> Ends]
    BY <1>2 DEF Adds, TypeOK
<1> QED BY <1>2, <1>3, <1>4, <1>5 DEF Adds

\* And it keeps the invariant of all threads.
LEMMA AddsStep ==
    ASSUME IInv, TypeOK', NEW t \in Tasks, NEW c,
           Good(c, nextSpan, OpenIds(t), stored', lastAbs'[t], minAbs', ThreadName(ids, t)),
           Adds(t, c), stored \subseteq stored',
           \A x \in OptTime : After(minAbs, x) => After(minAbs', x),
           After(minAbs', lastAbs'[t]), t \notin live' => c.stack = <<>>,
           \A u \in Tasks \ {t} : lastAbs'[u] = lastAbs[u] /\ (u \in live => u \in live'),
           phase = "open", phase' = phase
    PROVE  (\A u \in Tasks : ThreadInv(u)') /\ Ledger' /\ Added'
<1>1. /\ stack' = [stack EXCEPT ![t] = c.stack] /\ pend' = [pend EXCEPT ![t] = c.pend]
      /\ nextSpan' = c.next /\ closed' = closed \union Emitted(c) /\ spans' = c.spans /\ gaps' = c.gaps
    BY DEF Adds, Emitted
<1>t. /\ stack \in [Tasks -> Seq(Frames)] /\ pend \in [Tasks -> Ends] /\ nextSpan \in Nat
      /\ lastAbs \in [Tasks -> OptTime] /\ closed \subseteq 0..nextSpan
    BY DEF IInv, TypeOK
<1>g. /\ c \in Contexts /\ Conserved(c, nextSpan, OpenIds(t)) /\ Backed(c, stored')
      /\ Timely(c, minAbs') /\ Started(c, lastAbs'[t])
    BY DEF Good
<1>n. c.next \in Nat /\ nextSpan <= c.next
    BY <1>g, ContextTypes DEF Conserved
<1>c. HaveContexts'
    BY ContextOf, PTL
<1>2. ASSUME NEW u \in Tasks, NEW b, NEW kept, NEW origin, NEW name,
             Good(b, nextSpan, OpenIds(u), kept, lastAbs'[u], origin, name),
             stack'[u] = b.stack, pend'[u] = b.pend, b.next <= nextSpan', kept \subseteq stored',
             \A x \in OptTime : After(origin, x) => After(minAbs', x)
      PROVE  Good(Context(u), nextSpan, OpenIds(u), stored, lastAbs[u], minAbs, ThreadName(ids, u))'
  <2> DEFINE d == Context(u)'
  <2>1. /\ d \in Contexts /\ OpenIn(d) = OpenIds(u)' /\ d.next = nextSpan' /\ d.name = ThreadName(ids, u)'
        /\ d.stack = b.stack /\ d.pend = b.pend /\ d.spans = {} /\ d.gaps = {}
    BY <1>2, <1>c DEF HaveContexts, IsContext
  <2> HIDE DEF d
  <2>2. Good(d, d.next, OpenIn(d), stored', lastAbs'[u], minAbs', d.name)
    BY <1>2, <1>t, <2>1, Settled
  <2> QED BY <2>1, <2>2 DEF d
<1>3. ASSUME NEW u \in Tasks PROVE ThreadInv(u)'
  <2>1. CASE u = t
    <3>1. stack'[t] = c.stack /\ pend'[t] = c.pend /\ c.next <= nextSpan'
      BY <1>1, <1>n, <1>t
    <3>2. Good(Context(t), nextSpan, OpenIds(t), stored, lastAbs[t], minAbs, ThreadName(ids, t))'
      BY <1>2, <3>1
    <3> QED BY <2>1, <3>1, <3>2 DEF ThreadInv
  <2>2. CASE u # t
    <3>1. ThreadInv(u) /\ IsContext(u)
      BY ContextOf DEF IInv, HaveContexts
    <3>2. stack'[u] = stack[u] /\ pend'[u] = pend[u] /\ lastAbs'[u] = lastAbs[u]
      BY <1>1, <1>t, <2>2
    <3>3. Context(u).next <= nextSpan' /\ stack'[u] = Context(u).stack /\ pend'[u] = Context(u).pend
      BY <1>1, <1>n, <3>1, <3>2 DEF IsContext
    <3>4. Good(Context(u), nextSpan, OpenIds(u), stored, lastAbs'[u], minAbs, ThreadName(ids, u))
      BY <3>1, <3>2 DEF ThreadInv
    <3>5. Good(Context(u), nextSpan, OpenIds(u), stored, lastAbs[u], minAbs, ThreadName(ids, u))'
      BY <1>2, <3>3, <3>4
    <3>6. lastAbs[u] \in OptTime
      BY <1>t
    <3> QED BY <2>2, <3>1, <3>2, <3>5, <3>6 DEF ThreadInv
  <2> QED BY <2>1, <2>2
<1>4. Ledger'
  <2>1. OpenIds(t)' = OpenIn(c) /\ \A u \in Tasks \ {t} : OpenIds(u)' = OpenIds(u)
    BY <1>1, <1>t DEF OpenIds, OpenIn
  <2>2. /\ OpenIn(c) \union Emitted(c) = OpenIds(t) \union {k \in Nat : nextSpan <= k /\ k < c.next}
        /\ OpenIn(c) \intersect Emitted(c) = {}
    BY <1>g DEF Conserved
  <2>l. /\ closed \union UNION {OpenIds(u) : u \in Tasks} = {n \in 0..nextSpan : n < nextSpan}
        /\ \A u \in Tasks : OpenIds(u) \intersect closed = {}
        /\ \A u, v \in Tasks : u # v => OpenIds(u) \intersect OpenIds(v) = {}
    BY DEF IInv, Ledger
  <2>3. {n \in 0..c.next : n < c.next}
            = {n \in 0..nextSpan : n < nextSpan} \union {k \in Nat : nextSpan <= k /\ k < c.next}
    BY <1>n, <1>t
  <2>4. \A k \in {k \in Nat : nextSpan <= k /\ k < c.next} : k \notin {n \in 0..nextSpan : n < nextSpan}
    BY <1>t
  <2> DEFINE New == {k \in Nat : nextSpan <= k /\ k < c.next}
             Old == {n \in 0..nextSpan : n < nextSpan}
  <2> HIDE DEF New, Old
  <2>5. closed' \union UNION {OpenIds(u)' : u \in Tasks} = Old \union New
    <3>1. \A k : k \in UNION {OpenIds(u)' : u \in Tasks} <=>
                    k \in OpenIn(c) \/ \E u \in Tasks \ {t} : k \in OpenIds(u)
      BY <2>1
    <3>2. \A k : k \in Old <=> k \in closed \/ k \in OpenIds(t) \/ \E u \in Tasks \ {t} : k \in OpenIds(u)
      BY <2>l DEF Old
    <3>3. \A k : k \in OpenIn(c) \/ k \in Emitted(c) <=> k \in OpenIds(t) \/ k \in New
      BY <2>2 DEF New
    <3> QED BY <1>1, <3>1, <3>2, <3>3
  <2>6. closed \subseteq Old /\ \A u \in Tasks : OpenIds(u) \subseteq Old
    BY <2>l DEF Old
  <2>7. \A k \in New : k \notin Old
    BY <2>4 DEF New, Old
  <2>8. OpenIn(c) \subseteq OpenIds(t) \union New /\ Emitted(c) \subseteq OpenIds(t) \union New
    BY <2>2 DEF New
  <2>9. \A u \in Tasks : OpenIds(u)' \intersect closed' = {}
    <3>1. OpenIn(c) \intersect closed' = {}
      BY <1>1, <2>2, <2>6, <2>7, <2>8, <2>l
    <3>2. ASSUME NEW u \in Tasks, u # t PROVE OpenIds(u) \intersect closed' = {}
      BY <1>1, <2>6, <2>7, <2>8, <2>l, <3>2
    <3> QED BY <2>1, <3>1, <3>2
  <2>10. \A u, v \in Tasks : u # v => OpenIds(u)' \intersect OpenIds(v)' = {}
    <3>1. ASSUME NEW u \in Tasks, u # t PROVE OpenIds(u) \intersect OpenIn(c) = {}
      BY <2>6, <2>7, <2>8, <2>l, <3>1
    <3> QED BY <2>1, <2>l, <3>1
  <2>11. Old \union New = {n \in 0..nextSpan' : n < nextSpan'}
    BY <1>1, <2>3 DEF Old, New
  <2> QED BY <2>5, <2>9, <2>10, <2>11 DEF Ledger
<1>5. Added'
  <2>1. \A s \in spans' : s.from \in stored' /\ s.to \in stored'
    BY <1>1, <1>g DEF Backed
  <2>2. DurationsSane'
    BY <1>1, <1>g DEF Started, DurationsSane
  <2>3. OriginIsFirst'
    BY <1>1, <1>g DEF Timely, After, OriginIsFirst
  <2> QED BY <2>1, <2>2, <2>3 DEF Added
<1> QED BY <1>3, <1>4, <1>5

-----------------------------------------------------------------------------
(***************************************************************************)
(* The records.                                                            *)
(***************************************************************************)
\* The origin is the earliest time seen.
LEMMA NoteAbsFacts ==
    ASSUME minAbs \in OptTime, NEW time \in OptTime, NoteAbs(time)
    PROVE  /\ minAbs' \in OptTime /\ After(minAbs', time)
           /\ \A x \in OptTime : After(minAbs, x) => After(minAbs', x)
<1>1. \A x \in OptTime : x # None => x \in Nat
    BY DEF OptTime, Times
<1>2. None \notin Nat
    BY ReconstructAssumption
<1>3. minAbs' = IF time # None /\ (minAbs = None \/ time < minAbs) THEN time ELSE minAbs
    BY DEF NoteAbs
<1> QED BY <1>1, <1>2, <1>3 DEF After

\* The context a record starts from is good by the time the record sets.
LEMMA StartGood ==
    ASSUME IInv, NEW t \in Tasks, NEW kept, stored \subseteq kept,
           NEW origin, \A x \in OptTime : After(minAbs, x) => After(origin, x)
    PROVE  Good(Context(t), nextSpan, OpenIds(t), kept, lastAbs[t], origin, ThreadName(ids, t))
<1> DEFINE c == Context(t)
<1>1. /\ c \in Contexts /\ OpenIn(c) = OpenIds(t) /\ c.spans = {} /\ c.gaps = {}
      /\ c.next = nextSpan /\ c.name = ThreadName(ids, t)
    BY ContextOf DEF IInv, HaveContexts, IsContext
<1>2. Good(c, nextSpan, OpenIds(t), stored, lastAbs[t], minAbs, ThreadName(ids, t))
    BY DEF IInv, ThreadInv
<1>3. c.next \in Nat /\ c.next <= c.next
    BY <1>1 DEF Contexts
<1> HIDE DEF c
<1>4. Good(c, c.next, OpenIn(c), kept, lastAbs[t], origin, c.name)
    BY <1>1, <1>2, <1>3, Settled
<1> QED BY <1>1, <1>4 DEF c

\* The contexts of push_sample: as it is entered, with the pending end settled,
\* and at the end.
Entered(t, s) == [Context(t) EXCEPT !.segments = Extended(@, s.time)]
Resolved(t, s) == ResolvePending(Regressed(Entered(t, s), t, s), s, nextEvent)
Outcome(t, s) ==
    IF Continues(Entered(t, s), s) THEN ApplyFlow(Resolved(t, s), s, nextEvent) ELSE Resolved(t, s)

\* They are good ones.
LEMMA SampleFacts ==
    ASSUME IInv, NEW t \in Tasks, NEW s, IsSample(s), PushSample(t, s)
    PROVE  /\ Good(Resolved(t, s), nextSpan, OpenIds(t), stored', lastAbs'[t], minAbs',
                   ThreadName(ids, t))
           /\ Good(Outcome(t, s), nextSpan, OpenIds(t), stored', lastAbs'[t], minAbs',
                   ThreadName(ids, t))
           /\ Adds(t, Outcome(t, s))
           /\ segments' = [segments EXCEPT ![t] = Outcome(t, s).segments]
<1> DEFINE now == OrElse(s.time, lastAbs[t])
           c0 == Entered(t, s)
           cr == Regressed(c0, t, s)
           c1 == ResolvePending(cr, s, nextEvent)
           c2 == IF Continues(c0, s) THEN ApplyFlow(c1, s, nextEvent) ELSE c1
           G(c, last) == Good(c, nextSpan, OpenIds(t), stored', last, minAbs', ThreadName(ids, t))
<1>1. /\ minAbs \in OptTime /\ lastAbs \in [Tasks -> OptTime] /\ cpuFirst \in [CPUs -> OptTime]
      /\ nextEvent \in Nat /\ nextSpan \in Nat
    BY DEF IInv, TypeOK
<1>2. s.time \in OptTime
    BY DEF IsSample
<1>3. /\ minAbs' \in OptTime /\ After(minAbs', s.time)
      /\ \A x \in OptTime : After(minAbs, x) => After(minAbs', x)
    BY <1>1, <1>2, NoteAbsFacts DEF PushSample
<1>4. /\ stored \subseteq stored' /\ (~Intra(s) => nextEvent \in stored')
    BY DEF PushSample
<1>5. lastAbs[t] \in OptTime /\ After(minAbs', lastAbs[t])
    BY <1>1, <1>3 DEF IInv, ThreadInv
<1>6. lastAbs'[t] = now
    BY <1>1 DEF PushSample
<1>7. G(Context(t), lastAbs[t])
    BY <1>3, <1>4, StartGood
<1>8. G(c0, lastAbs[t])
  <2>1. Context(t).segments \in Segs
    BY <1>7 DEF Good, Contexts
  <2>2. Extended(Context(t).segments, s.time) \in Segs
    BY <1>2, <2>1, SegmentTypes
  <2> QED BY <1>1, <1>7, <2>2, SegmentsGood DEF Entered
<1> HIDE DEF c0
<1>9. G(cr, now)
    BY <1>1, <1>3, <1>5, <1>8, RegressedGood
<1> HIDE DEF cr, now
<1>10. s.flow = "begin" => nextEvent \in stored'
    BY <1>4 DEF Intra
<1>11. G(c1, now)
    BY <1>1, <1>3, <1>9, <1>10, ResolveGood
<1> HIDE DEF c1
<1>12. s.time # None => now = s.time
    BY DEF now, OrElse
<1>13. G(c2, now)
  <2>1. G(ApplyFlow(c1, s, nextEvent), now)
    BY <1>1, <1>3, <1>4, <1>11, <1>12, ApplyGood
  <2> QED BY <1>11, <2>1
<1>14. Resolved(t, s) = c1 /\ Outcome(t, s) = c2
    BY DEF Outcome, Resolved, c0, cr, c1
<1> HIDE DEF c2
<1>15. Adds(t, Outcome(t, s)) /\ segments' = [segments EXCEPT ![t] = Outcome(t, s).segments]
    BY DEF PushSample, Outcome, Resolved, Entered
<1> QED BY <1>6, <1>11, <1>13, <1>14, <1>15

\* So does a decoder error.
LEMMA ErrorFacts ==
    ASSUME IInv, NEW t \in Tasks, NEW time \in OptTime, PushError(t, time)
    PROVE  \E c : /\ Good(c, nextSpan, OpenIds(t), stored', lastAbs'[t], minAbs', ThreadName(ids, t))
                  /\ Adds(t, c)
<1> DEFINE ic == InterruptThread(Context(t))
           c == PushGap(ic, "decoder_error", time, None)
           G(x) == Good(x, nextSpan, OpenIds(t), stored', lastAbs'[t], minAbs', ThreadName(ids, t))
<1>1. minAbs \in OptTime /\ nextSpan \in Nat /\ None \in OptTime /\ "decoder_error" \in GapKinds
    BY DEF IInv, TypeOK, OptTime, GapKinds
<1>2. /\ After(minAbs', time) /\ \A x \in OptTime : After(minAbs, x) => After(minAbs', x)
    BY <1>1, NoteAbsFacts DEF PushError
<1>3. stored' = stored /\ lastAbs' = lastAbs /\ Adds(t, c)
    BY DEF PushError
<1>4. Good(Context(t), nextSpan, OpenIds(t), stored', lastAbs[t], minAbs', ThreadName(ids, t))
    BY <1>2, <1>3, StartGood
<1>5. G(ic) /\ ic.stack = <<>>
    BY <1>1, <1>4, InterruptGood
<1>6. After(minAbs', None)
    BY DEF After
<1> HIDE DEF ic
<1>7. G(c)
    BY <1>1, <1>2, <1>5, <1>6, PushGapGood
<1> QED BY <1>3, <1>7

\* And so does the end of a thread.
LEMMA ExitFacts ==
    ASSUME IInv, NEW t \in Tasks, NEW time \in OptTime, PushExit(t, time)
    PROVE  \E c : /\ Good(c, nextSpan, OpenIds(t), stored', lastAbs'[t], minAbs', ThreadName(ids, t))
                  /\ Adds(t, c) /\ c.stack = <<>> /\ c.gaps = {}
<1> DEFINE c == CloseAll(Context(t), time)
<1>1. minAbs \in OptTime /\ nextSpan \in Nat
    BY DEF IInv, TypeOK
<1>2. /\ After(minAbs', time) /\ \A x \in OptTime : After(minAbs, x) => After(minAbs', x)
    BY <1>1, NoteAbsFacts DEF PushExit
<1>3. stored' = stored /\ Adds(t, c)
    BY DEF PushExit
<1>4. Good(Context(t), nextSpan, OpenIds(t), stored', lastAbs[t], minAbs', ThreadName(ids, t))
    BY <1>2, <1>3, StartGood
<1>5. Context(t).gaps = {}
    BY DEF Context
<1>6. /\ Good(c, nextSpan, OpenIds(t), stored', lastAbs'[t], minAbs', ThreadName(ids, t))
      /\ c.stack = <<>> /\ c.gaps = {}
    BY <1>1, <1>2, <1>4, <1>5, CloseAllGood
<1> QED BY <1>3, <1>6

\* finish emits what every thread has open.
LEMMA FinishFacts ==
    ASSUME IInv, NEW t \in Tasks
    PROVE  /\ Good(CloseAll(Context(t), None), nextSpan, OpenIds(t), stored, lastAbs[t], minAbs,
                   ThreadName(ids, t))
           /\ CloseAll(Context(t), None).stack = <<>> /\ CloseAll(Context(t), None).pend = NoEnd
           /\ CloseAll(Context(t), None).next = nextSpan
           /\ CloseAll(Context(t), None).spans \subseteq Spans
           /\ {s.id : s \in CloseAll(Context(t), None).spans} = OpenIds(t)
<1> DEFINE b == Context(t)
           c == CloseAll(b, None)
           name == ThreadName(ids, t)
<1>1. nextSpan \in Nat
    BY DEF IInv, TypeOK
<1>2. Good(b, nextSpan, OpenIds(t), stored, lastAbs[t], minAbs, name)
    BY DEF IInv, ThreadInv
<1>3. b.next = nextSpan
    BY DEF Context
<1>h. None \in OptTime /\ After(minAbs, None)
    BY DEF OptTime, After
<1> HIDE DEF b, name
<1>4. /\ Good(c, nextSpan, OpenIds(t), stored, lastAbs[t], minAbs, name)
      /\ c.stack = <<>> /\ c.pend = NoEnd /\ c.next = b.next
    BY <1>1, <1>2, <1>h, CloseAllGood
<1> HIDE DEF c
<1>5. c.spans \subseteq Spans
    BY <1>4, ContextTypes DEF Good
<1>6. OpenIn(c) = {}
    BY <1>4 DEF OpenIn
<1>7. {k \in Nat : nextSpan <= k /\ k < c.next} = {}
    BY <1>1, <1>3, <1>4
<1>8. Emitted(c) = OpenIds(t)
  <2>1. OpenIn(c) \union Emitted(c) = OpenIds(t) \union {k \in Nat : nextSpan <= k /\ k < c.next}
    BY <1>4 DEF Good, Conserved
  <2> QED BY <1>6, <1>7, <2>1
<1> QED BY <1>3, <1>4, <1>5, <1>8 DEF b, c, name, Emitted

-----------------------------------------------------------------------------
\* A sample keeps the types.
LEMMA SampleKeepsTypes ==
    ASSUME IInv, NEW t \in Tasks, NEW s, IsSample(s), PushSample(t, s)
    PROVE  TypeOK'
<1>0. TypeOK /\ minAbs \in OptTime
    BY DEF IInv, TypeOK
<1> DEFINE c == Outcome(t, s)
<1>1. /\ Good(c, nextSpan, OpenIds(t), stored', lastAbs'[t], minAbs', ThreadName(ids, t))
      /\ Adds(t, c) /\ segments' = [segments EXCEPT ![t] = c.segments]
    BY SampleFacts
<1> HIDE DEF c
<1>2. /\ stack' \in [Tasks -> Seq(Frames)] /\ pend' \in [Tasks -> Ends]
      /\ nextSpan' \in Nat /\ closed' \subseteq 0..nextSpan'
      /\ spans' \subseteq Spans /\ gaps' \subseteq Gaps /\ c.segments \in Segs
    BY <1>0, <1>1, AddsTypes
<1>3. s.time \in OptTime /\ s.cpu \in CPUs \union {None}
    BY DEF IsSample
<1>4. segments' \in [Tasks -> Seq(Times \X Times)]
    BY <1>0, <1>1, <1>2 DEF TypeOK, Segs
<1>5. lastAbs' \in [Tasks -> OptTime]
    BY <1>0, <1>3 DEF PushSample, OrElse, TypeOK
<1>6. cpuFirst' \in [CPUs -> OptTime]
    BY <1>0, <1>3 DEF PushSample, SeesCpu, OrElse, TypeOK
<1>7. minAbs' \in OptTime
    BY <1>0, <1>3, NoteAbsFacts DEF PushSample
<1>8. nextEvent' \in Nat /\ stored' \subseteq 0..nextEvent'
  <2>1. nextEvent \in Nat /\ stored \subseteq 0..nextEvent
    BY <1>0 DEF TypeOK
  <2> QED BY <2>1 DEF PushSample
<1>9. live' \in SUBSET Tasks /\ UNCHANGED <<ids, retired, phase>> /\ pushed' \in 0..MaxRecords
    BY <1>0, ReconstructAssumption DEF PushSample, Push, TypeOK
<1> QED BY <1>0, <1>2, <1>4, <1>5, <1>6, <1>7, <1>8, <1>9 DEF TypeOK

\* Every step keeps the types.
LEMMA TypeStep == IInv /\ [Next]_vars => TypeOK'
<1> SUFFICES ASSUME IInv, TypeOK, [Next]_vars PROVE TypeOK'
    BY DEF IInv
<1> USE DEF threadVars, stateVars
<1>0. None \in OptTime /\ NoEnd \in Ends /\ minAbs \in OptTime
    BY Zenon DEF NoEnd, Ends, OptFn, OptTime, TypeOK
<1>p. Push => pushed' \in 0..MaxRecords
    BY ReconstructAssumption DEF Push, TypeOK
<1>1. ASSUME NEW t \in Tasks, NEW s \in Samples, PushSample(t, s) PROVE TypeOK'
  BY <1>1, SampleKeepsTypes, SampleTypes
<1>2. ASSUME NEW c \in CPUs, NEW time \in Times, ForeignSample(c, time) PROVE TypeOK'
  <2>1. cpuFirst' \in [CPUs -> OptTime] /\ pushed' \in 0..MaxRecords
    BY <1>2, <1>p DEF ForeignSample, OptTime, TypeOK
  <2> QED BY <1>2, <2>1 DEF ForeignSample, TypeOK
<1>3. ASSUME NEW t \in Tasks, NEW time \in OptTime, PushError(t, time) PROVE TypeOK'
  <2>1. PICK c : /\ Good(c, nextSpan, OpenIds(t), stored', lastAbs'[t], minAbs', ThreadName(ids, t))
                 /\ Adds(t, c)
    BY <1>3, ErrorFacts
  <2>2. /\ stack' \in [Tasks -> Seq(Frames)] /\ pend' \in [Tasks -> Ends]
        /\ nextSpan' \in Nat /\ closed' \subseteq 0..nextSpan'
        /\ spans' \subseteq Spans /\ gaps' \subseteq Gaps
    BY <2>1, AddsTypes
  <2>3. minAbs' \in OptTime /\ pushed' \in 0..MaxRecords /\ live' \in SUBSET Tasks
    BY <1>0, <1>3, <1>p, NoteAbsFacts DEF PushError, TypeOK
  <2> QED BY <1>3, <2>2, <2>3 DEF PushError, TypeOK
<1>4. ASSUME NEW t \in Tasks, NEW time \in OptTime, PushExit(t, time) PROVE TypeOK'
  <2>1. PICK c : /\ Good(c, nextSpan, OpenIds(t), stored', lastAbs'[t], minAbs', ThreadName(ids, t))
                 /\ Adds(t, c)
    BY <1>4, ExitFacts
  <2>2. /\ stack' \in [Tasks -> Seq(Frames)] /\ pend' \in [Tasks -> Ends]
        /\ nextSpan' \in Nat /\ closed' \subseteq 0..nextSpan'
        /\ spans' \subseteq Spans /\ gaps' \subseteq Gaps
    BY <2>1, AddsTypes
  <2>3. minAbs' \in OptTime /\ pushed' \in 0..MaxRecords /\ live' \in SUBSET Tasks
    BY <1>0, <1>4, <1>p, NoteAbsFacts DEF PushExit, TypeOK
  <2>4. lastAbs' \in [Tasks -> OptTime] /\ segments' \in [Tasks -> Seq(Times \X Times)]
    BY <1>0, <1>4 DEF PushExit, TypeOK
  <2>5. ids' \in [generation : [Tasks -> Nat], exited : SUBSET Tasks]
    BY <1>4 DEF PushExit, TypeOK, TakeExited, Observe
  <2>6. retired' \subseteq {u[1] : u \in Tasks} \X Names
    <3>1. ThreadName(ids, t) \in Names
      BY DEF TypeOK, ThreadName, Names
    <3> QED BY <1>4, <3>1 DEF PushExit, TypeOK
  <2> QED BY <1>4, <2>2, <2>3, <2>4, <2>5, <2>6 DEF PushExit, TypeOK
<1>5. ASSUME NEW t \in Tasks, NEW time \in OptTime, PushExitUnseen(t, time) PROVE TypeOK'
  <2>1. ids' \in [generation : [Tasks -> Nat], exited : SUBSET Tasks]
    BY <1>5 DEF PushExitUnseen, TypeOK, Observe
  <2>2. minAbs' \in OptTime /\ pushed' \in 0..MaxRecords
    BY <1>0, <1>5, <1>p, NoteAbsFacts DEF PushExitUnseen
  <2> QED BY <1>5, <2>1, <2>2 DEF PushExitUnseen, TypeOK
<1>6. ASSUME NEW kind \in {"pt_loss", "decoder_error"}, PushLost(kind) PROVE TypeOK'
  <2>1. gaps' \subseteq Gaps /\ spans' \subseteq Spans
    BY <1>0, <1>6 DEF PushLost, Gaps, GapKinds
  <2>2. pushed' \in 0..MaxRecords
    BY <1>6, <1>p DEF PushLost
  <2> QED BY <1>6, <2>1, <2>2 DEF PushLost, TypeOK
<1>7. CASE Finish
  <2>1. \A t \in Tasks : /\ CloseAll(Context(t), None).spans \subseteq Spans
                        /\ {s.id : s \in CloseAll(Context(t), None).spans} = OpenIds(t)
    BY FinishFacts
  <2>2. live \subseteq Tasks /\ closed \subseteq 0..nextSpan
    BY DEF TypeOK
  <2>3. spans' = UNION {CloseAll(Context(t), None).spans : t \in live}
        /\ closed' = closed \union {s.id : s \in spans'}
    BY <1>7 DEF Finish
  <2>4. spans' \subseteq Spans
    BY <2>1, <2>2, <2>3
  <2>5. closed' \subseteq 0..nextSpan
    <3>1. \A t \in Tasks : OpenIds(t) \subseteq 0..nextSpan
      BY DEF IInv, Ledger
    <3>2. ASSUME NEW s \in spans' PROVE s.id \in 0..nextSpan
      <4>1. PICK t \in live : s \in CloseAll(Context(t), None).spans
        BY <2>3
      <4>2. s.id \in OpenIds(t)
        BY <2>1, <2>2, <4>1
      <4> QED BY <2>2, <3>1, <4>2
    <3> QED BY <2>2, <2>3, <3>2
  <2>6. stack' \in [Tasks -> Seq(Frames)] /\ pend' \in [Tasks -> Ends]
    BY <1>0, <1>7 DEF Finish
  <2>7. gaps' \subseteq Gaps
    BY <1>7 DEF Finish
  <2> QED BY <1>7, <2>4, <2>5, <2>6, <2>7 DEF Finish, TypeOK
<1>8. CASE FinishFails
  BY <1>8 DEF FinishFails, TypeOK
<1>9. CASE Finished \/ UNCHANGED vars
  BY <1>9 DEF Finished, vars, TypeOK
<1> QED BY <1>1, <1>2, <1>3, <1>4, <1>5, <1>6, <1>7, <1>8, <1>9 DEF Next

\* A step that changes no stack keeps what the invariant says of the threads.
LEMMA IdleStep ==
    ASSUME IInv, TypeOK', UNCHANGED <<live, stateVars, nextSpan, stored, closed>>,
           \A x \in OptTime : After(minAbs, x) => After(minAbs', x),
           phase' = "done" => phase = "done"
    PROVE  (\A u \in Tasks : ThreadInv(u)') /\ Ledger'
<1>1. UNCHANGED <<live, stack, pend, lastAbs, segments, nextSpan, stored, closed>>
    BY DEF stateVars
<1>c. HaveContexts' /\ HaveContexts
    BY ContextOf, PTL DEF IInv
<1>3. ASSUME NEW u \in Tasks PROVE ThreadInv(u)'
  <2> DEFINE d == Context(u)'
             b == Context(u)
  <2>1. /\ d \in Contexts /\ OpenIn(d) = OpenIds(u)' /\ d.next = nextSpan' /\ d.name = ThreadName(ids, u)'
        /\ d.stack = b.stack /\ d.pend = b.pend /\ d.spans = {} /\ d.gaps = {}
        /\ b.next = nextSpan
    BY <1>1, <1>c DEF HaveContexts, IsContext
  <2>2. Good(b, nextSpan, OpenIds(u), stored, lastAbs[u], minAbs, ThreadName(ids, u))
    BY DEF IInv, ThreadInv
  <2>3. nextSpan \in Nat /\ b.next <= d.next /\ lastAbs[u] \in OptTime
    BY <1>1, <2>1 DEF IInv, TypeOK
  <2> HIDE DEF d, b
  <2>4. Good(d, d.next, OpenIn(d), stored, lastAbs[u], minAbs', d.name)
    BY <2>1, <2>2, <2>3, Settled
  <2>5. Good(Context(u), nextSpan, OpenIds(u), stored, lastAbs[u], minAbs, ThreadName(ids, u))'
    BY <1>1, <2>1, <2>4 DEF d
  <2> QED BY <1>1, <2>3, <2>5 DEF IInv, ThreadInv
<1>4. Ledger'
  <2>1. \A u \in Tasks : OpenIds(u)' = OpenIds(u)
    BY <1>1 DEF OpenIds
  <2> QED BY <1>1, <2>1 DEF IInv, Ledger
<1> QED BY <1>3, <1>4

\* finish closes every stack.
LEMMA FinishStep ==
    ASSUME IInv, TypeOK', Finish
    PROVE  (\A u \in Tasks : ThreadInv(u)') /\ Ledger' /\ Added'
<1> DEFINE Closed(u) == CloseAll(Context(u), None)
<1>f. \A u \in Tasks :
        /\ Good(Closed(u), nextSpan, OpenIds(u), stored, lastAbs[u], minAbs, ThreadName(ids, u))
        /\ Closed(u).stack = <<>> /\ Closed(u).pend = NoEnd /\ Closed(u).next = nextSpan
        /\ {s.id : s \in Closed(u).spans} = OpenIds(u)
    BY FinishFacts
<1> HIDE DEF Closed
<1>1. /\ UNCHANGED <<live, ids, lastAbs, minAbs, nextSpan, stored>>
      /\ \A u \in Tasks : stack'[u] = <<>> /\ pend'[u] = NoEnd
      /\ spans' = UNION {Closed(u).spans : u \in live} /\ gaps' = {}
      /\ closed' = closed \union {s.id : s \in spans'}
    BY DEF Finish, threadVars, Closed
<1>t. /\ live \subseteq Tasks /\ nextSpan \in Nat /\ closed \subseteq 0..nextSpan
      /\ \A u \in Tasks : lastAbs[u] \in OptTime
    BY DEF IInv, TypeOK
<1>c. HaveContexts'
    BY ContextOf, PTL
<1>2. ASSUME NEW u \in Tasks PROVE ThreadInv(u)'
  <2> DEFINE d == Context(u)'
             b == Closed(u)
  <2>1. /\ d \in Contexts /\ OpenIn(d) = OpenIds(u)' /\ d.next = nextSpan' /\ d.name = ThreadName(ids, u)'
        /\ d.stack = <<>> /\ d.pend = NoEnd /\ d.spans = {} /\ d.gaps = {}
    BY <1>1, <1>c DEF HaveContexts, IsContext
  <2>2. /\ Good(b, nextSpan, OpenIds(u), stored, lastAbs[u], minAbs, ThreadName(ids, u))
        /\ b.stack = <<>> /\ b.pend = NoEnd /\ b.next = nextSpan
    BY <1>f
  <2>3. b.next <= d.next
    BY <1>1, <1>t, <2>1, <2>2
  <2> HIDE DEF d, b
  <2>4. Good(d, d.next, OpenIn(d), stored, lastAbs[u], minAbs, d.name)
    BY <1>t, <2>1, <2>2, <2>3, Settled
  <2>5. Good(Context(u), nextSpan, OpenIds(u), stored, lastAbs[u], minAbs, ThreadName(ids, u))'
    BY <1>1, <2>1, <2>4 DEF d
  <2> QED BY <1>1, <2>5 DEF IInv, ThreadInv
<1>3. Ledger'
  <2>1. \A u \in Tasks : OpenIds(u)' = {}
    BY <1>1 DEF OpenIds
  <2>2. ASSUME NEW u \in Tasks, u \notin live PROVE OpenIds(u) = {}
    <3>1. stack[u] = <<>>
      BY <2>2 DEF IInv, ThreadInv
    <3> QED BY <3>1 DEF OpenIds
  <2>3. {s.id : s \in spans'} = UNION {OpenIds(u) : u \in Tasks}
    <3>1. {s.id : s \in spans'} = UNION {OpenIds(u) : u \in live}
      BY <1>1, <1>f, <1>t
    <3> QED BY <1>t, <2>2, <3>1
  <2>4. closed \union UNION {OpenIds(u) : u \in Tasks} = {n \in 0..nextSpan : n < nextSpan}
    BY DEF IInv, Ledger
  <2>5. closed' \union UNION {OpenIds(u)' : u \in Tasks} = {n \in 0..nextSpan : n < nextSpan}
    BY <1>1, <2>1, <2>3, <2>4
  <2> QED BY <1>1, <2>1, <2>5 DEF Ledger
<1>4. Added'
  <2>1. ASSUME NEW s \in spans'
        PROVE  /\ s.from \in stored /\ s.to \in stored
               /\ s.comp = "complete" /\ s.start # None /\ s.end # None => s.start <= s.end
               /\ After(minAbs, s.start) /\ After(minAbs, s.end)
    <3>1. PICK u \in Tasks : s \in Closed(u).spans
      BY <1>1, <1>t
    <3>2. Backed(Closed(u), stored) /\ Timely(Closed(u), minAbs) /\ Started(Closed(u), lastAbs[u])
      BY <1>f DEF Good
    <3> QED BY <3>1, <3>2 DEF Backed, Timely, Started
  <2>2. DurationsSane'
    BY <2>1 DEF DurationsSane
  <2>3. OriginIsFirst'
    BY <1>1, <2>1 DEF OriginIsFirst, After
  <2> QED BY <1>1, <2>1, <2>2, <2>3 DEF Added
<1> QED BY <1>2, <1>3, <1>4

\* Only the end of a thread retires a name, and it counts the generation.
LEMMA NamedStep == IInv /\ [Next]_vars => Named'
<1> SUFFICES ASSUME TypeOK, Named, [Next]_vars PROVE Named'
    BY DEF IInv
<1> USE DEF threadVars
<1>1. CASE UNCHANGED retired /\ ids'.generation = ids.generation
  BY <1>1 DEF Named
<1>2. ASSUME NEW t \in Tasks, NEW time \in OptTime, PushExit(t, time) PROVE Named'
  <2>1. /\ ids.generation \in [Tasks -> Nat]
        /\ ids'.generation = [ids.generation EXCEPT ![t] = @ + 1]
        /\ retired' = retired \union {<<t[1], <<t[2], ids.generation[t]>> >>}
    BY <1>2 DEF PushExit, TakeExited, Observe, ThreadName, TypeOK
  <2>2. \A u \in Tasks : ids.generation[u] \in Nat /\ ids.generation[u] <= ids'.generation[u]
    BY <2>1
  <2>3. ASSUME NEW r \in retired', NEW u \in Tasks, r[1] = u[1], r[2][1] = u[2]
        PROVE  r[2][2] < ids'.generation[u]
    <3>1. CASE r \in retired
      <4>1. r[2][2] < ids.generation[u] /\ r[2][2] \in Nat
        BY <2>3, <3>1 DEF Named, TypeOK, Names
      <4> QED BY <2>1, <2>2, <4>1
    <3>2. CASE r = <<t[1], <<t[2], ids.generation[t]>> >>
      <4>1. u = t
        BY <2>3, <3>2, ReconstructAssumption
      <4> QED BY <2>1, <3>2, <4>1
    <3> QED BY <2>1, <3>1, <3>2
  <2> QED BY <2>3 DEF Named
<1>3. ASSUME NEW t \in Tasks, NEW time \in OptTime, PushExitUnseen(t, time) PROVE Named'
  BY <1>1, <1>3 DEF PushExitUnseen, Observe, TypeOK
<1>4. ASSUME NEW t \in Tasks, NEW s \in Samples, PushSample(t, s) PROVE Named'
  BY <1>1, <1>4 DEF PushSample
<1>5. ASSUME NEW t \in Tasks, NEW time \in OptTime, PushError(t, time) PROVE Named'
  BY <1>1, <1>5 DEF PushError
<1>6. ASSUME NEW c \in CPUs, NEW time \in Times, ForeignSample(c, time) PROVE Named'
  BY <1>1, <1>6 DEF ForeignSample
<1>7. ASSUME NEW kind \in {"pt_loss", "decoder_error"}, PushLost(kind) PROVE Named'
  BY <1>1, <1>7 DEF PushLost
<1>8. CASE Finish \/ FinishFails \/ Finished \/ UNCHANGED vars
  BY <1>1, <1>8 DEF Finish, FinishFails, Finished, vars
<1> QED BY <1>2, <1>3, <1>4, <1>5, <1>6, <1>7, <1>8 DEF Next

\* The invariant holds at the start.
LEMMA InitInv == Init => IInv
<1> SUFFICES ASSUME Init PROVE IInv
    OBVIOUS
<1>0. None \in OptTime /\ NoEnd \in Ends /\ NoEnd.abs = None
    BY Zenon DEF NoEnd, Ends, OptFn, OptTime
<1>1. TypeOK
  <2>1. ids \in [generation : [Tasks -> Nat], exited : SUBSET Tasks]
    BY DEF Init, NoIds
  <2>2. stack \in [Tasks -> Seq(Frames)] /\ segments \in [Tasks -> Seq(Times \X Times)]
    BY DEF Init
  <2>3. /\ pend \in [Tasks -> Ends] /\ lastAbs \in [Tasks -> OptTime]
        /\ cpuFirst \in [CPUs -> OptTime] /\ minAbs \in OptTime
    BY <1>0 DEF Init
  <2>4. phase = "open" /\ pushed \in 0..MaxRecords /\ nextEvent = 0 /\ nextSpan = 0
    BY ReconstructAssumption DEF Init
  <2> QED BY <2>1, <2>2, <2>3, <2>4 DEF Init, TypeOK
<1>2. \A t \in Tasks : OpenIds(t) = {} /\ stack[t] = <<>> /\ pend[t] = NoEnd /\ lastAbs[t] = None
    BY DEF Init, OpenIds
<1>3. ASSUME NEW t \in Tasks PROVE ThreadInv(t)
  <2> DEFINE c == Context(t)
  <2>1. /\ c \in Contexts /\ c.stack = <<>> /\ c.pend = NoEnd /\ c.spans = {} /\ c.gaps = {}
        /\ c.next = 0 /\ c.name = ThreadName(ids, t)
    BY <1>1, <1>2, ContextOf DEF HaveContexts, IsContext, Init
  <2> HIDE DEF c
  <2>2. Ordered(c) /\ Linked(c) /\ Backed(c, stored) /\ Started(c, lastAbs[t]) /\ Cut(c, 0)
        /\ Signed(c, ThreadName(ids, t))
    BY <2>1 DEF Ordered, Linked, Backed, Started, Cut, Signed
  <2>3. Timely(c, minAbs)
    BY <1>0, <2>1 DEF Timely, After
  <2>4. Conserved(c, 0, {})
    <3>1. OpenIn(c) = {} /\ Emitted(c) = {} /\ {k \in Nat : 0 <= k /\ k < 0} = {}
      BY <2>1 DEF OpenIn, Emitted
    <3> QED BY <2>1, <3>1 DEF Conserved
  <2>5. Good(c, 0, {}, stored, lastAbs[t], minAbs, ThreadName(ids, t))
    BY <2>1, <2>2, <2>3, <2>4 DEF Good
  <2>6. nextSpan = 0
    BY DEF Init
  <2> QED BY <1>2, <2>5, <2>6 DEF c, ThreadInv, After
<1>4. Ledger /\ Added /\ Named
  <2>1. Ledger
    <3>1. closed = {} /\ nextSpan = 0 /\ phase = "open" /\ {n \in 0..0 : n < 0} = {}
      BY DEF Init
    <3>2. UNION {OpenIds(t) : t \in Tasks} = {}
      BY <1>2
    <3> QED BY <1>2, <3>1, <3>2 DEF Ledger
  <2>2. spans = {} /\ gaps = {} /\ retired = {}
    BY DEF Init
  <2> QED BY <2>1, <2>2 DEF Added, Named, DurationsSane, OriginIsFirst
<1> QED BY <1>1, <1>3, <1>4 DEF IInv

\* A step that adds nothing to the spans keeps what is said of the additions.
LEMMA NothingAdded ==
    ASSUME spans' = {},
           gaps' = {} \/ \E k : gaps' = {[thread |-> None, kind |-> k, start |-> None, end |-> None]}
    PROVE  Added'
<1>1. \A x \in spans' \union gaps' : x.start = None /\ x.end = None
    OBVIOUS
<1> QED BY <1>1 DEF Added, DurationsSane, OriginIsFirst

\* A sample keeps the invariant.
LEMMA SampleInv ==
    ASSUME IInv, NEW t \in Tasks, NEW s, IsSample(s), PushSample(t, s)
    PROVE  IInv'
<1>t. TypeOK'
    BY SampleKeepsTypes
<1>n. Named'
    BY DEF PushSample, IInv, Named
<1> DEFINE c == Outcome(t, s)
<1>1. /\ Good(c, nextSpan, OpenIds(t), stored', lastAbs'[t], minAbs', ThreadName(ids, t))
      /\ Adds(t, c)
    BY SampleFacts
<1> HIDE DEF c
<1>2. s.time \in OptTime /\ minAbs \in OptTime
    BY DEF IsSample, IInv, TypeOK
<1>3. /\ \A x \in OptTime : After(minAbs, x) => After(minAbs', x)
      /\ After(minAbs', s.time)
    BY <1>2, NoteAbsFacts DEF PushSample
<1>4. /\ lastAbs'[t] = OrElse(s.time, lastAbs[t]) /\ lastAbs[t] \in OptTime
      /\ \A u \in Tasks \ {t} : lastAbs'[u] = lastAbs[u]
    BY DEF PushSample, IInv, TypeOK
<1>5. After(minAbs', lastAbs'[t])
    BY <1>3, <1>4 DEF IInv, ThreadInv, OrElse
<1>6. stored \subseteq stored' /\ live' = live \union {t} /\ phase = "open" /\ phase' = phase
    BY DEF PushSample, Push
<1>7. (\A u \in Tasks : ThreadInv(u)') /\ Ledger' /\ Added'
    BY <1>t, <1>1, <1>3, <1>4, <1>5, <1>6, AddsStep
<1> QED BY <1>t, <1>n, <1>7 DEF IInv

\* Every step keeps the invariant.
LEMMA StepInv == IInv /\ [Next]_vars => IInv'
<1> SUFFICES ASSUME IInv, [Next]_vars PROVE IInv'
    OBVIOUS
<1> DEFINE Kept == (\A u \in Tasks : ThreadInv(u)') /\ Ledger' /\ Added'
<1>t. TypeOK' /\ Named'
    BY TypeStep, NamedStep
<1>0. minAbs \in OptTime /\ None \in OptTime
    BY DEF IInv, TypeOK, OptTime
<1>1. ASSUME NEW t \in Tasks, NEW s \in Samples, PushSample(t, s) PROVE Kept
  BY <1>1, SampleInv, SampleTypes DEF IInv
<1>2. ASSUME NEW t \in Tasks, NEW time \in OptTime, PushError(t, time) PROVE Kept
  <2>1. PICK c : /\ Good(c, nextSpan, OpenIds(t), stored', lastAbs'[t], minAbs', ThreadName(ids, t))
                 /\ Adds(t, c)
    BY <1>2, ErrorFacts
  <2>2. \A x \in OptTime : After(minAbs, x) => After(minAbs', x)
    BY <1>0, <1>2, NoteAbsFacts DEF PushError
  <2>3. stored \subseteq stored' /\ live' = live \union {t} /\ phase = "open" /\ phase' = phase
        /\ lastAbs' = lastAbs
    BY <1>2 DEF PushError, Push
  <2>4. After(minAbs', lastAbs'[t])
    <3>1. lastAbs[t] \in OptTime /\ After(minAbs, lastAbs[t])
      BY DEF IInv, TypeOK, ThreadInv
    <3> QED BY <2>2, <2>3, <3>1
  <2> QED BY <1>t, <2>1, <2>2, <2>3, <2>4, AddsStep
<1>3. ASSUME NEW t \in Tasks, NEW time \in OptTime, PushExit(t, time) PROVE Kept
  <2>1. PICK c : /\ Good(c, nextSpan, OpenIds(t), stored', lastAbs'[t], minAbs', ThreadName(ids, t))
                 /\ Adds(t, c) /\ c.stack = <<>>
    BY <1>3, ExitFacts
  <2>2. \A x \in OptTime : After(minAbs, x) => After(minAbs', x)
    BY <1>0, <1>3, NoteAbsFacts DEF PushExit
  <2>3. stored \subseteq stored' /\ live' = live \ {t} /\ phase = "open" /\ phase' = phase
    BY <1>3 DEF PushExit, Push
  <2>4. lastAbs'[t] = None /\ \A u \in Tasks \ {t} : lastAbs'[u] = lastAbs[u]
    BY <1>3 DEF PushExit, IInv, TypeOK
  <2>5. After(minAbs', lastAbs'[t])
    BY <2>4 DEF After
  <2> QED BY <1>t, <2>1, <2>2, <2>3, <2>4, <2>5, AddsStep
<1>i. ASSUME UNCHANGED <<live, stateVars, nextSpan, stored, closed, minAbs>>,
             phase' = "done" => phase = "done", Added'
      PROVE  Kept
  BY <1>i, <1>t, IdleStep
<1>4. ASSUME NEW c \in CPUs, NEW time \in Times, ForeignSample(c, time) PROVE Kept
  <2>1. Added'
    BY <1>4, NothingAdded DEF ForeignSample
  <2>2. UNCHANGED <<live, stateVars, nextSpan, stored, closed, minAbs, phase>>
    BY <1>4 DEF ForeignSample, threadVars
  <2> QED BY <1>i, <2>1, <2>2
<1>5. ASSUME NEW t \in Tasks, NEW time \in OptTime, PushExitUnseen(t, time) PROVE Kept
  <2>1. Added'
    BY <1>5, NothingAdded DEF PushExitUnseen
  <2>2. \A x \in OptTime : After(minAbs, x) => After(minAbs', x)
    BY <1>0, <1>5, NoteAbsFacts DEF PushExitUnseen
  <2>3. UNCHANGED <<live, stateVars, nextSpan, stored, closed, phase>>
    BY <1>5 DEF PushExitUnseen
  <2> QED BY <1>t, <2>1, <2>2, <2>3, IdleStep
<1>6. ASSUME NEW kind \in {"pt_loss", "decoder_error"}, PushLost(kind) PROVE Kept
  <2>1. Added'
    BY <1>6, NothingAdded DEF PushLost
  <2>2. UNCHANGED <<live, stateVars, nextSpan, stored, closed, minAbs, phase>>
    BY <1>6 DEF PushLost, threadVars
  <2> QED BY <1>i, <2>1, <2>2
<1>7. ASSUME Finish PROVE Kept
  BY <1>7, <1>t, FinishStep
<1>8. ASSUME FinishFails PROVE Kept
  <2>1. Added'
    BY <1>8, NothingAdded DEF FinishFails
  <2>2. UNCHANGED <<live, stateVars, nextSpan, stored, closed, minAbs>> /\ phase' = "failed"
    BY <1>8 DEF FinishFails, threadVars
  <2> QED BY <1>i, <2>1, <2>2
<1>9. ASSUME Finished \/ UNCHANGED vars PROVE Kept
  <2>1. UNCHANGED vars
    BY <1>9 DEF Finished
  <2>2. Added'
    BY <2>1 DEF vars, IInv, Added, DurationsSane, OriginIsFirst
  <2>3. UNCHANGED <<live, stateVars, nextSpan, stored, closed, minAbs, phase>>
    BY <2>1 DEF vars, stateVars
  <2> QED BY <1>i, <2>2, <2>3
<1>k. Kept
    BY <1>1, <1>2, <1>3, <1>4, <1>5, <1>6, <1>7, <1>8, <1>9 DEF Next
<1> QED BY <1>k, <1>t DEF IInv

\* So it holds always.
LEMMA Inductive == Spec => []IInv
<1> QED BY InitInv, StepInv, PTL DEF Spec

-----------------------------------------------------------------------------
(***************************************************************************)
(* The theorems.                                                           *)
(***************************************************************************)
\* Stacks, gaps, spans and counters are what the code declares them to be:
\* every helper of push_sample builds well-formed frames, spans and gaps.
THEOREM ReconstructTypes == Spec => []TypeOK
<1>1. IInv => TypeOK
    BY DEF IInv
<1> QED BY <1>1, Inductive, PTL

\* The frames of a stack have different ids.
LEMMA DistinctIds ==
    ASSUME IInv, NEW t \in Tasks
    PROVE  Cardinality(OpenIds(t)) = Len(stack[t])
<1> DEFINE c == Context(t)
           m == Len(stack[t])
           f == [i \in 1..m |-> stack[t][i].id]
<1>1. c.stack = stack[t] /\ c \in Contexts /\ Ordered(c)
    BY ContextOf DEF IInv, ThreadInv, Good, HaveContexts, IsContext
<1>2. m \in Nat /\ \A i \in 1..m : stack[t][i].id \in Nat
    BY <1>1, ContextTypes
<1>3. \A i, j \in 1..m : i < j => stack[t][i].id < stack[t][j].id
    BY <1>1 DEF Ordered
<1> HIDE DEF c, m
<1>4. \A i \in 1..m, j \in 1..m : stack[t][i].id = stack[t][j].id => i = j
    BY <1>2, <1>3
<1>5. OpenIds(t) = {stack[t][i].id : i \in 1..m}
    BY DEF OpenIds, m
<1>6. f \in Bijection(1..m, OpenIds(t))
  <2>1. f \in [1..m -> OpenIds(t)]
    BY <1>5
  <2>2. \A i, j \in 1..m : f[i] = f[j] => i = j
    BY <1>4
  <2>3. \A k \in OpenIds(t) : \E i \in 1..m : f[i] = k
    BY <1>5
  <2> QED BY <2>1, <2>2, <2>3 DEF Bijection, Injection, Surjection, IsInjective
<1>7. IsFiniteSet(1..m) /\ Cardinality(1..m) = m
    BY <1>2, FS_Interval
<1>8. Cardinality(OpenIds(t)) = Cardinality(1..m)
    BY <1>6, <1>7, FS_Bijection DEF ExistsBijection
<1> QED BY <1>7, <1>8 DEF m

\* No call is lost and none is told twice: an id is handed out by push_open and
\* Return only, and leaves a stack only into a span, whatever order of calls,
\* returns, tail calls, losses and exits the records make.
THEOREM EverySpanCounted == Spec => []SpansConserved
<1>1. IInv => SpansConserved
  <2> SUFFICES ASSUME IInv PROVE SpansConserved
    OBVIOUS
  <2>1. \A t \in Tasks : Cardinality(OpenIds(t)) = Len(stack[t])
    BY DistinctIds
  <2>2. /\ closed \union UNION {OpenIds(t) : t \in Tasks} = {n \in 0..nextSpan : n < nextSpan}
        /\ \A t \in Tasks : OpenIds(t) \intersect closed = {}
        /\ \A t, u \in Tasks : t # u => OpenIds(t) \intersect OpenIds(u) = {}
        /\ phase = "done" => \A t \in Tasks : stack[t] = <<>>
    BY DEF IInv, Ledger
  <2>3. phase = "done" => UNION {OpenIds(t) : t \in Tasks} = {}
    BY <2>2 DEF OpenIds
  <2>4. phase = "done" => closed = {n \in 0..nextSpan : n < nextSpan}
    BY <2>2, <2>3
  <2> QED BY <2>1, <2>2, <2>4 DEF SpansConserved
<1> QED BY <1>1, Inductive, PTL

\* Frames are linked to the one below, also after tail calls, and rest on
\* events that retention keeps.
THEOREM FramesGrounded == Spec => []FramesAreGrounded
<1>1. IInv => FramesAreGrounded
  <2> SUFFICES ASSUME IInv PROVE FramesAreGrounded
    OBVIOUS
  <2>1. ASSUME NEW t \in Tasks
        PROVE  \A i \in 1..Len(stack[t]) :
                  /\ stack[t][i].parent = IF i = 1 THEN None ELSE stack[t][i - 1].id
                  /\ stack[t][i].ev \in stored
    <3>1. Context(t).stack = stack[t] /\ Linked(Context(t)) /\ Backed(Context(t), stored)
      BY ContextOf DEF IInv, ThreadInv, Good, HaveContexts, IsContext
    <3> QED BY <3>1 DEF Linked, Backed
  <2>2. StackLinked
    BY <2>1 DEF StackLinked
  <2>3. EvidenceStored
    BY <2>1 DEF IInv, Added, EvidenceStored
  <2> QED BY <2>2, <2>3 DEF FramesAreGrounded
<1> QED BY <1>1, Inductive, PTL

\* A complete call never ends before it started, and no time of a span or a gap
\* precedes the origin: rebase cannot fail, however CPUs and threads interleave.
THEOREM TimesSane == Spec => []TimesAreSane
<1>1. IInv => TimesAreSane
    BY DEF IInv, Added, TimesAreSane
<1> QED BY <1>1, Inductive, PTL

\* A reused tid gets a new name: no live thread has the name of another of its
\* process, nor of one that exited.
THEOREM NamesUnique == Spec => []NamesAreUnique
<1>1. IInv => NamesAreUnique
  <2> SUFFICES ASSUME TypeOK, Named PROVE NamesAreUnique
    BY DEF IInv
  <2>1. \A t \in live : <<t[1], ThreadName(ids, t)>> \notin retired
    <3>1. ASSUME NEW t \in live, <<t[1], <<t[2], ids.generation[t]>> >> \in retired PROVE FALSE
      <4>1. t \in Tasks /\ ids.generation[t] \in Nat
        BY DEF TypeOK
      <4>2. ids.generation[t] < ids.generation[t]
        BY <3>1, <4>1 DEF Named
      <4> QED BY <4>1, <4>2
    <3> QED BY <3>1 DEF ThreadName
  <2>2. \A t, u \in live : t[1] = u[1] /\ ThreadName(ids, t) = ThreadName(ids, u) => t = u
    BY ReconstructAssumption DEF TypeOK, ThreadName
  <2> QED BY <2>1, <2>2 DEF NamesAreUnique
<1> QED BY <1>1, Inductive, PTL

\* A loss, an error, an interrupt or a time regression cuts the stack of its
\* thread: what is open after it was opened after it.
THEOREM GapsCutStacks == Spec => GapsCut
<1> DEFINE Step == \A t \in Tasks :
               (\E g \in gaps' :
                    g.thread = ThreadName(ids, t) /\ t \in live' /\ g.kind # "trace_boundary")
                   => \A i \in 1..Len(stack'[t]) : stack'[t][i].id >= nextSpan
<1>1. ASSUME IInv, [Next]_vars, ~UNCHANGED vars PROVE Step
  <2> SUFFICES ASSUME NEW t \in Tasks, NEW g \in gaps', g.thread = ThreadName(ids, t), t \in live',
                      g.kind # "trace_boundary"
               PROVE  \A i \in 1..Len(stack'[t]) : stack'[t][i].id >= nextSpan
    OBVIOUS
  <2>t. /\ stack \in [Tasks -> Seq(Frames)] /\ live \subseteq Tasks /\ nextSpan \in Nat
        /\ TypeOK
    BY <1>1 DEF IInv, TypeOK
  <2>n. ThreadName(ids, t) \in {u[2] : u \in Tasks} \X Nat
    BY <2>t DEF TypeOK, ThreadName
  <2>1. ASSUME NEW u \in Tasks, NEW c, NEW kept, NEW last, NEW origin,
               Good(c, nextSpan, OpenIds(u), kept, last, origin, ThreadName(ids, u)),
               Adds(u, c), TidFree(u), live' = live \union {u}
        PROVE  \A i \in 1..Len(stack'[t]) : stack'[t][i].id >= nextSpan
    <3>1. Cut(c, nextSpan) /\ Signed(c, ThreadName(ids, u)) /\ c \in Contexts
      BY <2>1 DEF Good
    <3>2. gaps' = c.gaps /\ stack' = [stack EXCEPT ![u] = c.stack]
      BY <2>1 DEF Adds
    <3>3. ThreadName(ids, t) = ThreadName(ids, u)
      BY <3>1, <3>2 DEF Signed
    <3>4. t[2] = u[2]
      BY <3>3 DEF ThreadName
    <3>5. t = u
      BY <2>1, <3>4 DEF TidFree
    <3>6. \A i \in 1..Len(c.stack) : c.stack[i].id >= nextSpan
      BY <3>1, <3>2 DEF Cut
    <3> QED BY <2>t, <3>2, <3>5, <3>6
  <2>2. ASSUME NEW u \in Tasks, NEW s \in Samples, PushSample(u, s)
        PROVE  \A i \in 1..Len(stack'[t]) : stack'[t][i].id >= nextSpan
    <3>1. /\ Good(Outcome(u, s), nextSpan, OpenIds(u), stored', lastAbs'[u], minAbs',
                  ThreadName(ids, u))
          /\ Adds(u, Outcome(u, s))
      BY <1>1, <2>2, SampleFacts, SampleTypes
    <3>2. TidFree(u) /\ live' = live \union {u}
      BY <2>2 DEF PushSample
    <3> QED BY <2>1, <3>1, <3>2
  <2>3. ASSUME NEW u \in Tasks, NEW time \in OptTime, PushError(u, time)
        PROVE  \A i \in 1..Len(stack'[t]) : stack'[t][i].id >= nextSpan
    <3>1. PICK c : /\ Good(c, nextSpan, OpenIds(u), stored', lastAbs'[u], minAbs', ThreadName(ids, u))
                   /\ Adds(u, c)
      BY <1>1, <2>3, ErrorFacts
    <3>2. TidFree(u) /\ live' = live \union {u}
      BY <2>3 DEF PushError
    <3> QED BY <2>1, <3>1, <3>2
  <2>4. ASSUME NEW u \in Tasks, NEW time \in OptTime, PushExit(u, time) PROVE gaps' = {}
    <3>1. PICK c : Adds(u, c) /\ c.gaps = {}
      BY <1>1, <2>4, ExitFacts
    <3> QED BY <3>1 DEF Adds
  <2>5. ASSUME NEW kind \in {"pt_loss", "decoder_error"}, PushLost(kind) PROVE FALSE
    <3>1. g.thread = None
      BY <2>5 DEF PushLost
    <3> QED BY <2>n, <3>1, ReconstructAssumption
  <2>6. ASSUME NEW c \in CPUs, NEW time \in Times, ForeignSample(c, time) PROVE gaps' = {}
    BY <2>6 DEF ForeignSample
  <2>7. ASSUME NEW u \in Tasks, NEW time \in OptTime, PushExitUnseen(u, time) PROVE gaps' = {}
    BY <2>7 DEF PushExitUnseen
  <2>8. Finish \/ FinishFails => gaps' = {}
    BY DEF Finish, FinishFails
  <2>9. ~Finished
    BY <1>1 DEF Finished
  <2> QED BY <1>1, <2>2, <2>3, <2>4, <2>5, <2>6, <2>7, <2>8, <2>9 DEF Next
<1>2. IInv /\ [Next]_vars => [Step]_vars
    BY <1>1
<1> QED BY <1>2, Inductive, PTL DEF Spec, GapsCut

-----------------------------------------------------------------------------
(***************************************************************************)
(* CallTruth: the stack that is reconstructed is the program's.            *)
(***************************************************************************)
\* The rings start together: once a step was seen on one CPU, those that follow
\* are old in no ring.  Rings that lost at most the first step do.
Together == \A c, d \in CPUs : ringStart[d] <= 2 \/ ringStart[d] <= ringStart[c] + 1

\* The frames of the program.
RealFrames == [fn : OptFn, since : Nat, sig : BOOLEAN]

\* A stack of the program: a signal interrupts something, and only the frame on
\* top can be without a name.
IsStack(re) ==
    /\ re \in Seq(RealFrames) /\ Len(re) >= 1 /\ ~re[1].sig
    /\ \A i \in 1..Len(re) - 1 : re[i].fn # None

\* The program's own state, and no record of the thread is newer than its clock.
Program ==
    /\ IsStack(real)
    /\ clock \in 0..MaxTime /\ cpu \in CPUs /\ ringStart \in [CPUs -> Nat] /\ Together
    /\ lastAbs[Thread] # None => lastAbs[Thread] <= clock

\* A frame that is open stands for a call of the program; the start of one
\* that was seen to be called is known.
Same(f, r) == f.fn = r.fn /\ (f.comp = "open_end" => f.start = r.since)

\* The stack is the innermost part of the real one, and no signal came in
\* since its outermost frame began.
Matched(st, re) ==
    /\ Len(st) <= Len(re)
    /\ \A i \in 1..Len(st) :
          LET r == re[i + (Len(re) - Len(st))] IN Same(st[i], r) /\ (i > 1 => ~r.sig)

\* A frame is open only while nothing that happens is lost, and a pending end
\* is there exactly while the program is in the kernel.
Tracked ==
    stack[Thread] # <<>> =>
        /\ ~dark /\ \A c \in CPUs : ringStart[c] <= Now
        /\ pend[Thread].set <=> inKernel
        /\ inKernel => pend[Thread].fn = Top.fn

\* In the signal trampoline nothing is open.
Untracked == Top.fn = None /\ Top.sig => stack[Thread] = <<>>

\* The inductive invariant: that of the records, and how they follow the program.
TInv ==
    /\ IInv /\ Program /\ Matched(stack[Thread], real) /\ Tracked /\ Untracked /\ CompleteIsTrue

-----------------------------------------------------------------------------
\* Nothing matches everything.
LEMMA MatchedNone == \A re : Len(re) \in Nat => Matched(<<>>, re)
    BY DEF Matched

\* The innermost frame is the innermost call.
LEMMA MatchedTop ==
    ASSUME NEW st, NEW re, Len(st) \in Nat, Len(re) \in Nat, Matched(st, re), Len(st) >= 1
    PROVE  Len(re) >= 1 /\ Same(st[Len(st)], re[Len(re)]) /\ (Len(st) > 1 => ~re[Len(re)].sig)
<1>1. Len(st) \in 1..Len(st) /\ Len(st) + (Len(re) - Len(st)) = Len(re) /\ Len(st) <= Len(re)
    BY DEF Matched
<1> QED BY <1>1 DEF Matched

\* A frame alone matches the innermost call.
LEMMA MatchedOne ==
    ASSUME NEW st, NEW re, Len(st) = 1, Len(re) \in Nat, Len(re) >= 1, Same(st[1], re[Len(re)])
    PROVE  Matched(st, re)
    BY DEF Matched

\* Both call.
LEMMA MatchedCall ==
    ASSUME NEW st, NEW re, NEW st2, NEW re2, Len(st) \in Nat, Len(re) \in Nat,
           Matched(st, re), Grows(st, st2), Grows(re, re2),
           Same(st2[Len(st2)], re2[Len(re2)]), Len(st) = 0 \/ ~re2[Len(re2)].sig
    PROVE  Matched(st2, re2)
<1>1. /\ Len(st2) = Len(st) + 1 /\ Len(re2) = Len(re) + 1
      /\ \A i \in 1..Len(st) : st2[i] = st[i]
      /\ \A i \in 1..Len(re) : re2[i] = re[i]
    BY DEF Grows
<1>2. Len(st) <= Len(re)
    BY DEF Matched
<1>3. ASSUME NEW i \in 1..Len(st2)
      PROVE  LET r == re2[i + (Len(re2) - Len(st2))] IN Same(st2[i], r) /\ (i > 1 => ~r.sig)
  <2>1. i + (Len(re2) - Len(st2)) = i + (Len(re) - Len(st))
    BY <1>1
  <2>2. CASE i = Len(st2)
    <3>1. i + (Len(re2) - Len(st2)) = Len(re2)
      BY <1>1, <2>2
    <3> QED BY <1>1, <2>2, <3>1
  <2>3. CASE i # Len(st2)
    <3>1. i \in 1..Len(st) /\ i + (Len(re) - Len(st)) \in 1..Len(re)
      BY <1>1, <1>2, <2>3
    <3>2. LET r == re[i + (Len(re) - Len(st))] IN Same(st[i], r) /\ (i > 1 => ~r.sig)
      BY <3>1 DEF Matched
    <3> QED BY <1>1, <2>1, <3>1, <3>2
  <2> QED BY <2>2, <2>3
<1> QED BY <1>1, <1>2, <1>3 DEF Matched

\* Both return.
LEMMA MatchedReturn ==
    ASSUME NEW st, NEW re, NEW st2, NEW re2, Len(st2) \in Nat, Len(re2) \in Nat,
           Matched(st, re), Grows(st2, st), Grows(re2, re)
    PROVE  Matched(st2, re2)
<1>1. /\ Len(st) = Len(st2) + 1 /\ Len(re) = Len(re2) + 1
      /\ \A i \in 1..Len(st2) : st2[i] = st[i]
      /\ \A i \in 1..Len(re2) : re2[i] = re[i]
    BY DEF Grows
<1>2. Len(st2) <= Len(re2)
    BY <1>1 DEF Matched
<1>3. ASSUME NEW i \in 1..Len(st2)
      PROVE  LET r == re2[i + (Len(re2) - Len(st2))] IN Same(st2[i], r) /\ (i > 1 => ~r.sig)
  <2>1. i + (Len(re2) - Len(st2)) = i + (Len(re) - Len(st))
    BY <1>1
  <2>2. i \in 1..Len(st) /\ i + (Len(re2) - Len(st2)) \in 1..Len(re2)
    BY <1>1, <1>2
  <2>3. LET r == re[i + (Len(re) - Len(st))] IN Same(st[i], r) /\ (i > 1 => ~r.sig)
    BY <2>2 DEF Matched
  <2> QED BY <1>1, <2>1, <2>2, <2>3
<1> QED BY <1>2, <1>3 DEF Matched

\* Both go on under another name.
LEMMA MatchedJump ==
    ASSUME NEW st, NEW re, NEW st2, NEW re2, Len(st) \in Nat, Len(re) \in Nat, Len(st) >= 1,
           Matched(st, re), Retops(st, st2), Retops(re, re2),
           Same(st2[Len(st)], re2[Len(re)]), re2[Len(re)].sig = re[Len(re)].sig
    PROVE  Matched(st2, re2)
<1>1. /\ Len(st2) = Len(st) /\ Len(re2) = Len(re)
      /\ \A i \in 1..Len(st) - 1 : st2[i] = st[i]
      /\ \A i \in 1..Len(re) - 1 : re2[i] = re[i]
    BY DEF Retops
<1>2. Len(st) <= Len(re)
    BY DEF Matched
<1>3. ASSUME NEW i \in 1..Len(st)
      PROVE  LET r == re2[i + (Len(re) - Len(st))] IN Same(st2[i], r) /\ (i > 1 => ~r.sig)
  <2>1. LET r == re[i + (Len(re) - Len(st))] IN Same(st[i], r) /\ (i > 1 => ~r.sig)
    BY DEF Matched
  <2>2. CASE i = Len(st)
    <3>1. i + (Len(re) - Len(st)) = Len(re)
      BY <2>2
    <3> QED BY <2>1, <2>2, <3>1
  <2>3. CASE i # Len(st)
    <3>1. i \in 1..Len(st) - 1 /\ i + (Len(re) - Len(st)) \in 1..Len(re) - 1
      BY <1>2, <2>3
    <3> QED BY <1>1, <2>1, <3>1
  <2> QED BY <2>2, <2>3
<1> QED BY <1>1, <1>2, <1>3 DEF Matched

\* What matches is the end of the real stack.
LEMMA MatchedIsTrue ==
    ASSUME TypeOK, Thread \in Tasks, real \in Seq(RealFrames), Matched(stack[Thread], real)
    PROVE  StackIsTrue
<1> DEFINE a == FunctionsOf(stack[Thread])
           b == FunctionsOf(real)
           n == Len(stack[Thread])
           m == Len(real)
<1>1. /\ n \in Nat /\ m \in Nat /\ n <= m
      /\ \A i \in 1..n : stack[Thread][i].fn = real[i + (m - n)].fn
    BY DEF TypeOK, Matched, Same
<1>2. a = [i \in 1..n |-> stack[Thread][i].fn] /\ b = [i \in 1..m |-> real[i].fn]
    BY DEF FunctionsOf
<1> HIDE DEF a, b, n, m
<1>3. Len(a) = n /\ Len(b) = m
    BY <1>1, <1>2
<1>4. Reverse(a) = [i \in 1..n |-> a[(n - i) + 1]] /\ Reverse(b) = [i \in 1..m |-> b[(m - i) + 1]]
    BY <1>3 DEF Reverse
<1>5. Len(Reverse(a)) = n /\ Len(Reverse(b)) = m
    BY <1>1, <1>4
<1>6. \A i \in 1..n : Reverse(a)[i] = Reverse(b)[i]
  <2> SUFFICES ASSUME NEW i \in 1..n PROVE Reverse(a)[i] = Reverse(b)[i]
    OBVIOUS
  <2>1. (n - i) + 1 \in 1..n /\ i \in 1..m /\ (m - i) + 1 \in 1..m
        /\ ((n - i) + 1) + (m - n) = (m - i) + 1
    BY <1>1
  <2>2. a[(n - i) + 1] = b[(m - i) + 1]
    BY <1>1, <1>2, <2>1
  <2> QED BY <1>4, <2>1, <2>2
<1>7. /\ SubSeq(Reverse(a), 1, n) = [i \in 1..n |-> Reverse(a)[i]]
      /\ SubSeq(Reverse(b), 1, n) = [i \in 1..n |-> Reverse(b)[i]]
  <2>1. \A s : SubSeq(s, 1, n) = [i \in 1..n |-> s[i]]
    BY <1>1
  <2> QED BY <2>1
<1>8. SubSeq(Reverse(a), 1, n) = SubSeq(Reverse(b), 1, n)
    BY <1>6, <1>7
<1>9. IsSuffix(a, b)
    BY <1>1, <1>5, <1>8 DEF IsSuffix, IsPrefix
<1> QED BY <1>9 DEF StackIsTrue, a, b

-----------------------------------------------------------------------------
(***************************************************************************)
(* What the helpers do to the stack, the pending end and the spans.        *)
(***************************************************************************)
\* One frame, of which the start is not known.
Alone(st, fn) == Len(st) = 1 /\ st[1].fn = fn /\ st[1].comp = "open_start"

\* No span says that a whole call was seen.
NoneComplete(sp) == \A x \in sp : x.comp # "complete"

\* What push_open leaves.
LEMMA PushOpenDoes ==
    ASSUME NEW c \in Contexts, NEW fn \in OptFn, NEW start \in OptTime, NEW ev \in Nat,
           NEW comp \in Completeness
    PROVE  LET d == PushOpen(c, fn, start, ev, comp)
           IN  /\ d.pend = c.pend /\ d.spans = c.spans /\ Grows(c.stack, d.stack)
               /\ d.stack[Len(d.stack)].fn = fn /\ d.stack[Len(d.stack)].comp = comp
               /\ d.stack[Len(d.stack)].start = start
<1> DEFINE d == PushOpen(c, fn, start, ev, comp)
           up == IF c.stack = <<>> THEN None ELSE Last(c.stack).id
           f == [id |-> c.next, fn |-> fn, start |-> start, ev |-> ev, comp |-> comp, parent |-> up]
<1>1. d.stack = Append(c.stack, f) /\ d.pend = c.pend /\ d.spans = c.spans
    BY DEF PushOpen, Contexts
<1>2. c.stack \in Seq(Frames) /\ Len(c.stack) \in Nat /\ c.next \in Nat
      /\ \A i \in 1..Len(c.stack) : c.stack[i].id \in Nat
    BY ContextTypes
<1>3. up \in OptNat
    BY <1>2 DEF OptNat, Last
<1> HIDE DEF up
<1>4. f \in Frames /\ f.fn = fn /\ f.comp = comp /\ f.start = start
    BY <1>2, <1>3 DEF Frames
<1> HIDE DEF f
<1>5. Len(d.stack) = Len(c.stack) + 1 /\ d.stack[Len(c.stack) + 1] = f
      /\ \A i \in 1..Len(c.stack) : d.stack[i] = c.stack[i]
    BY <1>1, <1>2, <1>4
<1> QED BY <1>1, <1>4, <1>5 DEF Grows

\* The parts of a context.
Parts == {"name", "stack", "pend", "segments", "next", "spans", "gaps"}

\* With nothing open push_open leaves one frame, or none if the function is not
\* known.  Only the parts of the context matter, not their types.
LEMMA PushOpenKnownDoes ==
    ASSUME NEW c, DOMAIN c = Parts, c.stack = <<>>, NEW fn, NEW start, NEW ev
    PROVE  LET d == PushOpenKnown(c, fn, start, ev)
           IN  /\ d.pend = c.pend /\ d.spans = c.spans
               /\ IF fn = None THEN d.stack = <<>> ELSE Alone(d.stack, fn)
<1>1. CASE fn = None
    BY <1>1 DEF PushOpenKnown
<1>2. CASE fn # None
  <2> DEFINE d == PushOpen(c, fn, start, ev, "open_start")
             f == [id |-> c.next, fn |-> fn, start |-> start, ev |-> ev, comp |-> "open_start",
                   parent |-> None]
  <2>1. d.pend = c.pend /\ d.spans = c.spans /\ d.stack = Append(<<>>, f)
    BY DEF PushOpen, Parts
  <2>2. f.fn = fn /\ f.comp = "open_start"
    OBVIOUS
  <2> HIDE DEF f
  <2>3. Append(<<>>, f) = <<f>>
    OBVIOUS
  <2>4. Len(d.stack) = 1 /\ d.stack[1] = f
    <3>1. Len(<<f>>) = 1 /\ <<f>>[1] = f
      OBVIOUS
    <3>2. d.stack = <<f>>
      BY <2>1, <2>3, Zenon
    <3> HIDE DEF d
    <3> QED BY <3>1, <3>2
  <2>5. PushOpenKnown(c, fn, start, ev) = d
    BY <1>2 DEF PushOpenKnown
  <2> QED BY <1>2, <2>1, <2>2, <2>4, <2>5 DEF Alone
<1> QED BY <1>1, <1>2

\* What closing the innermost frame leaves.
LEMMA PopSpanDoes ==
    ASSUME NEW c \in Contexts, c.stack # <<>>, NEW end, NEW ev, NEW comp
    PROVE  LET d == PopSpan(c, end, ev, comp)
               f == c.stack[Len(c.stack)]
           IN  /\ d.pend = c.pend /\ Grows(d.stack, c.stack) /\ Len(d.stack) \in Nat
               /\ \A x \in d.spans : \/ x \in c.spans
                                     \/ x.fn = f.fn /\ x.start = f.start /\ x.end = end
                                        /\ x.comp = comp
<1> DEFINE d == PopSpan(c, end, ev, comp)
           f == Last(c.stack)
<1>1. d.pend = c.pend /\ d.stack = Front(c.stack)
      /\ d.spans = c.spans \union {SpanOf(c, f, end, ev, comp)}
    BY DEF PopSpan, Contexts
<1>2. c.stack \in Seq(Frames) /\ Len(c.stack) \in Nat /\ Len(c.stack) >= 1
    BY ContextTypes
<1>3. Len(d.stack) = Len(c.stack) - 1 /\ \A i \in 1..Len(d.stack) : d.stack[i] = c.stack[i]
    BY <1>1, <1>2 DEF Front
<1>4. f = c.stack[Len(c.stack)]
    BY DEF Last
<1>5. LET x == SpanOf(c, f, end, ev, comp)
      IN  x.fn = f.fn /\ x.start = f.start /\ x.end = end /\ x.comp = comp
    BY DEF SpanOf
<1> QED BY <1>1, <1>2, <1>3, <1>4, <1>5 DEF Grows

\* What interrupt_thread leaves, and push_gap.
LEMMA InterruptDoes ==
    ASSUME NEW c \in Contexts, NoneComplete(c.spans), NEW kind, NEW start, NEW end
    PROVE  LET d == PushGap(InterruptThread(c), kind, start, end)
           IN  d.stack = <<>> /\ d.pend = c.pend /\ NoneComplete(d.spans)
<1>1. LET d == PushGap(InterruptThread(c), kind, start, end)
      IN  /\ d.stack = <<>> /\ d.pend = c.pend
          /\ d.spans = c.spans \union {SpanOf(c, f, None, f.ev, "interrupted") : f \in ToSet(c.stack)}
    BY DEF PushGap, InterruptThread, Contexts
<1>2. \A f : SpanOf(c, f, None, f.ev, "interrupted").comp = "interrupted"
    BY DEF SpanOf
<1> QED BY <1>1, <1>2 DEF NoneComplete

\* The pending end, settled by a sample that goes on to apply_flow: nothing is
\* open after it.
LEMMA ResolveDoes ==
    ASSUME NEW c \in Contexts, NoneComplete(c.spans), NEW s, IsSample(s), NEW ev \in Nat,
           s.flow # "begin"
    PROVE  LET d == ResolvePending(c, s, ev)
           IN  /\ d.stack = IF c.pend.set THEN <<>> ELSE c.stack
               /\ ~d.pend.set /\ NoneComplete(d.spans)
<1> DEFINE p  == c.pend
           c0 == [c EXCEPT !.pend = NoEnd]
           gap  == PushGap(InterruptThread(c0), "ring_truncation", p.abs, OrElse(CpuFirst(s), s.time))
           hole == [gap EXCEPT !.segments = SplitSegment(@, p.abs, s.time)]
           lost == PushGap(InterruptThread(c0), "unknown", p.abs, s.time)
<1>1. CASE ~p.set
    BY <1>1 DEF ResolvePending
<1>2. CASE p.set
  <2>1. NoEnd \in Ends /\ NoEnd.set = FALSE
    BY Zenon DEF NoEnd, Ends, OptFn, OptTime
  <2>2. c0 \in Contexts /\ c0.pend = NoEnd /\ c0.spans = c.spans
    BY <2>1 DEF Contexts
  <2>3. ResolvePending(c, s, ev) = IF RingHole(p, s) THEN hole ELSE lost
    BY <1>2 DEF ResolvePending
  <2> HIDE DEF c0
  <2>4. gap.stack = <<>> /\ gap.pend = NoEnd /\ NoneComplete(gap.spans)
    BY <2>2, InterruptDoes
  <2>5. hole.stack = gap.stack /\ hole.pend = gap.pend /\ hole.spans = gap.spans
    BY DEF PushGap, InterruptThread
  <2>6. lost.stack = <<>> /\ lost.pend = NoEnd /\ NoneComplete(lost.spans)
    BY <2>2, InterruptDoes
  <2> HIDE DEF hole, lost, gap
  <2> QED BY <1>2, <2>1, <2>3, <2>4, <2>5, <2>6
<1> QED BY <1>1, <1>2

\* The pending end, settled where the thread is back: what was open stays so
\* only if the thread resumes in the function it left.
LEMMA ResumeDoes ==
    ASSUME NEW c \in Contexts, NoneComplete(c.spans), NEW s, IsSample(s), NEW ev \in Nat,
           s.flow = "begin", s.to.fn # None, c.pend.set
    PROVE  LET d == ResolvePending(c, s, ev)
           IN  /\ \/ c.stack # <<>> /\ c.pend.fn = s.to.fn /\ d.stack = c.stack
                  \/ Alone(d.stack, s.to.fn)
               /\ ~d.pend.set /\ NoneComplete(d.spans)
<1> DEFINE p  == c.pend
           c0 == [c EXCEPT !.pend = NoEnd]
           ic == InterruptThread(c0)
           gap  == PushGap(ic, "ring_truncation", p.abs, OrElse(CpuFirst(s), s.time))
           hole == [gap EXCEPT !.segments = SplitSegment(@, p.abs, s.time)]
           same == PushGap(c0, "trace_boundary", p.abs, s.time)
           lost == PushGap(ic, "unknown", p.abs, s.time)
           here == p.fn # None /\ s.to.fn = p.fn
<1>s. /\ s.time \in OptTime /\ s.to.fn \in OptFn /\ s.cpu \in CPUs \union {None}
      /\ OrElse(s.to.fn, s.from.fn) = s.to.fn
    BY DEF IsSample, OrElse
<1>1. NoEnd \in Ends /\ NoEnd.set = FALSE
    BY Zenon DEF NoEnd, Ends, OptFn, OptTime
<1>2. c0 \in Contexts /\ c0.pend = NoEnd /\ c0.spans = c.spans /\ c0.stack = c.stack
    BY <1>1 DEF Contexts
<1>p. p.abs \in OptTime /\ OrElse(p.abs, s.time) \in OptTime
    BY <1>s, ContextTypes DEF OrElse
<1>r. ResolvePending(c, s, ev) =
        IF RingHole(p, s) THEN PushOpenKnown(hole, s.to.fn, s.time, ev)
        ELSE IF here
        THEN IF c.stack = <<>> THEN PushOpenKnown(same, s.to.fn, OrElse(p.abs, s.time), ev) ELSE same
        ELSE PushOpenKnown(lost, s.to.fn, s.time, ev)
  <2> USE <1>s
  <2>1. CASE RingHole(p, s)
    BY <2>1 DEF ResolvePending
  <2>2. CASE ~RingHole(p, s) /\ here
    BY <2>2 DEF ResolvePending
  <2>3. CASE ~RingHole(p, s) /\ ~here
    BY <2>3 DEF ResolvePending
  <2> QED BY <2>1, <2>2, <2>3
<1>3. /\ gap.stack = <<>> /\ gap.pend = NoEnd /\ NoneComplete(gap.spans)
      /\ lost.stack = <<>> /\ lost.pend = NoEnd /\ NoneComplete(lost.spans)
  <2>1. c0 \in Contexts /\ NoneComplete(c0.spans)
    BY <1>2
  <2> HIDE DEF c0
  <2> QED BY <1>2, <2>1, InterruptDoes
<1>4. hole.stack = gap.stack /\ hole.pend = gap.pend /\ hole.spans = gap.spans
    BY DEF PushGap, InterruptThread
<1>5. same.stack = c.stack /\ same.pend = NoEnd /\ same.spans = c.spans
    BY <1>2 DEF PushGap
<1>6. DOMAIN hole = Parts /\ DOMAIN lost = Parts /\ DOMAIN same = Parts
  <2>1. DOMAIN c0 = Parts
    BY <1>2 DEF Contexts, Parts
  <2> QED BY <2>1 DEF PushGap, InterruptThread
<1>7. ASSUME NEW x, DOMAIN x = Parts, x.stack = <<>>, x.pend = NoEnd, NoneComplete(x.spans),
             NEW time
      PROVE  LET d == PushOpenKnown(x, s.to.fn, time, ev)
             IN  Alone(d.stack, s.to.fn) /\ ~d.pend.set /\ NoneComplete(d.spans)
    BY <1>1, <1>7, PushOpenKnownDoes
<1> HIDE DEF hole, lost, same, gap
<1>8. CASE RingHole(p, s)
    BY <1>3, <1>4, <1>6, <1>7, <1>8, <1>r
<1>9. CASE ~RingHole(p, s) /\ ~here
    BY <1>3, <1>6, <1>7, <1>9, <1>r
<1>10. CASE ~RingHole(p, s) /\ here /\ c.stack = <<>>
    BY <1>5, <1>6, <1>7, <1>10, <1>r
<1>11. CASE ~RingHole(p, s) /\ here /\ c.stack # <<>>
    BY <1>1, <1>5, <1>11, <1>r
<1> QED BY <1>8, <1>9, <1>10, <1>11

-----------------------------------------------------------------------------
(***************************************************************************)
(* A step of the program that is decoded.                                  *)
(***************************************************************************)
\* The sample of a step.
Seen(flow, from, to, c) ==
    [flow |-> flow, from |-> At(from), to |-> At(to), time |-> Now, cpu |-> c]

\* The step is one of the thread, as far as it is seen.
SeenStep(flow, from, to, c) ==
    /\ IInv /\ Program /\ Traced(flow, from, to, c) /\ Decoded(c)
    /\ flow \in Flows /\ from \in OptFn /\ to \in OptFn /\ c \in CPUs

\* The context it enters, the one with the pending end settled, and the last.
Enters(flow, from, to, c) == Entered(Thread, Seen(flow, from, to, c))
Settles(flow, from, to, c) ==
    ResolvePending(Enters(flow, from, to, c), Seen(flow, from, to, c), nextEvent)
Leaves(flow, from, to, c) ==
    IF ~pend[Thread].set \/ flow # "begin"
    THEN ApplyFlow(Settles(flow, from, to, c), Seen(flow, from, to, c), nextEvent)
    ELSE Settles(flow, from, to, c)

\* The sample, the contexts, and what the step leaves.
LEMMA SeenFacts ==
    ASSUME NEW flow, NEW from, NEW to, NEW c, SeenStep(flow, from, to, c)
    PROVE  LET s == Seen(flow, from, to, c)
               e == Enters(flow, from, to, c)
               d == Leaves(flow, from, to, c)
           IN  /\ IsSample(s) /\ s.flow = flow /\ s.from.fn = from /\ s.to.fn = to /\ s.time = Now
               /\ nextEvent \in Nat
               /\ e \in Contexts /\ e.stack = stack[Thread] /\ e.pend = pend[Thread] /\ e.spans = {}
               /\ Good(Settles(flow, from, to, c), nextSpan, OpenIds(Thread), stored',
                       lastAbs'[Thread], minAbs', ThreadName(ids, Thread))
               /\ Good(d, nextSpan, OpenIds(Thread), stored', lastAbs'[Thread], minAbs',
                       ThreadName(ids, Thread))
               /\ stack'[Thread] = d.stack /\ pend'[Thread] = d.pend /\ spans' = d.spans
               /\ lastAbs'[Thread] = Now /\ clock' = Now /\ cpu' = c
               /\ UNCHANGED <<ringStart, dark>> /\ ~dark /\ ringStart[c] <= Now
               /\ IInv'
<1> DEFINE s == Seen(flow, from, to, c)
           e == Enters(flow, from, to, c)
           m == Settles(flow, from, to, c)
           d == Leaves(flow, from, to, c)
<1>1. /\ IInv /\ TypeOK /\ Program /\ flow \in Flows /\ from \in OptFn /\ to \in OptFn /\ c \in CPUs
      /\ Thread \in Tasks /\ None \notin Nat
    BY CallTruthAssumption, ReconstructAssumption DEF SeenStep, IInv
<1>2. clock \in Nat /\ clock < MaxTime /\ clock' = Now /\ cpu' = c /\ ~dark /\ ringStart[c] <= Now
      /\ PushSample(Thread, s) /\ UNCHANGED <<ringStart, dark>>
  <2>1. clock \in Nat /\ ringStart[c] \in Nat
    BY <1>1 DEF Program
  <2>2. clock < MaxTime /\ clock' = Now /\ cpu' = c /\ PushSample(Thread, s) /\ UNCHANGED <<ringStart, dark>>
    BY DEF SeenStep, Traced, Seen
  <2>3. ~dark /\ ringStart[c] <= Now
    BY <2>1 DEF SeenStep, Decoded, Now
  <2> QED BY <2>1, <2>2, <2>3
<1>3. Now \in Times /\ Now \in OptTime /\ Now # None /\ Now \in Nat
    BY <1>1, <1>2, ReconstructAssumption DEF Now, Times, OptTime
<1>4. s.flow = flow /\ s.from.fn = from /\ s.to.fn = to /\ s.time = Now /\ s.cpu = c
    BY DEF Seen, At
<1> HIDE DEF s
<1>5. IsSample(s)
    BY <1>1, <1>3, <1>4 DEF IsSample
<1>6. /\ Good(Resolved(Thread, s), nextSpan, OpenIds(Thread), stored', lastAbs'[Thread], minAbs',
              ThreadName(ids, Thread))
      /\ Good(Outcome(Thread, s), nextSpan, OpenIds(Thread), stored', lastAbs'[Thread], minAbs',
              ThreadName(ids, Thread))
      /\ Adds(Thread, Outcome(Thread, s)) /\ IInv'
    BY <1>1, <1>2, <1>5, SampleFacts, SampleInv
<1>7. e \in Contexts /\ e.stack = stack[Thread] /\ e.pend = pend[Thread] /\ e.spans = {}
  <2>1. /\ Context(Thread) \in Contexts /\ Context(Thread).stack = stack[Thread]
        /\ Context(Thread).pend = pend[Thread] /\ Context(Thread).spans = {}
    BY <1>1, ContextOf DEF HaveContexts, IsContext
  <2>2. Extended(Context(Thread).segments, s.time) \in Segs
    <3>1. Context(Thread).segments \in Segs
      BY <2>1 DEF Contexts
    <3> QED BY <1>3, <1>4, <3>1, SegmentTypes
  <2>3. ASSUME NEW x \in Contexts, NEW g \in Segs
        PROVE  LET y == [x EXCEPT !.segments = g]
               IN  y \in Contexts /\ y.stack = x.stack /\ y.pend = x.pend /\ y.spans = x.spans
    BY DEF Contexts
  <2>4. e = [Context(Thread) EXCEPT !.segments = Extended(Context(Thread).segments, s.time)]
    BY DEF Enters, Entered, s
  <2> HIDE DEF e
  <2> QED BY <2>1, <2>2, <2>3, <2>4
<1>e. e = Entered(Thread, s)
    BY DEF Enters, s
<1> HIDE DEF e
<1>8. Regressed(e, Thread, s) = e
  <2>1. lastAbs[Thread] \in OptTime /\ (lastAbs[Thread] # None => lastAbs[Thread] <= clock)
    BY <1>1 DEF TypeOK, Program
  <2>2. lastAbs[Thread] # None => ~(Now < lastAbs[Thread])
    BY <1>2, <2>1 DEF OptTime, Times, Now
  <2> QED BY <1>4, <2>2 DEF Regressed
<1>9. Resolved(Thread, s) = m /\ Outcome(Thread, s) = d
  <2>1. m = ResolvePending(e, s, nextEvent)
    BY DEF Settles, e, s
  <2>2. Resolved(Thread, s) = m
    BY <1>8, <1>e, <2>1 DEF Resolved
  <2>3. d = IF ~e.pend.set \/ s.flow # "begin" THEN ApplyFlow(m, s, nextEvent) ELSE m
    BY <1>4, <1>7 DEF Leaves, s
  <2> QED BY <1>e, <2>2, <2>3 DEF Outcome, Continues
<1>10. lastAbs'[Thread] = Now /\ nextEvent \in Nat
    BY <1>1, <1>2, <1>3, <1>4 DEF PushSample, OrElse, TypeOK
<1> HIDE DEF m, d
<1>11. stack'[Thread] = d.stack /\ pend'[Thread] = d.pend /\ spans' = d.spans
    BY <1>1, <1>6, <1>9 DEF Adds, TypeOK
<1>12. /\ Good(m, nextSpan, OpenIds(Thread), stored', lastAbs'[Thread], minAbs', ThreadName(ids, Thread))
       /\ Good(d, nextSpan, OpenIds(Thread), stored', lastAbs'[Thread], minAbs', ThreadName(ids, Thread))
    BY <1>6, <1>9
<1> QED BY <1>2, <1>4, <1>5, <1>6, <1>7, <1>10, <1>11, <1>12, Zenon DEF m, d, e, s

\* What is open once a pending end is settled by a step of the program.
Kept == IF pend[Thread].set THEN <<>> ELSE stack[Thread]

\* Everything but a begin is applied to that.
LEMMA AppliedToKept ==
    ASSUME NEW flow, NEW from, NEW to, NEW c, SeenStep(flow, from, to, c), flow # "begin"
    PROVE  LET m == Settles(flow, from, to, c)
           IN  /\ m \in Contexts /\ m.stack = Kept /\ ~m.pend.set /\ NoneComplete(m.spans)
               /\ Leaves(flow, from, to, c) = ApplyFlow(m, Seen(flow, from, to, c), nextEvent)
               /\ Kept \in Seq(Frames) /\ Len(Kept) \in Nat
<1> DEFINE s == Seen(flow, from, to, c)
           e == Enters(flow, from, to, c)
           m == Settles(flow, from, to, c)
<1>1. /\ IsSample(s) /\ s.flow = flow /\ nextEvent \in Nat
      /\ e \in Contexts /\ e.stack = stack[Thread] /\ e.pend = pend[Thread] /\ e.spans = {}
      /\ Good(m, nextSpan, OpenIds(Thread), stored', lastAbs'[Thread], minAbs', ThreadName(ids, Thread))
    BY SeenFacts
<1>2. m = ResolvePending(e, s, nextEvent)
    BY DEF Settles
<1>3. Leaves(flow, from, to, c) = ApplyFlow(m, s, nextEvent)
    BY DEF Leaves
<1> HIDE DEF s, e, m
<1>4. NoneComplete(e.spans)
    BY <1>1 DEF NoneComplete
<1>5. m.stack = Kept /\ ~m.pend.set /\ NoneComplete(m.spans)
  <2>1. s.flow # "begin"
    BY <1>1
  <2>2. /\ m.stack = IF e.pend.set THEN <<>> ELSE e.stack
        /\ ~m.pend.set /\ NoneComplete(m.spans)
    BY <1>1, <1>2, <1>4, <2>1, ResolveDoes
  <2> QED BY <1>1, <2>2 DEF Kept
<1>6. m \in Contexts
    BY <1>1 DEF Good
<1>7. Kept \in Seq(Frames) /\ Len(Kept) \in Nat
    BY <1>5, <1>6, ContextTypes
<1> QED BY <1>3, <1>5, <1>6, <1>7 DEF m, s

\* A call is one frame more.
LEMMA CallSeen ==
    ASSUME NEW from, NEW to, NEW c, SeenStep("call", from, to, c)
    PROVE  LET st == stack'[Thread]
               top == st[Len(st)]
           IN  /\ Grows(Kept, st) /\ top.fn = to /\ top.comp = "open_end" /\ top.start = Now
               /\ ~pend'[Thread].set /\ NoneComplete(spans')
<1> DEFINE s == Seen("call", from, to, c)
           m == Settles("call", from, to, c)
           d == Leaves("call", from, to, c)
<1>1. /\ IsSample(s) /\ s.flow = "call" /\ s.to.fn = to /\ s.time = Now /\ nextEvent \in Nat
      /\ stack'[Thread] = d.stack /\ pend'[Thread] = d.pend /\ spans' = d.spans
    BY SeenFacts
<1>2. /\ m \in Contexts /\ m.stack = Kept /\ ~m.pend.set /\ NoneComplete(m.spans)
      /\ d = ApplyFlow(m, s, nextEvent)
    BY AppliedToKept
<1> HIDE DEF s, m, d
<1>3. d = PushOpen(m, to, Now, nextEvent, "open_end")
    BY <1>1, <1>2 DEF ApplyFlow
<1>4. to \in OptFn /\ Now \in OptTime /\ "open_end" \in Completeness
    BY <1>1 DEF IsSample, Completeness
<1>5. /\ d.pend = m.pend /\ d.spans = m.spans /\ Grows(m.stack, d.stack)
      /\ d.stack[Len(d.stack)].fn = to /\ d.stack[Len(d.stack)].comp = "open_end"
      /\ d.stack[Len(d.stack)].start = Now
    BY <1>1, <1>2, <1>3, <1>4, PushOpenDoes
<1> QED BY <1>1, <1>2, <1>5

\* A return closes the innermost frame: only one that was seen to be called is
\* a complete call.  With nothing open the caller is the context.
LEMMA ReturnSeen ==
    ASSUME NEW from, NEW to, NEW c, SeenStep("return", from, to, c)
    PROVE  LET st == stack'[Thread]
               top == Kept[Len(Kept)]
           IN  /\ ~pend'[Thread].set
               /\ Kept = <<>> => /\ IF to = None THEN st = <<>> ELSE Alone(st, to)
                                 /\ NoneComplete(spans')
               /\ Kept # <<>> =>
                    /\ Grows(st, Kept) /\ Len(st) \in Nat
                    /\ \A x \in spans' : x.comp = "complete" =>
                          x.fn = top.fn /\ x.start = top.start /\ x.end = Now /\ top.comp = "open_end"
<1> DEFINE s == Seen("return", from, to, c)
           m == Settles("return", from, to, c)
           d == Leaves("return", from, to, c)
           top == Kept[Len(Kept)]
<1>1. /\ IsSample(s) /\ s.flow = "return" /\ s.to.fn = to /\ s.time = Now /\ nextEvent \in Nat
      /\ stack'[Thread] = d.stack /\ pend'[Thread] = d.pend /\ spans' = d.spans
      /\ Good(m, nextSpan, OpenIds(Thread), stored', lastAbs'[Thread], minAbs', ThreadName(ids, Thread))
    BY SeenFacts
<1>2. /\ m \in Contexts /\ m.stack = Kept /\ ~m.pend.set /\ NoneComplete(m.spans)
      /\ d = ApplyFlow(m, s, nextEvent) /\ Len(Kept) \in Nat /\ Kept \in Seq(Frames)
    BY AppliedToKept
<1> HIDE DEF s, m, d
<1>3. d = Return(m, s, nextEvent)
    BY <1>1, <1>2 DEF ApplyFlow
<1>4. CASE Kept = <<>>
  <2> DEFINE x == [id |-> m.next, thread |-> m.name, fn |-> s.from.fn, parent |-> None,
                   start |-> None, end |-> s.time, from |-> nextEvent, to |-> nextEvent,
                   comp |-> "uncertain"]
             b == [m EXCEPT !.next = @ + 1, !.spans = @ \union {x}]
  <2>1. d = PushOpenKnown(b, to, Now, nextEvent)
    BY <1>1, <1>2, <1>3, <1>4 DEF Return
  <2>2. DOMAIN b = Parts /\ b.stack = <<>> /\ b.pend = m.pend /\ b.spans = m.spans \union {x}
    BY <1>2, <1>4 DEF Contexts, Parts
  <2>3. NoneComplete(b.spans)
    BY <1>2, <2>2 DEF NoneComplete
  <2> HIDE DEF b
  <2>4. /\ d.pend = b.pend /\ d.spans = b.spans
        /\ IF to = None THEN d.stack = <<>> ELSE Alone(d.stack, to)
    BY <2>1, <2>2, PushOpenKnownDoes
  <2> QED BY <1>1, <1>2, <1>4, <2>2, <2>3, <2>4
<1>5. CASE Kept # <<>>
  <2> DEFINE comp == IF Last(m.stack).comp = "open_start" THEN "open_both" ELSE "complete"
  <2>1. d = PopSpan(m, Now, nextEvent, comp)
    BY <1>1, <1>2, <1>3, <1>5 DEF Return
  <2>2. Last(m.stack) = top /\ Len(Kept) \in 1..Len(Kept)
    BY <1>2, <1>5 DEF Last
  <2>3. top.comp \in {"open_start", "open_end"}
    BY <1>1, <1>2, <2>2 DEF Good, Started
  <2>4. comp = "complete" => top.comp = "open_end"
    BY <2>2, <2>3
  <2> HIDE DEF comp
  <2>5. /\ d.pend = m.pend /\ Grows(d.stack, Kept) /\ Len(d.stack) \in Nat
        /\ \A x \in d.spans : \/ x \in m.spans
                              \/ x.fn = top.fn /\ x.start = top.start /\ x.end = Now /\ x.comp = comp
    BY <1>2, <1>5, <2>1, PopSpanDoes
  <2>6. \A x \in spans' : x.comp = "complete" =>
              x.fn = top.fn /\ x.start = top.start /\ x.end = Now /\ top.comp = "open_end"
    BY <1>1, <1>2, <2>4, <2>5 DEF NoneComplete
  <2> QED BY <1>1, <1>2, <1>5, <2>5, <2>6
<1> QED BY <1>4, <1>5

\* A tail call puts its target in the place of the innermost frame.
LEMMA TailCallSeen ==
    ASSUME NEW from, NEW to, NEW c, SeenStep("jump", from, to, c),
           from # None, to # None, from # to
    PROVE  LET st == stack'[Thread]
               top == st[Len(st)]
           IN  /\ ~pend'[Thread].set /\ NoneComplete(spans')
               /\ IF Kept = <<>> THEN Alone(st, to) ELSE Retops(Kept, st)
               /\ top.fn = to /\ top.comp = "open_start"
<1> DEFINE s == Seen("jump", from, to, c)
           m == Settles("jump", from, to, c)
           d == Leaves("jump", from, to, c)
           popped == IF m.stack = <<>> THEN m ELSE PopSpan(m, s.time, nextEvent, "uncertain")
           opened == PushOpen(popped, s.to.fn, s.time, nextEvent, "open_start")
<1>1. /\ IsSample(s) /\ s.flow = "jump" /\ s.to.fn = to /\ s.from.fn = from /\ s.time = Now
      /\ nextEvent \in Nat
      /\ stack'[Thread] = d.stack /\ pend'[Thread] = d.pend /\ spans' = d.spans /\ IInv'
      /\ Good(m, nextSpan, OpenIds(Thread), stored', lastAbs'[Thread], minAbs', ThreadName(ids, Thread))
    BY SeenFacts
<1>2. /\ m \in Contexts /\ m.stack = Kept /\ ~m.pend.set /\ NoneComplete(m.spans)
      /\ d = ApplyFlow(m, s, nextEvent) /\ Len(Kept) \in Nat /\ Kept \in Seq(Frames)
    BY AppliedToKept
<1> HIDE DEF s, m, d
<1>3. d = TailCall(m, s, nextEvent)
    BY <1>1, <1>2 DEF ApplyFlow
<1>4. TailCall(m, s, nextEvent) = opened /\ popped \in Contexts
  <2>1. nextEvent \in stored'
    <3>1. PushSample(Thread, s)
      BY DEF SeenStep, Traced, Seen, s
    <3>2. ~Intra(s)
      BY <1>1 DEF Intra
    <3> QED BY <3>1, <3>2 DEF PushSample
  <2>2. After(minAbs', s.time) /\ nextSpan \in Nat
    <3>1. PushSample(Thread, s)
      BY DEF SeenStep, Traced, Seen, s
    <3>2. minAbs \in OptTime /\ s.time \in OptTime /\ nextSpan \in Nat
      BY <1>1 DEF SeenStep, IInv, TypeOK, IsSample
    <3> QED BY <3>1, <3>2, NoteAbsFacts DEF PushSample
  <2>3. TailCall(m, s, nextEvent) = opened
    BY <1>1, <2>1, <2>2, TailCallGood
  <2>4. popped \in Contexts
    <3>1. CASE m.stack = <<>>
      BY <1>2, <3>1
    <3>2. CASE m.stack # <<>>
      <4>1. "uncertain" \in Completeness /\ s.time \in OptTime
        BY <1>1 DEF Completeness, IsSample
      <4>2. Good(popped, nextSpan, OpenIds(Thread), stored', lastAbs'[Thread], minAbs',
                 ThreadName(ids, Thread))
        BY <1>1, <2>1, <2>2, <3>2, <4>1, PopSpanGood
      <4> QED BY <4>2 DEF Good
    <3> QED BY <3>1, <3>2
  <2> QED BY <2>3, <2>4
<1>5. /\ popped.pend = m.pend /\ NoneComplete(popped.spans)
      /\ IF Kept = <<>> THEN popped.stack = <<>> ELSE Grows(popped.stack, Kept)
  <2>1. CASE m.stack = <<>>
    BY <1>2, <2>1
  <2>2. CASE m.stack # <<>>
    <3>1. /\ popped.pend = m.pend /\ Grows(popped.stack, m.stack)
          /\ \A x \in popped.spans : x \in m.spans \/ x.comp = "uncertain"
      BY <1>2, <2>2, PopSpanDoes
    <3> QED BY <1>2, <2>2, <3>1 DEF NoneComplete
  <2> QED BY <2>1, <2>2
<1>6. /\ d.pend = popped.pend /\ d.spans = popped.spans /\ Grows(popped.stack, d.stack)
      /\ d.stack[Len(d.stack)].fn = to /\ d.stack[Len(d.stack)].comp = "open_start"
  <2>1. to \in OptFn /\ Now \in OptTime /\ "open_start" \in Completeness
    BY <1>1 DEF IsSample, Completeness
  <2>2. d = PushOpen(popped, to, Now, nextEvent, "open_start")
    BY <1>1, <1>3, <1>4
  <2> HIDE DEF popped
  <2> QED BY <1>1, <1>4, <2>1, <2>2, PushOpenDoes
<1>t. Len(popped.stack) \in Nat
    BY <1>4, ContextTypes
<1> HIDE DEF popped
<1>7. IF Kept = <<>> THEN Alone(d.stack, to) ELSE Retops(Kept, d.stack)
  <2>1. CASE Kept = <<>>
    <3>1. Len(d.stack) = 1
      BY <1>5, <1>6, <2>1 DEF Grows
    <3> QED BY <1>6, <2>1, <3>1 DEF Alone
  <2>2. CASE Kept # <<>>
    <3>1. /\ Len(Kept) = Len(popped.stack) + 1 /\ Len(d.stack) = Len(popped.stack) + 1
          /\ \A i \in 1..Len(popped.stack) : Kept[i] = popped.stack[i] /\ d.stack[i] = popped.stack[i]
      BY <1>5, <1>6, <2>2 DEF Grows
    <3> QED BY <1>t, <2>2, <3>1 DEF Retops
  <2> QED BY <2>1, <2>2
<1> QED BY <1>1, <1>2, <1>5, <1>6, <1>7

\* A jump out of a stub names the frame that was opened for it.
LEMMA StubSeen ==
    ASSUME NEW to, NEW c, SeenStep("jump", None, to, c), to # None,
           Kept # <<>> => Kept[Len(Kept)].fn = None
    PROVE  LET st == stack'[Thread]
               top == st[Len(st)]
           IN  /\ ~pend'[Thread].set /\ NoneComplete(spans')
               /\ IF Kept = <<>> THEN st = <<>>
                  ELSE /\ Retops(Kept, st) /\ top.fn = to
                       /\ top.comp = Kept[Len(Kept)].comp /\ top.start = Kept[Len(Kept)].start
<1> DEFINE s == Seen("jump", None, to, c)
           m == Settles("jump", None, to, c)
           d == Leaves("jump", None, to, c)
<1>0. None \in OptFn
    BY DEF OptFn
<1>1. /\ IsSample(s) /\ s.flow = "jump" /\ s.to.fn = to /\ s.from.fn = None
      /\ stack'[Thread] = d.stack /\ pend'[Thread] = d.pend /\ spans' = d.spans
      /\ Good(m, nextSpan, OpenIds(Thread), stored', lastAbs'[Thread], minAbs', ThreadName(ids, Thread))
    BY SeenFacts
<1>2. /\ m \in Contexts /\ m.stack = Kept /\ ~m.pend.set /\ NoneComplete(m.spans)
      /\ d = ApplyFlow(m, s, nextEvent) /\ Len(Kept) \in Nat
    BY AppliedToKept
<1> HIDE DEF s, m, d
<1>3. CASE Kept = <<>>
  <2>1. d = m
    BY <1>1, <1>2, <1>3 DEF ApplyFlow
  <2> QED BY <1>1, <1>2, <1>3, <2>1
<1>4. CASE Kept # <<>>
  <2>1. d = NameStub(m, s)
    BY <1>1, <1>2, <1>4 DEF ApplyFlow, Last
  <2>a. m.stack # <<>> /\ s.to.fn \in OptFn /\ nextSpan \in Nat
    <3>1. nextSpan \in Nat
      BY DEF SeenStep, IInv, TypeOK
    <3> QED BY <1>1, <1>2, <1>4, <3>1 DEF IsSample
  <2>2. /\ NameStub(m, s).pend = m.pend /\ NameStub(m, s).spans = m.spans
        /\ Retops(m.stack, NameStub(m, s).stack)
        /\ NameStub(m, s).stack[Len(m.stack)].fn = s.to.fn
        /\ NameStub(m, s).stack[Len(m.stack)].comp = m.stack[Len(m.stack)].comp
        /\ NameStub(m, s).stack[Len(m.stack)].start = m.stack[Len(m.stack)].start
    <3>1. Good(m, nextSpan, OpenIds(Thread), stored', lastAbs'[Thread], minAbs',
               ThreadName(ids, Thread))
      BY <1>1
    <3> QED BY <2>a, <3>1, NameStubGood
  <2>3. Len(d.stack) = Len(Kept)
    BY <1>2, <2>1, <2>2 DEF Retops
  <2> QED BY <1>1, <1>2, <1>4, <2>1, <2>2, <2>3
<1> QED BY <1>3, <1>4

\* Entering the kernel leaves a pending end.
LEMMA EndSeen ==
    ASSUME NEW from, NEW to, NEW c, SeenStep("end", from, to, c)
    PROVE  /\ stack'[Thread] = Kept /\ pend'[Thread].set /\ pend'[Thread].fn = from
           /\ NoneComplete(spans')
<1> DEFINE s == Seen("end", from, to, c)
           m == Settles("end", from, to, c)
           d == Leaves("end", from, to, c)
<1>1. /\ s.flow = "end" /\ s.from.fn = from
      /\ stack'[Thread] = d.stack /\ pend'[Thread] = d.pend /\ spans' = d.spans
    BY SeenFacts
<1>2. /\ m \in Contexts /\ m.stack = Kept /\ NoneComplete(m.spans) /\ d = ApplyFlow(m, s, nextEvent)
    BY AppliedToKept
<1> HIDE DEF s, m, d
<1>3. d = [m EXCEPT !.pend = [fn |-> s.from.fn, abs |-> s.time, cpu |-> s.cpu, set |-> TRUE]]
    BY <1>1 , <1>2 DEF ApplyFlow
<1>4. d.stack = m.stack /\ d.spans = m.spans /\ d.pend.set /\ d.pend.fn = from
    BY <1>1, <1>2, <1>3 DEF Contexts
<1> QED BY <1>1, <1>2, <1>4

\* Leaving it, what is open stays open only where the thread left; otherwise
\* the function it comes back to is open alone.
LEMMA BeginSeen ==
    ASSUME NEW from, NEW to, NEW c, SeenStep("begin", from, to, c), to # None,
           stack[Thread] # <<>> => pend[Thread].set
    PROVE  /\ \/ stack[Thread] # <<>> /\ pend[Thread].fn = to /\ stack'[Thread] = stack[Thread]
              \/ Alone(stack'[Thread], to)
           /\ ~pend'[Thread].set /\ NoneComplete(spans')
<1> DEFINE s == Seen("begin", from, to, c)
           e == Enters("begin", from, to, c)
           m == Settles("begin", from, to, c)
           d == Leaves("begin", from, to, c)
<1>1. /\ IsSample(s) /\ s.flow = "begin" /\ s.to.fn = to /\ s.time = Now /\ nextEvent \in Nat
      /\ e \in Contexts /\ e.stack = stack[Thread] /\ e.pend = pend[Thread] /\ e.spans = {}
      /\ stack'[Thread] = d.stack /\ pend'[Thread] = d.pend /\ spans' = d.spans
    BY SeenFacts
<1>2. m = ResolvePending(e, s, nextEvent)
    BY DEF Settles
<1>3. d = IF ~pend[Thread].set THEN ApplyFlow(m, s, nextEvent) ELSE m
    BY DEF Leaves
<1> HIDE DEF s, e, m, d
<1>n. NoneComplete(e.spans)
    BY <1>1 DEF NoneComplete
<1>4. CASE pend[Thread].set
  <2>1. /\ \/ e.stack # <<>> /\ e.pend.fn = s.to.fn /\ m.stack = e.stack
           \/ Alone(m.stack, s.to.fn)
        /\ ~m.pend.set /\ NoneComplete(m.spans)
    BY <1>1, <1>2, <1>4, <1>n, ResumeDoes
  <2> QED BY <1>1, <1>3, <1>4, <2>1
<1>5. CASE ~pend[Thread].set
  <2>1. m = e /\ e.stack = <<>>
    BY <1>1, <1>2, <1>5 DEF ResolvePending
  <2>2. d = PushOpenKnown(e, to, Now, nextEvent)
    BY <1>1, <1>3, <1>5, <2>1 DEF ApplyFlow, OrElse
  <2>3. DOMAIN e = Parts
    BY <1>1 DEF Contexts, Parts
  <2>4. d.pend = e.pend /\ d.spans = e.spans /\ Alone(d.stack, to)
    BY <2>1, <2>2, <2>3, PushOpenKnownDoes
  <2> QED BY <1>1, <1>5, <1>n, <2>4
<1> QED BY <1>4, <1>5

-----------------------------------------------------------------------------
(***************************************************************************)
(* The steps.                                                              *)
(***************************************************************************)
\* A call makes a stack of the program one frame longer.
LEMMA RealCall ==
    ASSUME NEW re, IsStack(re), NEW r \in RealFrames, Last(re).fn # None
    PROVE  LET re2 == Append(re, r)
           IN  IsStack(re2) /\ Grows(re, re2) /\ Last(re2) = r /\ re2[Len(re2)] = r
<1>1. re \in Seq(RealFrames) /\ Len(re) \in Nat /\ Len(re) >= 1 /\ Last(re) = re[Len(re)]
    BY DEF IsStack, Last
<1> DEFINE re2 == Append(re, r)
<1>2. /\ re2 \in Seq(RealFrames) /\ Len(re2) = Len(re) + 1 /\ re2[Len(re) + 1] = r
      /\ \A i \in 1..Len(re) : re2[i] = re[i]
    BY <1>1
<1> HIDE DEF re2
<1>3. \A i \in 1..Len(re2) - 1 : re2[i].fn # None
  <2> SUFFICES ASSUME NEW i \in 1..Len(re2) - 1 PROVE re2[i].fn # None
    OBVIOUS
  <2>1. i \in 1..Len(re) /\ (i = Len(re) \/ i \in 1..Len(re) - 1)
    BY <1>1, <1>2
  <2> QED BY <1>1, <1>2, <2>1 DEF IsStack
<1>4. re2[1] = re[1]
    BY <1>1, <1>2
<1>5. IsStack(re2)
    BY <1>1, <1>2, <1>3, <1>4 DEF IsStack
<1> QED BY <1>2, <1>5 DEF Grows, Last, re2

\* A return makes it one frame shorter; the caller has a name.
LEMMA RealReturn ==
    ASSUME NEW re, IsStack(re), Len(re) > 1
    PROVE  LET re2 == Front(re)
           IN  /\ IsStack(re2) /\ Grows(re2, re) /\ Len(re2) \in Nat
               /\ Last(re2) = re[Len(re) - 1] /\ Last(re2).fn # None
<1>1. re \in Seq(RealFrames) /\ Len(re) \in Nat
    BY DEF IsStack
<1> DEFINE re2 == Front(re)
<1>2. /\ re2 \in Seq(RealFrames) /\ Len(re2) = Len(re) - 1
      /\ \A i \in 1..Len(re2) : re2[i] = re[i]
    BY <1>1 DEF Front
<1> HIDE DEF re2
<1>3. Len(re2) >= 1 /\ Len(re2) \in Nat /\ Len(re2) \in 1..Len(re) - 1 /\ re2[1] = re[1]
    BY <1>1, <1>2
<1>4. \A i \in 1..Len(re2) - 1 : re2[i].fn # None
    BY <1>1, <1>2 DEF IsStack
<1>5. IsStack(re2)
    BY <1>2, <1>3, <1>4 DEF IsStack
<1>6. Last(re2) = re[Len(re) - 1] /\ re[Len(re) - 1].fn # None
    BY <1>1, <1>2, <1>3 DEF Last, IsStack
<1>7. Grows(re2, re)
    BY <1>1, <1>2 DEF Grows
<1> QED BY <1>3, <1>5, <1>6, <1>7 DEF re2

\* A jump to another function puts a frame in the place of the top one.
LEMMA RealJump ==
    ASSUME NEW re, IsStack(re), NEW r \in RealFrames, Len(re) = 1 => r.sig = Last(re).sig
    PROVE  LET re2 == Append(Front(re), r)
           IN  IsStack(re2) /\ Retops(re, re2) /\ Last(re2) = r /\ re2[Len(re)] = r
<1>1. re \in Seq(RealFrames) /\ Len(re) \in Nat /\ Len(re) >= 1 /\ Last(re) = re[Len(re)]
    BY DEF IsStack, Last
<1> DEFINE fr == Front(re)
           re2 == Append(fr, r)
<1>2. /\ fr \in Seq(RealFrames) /\ Len(fr) = Len(re) - 1 /\ Len(fr) \in Nat
      /\ \A i \in 1..Len(re) - 1 : fr[i] = re[i]
  <2> DEFINE k == Len(re) - 1
  <2>1. k \in Nat /\ k <= Len(re) /\ fr = SubSeq(re, 1, k)
    BY <1>1 DEF Front
  <2>2. \A i \in 1..k : re[i] \in RealFrames
    BY <1>1
  <2> HIDE DEF k, fr
  <2>3. SubSeq(re, 1, k) = [i \in 1..k |-> re[i]]
    BY <2>1
  <2>4. fr \in Seq(RealFrames) /\ Len(fr) = k /\ \A i \in 1..k : fr[i] = re[i]
    BY <2>1, <2>2, <2>3
  <2> QED BY <2>1, <2>4 DEF k
<1> HIDE DEF fr
<1>3. /\ re2 \in Seq(RealFrames) /\ Len(re2) = Len(re) /\ re2[Len(re)] = r
      /\ \A i \in 1..Len(re) - 1 : re2[i] = re[i]
    BY <1>1, <1>2
<1> HIDE DEF re2
<1>4. ~re2[1].sig
  <2>1. CASE Len(re) = 1
    BY <1>1, <1>3, <2>1 DEF IsStack
  <2>2. CASE Len(re) # 1
    BY <1>1, <1>3, <2>2 DEF IsStack
  <2> QED BY <2>1, <2>2
<1>5. IsStack(re2)
    BY <1>1, <1>3, <1>4 DEF IsStack
<1> QED BY <1>3, <1>5 DEF Retops, Last, re2, fr

\* A jump out of a stub gives the top frame a name and leaves the rest of it.
LEMMA RealNamed ==
    ASSUME NEW re, IsStack(re), NEW fn \in OptFn
    PROVE  LET re2 == [re EXCEPT ![Len(re)].fn = fn]
               r   == re2[Len(re)]
               old == re[Len(re)]
           IN  /\ IsStack(re2) /\ Retops(re, re2) /\ Last(re2) = r
               /\ r.fn = fn /\ r.since = old.since /\ r.sig = old.sig
<1>1. re \in Seq(RealFrames) /\ Len(re) \in Nat /\ Len(re) >= 1 /\ Len(re) \in 1..Len(re)
      /\ re[Len(re)] \in RealFrames
    BY DEF IsStack
<1> DEFINE r == [re[Len(re)] EXCEPT !.fn = fn]
           re2 == [re EXCEPT ![Len(re)] = r]
<1>2. /\ r \in RealFrames /\ r.fn = fn /\ r.since = re[Len(re)].since /\ r.sig = re[Len(re)].sig
    BY <1>1 DEF RealFrames
<1> HIDE DEF r
<1>3. /\ re2 \in Seq(RealFrames) /\ Len(re2) = Len(re) /\ re2[Len(re)] = r
      /\ \A i \in 1..Len(re) - 1 : re2[i] = re[i]
    BY <1>1, <1>2
<1>e. re2 = [re EXCEPT ![Len(re)].fn = fn]
    BY DEF r
<1> HIDE DEF re2
<1>4. ~re2[1].sig
  <2>1. CASE Len(re) = 1
    BY <1>1, <1>2, <1>3, <2>1 DEF IsStack
  <2>2. CASE Len(re) # 1
    BY <1>1, <1>3, <2>2 DEF IsStack
  <2> QED BY <2>1, <2>2
<1>5. IsStack(re2)
    BY <1>1, <1>3, <1>4 DEF IsStack
<1> QED BY <1>2, <1>3, <1>5, <1>e DEF Retops, Last

\* A step that is not seen adds nothing.
LEMMA UnseenInv ==
    ASSUME IInv, Unseen
    PROVE  IInv'
<1>1. UNCHANGED <<live, ids, retired, stack, pend, lastAbs, segments, cpuFirst, minAbs, nextEvent,
                  nextSpan, stored, closed, phase, pushed>> /\ spans' = {} /\ gaps' = {}
    BY DEF Unseen, threadVars, stateVars
<1>2. TypeOK'
    BY <1>1 DEF IInv, TypeOK
<1>3. Added'
    BY <1>1, NothingAdded
<1>4. (\A u \in Tasks : ThreadInv(u)') /\ Ledger'
    BY <1>1, <1>2, IdleStep DEF stateVars
<1>5. Named'
    BY <1>1 DEF IInv, Named
<1> QED BY <1>2, <1>3, <1>4, <1>5 DEF IInv

\* With nothing open, and no call reported as complete, nothing can be wrong.
LEMMA NothingOpen ==
    ASSUME IInv', Program', stack'[Thread] = <<>>, NoneComplete(spans')
    PROVE  TInv'
<1>1. Len(real') \in Nat
    BY DEF Program, IsStack
<1>2. Matched(stack[Thread], real)'
    BY <1>1, MatchedNone
<1>3. CompleteIsTrue'
    BY DEF CompleteIsTrue, NoneComplete
<1> QED BY <1>2, <1>3 DEF TInv, Tracked, Untracked

\* A step of the program moves the clock; it is seen, or nothing was open.
LEMMA TracedFacts ==
    ASSUME TInv, NEW flow \in Flows, NEW from \in OptFn, NEW to \in OptFn, NEW c \in CPUs,
           Traced(flow, from, to, c)
    PROVE  /\ IInv' /\ UNCHANGED <<ringStart, dark>>
           /\ clock' \in 0..MaxTime /\ cpu' = c /\ clock' = Now
           /\ lastAbs'[Thread] # None => lastAbs'[Thread] <= clock'
           /\ \/ /\ SeenStep(flow, from, to, c)
                 /\ ~dark' /\ \A x \in CPUs : ringStart'[x] <= Now'
              \/ stack'[Thread] = <<>> /\ NoneComplete(spans')
<1>1. IInv /\ Program /\ Together /\ Tracked
    BY DEF TInv, Program
<1>2. /\ clock \in Nat /\ clock < MaxTime /\ clock' = Now /\ cpu' = c
      /\ UNCHANGED <<ringStart, dark>> /\ ringStart \in [CPUs -> Nat] /\ MaxTime \in Nat
    BY <1>1, ReconstructAssumption DEF Traced, Program
<1>3. clock' \in 0..MaxTime /\ Now \in Nat /\ Now' = Now + 1 /\ clock <= Now
    BY <1>2 DEF Now
<1>4. CASE Decoded(c)
  <2>1. SeenStep(flow, from, to, c)
    BY <1>1, <1>4 DEF SeenStep
  <2>2. IInv' /\ lastAbs'[Thread] = Now /\ ~dark /\ ringStart[c] <= Now
    BY <2>1, SeenFacts
  <2>3. \A x \in CPUs : ringStart'[x] <= Now'
    <3> SUFFICES ASSUME NEW x \in CPUs PROVE ringStart[x] <= Now + 1
      BY <1>2, <1>3
    <3>1. ringStart[x] <= 2 \/ ringStart[x] <= ringStart[c] + 1
      BY <1>1 DEF Together
    <3>2. ringStart[x] \in Nat /\ ringStart[c] \in Nat /\ Now >= 1
      BY <1>2 DEF Now
    <3> QED BY <1>3, <2>2, <3>1, <3>2
  <2> QED BY <1>2, <1>3, <2>1, <2>2, <2>3
<1>5. CASE ~Decoded(c)
  <2>1. Unseen
    BY <1>5 DEF Traced
  <2>2. IInv'
    BY <1>1, <2>1, UnseenInv
  <2>3. stack[Thread] = <<>>
    BY <1>1, <1>2, <1>3, <1>5 DEF Tracked, Decoded
  <2>4. lastAbs' = lastAbs /\ stack' = stack /\ spans' = {}
    BY <2>1 DEF Unseen, stateVars
  <2>5. lastAbs'[Thread] # None => lastAbs'[Thread] <= clock'
    <3>1. lastAbs[Thread] # None => lastAbs[Thread] <= clock /\ lastAbs[Thread] \in Nat
      BY <1>1, CallTruthAssumption DEF Program, IInv, TypeOK, OptTime, Times
    <3> QED BY <1>2, <1>3, <2>4, <3>1
  <2> QED BY <1>2, <1>3, <2>2, <2>3, <2>4, <2>5 DEF NoneComplete
<1> QED BY <1>4, <1>5

\* What a step does to the program's own state.
LEMMA ProgramGoes ==
    ASSUME TInv, IsStack(real'), clock' \in 0..MaxTime, cpu' \in CPUs, ringStart' = ringStart,
           lastAbs'[Thread] # None => lastAbs'[Thread] <= clock'
    PROVE  Program'
<1>1. Together /\ ringStart \in [CPUs -> Nat]
    BY DEF TInv, Program
<1>2. Together'
    BY <1>1 DEF Together
<1> QED BY <1>1, <1>2 DEF Program

\* The stack of the program, and what is open once a pending end is settled.
LEMMA BeforeStep ==
    ASSUME TInv
    PROVE  /\ IsStack(real) /\ real \in Seq(RealFrames) /\ Len(real) \in Nat /\ Len(real) >= 1
           /\ Top = real[Len(real)] /\ Top \in RealFrames /\ Top.fn \in OptFn /\ cpu \in CPUs
           /\ Matched(Kept, real) /\ Kept \in Seq(Frames) /\ Len(Kept) \in Nat
           /\ Kept # <<>> => /\ Same(Kept[Len(Kept)], Top) /\ (Len(Kept) > 1 => ~Top.sig)
                             /\ Kept = stack[Thread] /\ ~pend[Thread].set /\ Len(Kept) >= 1
           /\ \A fn \in OptFn : Frame(fn, FALSE) \in RealFrames /\ Frame(fn, TRUE) \in RealFrames
                                /\ Frame(fn, Top.sig) \in RealFrames
           /\ None \in OptFn /\ None \notin Functions
<1>1. Program /\ IsStack(real) /\ clock \in Nat /\ cpu \in CPUs /\ IInv
    BY ReconstructAssumption DEF TInv, Program
<1>2. real \in Seq(RealFrames) /\ Len(real) \in Nat /\ Len(real) >= 1
    BY <1>1 DEF IsStack
<1>3. Top = real[Len(real)] /\ Top \in RealFrames
    BY <1>2 DEF Top, Last
<1>4. Top.fn \in OptFn /\ Top.sig \in BOOLEAN
    BY <1>3, Zenon DEF RealFrames
<1>5. Matched(Kept, real) /\ Kept \in Seq(Frames) /\ Len(Kept) \in Nat
  <2>1. stack[Thread] \in Seq(Frames)
    BY <1>1, CallTruthAssumption DEF IInv, TypeOK
  <2> QED BY <1>2, <2>1, MatchedNone DEF TInv, Kept
<1>6. ASSUME Kept # <<>>
      PROVE  /\ Same(Kept[Len(Kept)], Top) /\ (Len(Kept) > 1 => ~Top.sig)
             /\ Kept = stack[Thread] /\ ~pend[Thread].set /\ Len(Kept) >= 1
  <2>1. Len(Kept) >= 1
    BY <1>5, <1>6
  <2> QED BY <1>2, <1>3, <1>5, <1>6, <2>1, MatchedTop DEF Kept
<1>7. Now \in Nat
    BY <1>1 DEF Now
<1>8. ASSUME NEW fn \in OptFn, NEW sig \in BOOLEAN PROVE Frame(fn, sig) \in RealFrames
    BY <1>7, <1>8, Zenon DEF Frame, RealFrames
<1>9. None \in OptFn /\ None \notin Functions
    BY ReconstructAssumption DEF OptFn
<1> QED BY <1>1, <1>2, <1>3, <1>4, <1>5, <1>6, <1>8, <1>9

\* Calls are followed.
LEMMA StepCalls ==
    ASSUME TInv, NEW fn \in OptFn, Calls(fn)
    PROVE  TInv'
<1> DEFINE st == stack'[Thread]
<1>1. /\ real' = Append(real, Frame(fn, FALSE)) /\ Top.fn # None /\ ~inKernel /\ inKernel' = inKernel
      /\ Traced("call", Top.fn, fn, cpu) /\ "call" \in Flows
    BY DEF Calls, Runs, Flows
<1>2. /\ IInv' /\ UNCHANGED <<ringStart, dark>>
      /\ clock' \in 0..MaxTime /\ cpu' = cpu /\ clock' = Now
      /\ lastAbs'[Thread] # None => lastAbs'[Thread] <= clock'
      /\ \/ /\ SeenStep("call", Top.fn, fn, cpu)
            /\ ~dark' /\ \A x \in CPUs : ringStart'[x] <= Now'
         \/ st = <<>> /\ NoneComplete(spans')
    BY <1>1, BeforeStep, TracedFacts
<1>3. /\ IsStack(real') /\ Grows(real, real') /\ Top' = Frame(fn, FALSE)
      /\ real'[Len(real')] = Frame(fn, FALSE)
    BY <1>1, BeforeStep, RealCall DEF Top
<1>4. Program'
    BY <1>2, <1>3, BeforeStep, ProgramGoes
<1>5. CASE st = <<>> /\ NoneComplete(spans')
    BY <1>2, <1>4, <1>5, NothingOpen
<1>6. CASE SeenStep("call", Top.fn, fn, cpu) /\ ~dark' /\ \A x \in CPUs : ringStart'[x] <= Now'
  <2>1. /\ Grows(Kept, st) /\ st[Len(st)].fn = fn /\ st[Len(st)].comp = "open_end"
        /\ st[Len(st)].start = Now /\ ~pend'[Thread].set /\ NoneComplete(spans')
    BY <1>6, CallSeen
  <2>2. Frame(fn, FALSE).fn = fn /\ Frame(fn, FALSE).since = Now /\ ~Frame(fn, FALSE).sig
    BY DEF Frame
  <2> HIDE DEF st
  <2>3. Matched(st, real')
    BY <1>3, <2>1, <2>2, BeforeStep, MatchedCall DEF Same
  <2>4. CompleteIsTrue'
    BY <2>1 DEF CompleteIsTrue, NoneComplete
  <2> QED BY <1>1, <1>2, <1>3, <1>4, <1>6, <2>1, <2>2, <2>3, <2>4 DEF TInv, Tracked, Untracked, st
<1> QED BY <1>2, <1>5, <1>6

\* Tail calls are followed.
LEMMA StepTailCalls ==
    ASSUME TInv, NEW fn \in Functions, TailCalls(fn)
    PROVE  TInv'
<1> DEFINE st == stack'[Thread]
           r  == Frame(fn, Top.sig)
<1>0. fn \in OptFn /\ fn # None
    BY ReconstructAssumption DEF OptFn
<1>1. /\ real' = Append(Front(real), r) /\ Top.fn # None /\ Top.fn # fn /\ ~inKernel
      /\ inKernel' = inKernel /\ Traced("jump", Top.fn, fn, cpu) /\ "jump" \in Flows
    BY DEF TailCalls, Runs, Flows
<1>2. /\ IInv' /\ UNCHANGED <<ringStart, dark>>
      /\ clock' \in 0..MaxTime /\ cpu' = cpu /\ clock' = Now
      /\ lastAbs'[Thread] # None => lastAbs'[Thread] <= clock'
      /\ \/ /\ SeenStep("jump", Top.fn, fn, cpu)
            /\ ~dark' /\ \A x \in CPUs : ringStart'[x] <= Now'
         \/ st = <<>> /\ NoneComplete(spans')
    BY <1>0, <1>1, BeforeStep, TracedFacts
<1>r. r.fn = fn /\ r.since = Now /\ r.sig = Top.sig /\ r \in RealFrames
    BY <1>0, BeforeStep DEF Frame
<1> HIDE DEF r
<1>3. IsStack(real') /\ Retops(real, real') /\ Top' = r /\ real'[Len(real)] = r
  <2>1. IsStack(real) /\ r.sig = Last(real).sig
    BY <1>r, BeforeStep DEF Top
  <2> QED BY <1>1, <1>r, <2>1, RealJump DEF Top
<1>4. Program'
    BY <1>2, <1>3, BeforeStep, ProgramGoes
<1>5. CASE st = <<>> /\ NoneComplete(spans')
    BY <1>2, <1>4, <1>5, NothingOpen
<1>6. CASE SeenStep("jump", Top.fn, fn, cpu) /\ ~dark' /\ \A x \in CPUs : ringStart'[x] <= Now'
  <2>1. /\ ~pend'[Thread].set /\ NoneComplete(spans')
        /\ IF Kept = <<>> THEN Alone(st, fn) ELSE Retops(Kept, st)
        /\ st[Len(st)].fn = fn /\ st[Len(st)].comp = "open_start"
    BY <1>0, <1>1, <1>6, TailCallSeen
  <2> HIDE DEF st
  <2>2. Same(st[Len(st)], r)
    BY <1>r, <2>1 DEF Same
  <2>3. Matched(st, real')
    <3>1. Len(real') = Len(real) /\ Len(real) \in Nat /\ Len(real) >= 1
      BY <1>3, BeforeStep DEF Retops
    <3>2. CASE Kept = <<>>
      <4>1. Len(st) = 1
        BY <2>1, <3>2 DEF Alone
      <4> QED BY <1>3, <2>2, <3>1, <4>1, MatchedOne
    <3>3. CASE Kept # <<>>
      <4>1. /\ Matched(Kept, real) /\ Len(Kept) \in Nat /\ Len(Kept) >= 1 /\ Len(st) = Len(Kept)
            /\ Retops(Kept, st) /\ Top = real[Len(real)]
        BY <2>1, <3>3, BeforeStep DEF Retops
      <4>2. Same(st[Len(Kept)], real'[Len(real)]) /\ real'[Len(real)].sig = real[Len(real)].sig
        BY <1>3, <1>r, <2>2, <4>1
      <4> QED BY <1>3, <3>1, <4>1, <4>2, MatchedJump
    <3> QED BY <3>2, <3>3
  <2>4. CompleteIsTrue'
    BY <2>1 DEF CompleteIsTrue, NoneComplete
  <2> QED BY <1>0, <1>1, <1>2, <1>3, <1>4, <1>6, <1>r, <2>1, <2>3, <2>4 DEF TInv, Tracked, Untracked, st
<1> QED BY <1>2, <1>5, <1>6

\* A call through a stub gets the name of what it calls.
LEMMA StepStubJumps ==
    ASSUME TInv, NEW fn \in Functions, StubJumps(fn)
    PROVE  TInv'
<1> DEFINE st == stack'[Thread]
           r  == real'[Len(real)]
<1>0. fn \in OptFn /\ fn # None /\ None \in OptFn
    BY ReconstructAssumption DEF OptFn
<1>1. /\ real' = [real EXCEPT ![Len(real)].fn = fn] /\ Top.fn = None /\ ~inKernel
      /\ inKernel' = inKernel /\ Traced("jump", None, fn, cpu) /\ "jump" \in Flows
    BY DEF StubJumps, InStub, Runs, Flows
<1>2. /\ IInv' /\ UNCHANGED <<ringStart, dark>>
      /\ clock' \in 0..MaxTime /\ cpu' = cpu /\ clock' = Now
      /\ lastAbs'[Thread] # None => lastAbs'[Thread] <= clock'
      /\ \/ /\ SeenStep("jump", None, fn, cpu)
            /\ ~dark' /\ \A x \in CPUs : ringStart'[x] <= Now'
         \/ st = <<>> /\ NoneComplete(spans')
    BY <1>0, <1>1, BeforeStep, TracedFacts
<1>3. /\ IsStack(real') /\ Retops(real, real') /\ Top' = r /\ r.fn = fn /\ r.since = Top.since
      /\ r.sig = Top.sig /\ Top = real[Len(real)]
  <2>1. IsStack(real) /\ Top = real[Len(real)]
    BY BeforeStep
  <2>2. /\ IsStack(real') /\ Retops(real, real') /\ Last(real') = r
        /\ r.fn = fn /\ r.since = real[Len(real)].since /\ r.sig = real[Len(real)].sig
    <3> DEFINE re2 == [real EXCEPT ![Len(real)].fn = fn]
    <3>1. /\ IsStack(re2) /\ Retops(real, re2) /\ Last(re2) = re2[Len(real)]
          /\ re2[Len(real)].fn = fn /\ re2[Len(real)].since = real[Len(real)].since
          /\ re2[Len(real)].sig = real[Len(real)].sig
      BY <1>0, <2>1, RealNamed
    <3>2. real' = re2
      BY <1>1
    <3> HIDE DEF re2
    <3> QED BY <3>1, <3>2
  <2>3. Top' = Last(real')
    BY DEF Top
  <2> HIDE DEF r
  <2> QED BY <2>1, <2>2, <2>3
<1> HIDE DEF r
<1>4. Program'
    BY <1>2, <1>3, BeforeStep, ProgramGoes
<1>5. CASE st = <<>> /\ NoneComplete(spans')
    BY <1>2, <1>4, <1>5, NothingOpen
<1>6. CASE SeenStep("jump", None, fn, cpu) /\ ~dark' /\ \A x \in CPUs : ringStart'[x] <= Now'
  <2>0. Kept # <<>> => Kept[Len(Kept)].fn = None
    BY <1>1, BeforeStep DEF Same
  <2>1. /\ ~pend'[Thread].set /\ NoneComplete(spans')
        /\ IF Kept = <<>> THEN st = <<>>
           ELSE /\ Retops(Kept, st) /\ st[Len(st)].fn = fn
                /\ st[Len(st)].comp = Kept[Len(Kept)].comp /\ st[Len(st)].start = Kept[Len(Kept)].start
    BY <1>0, <1>6, <2>0, StubSeen
  <2> HIDE DEF st
  <2>2. CASE Kept = <<>>
    BY <1>2, <1>4, <2>1, <2>2, NothingOpen DEF st
  <2>3. CASE Kept # <<>>
    <3>1. /\ Matched(Kept, real) /\ Len(Kept) \in Nat /\ Len(Kept) >= 1 /\ Len(st) = Len(Kept)
          /\ Retops(Kept, st) /\ Same(Kept[Len(Kept)], Top) /\ Len(real) \in Nat
      BY <2>1, <2>3, BeforeStep DEF Retops
    <3>2. Same(st[Len(Kept)], r) /\ r.sig = real[Len(real)].sig
      BY <1>3, <2>1, <2>3, <3>1 DEF Same
    <3>3. Matched(st, real')
      BY <1>3, <3>1, <3>2, MatchedJump DEF r
    <3>4. CompleteIsTrue'
      BY <2>1 DEF CompleteIsTrue, NoneComplete
    <3> QED BY <1>0, <1>1, <1>2, <1>3, <1>4, <1>6, <2>1, <3>3, <3>4 DEF TInv, Tracked, Untracked, st
  <2> QED BY <2>2, <2>3
<1> QED BY <1>2, <1>5, <1>6

\* A return that closes a frame seen to be called is that call's.
LEMMA ReturnIsTrue ==
    ASSUME TInv, NEW from, NEW to, NEW c, SeenStep("return", from, to, c), returned' = {Top}
    PROVE  CompleteIsTrue'
<1>1. clock' = Now
    BY SeenFacts
<1>2. /\ Kept = <<>> => NoneComplete(spans')
      /\ Kept # <<>> =>
            \A x \in spans' : x.comp = "complete" =>
               /\ x.fn = Kept[Len(Kept)].fn /\ x.start = Kept[Len(Kept)].start /\ x.end = Now
               /\ Kept[Len(Kept)].comp = "open_end"
    BY ReturnSeen
<1>3. Kept # <<>> => Same(Kept[Len(Kept)], Top)
    BY BeforeStep
<1>4. ASSUME NEW x \in spans', x.comp = "complete"
      PROVE  x.fn = Top.fn /\ x.start = Top.since /\ x.end = clock'
    BY <1>1, <1>2, <1>3, <1>4 DEF NoneComplete, Same
<1> QED BY <1>4 DEF CompleteIsTrue

\* Returns are followed.
LEMMA StepReturns ==
    ASSUME TInv, Returns
    PROVE  TInv'
<1> DEFINE st == stack'[Thread]
           to == Below.fn
<1>1. /\ real' = Front(real) /\ Top.fn # None /\ ~Top.sig /\ Len(real) > 1 /\ ~inKernel
      /\ inKernel' = inKernel /\ returned' = {Top}
      /\ Traced("return", Top.fn, to, cpu) /\ "return" \in Flows
    BY DEF Returns, Runs, Flows
<1>3. IsStack(real') /\ Grows(real', real) /\ Len(real') \in Nat /\ Top' = Below /\ to # None
  <2>1. IsStack(real)
    BY BeforeStep
  <2> QED BY <1>1, <2>1, RealReturn DEF Top, Below
<1>b. Top' = real'[Len(real')] /\ Top' \in RealFrames /\ Len(real') >= 1
    BY <1>3 DEF IsStack, Top, Last
<1>0. to \in OptFn
    BY <1>3, <1>b, Zenon DEF RealFrames
<1> HIDE DEF to
<1>2. /\ IInv' /\ UNCHANGED <<ringStart, dark>>
      /\ clock' \in 0..MaxTime /\ cpu' = cpu /\ clock' = Now
      /\ lastAbs'[Thread] # None => lastAbs'[Thread] <= clock'
      /\ \/ /\ SeenStep("return", Top.fn, to, cpu)
            /\ ~dark' /\ \A x \in CPUs : ringStart'[x] <= Now'
         \/ st = <<>> /\ NoneComplete(spans')
    BY <1>0, <1>1, BeforeStep, TracedFacts
<1>4. Program'
    BY <1>2, <1>3, BeforeStep, ProgramGoes
<1>5. CASE st = <<>> /\ NoneComplete(spans')
    BY <1>2, <1>4, <1>5, NothingOpen
<1>6. CASE SeenStep("return", Top.fn, to, cpu) /\ ~dark' /\ \A x \in CPUs : ringStart'[x] <= Now'
  <2>1. /\ ~pend'[Thread].set
        /\ Kept = <<>> => (IF to = None THEN st = <<>> ELSE Alone(st, to))
        /\ Kept # <<>> => Grows(st, Kept) /\ Len(st) \in Nat
    BY <1>6, ReturnSeen
  <2> HIDE DEF st
  <2>2. Matched(st, real')
    <3>1. CASE Kept = <<>>
      <4>1. Len(st) = 1 /\ Same(st[1], real'[Len(real')])
        BY <1>3, <1>b, <2>1, <3>1 DEF Alone, Same, to
      <4> QED BY <1>3, <1>b, <4>1, MatchedOne
    <3>2. CASE Kept # <<>>
      BY <1>3, <2>1, <3>2, BeforeStep, MatchedReturn
    <3> QED BY <3>1, <3>2
  <2>3. CompleteIsTrue'
    BY <1>1, <1>6, ReturnIsTrue
  <2>4. Top'.fn # None
    BY <1>3 DEF to
  <2> QED BY <1>1, <1>2, <1>4, <1>6, <2>1, <2>2, <2>3, <2>4 DEF TInv, Tracked, Untracked, st
<1> QED BY <1>2, <1>5, <1>6

\* A signal handler's frame is the outermost one that is open: its return
\* leaves nothing open in the trampoline.
LEMMA StepHandlerReturns ==
    ASSUME TInv, HandlerReturns
    PROVE  TInv'
<1> DEFINE st == stack'[Thread]
           r  == Frame(None, TRUE)
<1>1. /\ real' = Append(Front(real), r) /\ Top.fn # None /\ Top.sig /\ ~inKernel
      /\ inKernel' = inKernel /\ returned' = {Top}
      /\ Traced("return", Top.fn, None, cpu) /\ "return" \in Flows
    BY DEF HandlerReturns, Runs, Flows
<1>2. /\ IInv' /\ UNCHANGED <<ringStart, dark>>
      /\ clock' \in 0..MaxTime /\ cpu' = cpu /\ clock' = Now
      /\ lastAbs'[Thread] # None => lastAbs'[Thread] <= clock'
      /\ \/ /\ SeenStep("return", Top.fn, None, cpu)
            /\ ~dark' /\ \A x \in CPUs : ringStart'[x] <= Now'
         \/ st = <<>> /\ NoneComplete(spans')
    BY <1>1, BeforeStep, TracedFacts
<1>r. r.sig = TRUE /\ r \in RealFrames
    BY BeforeStep DEF Frame
<1> HIDE DEF r
<1>3. IsStack(real')
  <2>1. IsStack(real) /\ r.sig = Last(real).sig
    <3>1. Top.sig \in BOOLEAN
      BY BeforeStep, Zenon DEF RealFrames
    <3> QED BY <1>1, <1>r, <3>1, BeforeStep DEF Top
  <2> QED BY <1>1, <1>r, <2>1, RealJump
<1>4. Program'
    BY <1>2, <1>3, BeforeStep, ProgramGoes
<1>5. CASE st = <<>> /\ NoneComplete(spans')
    BY <1>2, <1>4, <1>5, NothingOpen
<1>6. CASE SeenStep("return", Top.fn, None, cpu)
  <2>1. /\ Kept = <<>> => st = <<>>
        /\ Kept # <<>> => Grows(st, Kept) /\ Len(st) \in Nat
    BY <1>6, ReturnSeen
  <2>2. st = <<>>
    <3>1. CASE Kept # <<>>
      <4>1. Len(Kept) = 1
        <5>1. Len(Kept) \in Nat /\ Len(Kept) >= 1 /\ (Len(Kept) > 1 => ~Top.sig)
          BY <3>1, BeforeStep, Zenon
        <5>2. ~(Len(Kept) > 1)
          BY <1>1, <5>1, Zenon
        <5>3. Len(Kept) \in Nat /\ Len(Kept) >= 1
          BY <5>1, Zenon
        <5> DEFINE k == Len(Kept)
        <5>4. k \in Nat /\ k >= 1 /\ ~(k > 1)
          BY <5>2, <5>3, Zenon
        <5> HIDE DEF k
        <5>5. k = 1
          BY <5>4
        <5> QED BY <5>5, Zenon DEF k
      <4>2. Len(st) = 0
        BY <2>1, <3>1, <4>1 DEF Grows
      <4>3. st \in Seq(Frames)
        BY <1>2, CallTruthAssumption DEF IInv, TypeOK
      <4> HIDE DEF st
      <4> QED BY <4>2, <4>3
    <3> QED BY <2>1, <3>1
  <2>3. CompleteIsTrue'
    BY <1>1, <1>6, ReturnIsTrue
  <2>4. Len(real') \in Nat
    BY <1>3 DEF IsStack
  <2>5. Matched(stack[Thread], real)'
    BY <2>2, <2>4, MatchedNone
  <2> QED BY <1>2, <1>4, <2>2, <2>3, <2>5 DEF TInv, Tracked, Untracked
<1> QED BY <1>2, <1>5, <1>6

\* Entering the kernel is remembered.
LEMMA StepEntersKernel ==
    ASSUME TInv, EntersKernel
    PROVE  TInv'
<1> DEFINE st == stack'[Thread]
<1>1. /\ real' = real /\ ~inKernel /\ inKernel' = TRUE
      /\ Traced("end", Top.fn, None, cpu) /\ "end" \in Flows
    BY DEF EntersKernel, Flows
<1>2. /\ IInv' /\ UNCHANGED <<ringStart, dark>>
      /\ clock' \in 0..MaxTime /\ cpu' = cpu /\ clock' = Now
      /\ lastAbs'[Thread] # None => lastAbs'[Thread] <= clock'
      /\ \/ /\ SeenStep("end", Top.fn, None, cpu)
            /\ ~dark' /\ \A x \in CPUs : ringStart'[x] <= Now'
         \/ st = <<>> /\ NoneComplete(spans')
    BY <1>1, BeforeStep, TracedFacts
<1>3. IsStack(real') /\ Top' = Top
  <2>1. IsStack(real)
    BY BeforeStep
  <2> QED BY <1>1, <2>1 DEF Top
<1>4. Program'
    BY <1>2, <1>3, BeforeStep, ProgramGoes
<1>5. CASE st = <<>> /\ NoneComplete(spans')
    BY <1>2, <1>4, <1>5, NothingOpen
<1>6. CASE SeenStep("end", Top.fn, None, cpu) /\ ~dark' /\ \A x \in CPUs : ringStart'[x] <= Now'
  <2>1. st = Kept /\ pend'[Thread].set /\ pend'[Thread].fn = Top.fn /\ NoneComplete(spans')
    BY <1>6, EndSeen
  <2> HIDE DEF st
  <2>2. Matched(st, real')
    BY <1>1, <2>1, BeforeStep
  <2>3. CompleteIsTrue'
    BY <2>1 DEF CompleteIsTrue, NoneComplete
  <2>4. Top'.fn = None /\ Top'.sig => st = <<>>
    BY <1>3, <2>1 DEF TInv, Untracked, Kept
  <2> QED BY <1>1, <1>2, <1>3, <1>4, <1>6, <2>1, <2>2, <2>3, <2>4 DEF TInv, Tracked, Untracked, st
<1> QED BY <1>2, <1>5, <1>6

\* Coming back to a function, whether or not that is where the kernel was
\* entered: what is open afterwards is open in the program.
LEMMA ComesBack ==
    ASSUME TInv, NEW to \in OptFn, to # None, NEW c \in CPUs, inKernel, inKernel' = FALSE,
           Traced("begin", None, to, c), IsStack(real'), Top'.fn = to,
           real' = real \/ stack[Thread] = <<>> \/ Top.fn # to
    PROVE  TInv'
<1> DEFINE st == stack'[Thread]
<1>0. None \in OptFn /\ "begin" \in Flows
    BY DEF OptFn, Flows
<1>2. /\ IInv' /\ UNCHANGED <<ringStart, dark>>
      /\ clock' \in 0..MaxTime /\ cpu' = c /\ clock' = Now
      /\ lastAbs'[Thread] # None => lastAbs'[Thread] <= clock'
      /\ \/ /\ SeenStep("begin", None, to, c)
            /\ ~dark' /\ \A x \in CPUs : ringStart'[x] <= Now'
         \/ st = <<>> /\ NoneComplete(spans')
    BY <1>0, TracedFacts
<1>4. Program'
    BY <1>2, ProgramGoes
<1>5. CASE st = <<>> /\ NoneComplete(spans')
    BY <1>2, <1>4, <1>5, NothingOpen
<1>6. CASE SeenStep("begin", None, to, c) /\ ~dark' /\ \A x \in CPUs : ringStart'[x] <= Now'
  <2>0. stack[Thread] # <<>> => pend[Thread].set /\ pend[Thread].fn = Top.fn
    BY DEF TInv, Tracked
  <2>1. /\ \/ stack[Thread] # <<>> /\ pend[Thread].fn = to /\ st = stack[Thread]
           \/ Alone(st, to)
        /\ ~pend'[Thread].set /\ NoneComplete(spans')
    BY <1>6, <2>0, BeginSeen
  <2> HIDE DEF st
  <2>2. Matched(st, real')
    <3>1. CASE Alone(st, to)
      <4>1. Len(real') \in Nat /\ Len(real') >= 1 /\ Top' = real'[Len(real')]
        BY DEF IsStack, Top, Last
      <4>2. Len(st) = 1 /\ Same(st[1], real'[Len(real')])
        BY <3>1, <4>1 DEF Alone, Same
      <4> QED BY <4>1, <4>2, MatchedOne
    <3>2. CASE stack[Thread] # <<>> /\ pend[Thread].fn = to /\ st = stack[Thread]
      <4>1. real' = real
        BY <2>0, <3>2
      <4> QED BY <3>2, <4>1 DEF TInv
    <3> QED BY <2>1, <3>1, <3>2
  <2>3. CompleteIsTrue'
    BY <2>1 DEF CompleteIsTrue, NoneComplete
  <2> QED BY <1>2, <1>4, <1>6, <2>1, <2>2, <2>3 DEF TInv, Tracked, Untracked, st
<1> QED BY <1>2, <1>5, <1>6

\* Back where it was.
LEMMA StepLeavesKernel ==
    ASSUME TInv, NEW c \in CPUs, LeavesKernel(c)
    PROVE  TInv'
<1>1. /\ real' = real /\ inKernel /\ inKernel' = FALSE /\ Top.fn # None
      /\ Traced("begin", None, Top.fn, c)
    BY DEF LeavesKernel
<1>2. IsStack(real) /\ Top.fn \in OptFn
    BY BeforeStep
<1>3. IsStack(real') /\ Top'.fn = Top.fn
    BY <1>1, <1>2 DEF Top
<1> QED BY <1>1, <1>2, <1>3, ComesBack

\* Into a signal handler, which is not the function that was left.
LEMMA StepSignalDelivered ==
    ASSUME TInv, NEW fn \in Functions, NEW c \in CPUs, SignalDelivered(fn, c)
    PROVE  TInv'
<1>0. fn \in OptFn /\ fn # None
    BY ReconstructAssumption DEF OptFn
<1>1. /\ real' = Append(real, Frame(fn, TRUE)) /\ inKernel /\ inKernel' = FALSE /\ Top.fn # None
      /\ Top.fn # fn /\ Traced("begin", None, fn, c)
    BY DEF SignalDelivered
<1>2. IsStack(real') /\ Top' = Frame(fn, TRUE)
  <2>1. IsStack(real) /\ Frame(fn, TRUE) \in RealFrames /\ Last(real).fn # None
    BY <1>0, <1>1, BeforeStep DEF Top
  <2> QED BY <1>1, <2>1, RealCall DEF Top
<1>3. Top'.fn = fn
    BY <1>2 DEF Frame
<1> QED BY <1>0, <1>1, <1>2, <1>3, ComesBack

\* From the trampoline, where nothing was open, back to what was interrupted.
LEMMA StepSignalReturns ==
    ASSUME TInv, NEW c \in CPUs, SignalReturns(c)
    PROVE  TInv'
<1>1. /\ real' = Front(real) /\ inKernel /\ inKernel' = FALSE /\ Top.fn = None /\ Top.sig
      /\ Traced("begin", None, Below.fn, c)
    BY DEF SignalReturns
<1>2. IsStack(real) /\ Len(real) \in Nat /\ Len(real) >= 1 /\ Top = real[Len(real)]
    BY BeforeStep
<1>3. Len(real) > 1
  <2>1. ~real[1].sig
    BY <1>2, Zenon DEF IsStack
  <2>2. Len(real) # 1
    BY <1>1, <1>2, <2>1, Zenon
  <2> QED BY <1>2, <2>2
<1>4. IsStack(real') /\ Top' = Below /\ Below.fn # None
    BY <1>1, <1>2, <1>3, RealReturn DEF Top, Below
<1>5. Below \in RealFrames
    BY <1>4 DEF IsStack, Top, Last
<1>6. Below.fn \in OptFn
    BY <1>5, Zenon DEF RealFrames
<1>7. stack[Thread] = <<>>
    BY <1>1, Zenon DEF TInv, Untracked
<1>8. Top'.fn = Below.fn
    BY <1>4
<1> QED BY <1>1, <1>4, <1>6, <1>7, <1>8, ComesBack

\* Steps that leave the program and its clock where they are.
LEMMA ProgramWaits ==
    ASSUME TInv, UNCHANGED <<real, clock, cpu, ringStart, lastAbs>>
    PROVE  Program'
<1>1. Program
    BY DEF TInv
<1>2. IsStack(real') /\ clock' \in 0..MaxTime /\ cpu' \in CPUs
      /\ (lastAbs'[Thread] # None => lastAbs'[Thread] <= clock')
    BY <1>1 DEF Program
<1> QED BY <1>2, ProgramGoes

\* A decoder error leaves nothing open.
LEMMA StepDecoderFails ==
    ASSUME TInv, DecoderFails
    PROVE  TInv'
<1> DEFINE time == IF clock = 0 THEN None ELSE clock
           c == Context(Thread)
           d == PushGap(InterruptThread(c), "decoder_error", time, None)
<1>1. IInv /\ TypeOK /\ clock \in Nat /\ clock <= MaxTime /\ Thread \in Tasks
    BY CallTruthAssumption, ReconstructAssumption DEF TInv, Program, IInv
<1>2. time \in OptTime
    BY <1>1 DEF OptTime, Times
<1>3. PushError(Thread, time) /\ UNCHANGED <<real, cpu, clock, ringStart>>
    BY DEF DecoderFails
<1>4. IInv'
  <2>1. \E u \in Tasks, x \in OptTime : PushError(u, x)
    BY <1>1, <1>2, <1>3
  <2> HIDE DEF time
  <2>2. [Next]_vars
    BY <2>1 DEF Next
  <2> QED BY <1>1, <2>2, StepInv
<1>5. c \in Contexts /\ c.spans = {}
    BY <1>1, ContextOf DEF HaveContexts, IsContext
<1>6. Adds(Thread, d) /\ lastAbs' = lastAbs
    BY <1>3 DEF PushError
<1> HIDE DEF c, time
<1>7. d.stack = <<>> /\ NoneComplete(d.spans)
  <2>1. NoneComplete(c.spans)
    BY <1>5 DEF NoneComplete
  <2>2. d.stack = <<>> /\ d.pend = c.pend /\ NoneComplete(d.spans)
    BY <1>5, <2>1, InterruptDoes, Zenon
  <2> QED BY <2>2
<1> HIDE DEF d
<1>8. stack'[Thread] = <<>> /\ NoneComplete(spans')
    BY <1>1, <1>6, <1>7 DEF Adds, TypeOK
<1>9. Program'
    BY <1>3, <1>6, ProgramWaits
<1> QED BY <1>4, <1>8, <1>9, NothingOpen

\* While the decoder looks for a synchronisation point nothing is open.
LEMMA StepDecoderSyncs ==
    ASSUME TInv, DecoderSyncs
    PROVE  TInv'
<1>1. IInv /\ stack[Thread] = <<>> /\ Unseen /\ UNCHANGED <<real, cpu, clock, ringStart>>
    BY DEF DecoderSyncs, TInv, Tracked
<1>2. lastAbs' = lastAbs /\ stack' = stack /\ spans' = {}
    BY <1>1 DEF Unseen, stateVars
<1>3. IInv' /\ stack'[Thread] = <<>> /\ NoneComplete(spans')
    BY <1>1, <1>2, UnseenInv DEF NoneComplete
<1>4. Program'
    BY <1>1, <1>2, ProgramWaits
<1> QED BY <1>3, <1>4, NothingOpen

\* Samples of other tasks touch nothing of the thread.
LEMMA StepOthersRun ==
    ASSUME TInv, NEW c \in CPUs, OthersRun(c)
    PROVE  TInv'
<1>1. IInv /\ Program /\ clock \in Nat /\ clock <= MaxTime
    BY ReconstructAssumption DEF TInv, Program
<1>2. /\ ForeignSample(c, clock) /\ 0 < clock
      /\ UNCHANGED <<real, inKernel, cpu, clock, ringStart, dark>>
    BY DEF OthersRun
<1>3. clock \in Times
    BY <1>1, <1>2, ReconstructAssumption DEF Times
<1>4. IInv'
  <2>1. \E x \in CPUs, y \in Times : ForeignSample(x, y)
    BY <1>2, <1>3
  <2>2. [Next]_vars
    BY <2>1 DEF Next
  <2> QED BY <1>1, <2>2, StepInv
<1>5. UNCHANGED <<stack, pend, lastAbs>> /\ spans' = {}
    BY <1>2 DEF ForeignSample, stateVars
<1>6. Program'
    BY <1>2, <1>5, ProgramWaits
<1>7. CompleteIsTrue'
    BY <1>5 DEF CompleteIsTrue
<1>8. Matched(stack[Thread], real)'
    BY <1>2, <1>5 DEF TInv
<1>9. Tracked' /\ Untracked'
    BY <1>2, <1>5 DEF TInv, Tracked, Untracked, Top, Now
<1> QED BY <1>4, <1>6, <1>7, <1>8, <1>9 DEF TInv

\* The end of the decode reports what is open as open.
LEMMA StepCaptureEnds ==
    ASSUME TInv, CaptureEnds
    PROVE  TInv'
<1>1. IInv /\ (Finish \/ FinishFails) /\ UNCHANGED <<real, inKernel, cpu, clock, ringStart, dark>>
    BY DEF TInv, CaptureEnds, programVars
<1>2. IInv'
  <2>1. [Next]_vars
    BY <1>1 DEF Next
  <2> QED BY <1>1, <2>1, StepInv
<1>3. lastAbs' = lastAbs
    BY <1>1 DEF Finish, FinishFails, stateVars
<1>4. Program'
    BY <1>1, <1>3, ProgramWaits
<1>5. CASE Finish
  <2>1. stack'[Thread] = <<>>
    BY <1>5, CallTruthAssumption DEF Finish
  <2>2. NoneComplete(spans')
    <3>1. ASSUME NEW u \in Tasks
          PROVE  NoneComplete(CloseAll(Context(u), None).spans)
      <4>1. Context(u).spans = {} /\ Context(u) \in Contexts
        BY <1>1, ContextOf DEF IInv, HaveContexts, IsContext
      <4>2. \A x \in CloseAll(Context(u), None).spans : x.comp \in {"open_both", "open_end"}
        BY <4>1 DEF CloseAll, SpanOf, Contexts
      <4> QED BY <4>2 DEF NoneComplete
    <3>2. live \subseteq Tasks
      BY <1>1 DEF IInv, TypeOK
    <3>3. spans' = UNION {CloseAll(Context(u), None).spans : u \in live}
      BY <1>5 DEF Finish
    <3> QED BY <3>1, <3>2, <3>3 DEF NoneComplete
  <2> QED BY <1>2, <1>4, <2>1, <2>2, NothingOpen
<1>6. CASE FinishFails
  <2>1. UNCHANGED <<stack, pend>> /\ spans' = {}
    BY <1>6 DEF FinishFails, stateVars
  <2>2. CompleteIsTrue'
    BY <2>1 DEF CompleteIsTrue
  <2>3. Matched(stack[Thread], real)'
    BY <1>1, <2>1 DEF TInv
  <2>4. Tracked' /\ Untracked'
    BY <1>1, <2>1 DEF TInv, Tracked, Untracked, Top, Now
  <2> QED BY <1>2, <1>4, <2>2, <2>3, <2>4 DEF TInv
<1> QED BY <1>1, <1>5, <1>6

\* Nothing happens.
LEMMA StepNothing ==
    ASSUME TInv, UNCHANGED truthVars
    PROVE  TInv'
<1>1. UNCHANGED vars /\ UNCHANGED programVars
    BY DEF truthVars
<1>2. IInv'
    BY <1>1, StepInv DEF TInv
<1>3. UNCHANGED <<real, inKernel, cpu, clock, ringStart, dark, returned>>
    BY <1>1 DEF programVars
<1>4. UNCHANGED <<stack, pend, lastAbs, spans>>
    BY <1>1 DEF vars, stateVars
<1>5. Program'
    BY <1>3, <1>4, ProgramWaits
<1>6. CompleteIsTrue'
    BY <1>3, <1>4 DEF TInv, CompleteIsTrue
<1>7. Matched(stack[Thread], real)'
    BY <1>3, <1>4 DEF TInv
<1>8. Tracked' /\ Untracked'
    BY <1>3, <1>4 DEF TInv, Tracked, Untracked, Top, Now
<1> QED BY <1>2, <1>5, <1>6, <1>7, <1>8 DEF TInv

-----------------------------------------------------------------------------
\* Before anything is traced nothing is open.
LEMMA TruthBegins == TruthInit /\ Together => TInv
<1> SUFFICES ASSUME TruthInit, Together PROVE TInv
    OBVIOUS
<1>1. Init /\ clock = 0 /\ cpu \in CPUs /\ ringStart \in [CPUs -> {0, MaxStart}]
    BY DEF TruthInit
<1>2. PICK f \in Functions : real = <<[fn |-> f, since |-> 0, sig |-> FALSE]>>
    BY DEF TruthInit
<1>3. IInv
    BY <1>1, InitInv
<1>4. stack[Thread] = <<>> /\ spans = {} /\ lastAbs[Thread] = None
    BY <1>1, CallTruthAssumption DEF Init
<1>5. IsStack(real)
  <2> DEFINE r == [fn |-> f, since |-> 0, sig |-> FALSE]
  <2>1. r \in RealFrames /\ ~r.sig
    BY DEF RealFrames, OptFn
  <2> HIDE DEF r
  <2>2. real = <<r>>
    BY <1>2 DEF r
  <2> QED BY <2>1, <2>2 DEF IsStack
<1>6. ringStart \in [CPUs -> Nat] /\ clock \in 0..MaxTime
    BY <1>1, CallTruthAssumption, ReconstructAssumption
<1>7. Program
    BY <1>1, <1>4, <1>5, <1>6 DEF Program
<1>8. Matched(stack[Thread], real)
  <2>1. Len(real) \in Nat
    BY <1>5 DEF IsStack
  <2> QED BY <1>4, <2>1, MatchedNone
<1>9. CompleteIsTrue
    BY <1>4 DEF CompleteIsTrue
<1> QED BY <1>3, <1>4, <1>7, <1>8, <1>9 DEF TInv, Tracked, Untracked

\* Every step keeps to the program.
LEMMA TruthStep == TInv /\ [TruthNext]_truthVars => TInv'
<1> SUFFICES ASSUME TInv, [TruthNext]_truthVars PROVE TInv'
    OBVIOUS
<1>1. ASSUME NEW fn \in OptFn, Calls(fn) PROVE TInv'
    BY <1>1, StepCalls
<1>2. ASSUME NEW fn \in Functions, TailCalls(fn) \/ StubJumps(fn) PROVE TInv'
    BY <1>2, StepTailCalls, StepStubJumps
<1>3. CASE Returns
    BY <1>3, StepReturns
<1>4. CASE HandlerReturns
    BY <1>4, StepHandlerReturns
<1>5. CASE EntersKernel
    BY <1>5, StepEntersKernel
<1>6. ASSUME NEW c \in CPUs, LeavesKernel(c) \/ SignalReturns(c) \/ OthersRun(c) PROVE TInv'
    BY <1>6, StepLeavesKernel, StepSignalReturns, StepOthersRun
<1>7. ASSUME NEW c \in CPUs, NEW fn \in Functions, SignalDelivered(fn, c) PROVE TInv'
    BY <1>7, StepSignalDelivered
<1>8. CASE DecoderFails
    BY <1>8, StepDecoderFails
<1>9. CASE DecoderSyncs
    BY <1>9, StepDecoderSyncs
<1>10. CASE CaptureEnds
    BY <1>10, StepCaptureEnds
<1>11. CASE Ended
  <2>1. UNCHANGED truthVars
    BY <1>11 DEF Ended, Finished, truthVars
  <2> QED BY <2>1, StepNothing
<1>12. CASE UNCHANGED truthVars
    BY <1>12, StepNothing
<1> QED BY <1>1, <1>2, <1>3, <1>4, <1>5, <1>6, <1>7, <1>8, <1>9, <1>10, <1>11, <1>12 DEF TruthNext

\* Where the rings start together, the frames that are shown are open in the
\* program, in this order, whatever else is lost (push_sample, apply_flow).
THEOREM StackStaysTrue == TruthSpec /\ Together => []StackIsTrue
<1>1. TruthInit /\ Together => TInv
    BY TruthBegins
<1>2. TInv /\ [TruthNext]_truthVars => TInv'
    BY TruthStep
<1>3. TInv => StackIsTrue
  <2> SUFFICES ASSUME TInv PROVE StackIsTrue
    OBVIOUS
  <2>1. TypeOK /\ real \in Seq(RealFrames) /\ Matched(stack[Thread], real)
    BY DEF TInv, IInv, Program, IsStack
  <2> QED BY <2>1, CallTruthAssumption, MatchedIsTrue
<1> QED BY <1>1, <1>2, <1>3, PTL DEF TruthSpec

\* There, a call that is reported as complete (close_span) is the one that
\* returned just now, with its function, start and end.
THEOREM CompleteCallsTrue == TruthSpec /\ Together => []CompleteIsTrue
<1>1. TruthInit /\ Together => TInv
    BY TruthBegins
<1>2. TInv /\ [TruthNext]_truthVars => TInv'
    BY TruthStep
<1>3. TInv => CompleteIsTrue
    BY DEF TInv
<1> QED BY <1>1, <1>2, <1>3, PTL DEF TruthSpec
=============================================================================
