------------------------------ MODULE Queries ------------------------------
(***************************************************************************)
(* A snapshot's analyses and the questions asked about them: query_snapshot*)
(* and compare_job of src/src/service.rs over the spans or instructions    *)
(* the reconstructors give, with further decodes published between the     *)
(* pages a client asks for.                                                *)
(*                                                                         *)
(* With detail "instructions" the recording is that of Instructions; with  *)
(* detail "calls" it is a program of threads that call, return and jump to *)
(* functions, cut by decoder errors, of which the reconstructor's spans are*)
(* known.  The program's own history is kept beside them.                  *)
(***************************************************************************)
EXTENDS Instructions, SequencesExt

CONSTANTS
    PathDepth, StemOf,
    DetailLevels,   \* what is decoded: "calls", "instructions"
    Threads, Names, \* of the calls program
    MaxSpans, MaxClock, MaxStack,
    MaxServed,      \* bound: spans of the snapshots that are paged and compared
    Pairs,          \* function_pairs a comparison may be asked for
    Limits,         \* row limits a client may ask for
    Weight, Least,  \* size of a row of a function, and what it shrinks to
    Budget          \* the result budget

INSTANCE SpanQueries

ASSUME QueriesAssumption ==
    /\ {MaxSpans, MaxClock, MaxStack, MaxServed} \subseteq Nat /\ PathDepth \in Nat \ {0}
    /\ IsFiniteSet(Threads) /\ None \notin Nat
    /\ Limits \subseteq Nat \ {0}   \* row_limit refuses the others
    /\ Pairs \subseteq Seq(Seq(Names) \X Seq(Names))
    /\ \A n \in Names : Least[n] <= Weight[n] /\ Least[n] <= Budget

IrVersion == 2

VARIABLES
    detail, stage,       \* stage: "tracing", then "ready"
    clock, frames,       \* the calls program: time, and each thread's open frames
    nextSpan, spans,     \* the spans emitted, in the order of emission
    ownTicks,            \* history: ticks spent in each span itself
    chains,              \* history: the names from the outermost frame to each span
    stacks,              \* history: each thread's names at the end of each tick
    cutAt,               \* history: when each thread was last cut, or None
    analyses,            \* the analyses under derived/, oldest first
    client, report

callVars == <<clock, frames, nextSpan, spans, ownTicks, chains, stacks, cutAt>>
serveVars == <<analyses, client, report>>
vars == <<insnVars, detail, stage, callVars, serveVars>>

NoClient == [st |-> "idle", kind |-> "timeline", pin |-> 0, limit |-> 0, cursor |-> 0,
             first |-> 0, seen |-> << >>]

NoReport == [st |-> "none", group |-> "path", pairs |-> << >>, rows |-> << >>,
             sides |-> << >>]

Init ==
    /\ InsnInit
    /\ detail \in DetailLevels /\ stage = "tracing"
    /\ detail = "calls" => /\ sel = CHOOSE s \in Selections : TRUE
                           /\ \A p \in Pids : mapped[p] = None
                           /\ tracker = WithRoot(Root[1])
    /\ clock = 0 /\ frames = [t \in Threads |-> << >>]
    /\ nextSpan = 1 /\ spans = << >> /\ ownTicks = << >> /\ chains = << >>
    /\ stacks = << >> /\ cutAt = [t \in Threads |-> None]
    /\ analyses = << >> /\ client = NoClient /\ report = NoReport
-----------------------------------------------------------------------------
(* The calls program and its spans.                                        *)

Calling == detail = "calls" /\ stage = "tracing" /\ UNCHANGED <<insnVars, detail, serveVars>>

SpanOf(t, f, end, comp) ==
    [id |-> f.id, thread |-> t, fn |-> f.fn, parent |-> f.parent, start |-> f.start,
     end |-> end, comp |-> comp]

NamesOf(fs) == [i \in DOMAIN fs |-> fs[i].fn]

\* push_open
Opened(t, fs, fn, comp) ==
    Append(fs, [id |-> nextSpan, fn |-> fn, start |-> clock, comp |-> comp,
                parent |-> IF fs = << >> THEN None ELSE Last(fs).id])

Opens(t, fs) ==
    /\ nextSpan <= MaxSpans /\ Len(fs) <= MaxStack
    /\ frames' = [frames EXCEPT ![t] = fs]
    /\ nextSpan' = nextSpan + 1
    /\ ownTicks' = Append(ownTicks, 0)
    /\ chains' = Append(chains, NamesOf(fs))

Calls(t, fn) ==
    /\ Calling /\ Opens(t, Opened(t, frames[t], fn, "open_end"))
    /\ UNCHANGED <<stage, clock, spans, stacks, cutAt>>

\* a return closes the innermost frame
Returns(t) ==
    /\ Calling /\ frames[t] # << >>
    /\ LET f == Last(frames[t])
       IN spans' = Append(spans, SpanOf(t, f, clock, IF f.comp = "open_start"
                                                     THEN "open_both" ELSE "complete"))
    /\ frames' = [frames EXCEPT ![t] = Front(@)]
    /\ UNCHANGED <<stage, clock, nextSpan, ownTicks, chains, stacks, cutAt>>

\* a jump to a function replaces the innermost frame
TailCalls(t, fn) ==
    /\ Calling /\ frames[t] # << >>
    /\ Opens(t, Opened(t, Front(frames[t]), fn, "open_start"))
    /\ spans' = Append(spans, SpanOf(t, Last(frames[t]), clock, "uncertain"))
    /\ UNCHANGED <<stage, clock, stacks, cutAt>>

\* what is open when its history ends: the end is not known
Ended(t, comp) ==
    Reverse([i \in DOMAIN frames[t] |-> SpanOf(t, frames[t][i], None, comp)])

\* interrupt_thread: a decoder error, a ring hole, a jump back in time
Cuts(t) ==
    /\ Calling /\ frames[t] # << >>
    /\ spans' = spans \o Ended(t, "interrupted")
    /\ frames' = [frames EXCEPT ![t] = << >>]
    /\ cutAt' = [cutAt EXCEPT ![t] = clock]
    /\ UNCHANGED <<stage, clock, nextSpan, ownTicks, chains, stacks>>

Now == [t \in Threads |-> NamesOf(frames[t])]

Ticks ==
    /\ Calling /\ clock < MaxClock
    /\ clock' = clock + 1
    /\ stacks' = Append(stacks, Now)
    /\ ownTicks' = [i \in DOMAIN ownTicks |->
          IF \E t \in Threads : frames[t] # << >> /\ Last(frames[t]).id = i
          THEN ownTicks[i] + 1 ELSE ownTicks[i]]
    /\ UNCHANGED <<stage, frames, nextSpan, spans, chains, cutAt>>
-----------------------------------------------------------------------------
(* Publication.  Decodes of calls differ in their spans when one is fast.  *)

\* An older version of the program wrote no inline attribution.
Analysis(d, full, ir, list) ==
    [detail |-> d, full |-> full, ir |-> ir, spans |-> list, inline |-> ir = IrVersion]

\* finish: the threads in the order they were met; spans kept in memory are
\* sorted by id, spilled ones stay as they were emitted
Publishes ==
    /\ detail = "calls" /\ stage = "tracing" /\ stage' = "ready"
    /\ LET all == spans \o FlattenSeq([i \in 1..Cardinality(Threads) |->
                                Ended(SetToSeq(Threads)[i], "open_end")])
           byId == Sorted(all, {p \in ToSet(all) \X ToSet(all) : p[1].id < p[2].id})
       IN \E list \in {all, byId}, ir \in {IrVersion - 1, IrVersion} :
            /\ Len(list) > MaxServed => ir = IrVersion   \* only paging looks at it
            /\ spans' = list
            /\ analyses' = <<Analysis(detail, TRUE, ir, list)>>
    /\ stacks' = Append(stacks, Now)
    /\ frames' = [t \in Threads |-> << >>]
    /\ UNCHANGED <<insnVars, detail, clock, nextSpan, ownTicks, chains, cutAt, client, report>>

\* mutant: every decode request decodes
MutFindAnalysisByKey(full) == FALSE

\* decode_cache_key, find_analysis_by_key: a decode with the same parameters
\* and IR version is not done twice
FindAnalysisByKey(full) ==
    \E i \in DOMAIN analyses :
        analyses[i].detail = "calls" /\ analyses[i].full = full /\ analyses[i].ir = IrVersion

Served == stage = "ready" /\ Len(spans) <= MaxServed

\* another decode of the calls is published, by this version of the program; a
\* fast one misses a span
Redecodes(full) ==
    /\ Served /\ ~FindAnalysisByKey(full) /\ Len(analyses) < 3 /\ report.st = "none"
    /\ spans # << >>
    /\ analyses' = Append(analyses, Analysis("calls", full, IrVersion,
                                            IF full THEN spans ELSE Tail(spans)))
    /\ UNCHANGED <<insnVars, detail, stage, callVars, client, report>>

\* mutant: the newest analysis of the newest IR version
MutFindCallsAnalysis ==
    LET calls == {i \in DOMAIN analyses : analyses[i].detail = "calls"}
        Worse(i, j) == analyses[i].ir < analyses[j].ir
                       \/ (analyses[i].ir = analyses[j].ir /\ i < j)
    IN IF calls = {} THEN 0 ELSE CHOOSE i \in calls : \A j \in calls \ {i} : Worse(j, i)

\* find_calls_analysis: the newest IR version, a full decode before a fast
\* one, then the newest file
FindCallsAnalysis ==
    LET calls == {i \in DOMAIN analyses : analyses[i].detail = "calls"}
        Rank(i) == <<analyses[i].ir, IF analyses[i].full THEN 1 ELSE 0, i>>
        Worse(i, j) == \E k \in 1..3 : /\ Rank(i)[k] < Rank(j)[k]
                                       /\ \A l \in 1..(k - 1) : Rank(i)[l] = Rank(j)[l]
    IN IF calls = {} THEN 0 ELSE CHOOSE i \in calls : \A j \in calls \ {i} : Worse(j, i)
-----------------------------------------------------------------------------
(* query_snapshot.                                                         *)

\* the analysis a query is about: the one it names, else the default
Target(pin) == IF pin = 0 THEN FindCallsAnalysis ELSE pin

RowsOf(kind, a) ==
    IF kind = "timeline" THEN TimelineRows(analyses[a].spans, Whole)
    ELSE HotpathRows(analyses[a].spans, Whole, "function", None)

NameOf(kind, row) == IF kind = "timeline" THEN row.fn ELSE Last(row.path)

\* the page of a client made to fit the budget
PageOf(c, whole) ==
    Fitted(whole, c.cursor, Budget,
           [i \in DOMAIN whole.page |-> Weight[NameOf(c.kind, whole.page[i])]],
           [i \in DOMAIN whole.page |-> Least[NameOf(c.kind, whole.page[i])]])

\* A client asks for a page, the first or the one of the cursor it was given.
Asks(c) ==
    /\ Served
    /\ \E a \in {Target(c.pin)} \ {0} :
       \E whole \in {Paginate(RowsOf(c.kind, a), c.cursor, c.limit)} :
       \E p \in {PageOf(c, whole)} :
          client' = [c EXCEPT
            !.st = IF p.next = None THEN "done" ELSE "paging",
            !.cursor = IF p.next = None THEN @ ELSE p.next,
            !.first = IF @ = 0 THEN a ELSE @,
            !.seen = @ \o [i \in DOMAIN p.page |-> <<a, p.page[i]>>]]
    /\ UNCHANGED <<insnVars, detail, stage, callVars, analyses, report>>

FirstPage ==
    /\ client.st = "idle" /\ report.st = "none"
    /\ \E kind \in {"timeline", "hotpaths"}, pin \in {0} \union DOMAIN analyses,
          limit \in Limits :
        /\ pin # 0 => analyses[pin].detail = "calls"
        /\ Asks([NoClient EXCEPT !.kind = kind, !.pin = pin, !.limit = limit])

NextPage == client.st = "paging" /\ Asks(client)
-----------------------------------------------------------------------------
(* compare_job: one thread of the snapshot against another.                *)

OnThread(t) == [Whole EXCEPT !.thread = t]

\* inline.jsonl is written into an analysis's directory
InlineFile(dir) ==
    IF dir = "snapshot" \/ ~analyses[dir].inline THEN {}
    ELSE {[thread |-> sp.thread, chain |-> <<sp.fn>>, instructions |-> 1] :
             sp \in ToSet(analyses[dir].spans)}

\* the rows of a side; inline_side is given the snapshot's directory
SideRows(group, t) ==
    IF group = "inline" THEN InlineRows(InlineFile("snapshot"), OnThread(t), None)
    ELSE HotpathRows(analyses[FindCallsAnalysis].spans, OnThread(t), group, None)

Compares(group, b, c, pairs) ==
    /\ Served /\ report.st = "none" /\ client.st = "idle" /\ Len(analyses) = 1
    /\ LET bs == SideRows(group, b)
           cs == SideRows(group, c)
       IN report' = [st |-> IF group = "inline" /\ InlineFile("snapshot") = {}
                            THEN "detail_not_ready" ELSE "ok",
                     group |-> group, pairs |-> pairs,
                     rows |-> IF group = "inline" /\ InlineFile("snapshot") = {} THEN << >>
                              ELSE PairRows(pairs, bs, cs, TRUE),
                     sides |-> <<bs, cs>>]
    /\ UNCHANGED <<insnVars, detail, stage, callVars, analyses, client>>

Next ==
    \/ detail = "instructions" /\ stage = "tracing" /\ InsnNext
          /\ UNCHANGED <<detail, stage, callVars, serveVars>>
    \/ \E t \in Threads : \/ Returns(t) \/ Cuts(t)
                          \/ \E fn \in Names : Calls(t, fn) \/ TailCalls(t, fn)
    \/ Ticks
    \/ Publishes
    \/ \E full \in BOOLEAN : Redecodes(full)
    \/ FirstPage \/ NextPage
    \/ \E group \in {"path", "function", "inline"}, b, c \in Threads, pairs \in Pairs :
          b # c /\ Compares(group, b, c, pairs)

Spec == Init /\ [][Next]_vars
-----------------------------------------------------------------------------
\* The spans of a decode no longer change: the questions about them alone are
\* asked once, when they are published.
Ready == stage = "ready" /\ Len(analyses) = 1 /\ client = NoClient /\ report = NoReport

\* The self time of a hot path row is the time the program spent in those
\* spans and in none of their callees, over the complete spans inside the
\* selection all of whose callees are complete (hotpaths_with, self_elapsed).
SelfIsOwn ==
    Ready => \A t \in Threads \union {None}, lo \in {None, 1}, hi \in {None, 1} :
        LET s == [thread |-> t, start |-> lo, end |-> IF lo = 1 /\ hi = 1 THEN 2 ELSE hi]
            rows == HotpathRows(spans, s, "function", None)
        IN \A i \in DOMAIN rows :
             LET certain == {sp \in ToSet(spans) :
                     /\ <<sp.fn>> = rows[i].path /\ OfThread(s, sp) /\ Eligible(s, sp)
                     /\ \A ch \in Children(spans, sp) : ch.comp = "complete"}
             IN rows[i].self = SumIfAny([sp \in certain |-> ownTicks[sp.id]])

\* The path of a span is its call chain, whatever the order of the spans and
\* whichever span entered the cache first, unless a span on it has a
\* descendant beyond the depth limit (path_of).
PathIsChain ==
    Ready => LET paths == Paths(spans)
                 Deep(sp) == \E d \in DOMAIN chains :
                     /\ Len(chains[d]) > PathDepth
                     /\ \E x \in ToSet(Ancestors(spans, CHOOSE y \in SpanOfId(spans, d) : TRUE,
                                                 MaxStack)) : x.id = sp.id
             IN \A sp \in ToSet(spans) :
                    Deep(sp) \/ Len(chains[sp.id]) > PathDepth \/ paths[sp.id] = chains[sp.id]

\* The rows of a hot path query tell the program's call chains and own times.
HotpathsAreTrue == SelfIsOwn /\ PathIsChain

\* What at_instant says a thread was executing is what it executed at the end
\* of that tick, for threads that were not cut before (at_instant_rows).
InstantIsStack ==
    Ready => \A now \in 0..clock, t \in Threads :
        cutAt[t] = None =>
            LET answer == AtInstant(spans, now)
            IN IF t \in DOMAIN answer THEN answer[t] = stacks[now + 1][t]
               ELSE stacks[now + 1][t] = << >>

\* A comparison with at most one pair of the caller's reports every row of both
\* sides, each once, and gives a delta only for an explicit pair or for two rows
\* alone with their stem (pair_rows; two explicit pairs may name the same row).
PairedOnce ==
    report.st = "ok" /\ Len(report.pairs) <= 1 =>
        LET rows == report.rows
            bs == report.sides[1]
            cs == report.sides[2]
        IN /\ \A i \in DOMAIN bs : Cardinality({r \in DOMAIN rows : rows[r].b = i}) = 1
           /\ \A j \in DOMAIN cs : Cardinality({r \in DOMAIN rows : rows[r].c = j}) = 1
           /\ \A r \in DOMAIN rows : rows[r].delta # None =>
                 \/ rows[r].kind = "explicit_pair"
                 \/ /\ Stem(bs[rows[r].b]) = Stem(cs[rows[r].c])
                    /\ StemCount(bs, Stem(bs[rows[r].b])) = 1
                    /\ StemCount(cs, Stem(bs[rows[r].b])) = 1

\* A client that follows the cursors to the end has seen every row once and in
\* order, of one analysis, also when others are published between its pages;
\* if it named the analysis, or the default was a full decode of this version
\* (find_calls_analysis, paginate, fit_json).
PagedOnce ==
    client.st = "done" =>
        LET a == client.first
        IN \/ client.pin = 0 /\ ~(analyses[a].full /\ analyses[a].ir = IrVersion)
           \/ client.seen = LET rows == RowsOf(client.kind, a)
                            IN [i \in DOMAIN rows |-> <<a, rows[i]>>]

\* Every page brings the client nearer to the end, so that following the
\* cursors ends (fit_json).
PagingAdvances ==
    [][client'.st = "paging" => client'.cursor > client.cursor]_client

(***************************************************************************)
(* What the docs say and the code does not do.                             *)
(***************************************************************************)
\* at_instant: "every thread's open call chain at one point in time"
InstantIsOpen ==
    Ready => \A now \in 0..clock, t \in Threads :
        LET answer == AtInstant(spans, now)
        IN t \in DOMAIN answer => answer[t] = stacks[now + 1][t]

\* trace_compare: "Compare two snapshot regions by hotpath (group:path),
\* function, or inline chain."
InlineCompares ==
    report.st # "none" /\ report.group = "inline" /\ analyses[FindCallsAnalysis].inline
        => report.st = "ok"
=============================================================================
