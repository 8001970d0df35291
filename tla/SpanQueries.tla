---------------------------- MODULE SpanQueries ----------------------------
(***************************************************************************)
(* The analyses of src/src/analysis over the spans of a calls analysis:    *)
(* selections, timelines, hot paths, the state at an instant, comparisons  *)
(* and pages.  Pure operators.                                             *)
(*                                                                         *)
(* A span is a record [id, thread, fn, parent, start, end, comp]; a time   *)
(* that is not known, a missing parent and an absent bound are None.  A    *)
(* path is the sequence of its names, a mark "..." standing for cut ones.  *)
(***************************************************************************)
EXTENDS Integers, Sequences, FiniteSets, SequencesExt

CONSTANTS
    None,
    PathDepth,    \* MAX_DEPTH of path_of, and of at_instant's walks
    StemOf        \* linkage_stem: the name without its linkage hash

Or(x, default) == IF x = None THEN default ELSE x

Whole == [thread |-> None, start |-> None, end |-> None]

OfThread(sel, x) == sel.thread \in {None, x.thread}

\* Selection::intersects: a missing end reaches to u64::MAX
Intersects(sel, sp) ==
    /\ sel.end = None \/ Or(sp.start, 0) < sel.end
    /\ sp.end = None \/ sp.end > Or(sel.start, 0)

SpanOfId(spans, id) == {sp \in ToSet(spans) : sp.id = id}

Parent(spans, sp) == SpanOfId(spans, sp.parent)

Children(spans, sp) == {ch \in ToSet(spans) : ch.parent = sp.id}
-----------------------------------------------------------------------------
\* sort_by: each into its place among those before it in the list, after its
\* equals; before is the set of the pairs that are in order
Sorted(list, before) ==
    LET Put(l, x) ==
            InsertAt(l, 1 + Cardinality({i \in DOMAIN l : <<x, l[i]>> \notin before}), x)
        first[n \in 0..Len(list)] ==
            IF n = 0 THEN << >> ELSE Put(first[n - 1], list[n])
    IN first[Len(list)]

\* timeline_rows_with: by start, unknown ones first, then by id
TimelineRows(spans, sel) ==
    LET rows == {sp \in ToSet(spans) : OfThread(sel, sp) /\ Intersects(sel, sp)}
    IN Sorted(SetToSeq(rows), {p \in rows \X rows :
           \/ Or(p[1].start, -1) < Or(p[2].start, -1)
           \/ p[1].start = p[2].start /\ p[1].id < p[2].id})
-----------------------------------------------------------------------------
Larger(x, y) == IF x > y THEN x ELSE y
Smaller(x, y) == IF x < y THEN x ELSE y

\* self_elapsed: the interval less the union of the children's, in one sweep
\* over them by start
SelfElapsed(start, end, kids, certain) ==
    IF ~certain \/ end < start THEN None
    ELSE LET cut == {k \in {<<Larger(k[1], start), Smaller(k[2], end)>> : k \in kids} :
                        k[2] > k[1]}
             Before(x, y) == x[1] < y[1] \/ (x[1] = y[1] /\ x[2] < y[2])
             Step(acc, k) ==
                LET s == Larger(k[1], acc.cur)
                IN IF k[2] > s THEN [sum |-> acc.sum + k[2] - s, cur |-> k[2]] ELSE acc
             sweep == FoldLeft(Step, [sum |-> 0, cur |-> start], SetToSortSeq(cut, Before))
         IN IF sweep.sum > end - start THEN None ELSE end - start - sweep.sum

\* mutant: a child without known bounds is passed over
MutSelfOf(spans, sp) ==
    LET kids == {k \in Children(spans, sp) : k.comp = "complete"}
    IN SelfElapsed(sp.start, sp.end, {<<k.start, k.end>> : k \in kids}, TRUE)

\* what hotpaths_with hands to it: nothing is known about the span's own time
\* when a child is incomplete
SelfOf(spans, sp) ==
    LET kids == Children(spans, sp)
    IN SelfElapsed(sp.start, sp.end, {<<k.start, k.end>> : k \in kids},
                   \A k \in kids : k.comp = "complete" /\ None \notin {k.start, k.end})

\* one more frame of a path
Longer(path, name) ==
    IF Len(path) - 1 >= PathDepth THEN Append(path, "...") ELSE Append(path, name)

\* path_of, upwards to the last frame whose parent is not cached, PathDepth frames
\* at most, innermost first
Climb(spans, cache, sp) ==
    LET chain[n \in 1..PathDepth] ==
            IF n = 1 THEN <<sp>>
            ELSE LET c == chain[n - 1]
                 IN c \o SetToSeq({p \in Parent(spans, Last(c)) : p.id \notin DOMAIN cache})
    IN chain[PathDepth]

\* what the outermost of these frames is entered under
Prefix(spans, cache, chain) ==
    LET ups == {p.id : p \in Parent(spans, Last(chain))}
    IN CASE ups = {} -> << >>
         [] ups # {} /\ ups \subseteq DOMAIN cache -> cache[CHOOSE i \in ups : TRUE]
         [] OTHER -> <<"...">>

\* mutant: every frame passed is entered with the path asked for
MutEntered(cache, chain, prefix) ==
    LET path == FoldLeft(LAMBDA acc, sp : Longer(acc, sp.fn), prefix, Reverse(chain))
    IN [i \in DOMAIN cache \union {sp.id : sp \in ToSet(chain)} |->
           IF i \in DOMAIN cache THEN cache[i] ELSE path]

\* path_of, downwards: every frame passed enters the cache
Entered(cache, chain, prefix) ==
    LET Step(acc, sp) ==
            LET path == Longer(acc.path, sp.fn)
            IN [path |-> path, cache |-> [i \in DOMAIN acc.cache \union {sp.id} |->
                   IF i = sp.id THEN path ELSE acc.cache[i]]]
    IN FoldLeft(Step, [path |-> prefix, cache |-> cache], Reverse(chain)).cache

\* the cache after path_of has been asked for every span, in the list's order
Paths(spans) ==
    LET Step(cache, sp) ==
            IF sp.id \in DOMAIN cache THEN cache
            ELSE LET chain == Climb(spans, cache, sp)
                 IN Entered(cache, chain, Prefix(spans, cache, chain))
    IN FoldLeft(Step, << >>, spans)

\* truncate_depth: the innermost frames
Truncated(path, depth) ==
    IF depth = None \/ Len(path) <= depth THEN path
    ELSE <<"...">> \o SubSeq(path, Len(path) - depth + 1, Len(path))

\* hotpaths_with: fully inside the selection, as far as it has bounds
Contained(sel, sp) ==
    /\ sel.start # None => sp.start # None /\ sp.start >= sel.start
    /\ sel.end # None => sp.end # None /\ sp.end <= sel.end

Eligible(sel, sp) == sp.comp = "complete" /\ Contained(sel, sp)

SumOver(f) == FoldFunction(+, 0, f)

SumIfAny(f) == IF DOMAIN f = {} THEN None ELSE SumOver(f)

ThreadSpans(spans, sel) == SelectSeq(spans, LAMBDA sp : OfThread(sel, sp))

\* the largest inclusive sum first
LargestFirst(rows) == Sorted(SetToSeq(rows),
    {p \in rows \X rows : Or(p[1].inclusive, -1) > Or(p[2].inclusive, -1)})

\* hotpaths_with, by path or by function
HotpathRows(spans, sel, group, depth) ==
    LET mine == {sp \in ToSet(spans) : OfThread(sel, sp)}
        paths == Paths(ThreadSpans(spans, sel))
        Key(sp) == IF group = "path" THEN Truncated(paths[sp.id], depth) ELSE <<sp.fn>>
        Row(k) ==
            LET of    == {sp \in mine : Key(sp) = k}
                full  == {sp \in of : Eligible(sel, sp)}
                timed == {sp \in full : None \notin {sp.start, sp.end}}
                selfs == {sp \in timed : SelfOf(spans, sp) # None}
                Length(sp) == IF sp.end < sp.start THEN 0 ELSE sp.end - sp.start
            IN [path |-> k, calls |-> Cardinality(full), observed |-> Cardinality(of),
                inclusive |-> SumIfAny([sp \in timed |-> Length(sp)]),
                self |-> SumIfAny([sp \in selfs |-> SelfOf(spans, sp)]),
                excluded |-> Cardinality(of \ full)]
    IN LargestFirst({Row(k) : k \in {Key(sp) : sp \in mine}})

\* inline_rows: instruction counts per chain of inlined functions
InlineRows(attribution, sel, depth) ==
    LET mine == {r \in attribution : OfThread(sel, r)}
    IN SetToSeq({[path |-> k, inclusive |-> None,
                  instructions |-> SumOver([r \in {m \in mine : Truncated(m.chain, depth) = k} |->
                                           r.instructions])] :
                     k \in {Truncated(r.chain, depth) : r \in mine}})
-----------------------------------------------------------------------------
\* The walk up from a span, limit frames at most.
Ancestors(spans, sp, limit) ==
    LET walk[n \in 0..limit] ==
            IF n = 0 THEN <<sp>>
            ELSE LET c == walk[n - 1] IN c \o SetToSeq(Parent(spans, Last(c)))
    IN Tail(walk[limit])

Depth(spans, sp) == Len(Ancestors(spans, sp, PathDepth + 1))

\* at_instant_rows: a span whose end is not known is open from its start on
OpenAt(sp, at) == /\ sp.start # None /\ sp.start <= at
                  /\ sp.end = None \/ sp.end > at

\* mutant: the span opened last
MutInnermost(spans, t, at) ==
    LET open == SelectSeq(spans, LAMBDA sp : sp.thread = t /\ OpenAt(sp, at))
    IN open[1]

\* the deepest open span of a thread, of those the one that started last, of those
\* the first of the list
Innermost(spans, t, at) ==
    LET open == {i \in DOMAIN spans : spans[i].thread = t /\ OpenAt(spans[i], at)}
        D(i) == Depth(spans, spans[i])
        Before(i, j) == \/ D(i) > D(j)
                        \/ D(i) = D(j) /\ spans[i].start > spans[j].start
                        \/ D(i) = D(j) /\ spans[i].start = spans[j].start /\ i < j
    IN spans[CHOOSE i \in open : \A j \in open \ {i} : Before(i, j)]

AtInstant(spans, at) ==
    [t \in {sp.thread : sp \in {x \in ToSet(spans) : OpenAt(x, at)}} |->
        LET sp == Innermost(spans, t, at)
            names == <<sp>> \o Ancestors(spans, sp, PathDepth)
        IN Reverse([i \in DOMAIN names |-> names[i].fn])]
-----------------------------------------------------------------------------
(* compare.rs: rows of two sides, paired.                                  *)

Stem(row) == StemOf[Last(row.path)]

StemCount(rows, stem) == Cardinality({i \in DOMAIN rows : Stem(rows[i]) = stem})

\* matches_id: the path, or what it ends with
MatchesId(row, id) == IsSuffix(id, row.path)

Position(rows, id) ==
    LET hits == {i \in DOMAIN rows : MatchesId(rows[i], id)}
    IN IF hits = {} THEN None ELSE CHOOSE i \in hits : \A j \in hits : i <= j

\* delta_row: a row of the report; a delta is given for comparable pairs
DeltaRow(bs, cs, b, c, allowed, kind) ==
    [b |-> b, c |-> c, kind |-> kind,
     delta |-> IF allowed /\ kind \notin {"ambiguous", "unmatched"}
                  /\ None \notin {bs[b].inclusive, cs[c].inclusive}
               THEN cs[c].inclusive - bs[b].inclusive ELSE None]

Marked(used, i) == IF i = None THEN used ELSE used \union {i}

\* one pair of the caller's
Explicit(acc, bs, cs, pair, allowed) ==
    LET b == Position(bs, pair[1])
        c == Position(cs, pair[2])
    IN IF b = None /\ c = None THEN acc
       ELSE [rows  |-> Append(acc.rows, DeltaRow(bs, cs, b, c, allowed,
                           IF None \in {b, c} THEN "unmatched" ELSE "explicit_pair")),
             usedB |-> Marked(acc.usedB, b), usedC |-> Marked(acc.usedC, c)]

\* the pairs the caller gives
ExplicitPairs(pairs, bs, cs, allowed) ==
    LET after[n \in 0..Len(pairs)] ==
            IF n = 0 THEN [rows |-> << >>, usedB |-> {}, usedC |-> {}]
            ELSE Explicit(after[n - 1], bs, cs, pairs[n], allowed)
    IN after[Len(pairs)]

\* mutant: the first candidate with the stem is taken, paired already or not
MutPartner(bs, cs, used, i) ==
    LET hits == {j \in DOMAIN cs : Stem(cs[j]) = Stem(bs[i])}
    IN IF hits = {} THEN None ELSE CHOOSE j \in hits : \A k \in hits : j <= k

\* the first free candidate with the same stem
Partner(bs, cs, used, i) ==
    LET hits == {j \in DOMAIN cs \ used : Stem(cs[j]) = Stem(bs[i])}
    IN IF hits = {} THEN None ELSE CHOOSE j \in hits : \A k \in hits : j <= k

\* a stem that occurs twice on a side pairs with nothing
Ambiguous(bs, cs, row) == StemCount(bs, Stem(row)) > 1 \/ StemCount(cs, Stem(row)) > 1

\* a row of the baseline
Baseline(acc, bs, cs, i, allowed) ==
    LET j == IF Ambiguous(bs, cs, bs[i]) THEN None ELSE Partner(bs, cs, acc.usedC, i)
        kind == CASE Ambiguous(bs, cs, bs[i])               -> "ambiguous"
                  [] ~Ambiguous(bs, cs, bs[i]) /\ j = None  -> "unmatched"
                  [] OTHER                                  -> "paired"
    IN IF i \in acc.usedB THEN acc
       ELSE [rows  |-> Append(acc.rows, DeltaRow(bs, cs, i, j, allowed, kind)),
             usedB |-> acc.usedB, usedC |-> Marked(acc.usedC, j)]

\* a row of the candidate
Candidate(acc, bs, cs, j) ==
    IF j \in acc.usedC THEN acc
    ELSE [acc EXCEPT !.rows = Append(@, DeltaRow(bs, cs, None, j, FALSE,
              IF StemCount(cs, Stem(cs[j])) > 1 THEN "ambiguous" ELSE "unmatched"))]

\* pair_rows: explicit pairs, then the baseline by stem, then what is left of
\* the candidate
PairRows(pairs, bs, cs, allowed) ==
    LET based[i \in 0..Len(bs)] ==
            IF i = 0 THEN ExplicitPairs(pairs, bs, cs, allowed)
            ELSE Baseline(based[i - 1], bs, cs, i, allowed)
        left[j \in 0..Len(cs)] ==
            IF j = 0 THEN based[Len(bs)] ELSE Candidate(left[j - 1], bs, cs, j)
    IN left[Len(cs)].rows
-----------------------------------------------------------------------------
(* page.rs: a page of rows, made to fit the result budget.                 *)

\* paginate
Paginate(rows, offset, limit) ==
    LET page == SubSeq(rows, offset + 1, Smaller(offset + limit, Len(rows)))
    IN [page |-> page, next |-> IF offset + Len(page) < Len(rows)
                                THEN offset + Len(page) ELSE None]

\* mutant: a row left alone is not made smaller
MutFitted(p, offset, budget, weight, least) ==
    LET size(n) == SumOver([i \in 1..n |-> weight[i]])
        fits == {n \in 1..Len(p.page) : size(n) <= budget}
    IN CASE p.page = << >> \/ Len(p.page) \in fits -> p
         [] p.page # << >> /\ Len(p.page) \notin fits /\ fits # {} ->
                LET n == CHOOSE n \in fits : \A m \in fits : m <= n
                IN [page |-> SubSeq(p.page, 1, n), next |-> offset + n]
         [] OTHER -> [page |-> << >>, next |-> offset]

\* fit_json: the last rows go, then the one row left shrinks to its least
\* weight, and one that is still too heavy is replaced by a note (weight and
\* least are given for each row of the page)
Fitted(p, offset, budget, weight, least) ==
    LET size(n) == SumOver([i \in 1..n |-> weight[i]])
        fits == {n \in 1..Len(p.page) : size(n) <= budget}
        Cut(n) == [page |-> SubSeq(p.page, 1, n), next |-> offset + n]
    IN CASE p.page = << >> \/ Len(p.page) \in fits -> p
         [] p.page # << >> /\ Len(p.page) \notin fits /\ fits # {} ->
                Cut(CHOOSE n \in fits : \A m \in fits : m <= n)
         [] p.page # << >> /\ fits = {} /\ least[1] <= budget ->
                IF Len(p.page) = 1 THEN p ELSE Cut(1)
         [] OTHER -> [page |-> << >>, next |-> offset]
=============================================================================
