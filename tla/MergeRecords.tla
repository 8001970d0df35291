---------------------------- MODULE MergeRecords ----------------------------
(***************************************************************************)
(* The parallel decode of a snapshot: how ring chunks are dealt to decode  *)
(* workers (src/src/decode/native.rs, spawn_native_streams) or CPUs to     *)
(* perf script children (src/src/service.rs, cpu_groups and                *)
(* run_script_stream_parallel), the bounded channels they send through,    *)
(* and the k-way merge by time that feeds the reconstructor                *)
(* (merge_records).  A chunk, a batch and a record are one thing here: the *)
(* order inside a chunk is its decoder's order and no step reorders it.    *)
(***************************************************************************)
EXTENDS Naturals, Sequences, FiniteSets, SequencesExt

CONSTANTS Rings,        \* number of rings: threads (direct) or CPUs (perf)
          MaxChunks,    \* bound of the model: chunks per ring
          MaxTime,      \* bound of the model: timestamps 1..MaxTime
          Parallelism,  \* Limits.decode_parallelism
          ChannelCap,   \* sync_channel(64)
          Decoders,     \* what decodes: "libipt" workers, "perf" script children
          UntimedRings, \* rings with records that have no time
          Overflows,    \* a chunk may report a PT overflow
          Faults        \* the consumer (Reconstructor::push) or a decoder may fail

ASSUME MergeAssumption ==
    /\ Rings \in Nat \ {0} /\ MaxChunks \in Nat \ {0} /\ MaxTime \in Nat \ {0}
    /\ Parallelism \in Nat \ {0} /\ ChannelCap \in Nat \ {0}
    /\ Decoders \subseteq {"libipt", "perf"} /\ UntimedRings \subseteq 0..Rings
    /\ Overflows \in BOOLEAN /\ Faults \in BOOLEAN

VARIABLES
    decoder,   \* of this decode
    rings,     \* the input: per ring, its chunks in the order they were recorded
    unsent,    \* per stream, what its producer has not sent yet
    chan,      \* per stream, its channel
    heads,     \* per stream, the record taken from it
    want,      \* streams the merge is taking a record from, in order
    merging,   \* merge_records runs; FALSE: it returned and dropped the receivers
    failed,    \* sink or a producer returned an error
    sunk       \* records handed to sink

vars  == <<decoder, rings, unsent, chan, heads, want, merging, failed, sunk>>
input == <<decoder, rings>>

-----------------------------------------------------------------------------
(***************************************************************************)
(* The input and the streams made of it.                                   *)
(***************************************************************************)
\* Tagged: ring 0 is the sideband; time 0 is a record without a time.
Kinds   == {"sample", "task", "lost"}
Records == [ring : 0..Rings, n : 1..MaxChunks, time : 0..MaxTime, kind : Kinds]
\* merge_records: these are taken from stream 0 only.
IsSideband(r) == r.kind \in {"task", "lost"}

\* A ring is a sequence of chunks; each starts at a PSB and times do not fall.
\* Some records, a failed synchronisation for one, have no time.  libipt
\* reports an overflow of the PT packet stream as a Lost record.
Chunks == [time : 0..MaxTime, lost : BOOLEAN]
Histories ==
    {h \in BoundedSeq(Chunks, MaxChunks) :
        \A i, j \in 1..Len(h) : i < j /\ h[j].time # 0 => h[i].time <= h[j].time}
LossKnown(r, h) == r # 0 /\ ~(decoder = "libipt" /\ Overflows) => \A i \in 1..Len(h) : ~h[i].lost
TimeKnown(r, h) == r \notin UntimedRings => \A i \in 1..Len(h) : h[i].time # 0
Tagged(r, h) ==
    [i \in 1..Len(h) |-> [ring |-> r, n |-> i, time |-> h[i].time,
                          kind |-> IF h[i].lost THEN "lost"
                                   ELSE IF r = 0 THEN "task" ELSE "sample"]]

\* cpu_groups, and groups[i % workers] of spawn_native_streams: item k of a
\* list goes to worker k mod w; at most one worker per item.
Workers(items) == IF Len(items) = 0 THEN 1
                  ELSE IF Parallelism < Len(items) THEN Parallelism ELSE Len(items)
Dealt(items, w) == [k \in 1..Len(items) |-> IF ((k - 1) % Workers(items)) + 1 = w
                                            THEN items[k] ELSE <<>>]

\* All chunks of the rings, ring after ring.
Items(in) == FlattenSeq([r \in 1..Rings |-> [i \in 1..Len(in[r]) |-> <<in[r][i]>>]])

\* spawn_native_streams: stream 1 is the sideband; a worker decodes its chunks
\* one after the other.
NativeStreams(in) ==
    <<in[0]>> \o [w \in 1..Workers(Items(in)) |-> FlattenSeq(Dealt(Items(in), w))]

\* Chunks of equal times in the order of their rings.
Before(a, b) == \/ a.time < b.time
                \/ a.time = b.time /\ a.ring < b.ring
                \/ a.time = b.time /\ a.ring = b.ring /\ a.n < b.n
Sorted(chunks) ==
    [i \in 1..Cardinality(chunks) |->
        CHOOSE r \in chunks : Cardinality({x \in chunks : Before(x, r)}) = i - 1]

\* run_script_stream_parallel: a child prints its CPUs and the whole sideband,
\* sorted by time.
ScriptStreams(in) ==
    LET cpus == [r \in 1..Rings |-> in[r]]
    IN  [w \in 1..Workers(cpus) |->
            Sorted(ToSet(FlattenSeq(Dealt(cpus, w))) \union ToSet(in[0]))]

Streams(in) == IF decoder = "libipt" THEN NativeStreams(in) ELSE ScriptStreams(in)

NoHead == [ring |-> 0, n |-> 0, time |-> 0, kind |-> "none"]

TypeOK ==
    /\ \A s \in DOMAIN unsent : unsent[s] \in Seq(Records) /\ chan[s] \in Seq(Records)
    /\ \A s \in DOMAIN chan : Len(chan[s]) <= ChannelCap
    /\ \A s \in DOMAIN heads : heads[s] \in Records \union {NoHead}
    /\ want \in Seq(DOMAIN unsent)
    /\ merging \in BOOLEAN /\ failed \in BOOLEAN
    /\ sunk \in Seq(Records)

\* The merge first takes one record of every stream.
Init ==
    /\ decoder \in Decoders
    /\ \E h \in [0..Rings -> Histories] :
          /\ \A r \in 0..Rings : LossKnown(r, h[r]) /\ TimeKnown(r, h[r])
          /\ rings = [r \in 0..Rings |-> Tagged(r, h[r])]
    /\ unsent = Streams(rings)
    /\ chan  = [s \in DOMAIN unsent |-> <<>>]
    /\ heads = [s \in DOMAIN unsent |-> NoHead]
    /\ want  = [s \in 1..Len(unsent) |-> s]
    /\ merging = TRUE /\ failed = FALSE
    /\ sunk = <<>>

-----------------------------------------------------------------------------
(***************************************************************************)
(* The producers.                                                          *)
(***************************************************************************)
Send(s) ==
    /\ merging /\ unsent[s] # <<>> /\ Len(chan[s]) < ChannelCap
    /\ chan'   = [chan EXCEPT ![s] = Append(@, Head(unsent[s]))]
    /\ unsent' = [unsent EXCEPT ![s] = Tail(@)]
    /\ UNCHANGED <<input, heads, want, merging, failed, sunk>>

\* Mutant: a producer ignores that the consumer is gone and tries for ever.
MutSendFails(s) == ~merging /\ unsent[s] # <<>> /\ UNCHANGED vars

\* The receiver is dropped: send fails and the producer ends.
SendFails(s) ==
    /\ ~merging /\ unsent[s] # <<>>
    /\ unsent' = [unsent EXCEPT ![s] = <<>>]
    /\ UNCHANGED <<input, chan, heads, want, merging, failed, sunk>>

\* decode_blob or stream_records fails: the stream ends early, the merge goes
\* on with the others and the decode fails when the producers are joined.
ProducerFails(s) ==
    /\ Faults
    /\ merging /\ unsent[s] # <<>>
    /\ unsent' = [unsent EXCEPT ![s] = <<>>]
    /\ failed' = TRUE
    /\ UNCHANGED <<input, chan, heads, want, merging, sunk>>

-----------------------------------------------------------------------------
(***************************************************************************)
(* merge_records.                                                          *)
(***************************************************************************)
\* BatchedRx::next: a record, or none when the sender is gone.
TakesHead ==
    /\ merging /\ want # <<>>
    /\ LET s == Head(want)
       IN  /\ chan[s] # <<>> \/ unsent[s] = <<>>
           /\ IF chan[s] # <<>>
              THEN /\ heads' = [heads EXCEPT ![s] = Head(chan[s])]
                   /\ chan'  = [chan EXCEPT ![s] = Tail(@)]
              ELSE heads' = [heads EXCEPT ![s] = NoHead] /\ UNCHANGED chan
    /\ want' = Tail(want)
    /\ UNCHANGED <<input, unsent, merging, failed, sunk>>

Ready == {s \in DOMAIN heads : heads[s] # NoHead}

\* Mutant: streams are taken by index, whatever the times.
MutIsNext(s) == \A o \in Ready : s <= o
\* Mutant: equal times resolve to the last stream.
MutIsNextTies(s) ==
    \A o \in Ready : heads[s].time < heads[o].time \/ (heads[s].time = heads[o].time /\ s >= o)

\* The heap's least (time or 0, stream).
IsNext(s) ==
    \A o \in Ready : heads[s].time < heads[o].time \/ (heads[s].time = heads[o].time /\ s <= o)

\* Mutant: sideband is taken from every stream.
MutKept(s) == TRUE

Kept(s) == s = 1 \/ ~IsSideband(heads[s])

\* Pop the least head, hand it to sink and ask its stream for the next one.
Pops(s) ==
    /\ merging /\ want = <<>> /\ s \in Ready /\ IsNext(s)
    /\ sunk' = IF Kept(s) THEN Append(sunk, heads[s]) ELSE sunk
    /\ heads' = [heads EXCEPT ![s] = NoHead]
    /\ want' = <<s>>
    /\ UNCHANGED <<input, unsent, chan, merging, failed>>

\* sink(rec)? fails: merge_records returns and drops every receiver.
SinkRefuses(s) ==
    /\ Faults
    /\ merging /\ want = <<>> /\ s \in Ready /\ IsNext(s) /\ Kept(s)
    /\ merging' = FALSE /\ failed' = TRUE
    /\ UNCHANGED <<input, unsent, chan, heads, want, sunk>>

\* The heap is empty.
MergeEnds ==
    /\ merging /\ want = <<>> /\ Ready = {}
    /\ merging' = FALSE
    /\ UNCHANGED <<input, unsent, chan, heads, want, failed, sunk>>

Done == ~merging /\ \A s \in DOMAIN unsent : unsent[s] = <<>>

\* The workers are joined: the decode has ended.
Joined == Done /\ UNCHANGED vars

-----------------------------------------------------------------------------
Producer(s) == Send(s) \/ SendFails(s) \/ ProducerFails(s)
Merger == TakesHead \/ MergeEnds \/ \E s \in DOMAIN heads : Pops(s) \/ SinkRefuses(s)

Next == Merger \/ Joined \/ \E s \in DOMAIN unsent : Producer(s)

Spec == Init /\ [][Next]_vars

\* Producers and the merge are threads that run.
Fairness == WF_vars(Merger) /\ WF_vars(\E s \in DOMAIN unsent : Producer(s))
FairSpec == Spec /\ Fairness

-----------------------------------------------------------------------------
(***************************************************************************)
(* Properties.                                                             *)
(***************************************************************************)
\* All records of the input that the reconstructor should see: samples and
\* errors once, sideband once however many streams carry it.
Wanted == UNION {ToSet(rings[r]) : r \in 0..Rings}

\* Nothing is handed over twice, and a merge that ended without an error
\* handed over every record of the rings and of the sideband.
EachOnce ==
    /\ \A i, j \in 1..Len(sunk) : sunk[i] = sunk[j] => i = j
    /\ ~merging /\ ~failed => ToSet(sunk) = Wanted

Timed(i, j) == i < j /\ sunk[i].time # 0 /\ sunk[j].time # 0

\* Records of one ring reach the reconstructor in the order of the ring, also
\* those with equal times: true of perf script children, and of workers that
\* decode one chunk each (records without a time aside).
RingOrder ==
    \A i, j \in 1..Len(sunk) :
        Timed(i, j) /\ sunk[i].ring = sunk[j].ring => sunk[i].n < sunk[j].n

\* Sorted streams merge into a sorted stream, whatever the producers' pace.
TimeOrder ==
    \A i, j \in 1..Len(sunk) : Timed(i, j) => sunk[i].time <= sunk[j].time

\* What the reconstructor is handed is in order of time and of each ring,
\* whatever the pace and the failures of the producers (merge_records).
MergedInOrder == TimeOrder /\ RingOrder

\* The decode ends: a full channel, an empty one and a failed consumer leave
\* nobody waiting.
DecodeEnds == <>Done

(***************************************************************************)
(* What the documentation says and the decode does not do.                 *)
(***************************************************************************)
\* README: gaps are labelled with their cause "rather than hidden"; a PT
\* overflow a worker reports is not thrown away.
LossIsReported ==
    ~merging /\ ~failed => {r \in Wanted : r.kind = "lost"} \subseteq ToSet(sunk)

=============================================================================
