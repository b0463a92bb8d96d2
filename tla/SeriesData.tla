----------------------------- MODULE SeriesData -----------------------------
(***************************************************************************)
(* The history of one time series (src/store.rs, `struct Series`): a run   *)
(* of sealed chunks and, behind them, a raw head that the collector        *)
(* appends to.                                                             *)
(*                                                                         *)
(* A sample is represented by its timestamp alone.  A series holds at most *)
(* one sample per timestamp, so the timestamp determines the value, and    *)
(* nothing in the store branches on a value.  A chunk is represented by    *)
(* its header and the samples its bytes decode to; that decoding returns   *)
(* what was encoded is the business of the codec, not of this module.      *)
(***************************************************************************)
EXTENDS Integers, Sequences

CONSTANTS
  Retention,             \* Store::retention, the history window, in seconds
  MaxChunkSamples,       \* MAX_CHUNK_SAMPLES: 120
  MaxChunkSpanFraction   \* MAX_CHUNK_SPAN_FRACTION: 8

\* Config::from_env clamps RETENTION_HOURS to at least one hour, so the
\* window is longer than the fraction; the other two are positive literals.
ASSUME SeriesAssumption ==
  /\ MaxChunkSamples \in Nat \ {0}
  /\ MaxChunkSpanFraction \in Nat \ {0}
  /\ Retention \in Nat
  /\ Retention >= MaxChunkSpanFraction

-----------------------------------------------------------------------------
Chunk  == [first_t : Int, last_t : Int, samples : Seq(Int)]
Series == [chunks : Seq(Chunk), head : Seq(Int)]

EmptySeries == [chunks |-> <<>>, head |-> <<>>]

\* The span at which a head is sealed whatever its length (integer division).
SpanCap == Retention \div MaxChunkSpanFraction

LastOf(s) == s[Len(s)]

\* The chunk that chunk::encode makes of a non-empty head.
Encode(samples) ==
  [first_t |-> samples[1], last_t |-> LastOf(samples), samples |-> samples]

\* slice::partition_point for the predicate `t < limit`: how many leading
\* elements satisfy it.  It is meaningful only when those that do come
\* first, which is what an ascending sequence guarantees.
IsBoundary(times, limit, n) ==
  /\ \A i \in 1..n : times[i] < limit
  /\ \A i \in (n + 1)..Len(times) : times[i] >= limit

Boundary(times, limit) ==
  CHOOSE n \in 0..Len(times) : IsBoundary(times, limit, n)

\* Vec::drain(..n)
DropFirst(s, n) == SubSeq(s, n + 1, Len(s))

\* Vec::retain, and filter on an iterator: the elements that are in `wanted`.
Retain(s, wanted) ==
  LET kept[i \in 0..Len(s)] ==
        IF i = 0 THEN <<>>
        ELSE IF s[i] \in wanted THEN Append(kept[i - 1], s[i]) ELSE kept[i - 1]
  IN  kept[Len(s)]

LastTimes(chunks)  == [i \in DOMAIN chunks |-> chunks[i].last_t]

-----------------------------------------------------------------------------
\* Operations.

IsEmpty(ser) == ser.chunks = <<>> /\ ser.head = <<>>

\* Series::last_t of a non-empty series: the head's newest sample or, when
\* the head is empty, the newest chunk's.
LastT(ser) ==
  IF ser.head # <<>> THEN LastOf(ser.head) ELSE LastOf(ser.chunks).last_t

\* A variant with a bug, for mutation runs: the test on the span forgotten.
ShouldSealOnLength(head) == Len(head) >= MaxChunkSamples

ShouldSeal(head) ==
  \/ Len(head) >= MaxChunkSamples
  \/ Len(head) > 1 /\ LastOf(head) - head[1] >= SpanCap

\* Variants with a bug, for mutation runs: the head is not cleared when it is
\* sealed; a chunk goes with its oldest sample; the head, or the chunks, are
\* not pruned; a sample with the newest timestamp is taken again.
PushKeepingHead(ser, t) ==
  LET head == Append(ser.head, t)
  IN  [chunks |-> IF ShouldSeal(head) THEN Append(ser.chunks, Encode(head))
                                      ELSE ser.chunks,
       head   |-> head]

PruneByFirstTime(ser, cutoff) ==
  LET firsts == [i \in DOMAIN ser.chunks |-> ser.chunks[i].first_t]
  IN  [chunks |-> DropFirst(ser.chunks, Boundary(firsts, cutoff)),
       head   |-> DropFirst(ser.head, Boundary(ser.head, cutoff))]

PruneChunksOnly(ser, cutoff) ==
  [chunks |-> DropFirst(ser.chunks, Boundary(LastTimes(ser.chunks), cutoff)),
   head   |-> ser.head]

PruneHeadOnly(ser, cutoff) ==
  [chunks |-> ser.chunks,
   head   |-> DropFirst(ser.head, Boundary(ser.head, cutoff))]

AcceptsDuplicate(ser, t) == IsEmpty(ser) \/ LastT(ser) <= t

\* The guard of Store::append on an existing series: a duplicate or
\* out-of-order sample is dropped.
Accepts(ser, t) == IsEmpty(ser) \/ LastT(ser) < t

\* Series::push with its seal.
Push(ser, t) ==
  LET head == Append(ser.head, t)
  IN  IF ShouldSeal(head)
      THEN [chunks |-> Append(ser.chunks, Encode(head)), head |-> <<>>]
      ELSE [chunks |-> ser.chunks, head |-> head]

\* Series::prune: chunks go whole, once their newest sample has aged out;
\* the head is trimmed exactly.
PruneSeries(ser, cutoff) ==
  [chunks |-> DropFirst(ser.chunks, Boundary(LastTimes(ser.chunks), cutoff)),
   head   |-> DropFirst(ser.head, Boundary(ser.head, cutoff))]

-----------------------------------------------------------------------------
\* What a reader of the series may rely on.

Elements(s) == {s[i] : i \in DOMAIN s}

\* Every timestamp the series holds a sample for.
Times(ser) ==
  Elements(ser.head) \cup
    UNION {Elements(ser.chunks[c].samples) : c \in DOMAIN ser.chunks}

Ascending(times) ==
  \A i, j \in 1..Len(times) : i < j => times[i] < times[j]

WellFormedChunk(chunk) ==
  /\ chunk.samples # <<>>
  /\ Ascending(chunk.samples)
  /\ chunk.first_t = chunk.samples[1]
  /\ chunk.last_t = LastOf(chunk.samples)

\* "Sealed and immutable, ascending by time, all older than `head`."
WellFormedSeries(ser) ==
  /\ \A c \in 1..Len(ser.chunks) : WellFormedChunk(ser.chunks[c])
  /\ \A c, d \in 1..Len(ser.chunks) :
       c < d => ser.chunks[c].last_t < ser.chunks[d].first_t
  /\ Ascending(ser.head)
  /\ \A c \in 1..Len(ser.chunks), i \in 1..Len(ser.head) :
       ser.chunks[c].last_t < ser.head[i]

\* No head waits to be sealed.
HeadBelowCaps(head) ==
  /\ Len(head) < MaxChunkSamples
  /\ \A i, j \in 1..Len(head) : head[j] - head[i] < SpanCap

\* What sealing caps is the span of a chunk without its newest sample.
SpanCappedButForLast(chunk) ==
  \A i, j \in 1..(Len(chunk.samples) - 1) :
    chunk.samples[j] - chunk.samples[i] < SpanCap

=============================================================================
