-------------------------- MODULE SampleStoreProofs --------------------------
(***************************************************************************)
(* The safety properties of SampleStore, for every window, every sealing   *)
(* threshold, every set of series, and every clock that is at most MaxGap  *)
(* ahead of the latest pruning when a pass starts; and that SampleStore     *)
(* implements SeriesLog: chunks, heads and the index are only a way to     *)
(* hold, per series, a log of samples of which none inside the window is   *)
(* lost.  The lemmas about the operations on one series come first: what a *)
(* binary search finds, and that pushing onto and pruning a well-formed    *)
(* series leave it well formed.                                            *)
(***************************************************************************)
EXTENDS SampleStore, ProofBasics, SequenceTheorems

-----------------------------------------------------------------------------
\* The cap on the span of a chunk is at least a second, because the window
\* is at least as long as the fraction it is divided by.
LEMMA SpanCapPositive == SpanCap \in Nat \ {0}
  BY SeriesAssumption DEF SpanCap

NonDecreasing(times) ==
  \A i, j \in 1..Len(times) : i < j => times[i] <= times[j]

\* A binary search in a sequence that does not decrease finds the place up
\* to which the elements are below the limit.
LEMMA BoundaryFound ==
  ASSUME NEW times \in Seq(Int), NonDecreasing(times), NEW limit \in Int
  PROVE  /\ Boundary(times, limit) \in 0..Len(times)
         /\ IsBoundary(times, limit, Boundary(times, limit))
<1> DEFINE Late == {i \in 1..Len(times) : times[i] >= limit}
<1>0. /\ Len(times) \in Nat
      /\ \A i \in 1..Len(times) : times[i] \in Int
  BY LenProperties, ElementOfSeq
<1> SUFFICES \E n \in 0..Len(times) : IsBoundary(times, limit, n)
  BY DEF Boundary
<1>1. CASE Late = {}
  <2>1. IsBoundary(times, limit, Len(times))
    BY <1>0, <1>1 DEF IsBoundary
  <2> QED
    BY <1>0, <2>1
<1>2. CASE Late # {}
  <2>1. PICK m \in Late : \A n \in Late : m <= n
    <3>1. Late \subseteq Nat
      BY <1>0
    <3> HIDE DEF Late
    <3> QED
      BY <3>1, <1>2, LeastNatural
  <2>2. \A i \in 1..(m - 1) : times[i] < limit
    BY <1>0, <2>1
  <2>3. \A i \in m..Len(times) : times[i] >= limit
    BY <1>0, <2>1 DEF NonDecreasing
  <2>4. m - 1 \in 0..Len(times) /\ (m - 1) + 1 = m
    BY <1>0, <2>1
  <2>5. IsBoundary(times, limit, m - 1)
    BY <2>2, <2>3, <2>4 DEF IsBoundary
  <2> QED
    BY <2>4, <2>5
<1> QED
  BY <1>1, <1>2

\* Draining the first n elements leaves the others in their order.
LEMMA DropFirstProperties ==
  ASSUME NEW S, NEW s \in Seq(S), NEW n \in 0..Len(s)
  PROVE  /\ DropFirst(s, n) \in Seq(S)
         /\ Len(DropFirst(s, n)) = Len(s) - n
         /\ \A i \in 1..(Len(s) - n) : DropFirst(s, n)[i] = s[n + i]
<1>1. Len(s) \in Nat /\ \A i \in 1..Len(s) : s[i] \in S
  BY LenProperties, ElementOfSeq
<1>2. \A i \in (n + 1)..Len(s) : s[i] \in S
  BY <1>1
<1>3. /\ SubSeq(s, n + 1, Len(s)) \in Seq(S)
      /\ Len(SubSeq(s, n + 1, Len(s))) =
           IF n + 1 <= Len(s) THEN Len(s) - (n + 1) + 1 ELSE 0
      /\ \A i \in 1..(Len(s) - (n + 1) + 1) :
           SubSeq(s, n + 1, Len(s))[i] = s[(n + 1) + i - 1]
  BY <1>1, <1>2, SubSeqProperties
<1> QED
  BY <1>1, <1>3 DEF DropFirst

\* The series an invariant of the store is to preserve: typed, in order,
\* below the caps of sealing, no chunk spanning more than `span`.
Sound(ser, span) ==
  /\ ser \in Series
  /\ WellFormedSeries(ser)
  /\ HeadBelowCaps(ser.head)
  /\ \A c \in 1..Len(ser.chunks) :
       /\ SpanCappedButForLast(ser.chunks[c])
       /\ ser.chunks[c].last_t - ser.chunks[c].first_t <= span

\* What the type of a series says of its parts.
LEMMA SeriesParts ==
  ASSUME NEW ser \in Series
  PROVE  /\ ser.chunks \in Seq(Chunk) /\ ser.head \in Seq(Int)
         /\ Len(ser.chunks) \in Nat /\ Len(ser.head) \in Nat
         /\ DOMAIN ser.chunks = 1..Len(ser.chunks)
         /\ DOMAIN ser.head = 1..Len(ser.head)
         /\ \A i \in 1..Len(ser.head) : ser.head[i] \in Int
         /\ \A c \in 1..Len(ser.chunks) :
              /\ ser.chunks[c] \in Chunk
              /\ ser.chunks[c].first_t \in Int /\ ser.chunks[c].last_t \in Int
              /\ ser.chunks[c].samples \in Seq(Int)
              /\ Len(ser.chunks[c].samples) \in Nat
              /\ DOMAIN ser.chunks[c].samples = 1..Len(ser.chunks[c].samples)
              /\ \A i \in 1..Len(ser.chunks[c].samples) :
                   ser.chunks[c].samples[i] \in Int
<1>1. ser.chunks \in Seq(Chunk) /\ ser.head \in Seq(Int)
  BY DEF Series
<1>2. \A c \in 1..Len(ser.chunks) : ser.chunks[c] \in Chunk
  BY <1>1, ElementOfSeq
<1>3. \A c \in 1..Len(ser.chunks) :
        /\ ser.chunks[c].first_t \in Int /\ ser.chunks[c].last_t \in Int
        /\ ser.chunks[c].samples \in Seq(Int)
  BY <1>2 DEF Chunk
<1> QED
  BY <1>1, <1>2, <1>3, LenProperties, ElementOfSeq

\* The first and the last element of an ascending sequence bound the others.
LEMMA AscendingEnds ==
  ASSUME NEW s \in Seq(Int), Ascending(s), Len(s) >= 1
  PROVE  \A i \in 1..Len(s) : s[1] <= s[i] /\ s[i] <= s[Len(s)]
<1>1. Len(s) \in Nat /\ \A i \in 1..Len(s) : s[i] \in Int
  BY LenProperties, ElementOfSeq
<1> QED
  BY <1>1 DEF Ascending

\* The header of a well-formed chunk is in order.
LEMMA ChunkHeader ==
  ASSUME NEW ser \in Series, WellFormedSeries(ser),
         NEW c \in 1..Len(ser.chunks)
  PROVE  /\ Len(ser.chunks[c].samples) >= 1
         /\ ser.chunks[c].first_t <= ser.chunks[c].last_t
         /\ \A i \in 1..Len(ser.chunks[c].samples) :
              /\ ser.chunks[c].first_t <= ser.chunks[c].samples[i]
              /\ ser.chunks[c].samples[i] <= ser.chunks[c].last_t
<1> DEFINE s == ser.chunks[c].samples
<1>1. /\ s \in Seq(Int) /\ Len(s) \in Nat
      /\ \A i \in 1..Len(s) : s[i] \in Int
      /\ ser.chunks[c].first_t \in Int /\ ser.chunks[c].last_t \in Int
  BY SeriesParts
<1>2. WellFormedChunk(ser.chunks[c])
  BY DEF WellFormedSeries
<1>3. /\ s # <<>> /\ Ascending(s)
      /\ ser.chunks[c].first_t = s[1] /\ ser.chunks[c].last_t = s[Len(s)]
  BY <1>2 DEF WellFormedChunk, LastOf
<1>4. Len(s) >= 1
  BY <1>1, <1>3, EmptySeq
<1>5. \A i \in 1..Len(s) : s[1] <= s[i] /\ s[i] <= s[Len(s)]
  <2> HIDE DEF s
  <2> QED
    BY <1>1, <1>3, <1>4, AscendingEnds
<1> QED
  BY <1>1, <1>3, <1>4, <1>5

\* The newest sample of a non-empty well-formed series is its maximum.
LEMMA LastIsNewest ==
  ASSUME NEW ser \in Series, WellFormedSeries(ser), ~IsEmpty(ser)
  PROVE  /\ LastT(ser) \in Int
         /\ \A i \in 1..Len(ser.head) : ser.head[i] <= LastT(ser)
         /\ \A c \in 1..Len(ser.chunks) : ser.chunks[c].last_t <= LastT(ser)
<1>0. /\ Len(ser.chunks) \in Nat /\ Len(ser.head) \in Nat
      /\ \A i \in 1..Len(ser.head) : ser.head[i] \in Int
      /\ \A c \in 1..Len(ser.chunks) :
           ser.chunks[c].first_t \in Int /\ ser.chunks[c].last_t \in Int
      /\ ser.chunks \in Seq(Chunk) /\ ser.head \in Seq(Int)
  BY SeriesParts
<1>1. CASE ser.head # <<>>
  <2>1. Len(ser.head) >= 1
    BY <1>0, <1>1, EmptySeq
  <2>2. LastT(ser) = ser.head[Len(ser.head)]
    BY <1>1 DEF LastT, LastOf
  <2>3. \A i \in 1..Len(ser.head) : ser.head[i] <= ser.head[Len(ser.head)]
    <3>1. Ascending(ser.head)
      BY DEF WellFormedSeries
    <3> QED
      BY <1>0, <2>1, <3>1, AscendingEnds
  <2>4. \A c \in 1..Len(ser.chunks) :
          ser.chunks[c].last_t < ser.head[Len(ser.head)]
    <3>1. Len(ser.head) \in 1..Len(ser.head)
      BY <1>0, <2>1
    <3> QED
      BY <3>1 DEF WellFormedSeries
  <2> QED
    BY <1>0, <2>1, <2>2, <2>3, <2>4
<1>2. CASE ser.head = <<>>
  <2>1. Len(ser.chunks) >= 1 /\ Len(ser.head) = 0
    BY <1>0, <1>2, EmptySeq DEF IsEmpty
  <2>2. LastT(ser) = ser.chunks[Len(ser.chunks)].last_t
    BY <1>2 DEF LastT, LastOf
  <2>3. \A c \in 1..Len(ser.chunks) :
          c # Len(ser.chunks) =>
            ser.chunks[c].last_t < ser.chunks[Len(ser.chunks)].first_t
    <3>1. Len(ser.chunks) \in 1..Len(ser.chunks)
      BY <1>0, <2>1
    <3>2. \A c \in 1..Len(ser.chunks) :
            c # Len(ser.chunks) => c < Len(ser.chunks)
      BY <1>0
    <3> QED
      BY <3>1, <3>2 DEF WellFormedSeries
  <2>4. ser.chunks[Len(ser.chunks)].first_t
          <= ser.chunks[Len(ser.chunks)].last_t
    <3>1. Len(ser.chunks) \in 1..Len(ser.chunks)
      BY <1>0, <2>1
    <3> QED
      BY <3>1, ChunkHeader
  <2> QED
    BY <1>0, <2>1, <2>2, <2>3, <2>4
<1> QED
  BY <1>1, <1>2

-----------------------------------------------------------------------------
\* What the head becomes when a newer sample is appended.
LEMMA AppendToHead ==
  ASSUME NEW ser \in Series, WellFormedSeries(ser), NEW t \in Int,
         Accepts(ser, t)
  PROVE  LET h == Append(ser.head, t)
         IN  /\ h \in Seq(Int) /\ h # <<>> /\ Len(h) = Len(ser.head) + 1
             /\ \A i \in 1..Len(ser.head) : h[i] = ser.head[i]
             /\ h[Len(h)] = t
             /\ Ascending(h)
             /\ \A c \in 1..Len(ser.chunks), i \in 1..Len(h) :
                  ser.chunks[c].last_t < h[i]
<1> DEFINE h == Append(ser.head, t)
<1>0. /\ ser.head \in Seq(Int) /\ Len(ser.head) \in Nat
      /\ Len(ser.chunks) \in Nat
      /\ \A i \in 1..Len(ser.head) : ser.head[i] \in Int
      /\ \A c \in 1..Len(ser.chunks) : ser.chunks[c].last_t \in Int
  BY SeriesParts
<1>1. /\ h \in Seq(Int) /\ h # <<>> /\ Len(h) = Len(ser.head) + 1
      /\ \A i \in 1..Len(ser.head) : h[i] = ser.head[i]
      /\ h[Len(ser.head) + 1] = t
  BY <1>0, AppendProperties
<1>2. /\ \A i \in 1..Len(ser.head) : ser.head[i] < t
      /\ \A c \in 1..Len(ser.chunks) : ser.chunks[c].last_t < t
  <2>1. CASE IsEmpty(ser)
    <3>1. Len(ser.head) = 0 /\ Len(ser.chunks) = 0
      BY <2>1, EmptySeq DEF IsEmpty
    <3> QED
      BY <3>1
  <2>2. CASE ~IsEmpty(ser)
    <3>1. LastT(ser) < t
      BY <2>2 DEF Accepts
    <3>2. /\ LastT(ser) \in Int
          /\ \A i \in 1..Len(ser.head) : ser.head[i] <= LastT(ser)
          /\ \A c \in 1..Len(ser.chunks) : ser.chunks[c].last_t <= LastT(ser)
      BY <2>2, LastIsNewest
    <3> QED
      BY <1>0, <3>1, <3>2
  <2> QED
    BY <2>1, <2>2
<1>3. Ascending(ser.head)
      /\ \A c \in 1..Len(ser.chunks), i \in 1..Len(ser.head) :
           ser.chunks[c].last_t < ser.head[i]
  BY DEF WellFormedSeries
<1>4. \A i \in 1..Len(h) : i \in 1..Len(ser.head) \/ i = Len(ser.head) + 1
  BY <1>0, <1>1
<1>5. Ascending(h)
  <2> SUFFICES ASSUME NEW i \in 1..Len(h), NEW j \in 1..Len(h), i < j
               PROVE  h[i] < h[j]
    BY DEF Ascending
  <2>1. i \in 1..Len(ser.head)
    BY <1>0, <1>1
  <2>2. CASE j \in 1..Len(ser.head)
    BY <2>1, <2>2, <1>1, <1>3 DEF Ascending
  <2>3. CASE j = Len(ser.head) + 1
    BY <2>1, <2>3, <1>1, <1>2
  <2> QED
    BY <1>4, <2>2, <2>3
<1>6. \A c \in 1..Len(ser.chunks), i \in 1..Len(h) :
        ser.chunks[c].last_t < h[i]
  <2> HIDE DEF h
  <2> QED
    BY <1>1, <1>2, <1>3, <1>4
<1> QED
  BY <1>1, <1>5, <1>6

\* Pushing a newer sample onto a well-formed series leaves it well formed.
LEMMA PushWellFormed ==
  ASSUME NEW ser \in Series, WellFormedSeries(ser), NEW t \in Int,
         Accepts(ser, t)
  PROVE  /\ Push(ser, t) \in Series
         /\ WellFormedSeries(Push(ser, t))
         /\ ~IsEmpty(Push(ser, t))
<1> DEFINE h == Append(ser.head, t)
           r == Push(ser, t)
<1>1. /\ ser.head \in Seq(Int) /\ Len(ser.head) \in Nat
      /\ ser.chunks \in Seq(Chunk) /\ Len(ser.chunks) \in Nat
  BY SeriesParts
<1>2. /\ h \in Seq(Int) /\ h # <<>> /\ Len(h) = Len(ser.head) + 1
      /\ h[Len(h)] = t
      /\ Ascending(h)
      /\ \A c \in 1..Len(ser.chunks), i \in 1..Len(h) :
           ser.chunks[c].last_t < h[i]
  BY AppendToHead
<1>3. 1 \in 1..Len(h) /\ h[1] \in Int
  BY <1>1, <1>2, ElementOfSeq
<1>4. CASE ~ShouldSeal(h)
  <2>1. r = [chunks |-> ser.chunks, head |-> h]
    BY <1>4 DEF Push
  <2>2. r \in Series /\ r.chunks = ser.chunks /\ r.head = h
    BY <1>1, <1>2, <2>1 DEF Series
  <2> HIDE DEF r, h
  <2>3. WellFormedSeries(r)
    BY <1>2, <2>2 DEF WellFormedSeries
  <2>4. ~IsEmpty(r)
    BY <1>2, <2>2 DEF IsEmpty
  <2> QED
    BY <2>2, <2>3, <2>4 DEF r
<1>5. CASE ShouldSeal(h)
  <2> DEFINE e == Encode(h)
             n == Len(ser.chunks)
  <2>1. r = [chunks |-> Append(ser.chunks, e), head |-> <<>>]
    BY <1>5 DEF Push
  <2>2. /\ e \in Chunk /\ e.samples = h
        /\ e.first_t = h[1] /\ e.last_t = t
    BY <1>1, <1>2, <1>3 DEF Encode, Chunk, LastOf
  <2>3. /\ r.chunks \in Seq(Chunk) /\ r.chunks # <<>>
        /\ Len(r.chunks) = n + 1
        /\ \A c \in 1..n : r.chunks[c] = ser.chunks[c]
        /\ r.chunks[n + 1] = e
        /\ r.head = <<>>
    <3> DEFINE a == Append(ser.chunks, e)
    <3> HIDE DEF e
    <3>1. /\ a \in Seq(Chunk) /\ a # <<>> /\ Len(a) = n + 1
          /\ \A c \in 1..n : a[c] = ser.chunks[c]
          /\ a[n + 1] = e
      <4>1. ser.chunks \in Seq(Chunk) /\ e \in Chunk
        BY <1>1, <2>2
      <4> HIDE DEF n
      <4>2. Len(ser.chunks) = n
        BY DEF n
      <4> QED
        BY <4>1, <4>2, AppendProperties
    <3>2. r.chunks = a /\ r.head = <<>>
      BY <2>1
    <3> QED
      BY <3>1, <3>2
  <2>4. r \in Series /\ Len(r.head) = 0
    <3>1. <<>> \in Seq(Int) /\ Len(<<>>) = 0
      BY EmptySeq
    <3> QED
      BY <2>1, <2>3, <3>1 DEF Series
  <2> HIDE DEF r, e, h
  <2>5. \A c \in 1..Len(r.chunks) : c \in 1..n \/ c = n + 1
    BY <1>1, <2>3
  <2>6. \A c \in 1..Len(r.chunks) : WellFormedChunk(r.chunks[c])
    <3>1. WellFormedChunk(e)
      BY <1>2, <2>2 DEF WellFormedChunk, LastOf
    <3> QED
      BY <2>3, <2>5, <3>1 DEF WellFormedSeries
  <2>7. ASSUME NEW c \in 1..Len(r.chunks), NEW d \in 1..Len(r.chunks), c < d
        PROVE  r.chunks[c].last_t < r.chunks[d].first_t
    <3>1. c \in 1..n
      BY <1>1, <2>3, <2>7
    <3>2. CASE d \in 1..n
      BY <2>3, <2>7, <3>1, <3>2 DEF WellFormedSeries
    <3>3. CASE d = n + 1
      BY <1>2, <1>3, <2>2, <2>3, <3>1, <3>3
    <3> QED
      BY <2>5, <3>2, <3>3
  <2>8. Ascending(r.head) /\ 1..Len(r.head) = {}
    BY <2>4 DEF Ascending
  <2>9. WellFormedSeries(r)
    BY <2>6, <2>7, <2>8 DEF WellFormedSeries
  <2>10. ~IsEmpty(r)
    BY <2>3 DEF IsEmpty
  <2> QED
    BY <2>4, <2>9, <2>10 DEF r
<1> QED
  BY <1>4, <1>5

\* Pushing a newer sample onto a sound series leaves it sound, provided the
\* sample is no further from the head than a chunk may span; the sample is
\* then the newest, and the head holds nothing else that is new.
LEMMA PushSound ==
  ASSUME NEW ser, NEW span \in Nat, Sound(ser, span), NEW t \in Int,
         Accepts(ser, t),
         \A i \in 1..Len(ser.head) : t - ser.head[i] <= span
  PROVE  /\ Sound(Push(ser, t), span)
         /\ ~IsEmpty(Push(ser, t))
         /\ \A i \in 1..Len(Push(ser, t).head) :
              \/ Push(ser, t).head[i] = t
              \/ \E j \in 1..Len(ser.head) : Push(ser, t).head[i] = ser.head[j]
<1> DEFINE h == Append(ser.head, t)
           r == Push(ser, t)
<1>0. /\ ser \in Series /\ WellFormedSeries(ser)
      /\ r \in Series /\ WellFormedSeries(r) /\ ~IsEmpty(r)
  BY PushWellFormed DEF Sound
<1>1. /\ ser.head \in Seq(Int) /\ Len(ser.head) \in Nat
      /\ ser.chunks \in Seq(Chunk) /\ Len(ser.chunks) \in Nat
      /\ \A i \in 1..Len(ser.head) : ser.head[i] \in Int
  BY <1>0, SeriesParts
<1>2. /\ h \in Seq(Int) /\ h # <<>> /\ Len(h) = Len(ser.head) + 1
      /\ \A i \in 1..Len(ser.head) : h[i] = ser.head[i]
      /\ h[Len(h)] = t
      /\ Ascending(h)
      /\ \A c \in 1..Len(ser.chunks), i \in 1..Len(h) :
           ser.chunks[c].last_t < h[i]
  BY <1>0, AppendToHead
<1>3. ASSUME NEW i \in 1..Len(h)
      PROVE  h[i] \in Int /\ t - h[i] <= span
  <2>1. CASE i \in 1..Len(ser.head)
    BY <1>1, <1>2, <2>1
  <2>2. CASE i = Len(h)
    BY <1>2, <2>2
  <2> QED
    BY <1>1, <1>2, <2>1, <2>2
<1>4. HeadBelowCaps(ser.head)
  BY DEF Sound
<1>5. CASE ~ShouldSeal(h)
  <2>1. r = [chunks |-> ser.chunks, head |-> h]
    BY <1>5 DEF Push
  <2>3. r.chunks = ser.chunks /\ r.head = h
    BY <2>1
  <2> HIDE DEF r, h
  <2>5. HeadBelowCaps(r.head)
    <3>1. Len(h) < MaxChunkSamples
      BY <1>1, <1>2, <1>5, SeriesAssumption DEF ShouldSeal
    <3>2. \A i \in 1..Len(h) : h[1] <= h[i] /\ h[i] <= h[Len(h)]
      <4>1. h \in Seq(Int) /\ Ascending(h) /\ Len(h) >= 1
        BY <1>1, <1>2
      <4> HIDE DEF h
      <4> QED
        BY <4>1, AscendingEnds
    <3>3. h[Len(h)] - h[1] < SpanCap
      <4>1. CASE Len(h) > 1
        BY <4>1, <1>1, <1>2, <1>3, <1>5, SpanCapPositive
           DEF ShouldSeal, LastOf
      <4>2. CASE Len(h) = 1
        BY <4>2, <1>2, <1>3, SpanCapPositive
      <4> QED
        BY <4>1, <4>2, <1>1, <1>2
    <3>4. 1 \in 1..Len(h) /\ Len(h) \in 1..Len(h)
      BY <1>1, <1>2
    <3>5. ASSUME NEW i \in 1..Len(h), NEW j \in 1..Len(h)
          PROVE  h[j] - h[i] < SpanCap
      <4>1. h[1] <= h[i] /\ h[j] <= h[Len(h)]
        BY <3>2
      <4>2. /\ h[i] \in Int /\ h[j] \in Int /\ h[1] \in Int
            /\ h[Len(h)] \in Int
        BY <1>3, <3>4
      <4> QED
        BY <3>3, <4>1, <4>2, SpanCapPositive
    <3> QED
      BY <2>3, <3>1, <3>5 DEF HeadBelowCaps
  <2>6. Sound(r, span)
    BY <1>0, <2>3, <2>5 DEF Sound
  <2>8. \A i \in 1..Len(r.head) :
          r.head[i] = t \/ \E j \in 1..Len(ser.head) : r.head[i] = ser.head[j]
    <3>1. \A i \in 1..Len(h) : i \in 1..Len(ser.head) \/ i = Len(h)
      BY <1>1, <1>2
    <3> QED
      BY <1>2, <2>3, <3>1
  <2> QED
    BY <1>0, <2>6, <2>8 DEF r
<1>6. CASE ShouldSeal(h)
  <2> DEFINE e == Encode(h)
             n == Len(ser.chunks)
  <2>1. r = [chunks |-> Append(ser.chunks, e), head |-> <<>>]
    BY <1>6 DEF Push
  <2>2. /\ e \in Chunk /\ e.samples = h
        /\ e.first_t = h[1] /\ e.last_t = t
    BY <1>1, <1>2, <1>3 DEF Encode, Chunk, LastOf
  <2>3. /\ r.chunks \in Seq(Chunk) /\ r.chunks # <<>>
        /\ Len(r.chunks) = n + 1
        /\ \A c \in 1..n : r.chunks[c] = ser.chunks[c]
        /\ r.chunks[n + 1] = e
        /\ r.head = <<>>
    <3> DEFINE a == Append(ser.chunks, e)
    <3> HIDE DEF e
    <3>1. /\ a \in Seq(Chunk) /\ a # <<>> /\ Len(a) = n + 1
          /\ \A c \in 1..n : a[c] = ser.chunks[c]
          /\ a[n + 1] = e
      <4>1. ser.chunks \in Seq(Chunk) /\ e \in Chunk
        BY <1>1, <2>2
      <4> HIDE DEF n
      <4>2. Len(ser.chunks) = n
        BY DEF n
      <4> QED
        BY <4>1, <4>2, AppendProperties
    <3>2. r.chunks = a /\ r.head = <<>>
      BY <2>1
    <3> QED
      BY <3>1, <3>2
  <2>4. Len(r.head) = 0
    BY <2>3, EmptySeq
  <2> HIDE DEF r, e, h
  <2>5. \A c \in 1..Len(r.chunks) : c \in 1..n \/ c = n + 1
    BY <1>1, <2>3
  <2>7. HeadBelowCaps(r.head)
    BY <2>4, SeriesAssumption DEF HeadBelowCaps
  <2>8. SpanCappedButForLast(e) /\ e.last_t - e.first_t <= span
    <3>1. \A i \in 1..(Len(h) - 1) : i \in 1..Len(ser.head)
      BY <1>1, <1>2
    <3>2. SpanCappedButForLast(e)
      BY <1>2, <1>4, <2>2, <3>1 DEF SpanCappedButForLast, HeadBelowCaps
    <3>3. 1 \in 1..Len(h)
      BY <1>1, <1>2
    <3> QED
      BY <1>3, <2>2, <3>2, <3>3
  <2>9. Sound(r, span)
    BY <1>0, <2>3, <2>4, <2>5, <2>7, <2>8 DEF Sound
  <2>10. 1..Len(r.head) = {}
    BY <2>4
  <2> QED
    BY <1>0, <2>9, <2>10 DEF r
<1> QED
  BY <1>5, <1>6

-----------------------------------------------------------------------------
\* Dropping the oldest chunks and the oldest samples of the head leaves a
\* well-formed series well formed.
LEMMA DropWellFormed ==
  ASSUME NEW ser \in Series, WellFormedSeries(ser),
         NEW a \in 0..Len(ser.chunks), NEW b \in 0..Len(ser.head),
         NEW r, r = [chunks |-> DropFirst(ser.chunks, a),
                     head   |-> DropFirst(ser.head, b)]
  PROVE  r \in Series /\ WellFormedSeries(r)
<1>1. /\ ser.head \in Seq(Int) /\ Len(ser.head) \in Nat
      /\ ser.chunks \in Seq(Chunk) /\ Len(ser.chunks) \in Nat
  BY SeriesParts
<1>2. /\ r.chunks \in Seq(Chunk) /\ Len(r.chunks) = Len(ser.chunks) - a
      /\ \A c \in 1..(Len(ser.chunks) - a) : r.chunks[c] = ser.chunks[a + c]
  BY <1>1, DropFirstProperties
<1>3. /\ r.head \in Seq(Int) /\ Len(r.head) = Len(ser.head) - b
      /\ \A i \in 1..(Len(ser.head) - b) : r.head[i] = ser.head[b + i]
  BY <1>1, DropFirstProperties
<1>4. r \in Series
  <2>1. r = [chunks |-> r.chunks, head |-> r.head]
    OBVIOUS
  <2> QED
    BY <1>2, <1>3, <2>1 DEF Series
<1>5. /\ \A c \in 1..Len(r.chunks) :
           a + c \in 1..Len(ser.chunks) /\ r.chunks[c] = ser.chunks[a + c]
      /\ \A c, d \in 1..Len(r.chunks) : c < d => a + c < a + d
  <2>1. ASSUME NEW c \in 1..Len(r.chunks)
        PROVE  a + c \in 1..Len(ser.chunks) /\ r.chunks[c] = ser.chunks[a + c]
    <3>1. c \in 1..(Len(ser.chunks) - a)
      BY <1>1, <1>2
    <3>2. a + c \in 1..Len(ser.chunks)
      BY <1>1, <3>1
    <3> QED
      BY <1>2, <3>1, <3>2
  <2>2. ASSUME NEW c \in 1..Len(r.chunks), NEW d \in 1..Len(r.chunks), c < d
        PROVE  a + c < a + d
    BY <1>1, <2>2
  <2> QED
    BY ONLY <2>1, <2>2
<1>6. /\ \A i \in 1..Len(r.head) :
           b + i \in 1..Len(ser.head) /\ r.head[i] = ser.head[b + i]
      /\ \A i, j \in 1..Len(r.head) : i < j => b + i < b + j
  BY <1>1, <1>3
<1>7. WellFormedSeries(r)
  <2>1. \A c \in 1..Len(r.chunks) : WellFormedChunk(r.chunks[c])
    BY <1>5 DEF WellFormedSeries
  <2>2. ASSUME NEW c \in 1..Len(r.chunks), NEW d \in 1..Len(r.chunks), c < d
        PROVE  r.chunks[c].last_t < r.chunks[d].first_t
    <3>1. ser.chunks[a + c].last_t < ser.chunks[a + d].first_t
      BY <1>5, <2>2 DEF WellFormedSeries
    <3> QED
      BY <1>5, <3>1
  <2>3. ASSUME NEW i \in 1..Len(r.head), NEW j \in 1..Len(r.head), i < j
        PROVE  r.head[i] < r.head[j]
    <3>1. ser.head[b + i] < ser.head[b + j]
      BY <1>6, <2>3 DEF WellFormedSeries, Ascending
    <3> QED
      BY <1>6, <3>1
  <2>4. ASSUME NEW c \in 1..Len(r.chunks), NEW i \in 1..Len(r.head)
        PROVE  r.chunks[c].last_t < r.head[i]
    <3>1. ser.chunks[a + c].last_t < ser.head[b + i]
      BY <1>5, <1>6 DEF WellFormedSeries
    <3> QED
      BY <1>5, <1>6, <3>1
  <2> QED
    BY <2>1, <2>2, <2>3, <2>4 DEF WellFormedSeries, Ascending
<1> QED
  BY <1>4, <1>7

\* Dropping the oldest chunks and the oldest samples of the head leaves a
\* sound series sound.
LEMMA DropSound ==
  ASSUME NEW ser, NEW span \in Nat, Sound(ser, span),
         NEW a \in 0..Len(ser.chunks), NEW b \in 0..Len(ser.head),
         NEW r, r = [chunks |-> DropFirst(ser.chunks, a),
                     head   |-> DropFirst(ser.head, b)]
  PROVE  Sound(r, span)
<1>0. ser \in Series /\ WellFormedSeries(ser) /\ HeadBelowCaps(ser.head)
  BY DEF Sound
<1>1. /\ ser.head \in Seq(Int) /\ Len(ser.head) \in Nat
      /\ ser.chunks \in Seq(Chunk) /\ Len(ser.chunks) \in Nat
  BY <1>0, SeriesParts
<1>2. /\ r.chunks \in Seq(Chunk) /\ Len(r.chunks) = Len(ser.chunks) - a
      /\ \A c \in 1..(Len(ser.chunks) - a) : r.chunks[c] = ser.chunks[a + c]
  BY <1>1, DropFirstProperties
<1>3. /\ r.head \in Seq(Int) /\ Len(r.head) = Len(ser.head) - b
      /\ \A i \in 1..(Len(ser.head) - b) : r.head[i] = ser.head[b + i]
  BY <1>1, DropFirstProperties
<1>5. /\ \A c \in 1..Len(r.chunks) :
           a + c \in 1..Len(ser.chunks) /\ r.chunks[c] = ser.chunks[a + c]
      /\ \A c, d \in 1..Len(r.chunks) : c < d => a + c < a + d
  BY <1>1, <1>2
<1>6. /\ \A i \in 1..Len(r.head) :
           b + i \in 1..Len(ser.head) /\ r.head[i] = ser.head[b + i]
      /\ \A i, j \in 1..Len(r.head) : i < j => b + i < b + j
  BY <1>1, <1>3
<1>7. r \in Series /\ WellFormedSeries(r)
  BY <1>0, DropWellFormed
<1>8. HeadBelowCaps(r.head)
  <2>1. Len(r.head) < MaxChunkSamples
    BY <1>0, <1>1, <1>3, SeriesAssumption DEF HeadBelowCaps
  <2>2. ASSUME NEW i \in 1..Len(r.head), NEW j \in 1..Len(r.head)
        PROVE  r.head[j] - r.head[i] < SpanCap
    <3>1. ser.head[b + j] - ser.head[b + i] < SpanCap
      BY <1>0, <1>6 DEF HeadBelowCaps
    <3> QED
      BY <1>6, <3>1
  <2> QED
    BY <2>1, <2>2 DEF HeadBelowCaps
<1>9. \A c \in 1..Len(r.chunks) :
        /\ SpanCappedButForLast(r.chunks[c])
        /\ r.chunks[c].last_t - r.chunks[c].first_t <= span
  BY <1>5 DEF Sound
<1> QED
  BY <1>7, <1>8, <1>9 DEF Sound

\* Pruning drops a run of the oldest chunks and a run of the oldest samples
\* of the head, and the cutoff is where each run ends.
LEMMA PruneCuts ==
  ASSUME NEW ser \in Series, WellFormedSeries(ser), NEW cutoff \in Int
  PROVE  \E a \in 0..Len(ser.chunks), b \in 0..Len(ser.head) :
           /\ PruneSeries(ser, cutoff) = [chunks |-> DropFirst(ser.chunks, a),
                                          head   |-> DropFirst(ser.head, b)]
           /\ \A c \in 1..a : ser.chunks[c].last_t < cutoff
           /\ \A c \in (a + 1)..Len(ser.chunks) : ser.chunks[c].last_t >= cutoff
           /\ IsBoundary(ser.head, cutoff, b)
<1> DEFINE lasts == LastTimes(ser.chunks)
           a == Boundary(lasts, cutoff)
           b == Boundary(ser.head, cutoff)
<1>1. /\ ser.head \in Seq(Int) /\ Len(ser.head) \in Nat
      /\ ser.chunks \in Seq(Chunk) /\ Len(ser.chunks) \in Nat
      /\ DOMAIN ser.chunks = 1..Len(ser.chunks)
      /\ \A i \in 1..Len(ser.head) : ser.head[i] \in Int
      /\ \A c \in 1..Len(ser.chunks) :
           ser.chunks[c].first_t \in Int /\ ser.chunks[c].last_t \in Int
  BY SeriesParts
<1>2. /\ lasts \in Seq(Int) /\ Len(lasts) = Len(ser.chunks)
      /\ \A c \in 1..Len(ser.chunks) : lasts[c] = ser.chunks[c].last_t
  BY <1>1 DEF LastTimes
<1>3. NonDecreasing(lasts)
  <2> SUFFICES ASSUME NEW c \in 1..Len(ser.chunks),
                      NEW d \in 1..Len(ser.chunks), c < d
               PROVE  ser.chunks[c].last_t <= ser.chunks[d].last_t
    BY <1>2 DEF NonDecreasing
  <2>1. ser.chunks[c].last_t < ser.chunks[d].first_t
    BY DEF WellFormedSeries
  <2>2. ser.chunks[d].first_t <= ser.chunks[d].last_t
    BY ChunkHeader
  <2> QED
    BY <1>1, <2>1, <2>2
<1>4. NonDecreasing(ser.head)
  <2>1. \A i, j \in 1..Len(ser.head) : i < j => ser.head[i] < ser.head[j]
    BY DEF WellFormedSeries, Ascending
  <2>2. \A i \in 1..Len(ser.head) : ser.head[i] \in Int
    BY <1>1
  <2> QED
    BY <2>1, <2>2 DEF NonDecreasing
<1>5. /\ a \in 0..Len(ser.chunks) /\ IsBoundary(lasts, cutoff, a)
      /\ b \in 0..Len(ser.head) /\ IsBoundary(ser.head, cutoff, b)
  <2> HIDE DEF lasts
  <2> QED
    BY <1>1, <1>2, <1>3, <1>4, BoundaryFound
<1>6. PruneSeries(ser, cutoff) = [chunks |-> DropFirst(ser.chunks, a),
                                  head   |-> DropFirst(ser.head, b)]
  BY DEF PruneSeries
<1> HIDE DEF a, b, lasts
<1>7. /\ \A c \in 1..a : ser.chunks[c].last_t < cutoff
      /\ \A c \in (a + 1)..Len(ser.chunks) : ser.chunks[c].last_t >= cutoff
  <2>1. 1..a \subseteq 1..Len(ser.chunks)
        /\ (a + 1)..Len(ser.chunks) \subseteq 1..Len(ser.chunks)
    BY <1>1, <1>5
  <2> QED
    BY <1>2, <1>5, <2>1 DEF IsBoundary
<1> QED
  BY <1>5, <1>6, <1>7

\* Pruning a sound series leaves it sound and leaves in the head nothing, and
\* among the chunks none whose newest sample is, older than the cutoff.
LEMMA PruneSound ==
  ASSUME NEW ser, NEW span \in Nat, Sound(ser, span), NEW cutoff \in Int
  PROVE  LET r == PruneSeries(ser, cutoff)
         IN  /\ Sound(r, span)
             /\ \A c \in 1..Len(r.chunks) : r.chunks[c].last_t >= cutoff
             /\ \A i \in 1..Len(r.head) : r.head[i] >= cutoff
<1> DEFINE r == PruneSeries(ser, cutoff)
<1>0. ser \in Series /\ WellFormedSeries(ser)
  BY DEF Sound
<1>1. /\ ser.head \in Seq(Int) /\ Len(ser.head) \in Nat
      /\ ser.chunks \in Seq(Chunk) /\ Len(ser.chunks) \in Nat
  BY <1>0, SeriesParts
<1>2. PICK a \in 0..Len(ser.chunks), b \in 0..Len(ser.head) :
        /\ r = [chunks |-> DropFirst(ser.chunks, a),
                head   |-> DropFirst(ser.head, b)]
        /\ \A c \in (a + 1)..Len(ser.chunks) : ser.chunks[c].last_t >= cutoff
        /\ IsBoundary(ser.head, cutoff, b)
  BY <1>0, PruneCuts
<1> HIDE DEF r
<1>3. Sound(r, span)
  BY <1>2, DropSound
<1>4. /\ Len(r.chunks) = Len(ser.chunks) - a
      /\ \A c \in 1..(Len(ser.chunks) - a) : r.chunks[c] = ser.chunks[a + c]
      /\ Len(r.head) = Len(ser.head) - b
      /\ \A i \in 1..(Len(ser.head) - b) : r.head[i] = ser.head[b + i]
  BY <1>1, <1>2, DropFirstProperties
<1>5. \A c \in 1..Len(r.chunks) : r.chunks[c].last_t >= cutoff
  <2>1. \A c \in 1..(Len(ser.chunks) - a) : a + c \in (a + 1)..Len(ser.chunks)
    BY <1>1
  <2> SUFFICES ASSUME NEW c \in 1..(Len(ser.chunks) - a)
               PROVE  r.chunks[c].last_t >= cutoff
    BY <1>4
  <2>2. r.chunks[c] = ser.chunks[a + c]
    BY <1>4
  <2>3. ser.chunks[a + c].last_t >= cutoff
    BY <1>2, <2>1
  <2> QED
    BY <2>2, <2>3
<1>6. \A i \in 1..Len(r.head) : r.head[i] >= cutoff
  <2>1. \A i \in 1..(Len(ser.head) - b) : b + i \in (b + 1)..Len(ser.head)
    BY <1>1
  <2> QED
    BY <1>2, <1>4, <2>1 DEF IsBoundary
<1> QED
  BY <1>3, <1>5, <1>6 DEF r

\* Every timestamp of a series is in its head or in one of its chunks.
LEMMA TimesInParts ==
  ASSUME NEW ser \in Series
  PROVE  /\ Times(ser) \subseteq Int
         /\ Elements(ser.head) \subseteq Times(ser)
         /\ \A c \in 1..Len(ser.chunks) :
              Elements(ser.chunks[c].samples) \subseteq Times(ser)
         /\ \A x \in Times(ser) :
              \/ \E i \in 1..Len(ser.head) : x = ser.head[i]
              \/ \E c \in 1..Len(ser.chunks) :
                   \E i \in 1..Len(ser.chunks[c].samples) :
                     x = ser.chunks[c].samples[i]
<1>1. /\ DOMAIN ser.chunks = 1..Len(ser.chunks)
      /\ DOMAIN ser.head = 1..Len(ser.head)
      /\ \A i \in 1..Len(ser.head) : ser.head[i] \in Int
      /\ \A c \in 1..Len(ser.chunks) :
           /\ DOMAIN ser.chunks[c].samples = 1..Len(ser.chunks[c].samples)
           /\ \A i \in 1..Len(ser.chunks[c].samples) :
                ser.chunks[c].samples[i] \in Int
  BY SeriesParts
<1>2. \A x \in Times(ser) :
        \/ \E i \in 1..Len(ser.head) : x = ser.head[i]
        \/ \E c \in 1..Len(ser.chunks) :
             \E i \in 1..Len(ser.chunks[c].samples) : x = ser.chunks[c].samples[i]
  BY <1>1 DEF Times, Elements
<1>3. Times(ser) \subseteq Int
  BY <1>1, <1>2
<1> QED
  BY <1>1, <1>2, <1>3 DEF Times

-----------------------------------------------------------------------------
\* Sequences that are put together of others.

LEMMA ElementsOf ==
  ASSUME NEW X, NEW s \in Seq(X)
  PROVE  /\ Len(s) \in Nat /\ DOMAIN s = 1..Len(s)
         /\ \A i \in 1..Len(s) : s[i] \in X /\ s[i] \in Elements(s)
         /\ \A x \in Elements(s) : x \in X /\ \E i \in 1..Len(s) : x = s[i]
  BY LenProperties, ElementOfSeq DEF Elements

LEMMA AppendAscending ==
  ASSUME NEW s \in Seq(Int), NEW x \in Int
  PROVE  /\ Append(s, x) \in Seq(Int)
         /\ Elements(Append(s, x)) = Elements(s) \cup {x}
         /\ Ascending(s) /\ (\A y \in Elements(s) : y < x) => Ascending(Append(s, x))
<1> DEFINE r == Append(s, x)
<1>1. /\ Len(s) \in Nat
      /\ \A i \in 1..Len(s) : s[i] \in Int /\ s[i] \in Elements(s)
      /\ \A y \in Elements(s) : \E i \in 1..Len(s) : y = s[i]
  BY ElementsOf
<1>2. /\ r \in Seq(Int) /\ Len(r) = Len(s) + 1
      /\ \A i \in 1..Len(s) : r[i] = s[i]
      /\ r[Len(s) + 1] = x
  BY AppendProperties
<1> HIDE DEF r
<1>3. /\ \A i \in 1..Len(r) : r[i] \in Elements(r)
      /\ \A y \in Elements(r) : \E i \in 1..Len(r) : y = r[i]
      /\ \A i \in 1..Len(r) : i \in 1..Len(s) \/ i = Len(s) + 1
      /\ \A i \in 1..Len(s) : i \in 1..Len(r)
      /\ Len(s) + 1 \in 1..Len(r)
  BY <1>1, <1>2, ElementsOf
<1>4. Elements(r) = Elements(s) \cup {x}
  <2>1. ASSUME NEW y \in Elements(r) PROVE y \in Elements(s) \cup {x}
    <3>1. PICK i \in 1..Len(r) : y = r[i]
      BY <1>3
    <3> QED
      BY <1>1, <1>2, <1>3, <3>1
  <2>2. ASSUME NEW y \in Elements(s) PROVE y \in Elements(r)
    <3>1. PICK i \in 1..Len(s) : y = s[i]
      BY <1>1
    <3>2. i \in 1..Len(r) /\ r[i] = y
      BY <1>2, <1>3, <3>1
    <3> QED
      BY <1>3, <3>2
  <2> QED
    BY <1>2, <1>3, <2>1, <2>2
<1>5. ASSUME Ascending(s), \A y \in Elements(s) : y < x PROVE Ascending(r)
  <2> SUFFICES ASSUME NEW i \in 1..Len(r), NEW j \in 1..Len(r), i < j
               PROVE  r[i] < r[j]
    BY DEF Ascending
  <2>0. Len(s) \in Nat /\ Len(r) = Len(s) + 1
    BY <1>1, <1>2
  <2>1. i \in 1..Len(s) /\ r[i] = s[i]
    <3>1. i \in 1..Len(s)
      BY <2>0
    <3> QED
      BY <1>2, <3>1
  <2>2. CASE j \in 1..Len(s)
    BY <1>2, <1>5, <2>1, <2>2 DEF Ascending
  <2>3. CASE j = Len(s) + 1
    BY <1>1, <1>2, <1>5, <2>1, <2>3
  <2> QED
    BY <1>3, <2>2, <2>3
<1> QED
  BY <1>2, <1>4, <1>5 DEF r

LEMMA ConcatAscending ==
  ASSUME NEW s \in Seq(Int), NEW u \in Seq(Int)
  PROVE  /\ s \o u \in Seq(Int)
         /\ Elements(s \o u) = Elements(s) \cup Elements(u)
         /\ /\ Ascending(s) /\ Ascending(u)
            /\ \A x \in Elements(s), y \in Elements(u) : x < y
            => Ascending(s \o u)
<1> DEFINE r == s \o u
<1>1. /\ Len(s) \in Nat /\ Len(u) \in Nat
      /\ \A i \in 1..Len(s) : s[i] \in Int /\ s[i] \in Elements(s)
      /\ \A i \in 1..Len(u) : u[i] \in Int /\ u[i] \in Elements(u)
      /\ \A y \in Elements(s) : \E i \in 1..Len(s) : y = s[i]
      /\ \A y \in Elements(u) : \E i \in 1..Len(u) : y = u[i]
  BY ElementsOf
<1>2. /\ r \in Seq(Int) /\ Len(r) = Len(s) + Len(u)
      /\ \A i \in 1..Len(s) + Len(u) :
           r[i] = IF i <= Len(s) THEN s[i] ELSE u[i - Len(s)]
  BY ConcatProperties
<1> HIDE DEF r
<1>3. /\ \A i \in 1..Len(r) : r[i] \in Elements(r)
      /\ \A y \in Elements(r) : \E i \in 1..Len(r) : y = r[i]
  <2>1. r \in Seq(Int)
    BY <1>2
  <2> QED
    BY <2>1, ElementsOf
<1>4. /\ \A i \in 1..Len(s) : i \in 1..Len(r) /\ r[i] = s[i]
      /\ \A i \in 1..Len(u) : Len(s) + i \in 1..Len(r) /\ r[Len(s) + i] = u[i]
  <2>1. \A i \in 1..Len(s) : i \in 1..Len(s) + Len(u) /\ i <= Len(s)
    BY <1>1
  <2>2. \A i \in 1..Len(u) : /\ Len(s) + i \in 1..Len(s) + Len(u)
                             /\ ~(Len(s) + i <= Len(s)) /\ (Len(s) + i) - Len(s) = i
    BY <1>1
  <2> QED
    BY <1>2, <2>1, <2>2
<1>5. \A i \in 1..Len(r) :
        \/ i \in 1..Len(s) /\ r[i] = s[i]
        \/ i > Len(s) /\ i - Len(s) \in 1..Len(u) /\ r[i] = u[i - Len(s)]
  BY <1>1, <1>2
<1>6. Elements(r) = Elements(s) \cup Elements(u)
  <2>1. ASSUME NEW y \in Elements(r) PROVE y \in Elements(s) \cup Elements(u)
    <3>1. PICK i \in 1..Len(r) : y = r[i]
      BY <1>3
    <3> QED
      BY <1>1, <1>5, <3>1
  <2>2. ASSUME NEW y \in Elements(s) PROVE y \in Elements(r)
    <3>1. PICK i \in 1..Len(s) : y = s[i]
      BY <1>1
    <3> QED
      BY <1>3, <1>4, <3>1
  <2>3. ASSUME NEW y \in Elements(u) PROVE y \in Elements(r)
    <3>1. PICK i \in 1..Len(u) : y = u[i]
      BY <1>1
    <3> QED
      BY <1>3, <1>4, <3>1
  <2> QED
    BY <2>1, <2>2, <2>3
<1>7. ASSUME Ascending(s), Ascending(u),
             \A x \in Elements(s), y \in Elements(u) : x < y
      PROVE  Ascending(r)
  <2> SUFFICES ASSUME NEW i \in 1..Len(r), NEW j \in 1..Len(r), i < j
               PROVE  r[i] < r[j]
    BY DEF Ascending
  <2>1. CASE j \in 1..Len(s)
    <3>1. i \in 1..Len(s)
      BY <1>1, <2>1
    <3> QED
      BY <1>4, <1>7, <2>1, <3>1 DEF Ascending
  <2>2. CASE i > Len(s)
    <3>1. i - Len(s) \in 1..Len(u) /\ j - Len(s) \in 1..Len(u)
          /\ i - Len(s) < j - Len(s)
      BY <1>1, <1>2, <2>2
    <3>2. r[i] = u[i - Len(s)] /\ r[j] = u[j - Len(s)]
      BY <1>1, <1>5, <2>2
    <3> QED
      BY <1>7, <3>1, <3>2 DEF Ascending
  <2>3. CASE i \in 1..Len(s) /\ j \notin 1..Len(s)
    <3>1. r[i] = s[i] /\ r[j] = u[j - Len(s)] /\ j - Len(s) \in 1..Len(u)
      BY <1>4, <1>5, <2>3
    <3> QED
      BY <1>1, <1>7, <2>3, <3>1
  <2> QED
    BY <1>5, <2>1, <2>2, <2>3
<1> QED
  BY <1>2, <1>6, <1>7 DEF r

\* A part of an ascending sequence is ascending and has the elements between.
LEMMA SubSeqAscending ==
  ASSUME NEW s \in Seq(Int), Ascending(s), NEW a \in 0..Len(s), NEW b \in a..Len(s)
  PROVE  /\ SubSeq(s, a + 1, b) \in Seq(Int)
         /\ Ascending(SubSeq(s, a + 1, b))
         /\ Len(SubSeq(s, a + 1, b)) = b - a
         /\ \A i \in 1..b - a : SubSeq(s, a + 1, b)[i] = s[a + i]
         /\ Elements(SubSeq(s, a + 1, b)) = {s[i] : i \in a + 1..b}
<1> DEFINE r == SubSeq(s, a + 1, b)
<1>1. Len(s) \in Nat /\ \A i \in 1..Len(s) : s[i] \in Int
  BY LenProperties, ElementOfSeq
<1>2. \A i \in a + 1..b : s[i] \in Int
  BY <1>1
<1>3. /\ r \in Seq(Int)
      /\ Len(r) = IF a + 1 <= b THEN b - (a + 1) + 1 ELSE 0
      /\ \A i \in 1..b - (a + 1) + 1 : r[i] = s[a + 1 + i - 1]
  BY <1>1, <1>2, SubSeqProperties
<1> HIDE DEF r
<1>4. Len(r) = b - a /\ \A i \in 1..Len(r) : r[i] = s[a + i]
  BY <1>1, <1>3
<1>5. Ascending(r)
  <2> SUFFICES ASSUME NEW i \in 1..Len(r), NEW j \in 1..Len(r), i < j
               PROVE  r[i] < r[j]
    BY DEF Ascending
  <2>1. a + i \in 1..Len(s) /\ a + j \in 1..Len(s) /\ a + i < a + j
    BY <1>1, <1>4
  <2> QED
    BY <1>4, <2>1 DEF Ascending
<1>6. Elements(r) = {s[i] : i \in a + 1..b}
  <2>1. /\ \A i \in 1..Len(r) : r[i] \in Elements(r)
        /\ \A y \in Elements(r) : \E i \in 1..Len(r) : y = r[i]
    <3>1. r \in Seq(Int)
      BY <1>3
    <3> QED
      BY <3>1, ElementsOf
  <2>2. \A i \in 1..Len(r) : a + i \in a + 1..b
    BY <1>1, <1>4
  <2>3. \A i \in a + 1..b : i - a \in 1..Len(r) /\ a + (i - a) = i
    BY <1>1, <1>4
  <2>4. ASSUME NEW y \in Elements(r) PROVE y \in {s[i] : i \in a + 1..b}
    <3>1. PICK i \in 1..Len(r) : y = r[i]
      BY <2>1
    <3>2. y = s[a + i]
      BY <1>4, <3>1
    <3> QED
      BY <2>2, <3>2
  <2>5. {s[i] : i \in a + 1..b} \subseteq Elements(r)
    <3> SUFFICES ASSUME NEW i \in a + 1..b PROVE s[i] \in Elements(r)
      OBVIOUS
    <3>1. r[i - a] = s[i] /\ r[i - a] \in Elements(r)
      BY <1>4, <2>1, <2>3
    <3> QED
      BY <3>1
  <2> QED
    BY <2>4, <2>5
<1> QED
  BY <1>3, <1>4, <1>5, <1>6 DEF r

\* The loop of Retain, element by element.
RetainsBy(f, X, s, wanted) ==
  /\ f \in [0..Len(s) -> Seq(X)]
  /\ Retain(s, wanted) = f[Len(s)]
  /\ f[0] = <<>>
  /\ \A i \in 1..Len(s) :
       f[i] = IF s[i] \in wanted THEN Append(f[i - 1], s[i]) ELSE f[i - 1]

LEMMA RetainLoop ==
  ASSUME NEW X, NEW s \in Seq(X), NEW wanted
  PROVE  \E f : RetainsBy(f, X, s, wanted)
<1> DEFINE n == Len(s)
           Keep(i, kept) == IF s[i] \in wanted THEN Append(kept, s[i]) ELSE kept
           step == [p \in (1..n) \X Seq(X) |-> Keep(p[1], p[2])]
           Body(f) == [i \in 0..n |-> IF i = 0 THEN <<>> ELSE Keep(i, f[i - 1])]
<1>1. n \in Nat /\ \A i \in 1..n : s[i] \in X
  BY LenProperties, ElementOfSeq
<1>2. \A i \in 1..n, kept \in Seq(X) : Keep(i, kept) \in Seq(X)
  BY <1>1
<1>3. Retain(s, wanted) = (CHOOSE h : h = Body(h))[n]
  BY DEF Retain
<1> HIDE DEF Keep, n
<1>0. <<>> \in Seq(X)
  OBVIOUS
<1>4. PICK f : IsLoop(f, Seq(X), <<>>, n, step)
  <2>1. step \in [(1..n) \X Seq(X) -> Seq(X)]
    BY <1>2
  <2> HIDE DEF step
  <2> QED
    BY <1>0, <1>1, <2>1, LoopExists
<1>5. ASSUME NEW i \in 1..n PROVE f[i] = Keep(i, f[i - 1])
  <2>1. f[i - 1] \in Seq(X)
    BY <1>1, <1>4 DEF IsLoop
  <2> QED
    BY <1>4, <2>1 DEF IsLoop
<1>6. f = Body(f)
  BY <1>1, <1>4, <1>5 DEF IsLoop
<1> DEFINE g == CHOOSE h : h = Body(h)
<1>7. g = Body(g)
  <2> HIDE DEF Body
  <2> QED
    BY <1>6
<1> HIDE DEF g
<1>8. g[0] = <<>> /\ \A i \in 1..n : g[i] = Keep(i, g[i - 1])
  BY <1>1, <1>7
<1>9. \A i \in 0..n : g[i] \in Seq(X)
  <2> DEFINE T == {i \in 0..n : g[i] \in Seq(X)}
  <2>1. 0 \in T
    <3>1. g[0] \in Seq(X)
      BY <1>0, <1>8
    <3> QED
      BY <1>1, <3>1
  <2>2. \A i \in 1..n : i - 1 \in T => i \in T
    BY <1>1, <1>2, <1>8
  <2> HIDE DEF T
  <2>3. 0..n \subseteq T
    BY <1>1, <2>1, <2>2, Ascent
  <2> QED
    BY <2>3 DEF T
<1>10. g \in [0..n -> Seq(X)]
  BY <1>7, <1>9
<1> QED
  BY <1>3, <1>8, <1>10 DEF g, n, Keep, RetainsBy

\* Where what is wanted is all that follows the first n elements, to retain
\* it is to drop these.
LEMMA RetainIsDrop ==
  ASSUME NEW X, NEW s \in Seq(X), NEW wanted, NEW n \in 0..Len(s),
         \A i \in 1..n : s[i] \notin wanted,
         \A i \in n + 1..Len(s) : s[i] \in wanted
  PROVE  Retain(s, wanted) = DropFirst(s, n)
<1> DEFINE N == Len(s)
           Behind(i, q) == /\ Len(q) = IF i <= n THEN 0 ELSE i - n
                           /\ \A j \in 1..Len(q) : q[j] = s[n + j]
<1>0. N \in Nat /\ n \in 0..N
  BY LenProperties
<1> PICK f : RetainsBy(f, X, s, wanted)
  BY RetainLoop
<1>1. /\ f \in [0..N -> Seq(X)]
      /\ Retain(s, wanted) = f[N]
      /\ f[0] = <<>>
      /\ \A i \in 1..N :
           f[i] = IF s[i] \in wanted THEN Append(f[i - 1], s[i]) ELSE f[i - 1]
  BY DEF RetainsBy
<1> DEFINE T == {i \in 0..N : Behind(i, f[i])}
<1>2. 0 \in T
  <2>1. f[0] = <<>> /\ Len(f[0]) = 0
    BY <1>1, EmptySeq
  <2> QED
    BY <1>0, <2>1
<1>3. ASSUME NEW i \in 1..N, i - 1 \in T PROVE i \in T
  <2>0. i \in Nat /\ i \in 0..N /\ i - 1 \in 0..N /\ s[i] \in X
    BY <1>0, ElementOfSeq
  <2>1. i \in Nat /\ i - 1 \in 0..N /\ f[i - 1] \in Seq(X) /\ s[i] \in X
    BY <1>1, <2>0
  <2>4. Behind(i - 1, f[i - 1])
    BY <1>3
  <2>2. CASE i <= n
    <3>1. f[i] = f[i - 1]
      BY <1>1, <2>2
    <3> QED
      BY <1>0, <2>1, <2>2, <2>4, <3>1
  <2>3. CASE i > n
    <3> DEFINE q == f[i - 1]
               r == Append(q, s[i])
    <3>1. f[i] = r
      <4>1. i \in n + 1..Len(s)
        BY <1>0, <2>3
      <4> QED
        BY <1>1, <4>1
    <3>2. Len(q) = i - 1 - n /\ \A j \in 1..Len(q) : q[j] = s[n + j]
      BY <1>0, <2>1, <2>3, <2>4
    <3>3. /\ Len(r) = Len(q) + 1
          /\ \A j \in 1..Len(q) : r[j] = q[j]
          /\ r[Len(q) + 1] = s[i]
      BY <2>1, AppendProperties
    <3> HIDE DEF q, r
    <3>4. Len(r) = i - n /\ \A j \in 1..Len(r) : r[j] = s[n + j]
      <4>1. Len(q) + 1 = i - n
        BY <1>0, <2>1, <3>2
      <4>2. \A j \in 1..Len(r) : j \in 1..Len(q) \/ (j = Len(q) + 1 /\ n + j = i)
        BY <1>0, <2>1, <2>3, <3>2, <3>3
      <4> QED
        BY <3>2, <3>3, <4>1, <4>2
    <3>5. Behind(i, r)
      BY <2>3, <3>4
    <3> QED
      BY <2>0, <3>1, <3>5
  <2> QED
    BY <1>0, <2>1, <2>2, <2>3
<1>4. N \in T
  <2>1. N \in 0..N
    BY <1>0
  <2> HIDE DEF T
  <2> QED
    BY <1>0, <1>2, <1>3, <2>1, Ascent
<1>5. /\ f[N] \in Seq(X) /\ Len(f[N]) = N - n
      /\ \A j \in 1..N - n : f[N][j] = s[n + j]
  BY <1>0, <1>1, <1>4
<1>6. /\ DropFirst(s, n) \in Seq(X) /\ Len(DropFirst(s, n)) = N - n
      /\ \A j \in 1..N - n : DropFirst(s, n)[j] = s[n + j]
  BY DropFirstProperties
<1>7. f[N] = DropFirst(s, n)
  <2> DEFINE a == f[N]
             b == DropFirst(s, n)
  <2>1. a \in Seq(X) /\ b \in Seq(X) /\ Len(a) = Len(b)
    BY <1>5, <1>6
  <2>2. \A i \in 1..Len(a) : a[i] = b[i]
    BY <1>5, <1>6
  <2> HIDE DEF a, b
  <2>3. a = b
    BY <2>1, <2>2, SeqEqual
  <2> QED
    BY <2>3 DEF a, b
<1> QED
  BY <1>1, <1>7

\* What is retained of an ascending sequence is ascending, and is all that is
\* wanted of it.
LEMMA RetainAscending ==
  ASSUME NEW s \in Seq(Int), Ascending(s), NEW wanted
  PROVE  /\ Retain(s, wanted) \in Seq(Int)
         /\ Ascending(Retain(s, wanted))
         /\ Elements(Retain(s, wanted)) = Elements(s) \cap wanted
<1> DEFINE N == Len(s)
           Upto(i) == {s[j] : j \in {l \in 1..i : s[l] \in wanted}}
<1>0. N \in Nat /\ \A i \in 1..N : s[i] \in Int
  BY LenProperties, ElementOfSeq
<1> PICK f : RetainsBy(f, Int, s, wanted)
  BY RetainLoop
<1>1. /\ f \in [0..N -> Seq(Int)]
      /\ Retain(s, wanted) = f[N]
      /\ f[0] = <<>>
      /\ \A i \in 1..N :
           f[i] = IF s[i] \in wanted THEN Append(f[i - 1], s[i]) ELSE f[i - 1]
  BY DEF RetainsBy
<1> DEFINE T == {i \in 0..N : Ascending(f[i]) /\ Elements(f[i]) = Upto(i)}
<1>2. 0 \in T
  <2>1. f[0] = <<>> /\ Len(f[0]) = 0 /\ DOMAIN f[0] = {}
    BY <1>1, EmptySeq
  <2>2. Ascending(f[0]) /\ Elements(f[0]) = {}
    BY <2>1 DEF Ascending, Elements
  <2>3. Upto(0) = {}
    OBVIOUS
  <2> QED
    BY <1>0, <2>2, <2>3
<1>3. ASSUME NEW i \in 1..N, i - 1 \in T PROVE i \in T
  <2>0. i \in 0..N /\ i - 1 \in 0..N /\ s[i] \in Int
    BY <1>0
  <2>1. /\ i \in 0..N /\ i - 1 \in 0..N /\ f[i - 1] \in Seq(Int) /\ s[i] \in Int
        /\ Ascending(f[i - 1]) /\ Elements(f[i - 1]) = Upto(i - 1)
    BY <1>1, <1>3, <2>0
  <2>2. CASE s[i] \notin wanted
    <3>1. f[i] = f[i - 1]
      BY <1>1, <2>2
    <3>2. Upto(i) = Upto(i - 1)
      BY <1>0, <2>1, <2>2
    <3> QED
      BY <2>1, <3>1, <3>2
  <2>3. CASE s[i] \in wanted
    <3>1. f[i] = Append(f[i - 1], s[i])
      BY <1>1, <2>3
    <3>2. Upto(i) = Upto(i - 1) \cup {s[i]}
      <4>1. \A l \in 1..i : l \in 1..i - 1 \/ l = i
        BY <1>0
      <4>2. i \in 1..i /\ \A l \in 1..i - 1 : l \in 1..i
        BY <1>0
      <4> QED
        BY <2>3, <4>1, <4>2
    <3>3. \A y \in Upto(i - 1) : y < s[i]
      BY <1>0 DEF Ascending
    <3>4. Ascending(f[i]) /\ Elements(f[i]) = Upto(i)
      <4> HIDE DEF Upto
      <4> QED
        BY <2>1, <3>1, <3>2, <3>3, AppendAscending
    <3> QED
      BY <2>1, <3>4
  <2> QED
    BY <2>2, <2>3
<1>4. N \in T
  <2>1. N \in 0..N
    BY <1>0
  <2> HIDE DEF T
  <2> QED
    BY <1>0, <1>2, <1>3, <2>1, Ascent
<1>5. f[N] \in Seq(Int)
  BY <1>0, <1>1
<1>6. Upto(N) = Elements(s) \cap wanted
  BY ElementsOf DEF Elements
<1> QED
  BY <1>1, <1>4, <1>5, <1>6

-----------------------------------------------------------------------------

\* The furthest a chunk can span: its oldest sample was in the window at the
\* latest pruning, its newest came with the next pass.
MaxSpan == Retention + MaxGap

\* During a pass the head of a series holds what the latest pruning left in
\* it and at most the sample of this pass; after it, no series holds a head
\* sample or a whole chunk outside the window.
Recent ==
  IF inPass
  THEN /\ started <= pruned + MaxGap
       /\ \A k \in Live : \A i \in 1..Len(series[k].head) :
            \/ series[k].head[i] >= pruned - Retention
            \/ series[k].head[i] = started
  ELSE \A k \in Live :
         /\ \A i \in 1..Len(series[k].head) :
              series[k].head[i] >= pruned - Retention
         /\ \A c \in 1..Len(series[k].chunks) :
              series[k].chunks[c].last_t >= pruned - Retention

SeriesSound ==
  \A k \in Live : ~IsEmpty(series[k]) /\ Sound(series[k], MaxSpan)

IInv == TypeOK /\ SeriesSound /\ IndexConsistent /\ Recent

-----------------------------------------------------------------------------
LEMMA MaxSpanNat == MaxSpan \in Nat
  BY SeriesAssumption, StoreAssumption DEF MaxSpan

\* The series the collector creates is sound before its first sample.
LEMMA EmptySound ==
  /\ Sound(EmptySeries, MaxSpan)
  /\ IsEmpty(EmptySeries)
  /\ 1..Len(EmptySeries.head) = {}
<1>1. /\ EmptySeries.chunks = <<>> /\ EmptySeries.head = <<>>
      /\ <<>> \in Seq(Chunk) /\ <<>> \in Seq(Int) /\ Len(<<>>) = 0
  BY EmptySeq DEF EmptySeries
<1>2. EmptySeries \in Series
  BY <1>1 DEF EmptySeries, Series
<1>3. /\ 1..Len(EmptySeries.head) = {} /\ 1..Len(EmptySeries.chunks) = {}
      /\ Len(EmptySeries.head) = 0
  BY <1>1
<1>4. WellFormedSeries(EmptySeries)
  BY <1>3 DEF WellFormedSeries, Ascending
<1>5. HeadBelowCaps(EmptySeries.head)
  BY <1>3, SeriesAssumption DEF HeadBelowCaps
<1> QED
  BY <1>1, <1>2, <1>3, <1>4, <1>5 DEF Sound, IsEmpty

LEMMA InitInv == Init => IInv
<1> SUFFICES ASSUME Init PROVE IInv
  OBVIOUS
<1> USE DEF Init
<1>1. Live = {} /\ DOMAIN byName = {}
  BY DEF Live
<1>2. TypeOK
  <2>1. series \in [Live -> Series]
    BY <1>1
  <2>2. byName \in [DOMAIN byName -> [Keys -> Nat]]
    BY <1>1
  <2>3. started \in Int /\ pruned \in Int
    BY StoreAssumption
  <2>4. inPass \in BOOLEAN
    OBVIOUS
  <2> QED
    BY <1>1, <2>1, <2>2, <2>3, <2>4 DEF TypeOK
<1>3. SeriesSound /\ IndexConsistent /\ Recent
  BY <1>1 DEF SeriesSound, IndexConsistent, Recent
<1> QED
  BY <1>2, <1>3 DEF IInv

-----------------------------------------------------------------------------
LEMMA BeginPassInv ==
  ASSUME IInv, NEW t \in 0..MaxTime, BeginPass(t)
  PROVE  IInv'
<1> USE DEF BeginPass
<1>1. Live' = Live
  BY DEF Live
<1>2. t \in Int
  BY StoreAssumption
<1>3. TypeOK'
  BY <1>1, <1>2 DEF IInv, TypeOK, Live
<1>4. SeriesSound' /\ IndexConsistent'
  BY <1>1 DEF IInv, SeriesSound, IndexConsistent
<1>5. Recent'
  BY <1>1 DEF IInv, Recent
<1> QED
  BY <1>3, <1>4, <1>5 DEF IInv

\* What a push by the current pass makes of a series the invariant allows.
LEMMA PushInPass ==
  ASSUME IInv, inPass, NEW ser, Sound(ser, MaxSpan), Accepts(ser, started),
         \A i \in 1..Len(ser.head) :
           ser.head[i] >= pruned - Retention \/ ser.head[i] = started
  PROVE  /\ Sound(Push(ser, started), MaxSpan)
         /\ ~IsEmpty(Push(ser, started))
         /\ \A i \in 1..Len(Push(ser, started).head) :
              \/ Push(ser, started).head[i] >= pruned - Retention
              \/ Push(ser, started).head[i] = started
<1>1. /\ started \in Int /\ pruned \in Int /\ started <= pruned + MaxGap
      /\ Retention \in Nat /\ MaxGap \in Nat
  BY SeriesAssumption, StoreAssumption DEF IInv, TypeOK, Recent
<1>2. \A i \in 1..Len(ser.head) : ser.head[i] \in Int
  BY SeriesParts DEF Sound
<1>3. ASSUME NEW i \in 1..Len(ser.head)
      PROVE  started - ser.head[i] <= MaxSpan
  <2>1. /\ ser.head[i] \in Int
        /\ ser.head[i] >= pruned - Retention \/ ser.head[i] = started
    BY <1>2
  <2> QED
    BY <1>1, <2>1 DEF MaxSpan
<1>4. /\ Sound(Push(ser, started), MaxSpan)
      /\ ~IsEmpty(Push(ser, started))
      /\ \A i \in 1..Len(Push(ser, started).head) :
           \/ Push(ser, started).head[i] = started
           \/ \E j \in 1..Len(ser.head) :
                Push(ser, started).head[i] = ser.head[j]
  BY <1>1, <1>3, MaxSpanNat, PushSound
<1> QED
  BY <1>4

LEMMA AppendExistingInv ==
  ASSUME IInv, NEW k \in Keys, AppendExisting(k)
  PROVE  IInv'
<1>0. /\ inPass /\ k \in Live
      /\ series \in [Live -> Series] /\ Live \subseteq Keys
      /\ UNCHANGED <<byName, started, pruned, inPass>>
  BY DEF AppendExisting, IInv, TypeOK
<1>1. CASE ~Accepts(series[k], started)
  <2>1. UNCHANGED vars
    BY <1>0, <1>1 DEF AppendExisting, vars
  <2> QED
    BY <2>1 DEF vars, IInv, TypeOK, SeriesSound, IndexConsistent, Recent, Live
<1>2. CASE Accepts(series[k], started)
  <2> DEFINE new == Push(series[k], started)
  <2>1. series' = [series EXCEPT ![k] = new]
    BY <1>2 DEF AppendExisting
  <2>2. /\ Sound(new, MaxSpan) /\ ~IsEmpty(new)
        /\ \A i \in 1..Len(new.head) :
             new.head[i] >= pruned - Retention \/ new.head[i] = started
    <3>1. Sound(series[k], MaxSpan)
      BY <1>0 DEF IInv, SeriesSound
    <3>2. \A i \in 1..Len(series[k].head) :
            \/ series[k].head[i] >= pruned - Retention
            \/ series[k].head[i] = started
      BY <1>0 DEF IInv, Recent
    <3> QED
      BY <1>0, <1>2, <3>1, <3>2, PushInPass
  <2> HIDE DEF new
  <2>3. /\ Live' = Live /\ series'[k] = new
        /\ \A x \in Live : x # k => series'[x] = series[x]
    BY <1>0, <2>1 DEF Live
  <2>4. TypeOK'
    <3>1. new \in Series
      BY <2>2 DEF Sound
    <3>2. series' \in [Live' -> Series]
      BY <1>0, <2>1, <2>3, <3>1
    <3> QED
      BY <1>0, <2>3, <3>2 DEF IInv, TypeOK
  <2>5. SeriesSound'
    BY <1>0, <2>2, <2>3 DEF IInv, SeriesSound
  <2>6. IndexConsistent'
    BY <1>0, <2>3 DEF IInv, IndexConsistent
  <2>7. Recent'
    BY <1>0, <2>2, <2>3 DEF IInv, Recent
  <2> QED
    BY <2>4, <2>5, <2>6, <2>7 DEF IInv
<1> QED
  BY <1>1, <1>2

LEMMA AppendNewInv ==
  ASSUME IInv, NEW k \in Keys, AppendNew(k)
  PROVE  IInv'
<1> DEFINE new == Push(EmptySeries, started)
           n0  == NameOf[k]
<1>0. /\ inPass /\ k \notin Live
      /\ series \in [Live -> Series] /\ Live \subseteq Keys
      /\ UNCHANGED <<started, pruned, inPass>>
      /\ n0 \in Names
  BY StoreAssumption DEF AppendNew, IInv, TypeOK
<1>1. /\ Sound(new, MaxSpan) /\ ~IsEmpty(new)
      /\ \A i \in 1..Len(new.head) :
           new.head[i] >= pruned - Retention \/ new.head[i] = started
  <2>1. Accepts(EmptySeries, started)
    BY EmptySound DEF Accepts
  <2> QED
    BY <1>0, <2>1, EmptySound, PushInPass
<1>2. series' = [x \in Live \cup {k} |-> IF x = k THEN new ELSE series[x]]
  BY DEF AppendNew
<1> HIDE DEF new
<1>3. /\ Live' = Live \cup {k} /\ series'[k] = new
      /\ \A x \in Live : series'[x] = series[x]
  BY <1>0, <1>2 DEF Live
<1>4. byName' = [n \in DOMAIN byName \cup {n0} |->
                   [Bucket(n) EXCEPT ![k] = IF n = n0 THEN @ + 1 ELSE @]]
  BY DEF AppendNew, Index
<1>5. /\ \A n \in DOMAIN byName : Bucket(n) = byName[n]
      /\ \A n \in DOMAIN byName \cup {n0} : Bucket(n) \in [Keys -> Nat]
      /\ \A n \in DOMAIN byName \cup {n0}, x \in Keys :
           Bucket(n)[x] = IF x \in Live /\ NameOf[x] = n THEN 1 ELSE 0
  <2>1. \A n \in DOMAIN byName : Bucket(n) = byName[n]
    BY DEF Bucket
  <2>2. \A n \in DOMAIN byName : byName[n] \in [Keys -> Nat]
    BY DEF IInv, TypeOK
  <2>3. \A n \in DOMAIN byName, x \in Keys :
          byName[n][x] = IF x \in Live /\ NameOf[x] = n THEN 1 ELSE 0
    BY DEF IInv, IndexConsistent
  <2>4. ASSUME n0 \notin DOMAIN byName
        PROVE  /\ Bucket(n0) \in [Keys -> Nat]
               /\ \A x \in Keys :
                    Bucket(n0)[x] = IF x \in Live /\ NameOf[x] = n0 THEN 1 ELSE 0
    <3>1. Bucket(n0) = [x \in Keys |-> 0]
      BY <2>4 DEF Bucket, EmptyBucket
    <3>2. \A x \in Live : NameOf[x] # n0
      BY <2>4 DEF IInv, IndexConsistent
    <3> QED
      BY <3>1, <3>2
  <2> QED
    BY <2>1, <2>2, <2>3, <2>4
<1>6. TypeOK'
  <2>1. new \in Series
    BY <1>1 DEF Sound
  <2>2. series' \in [Live' -> Series]
    BY <1>0, <1>2, <1>3, <2>1
  <2>3. byName' \in [DOMAIN byName' -> [Keys -> Nat]]
        /\ DOMAIN byName' \subseteq Names
    BY <1>0, <1>4, <1>5 DEF IInv, TypeOK
  <2> QED
    BY <1>0, <1>3, <2>2, <2>3 DEF IInv, TypeOK
<1>7. SeriesSound'
  BY <1>1, <1>3 DEF IInv, SeriesSound
<1>8. IndexConsistent'
  <2>1. DOMAIN byName' = {NameOf[x] : x \in Live'}
    <3>1. DOMAIN byName = {NameOf[x] : x \in Live}
      BY DEF IInv, IndexConsistent
    <3> QED
      BY <1>3, <1>4, <3>1
  <2>2. ASSUME NEW n \in DOMAIN byName', NEW x \in Keys
        PROVE  byName'[n][x] = IF x \in Live' /\ NameOf[x] = n THEN 1 ELSE 0
    <3>1. n \in DOMAIN byName \cup {n0}
      BY <1>4
    <3>2. byName'[n] = [Bucket(n) EXCEPT ![k] = IF n = n0 THEN @ + 1 ELSE @]
      BY <1>4, <3>1
    <3>3. CASE x = k
      <4>1. Bucket(n)[k] = 0
        BY <1>0, <1>5, <3>1
      <4>2. byName'[n][k] = IF n = n0 THEN 1 ELSE 0
        BY <1>5, <3>1, <3>2, <4>1
      <4> QED
        BY <1>3, <3>3, <4>2
    <3>4. CASE x # k
      <4>1. byName'[n][x] = Bucket(n)[x]
        BY <1>5, <3>1, <3>2, <3>4
      <4> QED
        BY <1>3, <1>5, <3>1, <3>4, <4>1
    <3> QED
      BY <3>3, <3>4
  <2> QED
    BY <2>1, <2>2 DEF IndexConsistent
<1>9. Recent'
  BY <1>0, <1>1, <1>3 DEF IInv, Recent
<1> QED
  BY <1>6, <1>7, <1>8, <1>9 DEF IInv

LEMMA EndPassInv ==
  ASSUME IInv, EndPass
  PROVE  IInv'
<1> DEFINE cutoff  == started - Retention
           cut(k)  == PruneSeries(series[k], cutoff)
           emptied == {k \in Live : IsEmpty(cut(k))}
           kept    == Live \ emptied
<1>0. /\ series \in [Live -> Series] /\ Live \subseteq Keys
      /\ started \in Int /\ cutoff \in Int
      /\ pruned' = started /\ started' = started /\ inPass' = FALSE
  BY SeriesAssumption DEF EndPass, IInv, TypeOK
<1>1. ASSUME NEW k \in Live
      PROVE  /\ Sound(cut(k), MaxSpan)
             /\ \A c \in 1..Len(cut(k).chunks) : cut(k).chunks[c].last_t >= cutoff
             /\ \A i \in 1..Len(cut(k).head) : cut(k).head[i] >= cutoff
  <2>1. Sound(series[k], MaxSpan)
    BY DEF IInv, SeriesSound
  <2> QED
    BY <1>0, <2>1, MaxSpanNat, PruneSound
<1>2. series' = [k \in kept |-> cut(k)] /\ Unindex(emptied)
  BY DEF EndPass
<1>3. \A k \in kept : k \in Live /\ ~IsEmpty(cut(k))
  OBVIOUS
<1>4. kept \subseteq Live /\ emptied = Live \ kept
  OBVIOUS
<1> HIDE DEF cut, emptied, cutoff, kept
<1>5. Live' = kept /\ \A k \in kept : series'[k] = cut(k)
  BY <1>2 DEF Live
<1>6. SeriesSound'
  BY <1>1, <1>3, <1>5 DEF SeriesSound
<1>7. Recent'
  BY <1>0, <1>1, <1>3, <1>5 DEF Recent, cutoff
<1> DEFINE bucket(n) == [k \in Keys |-> IF k \in emptied /\ NameOf[k] = n
                                        THEN 0 ELSE byName[n][k]]
           gone == {n \in DOMAIN byName :
                      /\ \E k \in emptied : NameOf[k] = n
                      /\ bucket(n) = EmptyBucket}
<1>8. byName' = [n \in DOMAIN byName \ gone |-> bucket(n)]
  <2>1. byName' = [n \in DOMAIN byName \ gone |->
                     [m \in DOMAIN byName |-> bucket(m)][n]]
    BY <1>2 DEF Unindex
  <2> QED
    BY <2>1
<1>9. \A n \in DOMAIN byName, k \in Keys :
        bucket(n)[k] = IF k \in kept /\ NameOf[k] = n THEN 1 ELSE 0
  BY <1>4 DEF IInv, IndexConsistent
<1>10. \A n \in DOMAIN byName : bucket(n) \in [Keys -> Nat]
  BY DEF IInv, TypeOK
<1>11. TypeOK'
  <2>1. series' \in [Live' -> Series]
    BY <1>1, <1>2, <1>3, <1>5 DEF Sound
  <2>2. byName' \in [DOMAIN byName' -> [Keys -> Nat]]
        /\ DOMAIN byName' \subseteq Names
    BY <1>8, <1>10 DEF IInv, TypeOK
  <2> QED
    BY <1>0, <1>4, <1>5, <2>1, <2>2 DEF TypeOK
<1>12. IndexConsistent'
  <2>1. DOMAIN byName = {NameOf[k] : k \in Live}
    BY DEF IInv, IndexConsistent
  <2>2. \A n \in DOMAIN byName : n \in gone <=> \A k \in kept : NameOf[k] # n
    <3>1. ASSUME NEW n \in DOMAIN byName, n \in gone, NEW k \in kept
          PROVE  NameOf[k] # n
      <4>1. bucket(n)[k] = 0
        BY <1>0, <1>4, <3>1 DEF EmptyBucket
      <4> QED
        BY <1>0, <1>4, <1>9, <4>1
    <3>2. ASSUME NEW n \in DOMAIN byName, \A k \in kept : NameOf[k] # n
          PROVE  n \in gone
      <4>1. PICK k \in Live : NameOf[k] = n
        BY <2>1
      <4>2. k \in emptied
        BY <1>4, <3>2, <4>1
      <4>3. bucket(n) = EmptyBucket
        BY <1>9, <3>2 DEF EmptyBucket
      <4> QED
        BY <4>1, <4>2, <4>3
    <3> QED
      BY <3>1, <3>2
  <2>3. DOMAIN byName' = {NameOf[k] : k \in kept}
    <3>1. DOMAIN byName' = DOMAIN byName \ gone
      BY <1>8
    <3> HIDE DEF gone
    <3> QED
      BY <1>4, <2>1, <2>2, <3>1
  <2>4. \A n \in DOMAIN byName' : n \in DOMAIN byName /\ byName'[n] = bucket(n)
    BY <1>8
  <2> HIDE DEF bucket, gone
  <2> QED
    BY <1>5, <1>9, <2>3, <2>4 DEF IndexConsistent
<1> QED
  BY <1>6, <1>7, <1>11, <1>12 DEF IInv

LEMMA NextInv == IInv /\ [Next]_vars => IInv'
<1> SUFFICES ASSUME IInv, [Next]_vars PROVE IInv'
  OBVIOUS
<1>1. CASE \E t \in 0..MaxTime : BeginPass(t)
  BY <1>1, BeginPassInv
<1>2. CASE \E k \in Keys : AppendExisting(k)
  BY <1>2, AppendExistingInv
<1>3. CASE \E k \in Keys : AppendNew(k)
  BY <1>3, AppendNewInv
<1>4. CASE EndPass
  BY <1>4, EndPassInv
<1>5. CASE UNCHANGED vars
  BY <1>5
     DEF vars, IInv, TypeOK, SeriesSound, IndexConsistent, Recent, Live
<1> QED
  BY <1>1, <1>2, <1>3, <1>4, <1>5 DEF Next

THEOREM Invariance == Spec => []IInv
  BY InitInv, NextInv, PTL DEF Spec

-----------------------------------------------------------------------------
\* The store keeps its types, whatever the clock and the API server do.
THEOREM TypeCorrect == Spec => []TypeOK
<1>1. IInv => TypeOK
  BY DEF IInv
<1> QED
  BY <1>1, Invariance, PTL

\* Every live series holds samples, in the order the binary searches of
\* `value_at`, `range_at` and `prune` rely on.
THEOREM WellFormedAlways == Spec => []SeriesWellFormed
<1>1. IInv => SeriesWellFormed
  BY DEF IInv, SeriesSound, Sound, SeriesWellFormed
<1> QED
  BY <1>1, Invariance, PTL

\* `by_name` and `series` never disagree.
THEOREM IndexAlwaysConsistent == Spec => []IndexConsistent
<1>1. IInv => IndexConsistent
  BY DEF IInv
<1> QED
  BY <1>1, Invariance, PTL

\* `push` seals in time: no head reaches MAX_CHUNK_SAMPLES or the capped
\* span.
THEOREM HeadsAlwaysBelowCaps == Spec => []HeadsBelowCaps
<1>1. IInv => HeadsBelowCaps
  BY DEF IInv, SeriesSound, Sound, HeadsBelowCaps
<1> QED
  BY <1>1, Invariance, PTL

\* Every chunk without its newest sample spans less than the capped span.
THEOREM SpansAlwaysCapped == Spec => []ChunksSpanCapped
<1>1. IInv => ChunksSpanCapped
  <2> SUFFICES ASSUME IInv, NEW k \in Live
               PROVE  \A c \in DOMAIN series[k].chunks :
                        SpanCappedButForLast(series[k].chunks[c])
    BY DEF ChunksSpanCapped
  <2>1. Sound(series[k], MaxSpan)
    BY DEF IInv, SeriesSound
  <2> QED
    BY <2>1, SeriesParts DEF Sound
<1> QED
  BY <1>1, Invariance, PTL

\* `prune` leaves no series without a sample inside the window.
THEOREM AgedOutAlwaysGone == Spec => []AgedOutSeriesGone
<1>1. IInv => AgedOutSeriesGone
  <2> SUFFICES ASSUME IInv, ~inPass, NEW k \in Live
               PROVE  LastT(series[k]) >= pruned - Retention
    BY DEF AgedOutSeriesGone
  <2>1. series[k] \in Series /\ ~IsEmpty(series[k])
    BY DEF IInv, TypeOK, SeriesSound
  <2>2. /\ \A i \in 1..Len(series[k].head) :
             series[k].head[i] >= pruned - Retention
        /\ \A c \in 1..Len(series[k].chunks) :
             series[k].chunks[c].last_t >= pruned - Retention
    BY DEF IInv, Recent
  <2>3. CASE series[k].head # <<>>
    <3>1. Len(series[k].head) \in 1..Len(series[k].head)
      BY <2>1, <2>3, SeriesParts, EmptySeq
    <3> QED
      BY <2>2, <2>3, <3>1 DEF LastT, LastOf
  <2>4. CASE series[k].head = <<>>
    <3>1. Len(series[k].chunks) \in 1..Len(series[k].chunks)
      BY <2>1, <2>4, SeriesParts, EmptySeq DEF IsEmpty
    <3> QED
      BY <2>2, <2>4, <3>1 DEF LastT, LastOf
  <2> QED
    BY <2>3, <2>4
<1> QED
  BY <1>1, Invariance, PTL

\* No sample is held for longer than two windows and one gap between passes.
THEOREM RetentionCeilingHolds == Spec => []RetentionCeiling
<1>1. IInv => RetentionCeiling
  <2> SUFFICES ASSUME IInv, ~inPass, NEW k \in Live, NEW t \in Times(series[k])
               PROVE  t >= pruned - (2 * Retention + MaxGap)
    BY DEF RetentionCeiling
  <2>0. /\ series[k] \in Series /\ Sound(series[k], MaxSpan)
        /\ pruned \in Int /\ Retention \in Nat /\ MaxGap \in Nat
    BY SeriesAssumption, StoreAssumption DEF IInv, TypeOK, SeriesSound
  <2>1. /\ \A i \in 1..Len(series[k].head) :
             series[k].head[i] >= pruned - Retention
        /\ \A c \in 1..Len(series[k].chunks) :
             series[k].chunks[c].last_t >= pruned - Retention
    BY DEF IInv, Recent
  <2>2. CASE t \in Elements(series[k].head)
    <3>1. PICK i \in 1..Len(series[k].head) : t = series[k].head[i]
      BY <2>0, <2>2, SeriesParts DEF Elements
    <3>2. t \in Int /\ t >= pruned - Retention
      BY <2>0, <2>1, <3>1, SeriesParts
    <3> QED
      BY <2>0, <3>2
  <2>3. CASE \E c \in DOMAIN series[k].chunks :
               t \in Elements(series[k].chunks[c].samples)
    <3>1. PICK c \in 1..Len(series[k].chunks) :
                 t \in Elements(series[k].chunks[c].samples)
      BY <2>0, <2>3, SeriesParts
    <3> DEFINE chunk == series[k].chunks[c]
    <3>2. PICK i \in 1..Len(chunk.samples) : t = chunk.samples[i]
      BY <2>0, <3>1, SeriesParts DEF Elements
    <3>3. chunk.first_t <= t
      BY <2>0, <3>2, ChunkHeader DEF Sound
    <3>4. chunk.last_t - chunk.first_t <= Retention + MaxGap
      BY <2>0 DEF Sound, MaxSpan
    <3>5. chunk.last_t >= pruned - Retention
      BY <2>1
    <3>6. t \in Int /\ chunk.first_t \in Int /\ chunk.last_t \in Int
      BY <2>0, <3>2, SeriesParts
    <3> HIDE DEF chunk
    <3> QED
      BY <2>0, <3>3, <3>4, <3>5, <3>6
  <2> QED
    BY <2>2, <2>3 DEF Times
<1> QED
  BY <1>1, Invariance, PTL

-----------------------------------------------------------------------------
\* A sample a series holds is in its head or in one of its chunks.
LEMMA TimesOf ==
  ASSUME NEW ser \in Series, NEW t
  PROVE  t \in Times(ser) <=>
           \/ \E i \in 1..Len(ser.head) : t = ser.head[i]
           \/ \E c \in 1..Len(ser.chunks) :
                \E i \in 1..Len(ser.chunks[c].samples) :
                  t = ser.chunks[c].samples[i]
<1>1. /\ DOMAIN ser.head = 1..Len(ser.head)
      /\ DOMAIN ser.chunks = 1..Len(ser.chunks)
      /\ \A c \in 1..Len(ser.chunks) :
           DOMAIN ser.chunks[c].samples = 1..Len(ser.chunks[c].samples)
  BY SeriesParts
<1> QED
  BY <1>1 DEF Times, Elements

\* A series that is empty holds no sample.
LEMMA TimesOfEmpty ==
  ASSUME NEW ser, IsEmpty(ser)
  PROVE  Times(ser) = {}
BY DEF IsEmpty, Times, Elements

\* A sample that is accepted is newer than all that is held.
LEMMA AcceptedIsNewest ==
  ASSUME NEW ser \in Series, WellFormedSeries(ser), NEW t \in Int,
         Accepts(ser, t), NEW u \in Times(ser)
  PROVE  u < t
<1>1. ~IsEmpty(ser)
  BY TimesOfEmpty
<1>2. /\ LastT(ser) \in Int /\ LastT(ser) < t
      /\ \A i \in 1..Len(ser.head) : ser.head[i] <= LastT(ser)
      /\ \A c \in 1..Len(ser.chunks) : ser.chunks[c].last_t <= LastT(ser)
  BY <1>1, LastIsNewest DEF Accepts
<1>3. CASE \E i \in 1..Len(ser.head) : u = ser.head[i]
  <2>1. u \in Int /\ u <= LastT(ser)
    BY <1>2, <1>3, SeriesParts
  <2> QED
    BY <1>2, <2>1
<1>4. CASE \E c \in 1..Len(ser.chunks) :
             \E i \in 1..Len(ser.chunks[c].samples) :
               u = ser.chunks[c].samples[i]
  <2>1. PICK c \in 1..Len(ser.chunks) :
               \E i \in 1..Len(ser.chunks[c].samples) :
                 u = ser.chunks[c].samples[i]
    BY <1>4
  <2>2. u <= ser.chunks[c].last_t
    BY <2>1, ChunkHeader
  <2>3. u \in Int /\ ser.chunks[c].last_t \in Int
    BY <2>1, SeriesParts
  <2> QED
    BY <1>2, <2>2, <2>3
<1> QED
  BY <1>3, <1>4, TimesOf

\* Pushing adds the sample, wherever sealing puts it, and loses none.
LEMMA PushTimes ==
  ASSUME NEW ser \in Series, NEW t \in Int
  PROVE  Times(Push(ser, t)) = Times(ser) \cup {t}
<1> DEFINE h == Append(ser.head, t)
           chunk == Encode(h)
<1>1. /\ ser.head \in Seq(Int) /\ Len(ser.head) \in Nat
      /\ ser.chunks \in Seq(Chunk) /\ Len(ser.chunks) \in Nat
  BY SeriesParts
<1>2. Elements(h) = Elements(ser.head) \cup {t}
  <2>1. /\ DOMAIN h = 1..Len(ser.head) + 1
        /\ \A i \in 1..Len(ser.head) : h[i] = ser.head[i]
        /\ h[Len(ser.head) + 1] = t
    BY <1>1, AppendProperties
  <2>2. DOMAIN ser.head = 1..Len(ser.head)
    BY <1>1
  <2>3. 1..Len(ser.head) + 1 = 1..Len(ser.head) \cup {Len(ser.head) + 1}
    BY <1>1
  <2> HIDE DEF h
  <2> QED
    BY <2>1, <2>2, <2>3 DEF Elements
<1>3. CASE ~ShouldSeal(h)
  <2>1. Push(ser, t).chunks = ser.chunks /\ Push(ser, t).head = h
    BY <1>3 DEF Push
  <2> HIDE DEF h
  <2> QED
    BY <1>2, <2>1 DEF Times
<1>4. CASE ShouldSeal(h)
  <2> DEFINE chunks == Append(ser.chunks, chunk)
  <2>1. Push(ser, t).chunks = chunks /\ Push(ser, t).head = <<>>
    BY <1>4 DEF Push
  <2>2. /\ DOMAIN chunks = DOMAIN ser.chunks \cup {Len(ser.chunks) + 1}
        /\ \A c \in DOMAIN ser.chunks : chunks[c] = ser.chunks[c]
        /\ chunks[Len(ser.chunks) + 1] = chunk
    <3>1. h \in Seq(Int) /\ Len(h) = Len(ser.head) + 1 /\ Len(h) >= 1
      BY <1>1, AppendProperties
    <3>2. chunk \in Chunk
      <4>1. h[1] \in Int /\ LastOf(h) \in Int
        BY <1>1, <3>1, ElementOfSeq DEF LastOf
      <4> HIDE DEF h
      <4> QED
        BY <3>1, <4>1 DEF Encode, Chunk
    <3> HIDE DEF chunk
    <3>3. /\ Len(chunks) = Len(ser.chunks) + 1 /\ chunks \in Seq(Chunk)
          /\ \A c \in 1..Len(ser.chunks) : chunks[c] = ser.chunks[c]
          /\ chunks[Len(ser.chunks) + 1] = chunk
      BY <1>1, <3>2, AppendProperties
    <3>4. /\ DOMAIN chunks = 1..Len(ser.chunks) + 1
          /\ DOMAIN ser.chunks = 1..Len(ser.chunks)
      BY <1>1, <3>3, LenProperties
    <3>5. 1..Len(ser.chunks) + 1 = 1..Len(ser.chunks) \cup {Len(ser.chunks) + 1}
      BY <1>1
    <3> HIDE DEF chunks
    <3> QED
      BY <3>3, <3>4, <3>5
  <2>3. Elements(chunk.samples) = Elements(h) /\ Elements(<<>>) = {}
    BY DEF Encode, Elements
  <2> HIDE DEF chunks, chunk, h
  <2> QED
    BY <1>2, <2>1, <2>2, <2>3 DEF Times
<1> QED
  BY <1>3, <1>4

\* Pruning forgets only what is older than the cutoff, from the old end, and
\* forgets a series none of whose samples is newer.
LEMMA PruneTimes ==
  ASSUME NEW ser \in Series, WellFormedSeries(ser), NEW cutoff \in Int
  PROVE  Contract!Aged(Times(ser), Times(PruneSeries(ser, cutoff)), cutoff)
<1> DEFINE r == PruneSeries(ser, cutoff)
<1>1. /\ ser.head \in Seq(Int) /\ Len(ser.head) \in Nat
      /\ ser.chunks \in Seq(Chunk) /\ Len(ser.chunks) \in Nat
      /\ \A i \in 1..Len(ser.head) : ser.head[i] \in Int
      /\ \A c \in 1..Len(ser.chunks) :
           /\ ser.chunks[c].first_t \in Int /\ ser.chunks[c].last_t \in Int
           /\ Len(ser.chunks[c].samples) \in Nat
           /\ \A i \in 1..Len(ser.chunks[c].samples) :
                ser.chunks[c].samples[i] \in Int
  BY SeriesParts
<1>2. PICK a \in 0..Len(ser.chunks), b \in 0..Len(ser.head) :
        /\ r = [chunks |-> DropFirst(ser.chunks, a),
                head   |-> DropFirst(ser.head, b)]
        /\ \A c \in 1..a : ser.chunks[c].last_t < cutoff
        /\ \A c \in (a + 1)..Len(ser.chunks) : ser.chunks[c].last_t >= cutoff
        /\ IsBoundary(ser.head, cutoff, b)
  BY PruneCuts
<1> HIDE DEF r
<1> DEFINE InHead(t, i) == t = ser.head[i]
           InChunk(t, c) == \E i \in 1..Len(ser.chunks[c].samples) :
                              t = ser.chunks[c].samples[i]
\* What is held before and after, in terms of the same places.
<1>3. \A t : t \in Times(ser) <=>
               \/ \E i \in 1..Len(ser.head) : InHead(t, i)
               \/ \E c \in 1..Len(ser.chunks) : InChunk(t, c)
  BY TimesOf
<1>4. \A t : t \in Times(r) <=>
               \/ \E i \in (b + 1)..Len(ser.head) : InHead(t, i)
               \/ \E c \in (a + 1)..Len(ser.chunks) : InChunk(t, c)
  <2>1. /\ r.chunks \in Seq(Chunk) /\ Len(r.chunks) = Len(ser.chunks) - a
        /\ \A c \in 1..(Len(ser.chunks) - a) : r.chunks[c] = ser.chunks[a + c]
        /\ r.head \in Seq(Int) /\ Len(r.head) = Len(ser.head) - b
        /\ \A i \in 1..(Len(ser.head) - b) : r.head[i] = ser.head[b + i]
    BY <1>1, <1>2, DropFirstProperties
  <2>2. r \in Series
    BY <1>2, <2>1 DEF Series
  <2>3. ASSUME NEW t
        PROVE  (\E i \in 1..Len(r.head) : t = r.head[i]) <=>
                 \E i \in (b + 1)..Len(ser.head) : InHead(t, i)
    <3>1. ASSUME NEW i \in 1..Len(r.head)
          PROVE  b + i \in (b + 1)..Len(ser.head) /\ r.head[i] = ser.head[b + i]
      <4>1. i \in 1..(Len(ser.head) - b)
        BY <2>1
      <4>2. b + i \in (b + 1)..Len(ser.head)
        BY <1>1, <4>1
      <4> QED
        BY <2>1, <4>1, <4>2
    <3>2. ASSUME NEW i \in (b + 1)..Len(ser.head)
          PROVE  i - b \in 1..Len(r.head) /\ r.head[i - b] = ser.head[i]
      <4>1. i - b \in 1..(Len(ser.head) - b) /\ b + (i - b) = i
        BY <1>1
      <4>2. r.head[i - b] = ser.head[b + (i - b)]
        BY <2>1, <4>1
      <4> QED
        BY <2>1, <4>1, <4>2
    <3> QED
      BY <3>1, <3>2
  <2>4. ASSUME NEW t
        PROVE  (\E c \in 1..Len(r.chunks) :
                  \E i \in 1..Len(r.chunks[c].samples) : t = r.chunks[c].samples[i])
                 <=> \E c \in (a + 1)..Len(ser.chunks) : InChunk(t, c)
    <3>1. ASSUME NEW c \in 1..Len(r.chunks)
          PROVE  a + c \in (a + 1)..Len(ser.chunks) /\ r.chunks[c] = ser.chunks[a + c]
      <4>1. c \in 1..(Len(ser.chunks) - a)
        BY <2>1
      <4>2. a + c \in (a + 1)..Len(ser.chunks)
        BY <1>1, <4>1
      <4> QED
        BY <2>1, <4>1, <4>2
    <3>2. ASSUME NEW c \in (a + 1)..Len(ser.chunks)
          PROVE  c - a \in 1..Len(r.chunks) /\ r.chunks[c - a] = ser.chunks[c]
      <4>1. c - a \in 1..(Len(ser.chunks) - a) /\ a + (c - a) = c
        BY <1>1
      <4>2. r.chunks[c - a] = ser.chunks[a + (c - a)]
        BY <2>1, <4>1
      <4> QED
        BY <2>1, <4>1, <4>2
    <3> DEFINE Holds(chunk) == \E i \in 1..Len(chunk.samples) : t = chunk.samples[i]
    <3>3. (\E c \in 1..Len(r.chunks) : Holds(r.chunks[c]))
            <=> \E c \in (a + 1)..Len(ser.chunks) : Holds(ser.chunks[c])
      <4> HIDE DEF Holds
      <4> QED
        BY <3>1, <3>2
    <3> QED
      BY <3>3
  <2> DEFINE OfHead(x, t)   == \E i \in 1..Len(x.head) : t = x.head[i]
             OfChunks(x, t) == \E c \in 1..Len(x.chunks) :
                                 \E i \in 1..Len(x.chunks[c].samples) :
                                   t = x.chunks[c].samples[i]
             Later(t)       == \E i \in (b + 1)..Len(ser.head) : InHead(t, i)
             LaterChunks(t) == \E c \in (a + 1)..Len(ser.chunks) : InChunk(t, c)
  <2>5. \A x \in Series : \A t : t \in Times(x) <=> OfHead(x, t) \/ OfChunks(x, t)
    BY TimesOf
  <2>6. \A t : OfHead(r, t) <=> Later(t)
    BY <2>3
  <2>7. \A t : OfChunks(r, t) <=> LaterChunks(t)
    BY <2>4
  <2>8. \A t : t \in Times(r) <=> Later(t) \/ LaterChunks(t)
    <3> HIDE DEF OfHead, OfChunks, Later, LaterChunks
    <3> QED
      BY <2>2, <2>5, <2>6, <2>7
  <2> QED
    BY <2>8
\* The samples of a chunk are between the times in its header.
<1>5. ASSUME NEW c \in 1..Len(ser.chunks), NEW t, InChunk(t, c)
      PROVE  t \in Int /\ ser.chunks[c].first_t <= t /\ t <= ser.chunks[c].last_t
  BY <1>1, <1>5, ChunkHeader
<1>6. Times(r) \subseteq Times(ser)
  <2>1. (b + 1)..Len(ser.head) \subseteq 1..Len(ser.head)
        /\ (a + 1)..Len(ser.chunks) \subseteq 1..Len(ser.chunks)
    BY <1>1
  <2> QED
    BY <1>3, <1>4, <2>1
<1>7. ASSUME NEW t \in Times(ser) \ Times(r)
      PROVE  /\ t \in Int /\ t < cutoff
             /\ \/ \E i \in 1..b : InHead(t, i)
                \/ \E c \in 1..a : InChunk(t, c)
  <2>1. \/ \E i \in 1..b : InHead(t, i)
        \/ \E c \in 1..a : InChunk(t, c)
    <3>1. /\ \A i \in 1..Len(ser.head) : i \in 1..b \/ i \in (b + 1)..Len(ser.head)
          /\ \A c \in 1..Len(ser.chunks) : c \in 1..a \/ c \in (a + 1)..Len(ser.chunks)
      BY <1>1
    <3> QED
      BY <1>3, <1>4, <3>1
  <2>2. CASE \E i \in 1..b : InHead(t, i)
    <3>1. PICK i \in 1..b : t = ser.head[i]
      BY <2>2
    <3>2. i \in 1..Len(ser.head) /\ ser.head[i] < cutoff
      BY <1>1, <1>2 DEF IsBoundary
    <3> QED
      BY <1>1, <2>1, <3>1, <3>2
  <2>3. CASE \E c \in 1..a : InChunk(t, c)
    <3>1. PICK c \in 1..a : InChunk(t, c)
      BY <2>3
    <3>2. c \in 1..Len(ser.chunks) /\ ser.chunks[c].last_t < cutoff
      BY <1>1, <1>2
    <3>3. t \in Int /\ t <= ser.chunks[c].last_t /\ ser.chunks[c].last_t \in Int
      BY <1>1, <1>5, <3>1, <3>2
    <3> QED
      BY <2>1, <3>2, <3>3
  <2> QED
    BY <2>1, <2>2, <2>3
<1>8. ASSUME NEW t \in Times(ser) \ Times(r), NEW u \in Times(r)
      PROVE  t < u
  <2>1. t \in Int /\ t < cutoff
    BY <1>7
  <2>2. CASE \E i \in (b + 1)..Len(ser.head) : InHead(u, i)
    <3>1. PICK i \in (b + 1)..Len(ser.head) : u = ser.head[i]
      BY <2>2
    <3>2. u \in Int /\ u >= cutoff
      BY <1>1, <1>2, <3>1 DEF IsBoundary
    <3> QED
      BY <2>1, <3>2
  <2>3. CASE \E d \in (a + 1)..Len(ser.chunks) : InChunk(u, d)
    <3>1. PICK d \in (a + 1)..Len(ser.chunks) : InChunk(u, d)
      BY <2>3
    <3>2. /\ d \in 1..Len(ser.chunks) /\ ser.chunks[d].last_t >= cutoff
          /\ ser.chunks[d].first_t \in Int /\ ser.chunks[d].last_t \in Int
      BY <1>1, <1>2
    <3>3. u \in Int /\ ser.chunks[d].first_t <= u
      BY <1>5, <3>1, <3>2
    <3>4. CASE \E c \in 1..a : InChunk(t, c)
      <4>1. PICK c \in 1..a : InChunk(t, c)
        BY <3>4
      <4>2. c \in 1..Len(ser.chunks) /\ c < d
        BY <1>1
      <4>3. ser.chunks[c].last_t < ser.chunks[d].first_t
        BY <3>2, <4>2 DEF WellFormedSeries
      <4>4. t <= ser.chunks[c].last_t /\ ser.chunks[c].last_t \in Int
        BY <1>1, <1>5, <4>1, <4>2
      <4> QED
        BY <2>1, <3>2, <3>3, <4>3, <4>4
    <3>5. ~(\E i \in 1..b : InHead(t, i))
      <4> SUFFICES ASSUME NEW i \in 1..b, t = ser.head[i] PROVE FALSE
        OBVIOUS
      <4>1. i \in 1..Len(ser.head)
        BY <1>1
      <4>2. ser.chunks[d].last_t < ser.head[i]
        BY <3>2, <4>1 DEF WellFormedSeries
      <4> QED
        BY <2>1, <3>2, <4>2
    <3> QED
      BY <1>7, <3>4, <3>5
  <2> QED
    BY <1>4, <2>2, <2>3
<1>9. ASSUME \A t \in Times(ser) : t < cutoff
      PROVE  Times(r) = {}
  <2> SUFFICES ASSUME NEW u \in Times(r) PROVE FALSE
    OBVIOUS
  <2>1. CASE \E i \in (b + 1)..Len(ser.head) : InHead(u, i)
    <3>1. PICK i \in (b + 1)..Len(ser.head) : u = ser.head[i]
      BY <2>1
    <3>2. u \in Int /\ u >= cutoff /\ u < cutoff
      BY <1>1, <1>2, <1>6, <1>9, <3>1 DEF IsBoundary
    <3> QED
      BY <3>2
  <2>2. CASE \E d \in (a + 1)..Len(ser.chunks) : InChunk(u, d)
    <3>1. PICK d \in (a + 1)..Len(ser.chunks) : InChunk(u, d)
      BY <2>2
    <3> DEFINE samples == ser.chunks[d].samples
               newest  == samples[Len(samples)]
    <3>2. d \in 1..Len(ser.chunks) /\ ser.chunks[d].last_t >= cutoff
      BY <1>1, <1>2
    <3>3. newest = ser.chunks[d].last_t
      BY <3>2 DEF WellFormedSeries, WellFormedChunk, LastOf
    <3>4. Len(samples) \in 1..Len(samples)
      BY <1>1, <3>1, <3>2
    <3>5. newest \in Times(ser)
      BY <1>3, <3>2, <3>4
    <3>6. newest \in Int
      BY <1>1, <3>2, <3>3
    <3> HIDE DEF newest
    <3> QED
      BY <1>9, <3>2, <3>3, <3>5, <3>6
  <2> QED
    BY <1>4, <2>1, <2>2
<1> QED
  BY <1>6, <1>7, <1>8, <1>9 DEF Contract!Aged, r

-----------------------------------------------------------------------------
\* A pass begins: the log stays as it is.
LEMMA BeginPassRefines ==
  ASSUME IInv, NEW t \in 0..MaxTime, BeginPass(t)
  PROVE  Contract!Begin
<1>1. Held' = Held
  BY DEF BeginPass, Held, Live
<1> QED
  BY <1>1 DEF BeginPass, Contract!Begin

\* A sample for a series the store has is recorded, or it changes nothing.
LEMMA AppendExistingRefines ==
  ASSUME IInv, NEW k \in Keys, AppendExisting(k)
  PROVE  Contract!Record(k) \/ UNCHANGED Contract!vars
<1>1. /\ inPass /\ k \in Live /\ UNCHANGED <<started, inPass>>
      /\ started \in Int
      /\ series[k] \in Series /\ WellFormedSeries(series[k])
  BY DEF AppendExisting, IInv, TypeOK, SeriesSound, Sound
<1>2. CASE ~Accepts(series[k], started)
  <2>1. series' = series
    BY <1>2 DEF AppendExisting
  <2>2. Held' = Held
    BY <2>1 DEF Held, Live
  <2> QED
    BY <1>1, <2>2 DEF Contract!vars
<1>3. CASE Accepts(series[k], started)
  <2>1. series' = [series EXCEPT ![k] = Push(series[k], started)]
    BY <1>3 DEF AppendExisting
  <2>2. Held' = [Held EXCEPT ![k] = @ \cup {started}]
    <3>1. /\ Live' = Live
          /\ series'[k] = Push(series[k], started)
          /\ \A x \in Live : x # k => series'[x] = series[x]
      BY <1>1, <2>1 DEF Live
    <3>2. Times(series'[k]) = Times(series[k]) \cup {started}
      BY <1>1, <3>1, PushTimes
    <3> QED
      BY <1>1, <3>1, <3>2 DEF Held
  <2>3. \A t \in Held[k] : t < started
    BY <1>1, <1>3, AcceptedIsNewest DEF Held
  <2> QED
    BY <1>1, <2>2, <2>3 DEF Contract!Record
<1> QED
  BY <1>2, <1>3

\* A sample for a new series is the first of its log.
LEMMA AppendNewRefines ==
  ASSUME IInv, NEW k \in Keys, AppendNew(k)
  PROVE  Contract!Record(k)
<1>1. /\ inPass /\ k \notin Live /\ UNCHANGED <<started, inPass>>
      /\ started \in Int
  BY DEF AppendNew, IInv, TypeOK
<1>2. Held[k] = {}
  BY <1>1 DEF Held
<1>3. Times(Push(EmptySeries, started)) = {started}
  BY <1>1, EmptySound, PushTimes, TimesOfEmpty DEF Sound
<1>4. /\ Live' = Live \cup {k}
      /\ series'[k] = Push(EmptySeries, started)
      /\ \A x \in Live : series'[x] = series[x]
  BY <1>1 DEF AppendNew, Live
<1>5. Held' = [Held EXCEPT ![k] = @ \cup {started}]
  BY <1>1, <1>2, <1>3, <1>4 DEF Held
<1> QED
  BY <1>1, <1>2, <1>5 DEF Contract!Record

\* The end of a pass ages every log.
LEMMA EndPassRefines ==
  ASSUME IInv, EndPass
  PROVE  Contract!Age
<1> DEFINE cutoff  == started - Retention
           cut(k)  == PruneSeries(series[k], cutoff)
           emptied == {k \in Live : IsEmpty(cut(k))}
<1>1. /\ inPass /\ inPass' = FALSE /\ started' = started
      /\ cutoff \in Int
  BY SeriesAssumption DEF EndPass, IInv, TypeOK
<1>2. series' = [k \in Live \ emptied |-> cut(k)]
  BY DEF EndPass
<1>3. /\ Live' = Live \ emptied
      /\ \A k \in Live \ emptied : series'[k] = cut(k)
  BY <1>2 DEF Live
<1>4. ASSUME NEW k \in Keys
      PROVE  Contract!Aged(Held[k], Held'[k], cutoff)
  <2>1. CASE k \notin Live
    <3>1. Held[k] = {} /\ Held'[k] = {}
      BY <1>3, <2>1 DEF Held
    <3> QED
      BY <3>1 DEF Contract!Aged
  <2>2. CASE k \in Live
    <3>1. Held[k] = Times(series[k])
      BY <2>2 DEF Held
    <3>2. Held'[k] = Times(cut(k))
      <4>1. CASE k \in emptied
        <5>1. Times(cut(k)) = {}
          BY <4>1, TimesOfEmpty
        <5> QED
          BY <1>3, <4>1, <5>1 DEF Held
      <4>2. CASE k \notin emptied
        BY <1>3, <2>2, <4>2 DEF Held
      <4> QED
        BY <4>1, <4>2
    <3>3. series[k] \in Series /\ WellFormedSeries(series[k])
      BY <2>2 DEF IInv, SeriesSound, Sound
    <3> QED
      BY <1>1, <3>1, <3>2, <3>3, PruneTimes
  <2> QED
    BY <2>1, <2>2
<1>5. DOMAIN Held' = Keys
  BY DEF Held
<1> QED
  BY <1>1, <1>4, <1>5 DEF Contract!Age

\* Whatever the collector and its clock do, each series reads as a log that
\* grows at the new end, is forgotten from the old end and never loses a
\* sample inside the window (src/store.rs: append, push, prune).
THEOREM Refinement == Spec => ImplementsLog
<1>1. Init => Contract!Init
  <2> SUFFICES ASSUME Init PROVE Contract!Init
    OBVIOUS
  <2>1. Held = [k \in Keys |-> {}]
    BY DEF Init, Held, Live
  <2> QED
    BY <2>1 DEF Init, Contract!Init
<1>2. IInv /\ [Next]_vars => [Contract!Next]_Contract!vars
  <2> SUFFICES ASSUME IInv, [Next]_vars PROVE [Contract!Next]_Contract!vars
    OBVIOUS
  <2>1. CASE \E t \in 0..MaxTime : BeginPass(t)
    BY <2>1, BeginPassRefines DEF Contract!Next
  <2>2. CASE \E k \in Keys : AppendExisting(k)
    BY <2>2, AppendExistingRefines DEF Contract!Next
  <2>3. CASE \E k \in Keys : AppendNew(k)
    BY <2>3, AppendNewRefines DEF Contract!Next
  <2>4. CASE EndPass
    BY <2>4, EndPassRefines DEF Contract!Next
  <2>5. CASE UNCHANGED vars
    BY <2>5 DEF vars, Held, Live, Contract!vars
  <2> QED
    BY <2>1, <2>2, <2>3, <2>4, <2>5 DEF Next
<1> QED
  BY <1>1, <1>2, Invariance, PTL DEF Spec, ImplementsLog, Contract!Spec

=============================================================================
