---------------------------- MODULE QueryProofs -----------------------------
(***************************************************************************)
(* What queries can rely on, whatever the collector has done to the store: *)
(* the reads of a series are exact, a selector finds its series, discovery *)
(* offers what it finds; what the bound on the points of a range query is  *)
(* worth; sums lose nothing and count nothing twice; and a query that      *)
(* names its metrics has one answer.                                       *)
(***************************************************************************)
EXTENDS QueryApi, SampleStoreProofs

\* m is the newest of the timestamps at or before t.
NewestUpTo(times, t, m) ==
  m \in times /\ m <= t /\ \A x \in times : x <= t => x <= m

\* Whatever is newest is the answer, if it is in reach.
LEMMA NewestInReach ==
  ASSUME NEW times, times \subseteq Int, NEW t \in Int, NEW lookback \in Int,
         NEW m, NewestUpTo(times, t, m)
  PROVE  LET reach == {x \in times : x <= t /\ t - x <= lookback}
         IN  IF t - m <= lookback THEN reach # {} /\ Max(reach) = m ELSE reach = {}
<1> DEFINE reach == {x \in times : x <= t /\ t - x <= lookback}
<1>1. m \in Int /\ m \in times /\ m <= t /\ \A x \in times : x <= t => x <= m
  BY DEF NewestUpTo
<1>2. CASE t - m <= lookback
  <2>1. m \in reach /\ \A y \in reach : m >= y
    BY <1>1, <1>2
  <2>2. \A x \in reach : x \in Int /\ ((\A y \in reach : x >= y) => x = m)
    BY <1>1, <2>1
  <2>3. Max(reach) = m
    <3> HIDE DEF reach
    <3>1. \E x \in reach : \A y \in reach : x >= y
      BY <2>1
    <3>2. Max(reach) \in reach /\ \A y \in reach : Max(reach) >= y
      BY <3>1 DEF Max
    <3> QED
      BY <2>2, <3>2
  <2> QED
    BY <1>2, <2>1, <2>3
<1>3. CASE ~(t - m <= lookback)
  <2>1. \A x \in times : x \in Int
    OBVIOUS
  <2>2. \A x \in times : ~(x <= t /\ t - x <= lookback)
    BY <1>1, <1>3, <2>1
  <2>3. reach = {}
    BY <2>2
  <2> QED
    BY <1>3, <2>3
<1> QED
  BY <1>2, <1>3

\* A binary search for t in an ascending sequence that starts at or before it
\* finds the newest.
LEMMA SearchFindsNewest ==
  ASSUME NEW s \in Seq(Int), Ascending(s), NEW t \in Int
  PROVE  LET n == Boundary(s, t + 1)
         IN  /\ n \in 0..Len(s)
             /\ n = 0 => \A i \in 1..Len(s) : s[i] > t
             /\ n > 0 => NewestUpTo(Elements(s), t, s[n])
<1> DEFINE n == Boundary(s, t + 1)
<1>1. Len(s) \in Nat /\ DOMAIN s = 1..Len(s) /\ \A i \in 1..Len(s) : s[i] \in Int
  BY LenProperties, ElementOfSeq
<1>2. NonDecreasing(s)
  BY <1>1 DEF NonDecreasing, Ascending
<1>3. n \in 0..Len(s) /\ IsBoundary(s, t + 1, n)
  BY <1>2, BoundaryFound
<1> HIDE DEF n
<1>4. /\ \A i \in 1..n : s[i] < t + 1
      /\ \A i \in (n + 1)..Len(s) : s[i] >= t + 1
  BY <1>3 DEF IsBoundary
<1>5. n = 0 => \A i \in 1..Len(s) : s[i] > t
  BY <1>1, <1>4
<1>6. ASSUME n > 0 PROVE NewestUpTo(Elements(s), t, s[n])
  <2>1. n \in 1..Len(s) /\ s[n] \in Int /\ s[n] <= t
    BY <1>1, <1>3, <1>4, <1>6
  <2>2. \A i \in 1..Len(s) : s[i] <= t => s[i] <= s[n]
    BY <1>1, <1>3, <1>4, <2>1 DEF Ascending
  <2> QED
    BY <1>1, <2>1, <2>2 DEF NewestUpTo, Elements
<1> QED
  BY <1>3, <1>5, <1>6 DEF n

\* The newest sample of the last chunk that starts at or before t is the
\* newest of the series, when the head has none.
LEMMA LastStartedHasNewest ==
  ASSUME NEW ser \in Series, WellFormedSeries(ser), NEW t \in Int,
         \A i \in 1..Len(ser.head) : ser.head[i] > t,
         NEW c \in 1..Len(ser.chunks), ser.chunks[c].first_t <= t,
         \A d \in 1..Len(ser.chunks) : ser.chunks[d].first_t <= t => d <= c,
         NEW m, NewestUpTo(Elements(ser.chunks[c].samples), t, m)
  PROVE  NewestUpTo(Times(ser), t, m)
<1>1. m \in Times(ser) /\ m \in Int /\ m <= t
  BY TimesInParts DEF NewestUpTo
<1>2. ser.chunks[c].first_t \in Int /\ ser.chunks[c].first_t <= m
  <2>1. PICK i \in 1..Len(ser.chunks[c].samples) : m = ser.chunks[c].samples[i]
    BY SeriesParts DEF NewestUpTo, Elements
  <2> QED
    BY <2>1, ChunkHeader, SeriesParts
<1>3. ASSUME NEW d \in 1..Len(ser.chunks),
             NEW i \in 1..Len(ser.chunks[d].samples),
             ser.chunks[d].samples[i] <= t
      PROVE  ser.chunks[d].samples[i] <= m
  <2>0. /\ Len(ser.chunks) \in Nat
        /\ ser.chunks[d].samples[i] \in Int
        /\ ser.chunks[d].first_t \in Int /\ ser.chunks[d].last_t \in Int
    BY SeriesParts
  <2>1. /\ ser.chunks[d].first_t <= ser.chunks[d].samples[i]
        /\ ser.chunks[d].samples[i] <= ser.chunks[d].last_t
    BY ChunkHeader
  <2>2. d <= c
    BY <1>3, <2>0, <2>1
  <2>3. CASE d = c
    BY <1>3, <2>3, SeriesParts DEF NewestUpTo, Elements
  <2>4. CASE d < c
    <3>1. ser.chunks[d].last_t < ser.chunks[c].first_t
      BY <2>4 DEF WellFormedSeries
    <3> DEFINE x == ser.chunks[d].samples[i]
               p == ser.chunks[d].last_t
               q == ser.chunks[c].first_t
    <3>2. m \in Int /\ q \in Int /\ q <= m
      BY <1>1, <1>2
    <3>3. x \in Int /\ p \in Int /\ x <= p
      BY <2>0, <2>1
    <3> HIDE DEF x, p, q
    <3>4. p < q
      BY <3>1 DEF p, q
    <3>5. x <= m
      BY <3>2, <3>3, <3>4
    <3> QED
      BY <3>5 DEF x
  <2> QED
    BY <2>0, <2>2, <2>3, <2>4
<1>4. \A x \in Times(ser) : x <= t => x <= m
  <2> SUFFICES ASSUME NEW x \in Times(ser), x <= t PROVE x <= m
    OBVIOUS
  <2>1. \A i \in 1..Len(ser.head) : ser.head[i] \in Int /\ ~(ser.head[i] <= t)
    BY SeriesParts
  <2>2. PICK d \in 1..Len(ser.chunks) :
          \E i \in 1..Len(ser.chunks[d].samples) : x = ser.chunks[d].samples[i]
    BY <2>1, TimesInParts
  <2> QED
    BY <1>3, <2>2
<1> QED
  BY <1>1, <1>4 DEF NewestUpTo

\* The newest sample of the head is the newest of the series: the chunks are
\* all older.
LEMMA HeadHasNewest ==
  ASSUME NEW ser \in Series, WellFormedSeries(ser), NEW t \in Int,
         NEW m, NewestUpTo(Elements(ser.head), t, m)
  PROVE  NewestUpTo(Times(ser), t, m)
<1>1. PICK j \in 1..Len(ser.head) : m = ser.head[j]
  BY SeriesParts DEF NewestUpTo, Elements
<1>2. m \in Times(ser) /\ m \in Int /\ m <= t
  BY TimesInParts DEF NewestUpTo
<1>3. \A c \in 1..Len(ser.chunks) : \A i \in 1..Len(ser.chunks[c].samples) :
        ser.chunks[c].samples[i] <= m
  <2> SUFFICES ASSUME NEW c \in 1..Len(ser.chunks),
                      NEW i \in 1..Len(ser.chunks[c].samples)
               PROVE  ser.chunks[c].samples[i] <= m
    OBVIOUS
  <2>1. ser.chunks[c].samples[i] <= ser.chunks[c].last_t
    BY ChunkHeader
  <2>2. ser.chunks[c].last_t < ser.head[j]
    BY DEF WellFormedSeries
  <2>3. /\ ser.chunks[c].samples[i] \in Int /\ ser.chunks[c].last_t \in Int
        /\ ser.head[j] \in Int
    BY SeriesParts
  <2> QED
    BY <1>1, <2>1, <2>2, <2>3
<1>4. \A i \in 1..Len(ser.head) : ser.head[i] <= t => ser.head[i] <= m
  BY SeriesParts DEF NewestUpTo, Elements
<1>5. ASSUME NEW x \in Times(ser), x <= t PROVE x <= m
  <2>1. CASE \E i \in 1..Len(ser.head) : x = ser.head[i]
    BY <1>4, <1>5, <2>1
  <2>2. CASE \E c \in 1..Len(ser.chunks) : \E i \in 1..Len(ser.chunks[c].samples) :
               x = ser.chunks[c].samples[i]
    BY <1>3, <2>2
  <2> QED
    BY <2>1, <2>2, TimesInParts
<1> QED
  BY <1>2, <1>5 DEF NewestUpTo

\* A non-empty set of positions has a last one.
LEMMA LastPosition ==
  ASSUME NEW n \in Nat, NEW T, T \subseteq 1..n, T # {}
  PROVE  Max(T) \in T /\ \A c \in T : c <= Max(T)
<1> DEFINE fromEnd == {n - c : c \in T}
<1>1. fromEnd \subseteq Nat /\ fromEnd # {}
  <2>1. \A c \in T : c \in Int /\ n - c \in Nat
    OBVIOUS
  <2> QED
    BY <2>1
<1>2. PICK k \in fromEnd : \A j \in fromEnd : k <= j
  <2> HIDE DEF fromEnd
  <2> QED
    BY <1>1, LeastNatural
<1>3. PICK m \in T : k = n - m
  BY <1>2
<1>4. \A c \in T : m >= c
  <2> SUFFICES ASSUME NEW c \in T PROVE m >= c
    OBVIOUS
  <2>1. n - m <= n - c
    BY <1>2, <1>3
  <2>2. m \in Int /\ c \in Int
    OBVIOUS
  <2> QED
    BY <2>1, <2>2
<1>5. Max(T) \in T /\ \A c \in T : Max(T) >= c
  BY <1>4 DEF Max
<1> QED
  BY <1>5

\* Series::value_at (src/store.rs:69) answers with the newest sample at or
\* before t, if that is within the lookback, for any well-formed series.
LEMMA ValueAtOfWellFormed ==
  ASSUME NEW ser \in Series, WellFormedSeries(ser), NEW t \in Int,
         NEW lookback \in Int
  PROVE  ValueAtExact(ser, t, lookback)
<1> DEFINE n      == Boundary(ser.head, t + 1)
           starts == {c \in DOMAIN ser.chunks : ser.chunks[c].first_t <= t}
           reach  == {x \in Times(ser) : x <= t /\ t - x <= lookback}
<1>1. /\ ser.head \in Seq(Int) /\ Ascending(ser.head)
      /\ Len(ser.chunks) \in Nat /\ DOMAIN ser.chunks = 1..Len(ser.chunks)
  BY SeriesParts DEF WellFormedSeries
<1>2. /\ n \in 0..Len(ser.head)
      /\ n = 0 => \A i \in 1..Len(ser.head) : ser.head[i] > t
      /\ n > 0 => NewestUpTo(Elements(ser.head), t, ser.head[n])
  BY <1>1, SearchFindsNewest
<1>3. Times(ser) \subseteq Int
  BY TimesInParts
<1>4. \A m : NewestUpTo(Times(ser), t, m) =>
        (IF t - m <= lookback THEN {m} ELSE NoSample) =
          IF reach = {} THEN NoSample ELSE {Max(reach)}
  BY <1>3, NewestInReach
<1>5. CASE n > 0
  <2>1. NewestUpTo(Times(ser), t, ser.head[n])
    BY <1>2, <1>5, HeadHasNewest
  <2>2. ValueAt(ser, t, lookback) =
          IF t - ser.head[n] <= lookback THEN {ser.head[n]} ELSE NoSample
    BY <1>5 DEF ValueAt, Newest
  <2> QED
    BY <1>4, <2>1, <2>2 DEF ValueAtExact
<1>6. CASE n = 0 /\ starts # {}
  <2> DEFINE c == Max(starts)
             s == ser.chunks[c].samples
             k == Boundary(s, t + 1)
  <2>1. c \in starts /\ \A d \in starts : d <= c
    BY <1>1, <1>6, LastPosition
  <2>2. c \in 1..Len(ser.chunks) /\ ser.chunks[c].first_t <= t
    BY <1>1, <2>1
  <2>3. s \in Seq(Int) /\ Ascending(s) /\ Len(s) >= 1 /\ s[1] <= t
    BY <2>2, SeriesParts, ChunkHeader DEF WellFormedSeries, WellFormedChunk
  <2>4. /\ k \in 0..Len(s)
        /\ k = 0 => \A i \in 1..Len(s) : s[i] > t
        /\ k > 0 => NewestUpTo(Elements(s), t, s[k])
    BY <2>3, SearchFindsNewest
  <2>5. k > 0 /\ NewestUpTo(Elements(s), t, s[k])
    <3> HIDE DEF s, k
    <3>1. Len(s) \in Nat /\ s[1] \in Int
      BY <2>3, LenProperties, ElementOfSeq
    <3>2. 1 \in 1..Len(s) /\ ~(s[1] > t)
      BY <2>3, <3>1
    <3>3. k > 0
      BY <2>4, <3>1, <3>2
    <3> QED
      BY <2>4, <3>3
  <2>6. NewestUpTo(Times(ser), t, s[k])
    BY <1>1, <1>2, <1>6, <2>1, <2>2, <2>5, LastStartedHasNewest
  <2>7. ValueAt(ser, t, lookback) = Newest(s, k, t, lookback)
    <3>1. ~(n > 0)
      BY <1>6
    <3> QED
      BY <1>6, <3>1, Zenon DEF ValueAt
  <2>8. ValueAt(ser, t, lookback) =
          IF t - s[k] <= lookback THEN {s[k]} ELSE NoSample
    <3> HIDE DEF s, k
    <3> QED
      BY <2>5, <2>7 DEF Newest
  <2> QED
    BY <1>4, <2>6, <2>8 DEF ValueAtExact
<1>7. CASE n = 0 /\ starts = {}
  <2>1. \A i \in 1..Len(ser.head) : ~(ser.head[i] <= t)
    BY <1>2, <1>7, SeriesParts
  <2>2. ASSUME NEW c \in 1..Len(ser.chunks), NEW i \in 1..Len(ser.chunks[c].samples)
        PROVE  ~(ser.chunks[c].samples[i] <= t)
    <3>1. ser.chunks[c].first_t <= ser.chunks[c].samples[i]
      BY ChunkHeader
    <3>2. ~(ser.chunks[c].first_t <= t)
      BY <1>1, <1>7
    <3>3. ser.chunks[c].first_t \in Int /\ ser.chunks[c].samples[i] \in Int
      BY SeriesParts
    <3> QED
      BY <3>1, <3>2, <3>3
  <2>3. reach = {}
    BY <2>1, <2>2, TimesInParts
  <2>4. ValueAt(ser, t, lookback) = NoSample
    BY <1>7 DEF ValueAt
  <2> QED
    BY <2>3, <2>4 DEF ValueAtExact
<1> QED
  BY <1>2, <1>5, <1>6, <1>7

-----------------------------------------------------------------------------
\* The loop of Decoded, chunk by chunk.
DecodesBy(f, chunks, start, t) ==
  /\ f \in [0..Len(chunks) -> Seq(Int)]
  /\ Decoded(chunks, start, t) = f[Len(chunks)]
  /\ f[0] = <<>>
  /\ \A c \in 1..Len(chunks) :
       f[c] = IF chunks[c].last_t <= start \/ chunks[c].first_t > t THEN f[c - 1]
              ELSE f[c - 1] \o chunks[c].samples

LEMMA DecodedLoop ==
  ASSUME NEW chunks \in Seq(Chunk), NEW start, NEW t
  PROVE  \E f : DecodesBy(f, chunks, start, t)
<1> DEFINE n == Len(chunks)
           Extend(c, out) ==
             IF chunks[c].last_t <= start \/ chunks[c].first_t > t THEN out
             ELSE out \o chunks[c].samples
           step == [p \in (1..n) \X Seq(Int) |-> Extend(p[1], p[2])]
           Body(f) == [c \in 0..n |-> IF c = 0 THEN <<>> ELSE Extend(c, f[c - 1])]
<1>1. n \in Nat /\ \A c \in 1..n : chunks[c].samples \in Seq(Int)
  <2>1. Len(chunks) \in Nat /\ \A c \in 1..Len(chunks) : chunks[c] \in Chunk
    BY LenProperties, ElementOfSeq
  <2> QED
    BY <2>1 DEF Chunk
<1>2. \A c \in 1..n, out \in Seq(Int) : Extend(c, out) \in Seq(Int)
  BY <1>1
<1>3. Decoded(chunks, start, t) = (CHOOSE h : h = Body(h))[n]
  BY DEF Decoded
<1> HIDE DEF Extend, n
<1>4. <<>> \in Seq(Int)
  OBVIOUS
<1>5. PICK f : IsLoop(f, Seq(Int), <<>>, n, step)
  <2>1. step \in [(1..n) \X Seq(Int) -> Seq(Int)]
    BY <1>2
  <2> HIDE DEF step
  <2> QED
    BY <1>1, <1>4, <2>1, LoopExists
<1>6. ASSUME NEW c \in 1..n PROVE f[c] = Extend(c, f[c - 1])
  <2>1. f[c - 1] \in Seq(Int)
    BY <1>1, <1>5 DEF IsLoop
  <2> QED
    BY <1>5, <2>1 DEF IsLoop
<1>7. f = Body(f)
  BY <1>1, <1>5, <1>6 DEF IsLoop
<1> DEFINE g == CHOOSE h : h = Body(h)
<1>8. g = Body(g)
  <2> HIDE DEF Body
  <2> QED
    BY <1>7
<1> HIDE DEF g
<1>9. g[0] = <<>> /\ \A c \in 1..n : g[c] = Extend(c, g[c - 1])
  BY <1>1, <1>8
<1>10. \A c \in 0..n : g[c] \in Seq(Int)
  <2> DEFINE T == {c \in 0..n : g[c] \in Seq(Int)}
  <2>1. 0 \in T
    <3>1. g[0] \in Seq(Int)
      BY <1>4, <1>9
    <3> QED
      BY <1>1, <3>1
  <2>2. \A c \in 1..n : c - 1 \in T => c \in T
    BY <1>1, <1>2, <1>9
  <2> HIDE DEF T
  <2>3. 0..n \subseteq T
    BY <1>1, <2>1, <2>2, Ascent
  <2> QED
    BY <2>3 DEF T
<1>11. g \in [0..n -> Seq(Int)]
  BY <1>8, <1>10
<1> QED
  BY <1>3, <1>9, <1>11 DEF g, n, Extend, DecodesBy

\* Of the chunks of a well-formed series it decodes, in order, samples of
\* theirs, and none of those in the window are missing.
LEMMA DecodedInOrder ==
  ASSUME NEW ser \in Series, WellFormedSeries(ser), NEW start \in Int, NEW t \in Int
  PROVE  LET out == Decoded(ser.chunks, start, t)
         IN  /\ out \in Seq(Int) /\ Ascending(out)
             /\ \A x \in Elements(out) : \E c \in 1..Len(ser.chunks) :
                  x \in Elements(ser.chunks[c].samples)
             /\ \A c \in 1..Len(ser.chunks) :
                  \A x \in Elements(ser.chunks[c].samples) :
                    start < x /\ x <= t => x \in Elements(out)
<1> DEFINE n == Len(ser.chunks)
           SamplesOf(c) == Elements(ser.chunks[c].samples)
<1>0. /\ n \in Nat /\ ser.chunks \in Seq(Chunk)
      /\ \A c \in 1..n : /\ ser.chunks[c].samples \in Seq(Int)
                         /\ ser.chunks[c].first_t \in Int /\ ser.chunks[c].last_t \in Int
  BY SeriesParts
<1>1. ASSUME NEW c \in 1..n, NEW x \in SamplesOf(c)
      PROVE  x \in Int /\ ser.chunks[c].first_t <= x /\ x <= ser.chunks[c].last_t
  <2>1. PICK i \in 1..Len(ser.chunks[c].samples) : x = ser.chunks[c].samples[i]
    BY SeriesParts DEF Elements
  <2> QED
    BY <2>1, ChunkHeader, SeriesParts
<1> PICK f : DecodesBy(f, ser.chunks, start, t)
  BY <1>0, DecodedLoop
<1>2. /\ f \in [0..n -> Seq(Int)] /\ Decoded(ser.chunks, start, t) = f[n]
      /\ f[0] = <<>>
      /\ \A c \in 1..n :
           f[c] = IF ser.chunks[c].last_t <= start \/ ser.chunks[c].first_t > t
                  THEN f[c - 1] ELSE f[c - 1] \o ser.chunks[c].samples
  BY DEF DecodesBy
<1> HIDE DEF SamplesOf
<1> DEFINE Upto(c) == /\ Ascending(f[c])
                      /\ \A x \in Elements(f[c]) : \E d \in 1..c : x \in SamplesOf(d)
                      /\ \A d \in 1..c : \A x \in SamplesOf(d) :
                           start < x /\ x <= t => x \in Elements(f[c])
           T == {c \in 0..n : Upto(c)}
<1>3. 0 \in T
  <2>1. f[0] = <<>> /\ Len(f[0]) = 0 /\ DOMAIN f[0] = {}
    BY <1>2, EmptySeq
  <2>2. Ascending(f[0]) /\ Elements(f[0]) = {}
    BY <2>1 DEF Ascending, Elements
  <2> QED
    BY <1>0, <2>2
<1>4. ASSUME NEW c \in 1..n, c - 1 \in T PROVE c \in T
  <2>0. /\ c \in Nat /\ c \in 0..n /\ c - 1 \in 0..n
        /\ \A d \in 1..c : d \in 1..c - 1 \/ d = c
        /\ \A d \in 1..c - 1 : d \in 1..c /\ d \in 1..n /\ d < c
    BY <1>0
  <2>1. Upto(c - 1)
    BY <1>4
  <2>2. CASE ser.chunks[c].last_t <= start \/ ser.chunks[c].first_t > t
    <3>1. f[c] = f[c - 1]
      BY <1>2, <2>2
    <3>2. \A x \in SamplesOf(c) : ~(start < x /\ x <= t)
      BY <1>0, <1>1, <2>2
    <3> QED
      BY <2>0, <2>1, <3>1, <3>2
  <2>3. CASE ~(ser.chunks[c].last_t <= start \/ ser.chunks[c].first_t > t)
    <3> DEFINE q == f[c - 1]
               u == ser.chunks[c].samples
    <3>1. f[c] = q \o u /\ q \in Seq(Int) /\ u \in Seq(Int)
      BY <1>0, <1>2, <2>0, <2>3
    <3>2. Ascending(q) /\ Ascending(u)
      BY <2>1 DEF WellFormedSeries, WellFormedChunk
    <3>3. ASSUME NEW x \in Elements(q), NEW y \in Elements(u) PROVE x < y
      <4>1. PICK d \in 1..c - 1 : x \in SamplesOf(d)
        BY <2>1
      <4>2. d \in 1..n /\ ser.chunks[d].last_t < ser.chunks[c].first_t
        BY <2>0 DEF WellFormedSeries
      <4>3. y \in SamplesOf(c)
        BY DEF SamplesOf
      <4>4. /\ x \in Int /\ x <= ser.chunks[d].last_t
            /\ y \in Int /\ ser.chunks[c].first_t <= y
        BY <1>1, <4>1, <4>2, <4>3
      <4>5. ser.chunks[d].last_t \in Int /\ ser.chunks[c].first_t \in Int
        BY <1>0, <4>2
      <4> QED
        BY <4>2, <4>4, <4>5
    <3> HIDE DEF q, u
    <3>4. Ascending(f[c]) /\ Elements(f[c]) = Elements(q) \cup Elements(u)
      BY <3>1, <3>2, <3>3, ConcatAscending
    <3>5. Elements(u) = SamplesOf(c)
      BY DEF SamplesOf, u
    <3> QED
      BY <2>0, <2>1, <3>4, <3>5 DEF q
  <2> QED
    BY <2>2, <2>3
<1>5. n \in T
  <2>1. n \in 0..n
    BY <1>0
  <2> HIDE DEF T
  <2> QED
    BY <1>0, <1>3, <1>4, <2>1, Ascent
<1>6. Upto(n) /\ f[n] \in Seq(Int)
  BY <1>0, <1>2, <1>5
<1> QED
  BY <1>2, <1>6 DEF SamplesOf

\* Where the window begins and ends in an ascending head.
LEMMA WindowOfHead ==
  ASSUME NEW s \in Seq(Int), Ascending(s), NEW start \in Int, NEW t \in Int, start <= t
  PROVE  LET part == SubSeq(s, Boundary(s, start + 1) + 1, Boundary(s, t + 1))
         IN  /\ part \in Seq(Int) /\ Ascending(part)
             /\ Elements(part) = {x \in Elements(s) : start < x /\ x <= t}
<1> DEFINE a == Boundary(s, start + 1)
           b == Boundary(s, t + 1)
<1>1. /\ Len(s) \in Nat
      /\ \A i \in 1..Len(s) : s[i] \in Int /\ s[i] \in Elements(s)
      /\ \A x \in Elements(s) : \E i \in 1..Len(s) : x = s[i]
  BY ElementsOf
<1>2. NonDecreasing(s)
  BY <1>1 DEF NonDecreasing, Ascending
<1>3. /\ a \in 0..Len(s) /\ IsBoundary(s, start + 1, a)
      /\ b \in 0..Len(s) /\ IsBoundary(s, t + 1, b)
  BY <1>2, BoundaryFound
<1> HIDE DEF a, b
<1>4. /\ \A i \in 1..a : s[i] < start + 1
      /\ \A i \in (a + 1)..Len(s) : s[i] >= start + 1
      /\ \A i \in 1..b : s[i] < t + 1
      /\ \A i \in (b + 1)..Len(s) : s[i] >= t + 1
  BY <1>3 DEF IsBoundary
<1>5. a <= b
  <2> SUFFICES ASSUME a > b PROVE FALSE
    BY <1>1, <1>3
  <2>1. a \in 1..a /\ a \in (b + 1)..Len(s) /\ s[a] \in Int
    BY <1>1, <1>3
  <2> QED
    BY <1>4, <2>1
<1>6. b \in a..Len(s)
  BY <1>1, <1>3, <1>5
<1>7. {s[i] : i \in a + 1..b} = {x \in Elements(s) : start < x /\ x <= t}
  <2>1. \A i \in a + 1..b : i \in 1..Len(s) /\ start < s[i] /\ s[i] <= t
    <3> SUFFICES ASSUME NEW i \in a + 1..b
                 PROVE  i \in 1..Len(s) /\ start < s[i] /\ s[i] <= t
      OBVIOUS
    <3>1. i \in 1..Len(s) /\ i \in (a + 1)..Len(s) /\ i \in 1..b
      BY <1>1, <1>3
    <3> QED
      BY <1>1, <1>4, <3>1
  <2>2. ASSUME NEW i \in 1..Len(s), start < s[i], s[i] <= t
        PROVE  i \in a + 1..b
    <3>1. i \notin 1..a /\ i \notin (b + 1)..Len(s)
      BY <1>1, <1>4, <2>2
    <3> QED
      BY <1>1, <1>3, <3>1
  <2>3. ASSUME NEW x \in {s[i] : i \in a + 1..b}
        PROVE  x \in Elements(s) /\ x \in Int /\ start < x /\ x <= t
    <3>1. PICK i \in a + 1..b : x = s[i]
      OBVIOUS
    <3> QED
      BY <1>1, <2>1, <3>1
  <2>4. ASSUME NEW x \in Elements(s), start < x, x <= t
        PROVE  x \in {s[i] : i \in a + 1..b}
    <3>1. PICK i \in 1..Len(s) : x = s[i]
      BY <1>1
    <3> QED
      BY <2>2, <2>4, <3>1
  <2> QED
    BY <2>3, <2>4
<1> QED
  BY <1>3, <1>6, <1>7, SubSeqAscending DEF a, b

\* Series::range_at (src/store.rs:103) answers with exactly the samples of the
\* window, in order, for any well-formed series.
LEMMA RangeAtOfWellFormed ==
  ASSUME NEW ser \in Series, WellFormedSeries(ser), NEW t \in Int, NEW window \in Nat
  PROVE  RangeAt(ser, t, window) \in Seq(Int) /\ RangeAtExact(ser, t, window)
<1> DEFINE start == t - window
           W     == {x \in Int : x > start /\ x <= t}
           out   == Decoded(ser.chunks, start, t)
           old   == Retain(out, W)
           new   == SubSeq(ser.head, Boundary(ser.head, start + 1) + 1,
                                     Boundary(ser.head, t + 1))
<1>1. start \in Int /\ start <= t
  OBVIOUS
<1>2. /\ out \in Seq(Int) /\ Ascending(out)
      /\ \A x \in Elements(out) : \E c \in 1..Len(ser.chunks) :
           x \in Elements(ser.chunks[c].samples)
      /\ \A c \in 1..Len(ser.chunks) : \A x \in Elements(ser.chunks[c].samples) :
           start < x /\ x <= t => x \in Elements(out)
  <2> HIDE DEF start
  <2> QED
    BY <1>1, DecodedInOrder
<1>3. /\ ser.head \in Seq(Int) /\ Ascending(ser.head)
      /\ \A c \in 1..Len(ser.chunks) : ser.chunks[c].samples \in Seq(Int)
  BY SeriesParts DEF WellFormedSeries
<1>4. /\ old \in Seq(Int) /\ Ascending(old)
      /\ Elements(old) = Elements(out) \cap W
  <2> HIDE DEF out, W
  <2> QED
    BY <1>2, RetainAscending
<1>5. /\ new \in Seq(Int) /\ Ascending(new)
      /\ Elements(new) = {x \in Elements(ser.head) : start < x /\ x <= t}
  <2> HIDE DEF start
  <2> QED
    BY <1>1, <1>3, WindowOfHead
<1>6. RangeAt(ser, t, window) = old \o new
  BY DEF RangeAt
<1> HIDE DEF out, old, new
<1>7. ASSUME NEW x \in Elements(old), NEW y \in Elements(new) PROVE x < y
  <2>1. PICK c \in 1..Len(ser.chunks) : x \in Elements(ser.chunks[c].samples)
    BY <1>2, <1>4
  <2>2. PICK i \in 1..Len(ser.chunks[c].samples) : x = ser.chunks[c].samples[i]
    <3>1. ser.chunks[c].samples \in Seq(Int)
      BY <1>3
    <3> QED
      BY <2>1, <3>1, ElementsOf
  <2>3. PICK j \in 1..Len(ser.head) : y = ser.head[j]
    <3>1. ser.head \in Seq(Int) /\ y \in Elements(ser.head)
      BY <1>3, <1>5
    <3> DEFINE h == ser.head
    <3> HIDE DEF h
    <3>2. h \in Seq(Int) /\ y \in Elements(h)
      BY <3>1 DEF h
    <3>3. \E j \in 1..Len(h) : y = h[j]
      BY <3>2, ElementsOf
    <3> QED
      BY <3>3 DEF h
  <2>4. x <= ser.chunks[c].last_t /\ ser.chunks[c].last_t < y
    BY <2>2, <2>3, ChunkHeader DEF WellFormedSeries
  <2>5. x \in Int /\ y \in Int /\ ser.chunks[c].last_t \in Int
    BY <2>2, <2>3, SeriesParts
  <2> QED
    BY <2>4, <2>5
<1>8. /\ Ascending(old \o new)
      /\ Elements(old \o new) = Elements(old) \cup Elements(new)
  BY <1>4, <1>5, <1>7, ConcatAscending
<1>9. Elements(old) \cup Elements(new) = {x \in Times(ser) : x > start /\ x <= t}
  <2>1. ASSUME NEW x \in Elements(old) PROVE x \in Times(ser) /\ x > start /\ x <= t
    BY <1>2, <1>4, TimesInParts
  <2>2. ASSUME NEW x \in Elements(new) PROVE x \in Times(ser) /\ x > start /\ x <= t
    BY <1>1, <1>5, TimesInParts
  <2>3. ASSUME NEW x \in Times(ser), x > start, x <= t
        PROVE  x \in Elements(old) \cup Elements(new)
    <3>1. x \in Int
      BY TimesInParts
    <3>2. CASE \E i \in 1..Len(ser.head) : x = ser.head[i]
      <4>1. x \in Elements(ser.head)
        BY <1>3, <3>2, ElementsOf
      <4> QED
        BY <1>1, <1>5, <2>3, <3>1, <4>1
    <3>3. CASE \E c \in 1..Len(ser.chunks) :
                 \E i \in 1..Len(ser.chunks[c].samples) : x = ser.chunks[c].samples[i]
      <4>1. PICK c \in 1..Len(ser.chunks) : x \in Elements(ser.chunks[c].samples)
        BY <1>3, <3>3, ElementsOf
      <4> QED
        BY <1>1, <1>2, <1>4, <2>3, <3>1, <4>1
    <3> QED
      BY <3>2, <3>3, TimesInParts
  <2> QED
    BY <2>1, <2>2, <2>3
<1>10. old \o new \in Seq(Int)
  BY <1>4, <1>5
<1> QED
  BY <1>6, <1>8, <1>9, <1>10 DEF RangeAtExact

-----------------------------------------------------------------------------
\* Instant reads of the store are exact, inside a pass as between two: for
\* every history of passes, every live series, instant and lookback.
InstantReadsExact ==
  \A k \in Live, t \in Int, lookback \in Int : ValueAtExact(series[k], t, lookback)

\* Whatever the collector has done, an instant query reads the newest sample
\* (src/store.rs:72), across the seam between head and chunks.
THEOREM InstantReadsAlwaysExact == Spec => []InstantReadsExact
<1>1. IInv => InstantReadsExact
  <2> SUFFICES ASSUME IInv, NEW k \in Live, NEW t \in Int, NEW lookback \in Int
               PROVE  ValueAtExact(series[k], t, lookback)
    BY DEF InstantReadsExact
  <2>1. series[k] \in Series /\ WellFormedSeries(series[k])
    BY DEF IInv, SeriesSound, Sound
  <2> QED
    BY <2>1, ValueAtOfWellFormed
<1> QED
  BY <1>1, Invariance, PTL

\* Whatever the collector has done, and wherever seals and cutoffs fall, both
\* reads are exact between passes: an instant query reads the newest sample
\* (src/store.rs:72) and a range query all samples of the window, in order
\* (src/store.rs:97).
THEOREM QueriesAlwaysExact == Spec => []QueriesExact
<1>1. IInv => QueriesExact
  <2> SUFFICES ASSUME IInv, NEW k \in Live, NEW t \in -1..MaxTime + 1,
                      NEW w \in 1..MaxTime
               PROVE  ValueAtExact(series[k], t, w) /\ RangeAtExact(series[k], t, w)
    BY DEF QueriesExact
  <2>1. series[k] \in Series /\ WellFormedSeries(series[k])
    BY DEF IInv, SeriesSound, Sound
  <2>2. t \in Int /\ w \in Int /\ w \in Nat
    BY StoreAssumption
  <2> QED
    BY <2>1, <2>2, ValueAtOfWellFormed, RangeAtOfWellFormed
<1> QED
  BY <1>1, Invariance, PTL

-----------------------------------------------------------------------------
\* The store with readings takes the steps of the store.
LEMMA StoreWithReadings == ESpec => Spec
<1>1. EInit => Init
  BY DEF EInit
<1>2. [ENext]_evars => [Next]_vars
  <2> SUFFICES ASSUME [ENext]_evars PROVE [Next]_vars
    OBVIOUS
  <2>1. CASE \E t \in 0..MaxTime : BeginPass(t) /\ UNCHANGED reading
    BY <2>1 DEF Next
  <2>2. CASE \E k \in Keys : \E v \in Readings[k][started] : Collect(k, v)
    BY <2>2 DEF Next, Collect
  <2>3. CASE EPrune
    BY <2>3 DEF Next, EPrune
  <2>4. CASE UNCHANGED evars
    BY <2>4 DEF evars
  <2> QED
    BY <2>1, <2>2, <2>3, <2>4 DEF ENext
<1> QED
  BY <1>1, <1>2, PTL DEF ESpec, Spec

LEMMA InvarianceWithReadings == ESpec => []IInv
  BY StoreWithReadings, Invariance

-----------------------------------------------------------------------------
\* What the matchers of a query are, and the selectors made of them.
AMatcher  == [label : STRING, op : STRING, value : STRING]
ASelector == [name : SUBSET STRING, matchers : Seq(AMatcher)]

\* One round of the loop of SelectorFrom.
Take(selector, matcher) ==
  IF NamesMetric(matcher)
  THEN [selector EXCEPT !.name = Some(matcher.value)]
  ELSE [selector EXCEPT !.matchers = Append(@, matcher)]

\* The loop of SelectorFrom, matcher by matcher.
TakesBy(f, ms) ==
  /\ f \in [0..Len(ms) -> ASelector]
  /\ SelectorFrom(None, ms) = f[Len(ms)]
  /\ f[0] = Selector(None, <<>>)
  /\ \A i \in 1..Len(ms) : f[i] = Take(f[i - 1], ms[i])

LEMMA SelectorLoop ==
  ASSUME NEW ms \in Seq(AMatcher)
  PROVE  \E f : TakesBy(f, ms)
<1> DEFINE n == Len(ms)
           base == Selector(None, <<>>)
           step == [p \in (1..n) \X ASelector |-> Take(p[2], ms[p[1]])]
           Body(f) == [i \in 0..n |-> IF i = 0 THEN base ELSE Take(f[i - 1], ms[i])]
<1>1. n \in Nat /\ \A i \in 1..n : ms[i] \in AMatcher
  BY LenProperties, ElementOfSeq
<1>2. base \in ASelector
  BY DEF ASelector, Selector, None
<1>3. \A s \in ASelector, m \in AMatcher : Take(s, m) \in ASelector
  <2> SUFFICES ASSUME NEW s \in ASelector, NEW m \in AMatcher
               PROVE  Take(s, m) \in ASelector
    OBVIOUS
  <2>1. /\ Some(m.value) \in SUBSET STRING
        /\ Append(s.matchers, m) \in Seq(AMatcher)
    BY DEF ASelector, AMatcher, Some
  <2> QED
    BY <2>1 DEF Take, ASelector
<1>4. SelectorFrom(None, ms) = (CHOOSE h : h = Body(h))[n]
  BY DEF SelectorFrom, Take
<1> HIDE DEF n, base
<1>5. PICK f : IsLoop(f, ASelector, base, n, step)
  <2>1. step \in [(1..n) \X ASelector -> ASelector]
    BY <1>1, <1>3
  <2> HIDE DEF step
  <2> QED
    BY <1>1, <1>2, <2>1, LoopExists
<1>6. ASSUME NEW i \in 1..n PROVE f[i] = Take(f[i - 1], ms[i])
  <2>1. f[i - 1] \in ASelector
    BY <1>1, <1>5 DEF IsLoop
  <2> QED
    BY <1>5, <2>1 DEF IsLoop
<1>7. f = Body(f)
  BY <1>1, <1>5, <1>6 DEF IsLoop
<1> DEFINE g == CHOOSE h : h = Body(h)
<1>8. g = Body(g)
  <2> HIDE DEF Body
  <2> QED
    BY <1>7
<1> HIDE DEF g
<1>9. g[0] = base /\ \A i \in 1..n : g[i] = Take(g[i - 1], ms[i])
  BY <1>1, <1>8
<1>10. \A i \in 0..n : g[i] \in ASelector
  <2> DEFINE T == {i \in 0..n : g[i] \in ASelector}
  <2>1. 0 \in T
    <3>1. g[0] \in ASelector
      BY <1>2, <1>9
    <3> QED
      BY <1>1, <3>1
  <2>2. ASSUME NEW i \in 1..n, i - 1 \in T PROVE i \in T
    <3>1. g[i] = Take(g[i - 1], ms[i]) /\ g[i - 1] \in ASelector /\ ms[i] \in AMatcher
      BY <1>1, <1>9, <2>2
    <3>2. g[i] \in ASelector /\ i \in 0..n
      BY <1>1, <1>3, <3>1
    <3> QED
      BY <3>2
  <2> HIDE DEF T
  <2>3. 0..n \subseteq T
    BY <1>1, <2>1, <2>2, Ascent
  <2> QED
    BY <2>3 DEF T
<1>11. g \in [0..n -> ASelector]
  BY <1>8, <1>10
<1> QED
  BY <1>4, <1>9, <1>11 DEF g, n, base, TakesBy

LEMMA AppendElements ==
  ASSUME NEW X, NEW s \in Seq(X), NEW x \in X
  PROVE  Elements(Append(s, x)) = Elements(s) \cup {x}
<1> DEFINE r == Append(s, x)
<1>1. /\ r \in Seq(X) /\ Len(s) \in Nat /\ Len(r) = Len(s) + 1
      /\ r[Len(s) + 1] = x /\ \A i \in 1..Len(s) : r[i] = s[i]
  BY AppendProperties, LenProperties
<1> HIDE DEF r
<1>2. Elements(s) \cup {x} \subseteq Elements(r)
  <2>1. \A i \in 1..Len(s) + 1 : r[i] \in Elements(r)
    BY <1>1, ElementsOf
  <2>2. ASSUME NEW y \in Elements(s) PROVE y \in Elements(r)
    <3>1. PICK i \in 1..Len(s) : y = s[i]
      BY ElementsOf
    <3> QED
      BY <1>1, <2>1, <3>1
  <2>3. x \in Elements(r)
    BY <1>1, <2>1
  <2> QED
    BY <2>2, <2>3
<1>3. ASSUME NEW y \in Elements(r) PROVE y \in Elements(s) \cup {x}
  <2>1. PICK i \in 1..Len(s) + 1 : y = r[i]
    BY <1>1, ElementsOf
  <2>2. \A j \in 1..Len(s) : s[j] \in Elements(s)
    BY ElementsOf
  <2> QED
    BY <1>1, <2>1, <2>2
<1> QED
  BY <1>2, <1>3 DEF r

\* The first i matchers have gone into the selector: the last one that names
\* the metric as its name, the others as its matchers.
TakenOver(selector, ms, i) ==
  /\ \A m \in Elements(selector.matchers) :
       \E j \in 1..i : m = ms[j] /\ ~NamesMetric(ms[j])
  /\ \A j \in 1..i : ~NamesMetric(ms[j]) => ms[j] \in Elements(selector.matchers)
  /\ \/ selector.name = None /\ \A j \in 1..i : ~NamesMetric(ms[j])
     \/ \E j \in 1..i : /\ NamesMetric(ms[j]) /\ selector.name = {ms[j].value}
                        /\ \A h \in 1..i : NamesMetric(ms[h]) => h <= j

LEMMA SelectorTakesAll ==
  ASSUME NEW ms \in Seq(AMatcher)
  PROVE  /\ SelectorFrom(None, ms).matchers \in Seq(AMatcher)
         /\ TakenOver(SelectorFrom(None, ms), ms, Len(ms))
<1> DEFINE n == Len(ms)
<1>1. n \in Nat /\ \A i \in 1..n : ms[i] \in AMatcher
  BY LenProperties, ElementOfSeq
<1> PICK f : TakesBy(f, ms)
  BY SelectorLoop
<1>2. /\ f \in [0..n -> ASelector] /\ SelectorFrom(None, ms) = f[n]
      /\ f[0] = Selector(None, <<>>)
      /\ \A i \in 1..n : f[i] = Take(f[i - 1], ms[i])
  BY DEF TakesBy
<1> HIDE DEF n
<1> DEFINE T == {i \in 0..n : TakenOver(f[i], ms, i)}
<1>3. 0 \in T
  <2>1. f[0].name = None /\ f[0].matchers = <<>> /\ Elements(<<>>) = {}
    BY <1>2, EmptySeq DEF Selector, Elements
  <2>2. TakenOver(f[0], ms, 0)
    BY <2>1 DEF TakenOver
  <2> QED
    BY <1>1, <2>2
<1>4. ASSUME NEW i \in 1..n, i - 1 \in T PROVE i \in T
  <2>1. /\ i \in 0..n /\ i \in Nat /\ i - 1 \in 0..n
        /\ \A j \in 1..i : j = i \/ j \in 1..i - 1
        /\ \A j \in 1..i - 1 : j \in 1..i /\ j <= i
        /\ i \in 1..i /\ i <= i
    BY <1>1
  <2>2. TakenOver(f[i - 1], ms, i - 1)
    BY <1>4
  <2>3. f[i] = Take(f[i - 1], ms[i]) /\ f[i - 1] \in ASelector /\ ms[i] \in AMatcher
    BY <1>1, <1>2, <2>1
  <2>4. CASE NamesMetric(ms[i])
    <3>1. f[i].name = {ms[i].value} /\ f[i].matchers = f[i - 1].matchers
      BY <2>3, <2>4 DEF Take, ASelector, Some
    <3>2. \A h \in 1..i : h <= i
      BY <2>1
    <3>3. TakenOver(f[i], ms, i)
      BY <2>1, <2>2, <2>4, <3>1, <3>2 DEF TakenOver
    <3> QED
      BY <2>1, <3>3
  <2>5. CASE ~NamesMetric(ms[i])
    <3>1. f[i].name = f[i - 1].name /\ f[i].matchers = Append(f[i - 1].matchers, ms[i])
      BY <2>3, <2>5 DEF Take, ASelector
    <3>2. Elements(f[i].matchers) = Elements(f[i - 1].matchers) \cup {ms[i]}
      <4>1. f[i - 1].matchers \in Seq(AMatcher)
        BY <2>3 DEF ASelector
      <4> QED
        BY <2>3, <3>1, <4>1, AppendElements
    <3>3. TakenOver(f[i], ms, i)
      BY <2>1, <2>2, <2>5, <3>1, <3>2 DEF TakenOver
    <3> QED
      BY <2>1, <3>3
  <2> QED
    BY <2>4, <2>5
<1>5. n \in T
  <2>1. n \in 0..n
    BY <1>1
  <2> HIDE DEF T
  <2> QED
    BY <1>1, <1>3, <1>4, <2>1, Ascent
<1>6. f[n] \in ASelector
  BY <1>1, <1>2
<1> QED
  BY <1>2, <1>5, <1>6 DEF ASelector, n

-----------------------------------------------------------------------------
\* An index that agrees with the map yields every series of a name once.
LEMMA CandidatesAreNamed ==
  ASSUME IInv
  PROVE  /\ Candidates(None) = Live \X {1}
         /\ \A v : Candidates({v}) = {k \in Live : NameOf[k] = v} \X {1}
<1>1. Candidates(None) = Live \X {1}
  BY DEF Candidates
<1>2. ASSUME NEW v PROVE Candidates({v}) = {k \in Live : NameOf[k] = v} \X {1}
  <2> DEFINE Pairs(k, n) == {k} \X (1..Bucket(n)[k])
  <2>1. Candidates({v}) = UNION {Pairs(k, n) : k \in Live, n \in {v}}
    <3>1. {v} # None
      BY DEF None
    <3> QED
      BY <3>1 DEF Candidates
  <2>2. ASSUME NEW k \in Live
        PROVE  1..Bucket(v)[k] = IF NameOf[k] = v THEN {1} ELSE {}
    <3>1. k \in Keys
      BY DEF IInv, TypeOK
    <3>2. Bucket(v)[k] = IF NameOf[k] = v THEN 1 ELSE 0
      BY <3>1 DEF IInv, IndexConsistent, Bucket, EmptyBucket
    <3>3. 1..1 = {1} /\ 1..0 = {}
      OBVIOUS
    <3> QED
      BY <3>2, <3>3
  <2>3. ASSUME NEW c
        PROVE  c \in Candidates({v}) <=> c \in {k \in Live : NameOf[k] = v} \X {1}
    <3>1. c \in Candidates({v}) <=> \E k \in Live : c \in Pairs(k, v)
      <4> HIDE DEF Pairs
      <4> QED
        BY <2>1
    <3>2. ASSUME NEW k \in Live
          PROVE  c \in Pairs(k, v) <=> NameOf[k] = v /\ c = <<k, 1>>
      <4>1. CASE NameOf[k] = v
        <5>1. Pairs(k, v) = {k} \X {1}
          BY <2>2, <4>1
        <5> HIDE DEF Pairs
        <5> QED
          BY <4>1, <5>1
      <4>2. CASE NameOf[k] # v
        <5>1. Pairs(k, v) = {k} \X {}
          BY <2>2, <4>2
        <5> HIDE DEF Pairs
        <5> QED
          BY <4>2, <5>1
      <4> QED
        BY <4>1, <4>2
    <3> HIDE DEF Pairs
    <3> QED
      BY <3>1, <3>2
  <2> QED
    BY <2>3
<1> QED
  BY <1>1, <1>2

\* What the name of a selector finds is what the last equality on the name
\* asks for.
LEMMA NameAsMatcher ==
  ASSUME NEW m \in AMatcher, NamesMetric(m), NEW k \in Keys
  PROVE  Matches(m, LabelValue(LabelsOf[k], m.label)) <=> NameOf[k] = m.value
<1>1. m.label = NameLabel /\ m.op = "="
  BY DEF NamesMetric
<1>2. LabelValue(LabelsOf[k], m.label) = NameOf[k]
  BY <1>1, LabelsAssumption
<1> QED
  BY <1>1, <1>2 DEF Matches

\* What a list of matchers asks of a series.
AsksFor(ms, k) ==
  \A i \in DOMAIN ms :
    \/ Overridden(ms, i)
    \/ Matches(ms[i], LabelValue(LabelsOf[k], ms[i].label))

SelectsByLabels ==
  \A ms \in Matchers :
    Select(SelectorFrom(None, ms)) = {k \in Live : AsksFor(ms, k)} \X {1}

\* Through the index or not, the selector of any matchers finds what they ask
\* for.
LEMMA SelectsWhatIsAsked == IInv => SelectsByLabels
<1> SUFFICES ASSUME IInv, NEW ms \in Matchers
             PROVE  Select(SelectorFrom(None, ms)) = {k \in Live : AsksFor(ms, k)} \X {1}
  BY DEF SelectsByLabels
<1> DEFINE n == Len(ms)
           s == SelectorFrom(None, ms)
           Fits(m, k) == Matches(m, LabelValue(LabelsOf[k], m.label))
           named == {k \in Live : s.name = None \/ s.name = {NameOf[k]}}
<1>1. ms \in Seq(AMatcher)
  BY MatchersAssumption DEF AMatcher
<1>2. /\ n \in Nat /\ DOMAIN ms = 1..n /\ \A i \in 1..n : ms[i] \in AMatcher
  BY <1>1, LenProperties, ElementOfSeq
<1>3. s.matchers \in Seq(AMatcher) /\ TakenOver(s, ms, n)
  BY <1>1, SelectorTakesAll
<1>4. Live \subseteq Keys
  BY DEF IInv, TypeOK
<1>5. Candidates(s.name) = named \X {1}
  <2>1. s.name = None \/ \E v : s.name = {v}
    BY <1>3 DEF TakenOver
  <2> HIDE DEF s
  <2>2. CASE s.name = None
    <3>1. named = Live
      BY <2>2
    <3> QED
      BY <2>2, <3>1, CandidatesAreNamed
  <2>3. CASE \E v : s.name = {v}
    <3>1. PICK v : s.name = {v}
      BY <2>3
    <3>2. named = {k \in Live : NameOf[k] = v}
      BY <3>1 DEF None
    <3> QED
      BY <3>1, <3>2, CandidatesAreNamed
  <2> QED
    BY <2>1, <2>2, <2>3
<1>6. Select(s) = {k \in named : \A m \in Elements(s.matchers) : Fits(m, k)} \X {1}
  <2>1. Select(s) = {c \in named \X {1} : \A m \in Elements(s.matchers) : Fits(m, c[1])}
    <3>1. \A c : (\A i \in DOMAIN s.matchers : Fits(s.matchers[i], c[1]))
                   <=> \A m \in Elements(s.matchers) : Fits(m, c[1])
      BY DEF Elements
    <3> HIDE DEF s, Fits, named
    <3> QED
      BY <1>5, <3>1 DEF Select, Fits
  <2> HIDE DEF s, Fits, named
  <2> QED
    BY <2>1
<1>7. ASSUME NEW k \in Live
      PROVE  k \in named /\ (\A m \in Elements(s.matchers) : Fits(m, k))
               <=> \A i \in 1..n : Overridden(ms, i) \/ Fits(ms[i], k)
  <2> HIDE DEF s, Fits
  <2>1. \A i \in 1..n : NamesMetric(ms[i]) => (Fits(ms[i], k) <=> NameOf[k] = ms[i].value)
    BY <1>2, <1>4, NameAsMatcher DEF Fits
  <2>2. \A i \in 1..n : ~NamesMetric(ms[i]) => ~Overridden(ms, i)
    BY DEF Overridden
  <2>3. (\A m \in Elements(s.matchers) : Fits(m, k))
          <=> \A i \in 1..n : NamesMetric(ms[i]) \/ Fits(ms[i], k)
    BY <1>3 DEF TakenOver
  <2>4. k \in named <=>
          \A i \in 1..n : NamesMetric(ms[i]) => Overridden(ms, i) \/ Fits(ms[i], k)
    <3>1. CASE s.name = None /\ \A j \in 1..n : ~NamesMetric(ms[j])
      BY <3>1
    <3>2. CASE \E j \in 1..n : /\ NamesMetric(ms[j]) /\ s.name = {ms[j].value}
                               /\ \A h \in 1..n : NamesMetric(ms[h]) => h <= j
      <4>1. PICK j \in 1..n : /\ NamesMetric(ms[j]) /\ s.name = {ms[j].value}
                              /\ \A h \in 1..n : NamesMetric(ms[h]) => h <= j
        BY <3>2
      <4>2. \A i \in 1..n : NamesMetric(ms[i]) => (Overridden(ms, i) <=> i # j)
        BY <1>2, <4>1 DEF Overridden
      <4>3. k \in named <=> Fits(ms[j], k)
        BY <2>1, <4>1 DEF None
      <4> QED
        BY <4>1, <4>2, <4>3
    <3> QED
      BY <1>3, <3>1, <3>2 DEF TakenOver
  <2> QED
    BY <2>2, <2>3, <2>4
<1>8. {k \in named : \A m \in Elements(s.matchers) : Fits(m, k)} =
        {k \in Live : AsksFor(ms, k)}
  <2>1. \A k \in Live : AsksFor(ms, k) <=> \A i \in 1..n : Overridden(ms, i) \/ Fits(ms[i], k)
    BY <1>2 DEF AsksFor
  <2> HIDE DEF s, Fits
  <2> QED
    BY <1>7, <2>1
<1> QED
  BY <1>6, <1>8

\* A selector finds exactly the live series with the labels it asks for, each
\* once, whatever series have come, aged out and come back: an equality on
\* the name may go to the index (src/promql/parser.rs: `selector_from`;
\* src/store.rs: `candidates`; src/promql/eval.rs: `select`).
THEOREM SelectionAlwaysByLabels == ESpec => []SelectionByLabels
<1>1. SelectsByLabels => SelectionByLabels
  BY DEF SelectsByLabels, SelectionByLabels, AsksFor
<1> QED
  BY <1>1, SelectsWhatIsAsked, InvarianceWithReadings, PTL

-----------------------------------------------------------------------------
\* The first timestamp of a well-formed series is its oldest, the last its
\* newest.
LEMMA EndsOfSeries ==
  ASSUME NEW ser \in Series, WellFormedSeries(ser), ~IsEmpty(ser)
  PROVE  /\ FirstT(ser) \in Int /\ LastT(ser) \in Int
         /\ \A x \in Times(ser) : FirstT(ser) <= x /\ x <= LastT(ser)
<1>0. /\ Len(ser.chunks) \in Nat /\ Len(ser.head) \in Nat
      /\ ser.chunks \in Seq(Chunk) /\ ser.head \in Seq(Int)
      /\ \A i \in 1..Len(ser.head) : ser.head[i] \in Int
      /\ \A c \in 1..Len(ser.chunks) :
           /\ ser.chunks[c].first_t \in Int /\ ser.chunks[c].last_t \in Int
           /\ \A i \in 1..Len(ser.chunks[c].samples) : ser.chunks[c].samples[i] \in Int
  BY SeriesParts
<1>1. /\ LastT(ser) \in Int
      /\ \A i \in 1..Len(ser.head) : ser.head[i] <= LastT(ser)
      /\ \A c \in 1..Len(ser.chunks) : ser.chunks[c].last_t <= LastT(ser)
  BY LastIsNewest
<1>2. ASSUME NEW i \in 1..Len(ser.head)
      PROVE  FirstT(ser) <= ser.head[i] /\ ser.head[i] <= LastT(ser)
  <2>1. CASE ser.chunks # <<>>
    <3>1. 1 \in 1..Len(ser.chunks) /\ FirstT(ser) = ser.chunks[1].first_t
      BY <1>0, <2>1, EmptySeq DEF FirstT
    <3>2. /\ ser.chunks[1].first_t <= ser.chunks[1].last_t
          /\ ser.chunks[1].last_t < ser.head[i]
      BY <3>1, ChunkHeader DEF WellFormedSeries
    <3> QED
      BY <1>0, <1>1, <3>1, <3>2
  <2>2. CASE ser.chunks = <<>>
    <3>1. 1 \in 1..Len(ser.head) /\ FirstT(ser) = ser.head[1]
      BY <1>0, <2>2 DEF FirstT
    <3>2. 1 < i => ser.head[1] < ser.head[i]
      BY <3>1 DEF WellFormedSeries, Ascending
    <3> QED
      BY <1>0, <1>1, <3>1, <3>2
  <2> QED
    BY <2>1, <2>2
<1>3. ASSUME NEW c \in 1..Len(ser.chunks), NEW i \in 1..Len(ser.chunks[c].samples)
      PROVE  /\ FirstT(ser) <= ser.chunks[c].samples[i]
             /\ ser.chunks[c].samples[i] <= LastT(ser)
  <2>1. 1 \in 1..Len(ser.chunks) /\ FirstT(ser) = ser.chunks[1].first_t
    BY <1>0, EmptySeq DEF FirstT
  <2>2. /\ ser.chunks[c].first_t <= ser.chunks[c].samples[i]
        /\ ser.chunks[c].samples[i] <= ser.chunks[c].last_t
        /\ ser.chunks[1].first_t <= ser.chunks[1].last_t
    BY <2>1, ChunkHeader
  <2>3. FirstT(ser) <= ser.chunks[c].first_t
    <3>1. CASE c = 1
      BY <1>0, <2>1, <3>1
    <3>2. CASE c # 1
      <4>1. 1 < c
        BY <1>0, <3>2
      <4>2. ser.chunks[1].last_t < ser.chunks[c].first_t
        BY <2>1, <4>1 DEF WellFormedSeries
      <4>3. /\ ser.chunks[1].first_t \in Int /\ ser.chunks[1].last_t \in Int
            /\ ser.chunks[c].first_t \in Int
        BY <1>0, <2>1
      <4> QED
        BY <2>1, <2>2, <4>2, <4>3
    <3> QED
      BY <3>1, <3>2
  <2>4. /\ FirstT(ser) \in Int /\ ser.chunks[c].first_t \in Int
        /\ ser.chunks[c].last_t \in Int /\ ser.chunks[c].samples[i] \in Int
    BY <1>0, <2>1
  <2> QED
    BY <1>1, <2>2, <2>3, <2>4
<1>4. FirstT(ser) \in Int
  BY <1>0, EmptySeq DEF FirstT, IsEmpty
<1>5. ASSUME NEW x \in Times(ser) PROVE FirstT(ser) <= x /\ x <= LastT(ser)
  <2>1. \/ \E i \in 1..Len(ser.head) : x = ser.head[i]
        \/ \E c \in 1..Len(ser.chunks) :
             \E i \in 1..Len(ser.chunks[c].samples) : x = ser.chunks[c].samples[i]
    BY TimesInParts
  <2> QED
    BY <1>2, <1>3, <2>1
<1> QED
  BY <1>1, <1>4, <1>5

\* Whatever the collector has done, discovery and queries agree: a series of
\* which a query over the window shows a sample is listed, under each of its
\* labels (src/discovery.rs: `in_window`, `matching`).
THEOREM SampledAlwaysOffered == ESpec => []SampledIsOffered
<1>1. IInv => SampledIsOffered
  <2> SUFFICES ASSUME IInv, NEW ms \in Matchers,
                      NEW start \in 0..MaxTime, NEW end \in start..MaxTime
               PROVE  LET selectors == {SelectorFrom(None, ms)}
                          shown     == {c[1] : c \in UNION {Select(s) : s \in selectors}}
                          sampled   == {k \in shown : \E x \in Times(series[k]) :
                                          start <= x /\ x <= end}
                      IN  \A k \in sampled :
                          /\ LabelsOf[k] \in SeriesOffered(selectors, Some(start), Some(end))
                          /\ \A label \in DOMAIN LabelsOf[k] :
                               /\ label \in LabelNames(selectors, Some(start), Some(end))
                               /\ LabelsOf[k][label]
                                    \in LabelValues(label, selectors, Some(start), Some(end))
    BY DEF SampledIsOffered
  <2> DEFINE selectors == {SelectorFrom(None, ms)}
             shown     == {c[1] : c \in UNION {Select(s) : s \in selectors}}
  <2> SUFFICES ASSUME NEW k \in shown, NEW x \in Times(series[k]), start <= x, x <= end
               PROVE  /\ LabelsOf[k] \in SeriesOffered(selectors, Some(start), Some(end))
                      /\ \A label \in DOMAIN LabelsOf[k] :
                           /\ label \in LabelNames(selectors, Some(start), Some(end))
                           /\ LabelsOf[k][label]
                                \in LabelValues(label, selectors, Some(start), Some(end))
    OBVIOUS
  <2>1. k \in Live
    <3>1. PICK c \in Select(SelectorFrom(None, ms)) : k = c[1]
      OBVIOUS
    <3>2. c \in Candidates(SelectorFrom(None, ms).name)
      BY DEF Select
    <3> QED
      BY <3>1, <3>2 DEF Candidates
  <2>2. /\ series[k] \in Series /\ WellFormedSeries(series[k]) /\ ~IsEmpty(series[k])
    BY <2>1 DEF IInv, SeriesSound, Sound
  <2>3. FirstT(series[k]) <= x /\ x <= LastT(series[k])
    BY <2>2, EndsOfSeries
  <2>4. FirstT(series[k]) \in Int /\ LastT(series[k]) \in Int /\ x \in Int
    BY <2>2, EndsOfSeries, TimesInParts
  <2>5. InWindow(series[k], Some(start), Some(end))
    <3>1. start \in Int /\ end \in Int
      BY StoreAssumption
    <3> QED
      BY <2>2, <2>3, <2>4, <3>1 DEF InWindow, Some
  <2>6. k \in Matching(selectors, Some(start), Some(end))
    BY <2>5 DEF Matching
  <2> HIDE DEF selectors
  <2>7. selectors # {}
    BY DEF selectors
  <2> QED
    BY <2>6, <2>7 DEF SeriesOffered, LabelNames, LabelValues
<1> QED
  BY <1>1, InvarianceWithReadings, PTL

-----------------------------------------------------------------------------
\* An ascending sequence is known by its elements.
LEMMA AscendingUnique ==
  ASSUME NEW s \in Seq(Int), NEW r \in Seq(Int), Ascending(s), Ascending(r),
         Elements(s) = Elements(r)
  PROVE  s = r
<1>0. /\ Len(s) \in Nat /\ Len(r) \in Nat
      /\ \A i \in 1..Len(s) : s[i] \in Int
      /\ \A i \in 1..Len(r) : r[i] \in Int
      /\ \A i, j \in 1..Len(s) : i < j => s[i] < s[j]
      /\ \A i, j \in 1..Len(r) : i < j => r[i] < r[j]
  BY LenProperties, ElementOfSeq DEF Ascending
<1>1. /\ \A i \in 1..Len(s) : \E j \in 1..Len(r) : s[i] = r[j]
      /\ \A i \in 1..Len(r) : \E j \in 1..Len(s) : r[i] = s[j]
  <2>1. /\ \A i \in 1..Len(s) : s[i] \in Elements(r)
        /\ \A i \in 1..Len(r) : r[i] \in Elements(s)
    BY ElementsOf
  <2>2. /\ \A x \in Elements(s) : \E j \in 1..Len(s) : x = s[j]
        /\ \A x \in Elements(r) : \E j \in 1..Len(r) : x = r[j]
    BY ElementsOf
  <2> QED
    BY <2>1, <2>2
<1> DEFINE Same(i) == i <= Len(s) /\ i <= Len(r) => \A j \in 1..i : s[j] = r[j]
           m == Len(s) + Len(r)
           T == {i \in 0..m : Same(i)}
<1>2. 0 \in T
  BY <1>0
<1>3. ASSUME NEW i \in 1..m, i - 1 \in T PROVE i \in T
  <2> SUFFICES ASSUME i <= Len(s), i <= Len(r) PROVE s[i] = r[i]
    <3>1. \A j \in 1..i : j = i \/ j \in 1..i - 1
      BY <1>0
    <3>2. i \in Nat /\ i \in 0..m /\ i - 1 \in 0..m
      BY <1>0
    <3>3. i <= Len(s) /\ i <= Len(r) => \A j \in 1..i - 1 : s[j] = r[j]
      BY <1>0, <1>3, <3>2
    <3>4. Same(i)
      BY <3>1, <3>3
    <3> QED
      BY <3>2, <3>4
  <2>1. /\ i \in 1..Len(s) /\ i \in 1..Len(r) /\ i \in Nat
        /\ \A j \in 1..i - 1 : s[j] = r[j]
    BY <1>0, <1>3
  <2>2. PICK h \in 1..Len(s) : r[i] = s[h]
    BY <1>1, <2>1
  <2>3. PICK l \in 1..Len(r) : s[i] = r[l]
    BY <1>1, <2>1
  <2> DEFINE a == s[i]
             b == r[i]
  <2>0. a \in Int /\ b \in Int
    BY <1>0, <2>1
  <2>4. h >= i
    <3> SUFFICES ASSUME h < i PROVE FALSE
      BY <1>0, <2>1
    <3>1. h \in 1..i - 1 /\ h \in 1..Len(r)
      BY <1>0, <2>1
    <3>2. b = r[h] /\ r[h] < b
      BY <1>0, <2>1, <2>2, <3>1
    <3> HIDE DEF b
    <3> QED
      BY <2>0, <3>2
  <2>5. l >= i
    <3> SUFFICES ASSUME l < i PROVE FALSE
      BY <1>0, <2>1
    <3>1. l \in 1..i - 1 /\ l \in 1..Len(s)
      BY <1>0, <2>1
    <3>2. a = s[l] /\ s[l] < a
      BY <1>0, <2>1, <2>3, <3>1
    <3> HIDE DEF a
    <3> QED
      BY <2>0, <3>2
  <2>6. a <= b
    <3>1. CASE i = h
      BY <2>0, <2>2, <3>1
    <3>2. CASE i < h
      BY <1>0, <2>0, <2>1, <2>2, <3>2
    <3> QED
      BY <2>1, <2>4, <3>1, <3>2
  <2>7. b <= a
    <3>1. CASE i = l
      BY <2>0, <2>3, <3>1
    <3>2. CASE i < l
      BY <1>0, <2>0, <2>1, <2>3, <3>2
    <3> QED
      BY <2>1, <2>5, <3>1, <3>2
  <2> HIDE DEF a, b
  <2>8. a = b
    BY <2>0, <2>6, <2>7
  <2> QED
    BY <2>8 DEF a, b
<1>4. 0..m \subseteq T
  <2>1. m \in Nat
    BY <1>0
  <2> HIDE DEF T, m
  <2> QED
    BY <1>2, <1>3, <2>1, Ascent
<1>5. \A i \in 0..m : Same(i)
  BY <1>4
<1> HIDE DEF T
<1>6. ~(Len(s) < Len(r))
  <2> SUFFICES ASSUME Len(s) < Len(r) PROVE FALSE
    OBVIOUS
  <2> DEFINE n == Len(s)
  <2>1. \A j \in 1..n : s[j] = r[j]
    <3>1. n \in 0..m /\ n <= Len(s) /\ n <= Len(r)
      BY <1>0
    <3> QED
      BY <1>5, <3>1
  <2>2. PICK j \in 1..n : r[n + 1] = s[j]
    <3>1. n + 1 \in 1..Len(r)
      BY <1>0
    <3> QED
      BY <1>1, <3>1
  <2>3. r[j] < r[n + 1] /\ j \in 1..Len(r)
    BY <1>0
  <2> QED
    BY <1>0, <2>1, <2>2, <2>3
<1>7. ~(Len(r) < Len(s))
  <2> SUFFICES ASSUME Len(r) < Len(s) PROVE FALSE
    OBVIOUS
  <2> DEFINE n == Len(r)
  <2>1. \A j \in 1..n : s[j] = r[j]
    <3>1. n \in 0..m /\ n <= Len(s) /\ n <= Len(r)
      BY <1>0
    <3> QED
      BY <1>5, <3>1
  <2>2. PICK j \in 1..n : s[n + 1] = r[j]
    <3>1. n + 1 \in 1..Len(s)
      BY <1>0
    <3> QED
      BY <1>1, <3>1
  <2>3. s[j] < s[n + 1] /\ j \in 1..Len(s)
    BY <1>0
  <2> QED
    BY <1>0, <2>1, <2>2, <2>3
<1>8. Len(s) = Len(r) /\ \A j \in 1..Len(s) : s[j] = r[j]
  <2>1. Len(s) = Len(r)
    BY <1>0, <1>6, <1>7
  <2>2. \A j \in 1..Len(s) : s[j] = r[j]
    <3>1. Len(s) \in 0..m /\ Len(s) <= Len(s) /\ Len(s) <= Len(r)
      BY <1>0, <2>1
    <3> QED
      BY <1>5, <3>1
  <2> QED
    BY <1>0, <2>1, <2>2
<1> QED
  BY <1>8, SeqEqual

\* A set of timestamps, in order.
InOrder(times) == CHOOSE s \in Seq(Int) : Ascending(s) /\ Elements(s) = times

LEMMA InOrderOf ==
  ASSUME NEW s \in Seq(Int), Ascending(s)
  PROVE  InOrder(Elements(s)) = s
<1> DEFINE r == InOrder(Elements(s))
<1>1. r \in Seq(Int) /\ Ascending(r) /\ Elements(r) = Elements(s)
  BY DEF InOrder
<1> HIDE DEF r
<1>2. r = s
  BY <1>1, AscendingUnique
<1> QED
  BY <1>2 DEF r

-----------------------------------------------------------------------------
\* What an instant vector and the rates of a window are made of: of the
\* samples that are held, and of nothing else of the store.
Reached(k, now) == {x \in Held[k] : x <= now /\ now - x <= Lookback}
Spanned(k, now, window) == {x \in Held[k] : x > now - window /\ x <= now}

PointOf(k, times) ==
  Entry(<<k, 1>>, WithoutName(LabelsOf[k]), Float(reading[k][Max(times)], 1))

Orderly(times) == InOrder(times) \in Seq(Int) /\ Elements(InOrder(times)) = times

RatesOf(k, times) ==
  {Entry(<<k, 1>>, WithoutName(LabelsOf[k]), r) : r \in RateOver(k, InOrder(times))}

InstantsOfHeld ==
  \A ms \in Matchers, now \in Int :
    Instant(SelectorFrom(None, ms), now) =
      {PointOf(k, Reached(k, now)) :
         k \in {x \in Keys : AsksFor(ms, x) /\ Reached(x, now) # {}}}

RatesOfHeld ==
  \A ms \in Matchers, now \in Int, window \in Nat :
    /\ Rates(SelectorFrom(None, ms), window, now) =
         UNION {RatesOf(k, Spanned(k, now, window)) : k \in {x \in Keys : AsksFor(ms, x)}}
    /\ \A k \in Keys : Orderly(Spanned(k, now, window))

LEMMA InstantsAreOfHeld == IInv => InstantsOfHeld
<1> SUFFICES ASSUME IInv, NEW ms \in Matchers, NEW now \in Int
             PROVE  Instant(SelectorFrom(None, ms), now) =
                      {PointOf(k, Reached(k, now)) :
                         k \in {x \in Keys : AsksFor(ms, x) /\ Reached(x, now) # {}}}
  BY DEF InstantsOfHeld
<1> DEFINE s == SelectorFrom(None, ms)
           Found(c) == {Entry(c, WithoutName(LabelsOf[c[1]]), Float(reading[c[1]][x], 1)) :
                          x \in ValueAt(series[c[1]], now, Lookback)}
           wanted == {x \in Live : AsksFor(ms, x)}
<1>1. Live \subseteq Keys
  BY DEF IInv, TypeOK
<1>2. ASSUME NEW k \in Live
      PROVE  Found(<<k, 1>>) = IF Reached(k, now) = {} THEN {} ELSE {PointOf(k, Reached(k, now))}
  <2>1. series[k] \in Series /\ WellFormedSeries(series[k])
    BY DEF IInv, SeriesSound, Sound
  <2>2. Reached(k, now) = {x \in Times(series[k]) : x <= now /\ now - x <= Lookback}
    BY <1>1 DEF Reached, Held
  <2>3. ValueAt(series[k], now, Lookback) =
          IF Reached(k, now) = {} THEN {} ELSE {Max(Reached(k, now))}
    <3>1. Lookback \in Int
      BY EvalAssumption
    <3>2. ValueAtExact(series[k], now, Lookback)
      BY <2>1, <3>1, ValueAtOfWellFormed
    <3> QED
      BY <2>2, <3>2 DEF ValueAtExact, NoSample
  <2> QED
    BY <2>3 DEF PointOf
<1>3. Instant(s, now) = UNION {Found(c) : c \in wanted \X {1}}
  <2>1. Select(s) = wanted \X {1}
    BY SelectsWhatIsAsked DEF SelectsByLabels
  <2> QED
    BY <2>1 DEF Instant
<1>4. Instant(s, now) = UNION {Found(<<k, 1>>) : k \in wanted}
  <2> HIDE DEF Found, wanted, s
  <2>1. \A c : c \in wanted \X {1} <=> \E k \in wanted : c = <<k, 1>>
    OBVIOUS
  <2>2. ASSUME NEW y
        PROVE  (\E c \in wanted \X {1} : y \in Found(c))
                 <=> \E k \in wanted : y \in Found(<<k, 1>>)
    BY <2>1
  <2>3. UNION {Found(c) : c \in wanted \X {1}} = UNION {Found(<<k, 1>>) : k \in wanted}
    BY <2>2
  <2> QED
    BY <1>3, <2>3
<1>5. ASSUME NEW k \in Keys, k \notin Live PROVE Reached(k, now) = {}
  BY <1>5 DEF Reached, Held
<1>6. ASSUME NEW y
      PROVE  y \in Instant(s, now) <=>
               \E k \in Keys : AsksFor(ms, k) /\ Reached(k, now) # {}
                              /\ y = PointOf(k, Reached(k, now))
  <2> HIDE DEF Found, s
  <2>1. y \in Instant(s, now) <=> \E k \in wanted : y \in Found(<<k, 1>>)
    BY <1>4
  <2> QED
    BY <1>1, <1>2, <1>5, <2>1
<1> HIDE DEF Found, s
<1>7. Instant(s, now) = {PointOf(k, Reached(k, now)) :
                           k \in {x \in Keys : AsksFor(ms, x) /\ Reached(x, now) # {}}}
  BY <1>6
<1> QED
  BY <1>7 DEF s

LEMMA RatesAreOfHeld == IInv => RatesOfHeld
<1> SUFFICES ASSUME IInv, NEW ms \in Matchers, NEW now \in Int, NEW window \in Nat
             PROVE  /\ Rates(SelectorFrom(None, ms), window, now) =
                         UNION {RatesOf(k, Spanned(k, now, window)) :
                                  k \in {x \in Keys : AsksFor(ms, x)}}
                    /\ \A k \in Keys : Orderly(Spanned(k, now, window))
  BY DEF RatesOfHeld
<1> DEFINE s == SelectorFrom(None, ms)
           Found(c) == {Entry(c, WithoutName(LabelsOf[c[1]]), r) :
                          r \in RateOver(c[1], RangeAt(series[c[1]], now, window))}
           wanted == {x \in Live : AsksFor(ms, x)}
<1>1. Live \subseteq Keys
  BY DEF IInv, TypeOK
<1>2. ASSUME NEW k \in Live
      PROVE  /\ Found(<<k, 1>>) = RatesOf(k, Spanned(k, now, window))
             /\ Orderly(Spanned(k, now, window))
  <2> DEFINE answer == RangeAt(series[k], now, window)
  <2>1. series[k] \in Series /\ WellFormedSeries(series[k])
    BY DEF IInv, SeriesSound, Sound
  <2>2. Spanned(k, now, window) = {x \in Times(series[k]) : x > now - window /\ x <= now}
    BY <1>1 DEF Spanned, Held
  <2>3. /\ answer \in Seq(Int) /\ Ascending(answer)
        /\ Elements(answer) = Spanned(k, now, window)
    <3>1. answer \in Seq(Int) /\ RangeAtExact(series[k], now, window)
      BY <2>1, RangeAtOfWellFormed
    <3> QED
      BY <2>2, <3>1 DEF RangeAtExact
  <2> HIDE DEF answer
  <2>4. InOrder(Spanned(k, now, window)) = answer
    BY <2>3, InOrderOf
  <2> QED
    BY <2>3, <2>4 DEF RatesOf, Orderly, answer
<1>3. Rates(s, window, now) = UNION {Found(c) : c \in wanted \X {1}}
  <2>1. Select(s) = wanted \X {1}
    BY SelectsWhatIsAsked DEF SelectsByLabels
  <2> QED
    BY <2>1 DEF Rates
<1>4. Rates(s, window, now) = UNION {Found(<<k, 1>>) : k \in wanted}
  <2> HIDE DEF Found, wanted, s
  <2>1. \A c : c \in wanted \X {1} <=> \E k \in wanted : c = <<k, 1>>
    OBVIOUS
  <2>2. ASSUME NEW y
        PROVE  (\E c \in wanted \X {1} : y \in Found(c))
                 <=> \E k \in wanted : y \in Found(<<k, 1>>)
    BY <2>1
  <2>3. UNION {Found(c) : c \in wanted \X {1}} = UNION {Found(<<k, 1>>) : k \in wanted}
    BY <2>2
  <2> QED
    BY <1>3, <2>3
<1>5. ASSUME NEW k \in Keys, k \notin Live
      PROVE  RatesOf(k, Spanned(k, now, window)) = {} /\ Orderly(Spanned(k, now, window))
  <2>1. Spanned(k, now, window) = {}
    BY <1>5 DEF Spanned, Held
  <2>2. <<>> \in Seq(Int) /\ Ascending(<<>>) /\ Elements(<<>>) = {} /\ Len(<<>>) = 0
    BY EmptySeq DEF Ascending, Elements
  <2>3. InOrder({}) = <<>>
    BY <2>2, InOrderOf
  <2>4. RateOver(k, <<>>) = {}
    BY <2>2 DEF RateOver, None
  <2> QED
    BY <2>1, <2>2, <2>3, <2>4 DEF RatesOf, Orderly
<1> HIDE DEF Found, s
<1>6. Rates(s, window, now) =
        UNION {RatesOf(k, Spanned(k, now, window)) : k \in {x \in Keys : AsksFor(ms, x)}}
  BY <1>1, <1>2, <1>4, <1>5
<1>7. \A k \in Keys : Orderly(Spanned(k, now, window))
  BY <1>2, <1>5
<1> QED
  BY <1>6, <1>7 DEF s

-----------------------------------------------------------------------------
\* Of the samples before the reading of a pass and inside its window, the pass
\* changes none: they are held before and after each of its steps, with the
\* same readings.
WithinReach(x) == x < started' /\ x >= started' - Retention

KeepsReach ==
  \A k \in Keys, x \in Int : WithinReach(x) =>
    /\ x \in Held'[k] <=> x \in Held[k]
    /\ x \in Held[k] => reading'[k][x] = reading[k][x]

LEMMA RecordKeepsReach ==
  ASSUME NEW k \in Keys, Contract!Record(k), DOMAIN reading = Keys,
         \/ reading' = reading
         \/ \E v : reading' = [reading EXCEPT ![k] =
                                 [x \in Held'[k] |-> IF x = started THEN v ELSE reading[k][x]]]
  PROVE  KeepsReach /\ DOMAIN reading' = Keys
<1>1. /\ started' = started
      /\ Held' = [Held EXCEPT ![k] = @ \cup {started}]
      /\ DOMAIN Held = Keys
  BY DEF Contract!Record, Held
<1>2. DOMAIN reading' = Keys
  OBVIOUS
<1> SUFFICES ASSUME NEW l \in Keys, NEW x \in Int, WithinReach(x)
             PROVE  /\ x \in Held'[l] <=> x \in Held[l]
                    /\ x \in Held[l] => reading'[l][x] = reading[l][x]
  BY <1>2 DEF KeepsReach
<1>3. x # started
  <2>1. x < started
    BY <1>1 DEF WithinReach
  <2> QED
    BY <2>1
<1>4. x \in Held'[l] <=> x \in Held[l]
  BY <1>1, <1>3
<1>5. ASSUME x \in Held[l] PROVE reading'[l][x] = reading[l][x]
  <2>1. CASE reading' = reading
    BY <2>1
  <2>2. CASE \E v : reading' = [reading EXCEPT ![k] =
                         [y \in Held'[k] |-> IF y = started THEN v ELSE reading[k][y]]]
    <3>1. x \in Held'[l]
      BY <1>4, <1>5
    <3>2. CASE l = k
      BY <1>3, <2>2, <3>1, <3>2
    <3>3. CASE l # k
      BY <2>2, <3>3
    <3> QED
      BY <3>2, <3>3
  <2> QED
    BY <2>1, <2>2
<1> QED
  BY <1>4, <1>5

LEMMA StepKeepsReach ==
  ASSUME IInv, DOMAIN reading = Keys, [ENext]_evars
  PROVE  KeepsReach /\ DOMAIN reading' = Keys
<1>1. ASSUME UNCHANGED <<series, reading>> PROVE KeepsReach /\ DOMAIN reading' = Keys
  <2>1. Held' = Held
    BY <1>1 DEF Held, Live
  <2> QED
    BY <1>1, <2>1 DEF KeepsReach
<1>2. CASE UNCHANGED evars
  BY <1>1, <1>2 DEF evars, vars
<1>3. CASE \E t \in 0..MaxTime : BeginPass(t) /\ UNCHANGED reading
  BY <1>1, <1>3 DEF BeginPass
<1>4. ASSUME NEW k \in Keys, NEW v, Collect(k, v) PROVE KeepsReach /\ DOMAIN reading' = Keys
  <2>1. CASE series' = series
    BY <1>1, <1>4, <2>1 DEF Collect
  <2>2. CASE series' # series
    <3>1. Contract!Record(k) \/ UNCHANGED Contract!vars
      BY <1>4, AppendExistingRefines, AppendNewRefines DEF Collect
    <3>2. reading' = [reading EXCEPT ![k] =
                        [x \in Held'[k] |-> IF x = started THEN v ELSE reading[k][x]]]
      BY <1>4, <2>2 DEF Collect
    <3>3. CASE Contract!Record(k)
      BY <3>2, <3>3, RecordKeepsReach
    <3>4. CASE UNCHANGED Contract!vars
      <4>1. Held' = Held /\ started' = started
        BY <3>4 DEF Contract!vars
      <4>2. DOMAIN reading' = Keys
        BY <3>2
      <4>3. ASSUME NEW l \in Keys, NEW x \in Int, WithinReach(x), x \in Held[l]
            PROVE  reading'[l][x] = reading[l][x]
        <5>1. x # started
          <6>1. x < started
            BY <4>1, <4>3 DEF WithinReach
          <6> QED
            BY <6>1
        <5> QED
          BY <3>2, <4>1, <4>3, <5>1
      <4> QED
        BY <4>1, <4>2, <4>3 DEF KeepsReach
    <3> QED
      BY <3>1, <3>3, <3>4
  <2> QED
    BY <2>1, <2>2
<1>5. CASE EPrune
  <2>1. Contract!Age
    BY <1>5, EndPassRefines DEF EPrune
  <2>2. reading' = [k \in Keys |-> [x \in Held'[k] |-> reading[k][x]]]
    BY <1>5 DEF EPrune, Restrict
  <2>3. started \in Int /\ Retention \in Int
    BY SeriesAssumption DEF IInv, TypeOK
  <2>4. ASSUME NEW k \in Keys, NEW x \in Int, WithinReach(x)
        PROVE  x \in Held'[k] <=> x \in Held[k]
    <3>1. Contract!Aged(Held[k], Held'[k], started - Retention) /\ started' = started
      BY <2>1 DEF Contract!Age
    <3>2. ~(x < started - Retention)
      BY <2>3, <2>4, <3>1 DEF WithinReach
    <3> QED
      BY <3>1, <3>2 DEF Contract!Aged
  <2> QED
    BY <2>2, <2>4 DEF KeepsReach
<1> QED
  BY <1>2, <1>3, <1>4, <1>5 DEF ENext

\* The timestamps held are integers.
HeldAreTimes == \A k \in Keys : Held[k] \subseteq Int

LEMMA HeldTimes == IInv => HeldAreTimes
<1> SUFFICES ASSUME IInv, NEW k \in Keys, k \in Live PROVE Times(series[k]) \subseteq Int
  BY DEF Held, HeldAreTimes
<1>1. series[k] \in Series
  BY DEF IInv, TypeOK
<1> QED
  BY <1>1, TimesInParts

\* A maximum is one of the elements.
LEMMA MaxIsHeld ==
  ASSUME NEW times \in SUBSET Int, times # {}, NEW bound \in Int, \A x \in times : x <= bound
  PROVE  Max(times) \in times
<1> DEFINE below == {bound - x : x \in times}
<1>1. below \subseteq Nat /\ below # {}
  <2>1. \A x \in times : bound - x \in Nat
    OBVIOUS
  <2> QED
    BY <2>1
<1>2. PICK m \in below : \A n \in below : m <= n
  <2> HIDE DEF below
  <2> QED
    BY <1>1, LeastNatural
<1>3. PICK x \in times : m = bound - x
  BY <1>2
<1>4. \A y \in times : x >= y
  <2> SUFFICES ASSUME NEW y \in times PROVE x >= y
    OBVIOUS
  <2>1. bound - x <= bound - y
    BY <1>2, <1>3
  <2>2. x \in Int /\ y \in Int
    OBVIOUS
  <2> QED
    BY <2>1, <2>2
<1> QED
  BY <1>4 DEF Max

\* The points and the rates are the same when the samples and their readings
\* are.
LEMMA SamePoints ==
  ASSUME KeepsReach, InstantsOfHeld, InstantsOfHeld',
         HeldAreTimes, HeldAreTimes', started' \in Int,
         NEW ms \in Matchers, NEW now \in Int,
         now < started', now - Lookback >= started' - Retention
  PROVE  Instant(SelectorFrom(None, ms), now)' = Instant(SelectorFrom(None, ms), now)
<1>1. ASSUME NEW k \in Keys
      PROVE  /\ Reached(k, now)' = Reached(k, now)
             /\ Reached(k, now) # {} => PointOf(k, Reached(k, now))' = PointOf(k, Reached(k, now))
  <2>1. Held[k] \subseteq Int /\ Held'[k] \subseteq Int
    BY DEF HeldAreTimes
  <2>2. \A x \in Int : x <= now /\ now - x <= Lookback => WithinReach(x)
    <3>1. Retention \in Int /\ Lookback \in Int
      BY SeriesAssumption, EvalAssumption
    <3>2. PICK t \in Int : t = started'
      OBVIOUS
    <3>3. now < t /\ now - Lookback >= t - Retention
      BY <3>2
    <3>4. \A x \in Int : x <= now /\ now - x <= Lookback => x < t /\ x >= t - Retention
      BY <3>1, <3>3
    <3> QED
      BY <3>2, <3>4 DEF WithinReach
  <2>3. Reached(k, now)' = Reached(k, now)
    BY <2>1, <2>2 DEF Reached, KeepsReach
  <2>4. ASSUME Reached(k, now) # {}
        PROVE  PointOf(k, Reached(k, now))' = PointOf(k, Reached(k, now))
    <3> DEFINE m == Max(Reached(k, now))
    <3>1. m \in Reached(k, now)
      <4>1. Reached(k, now) \in SUBSET Int /\ \A x \in Reached(k, now) : x <= now
        BY <2>1 DEF Reached
      <4> QED
        BY <2>4, <4>1, MaxIsHeld
    <3>2. m \in Held[k] /\ m \in Int /\ WithinReach(m)
      BY <2>1, <2>2, <3>1 DEF Reached
    <3>3. reading'[k][m] = reading[k][m]
      BY <3>2 DEF KeepsReach
    <3> HIDE DEF m
    <3>4. Max(Reached(k, now))' = m
      BY <2>3 DEF m
    <3> QED
      BY <2>3, <3>3, <3>4 DEF PointOf, m
  <2> QED
    BY <2>3, <2>4
<1>2. Instant(SelectorFrom(None, ms), now)'
        = {PointOf(k, Reached(k, now))' :
             k \in {x \in Keys : AsksFor(ms, x) /\ Reached(x, now)' # {}}}
  BY DEF InstantsOfHeld, AsksFor
<1>3. Instant(SelectorFrom(None, ms), now)
        = {PointOf(k, Reached(k, now)) :
             k \in {x \in Keys : AsksFor(ms, x) /\ Reached(x, now) # {}}}
  BY DEF InstantsOfHeld
<1> DEFINE found == {x \in Keys : AsksFor(ms, x) /\ Reached(x, now) # {}}
<1>4. found = {x \in Keys : AsksFor(ms, x) /\ Reached(x, now)' # {}}
  BY <1>1
<1>5. \A k \in found : PointOf(k, Reached(k, now))' = PointOf(k, Reached(k, now))
  BY <1>1
<1> HIDE DEF found
<1>6. {PointOf(k, Reached(k, now))' : k \in found} = {PointOf(k, Reached(k, now)) : k \in found}
  BY <1>5
<1> QED
  BY <1>2, <1>3, <1>4, <1>6 DEF found

LEMMA SameRates ==
  ASSUME KeepsReach, RatesOfHeld, RatesOfHeld',
         HeldAreTimes, HeldAreTimes', started' \in Int,
         NEW ms \in Matchers, NEW now \in Int, NEW window \in Nat,
         now < started', now - window >= started' - Retention
  PROVE  Rates(SelectorFrom(None, ms), window, now)' =
           Rates(SelectorFrom(None, ms), window, now)
<1>1. ASSUME NEW k \in Keys
      PROVE  /\ Spanned(k, now, window)' = Spanned(k, now, window)
             /\ RatesOf(k, Spanned(k, now, window))' = RatesOf(k, Spanned(k, now, window))
  <2>1. Held[k] \subseteq Int /\ Held'[k] \subseteq Int
    BY DEF HeldAreTimes
  <2>2. \A x \in Int : x > now - window /\ x <= now => WithinReach(x)
    <3>1. Retention \in Int
      BY SeriesAssumption
    <3>2. PICK t \in Int : t = started'
      OBVIOUS
    <3>3. now < t /\ now - window >= t - Retention
      BY <3>2
    <3>4. \A x \in Int : x > now - window /\ x <= now => x < t /\ x >= t - Retention
      BY <3>1, <3>3
    <3> QED
      BY <3>2, <3>4 DEF WithinReach
  <2>3. Spanned(k, now, window)' = Spanned(k, now, window)
    BY <2>1, <2>2 DEF Spanned, KeepsReach
  <2> DEFINE times == InOrder(Spanned(k, now, window))
  <2>4. times \in Seq(Int) /\ Elements(times) = Spanned(k, now, window)
    BY DEF RatesOfHeld, Orderly
  <2>5. ASSUME NEW i \in DOMAIN times PROVE reading'[k][times[i]] = reading[k][times[i]]
    <3>1. times[i] \in Spanned(k, now, window)
      BY <2>4 DEF Elements
    <3>2. times[i] \in Held[k] /\ times[i] \in Int /\ WithinReach(times[i])
      BY <2>1, <2>2, <3>1 DEF Spanned
    <3> QED
      BY <3>2 DEF KeepsReach
  <2>6. InOrder(Spanned(k, now, window))' = times
    BY <2>3 DEF InOrder
  <2> HIDE DEF times
  <2>7. [i \in DOMAIN times |-> reading'[k][times[i]]]
          = [i \in DOMAIN times |-> reading[k][times[i]]]
    BY <2>5
  <2> QED
    BY <2>3, <2>6, <2>7 DEF RatesOf, RateOver, times
<1> DEFINE found == {x \in Keys : AsksFor(ms, x)}
<1>2. Rates(SelectorFrom(None, ms), window, now)'
        = UNION {RatesOf(k, Spanned(k, now, window))' : k \in found}
  BY DEF RatesOfHeld, AsksFor
<1>3. Rates(SelectorFrom(None, ms), window, now)
        = UNION {RatesOf(k, Spanned(k, now, window)) : k \in found}
  BY DEF RatesOfHeld
<1>4. \A k \in found : RatesOf(k, Spanned(k, now, window))' = RatesOf(k, Spanned(k, now, window))
  BY <1>1
<1> HIDE DEF found
<1>5. {RatesOf(k, Spanned(k, now, window))' : k \in found}
        = {RatesOf(k, Spanned(k, now, window)) : k \in found}
  BY <1>4
<1> QED
  BY <1>2, <1>3, <1>5

\* Readings are there for every key from the start.
ReadingsOfKeys == DOMAIN reading = Keys

\* Whatever a pass does that reads a later clock than a query, the instants
\* and the rates the query asks for stay what they were, as long as they reach
\* back no further than the window of the pass: a handler may read the clock
\* before it waits for the lock (src/api.rs: `instant`, `range`;
\* src/store.rs: `append`, `prune`).
THEOREM PastAnswersAlwaysKept == ESpec => PastAnswersKept
<1> DEFINE Kept ==
             \A ms \in Matchers, now \in 0..MaxTime, window \in 1..Retention :
               LET selector == SelectorFrom(None, ms)
                   cutoff   == started' - Retention
               IN  now < started' =>
                     /\ now - Lookback >= cutoff =>
                          Instant(selector, now)' = Instant(selector, now)
                     /\ now - window >= cutoff =>
                          Rates(selector, window, now)' = Rates(selector, window, now)
           Known == IInv /\ HeldAreTimes /\ InstantsOfHeld /\ RatesOfHeld
<1>1. EInit => ReadingsOfKeys
  BY DEF EInit, ReadingsOfKeys
<1>2. IInv /\ ReadingsOfKeys /\ [ENext]_evars => ReadingsOfKeys'
  BY StepKeepsReach DEF ReadingsOfKeys
<1>3. IInv => Known
  BY HeldTimes, InstantsAreOfHeld, RatesAreOfHeld
<1>4. Known /\ Known' /\ ReadingsOfKeys /\ [ENext]_evars => Kept
  <2> SUFFICES ASSUME Known, Known', ReadingsOfKeys, [ENext]_evars,
                      NEW ms \in Matchers, NEW now \in 0..MaxTime,
                      NEW window \in 1..Retention, now < started'
               PROVE  /\ now - Lookback >= started' - Retention =>
                           Instant(SelectorFrom(None, ms), now)'
                             = Instant(SelectorFrom(None, ms), now)
                      /\ now - window >= started' - Retention =>
                           Rates(SelectorFrom(None, ms), window, now)'
                             = Rates(SelectorFrom(None, ms), window, now)
    OBVIOUS
  <2>1. KeepsReach
    BY StepKeepsReach DEF ReadingsOfKeys
  <2>2. now \in Int /\ window \in Nat
    BY StoreAssumption, SeriesAssumption
  <2>3. started' \in Int
    BY DEF IInv, TypeOK
  <2> QED
    BY <2>1, <2>2, <2>3, SamePoints, SameRates
<1>5. Kept => [Kept]_<<series, reading>>
  OBVIOUS
<1> QED
  <2> HIDE DEF Kept, Known
  <2>1. ESpec => [][Kept]_<<series, reading>>
    BY <1>1, <1>2, <1>3, <1>4, <1>5, InvarianceWithReadings, PTL DEF ESpec
  <2> QED
    BY <2>1 DEF PastAnswersKept, Kept

-----------------------------------------------------------------------------
\* The loop of Increase.
GrowsBy(f, values) ==
  /\ f \in [0..Len(values) -> Int]
  /\ Increase(values) = f[Len(values)]
  /\ \A i \in 0..Len(values) : i <= 1 => f[i] = 0
  /\ \A i \in 2..Len(values) :
       f[i] = f[i - 1] + (IF values[i] < values[i - 1] THEN values[i]
                          ELSE values[i] - values[i - 1])

LEMMA IncreaseLoop ==
  ASSUME NEW values \in Seq(Int)
  PROVE  \E f : GrowsBy(f, values)
<1> DEFINE n == Len(values)
           Grow(i, sum) ==
             IF i <= 1 THEN 0
             ELSE sum + (IF values[i] < values[i - 1] THEN values[i]
                         ELSE values[i] - values[i - 1])
           step == [p \in (1..n) \X Int |-> Grow(p[1], p[2])]
           Body(f) == [i \in 0..n |-> Grow(i, f[i - 1])]
<1>1. n \in Nat /\ \A i \in 1..n : values[i] \in Int
  BY LenProperties, ElementOfSeq
<1>2. ASSUME NEW i \in 1..n, NEW sum \in Int PROVE Grow(i, sum) \in Int
  <2>1. CASE i <= 1
    BY <2>1
  <2>2. CASE ~(i <= 1)
    <3>1. values[i] \in Int /\ values[i - 1] \in Int
      BY <1>1, <2>2
    <3> QED
      BY <2>2, <3>1
  <2> QED
    BY <2>1, <2>2
<1>3. Increase(values) = (CHOOSE h : h = Body(h))[n]
  BY DEF Increase
<1>4. \A sum : \A i \in 0..n : i <= 1 => Grow(i, sum) = 0
  OBVIOUS
<1>5. \A sum : \A i \in 2..n :
        Grow(i, sum) = sum + (IF values[i] < values[i - 1] THEN values[i]
                              ELSE values[i] - values[i - 1])
  BY <1>1
<1> HIDE DEF Grow, n
<1>6. PICK f : IsLoop(f, Int, 0, n, step)
  <2>1. step \in [(1..n) \X Int -> Int]
    BY <1>2
  <2>2. 0 \in Int
    OBVIOUS
  <2> HIDE DEF step
  <2> QED
    BY <1>1, <2>1, <2>2, LoopExists
<1>7. ASSUME NEW i \in 0..n PROVE f[i] = Grow(i, f[i - 1])
  <2>1. CASE i = 0
    BY <1>1, <1>4, <1>6, <2>1 DEF IsLoop
  <2>2. CASE i # 0
    <3>1. i \in 1..n /\ f[i - 1] \in Int
      BY <1>1, <1>6, <2>2 DEF IsLoop
    <3> QED
      BY <1>6, <3>1 DEF IsLoop
  <2> QED
    BY <2>1, <2>2
<1>8. f = Body(f)
  BY <1>6, <1>7 DEF IsLoop
<1> DEFINE g == CHOOSE h : h = Body(h)
<1>9. g = Body(g)
  <2> HIDE DEF Body
  <2> QED
    BY <1>8
<1> HIDE DEF g
<1>10. /\ \A i \in 0..n : i <= 1 => g[i] = 0
       /\ \A i \in 1..n : g[i] = Grow(i, g[i - 1])
  BY <1>1, <1>4, <1>9
<1>11. \A i \in 0..n : g[i] \in Int
  <2> DEFINE T == {i \in 0..n : g[i] \in Int}
  <2>1. 0 \in T
    BY <1>1, <1>10
  <2>2. ASSUME NEW i \in 1..n, i - 1 \in T PROVE i \in T
    <3>1. g[i - 1] \in Int
      BY <2>2
    <3>2. Grow(i, g[i - 1]) \in Int
      BY <1>2, <3>1
    <3>3. g[i] = Grow(i, g[i - 1]) /\ i \in 0..n
      BY <1>1, <1>10
    <3> QED
      BY <3>2, <3>3
  <2> HIDE DEF T
  <2>3. 0..n \subseteq T
    BY <1>1, <2>1, <2>2, Ascent
  <2> QED
    BY <2>3 DEF T
<1>12. g \in [0..n -> Int]
  BY <1>9, <1>11
<1>13. \A i \in 2..n : g[i] = g[i - 1] + (IF values[i] < values[i - 1] THEN values[i]
                                         ELSE values[i] - values[i - 1])
  BY <1>1, <1>5, <1>10
<1> QED
  BY <1>3, <1>10, <1>12, <1>13 DEF g, n, GrowsBy

\* An ascending sequence has as many elements as it is long, and its ends are
\* their extremes.
LEMMA AscendingCount ==
  ASSUME NEW s \in Seq(Int), Ascending(s)
  PROVE  IsFiniteSet(Elements(s)) /\ Cardinality(Elements(s)) = Len(s)
<1> DEFINE n == Len(s)
           Prefix(i) == {s[j] : j \in 1..i}
           T == {i \in 0..n : IsFiniteSet(Prefix(i)) /\ Cardinality(Prefix(i)) = i}
<1>1. /\ n \in Nat /\ DOMAIN s = 1..n /\ \A i \in 1..n : s[i] \in Int
      /\ \A i, j \in 1..n : i < j => s[i] < s[j]
  BY LenProperties, ElementOfSeq DEF Ascending
<1>2. 0 \in T
  <2>1. Prefix(0) = {}
    OBVIOUS
  <2> HIDE DEF Prefix
  <2>2. IsFiniteSet(Prefix(0)) /\ Cardinality(Prefix(0)) = 0
    BY <2>1, FS_EmptySet
  <2> QED
    BY <1>1, <2>2
<1>3. ASSUME NEW i \in 1..n, i - 1 \in T PROVE i \in T
  <2>1. Prefix(i) = Prefix(i - 1) \cup {s[i]}
    <3>1. \A j : j \in 1..i <=> j \in 1..i - 1 \/ j = i
      BY <1>1
    <3> QED
      BY <3>1
  <2>2. s[i] \notin Prefix(i - 1)
    <3> SUFFICES ASSUME NEW j \in 1..i - 1, s[i] = s[j] PROVE FALSE
      OBVIOUS
    <3>1. j \in 1..n /\ j < i
      BY <1>1
    <3> QED
      BY <1>1, <3>1
  <2>3. IsFiniteSet(Prefix(i - 1)) /\ Cardinality(Prefix(i - 1)) = i - 1
    BY <1>3
  <2> HIDE DEF Prefix
  <2>4. /\ IsFiniteSet(Prefix(i - 1) \cup {s[i]})
        /\ Cardinality(Prefix(i - 1) \cup {s[i]}) = (i - 1) + 1
    BY <2>2, <2>3, FS_AddElement
  <2>5. i \in 0..n /\ (i - 1) + 1 = i
    BY <1>1
  <2> QED
    BY <2>1, <2>4, <2>5
<1>4. n \in T
  <2>1. n \in 0..n
    BY <1>1
  <2> HIDE DEF T, n
  <2> QED
    BY <1>1, <1>2, <1>3, <2>1, Ascent
<1>5. Elements(s) = Prefix(n)
  BY <1>1 DEF Elements
<1> QED
  BY <1>4, <1>5

LEMMA ExtremesOfAscending ==
  ASSUME NEW s \in Seq(Int), Ascending(s), Len(s) >= 1
  PROVE  /\ Min(Elements(s)) = s[1]
         /\ Max(Elements(s)) = s[Len(s)]
         /\ \A i \in 2..Len(s) : Max({y \in Elements(s) : y < s[i]}) = s[i - 1]
<1>1. /\ Len(s) \in Nat /\ DOMAIN s = 1..Len(s) /\ \A i \in 1..Len(s) : s[i] \in Int
      /\ \A i, j \in 1..Len(s) : i < j => s[i] < s[j]
  BY LenProperties, ElementOfSeq DEF Ascending
<1>2. \A y : y \in Elements(s) <=> \E j \in 1..Len(s) : y = s[j]
  BY <1>1 DEF Elements
<1>3. Min(Elements(s)) = s[1]
  <2> DEFINE xs == Elements(s)
  <2>1. s[1] \in xs /\ \A y \in xs : s[1] <= y
    BY <1>1, <1>2
  <2>2. \A x \in xs : (\A y \in xs : x <= y) => x = s[1]
    BY <1>1, <1>2, <2>1
  <2> HIDE DEF xs
  <2> QED
    BY <2>1, <2>2 DEF Min, xs
<1>4. Max(Elements(s)) = s[Len(s)]
  <2> DEFINE xs == Elements(s)
  <2>1. s[Len(s)] \in xs /\ \A y \in xs : s[Len(s)] >= y
    BY <1>1, <1>2
  <2>2. \A x \in xs : (\A y \in xs : x >= y) => x = s[Len(s)]
    BY <1>1, <1>2, <2>1
  <2> HIDE DEF xs
  <2> QED
    BY <2>1, <2>2 DEF Max, xs
<1>5. ASSUME NEW i \in 2..Len(s) PROVE Max({y \in Elements(s) : y < s[i]}) = s[i - 1]
  <2> DEFINE xs == {y \in Elements(s) : y < s[i]}
  <2>1. i - 1 \in 1..Len(s) /\ i \in 1..Len(s)
    BY <1>1
  <2>2. s[i - 1] \in xs
    BY <1>1, <1>2, <2>1
  <2>3. ASSUME NEW y \in xs PROVE s[i - 1] >= y
    <3>1. PICK j \in 1..Len(s) : y = s[j]
      BY <1>2
    <3>2. j <= i - 1
      BY <1>1, <2>1, <3>1
    <3>3. j = i - 1 \/ j < i - 1
      BY <2>1, <3>2
    <3> QED
      BY <1>1, <2>1, <3>1, <3>3
  <2>4. \A x \in xs : (\A y \in xs : x >= y) => x = s[i - 1]
    BY <1>1, <1>2, <2>1, <2>2, <2>3
  <2> HIDE DEF xs
  <2> QED
    BY <2>2, <2>3, <2>4 DEF Max, xs
<1> QED
  BY <1>3, <1>4, <1>5

\* A counter with the readings w, read as `values` at the times of s, was
\* reset at those of `resets`, and each time lost what it had counted.
CountedOver(s, w, values, resets, lost) ==
  /\ s \in Seq(Int) /\ Ascending(s) /\ Len(s) >= 1
  /\ \A i \in 1..Len(s) : w[s[i]] \in Int
  /\ values \in Seq(Int) /\ Len(values) = Len(s)
  /\ \A i \in 1..Len(s) : values[i] = w[s[i]]
  /\ resets = {s[i] : i \in {j \in 2..Len(s) : w[s[j]] < w[s[j - 1]]}}
  /\ \A i \in 2..Len(s) : s[i] \in resets => lost[s[i]] = w[s[i - 1]]

\* What a counter grew by, reading by reading, is the difference of its ends
\* and, for each reset, what was counted before it.
LEMMA GrowthWithResets ==
  ASSUME NEW s, NEW w, NEW values, NEW resets, NEW lost, NEW g,
         CountedOver(s, w, values, resets, lost), IsSum(g, lost, resets)
  PROVE  Increase(values) = w[s[Len(s)]] - w[s[1]] + g[resets]
<1> DEFINE n == Len(s)
           Reset(j) == w[s[j]] < w[s[j - 1]]
           Upto(i) == {s[j] : j \in {h \in 2..i : Reset(h)}}
           Level(i) == w[s[i]] - w[s[1]] + g[Upto(i)]
<1>0. /\ s \in Seq(Int) /\ Ascending(s) /\ values \in Seq(Int) /\ Len(values) = n
      /\ \A i \in 1..n : values[i] = w[s[i]]
      /\ \A i \in 2..n : s[i] \in resets => lost[s[i]] = w[s[i - 1]]
  BY DEF CountedOver
<1>1. /\ n \in Nat /\ n >= 1 /\ \A i \in 1..n : s[i] \in Int
      /\ \A i, j \in 1..n : i < j => s[i] < s[j]
      /\ \A i \in 1..n : w[s[i]] \in Int
  BY <1>0, LenProperties, ElementOfSeq DEF Ascending, CountedOver
<1>2. resets = Upto(n)
  BY DEF CountedOver
<1>3. IsFiniteSet(resets)
  <2>1. resets \subseteq Elements(s)
    <3>1. \A j \in 2..n : s[j] \in Elements(s)
      BY <1>0, <1>1, ElementsOf
    <3> QED
      BY <1>2, <3>1
  <2> QED
    BY <1>0, <2>1, AscendingCount, FS_Subset
<1>4. \A T \in SUBSET resets :
        g[T] \in Int /\ \A x \in T : g[T] = lost[x] + g[T \ {x}]
  BY <1>3, SumAddsUp
<1>5. PICK f : GrowsBy(f, values)
  BY <1>0, IncreaseLoop
<1>6. /\ Increase(values) = f[n]
      /\ f[1] = 0
      /\ \A i \in 2..n : f[i] = f[i - 1] + (IF Reset(i) THEN w[s[i]]
                                           ELSE w[s[i]] - w[s[i - 1]])
  <2>1. ASSUME NEW i \in 2..n PROVE values[i] = w[s[i]] /\ values[i - 1] = w[s[i - 1]]
    <3>1. i \in 1..Len(s) /\ i - 1 \in 1..Len(s)
      BY <1>1
    <3> QED
      BY <1>0, <3>1
  <2>2. /\ Increase(values) = f[n]
        /\ \A i \in 0..n : i <= 1 => f[i] = 0
        /\ \A i \in 2..n : f[i] = f[i - 1] + (IF values[i] < values[i - 1] THEN values[i]
                                             ELSE values[i] - values[i - 1])
    BY <1>0, <1>5 DEF GrowsBy
  <2>3. f[1] = 0
    BY <1>1, <2>2
  <2> QED
    BY <2>1, <2>2, <2>3
<1>7. \A i \in 0..n : Upto(i) \in SUBSET resets
  BY <1>1, <1>2
<1> DEFINE I == {i \in 0..n : i >= 1 => f[i] = Level(i)}
<1>8. 0 \in I
  BY <1>1
<1>9. ASSUME NEW i \in 1..n, i - 1 \in I PROVE i \in I
  <2> SUFFICES f[i] = Level(i)
    BY <1>1
  <2>1. CASE i = 1
    <3>1. Upto(1) = {}
      OBVIOUS
    <3>2. g[{}] = 0
      BY DEF IsSum
    <3> HIDE DEF Upto
    <3>3. w[s[1]] \in Int
      BY <1>1
    <3>4. Level(1) = w[s[1]] - w[s[1]] + 0
      BY <3>1, <3>2
    <3> QED
      BY <1>6, <2>1, <3>3, <3>4
  <2>2. CASE i # 1
    <3>1. i \in 2..n /\ i - 1 \in 1..n /\ i \in 0..n /\ i - 1 \in 0..n
      BY <1>1, <2>2
    <3>2. f[i - 1] = Level(i - 1)
      BY <1>9, <3>1
    <3>3. /\ w[s[i]] \in Int /\ w[s[i - 1]] \in Int /\ w[s[1]] \in Int
          /\ g[Upto(i - 1)] \in Int
      <4> HIDE DEF Upto
      <4>1. Upto(i - 1) \in SUBSET resets
        BY <1>7, <3>1
      <4>2. 1 \in 1..n /\ i \in 1..n
        BY <1>1
      <4> QED
        BY <1>1, <1>4, <3>1, <4>1, <4>2
    <3> DEFINE a == w[s[i]]
               b == w[s[i - 1]]
               z == w[s[1]]
               u == g[Upto(i - 1)]
    <3>4. \A h : h \in 2..i <=> h \in 2..i - 1 \/ h = i
      BY <3>1
    <3>5. f[i] = f[i - 1] + (IF Reset(i) THEN w[s[i]] ELSE w[s[i]] - w[s[i - 1]])
      BY <1>6, <3>1
    <3>6. CASE ~Reset(i)
      <4>1. Upto(i) = Upto(i - 1)
        <5> HIDE DEF Reset
        <5> QED
          BY <3>4, <3>6
      <4> HIDE DEF Upto
      <4>2. f[i] = (b - z + u) + (a - b) /\ Level(i) = a - z + u
        BY <3>2, <3>5, <3>6, <4>1
      <4>3. a \in Int /\ b \in Int /\ z \in Int /\ u \in Int
        BY <3>3
      <4> HIDE DEF a, b, z, u, Level
      <4> QED
        BY <4>2, <4>3
    <3>7. CASE Reset(i)
      <4>1. s[i] \in Upto(i) /\ s[i] \notin Upto(i - 1)
        <5>1. s[i] \in Upto(i)
          <6>1. i \in {h \in 2..i : Reset(h)}
            <7> HIDE DEF Reset
            <7> QED
              BY <3>1, <3>7
          <6> HIDE DEF Reset
          <6> QED
            BY <6>1
        <5>2. ASSUME NEW j \in 2..i - 1 PROVE s[j] # s[i]
          <6>1. j \in 1..n /\ i \in 1..n /\ j < i
            BY <3>1
          <6> QED
            BY <1>1, <6>1
        <5> QED
          BY <5>1, <5>2
      <4>2. Upto(i) \ {s[i]} = Upto(i - 1)
        <5>1. Upto(i) = Upto(i - 1) \cup {s[i]}
          <6> HIDE DEF Reset
          <6> QED
            BY <3>4, <3>7
        <5> HIDE DEF Upto
        <5> QED
          BY <4>1, <5>1
      <4>3. s[i] \in resets /\ lost[s[i]] = w[s[i - 1]]
        <5> HIDE DEF Upto
        <5> QED
          BY <1>0, <1>7, <3>1, <4>1
      <4>4. g[Upto(i)] = w[s[i - 1]] + g[Upto(i - 1)]
        <5> HIDE DEF Upto
        <5>1. g[Upto(i)] = lost[s[i]] + g[Upto(i) \ {s[i]}]
          BY <1>4, <1>7, <3>1, <4>1
        <5> QED
          BY <4>2, <4>3, <5>1
      <4> HIDE DEF Upto
      <4>5. f[i] = (b - z + u) + a /\ Level(i) = a - z + (b + u)
        BY <3>2, <3>5, <3>7, <4>4
      <4>6. a \in Int /\ b \in Int /\ z \in Int /\ u \in Int
        BY <3>3
      <4> HIDE DEF a, b, z, u, Level
      <4> QED
        BY <4>5, <4>6
    <3> QED
      BY <3>6, <3>7
  <2> QED
    BY <2>1, <2>2
<1>10. n \in I
  <2>1. n \in 0..n
    BY <1>1
  <2> HIDE DEF I, n
  <2> QED
    BY <1>1, <1>8, <1>9, <2>1, Ascent
<1>11. f[n] = Level(n)
  BY <1>1, <1>10
<1> QED
  BY <1>2, <1>6, <1>11

\* Each sample that is held has a reading, a number.
ReadingsTyped ==
  /\ started \in 0..MaxTime
  /\ DOMAIN reading = Keys
  /\ \A k \in Keys : \A x \in Held[k] : reading[k][x] \in Int

LEMMA ReadingsTypedStep == IInv /\ ReadingsTyped /\ [ENext]_evars => ReadingsTyped'
<1> SUFFICES ASSUME IInv, ReadingsTyped, [ENext]_evars PROVE ReadingsTyped'
  OBVIOUS
<1>1. DOMAIN reading' = Keys
  BY StepKeepsReach DEF ReadingsTyped
<1>2. ASSUME UNCHANGED <<series, reading>>, started' \in 0..MaxTime PROVE ReadingsTyped'
  <2>1. Held' = Held
    BY <1>2 DEF Held, Live
  <2> QED
    BY <1>2, <2>1 DEF ReadingsTyped
<1>3. CASE UNCHANGED evars
  BY <1>2, <1>3 DEF evars, vars, ReadingsTyped
<1>4. CASE \E t \in 0..MaxTime : BeginPass(t) /\ UNCHANGED reading
  BY <1>2, <1>4 DEF BeginPass
<1>5. ASSUME NEW k \in Keys, NEW v \in Readings[k][started], Collect(k, v)
      PROVE  ReadingsTyped'
  <2>0. started' = started /\ started' \in 0..MaxTime
    BY <1>5 DEF Collect, AppendExisting, AppendNew, ReadingsTyped
  <2>1. CASE series' = series
    BY <1>2, <1>5, <2>0, <2>1 DEF Collect
  <2>2. CASE series' # series
    <3>1. Contract!Record(k) \/ UNCHANGED Contract!vars
      BY <1>5, AppendExistingRefines, AppendNewRefines DEF Collect
    <3>2. reading' = [reading EXCEPT ![k] =
                        [x \in Held'[k] |-> IF x = started THEN v ELSE reading[k][x]]]
      BY <1>5, <2>2 DEF Collect
    <3>3. \A l \in Keys : \A x \in Held'[l] : x \in Held[l] \/ (l = k /\ x = started)
      <4>1. CASE Contract!Record(k)
        <5>1. Held' = [Held EXCEPT ![k] = @ \cup {started}] /\ DOMAIN Held = Keys
          BY <4>1 DEF Contract!Record, Held
        <5> QED
          BY <5>1
      <4>2. CASE UNCHANGED Contract!vars
        BY <4>2 DEF Contract!vars
      <4> QED
        BY <3>1, <4>1, <4>2
    <3>4. v \in Int
      BY ReadingsAssumption DEF ReadingsTyped
    <3>5. ASSUME NEW l \in Keys, NEW x \in Held'[l] PROVE reading'[l][x] \in Int
      <4>1. CASE l = k
        <5>1. reading'[k][x] = IF x = started THEN v ELSE reading[k][x]
          BY <3>2, <4>1 DEF ReadingsTyped
        <5> QED
          BY <3>3, <3>4, <4>1, <5>1 DEF ReadingsTyped
      <4>2. CASE l # k
        BY <3>2, <3>3, <4>2 DEF ReadingsTyped
      <4> QED
        BY <4>1, <4>2
    <3> QED
      BY <1>1, <2>0, <3>5 DEF ReadingsTyped
  <2> QED
    BY <2>1, <2>2
<1>6. CASE EPrune
  <2>1. Contract!Age
    BY <1>6, EndPassRefines DEF EPrune
  <2>2. reading' = [k \in Keys |-> [x \in Held'[k] |-> reading[k][x]]]
    BY <1>6 DEF EPrune, Restrict
  <2>3. started' = started /\ \A k \in Keys : Held'[k] \subseteq Held[k]
    BY <2>1 DEF Contract!Age, Contract!Aged
  <2> QED
    BY <1>1, <2>2, <2>3 DEF ReadingsTyped
<1> QED
  BY <1>3, <1>4, <1>5, <1>6 DEF ENext

\* The rate over a window is that of a counter whose resets are made up for:
\* what it grew by is the difference of its ends and, for each reset, what was
\* counted before it; and it is there if there are two samples
\* (src/promql/eval.rs: `increase`, `Expr::Rate`).
THEOREM RatesAlwaysCorrected == ESpec => []RateCorrected
<1>1. EInit => ReadingsTyped
  BY DEF EInit, Init, ReadingsTyped, Held, Live
<1>2. IInv /\ ReadingsTyped => RateCorrected
  <2> SUFFICES ASSUME IInv, ReadingsTyped, NEW k \in Live, NEW t \in 0..MaxTime,
                      NEW window \in 1..MaxTime + 1
               PROVE  LET xs      == {x \in Times(series[k]) : x > t - window /\ x <= t}
                          before(x) == Max({y \in xs : y < x})
                          resets  == {x \in xs \ {Min(xs)} :
                                        reading[k][x] < reading[k][before(x)]}
                          grown   == reading[k][Max(xs)] - reading[k][Min(xs)]
                                       + MapThenSumSet(LAMBDA x : reading[k][before(x)], resets)
                      IN  RateOver(k, RangeAt(series[k], t, window)) =
                            IF Cardinality(xs) < 2 THEN None
                            ELSE Some(Float(grown, Max(xs) - Min(xs)))
    BY DEF RateCorrected
  <2> DEFINE s         == RangeAt(series[k], t, window)
             n         == Len(s)
             w         == reading[k]
             xs        == {x \in Times(series[k]) : x > t - window /\ x <= t}
             before(x) == Max({y \in xs : y < x})
             resets    == {x \in xs \ {Min(xs)} : w[x] < w[before(x)]}
             total     == MapThenSumSet(LAMBDA x : w[before(x)], resets)
             lost      == [x \in resets |-> w[before(x)]]
             values    == [i \in DOMAIN s |-> w[s[i]]]
  <2>1. /\ series[k] \in Series /\ WellFormedSeries(series[k])
        /\ t \in Int /\ window \in Nat /\ k \in Keys /\ Times(series[k]) = Held[k]
    BY StoreAssumption DEF IInv, SeriesSound, Sound, TypeOK, Held
  <2>2. s \in Seq(Int) /\ Ascending(s) /\ Elements(s) = xs
    BY <2>1, RangeAtOfWellFormed DEF RangeAtExact
  <2>3. \A x \in xs : w[x] \in Int
    BY <2>1 DEF ReadingsTyped
  <2> HIDE DEF s, w, xs
  <2>4. IsFiniteSet(xs) /\ Cardinality(xs) = n
    BY <2>2, AscendingCount
  <2>5. n \in Nat /\ DOMAIN s = 1..n /\ \A i \in 1..n : s[i] \in xs /\ s[i] \in Int
    BY <2>2, LenProperties, ElementsOf, ElementOfSeq
  <2>6. values \in Seq(Int) /\ Len(values) = n /\ \A i \in 1..n : values[i] = w[s[i]]
    <3>1. values = [i \in 1..n |-> w[s[i]]]
      BY <2>5
    <3>2. \A i \in 1..n : w[s[i]] \in Int
      BY <2>3, <2>5
    <3> HIDE DEF values, n
    <3> QED
      BY <2>5, <3>1, <3>2
  <2>7. CASE n < 2
    BY <2>4, <2>7 DEF RateOver, s, xs
  <2>8. CASE ~(n < 2)
    <3>1. /\ Min(xs) = s[1] /\ Max(xs) = s[n]
          /\ \A i \in 2..n : before(s[i]) = s[i - 1]
      <4>1. Len(s) >= 1
        BY <2>5, <2>8
      <4>2. /\ Min(Elements(s)) = s[1] /\ Max(Elements(s)) = s[Len(s)]
            /\ \A i \in 2..Len(s) : Max({y \in Elements(s) : y < s[i]}) = s[i - 1]
        BY <2>2, <4>1, ExtremesOfAscending
      <4> QED
        BY <2>2, <4>2
    <3> HIDE DEF before, n
    <3>2. resets = {s[i] : i \in {j \in 2..n : w[s[j]] < w[s[j - 1]]}}
      <4>1. ASSUME NEW x \in resets
            PROVE  \E i \in 2..n : x = s[i] /\ w[s[i]] < w[s[i - 1]]
        <5>1. PICK i \in 1..n : x = s[i]
          BY <2>2, <2>5 DEF Elements
        <5>2. i # 1 /\ i \in 2..n
          BY <2>5, <3>1, <5>1
        <5> QED
          BY <3>1, <5>1, <5>2
      <4>2. ASSUME NEW i \in 2..n, w[s[i]] < w[s[i - 1]] PROVE s[i] \in resets
        <5>1. i \in 1..n /\ 1 \in 1..n /\ 1 < i
          BY <2>5
        <5>2. s[1] < s[i]
          BY <2>2, <5>1 DEF Ascending, n
        <5>3. s[i] \in xs /\ s[i] # Min(xs)
          BY <2>5, <3>1, <5>1, <5>2
        <5> QED
          BY <3>1, <4>2, <5>3
      <4> HIDE DEF resets
      <4> QED
        BY <4>1, <4>2
    <3>3. IsFiniteSet(resets) /\ \A x \in resets : w[before(x)] \in Int
      <4>1. resets \in SUBSET xs
        OBVIOUS
      <4>2. ASSUME NEW x \in resets PROVE w[before(x)] \in Int
        <5>1. PICK i \in 2..n : x = s[i]
          BY <3>2
        <5>2. i - 1 \in 1..n
          BY <2>5
        <5> QED
          BY <2>3, <2>5, <3>1, <5>1, <5>2
      <4> QED
        BY <2>4, <4>1, <4>2, FS_Subset
    <3>4. PICK g : IsSum(g, lost, resets) /\ total = g[resets]
      <4> DEFINE Body(h) == [T \in SUBSET resets |->
                               IF T = {} THEN 0
                               ELSE w[before(CHOOSE x \in T : TRUE)]
                                      + h[T \ {CHOOSE x \in T : TRUE}]]
                 g == CHOOSE h : h = Body(h)
      <4>1. total = g[resets]
        BY DEF MapThenSumSet, MapThenFoldSet
      <4>2. lost \in [resets -> Int]
        BY <3>3
      <4> HIDE DEF resets
      <4>3. PICK h : h \in [SUBSET resets -> Int] /\ IsSum(h, lost, resets)
        <5> HIDE DEF lost
        <5> QED
          BY <3>3, <4>2, SumExists
      <4>4. ASSUME NEW T \in SUBSET resets, T # {}
            PROVE  lost[AnyOf(T)] = w[before(CHOOSE x \in T : TRUE)]
        BY <4>4 DEF AnyOf
      <4>5. h = Body(h)
        <5>1. h[{}] = 0 /\ \A T \in SUBSET resets :
                T # {} => h[T] = lost[AnyOf(T)] + h[T \ {AnyOf(T)}]
          BY <4>3 DEF IsSum
        <5> HIDE DEF lost
        <5>2. \A T \in SUBSET resets : h[T] = Body(h)[T]
          BY <4>4, <5>1 DEF AnyOf
        <5>3. /\ h = [T \in SUBSET resets |-> h[T]]
              /\ Body(h) = [T \in SUBSET resets |-> Body(h)[T]]
          BY <4>3
        <5> HIDE DEF Body
        <5> QED
          BY <5>2, <5>3
      <4>6. g = Body(g)
        <5> HIDE DEF Body
        <5> QED
          BY <4>5
      <4> HIDE DEF g
      <4>7. IsSum(g, lost, resets)
        <5>1. g[{}] = 0
          BY <4>6
        <5>2. ASSUME NEW T \in SUBSET resets, T # {}
              PROVE  g[T] = lost[AnyOf(T)] + g[T \ {AnyOf(T)}]
          <6> HIDE DEF lost
          <6> QED
            BY <4>4, <4>6, <5>2 DEF AnyOf
        <5> HIDE DEF lost
        <5> QED
          BY <4>2, <5>1, <5>2 DEF IsSum
      <4> QED
        BY <4>1, <4>7
    <3>5. Increase(values) = w[s[n]] - w[s[1]] + total
      <4>1. \A i \in 2..n : s[i] \in resets => lost[s[i]] = w[s[i - 1]]
        BY <3>1
      <4>2. \A i \in 1..n : w[s[i]] \in Int
        BY <2>3, <2>5
      <4> HIDE DEF values, lost, resets, total
      <4>3. n >= 1
        BY <2>5, <2>8
      <4>4. CountedOver(s, w, values, resets, lost)
        BY <2>2, <2>6, <3>2, <4>1, <4>2, <4>3 DEF CountedOver, n
      <4> QED
        BY <3>4, <4>4, GrowthWithResets DEF n
    <3>6. RateOver(k, s) = Some(Float(Increase(values), s[n] - s[1]))
      BY <2>8 DEF RateOver, LastOf, w, n
    <3> HIDE DEF values, resets
    <3> QED
      BY <2>4, <2>8, <3>1, <3>5, <3>6 DEF s, w, xs, before, resets
  <2> QED
    BY <2>5, <2>7, <2>8
<1> QED
  BY <1>1, <1>2, ReadingsTypedStep, InvarianceWithReadings, PTL DEF ESpec

-----------------------------------------------------------------------------
\* Nothing happens to what fits.
LEMMA WrappedInWord ==
  ASSUME NEW n \in Word
  PROVE  Wrapped(n) = n
<1> DEFINE m == n + Half
<1>1. m \in Int /\ 0 <= m /\ m < 2 * Half /\ Half \in Int /\ m - Half = n
  BY RequestAssumption DEF Word
<1>2. m % (2 * Half) = m
  BY <1>1
<1> QED
  BY <1>1, <1>2 DEF Wrapped

\* "Prometheus caps a range query at 11000 points": a request that is let in
\* is evaluated at one instant more than the cap at most, then the loop ends,
\* and until then its clock does not wrap (src/api.rs: `range`;
\* src/promql/eval.rs: `query_range`).  For requests that span more than half
\* of the words, or end within a step of the last one, nothing is said.
THEOREM AdmittedEnds ==
  ASSUME NEW start \in Word, NEW end \in Word, NEW step \in Nat \ {0},
         end - start \in Word, end + step \in Word,
         Admitted(start, end, step)
  PROVE  \E n \in 1..MaxPoints + 1 :
           /\ EndsAfter(start, end, step, n)
           /\ Instants(start, end, step) = {start + i * step : i \in 0..n - 1}
<1> DEFINE q == (end - start) \div step
<1>1. /\ start \in Int /\ end \in Int /\ step \in Nat /\ step > 0
      /\ start <= end /\ end - start \in Nat
  BY RequestAssumption DEF Word, Admitted
<1>2. q \in Nat /\ q * step <= end - start /\ end - start < q * step + step
  BY <1>1, Division
<1>3. q <= MaxPoints
  BY <1>1, WrappedInWord DEF Admitted, Quotient
<1>4. \A i \in 0..q : Round(start, step, i) = start + i * step /\ start + i * step <= end
  <2> SUFFICES ASSUME NEW i \in 0..q
               PROVE  Round(start, step, i) = start + i * step /\ start + i * step <= end
    OBVIOUS
  <2> DEFINE s == i * step
  <2>1. s \in Nat /\ s <= q * step
    BY <1>1, <1>2, Monotone
  <2>2. start + s <= end /\ start + s \in Word
    <3> HIDE DEF q, s
    <3>1. start + s <= end
      BY <1>1, <1>2, <2>1
    <3> QED
      BY <1>1, <2>1, <3>1, RequestAssumption DEF Word
  <2> QED
    BY <2>2, WrappedInWord DEF Round
<1>5. Round(start, step, q + 1) > end
  <2>1. (q + 1) * step = q * step + step
    BY <1>1, <1>2
  <2>2. start + (q + 1) * step > end /\ start + (q + 1) * step <= end + step
    <3> DEFINE p == q * step
    <3>1. p \in Int /\ p <= end - start /\ end - start < p + step
      BY <1>1, <1>2
    <3> HIDE DEF p
    <3>2. start + (p + step) > end /\ start + (p + step) <= end + step
      BY <1>1, <3>1
    <3> QED
      BY <2>1, <3>2 DEF p
  <2>3. start + (q + 1) * step \in Word
    <3> DEFINE p == (q + 1) * step
    <3>1. p \in Int
      BY <1>1, <1>2
    <3> HIDE DEF p
    <3> QED
      BY <1>1, <2>2, <3>1, RequestAssumption DEF Word, p
  <2> QED
    BY <2>2, <2>3, WrappedInWord DEF Round
<1>6. q + 1 \in 1..MaxPoints + 1 /\ (q + 1) - 1 = q
  BY <1>2, <1>3, RequestAssumption
<1>7. EndsAfter(start, end, step, q + 1)
  <2> HIDE DEF q
  <2> QED
    BY <1>2, <1>4, <1>5, <1>6 DEF EndsAfter
<1>8. Instants(start, end, step) = {start + i * step : i \in 0..(q + 1) - 1}
  BY <1>4, <1>6 DEF Instants
<1> QED
  <2> HIDE DEF q
  <2> QED
    BY <1>6, <1>7, <1>8

-----------------------------------------------------------------------------
\* The numbers that a float of the model can be.
Floats ==
  {x \in Int \X Nat : IF x[2] = 0 THEN x[1] \in {-1, 0, 1}
                      ELSE \E u, v \in Int : u * x[1] + v * x[2] = 1}

\* A fraction and its lowest terms.
LEMMA LowestTerms ==
  ASSUME NEW n \in Int, NEW d \in Nat \ {0}
  PROVE  /\ Float(n, d) \in Floats
         /\ Float(n, d)[2] # 0
         /\ n * Float(n, d)[2] = Float(n, d)[1] * d
<1> DEFINE divisors == {h \in 1..d : n % h = 0 /\ d % h = 0}
<1>1. PICK g \in Nat \ {0} : /\ n % g = 0 /\ d % g = 0
                             /\ \E u, v \in Int : g = u * n + v * d
  BY DivisorMadeOfThem
<1>2. PICK u \in Int, v \in Int : g = u * n + v * d
  BY <1>1
<1>3. ASSUME NEW h \in divisors PROVE h <= g
  <2>1. h \in Nat \ {0} /\ n % h = 0 /\ d % h = 0 /\ d \in Int
    OBVIOUS
  <2> QED
    BY ONLY <1>2, <2>1, DividesWhatIsMade, n \in Int
<1> DEFINE a == n \div g
           b == d \div g
<1>4. a \in Int /\ b \in Int /\ n = a * g /\ d = b * g
  BY <1>1
<1> HIDE DEF a, b
<1>5. b > 0
  <2>1. SUFFICES ASSUME b <= 0 PROVE FALSE
    BY <1>4
  <2>2. b * g <= 0
    BY <1>4, <2>1
  <2> QED
    BY <1>4, <2>2
<1>6. g \in divisors
  <2>1. 1 * g <= b * g
    BY <1>4, <1>5, Monotone
  <2> QED
    BY <1>1, <1>4, <2>1
<1>7. Max(divisors) = g
  <2>1. \A h \in divisors : h \in Int /\ h <= g
    BY <1>3
  <2>2. g \in divisors /\ \A h \in divisors : g >= h
    BY <1>6, <2>1
  <2>3. ASSUME NEW m \in divisors, \A h \in divisors : m >= h PROVE m = g
    <3>1. m >= g /\ m <= g /\ m \in Int /\ g \in Int
      <4> HIDE DEF divisors
      <4> QED
        BY <2>1, <2>2, <2>3
    <3> QED
      BY <3>1
  <2> HIDE DEF divisors
  <2> QED
    BY <2>2, <2>3 DEF Max
<1>8. Float(n, d) = <<a, b>>
  BY <1>7 DEF Float, a, b
<1>9. u * a + v * b = 1
  <2> DEFINE k == u * a + v * b
  <2>1. u * (a * g) = (u * a) * g /\ v * (b * g) = (v * b) * g
    BY <1>4
  <2>2. u * a \in Int /\ v * b \in Int
    BY <1>4
  <2>3. k * g = (u * a) * g + (v * b) * g
    BY <2>2
  <2>4. k * g = g /\ k \in Int
    BY <1>2, <1>4, <2>1, <2>2, <2>3
  <2> HIDE DEF k
  <2>5. (k - 1) * g = 0
    BY <2>4
  <2>6. k - 1 = 0
    BY <2>4, <2>5
  <2> QED
    BY <2>4, <2>6 DEF k
<1>10. n * b = a * d
  <2>1. (a * g) * b = a * (b * g)
    BY <1>4
  <2> QED
    BY <1>4, <2>1
<1>11. <<a, b>> \in Floats
  <2>1. <<a, b>>[1] = a /\ <<a, b>>[2] = b /\ <<a, b>> \in Int \X Nat /\ b # 0
    BY <1>4, <1>5
  <2>2. \E r, s \in Int : r * a + s * b = 1
    BY <1>9
  <2> QED
    BY ONLY <2>1, <2>2 DEF Floats
<1> QED
  BY ONLY <1>5, <1>8, <1>10, <1>11

\* Lowest terms are unique.
LEMMA SameFloat ==
  ASSUME NEW x \in Floats, NEW y \in Floats, x[2] # 0, y[2] # 0, x[1] * y[2] = y[1] * x[2]
  PROVE  x = y
<1> DEFINE a == x[1]
           b == x[2]
           c == y[1]
           d == y[2]
<1>1. /\ x = <<a, b>> /\ y = <<c, d>> /\ a \in Int /\ c \in Int
      /\ b \in Nat \ {0} /\ d \in Nat \ {0} /\ a * d = c * b
  BY DEF Floats
<1>2. (\E u, v \in Int : u * a + v * b = 1) /\ (\E u, v \in Int : u * c + v * d = 1)
  BY DEF Floats
<1> HIDE DEF a, b, c, d
<1>3. ASSUME NEW p \in Int, NEW q \in Nat \ {0}, NEW r \in Int, NEW s \in Nat \ {0},
             p * s = r * q, \E u, v \in Int : u * p + v * q = 1
      PROVE  q <= s
  <2>1. PICK u \in Int, v \in Int : u * p + v * q = 1
    BY <1>3
  <2> DEFINE k == u * r + v * s
  <2>2. u * p \in Int /\ v * q \in Int /\ u * r \in Int /\ v * s \in Int
    OBVIOUS
  <2>3. (u * p + v * q) * s = (u * p) * s + (v * q) * s
    BY <2>2
  <2>4. (u * p) * s = u * (p * s) /\ (v * q) * s = (v * s) * q /\ u * (r * q) = (u * r) * q
    OBVIOUS
  <2>5. k * q = (u * r) * q + (v * s) * q
    BY <2>2
  <2>6. s = k * q /\ k \in Int
    BY <1>3, <2>1, <2>2, <2>3, <2>4, <2>5
  <2> HIDE DEF k
  <2>7. k > 0
    <3>1. SUFFICES ASSUME k <= 0 PROVE FALSE
      BY <2>6
    <3>2. k * q <= 0
      BY <2>6, <3>1
    <3> QED
      BY <2>6, <3>2
  <2>8. 1 * q <= k * q
    BY <2>6, <2>7, Monotone
  <2> QED
    BY <2>6, <2>8
<1>4. b <= d /\ d <= b
  BY <1>1, <1>2, <1>3
<1>5. b = d
  BY <1>1, <1>4
<1>6. (a - c) * b = 0
  BY <1>1, <1>5
<1>7. a - c = 0
  BY <1>1, <1>6
<1> QED
  BY <1>1, <1>5, <1>7

\* Any fraction, one with denominator 0 too, is a float.
LEMMA FloatIsFloat ==
  ASSUME NEW n \in Int, NEW d \in Nat
  PROVE  /\ Float(n, d) \in Floats
         /\ d = 0 => Float(n, d) = <<Sign(n), 0>>
<1>1. CASE d = 0
  <2>1. Float(n, d) = <<Sign(n), 0>> /\ Sign(n) \in {-1, 0, 1}
    BY <1>1 DEF Float, Sign
  <2> DEFINE s == Sign(n)
  <2> HIDE DEF s
  <2>2. <<s, 0>> \in Int \X Nat /\ <<s, 0>>[1] = s /\ <<s, 0>>[2] = 0
    BY <2>1 DEF s
  <2>3. <<s, 0>> \in Floats
    BY <2>1, <2>2 DEF Floats, s
  <2> QED
    BY <2>1, <2>3 DEF s
<1>2. CASE d # 0
  BY <1>2, LowestTerms
<1> QED
  BY <1>1, <1>2

\* What a float is made of.
LEMMA FloatParts ==
  ASSUME NEW x \in Floats
  PROVE  /\ x = <<x[1], x[2]>> /\ x[1] \in Int /\ x[2] \in Nat
         /\ x[2] = 0 => x[1] \in {-1, 0, 1}
BY DEF Floats

NaN == <<0, 0>>

\* Plus, of finite floats and of others.
LEMMA PlusFinite ==
  ASSUME NEW x \in Floats, NEW y \in Floats, x[2] # 0, y[2] # 0
  PROVE  /\ Plus(x, y) \in Floats
         /\ Plus(x, y)[2] # 0
         /\ (x[1] * y[2] + y[1] * x[2]) * Plus(x, y)[2] = Plus(x, y)[1] * (x[2] * y[2])
<1> DEFINE n == x[1] * y[2] + y[1] * x[2]
           d == x[2] * y[2]
<1>1. x[1] \in Int /\ y[1] \in Int /\ x[2] \in Nat \ {0} /\ y[2] \in Nat \ {0}
  BY FloatParts
<1>2. n \in Int /\ d \in Nat \ {0}
  BY <1>1
<1>3. Plus(x, y) = Float(n, d)
  BY DEF Plus
<1> HIDE DEF n, d
<1>4. Plus(x, y) \in Floats /\ Plus(x, y)[2] # 0 /\ n * Plus(x, y)[2] = Plus(x, y)[1] * d
  BY <1>2, <1>3, LowestTerms
<1> QED
  BY <1>4 DEF n, d

\* A sum with an infinity is an infinity, or NaN if there is another one.
LEMMA PlusInfinite ==
  ASSUME NEW x \in Floats, NEW y \in Floats, x[2] = 0 \/ y[2] = 0
  PROVE  Plus(x, y) = IF y[2] # 0 THEN x ELSE IF x[2] # 0 THEN y
                      ELSE IF x = y THEN x ELSE NaN
<1>1. /\ x = <<x[1], x[2]>> /\ x[1] \in Int /\ x[2] \in Nat /\ (x[2] = 0 => x[1] \in {-1, 0, 1})
      /\ y = <<y[1], y[2]>> /\ y[1] \in Int /\ y[2] \in Nat /\ (y[2] = 0 => y[1] \in {-1, 0, 1})
  BY FloatParts
<1> DEFINE n == x[1] * y[2] + y[1] * x[2]
           d == x[2] * y[2]
<1>2. Plus(x, y) = IF x[2] = 0 /\ x = y THEN x ELSE Float(n, d)
  BY DEF Plus
<1>3. n \in Int /\ d = 0
  BY <1>1
<1> HIDE DEF n, d
<1>4. Float(n, d) = <<Sign(n), 0>>
  BY <1>3, FloatIsFloat
<1>5. CASE y[2] # 0
  <2>1. x[2] = 0 /\ x # y
    BY <1>5
  <2>2. n = x[1] * y[2]
    BY <1>1, <2>1 DEF n
  <2>3. Sign(n) = x[1]
    <3>1. CASE x[1] = 1
      BY <1>1, <1>5, <2>2, <3>1 DEF Sign
    <3>2. CASE x[1] = 0
      BY <1>1, <1>5, <2>2, <3>2 DEF Sign
    <3>3. CASE x[1] = -1
      <4>1. n = -y[2]
        BY <1>1, <2>2, <3>3
      <4> QED
        BY <1>1, <1>5, <3>3, <4>1 DEF Sign
    <3> QED
      BY <1>1, <2>1, <3>1, <3>2, <3>3
  <2> QED
    BY <1>1, <1>2, <1>4, <1>5, <2>1, <2>3
<1>6. CASE y[2] = 0 /\ x[2] # 0
  <2>2. n = y[1] * x[2]
    BY <1>1, <1>6 DEF n
  <2>3. Sign(n) = y[1]
    <3>1. CASE y[1] = 1
      BY <1>1, <1>6, <2>2, <3>1 DEF Sign
    <3>2. CASE y[1] = 0
      BY <1>1, <1>6, <2>2, <3>2 DEF Sign
    <3>3. CASE y[1] = -1
      <4>1. n = -x[2]
        BY <1>1, <2>2, <3>3
      <4> QED
        BY <1>1, <1>6, <3>3, <4>1 DEF Sign
    <3> QED
      BY <1>1, <1>6, <3>1, <3>2, <3>3
  <2> QED
    BY <1>1, <1>2, <1>4, <1>6, <2>3
<1>7. CASE y[2] = 0 /\ x[2] = 0
  <2>1. n = 0
    BY <1>1, <1>7 DEF n
  <2> QED
    BY <1>2, <1>4, <1>7, <2>1 DEF Sign, NaN
<1> QED
  BY <1>5, <1>6, <1>7

\* The sum of floats is a float.
LEMMA PlusIsFloat ==
  /\ NaN \in Floats /\ NaN[2] = 0
  /\ <<0, 1>> \in Floats
  /\ \A x, y \in Floats : Plus(x, y) \in Floats
<1>1. NaN \in Floats /\ NaN[2] = 0
  BY DEF NaN, Floats
<1>2. <<0, 1>> \in Floats
  <2>1. <<0, 1>> \in Int \X Nat /\ <<0, 1>>[1] = 0 /\ <<0, 1>>[2] = 1
    OBVIOUS
  <2>2. 0 \in Int /\ 1 \in Int /\ 0 * 0 + 1 * 1 = 1
    OBVIOUS
  <2>3. \E u, v \in Int : u * 0 + v * 1 = 1
    BY <2>2
  <2> QED
    BY ONLY <2>1, <2>3 DEF Floats
<1>3. ASSUME NEW x \in Floats, NEW y \in Floats PROVE Plus(x, y) \in Floats
  BY <1>1, PlusFinite, PlusInfinite
<1> QED
  BY <1>1, <1>2, <1>3

\* Zero adds nothing.
LEMMA PlusZero ==
  ASSUME NEW x \in Floats
  PROVE  Plus(x, <<0, 1>>) = x
<1> DEFINE z == <<0, 1>>
<1>1. z \in Floats /\ z[1] = 0 /\ z[2] = 1
  BY PlusIsFloat
<1> HIDE DEF z
<1>2. CASE x[2] = 0
  BY <1>1, <1>2, PlusInfinite DEF z
<1>3. CASE x[2] # 0
  <2> DEFINE r == Plus(x, z)
  <2>1. r \in Floats /\ r[2] # 0 /\ (x[1] * z[2] + z[1] * x[2]) * r[2] = r[1] * (x[2] * z[2])
    BY <1>1, <1>3, PlusFinite
  <2>2. x[1] \in Int /\ x[2] \in Int /\ r[1] \in Int /\ r[2] \in Int
    BY <2>1, FloatParts
  <2> HIDE DEF r
  <2>3. x[1] * z[2] + z[1] * x[2] = x[1] /\ x[2] * z[2] = x[2]
    BY <1>1, <2>2
  <2>4. r[1] * x[2] = x[1] * r[2]
    BY <2>1, <2>3
  <2>5. r = x
    BY <1>3, <2>1, <2>4, SameFloat
  <2> QED
    BY <2>5 DEF r, z
<1> QED
  BY <1>2, <1>3

\* The order of two summands does not matter.
LEMMA PlusCommutes ==
  ASSUME NEW x \in Floats, NEW y \in Floats
  PROVE  Plus(x, y) = Plus(y, x)
<1>1. CASE x[2] = 0 \/ y[2] = 0
  BY <1>1, PlusInfinite
<1>2. CASE x[2] # 0 /\ y[2] # 0
  <2>1. x[1] \in Int /\ y[1] \in Int /\ x[2] \in Int /\ y[2] \in Int
    BY FloatParts
  <2>2. x[1] * y[2] + y[1] * x[2] = y[1] * x[2] + x[1] * y[2] /\ x[2] * y[2] = y[2] * x[2]
    BY <2>1
  <2> QED
    BY <1>2, <2>2 DEF Plus
<1> QED
  BY <1>1, <1>2

\* The numerator and the denominator of a sum of three.
Over(x, y, z) == (x[1] * (y[2] * z[2]) + y[1] * (x[2] * z[2])) + z[1] * (x[2] * y[2])
Under(x, y, z) == x[2] * (y[2] * z[2])

\* The sum of three finite floats, as one fraction.
LEMMA SumOfThree ==
  ASSUME NEW x \in Floats, NEW y \in Floats, NEW z \in Floats,
         x[2] # 0, y[2] # 0, z[2] # 0
  PROVE  LET r == Plus(x, Plus(y, z))
         IN  r \in Floats /\ r[2] # 0 /\ Over(x, y, z) * r[2] = r[1] * Under(x, y, z)
<1> DEFINE a == x[1]
           b == x[2]
           s == Plus(y, z)
           p == s[1]
           q == s[2]
           n == y[1] * z[2] + z[1] * y[2]
           d == y[2] * z[2]
           r == Plus(x, s)
           l == r[1]
           m == r[2]
<1>1. s \in Floats /\ q # 0 /\ n * q = p * d
  BY PlusFinite
<1>2. r \in Floats /\ m # 0 /\ (a * q + p * b) * m = l * (b * q)
  <2> HIDE DEF s
  <2> QED
    BY <1>1, PlusFinite
<1>3. /\ a \in Int /\ b \in Int /\ p \in Int /\ q \in Int /\ l \in Int /\ m \in Int
      /\ y[1] \in Int /\ y[2] \in Int /\ z[1] \in Int /\ z[2] \in Int
  <2> HIDE DEF s, r
  <2> QED
    BY <1>1, <1>2, FloatParts
<1>4. n \in Int /\ d \in Int
  BY <1>3
<1>5. Over(x, y, z) = a * d + n * b /\ Under(x, y, z) = b * d
  <2>1. n * b = (y[1] * z[2]) * b + (z[1] * y[2]) * b
    BY <1>3
  <2>2. (y[1] * z[2]) * b = y[1] * (b * z[2]) /\ (z[1] * y[2]) * b = z[1] * (b * y[2])
    BY <1>3
  <2>3. /\ a * d \in Int /\ y[1] * (b * z[2]) \in Int /\ z[1] * (b * y[2]) \in Int
    BY <1>3, <1>4
  <2>4. Over(x, y, z) = (a * d + y[1] * (b * z[2])) + z[1] * (b * y[2])
    BY DEF Over
  <2> HIDE DEF a, b, d, n
  <2>5. Over(x, y, z) = a * d + n * b
    BY <2>1, <2>2, <2>3, <2>4
  <2> QED
    BY <2>5 DEF Under, b, d
<1> HIDE DEF a, b, s, p, q, n, d, r, l, m
<1>6. (a * d + n * b) * m = l * (b * d)
  <2> DEFINE u == a * d + n * b
             lhs == u * m
             rhs == l * (b * d)
  <2>0. a * d \in Int /\ n * b \in Int /\ u \in Int /\ lhs \in Int /\ rhs \in Int
    BY <1>3, <1>4
  <2>1. u * q = (a * q + p * b) * d
    <3>1. u * q = (a * d) * q + (n * b) * q
      BY <1>3, <2>0
    <3>2. (a * d) * q = (a * q) * d /\ (n * b) * q = (n * q) * b
      BY <1>3, <1>4
    <3>3. (n * q) * b = (p * d) * b
      BY <1>1
    <3>4. (p * d) * b = (p * b) * d
      BY <1>3, <1>4
    <3>5. (a * q + p * b) * d = (a * q) * d + (p * b) * d
      <4>1. a * q \in Int /\ p * b \in Int
        BY <1>3
      <4> QED
        BY <1>4, <4>1
    <3> HIDE DEF u
    <3> QED
      BY <3>1, <3>2, <3>3, <3>4, <3>5
  <2>2. lhs * q = ((a * q + p * b) * m) * d
    <3>1. lhs * q = (u * q) * m
      BY <1>3, <2>0
    <3> DEFINE w == a * q + p * b
    <3>2. w \in Int
      BY <1>3
    <3> HIDE DEF w, lhs, u
    <3>3. u * q = w * d
      BY <2>1 DEF w
    <3>4. (w * d) * m = (w * m) * d
      BY <1>3, <1>4, <3>2
    <3> QED
      BY <3>1, <3>3, <3>4 DEF w
  <2>3. ((a * q + p * b) * m) * d = (l * (b * q)) * d
    BY <1>2
  <2>4. (l * (b * q)) * d = rhs * q
    BY <1>3, <1>4
  <2> HIDE DEF lhs, rhs
  <2>5. (lhs - rhs) * q = 0
    BY <1>3, <2>0, <2>2, <2>3, <2>4
  <2>6. lhs - rhs = 0
    BY <1>1, <1>3, <2>0, <2>5
  <2>7. lhs = rhs
    BY <2>0, <2>6
  <2> QED
    BY <2>7 DEF lhs, rhs
<1> QED
  BY <1>2, <1>5, <1>6 DEF r, s, l, m

\* Nor does the grouping of three.
LEMMA PlusAssociates ==
  ASSUME NEW x \in Floats, NEW y \in Floats, NEW z \in Floats
  PROVE  Plus(x, Plus(y, z)) = Plus(Plus(x, y), z)
<1>1. CASE x[2] # 0 /\ y[2] # 0 /\ z[2] # 0
  <2> DEFINE l == Plus(x, Plus(y, z))
             r == Plus(z, Plus(x, y))
  <2>1. l \in Floats /\ l[2] # 0 /\ Over(x, y, z) * l[2] = l[1] * Under(x, y, z)
    BY <1>1, SumOfThree
  <2>2. r \in Floats /\ r[2] # 0 /\ Over(z, x, y) * r[2] = r[1] * Under(z, x, y)
    BY <1>1, SumOfThree
  <2>3. r = Plus(Plus(x, y), z)
    BY PlusIsFloat, PlusCommutes
  <2>4. /\ x[1] \in Int /\ y[1] \in Int /\ z[1] \in Int /\ l[1] \in Int /\ r[1] \in Int
        /\ x[2] \in Nat \ {0} /\ y[2] \in Nat \ {0} /\ z[2] \in Nat \ {0}
        /\ l[2] \in Nat /\ r[2] \in Nat
    <3> HIDE DEF l, r
    <3> QED
      BY <1>1, <2>1, <2>2, FloatParts
  <2> DEFINE N == Over(x, y, z)
             D == Under(x, y, z)
  <2>5. Over(z, x, y) = N /\ N \in Int
    <3> DEFINE f == x[1] * (y[2] * z[2])
               g == y[1] * (x[2] * z[2])
               h == z[1] * (x[2] * y[2])
    <3>1. f \in Int /\ g \in Int /\ h \in Int
      BY <2>4
    <3>2. x[1] * (z[2] * y[2]) = f /\ y[1] * (z[2] * x[2]) = g
      BY <2>4
    <3>3. N = (f + g) + h
      BY DEF Over
    <3>4. Over(z, x, y) = (h + f) + g
      BY <3>2 DEF Over
    <3> HIDE DEF f, g, h, N
    <3> QED
      BY <3>1, <3>3, <3>4
  <2>6. Under(z, x, y) = D /\ D \in Nat \ {0}
    <3>1. z[2] * (x[2] * y[2]) = x[2] * (y[2] * z[2])
      BY <2>4
    <3>2. y[2] * z[2] \in Nat \ {0}
      BY <2>4
    <3>3. x[2] * (y[2] * z[2]) \in Nat \ {0}
      BY <2>4, <3>2
    <3> QED
      BY <3>1, <3>3 DEF Under
  <2> HIDE DEF l, r, N, D
  <2> DEFINE s == l[1] * r[2]
             t == r[1] * l[2]
  <2>7. s * D = t * D /\ s \in Int /\ t \in Int
    <3>1. s * D = (l[1] * D) * r[2] /\ t * D = (r[1] * D) * l[2]
      BY <2>4, <2>6
    <3>2. l[1] * D = N * l[2] /\ r[1] * D = N * r[2]
      BY <2>1, <2>2, <2>5, <2>6 DEF N, D
    <3>3. (N * l[2]) * r[2] = (N * r[2]) * l[2]
      BY <2>4, <2>5
    <3>4. s \in Int /\ t \in Int
      BY <2>4
    <3> HIDE DEF s, t
    <3> QED
      BY <3>1, <3>2, <3>3, <3>4
  <2> HIDE DEF s, t
  <2>8. (s - t) * D = 0
    BY <2>6, <2>7
  <2>9. s - t = 0
    BY <2>6, <2>7, <2>8
  <2>10. l[1] * r[2] = r[1] * l[2]
    BY <2>7, <2>9 DEF s, t
  <2>11. l = r
    BY <2>1, <2>2, <2>10, SameFloat
  <2> QED
    BY <2>3, <2>11 DEF l
<1>2. CASE x[2] = 0 \/ y[2] = 0 \/ z[2] = 0
  <2>1. \A a, b \in Floats :
          /\ Plus(a, b) \in Floats
          /\ a[2] # 0 /\ b[2] # 0 => Plus(a, b)[2] # 0
          /\ a[2] = 0 \/ b[2] = 0 =>
               Plus(a, b) = IF b[2] # 0 THEN a ELSE IF a[2] # 0 THEN b
                            ELSE IF a = b THEN a ELSE NaN
    BY PlusIsFloat, PlusFinite, PlusInfinite
  <2>2. NaN \in Floats /\ NaN[2] = 0
    BY PlusIsFloat
  <2>3. \A a \in Floats : a[2] = 0 /\ a # NaN => a = <<1, 0>> \/ a = <<-1, 0>>
    BY FloatParts DEF NaN
  <2>4. CASE x[2] # 0
    <3>1. CASE y[2] # 0
      BY <1>2, <2>1, <2>4, <3>1
    <3>2. CASE z[2] # 0
      BY <1>2, <2>1, <2>4, <3>2
    <3>3. CASE y[2] = 0 /\ z[2] = 0
      BY <2>1, <2>2, <2>4, <3>3
    <3> QED
      BY <3>1, <3>2, <3>3
  <2>5. CASE x[2] = 0 /\ (y[2] # 0 \/ z[2] # 0)
    <3>1. CASE y[2] # 0 /\ z[2] # 0
      BY <2>1, <2>5, <3>1
    <3>2. CASE y[2] # 0 /\ z[2] = 0
      BY <2>1, <2>5, <3>2
    <3>3. CASE y[2] = 0 /\ z[2] # 0
      BY <2>1, <2>2, <2>5, <3>3
    <3> QED
      BY <2>5, <3>1, <3>2, <3>3
  <2>6. CASE x[2] = 0 /\ y[2] = 0 /\ z[2] = 0
    BY <2>1, <2>2, <2>6
  <2> QED
    BY <2>4, <2>5, <2>6
<1> QED
  BY <1>1, <1>2

\* Adding floats can be done in any order.
FloatAddition == [p \in Floats \X Floats |-> Plus(p[1], p[2])]

\* Floats can be added up in any order.
LEMMA FloatsAdd ==
  /\ IsAddition(FloatAddition, <<0, 1>>, Floats)
  /\ \A x, y \in Floats : FloatAddition[<<x, y>>] = Plus(x, y)
<1>1. \A x, y \in Floats : FloatAddition[<<x, y>>] = Plus(x, y)
  BY DEF FloatAddition
<1>2. FloatAddition \in [Floats \X Floats -> Floats]
  BY PlusIsFloat DEF FloatAddition
<1>3. \A x \in Floats : FloatAddition[<<x, <<0, 1>>>>] = x
  BY <1>1, PlusIsFloat, PlusZero
<1>4. ASSUME NEW x \in Floats, NEW y \in Floats
      PROVE  FloatAddition[<<x, y>>] = FloatAddition[<<y, x>>]
  <2>1. Plus(x, y) = Plus(y, x)
    BY PlusCommutes
  <2> QED
    BY <1>1, <2>1
<1>5. ASSUME NEW x \in Floats, NEW y \in Floats, NEW z \in Floats
      PROVE  FloatAddition[<<x, FloatAddition[<<y, z>>]>>] =
               FloatAddition[<<FloatAddition[<<x, y>>], z>>]
  <2>1. Plus(x, y) \in Floats /\ Plus(y, z) \in Floats
    BY PlusIsFloat
  <2>2. Plus(x, Plus(y, z)) = Plus(Plus(x, y), z)
    BY PlusAssociates
  <2> QED
    BY <1>1, <2>1, <2>2
<1> QED
  BY <1>1, <1>2, <1>3, <1>4, <1>5, PlusIsFloat DEF IsAddition

-----------------------------------------------------------------------------
\* Folds over a set and over a subset of it agree on that.
LEMMA FoldsAgree ==
  ASSUME NEW A, NEW zero, NEW add, IsAddition(add, zero, A),
         NEW S, IsFiniteSet(S), NEW f, NEW g, IsFold(g, f, S, add, zero, A),
         NEW T \in SUBSET S, NEW e, NEW h, IsFold(h, e, T, add, zero, A),
         \A x \in T : e[x] = f[x]
  PROVE  g[T] = h[T]
<1>1. IsFiniteSet(T)
  BY FS_Subset
<1>2. /\ \A U \in SUBSET S : g[U] \in A /\ \A x \in U : g[U] = add[<<f[x], g[U \ {x}]>>]
      /\ \A U \in SUBSET T : h[U] \in A /\ \A x \in U : h[U] = add[<<e[x], h[U \ {x}]>>]
  BY <1>1, FoldAddsUp
<1> DEFINE n == Cardinality(T)
           I == {i \in 0..n : \A U \in SUBSET T : Cardinality(U) <= i => g[U] = h[U]}
<1>3. n \in Nat
  BY <1>1, FS_CardinalityType
<1>4. \A U \in SUBSET T : IsFiniteSet(U) /\ Cardinality(U) \in Nat
  BY <1>1, FS_Subset, FS_CardinalityType
<1>5. 0 \in I
  <2> SUFFICES ASSUME NEW U \in SUBSET T, Cardinality(U) <= 0 PROVE g[U] = h[U]
    BY <1>3
  <2>1. U = {}
    BY <1>4, FS_EmptySet
  <2> QED
    BY <2>1 DEF IsFold
<1>6. ASSUME NEW i \in 1..n, i - 1 \in I PROVE i \in I
  <2> SUFFICES ASSUME NEW U \in SUBSET T, Cardinality(U) <= i PROVE g[U] = h[U]
    BY <1>3
  <2>1. CASE U = {}
    BY <2>1 DEF IsFold
  <2>2. CASE U # {}
    <3>1. PICK x \in U : TRUE
      BY <2>2
    <3>2. U \ {x} \in SUBSET T /\ Cardinality(U \ {x}) = Cardinality(U) - 1
      BY <1>4, <3>1, FS_RemoveElement
    <3>3. Cardinality(U \ {x}) <= i - 1
      BY <1>3, <1>4, <3>2
    <3>4. g[U \ {x}] = h[U \ {x}]
      <4>1. \A V \in SUBSET T : Cardinality(V) <= i - 1 => g[V] = h[V]
        BY <1>6
      <4> QED
        BY <3>2, <3>3, <4>1
    <3>5. e[x] = f[x] /\ U \in SUBSET S
      OBVIOUS
    <3>6. g[U] = add[<<f[x], g[U \ {x}]>>]
      BY <1>2, <3>5
    <3>7. h[U] = add[<<e[x], h[U \ {x}]>>]
      BY <1>2
    <3> QED
      BY <3>4, <3>5, <3>6, <3>7
  <2> QED
    BY <2>1, <2>2
<1>7. n \in I
  <2>1. n \in 0..n
    BY <1>3
  <2> HIDE DEF I, n
  <2> QED
    BY <1>3, <1>5, <1>6, <2>1, Ascent
<1>8. Cardinality(T) <= n /\ T \in SUBSET T
  BY <1>3
<1> HIDE DEF n
<1> QED
  BY <1>7, <1>8

\* A vector as an evaluation makes them: as many entries as there are series at
\* most, each with a float.
IsVector(entries) == IsFiniteSet(entries) /\ \A e \in entries : e.value \in Floats

Reads(entries) == [e \in entries |-> e.value]

IsTotal(g, S) == IsFold(g, Reads(S), S, FloatAddition, <<0, 1>>, Floats)

\* Total is a fold.
LEMMA TotalIsFold ==
  ASSUME NEW S, IsVector(S)
  PROVE  \E g : IsTotal(g, S) /\ Total(S) = g[S]
<1> DEFINE Body(h) == [T \in SUBSET S |->
                         IF T = {} THEN <<0, 1>>
                         ELSE Plus(h[T \ {CHOOSE x \in T : TRUE}],
                                   (CHOOSE x \in T : TRUE).value)]
           g == CHOOSE h : h = Body(h)
           f == Reads(S)
<1>1. Total(S) = g[S]
  BY DEF Total, FoldSet, MapThenFoldSet
<1>2. f \in [S -> Floats]
  BY DEF IsVector, Reads
<1>3. PICK h : /\ h \in [SUBSET S -> Floats]
               /\ IsFold(h, f, S, FloatAddition, <<0, 1>>, Floats)
  <2> HIDE DEF f
  <2> QED
    BY <1>2, FloatsAdd, FoldExists DEF IsVector
<1>4. ASSUME NEW T \in SUBSET S, T # {}
      PROVE  /\ AnyOf(T) = (CHOOSE x \in T : TRUE) /\ AnyOf(T) \in T
             /\ f[AnyOf(T)] = (CHOOSE x \in T : TRUE).value
             /\ f[AnyOf(T)] \in Floats /\ T \ {AnyOf(T)} \in SUBSET S
  <2>1. AnyOf(T) = (CHOOSE x \in T : TRUE) /\ AnyOf(T) \in T
    BY <1>4 DEF AnyOf
  <2>2. f[AnyOf(T)] = AnyOf(T).value
    BY <2>1 DEF Reads
  <2> QED
    BY <1>2, <2>1, <2>2
<1>5. \A x, y \in Floats : Plus(y, x) = FloatAddition[<<x, y>>]
  BY FloatsAdd, PlusCommutes
<1>6. h = Body(h)
  <2>1. ASSUME NEW T \in SUBSET S PROVE h[T] = Body(h)[T]
    <3>1. CASE T = {}
      BY <1>3, <3>1 DEF IsFold
    <3>2. CASE T # {}
      <4> DEFINE rest == h[T \ {AnyOf(T)}]
      <4>1. rest \in Floats
        BY <1>3, <1>4, <3>2
      <4>2. h[T] = FloatAddition[<<f[AnyOf(T)], rest>>]
        BY <1>3, <3>2, <4>1 DEF IsFold
      <4>3. Body(h)[T] = Plus(rest, f[AnyOf(T)])
        BY <1>4, <3>2
      <4> HIDE DEF Body, rest
      <4> QED
        BY <1>4, <1>5, <3>2, <4>1, <4>2, <4>3
    <3> QED
      BY <3>1, <3>2
  <2>2. /\ h = [T \in SUBSET S |-> h[T]]
        /\ Body(h) = [T \in SUBSET S |-> Body(h)[T]]
    BY <1>3
  <2> HIDE DEF Body
  <2> QED
    BY <2>1, <2>2
<1>7. g = Body(g)
  <2> HIDE DEF Body
  <2> QED
    BY <1>6
<1> HIDE DEF g
<1>8. IsFold(g, f, S, FloatAddition, <<0, 1>>, Floats)
  <2>1. g[{}] = <<0, 1>>
    BY <1>7
  <2>2. ASSUME NEW T \in SUBSET S, T # {}, g[T \ {AnyOf(T)}] \in Floats
        PROVE  g[T] = FloatAddition[<<f[AnyOf(T)], g[T \ {AnyOf(T)}]>>]
    <3>1. g[T] = Plus(g[T \ {AnyOf(T)}], f[AnyOf(T)])
      BY <1>4, <1>7, <2>2
    <3> QED
      BY <1>4, <1>5, <2>2, <3>1
  <2> HIDE DEF f
  <2> QED
    BY <1>2, <2>1, <2>2 DEF IsFold
<1> QED
  BY <1>1, <1>8 DEF IsTotal

\* Whichever entry is added last.
LEMMA TotalAddsUp ==
  ASSUME NEW S, IsVector(S)
  PROVE  /\ Total(S) \in Floats
         /\ S = {} => Total(S) = <<0, 1>>
         /\ \A x \in S : /\ IsVector(S \ {x})
                         /\ Total(S) = Plus(x.value, Total(S \ {x}))
<1>1. PICK g : IsTotal(g, S) /\ Total(S) = g[S]
  BY TotalIsFold
<1>2. \A T \in SUBSET S : g[T] \in Floats /\ \A x \in T : g[T] = FloatAddition[<<Reads(S)[x], g[T \ {x}]>>]
  <2> HIDE DEF Reads
  <2> QED
    BY <1>1, FloatsAdd, FoldAddsUp DEF IsTotal, IsVector
<1>3. Total(S) \in Floats /\ (S = {} => Total(S) = <<0, 1>>)
  BY <1>1, <1>2 DEF IsTotal, IsFold
<1>4. ASSUME NEW x \in S
      PROVE  IsVector(S \ {x}) /\ Total(S) = Plus(x.value, Total(S \ {x}))
  <2> DEFINE T == S \ {x}
  <2>1. IsVector(T) /\ T \in SUBSET S
    BY FS_RemoveElement DEF IsVector
  <2> HIDE DEF T
  <2>2. PICK h : IsTotal(h, T) /\ Total(T) = h[T]
    BY <2>1, TotalIsFold
  <2>3. \A y \in T : Reads(T)[y] = Reads(S)[y]
    BY <2>1 DEF Reads
  <2>4. g[T] = h[T]
    BY <1>1, <2>1, <2>2, <2>3, FloatsAdd, FoldsAgree DEF IsTotal, IsVector
  <2>5. Reads(S)[x] = x.value /\ x.value \in Floats /\ g[T] \in Floats
    BY <1>2, <2>1 DEF Reads, IsVector
  <2>6. g[S] = FloatAddition[<<Reads(S)[x], g[T]>>]
    BY <1>2 DEF T
  <2>7. g[S] = Plus(x.value, g[T])
    BY <2>5, <2>6, FloatsAdd
  <2> QED
    BY <1>1, <2>1, <2>2, <2>4, <2>7 DEF T
<1> QED
  BY <1>3, <1>4

\* The total of two vectors with no entry in common is the sum of their totals.
LEMMA TotalOfUnion ==
  ASSUME NEW A, NEW B, IsVector(A), IsVector(B), A \cap B = {}
  PROVE  Total(A \cup B) = Plus(Total(A), Total(B))
<1> DEFINE n == Cardinality(B)
           Good(U) == Total(A \cup U) = Plus(Total(A), Total(U))
           I == {i \in 0..n : \A U \in SUBSET B : Cardinality(U) <= i => Good(U)}
<1>1. n \in Nat /\ IsFiniteSet(B)
  BY FS_CardinalityType DEF IsVector
<1>2. ASSUME NEW U \in SUBSET B
      PROVE  /\ IsFiniteSet(U) /\ Cardinality(U) \in Nat /\ Cardinality(U) <= n
             /\ IsVector(U) /\ IsVector(A \cup U)
  <2>1. IsFiniteSet(U) /\ Cardinality(U) <= n
    BY <1>1, FS_Subset
  <2>2. IsFiniteSet(A \cup U)
    BY <2>1, FS_Union DEF IsVector
  <2> QED
    BY <2>1, <2>2, FS_CardinalityType DEF IsVector
<1>3. Total(A) \in Floats
  BY TotalAddsUp
<1>4. 0 \in I
  <2> SUFFICES ASSUME NEW U \in SUBSET B, Cardinality(U) <= 0 PROVE Good(U)
    BY <1>1
  <2>1. U = {}
    <3>0. IsFiniteSet(U) /\ Cardinality(U) \in Nat
      BY <1>2
    <3>1. IsFiniteSet(U) /\ Cardinality(U) = 0
      BY <3>0
    <3> QED
      BY <3>1, FS_EmptySet
  <2>2. A \cup U = A /\ Total(U) = <<0, 1>>
    BY <1>2, <2>1, TotalAddsUp
  <2> QED
    BY <1>3, <2>2, PlusZero
<1>5. ASSUME NEW i \in 1..n, i - 1 \in I PROVE i \in I
  <2>0. \A U \in SUBSET B : Cardinality(U) <= i - 1 => Good(U)
    <3> HIDE DEF Good
    <3> QED
      BY <1>5
  <2> SUFFICES ASSUME NEW U \in SUBSET B, Cardinality(U) <= i PROVE Good(U)
    <3> HIDE DEF Good
    <3> QED
      BY <1>1
  <2>1. CASE U = {}
    <3>1. Cardinality(U) = 0
      BY <2>1, FS_EmptySet
    <3> HIDE DEF Good
    <3> QED
      BY <1>1, <2>0, <3>1
  <2>2. CASE U # {}
    <3>1. PICK x \in U : TRUE
      BY <2>2
    <3> DEFINE V == U \ {x}
    <3>2. V \in SUBSET B /\ Cardinality(V) = Cardinality(U) - 1
      BY <1>2, <3>1, FS_RemoveElement
    <3>card. Cardinality(U) \in Nat
      BY <1>2
    <3>3. Total(A \cup V) = Plus(Total(A), Total(V))
      <4>1. Cardinality(V) <= i - 1
        <5> DEFINE c == Cardinality(U)
                   d == Cardinality(V)
        <5>1. c \in Nat /\ d = c - 1 /\ c <= i /\ n \in Nat
          BY <1>1, <3>2, <3>card
        <5> HIDE DEF c, d, V, n
        <5>2. d <= i - 1
          BY <5>1
        <5> QED
          BY <5>2 DEF d
      <4> HIDE DEF V
      <4> QED
        BY <2>0, <3>2, <4>1
    <3>4. (A \cup U) \ {x} = A \cup V /\ x \in A \cup U
      OBVIOUS
    <3>5. Total(A \cup U) = Plus(x.value, Total(A \cup V))
      BY <1>2, <3>4, TotalAddsUp
    <3>6. Total(U) = Plus(x.value, Total(V)) /\ x.value \in Floats
      BY <1>2, TotalAddsUp DEF IsVector
    <3>7. Total(V) \in Floats
      BY <1>2, <3>2, TotalAddsUp
    <3> HIDE DEF V
    <3> DEFINE a == Total(A)
               v == Total(V)
               w == x.value
    <3>8. a \in Floats /\ v \in Floats /\ w \in Floats
      BY <1>3, <3>6, <3>7
    <3>9. Total(A \cup U) = Plus(w, Plus(a, v)) /\ Total(U) = Plus(w, v)
      BY <3>3, <3>5, <3>6
    <3> HIDE DEF a, v, w
    <3>10. Plus(w, Plus(a, v)) = Plus(Plus(w, a), v) /\ Plus(a, Plus(w, v)) = Plus(Plus(a, w), v)
      BY <3>8, PlusAssociates
    <3>11. Plus(w, a) = Plus(a, w)
      BY <3>8, PlusCommutes
    <3> QED
      BY <3>9, <3>10, <3>11 DEF a
  <2> QED
    BY <2>1, <2>2
<1>6. n \in I
  <2>1. n \in 0..n
    BY <1>1
  <2> HIDE DEF I, n
  <2> QED
    BY <1>1, <1>4, <1>5, <2>1, Ascent
<1>7. Good(B)
  <2> HIDE DEF Good
  <2>1. Cardinality(B) <= n /\ B \in SUBSET B
    BY <1>1
  <2> HIDE DEF n
  <2> QED
    BY <1>6, <2>1
<1> QED
  BY <1>7

\* The image of a finite set is finite.
LEMMA ImageIsFinite ==
  ASSUME NEW S, NEW T, NEW f \in [S -> T], IsFiniteSet(S), \A y \in T : \E x \in S : f[x] = y
  PROVE  IsFiniteSet(T)
  BY FS_Surjection DEF Surjection

\* No two entries of a vector have the same labels.
LabelledOnce(entries) == \A x, y \in entries : x.labels = y.labels => x = y

\* A sum has an entry for each group and, over all groups, adds up to what was
\* put in: nothing is lost and nothing counted twice, whichever entries share
\* their labels (src/promql/eval.rs: `Expr::Sum`).
THEOREM SumKeepsTheTotal ==
  ASSUME NEW entries, IsVector(entries), NEW by
  PROVE  /\ IsVector(SumBy(entries, by)) /\ LabelledOnce(SumBy(entries, by))
         /\ Total(SumBy(entries, by)) = Total(entries)
<1> DEFINE group(e) == GroupOf(e.labels, by)
           G == {group(e) : e \in entries}
           of(g) == {e \in entries : group(e) = g}
           within(H) == {e \in entries : group(e) \in H}
           sum(g) == Entry(g, g, Total(of(g)))
           sums(H) == {sum(g) : g \in H}
           n == Cardinality(G)
           Good(H) == Total(sums(H)) = Total(within(H))
           I == {i \in 0..n : \A H \in SUBSET G : Cardinality(H) <= i => Good(H)}
<1>1. SumBy(entries, by) = sums(G) /\ within(G) = entries
  BY DEF SumBy
<1>2. IsFiniteSet(G) /\ n \in Nat
  <2> DEFINE f == [e \in entries |-> group(e)]
  <2>1. f \in [entries -> G] /\ \A y \in G : \E e \in entries : f[e] = y
    <3> HIDE DEF group
    <3> QED
      OBVIOUS
  <2>2. IsFiniteSet(entries)
    BY DEF IsVector
  <2> HIDE DEF f, G
  <2>3. IsFiniteSet(G)
    BY <2>1, <2>2, ImageIsFinite
  <2> QED
    BY <2>3, FS_CardinalityType
<1>3. \A g : sum(g).labels = g /\ sum(g).value = Total(of(g))
  BY DEF Entry
<1> HIDE DEF group
<1>4. \A T \in SUBSET entries : IsVector(T)
  BY FS_Subset DEF IsVector
<1>5. \A g : IsVector(of(g)) /\ Total(of(g)) \in Floats
  <2>1. \A g : of(g) \in SUBSET entries
    OBVIOUS
  <2> HIDE DEF of
  <2> QED
    BY <1>4, <2>1, TotalAddsUp
<1> HIDE DEF sum
<1>6. \A H \in SUBSET G : /\ IsFiniteSet(H) /\ Cardinality(H) \in Nat /\ Cardinality(H) <= n
                          /\ IsVector(sums(H)) /\ IsVector(within(H))
  <2> SUFFICES ASSUME NEW H \in SUBSET G
               PROVE  /\ IsFiniteSet(H) /\ Cardinality(H) \in Nat /\ Cardinality(H) <= n
                      /\ IsVector(sums(H)) /\ IsVector(within(H))
    OBVIOUS
  <2>1. IsFiniteSet(H) /\ Cardinality(H) <= n
    <3> HIDE DEF G
    <3> QED
      BY <1>2, FS_Subset
  <2>2. IsFiniteSet(sums(H))
    <3> DEFINE f == [g \in H |-> sum(g)]
               Image == sums(H)
    <3>1. f \in [H -> Image] /\ \A y \in Image : \E g \in H : f[g] = y
      <4> HIDE DEF G
      <4> QED
        OBVIOUS
    <3> HIDE DEF f, G, Image
    <3>2. IsFiniteSet(Image)
      BY <2>1, <3>1, ImageIsFinite
    <3> QED
      BY <3>2 DEF Image
  <2>3. within(H) \in SUBSET entries
    OBVIOUS
  <2>4. IsVector(sums(H))
    <3> HIDE DEF of
    <3> QED
      BY <1>3, <1>5, <2>2 DEF IsVector
  <2> QED
    BY <1>4, <2>1, <2>3, <2>4, FS_CardinalityType
<1>7. 0 \in I
  <2> SUFFICES ASSUME NEW H \in SUBSET G, Cardinality(H) <= 0 PROVE Good(H)
    BY <1>2
  <2>1. H = {}
    <3>1. IsFiniteSet(H) /\ Cardinality(H) = 0
      <4> HIDE DEF n, G, sums, within
      <4> QED
        BY <1>6
    <3> QED
      BY <3>1, FS_EmptySet
  <2>2. sums(H) = {} /\ within(H) = {}
    BY <2>1
  <2> QED
    BY <2>2
<1>8. ASSUME NEW i \in 1..n, i - 1 \in I PROVE i \in I
  <2>0. \A H \in SUBSET G : Cardinality(H) <= i - 1 => Good(H)
    <3> HIDE DEF Good, G
    <3> QED
      BY <1>8
  <2> SUFFICES ASSUME NEW H \in SUBSET G, Cardinality(H) <= i PROVE Good(H)
    <3> HIDE DEF Good, G
    <3> QED
      BY <1>2
  <2>1. CASE H = {}
    <3>1. sums(H) = {} /\ within(H) = {}
      BY <2>1
    <3> QED
      BY <3>1
  <2>2. CASE H # {}
    <3>1. PICK g \in H : TRUE
      BY <2>2
    <3> DEFINE K == H \ {g}
    <3>2. K \in SUBSET G /\ Cardinality(K) = Cardinality(H) - 1
      <4> HIDE DEF G
      <4> QED
        BY <1>6, <3>1, FS_RemoveElement
    <3>3. Total(sums(K)) = Total(within(K))
      <4>1. Cardinality(K) <= i - 1
        <5>0. Cardinality(H) \in Nat
          <6> HIDE DEF G, sums, within, n
          <6> QED
            BY <1>6
        <5> DEFINE c == Cardinality(H)
                   d == Cardinality(K)
        <5>1. c \in Nat /\ d = c - 1 /\ c <= i /\ n \in Nat
          <6> HIDE DEF G, K, n
          <6> QED
            BY <1>2, <3>2, <5>0
        <5> HIDE DEF c, d, K, n, G
        <5>2. d <= i - 1
          BY <5>1
        <5> QED
          BY <5>2 DEF d
      <4>2. Good(K)
        <5> HIDE DEF G, K, Good
        <5> QED
          BY <2>0, <3>2, <4>1
      <4> QED
        BY <4>2
    <3>4. sums(H) \ {sum(g)} = sums(K) /\ sum(g) \in sums(H)
      <4>1. \A h : sum(h) = sum(g) => h = g
        BY <1>3
      <4> HIDE DEF of, G
      <4> QED
        BY <3>1, <4>1
    <3>5. Total(sums(H)) = Plus(Total(of(g)), Total(sums(K)))
      <4> HIDE DEF sums, of, K, G
      <4>1. IsVector(sums(H)) /\ sum(g).value = Total(of(g))
        BY <1>3, <1>6
      <4>2. Total(sums(H)) = Plus(sum(g).value, Total(sums(H) \ {sum(g)}))
        <5> HIDE DEF sum
        <5> QED
          BY <3>4, <4>1, TotalAddsUp
      <4> QED
        BY <3>4, <4>1, <4>2
    <3>6. within(H) = of(g) \cup within(K) /\ of(g) \cap within(K) = {}
      OBVIOUS
    <3>7. Total(within(H)) = Plus(Total(of(g)), Total(within(K)))
      <4> HIDE DEF of, within, K, G
      <4> QED
        BY <1>5, <1>6, <3>2, <3>6, TotalOfUnion
    <3> HIDE DEF sums, of, within, K, G
    <3> QED
      BY <3>3, <3>5, <3>7
  <2> QED
    BY <2>1, <2>2
<1>9. n \in I
  <2>1. n \in 0..n
    BY <1>2
  <2> HIDE DEF I, n
  <2> QED
    BY <1>2, <1>7, <1>8, <2>1, Ascent
<1>10. Good(G)
  <2>1. Cardinality(G) <= n /\ G \in SUBSET G
    BY <1>2
  <2> HIDE DEF Good, G, n
  <2> QED
    BY <1>9, <2>1
<1>11. IsVector(sums(G)) /\ LabelledOnce(sums(G))
  <2>1. LabelledOnce(sums(G))
    <3> HIDE DEF of, G
    <3> QED
      BY <1>3 DEF LabelledOnce
  <2>2. G \in SUBSET G
    OBVIOUS
  <2> HIDE DEF G, sums
  <2> QED
    BY <1>6, <2>1, <2>2
<1> QED
  <2> HIDE DEF G, sums, within
  <2> QED
    BY <1>1, <1>10, <1>11

-----------------------------------------------------------------------------
\* What a query may yield.
IsValue(v) ==
  \/ v.is = "scalar" /\ v.of \in Floats
  \/ v.is = "vector" /\ IsVector(v.of)

\* A value in which no two entries share their labels.
IsClear(v) == v.is = "vector" => LabelledOnce(v.of)

Operators == {"+", "-", "*", "/"}

\* Arithmetic on floats yields floats, division by zero included.
LEMMA ApplyIsFloat ==
  ASSUME NEW op \in Operators, NEW x \in Floats, NEW y \in Floats
  PROVE  Apply(op, x, y) \in Floats
<1>1. x[1] \in Int /\ x[2] \in Nat /\ y[1] \in Int /\ y[2] \in Nat
  BY FloatParts
<1>2. CASE op = "+"
  BY <1>2, PlusIsFloat DEF Apply
<1>3. CASE op = "-"
  <2> DEFINE z == <<-y[1], y[2]>>
  <2>1. z \in Floats
    <3>1. z \in Int \X Nat /\ z[1] = -y[1] /\ z[2] = y[2]
      BY <1>1
    <3>2. y[2] = 0 => z[1] \in {-1, 0, 1}
      BY <3>1, FloatParts
    <3>3. y[2] # 0 => \E u, v \in Int : u * z[1] + v * z[2] = 1
      <4> SUFFICES ASSUME y[2] # 0 PROVE \E u, v \in Int : u * z[1] + v * z[2] = 1
        OBVIOUS
      <4>1. PICK u \in Int, v \in Int : u * y[1] + v * y[2] = 1
        BY DEF Floats
      <4>2. (-u) * (-y[1]) = u * y[1] /\ -u \in Int
        BY <1>1
      <4> HIDE DEF z
      <4> QED
        BY <3>1, <4>1, <4>2
    <3> HIDE DEF z
    <3> QED
      BY <3>1, <3>2, <3>3 DEF Floats
  <2> HIDE DEF z
  <2>2. Plus(x, z) \in Floats
    BY <2>1, PlusIsFloat
  <2> QED
    BY <1>3, <2>2 DEF Apply, z
<1>4. CASE op = "*"
  <2> DEFINE n == x[1] * y[1]
             d == x[2] * y[2]
  <2>1. n \in Int /\ d \in Nat
    BY <1>1
  <2> HIDE DEF n, d
  <2>2. Float(n, d) \in Floats
    BY <2>1, FloatIsFloat
  <2> QED
    BY <1>4, <2>2 DEF Apply, n, d
<1>5. CASE op = "/"
  <2> DEFINE s == Sign(y[1] + IF y[1] = 0 THEN y[2] ELSE 0)
             m == Magnitude(y[1])
             n == x[1] * y[2] * s
             d == x[2] * m
  <2>1. s \in Int /\ m \in Nat
    BY <1>1 DEF Sign, Magnitude
  <2> HIDE DEF s, m
  <2>2. n \in Int /\ d \in Nat
    BY <1>1, <2>1
  <2> HIDE DEF n, d
  <2>3. Float(n, d) \in Floats
    BY <2>2, FloatIsFloat
  <2> QED
    BY <1>5, <2>3 DEF Apply, n, d, s, m
<1> QED
  BY <1>2, <1>3, <1>4, <1>5 DEF Operators

\* What is made entry by entry of a vector is one.
LEMMA MappedVector ==
  ASSUME NEW entries, IsVector(entries), NEW g \in [entries -> Floats]
  PROVE  LET mapped == {Entry(e.from, e.labels, g[e]) : e \in entries}
         IN  /\ IsVector(mapped)
             /\ LabelledOnce(entries) => LabelledOnce(mapped)
<1> DEFINE mapped == {Entry(e.from, e.labels, g[e]) : e \in entries}
           f == [e \in entries |-> Entry(e.from, e.labels, g[e])]
<1>1. IsFiniteSet(mapped)
  <2>1. f \in [entries -> mapped] /\ \A y \in mapped : \E e \in entries : f[e] = y
    OBVIOUS
  <2>2. IsFiniteSet(entries)
    BY DEF IsVector
  <2> HIDE DEF f, mapped
  <2> QED
    BY <2>1, <2>2, ImageIsFinite
<1>2. \A e \in entries : /\ Entry(e.from, e.labels, g[e]).value = g[e]
                         /\ Entry(e.from, e.labels, g[e]).labels = e.labels
  BY DEF Entry
<1>3. \A y \in mapped : y.value \in Floats
  BY <1>2
<1>4. LabelledOnce(entries) => LabelledOnce(mapped)
  BY <1>2 DEF LabelledOnce
<1> QED
  BY <1>1, <1>3, <1>4 DEF IsVector

\* A map of the values of a vector by its labels has a value of the vector for
\* each of its label sets; and if no two entries share their labels, there is
\* one such map.
LEMMA LastOfEach ==
  ASSUME NEW entries, IsVector(entries)
  PROVE  /\ \A f \in LastByLabels(entries) :
              DOMAIN f = {e.labels : e \in entries} /\ \A l \in DOMAIN f : f[l] \in Floats
         /\ LabelledOnce(entries) => \E f : LastByLabels(entries) = {f}
<1> DEFINE Ls == {e.labels : e \in entries}
           Vs == {e.value : e \in entries}
<1>1. \A f \in LastByLabels(entries) : DOMAIN f = Ls /\ \A l \in Ls : f[l] \in Floats
  BY DEF LastByLabels, IsVector
<1>2. ASSUME LabelledOnce(entries) PROVE \E f : LastByLabels(entries) = {f}
  <2> DEFINE of(l) == CHOOSE e \in entries : e.labels = l
             f == [l \in Ls |-> of(l).value]
  <2>1. \A l \in Ls : of(l) \in entries /\ of(l).labels = l
    OBVIOUS
  <2>2. \A l \in Ls : \A e \in entries : e.labels = l => e = of(l)
    BY <1>2, <2>1 DEF LabelledOnce
  <2> HIDE DEF of
  <2>3. f \in LastByLabels(entries)
    <3>1. f \in [Ls -> Vs]
      BY <2>1
    <3>2. \A l \in Ls : \E e \in entries : e.labels = l /\ e.value = f[l]
      BY <2>1
    <3> HIDE DEF f
    <3> QED
      BY <3>1, <3>2 DEF LastByLabels
  <2>4. ASSUME NEW h \in LastByLabels(entries) PROVE h = f
    <3>1. h \in [Ls -> Vs] /\ \A l \in Ls : \E e \in entries : e.labels = l /\ e.value = h[l]
      BY DEF LastByLabels
    <3>2. \A l \in Ls : h[l] = f[l]
      BY <2>2, <3>1
    <3>3. h = [l \in Ls |-> h[l]] /\ f = [l \in Ls |-> f[l]]
      BY <3>1
    <3> HIDE DEF f
    <3> QED
      BY <3>2, <3>3
  <2> HIDE DEF f
  <2> QED
    BY <2>3, <2>4
<1> QED
  BY <1>1, <1>2

\* Operands that are values make values.
LEMMA CombineIsValue ==
  ASSUME NEW op \in Operators, NEW l, IsValue(l), NEW r, IsValue(r), NEW v \in Combine(op, l, r)
  PROVE  IsValue(v)
<1>1. CASE l.is = "scalar" /\ r.is = "scalar"
  <2>1. v = Scalar(Apply(op, l.of, r.of))
    BY <1>1 DEF Combine
  <2>2. Apply(op, l.of, r.of) \in Floats
    BY <1>1, ApplyIsFloat DEF IsValue
  <2> QED
    BY <2>1, <2>2 DEF IsValue, Scalar
<1>2. CASE l.is = "vector" /\ r.is = "scalar"
  <2> DEFINE g == [e \in l.of |-> Apply(op, e.value, r.of)]
             mapped == {Entry(e.from, e.labels, g[e]) : e \in l.of}
  <2>1. g \in [l.of -> Floats]
    BY <1>2, ApplyIsFloat DEF IsValue, IsVector
  <2>2. IsVector(l.of)
    BY <1>2 DEF IsValue
  <2>3. v = Vector({Entry(e.from, e.labels, Apply(op, e.value, r.of)) : e \in l.of})
    BY <1>2 DEF Combine
  <2>4. v = Vector(mapped)
    BY <2>3
  <2> HIDE DEF g
  <2>5. IsVector(mapped)
    BY <2>1, <2>2, MappedVector
  <2> HIDE DEF mapped
  <2> QED
    BY <2>4, <2>5 DEF IsValue, Vector
<1>3. CASE l.is = "scalar" /\ r.is = "vector"
  <2> DEFINE g == [e \in r.of |-> Apply(op, l.of, e.value)]
             mapped == {Entry(e.from, e.labels, g[e]) : e \in r.of}
  <2>1. g \in [r.of -> Floats]
    BY <1>3, ApplyIsFloat DEF IsValue, IsVector
  <2>2. IsVector(r.of)
    BY <1>3 DEF IsValue
  <2>3. v = Vector({Entry(e.from, e.labels, Apply(op, l.of, e.value)) : e \in r.of})
    BY <1>3 DEF Combine
  <2>4. v = Vector(mapped)
    BY <2>3
  <2> HIDE DEF g
  <2>5. IsVector(mapped)
    BY <2>1, <2>2, MappedVector
  <2> HIDE DEF mapped
  <2> QED
    BY <2>4, <2>5 DEF IsValue, Vector
<1>4. CASE l.is = "vector" /\ r.is = "vector"
  <2>1. PICK other \in LastByLabels(r.of) :
          v = Vector({Entry(e.from, e.labels, Apply(op, e.value, other[e.labels])) :
                        e \in {x \in l.of : x.labels \in DOMAIN other}})
    BY <1>4 DEF Combine
  <2> DEFINE met == {x \in l.of : x.labels \in DOMAIN other}
             g == [e \in met |-> Apply(op, e.value, other[e.labels])]
             mapped == {Entry(e.from, e.labels, g[e]) : e \in met}
  <2>2. IsVector(l.of) /\ IsVector(r.of)
    BY <1>4 DEF IsValue
  <2>3. \A k \in DOMAIN other : other[k] \in Floats
    BY <2>2, LastOfEach
  <2>4. IsVector(met) /\ \A e \in met : e.value \in Floats
    BY <2>2, FS_Subset DEF IsVector
  <2>5. g \in [met -> Floats]
    BY <2>3, <2>4, ApplyIsFloat
  <2>6. v = Vector(mapped)
    BY <2>1
  <2> HIDE DEF g, met
  <2>7. IsVector(mapped)
    BY <2>4, <2>5, MappedVector
  <2> HIDE DEF mapped
  <2> QED
    BY <2>6, <2>7 DEF IsValue, Vector
<1> QED
  BY <1>1, <1>2, <1>3, <1>4 DEF IsValue

\* A join of operands in which labels tell entries apart has one outcome, and
\* labels tell its entries apart too.
LEMMA CombineIsClear ==
  ASSUME NEW op \in Operators, NEW l, IsValue(l), IsClear(l), NEW r, IsValue(r), IsClear(r)
  PROVE  \E v : Combine(op, l, r) = {v} /\ IsClear(v)
<1>1. CASE l.is = "scalar" /\ r.is = "scalar"
  <2>1. Combine(op, l, r) = {Scalar(Apply(op, l.of, r.of))}
    BY <1>1 DEF Combine
  <2>2. IsClear(Scalar(Apply(op, l.of, r.of)))
    BY DEF IsClear, Scalar
  <2> QED
    BY <2>1, <2>2
<1>2. CASE l.is = "vector" /\ r.is = "scalar"
  <2> DEFINE mapped == {Entry(e.from, e.labels, Apply(op, e.value, r.of)) : e \in l.of}
  <2>1. Combine(op, l, r) = {Vector(mapped)}
    BY <1>2 DEF Combine
  <2>2. LabelledOnce(mapped)
    BY <1>2 DEF IsClear, LabelledOnce, Entry
  <2> HIDE DEF mapped
  <2>3. IsClear(Vector(mapped))
    BY <2>2 DEF IsClear, Vector
  <2> QED
    BY <2>1, <2>3
<1>3. CASE l.is = "scalar" /\ r.is = "vector"
  <2> DEFINE mapped == {Entry(e.from, e.labels, Apply(op, l.of, e.value)) : e \in r.of}
  <2>1. Combine(op, l, r) = {Vector(mapped)}
    BY <1>3 DEF Combine
  <2>2. LabelledOnce(mapped)
    BY <1>3 DEF IsClear, LabelledOnce, Entry
  <2> HIDE DEF mapped
  <2>3. IsClear(Vector(mapped))
    BY <2>2 DEF IsClear, Vector
  <2> QED
    BY <2>1, <2>3
<1>4. CASE l.is = "vector" /\ r.is = "vector"
  <2> DEFINE mapped(other) ==
               {Entry(e.from, e.labels, Apply(op, e.value, other[e.labels])) :
                  e \in {x \in l.of : x.labels \in DOMAIN other}}
  <2>1. Combine(op, l, r) = {Vector(mapped(other)) : other \in LastByLabels(r.of)}
    BY <1>4 DEF Combine
  <2>2. IsVector(r.of) /\ LabelledOnce(r.of) /\ LabelledOnce(l.of)
    BY <1>4 DEF IsValue, IsClear
  <2>3. PICK f : LastByLabels(r.of) = {f}
    BY <2>2, LastOfEach
  <2>4. LabelledOnce(mapped(f))
    BY <2>2 DEF LabelledOnce, Entry
  <2> HIDE DEF mapped
  <2>5. Combine(op, l, r) = {Vector(mapped(f))}
    BY <2>1, <2>3
  <2>6. IsClear(Vector(mapped(f)))
    BY <2>4 DEF IsClear, Vector
  <2> QED
    BY <2>5, <2>6
<1> QED
  BY <1>1, <1>2, <1>3, <1>4 DEF IsValue

-----------------------------------------------------------------------------
\* A selector that names its metric.
IsNamed(s) == s.name # None /\ "" \notin s.name

\* What a selector finds: live series, once each; and those of a name differ
\* in the rest of their labels.
LEMMA SelectedSeries ==
  ASSUME IInv, IsFiniteSet(Live), NEW s, IsSelector(s)
  PROVE  /\ IsFiniteSet(Select(s))
         /\ \A c \in Select(s) : c[1] \in Live /\ c = <<c[1], 1>>
         /\ IsNamed(s) => \A c, d \in Select(s) :
              WithoutName(LabelsOf[c[1]]) = WithoutName(LabelsOf[d[1]]) => c = d
<1>1. Select(s) \subseteq Candidates(s.name)
  BY DEF Select
<1>2. Candidates(s.name) \subseteq Live \X {1}
  <2>1. CASE s.name = None
    BY <2>1, CandidatesAreNamed
  <2>2. ASSUME NEW n, s.name = {n} PROVE Candidates(s.name) \subseteq Live \X {1}
    <3>1. Candidates({n}) = {k \in Live : NameOf[k] = n} \X {1}
      BY CandidatesAreNamed
    <3> QED
      BY <2>2, <3>1
  <2>3. s.name = None \/ \E n : s.name = {n}
    BY DEF IsSelector, None
  <2> QED
    BY <2>1, <2>2, <2>3
<1>3. IsFiniteSet(Live \X {1})
  <2> DEFINE T == Live \X {1}
             f == [k \in Live |-> <<k, 1>>]
  <2>1. f \in [Live -> T] /\ \A y \in T : \E k \in Live : f[k] = y
    OBVIOUS
  <2> HIDE DEF f, T
  <2>2. IsFiniteSet(T)
    BY <2>1, ImageIsFinite
  <2> QED
    BY <2>2 DEF T
<1>4. IsFiniteSet(Select(s))
  BY <1>1, <1>2, <1>3, FS_Subset
<1>5. \A c \in Select(s) : c[1] \in Live /\ c = <<c[1], 1>>
  BY <1>1, <1>2
<1>6. ASSUME IsNamed(s), NEW c \in Select(s), NEW d \in Select(s),
             WithoutName(LabelsOf[c[1]]) = WithoutName(LabelsOf[d[1]])
      PROVE  c = d
  <2> DEFINE a == LabelsOf[c[1]]
             b == LabelsOf[d[1]]
  <2>1. PICK n : n # "" /\ s.name = {n}
    BY <1>6 DEF IsNamed, IsSelector, None
  <2>2. c[1] \in Keys /\ d[1] \in Keys
    BY <1>5 DEF IInv, TypeOK
  <2>3. NameOf[c[1]] = n /\ NameOf[d[1]] = n
    <3>1. Candidates({n}) = {k \in Live : NameOf[k] = n} \X {1}
      BY CandidatesAreNamed
    <3>2. c \in Candidates({n}) /\ d \in Candidates({n})
      BY <1>1, <2>1
    <3>3. \A x \in {k \in Live : NameOf[k] = n} \X {1} : NameOf[x[1]] = n
      OBVIOUS
    <3> QED
      BY <3>1, <3>2, <3>3
  <2>4. LabelValue(a, NameLabel) = n /\ LabelValue(b, NameLabel) = n
    BY <2>2, <2>3, LabelsAssumption
  <2>5. a \in [DOMAIN a -> STRING] /\ b \in [DOMAIN b -> STRING]
    BY <2>2, LabelsAssumption
  <2>6. WithoutName(a) = WithoutName(b)
    BY <1>6
  <2> HIDE DEF a, b
  <2>7. NameLabel \in DOMAIN a /\ a[NameLabel] = n /\ NameLabel \in DOMAIN b /\ b[NameLabel] = n
    BY <2>1, <2>4 DEF LabelValue
  <2>8. DOMAIN a \ {NameLabel} = DOMAIN b \ {NameLabel}
    BY <2>6 DEF WithoutName, Restrict
  <2>9. \A x \in DOMAIN a \ {NameLabel} : a[x] = b[x]
    <3>1. \A x \in DOMAIN a \ {NameLabel} : WithoutName(a)[x] = a[x]
      BY DEF WithoutName, Restrict
    <3>2. \A x \in DOMAIN b \ {NameLabel} : WithoutName(b)[x] = b[x]
      BY DEF WithoutName, Restrict
    <3> QED
      BY <2>6, <2>8, <3>1, <3>2
  <2>10. DOMAIN a = DOMAIN b
    BY <2>7, <2>8
  <2>11. \A x \in DOMAIN a : a[x] = b[x]
    BY <2>7, <2>9
  <2>12. a = b
    <3>1. a = [x \in DOMAIN a |-> a[x]] /\ b = [x \in DOMAIN b |-> b[x]]
      BY <2>5
    <3> QED
      BY <2>10, <2>11, <3>1
  <2>13. c[1] = d[1]
    BY <2>2, <2>12, LabelsAssumption DEF a, b
  <2> QED
    BY <1>5, <2>13
<1> QED
  BY <1>4, <1>5, <1>6

\* The entries of what was found, with what each of it yields.
Entries(found, yield) ==
  UNION {{Entry(c, WithoutName(LabelsOf[c[1]]), x) : x \in yield[c]} : c \in found}

\* Where each yields a float or nothing, they are a vector.
LEMMA EntriesAreVector ==
  ASSUME NEW found, IsFiniteSet(found), NEW yield,
         \A c \in found : /\ \A x \in yield[c] : x \in Floats
                          /\ \A x, y \in yield[c] : x = y
  PROVE  /\ IsVector(Entries(found, yield))
         /\ (\A c, d \in found :
               WithoutName(LabelsOf[c[1]]) = WithoutName(LabelsOf[d[1]]) => c = d)
              => LabelledOnce(Entries(found, yield))
<1> DEFINE T       == Entries(found, yield)
           labels(c) == WithoutName(LabelsOf[c[1]])
           U       == {c \in found : yield[c] # {}}
           one(c)  == CHOOSE x \in yield[c] : TRUE
           f       == [c \in U |-> Entry(c, labels(c), one(c))]
<1>1. \A y : y \in T <=> \E c \in found : \E x \in yield[c] : y = Entry(c, labels(c), x)
  BY DEF Entries
<1>2. \A c, l, x : Entry(c, l, x).from = c /\ Entry(c, l, x).labels = l /\ Entry(c, l, x).value = x
  BY DEF Entry
<1> HIDE DEF T, labels
<1>3. IsFiniteSet(T)
  <2>1. \A c \in U : one(c) \in yield[c] /\ \A x \in yield[c] : x = one(c)
    OBVIOUS
  <2> HIDE DEF one
  <2>2. f \in [U -> T] /\ \A y \in T : \E c \in U : f[c] = y
    BY <1>1, <2>1
  <2>3. IsFiniteSet(U)
    BY FS_Subset
  <2> HIDE DEF f, U
  <2> QED
    BY <2>2, <2>3, ImageIsFinite
<1>4. \A y \in T : y.value \in Floats
  BY <1>1, <1>2
<1>5. ASSUME \A c, d \in found : labels(c) = labels(d) => c = d
      PROVE  LabelledOnce(T)
  <2> SUFFICES ASSUME NEW y \in T, NEW z \in T, y.labels = z.labels PROVE y = z
    BY DEF LabelledOnce
  <2>1. PICK c \in found : \E x \in yield[c] : y = Entry(c, labels(c), x)
    BY <1>1
  <2>2. PICK d \in found : \E x \in yield[d] : z = Entry(d, labels(d), x)
    BY <1>1
  <2>3. c = d
    BY <1>2, <1>5, <2>1, <2>2
  <2>4. \A x, w \in yield[c] : x = w
    OBVIOUS
  <2> QED
    BY <2>1, <2>2, <2>3, <2>4
<1> QED
  BY <1>3, <1>4, <1>5 DEF IsVector, T, labels

\* A rate is a float.
LEMMA RateIsFloat ==
  ASSUME NEW k, NEW times \in Seq(Int), Ascending(times),
         \A x \in Elements(times) : reading[k][x] \in Int,
         NEW y \in RateOver(k, times)
  PROVE  y \in Floats
<1> DEFINE n == Len(times)
           values == [i \in DOMAIN times |-> reading[k][times[i]]]
<1>1. n \in Nat /\ DOMAIN times = 1..n /\ \A i \in 1..n : times[i] \in Int
  BY LenProperties, ElementOfSeq
<1>2. ~(n < 2) /\ y = Float(Increase(values), times[n] - times[1])
  BY DEF RateOver, LastOf, None, Some
<1>3. values \in Seq(Int) /\ Len(values) = n
  <2>1. values = [i \in 1..n |-> reading[k][times[i]]]
    BY <1>1
  <2>2. \A i \in 1..n : reading[k][times[i]] \in Int
    BY <1>1 DEF Elements
  <2> HIDE DEF values, n
  <2> QED
    BY <1>1, <2>1, <2>2
<1> HIDE DEF values
<1>4. Increase(values) \in Int
  <2>1. PICK f : GrowsBy(f, values)
    BY <1>3, IncreaseLoop
  <2>2. f[n] \in Int
    BY <1>1, <1>3, <2>1 DEF GrowsBy
  <2> QED
    BY <1>3, <2>1, <2>2 DEF GrowsBy
<1>5. times[n] - times[1] \in Nat
  <2>1. 1 \in 1..n /\ n \in 1..n /\ 1 < n
    BY <1>1, <1>2
  <2>2. times[1] < times[n]
    BY <2>1 DEF Ascending
  <2> QED
    BY <1>1, <2>1, <2>2
<1> QED
  BY <1>2, <1>4, <1>5, FloatIsFloat

\* Instant vectors and rates are vectors, and labels tell those of a name apart.
LEMMA StoreVectors ==
  ASSUME IInv, ReadingsTyped, IsFiniteSet(Live), NEW s, IsSelector(s), NEW t \in Int
  PROVE  /\ IsVector(Instant(s, t))
         /\ IsNamed(s) => LabelledOnce(Instant(s, t))
         /\ \A window \in Nat : /\ IsVector(Rates(s, window, t))
                                /\ IsNamed(s) => LabelledOnce(Rates(s, window, t))
<1> DEFINE found == Select(s)
<1>1. /\ IsFiniteSet(found)
      /\ \A c \in found : c[1] \in Live /\ c = <<c[1], 1>>
      /\ IsNamed(s) => \A c, d \in found :
           WithoutName(LabelsOf[c[1]]) = WithoutName(LabelsOf[d[1]]) => c = d
  BY SelectedSeries
<1> HIDE DEF found
<1>2. ASSUME NEW k \in Live
      PROVE  /\ series[k] \in Series /\ WellFormedSeries(series[k])
             /\ \A x \in Times(series[k]) : reading[k][x] \in Int
  <2>1. series[k] \in Series /\ WellFormedSeries(series[k])
    BY DEF IInv, SeriesSound, Sound
  <2>2. k \in Keys
    BY DEF IInv, TypeOK
  <2> QED
    BY <2>1, <2>2 DEF ReadingsTyped, Held
<1>3. IsVector(Instant(s, t)) /\ (IsNamed(s) => LabelledOnce(Instant(s, t)))
  <2> DEFINE yield == [c \in found |-> {Float(reading[c[1]][x], 1) :
                                          x \in ValueAt(series[c[1]], t, Lookback)}]
  <2>1. ASSUME NEW c \in found
        PROVE  /\ \A x \in yield[c] : x \in Floats
               /\ \A x, y \in yield[c] : x = y
    <3> DEFINE k == c[1]
               ser == series[k]
               reach == {x \in Times(ser) : x <= t /\ t - x <= Lookback}
    <3>1. k \in Live
      BY <1>1
    <3> HIDE DEF k
    <3>2. ser \in Series /\ WellFormedSeries(ser) /\ \A x \in Times(ser) : reading[k][x] \in Int
      BY <1>2, <3>1
    <3> HIDE DEF ser
    <3>3. ValueAt(ser, t, Lookback) = IF reach = {} THEN {} ELSE {Max(reach)}
      <4>1. Lookback \in Int
        BY EvalAssumption
      <4>2. ValueAtExact(ser, t, Lookback)
        BY <3>2, <4>1, ValueAtOfWellFormed
      <4> QED
        BY <4>2 DEF ValueAtExact, NoSample
    <3>4. reach # {} => Max(reach) \in reach
      <4>1. reach \in SUBSET Int /\ \A x \in reach : x <= t
        BY <3>2, TimesInParts
      <4> HIDE DEF reach
      <4> QED
        BY <4>1, MaxIsHeld
    <3>5. \A x \in ValueAt(ser, t, Lookback) : Float(reading[k][x], 1) \in Floats
      <4>1. \A x \in reach : reading[k][x] \in Int
        BY <3>2
      <4> HIDE DEF reach
      <4> QED
        BY <3>3, <3>4, <4>1, FloatIsFloat
    <3>6. yield[c] = {Float(reading[k][x], 1) : x \in ValueAt(ser, t, Lookback)}
      BY DEF k, ser
    <3> HIDE DEF reach, yield
    <3> QED
      BY <3>3, <3>5, <3>6
  <2>2. Instant(s, t) = Entries(found, yield)
    <3> DEFINE A(c) == {Entry(c, WithoutName(LabelsOf[c[1]]), Float(reading[c[1]][x], 1)) :
                          x \in ValueAt(series[c[1]], t, Lookback)}
               B(c) == {Entry(c, WithoutName(LabelsOf[c[1]]), y) : y \in yield[c]}
    <3>1. ASSUME NEW c \in found PROVE A(c) = B(c)
      <4>1. yield[c] = {Float(reading[c[1]][x], 1) : x \in ValueAt(series[c[1]], t, Lookback)}
        OBVIOUS
      <4> HIDE DEF yield
      <4> QED
        BY <4>1
    <3>2. Instant(s, t) = UNION {A(c) : c \in found}
      BY DEF Instant, found
    <3>3. Entries(found, yield) = UNION {B(c) : c \in found}
      BY DEF Entries
    <3> HIDE DEF A, B
    <3> QED
      BY <3>1, <3>2, <3>3
  <2> HIDE DEF yield
  <2>3. /\ IsVector(Entries(found, yield))
        /\ (\A c, d \in found :
              WithoutName(LabelsOf[c[1]]) = WithoutName(LabelsOf[d[1]]) => c = d)
             => LabelledOnce(Entries(found, yield))
    BY <1>1, <2>1, EntriesAreVector
  <2> QED
    BY <1>1, <2>2, <2>3
<1>4. ASSUME NEW window \in Nat
      PROVE  /\ IsVector(Rates(s, window, t))
             /\ IsNamed(s) => LabelledOnce(Rates(s, window, t))
  <2> DEFINE yield == [c \in found |-> RateOver(c[1], RangeAt(series[c[1]], t, window))]
  <2>1. ASSUME NEW c \in found
        PROVE  /\ \A x \in yield[c] : x \in Floats
               /\ \A x, y \in yield[c] : x = y
    <3> DEFINE k == c[1]
               ser == series[k]
               times == RangeAt(ser, t, window)
    <3>1. k \in Live
      BY <1>1
    <3> HIDE DEF k
    <3>2. ser \in Series /\ WellFormedSeries(ser) /\ \A x \in Times(ser) : reading[k][x] \in Int
      BY <1>2, <3>1
    <3> HIDE DEF ser
    <3>3. times \in Seq(Int) /\ Ascending(times) /\ \A x \in Elements(times) : reading[k][x] \in Int
      BY <3>2, RangeAtOfWellFormed DEF RangeAtExact
    <3>4. yield[c] = RateOver(k, times)
      BY DEF k, ser
    <3> HIDE DEF times, yield
    <3>5. \A x \in RateOver(k, times) : x \in Floats
      BY <3>3, RateIsFloat
    <3>6. \A x, y \in RateOver(k, times) : x = y
      BY DEF RateOver, None, Some
    <3> QED
      BY <3>4, <3>5, <3>6
  <2>2. Rates(s, window, t) = Entries(found, yield)
    <3>1. \A c \in found : yield[c] = RateOver(c[1], RangeAt(series[c[1]], t, window))
      OBVIOUS
    <3> HIDE DEF yield
    <3> QED
      BY <3>1 DEF Rates, Entries, found
  <2> HIDE DEF yield
  <2>3. /\ IsVector(Entries(found, yield))
        /\ (\A c, d \in found :
              WithoutName(LabelsOf[c[1]]) = WithoutName(LabelsOf[d[1]]) => c = d)
             => LabelledOnce(Entries(found, yield))
    BY <1>1, <2>1, EntriesAreVector
  <2> QED
    BY <1>1, <2>2, <2>3
<1> QED
  BY <1>3, <1>4

-----------------------------------------------------------------------------
\* What passes from the operands to the whole is so of every expression.
LEMMA OfAllExpressions ==
  ASSUME NEW good,
         \A e \in Exprs : (\A d \in Exprs : Depth[d] < Depth[e] => d \in good) => e \in good
  PROVE  Exprs \subseteq good
<1> SUFFICES ASSUME NEW e \in Exprs PROVE e \in good
  OBVIOUS
<1> DEFINE n == Depth[e]
           I == {i \in 0..n : \A d \in Exprs : Depth[d] <= i => d \in good}
<1>0. \A d \in Exprs : Depth[d] \in Nat
  BY ExprsAssumption
<1>1. n \in Nat
  BY <1>0
<1>2. 0 \in I
  <2> SUFFICES ASSUME NEW d \in Exprs, Depth[d] <= 0 PROVE d \in good
    BY <1>1
  <2>1. \A x \in Exprs : ~(Depth[x] < Depth[d])
    BY <1>0
  <2> QED
    BY <2>1
<1>3. ASSUME NEW i \in 1..n, i - 1 \in I PROVE i \in I
  <2> SUFFICES ASSUME NEW d \in Exprs, Depth[d] <= i PROVE d \in good
    BY <1>1
  <2>1. \A x \in Exprs : Depth[x] < Depth[d] => Depth[x] <= i - 1
    <3> HIDE DEF n
    <3> QED
      BY <1>0, <1>1
  <2>2. \A x \in Exprs : Depth[x] <= i - 1 => x \in good
    BY <1>3
  <2> QED
    BY <2>1, <2>2
<1>4. n \in I
  <2>1. n \in 0..n
    BY <1>1
  <2> HIDE DEF I, n
  <2> QED
    BY <1>1, <1>2, <1>3, <2>1, Ascent
<1> QED
  BY <1>0, <1>1, <1>4

\* A call of eval depends on what the operands yield, and on nothing else that
\* is evaluated.
LEMMA OperandsDecide ==
  ASSUME NEW e \in Exprs, NEW t, NEW f, NEW g,
         \A d \in Exprs : Depth[d] < Depth[e] => f[d] = g[d]
  PROVE  EvalOne(e, t, f) = EvalOne(e, t, g)
<1>1. CASE e.kind \in {"number", "selector", "rate"}
  BY <1>1 DEF EvalOne
<1>2. CASE e.kind = "sum" /\ Shallower(e.expr, e)
  <2>1. f[e.expr] = g[e.expr]
    BY <1>2 DEF Shallower
  <2> QED
    BY <1>2, <2>1 DEF EvalOne
<1>3. CASE e.kind = "binary" /\ Shallower(e.lhs, e) /\ Shallower(e.rhs, e)
  <2>1. f[e.lhs] = g[e.lhs] /\ f[e.rhs] = g[e.rhs]
    BY <1>3 DEF Shallower
  <2> QED
    BY <1>3, <2>1 DEF EvalOne
<1> QED
  BY <1>1, <1>2, <1>3, ExprsAssumption

\* f has what the expressions down to the depth i yield at t.
Evaluates(f, t, i) == \A e \in Exprs : Depth[e] <= i => f[e] = EvalOne(e, t, f)

\* Any two agree as far as both reach.
LEMMA EvaluationsAgree ==
  ASSUME NEW t, NEW i \in Nat, NEW f, Evaluates(f, t, i),
         NEW j \in Nat, NEW g, Evaluates(g, t, j),
         NEW e \in Exprs, Depth[e] <= i, Depth[e] <= j
  PROVE  f[e] = g[e]
<1> DEFINE good == {d \in Exprs : Depth[d] <= i /\ Depth[d] <= j => f[d] = g[d]}
<1>0. \A d \in Exprs : Depth[d] \in Nat
  BY ExprsAssumption
<1>1. ASSUME NEW d \in Exprs, \A c \in Exprs : Depth[c] < Depth[d] => c \in good
      PROVE  d \in good
  <2> SUFFICES ASSUME Depth[d] <= i, Depth[d] <= j PROVE f[d] = g[d]
    OBVIOUS
  <2>1. \A c \in Exprs : Depth[c] < Depth[d] => f[c] = g[c]
    BY <1>0, <1>1
  <2>2. EvalOne(d, t, f) = EvalOne(d, t, g)
    BY <2>1, OperandsDecide
  <2> QED
    BY <2>2 DEF Evaluates
<1> HIDE DEF good
<1>2. Exprs \subseteq good
  BY <1>1, OfAllExpressions
<1> QED
  BY <1>2 DEF good

\* There is one for every depth.
LEMMA EvaluationsExist ==
  ASSUME NEW t, NEW n \in Nat
  PROVE  \E f : Evaluates(f, t, n)
<1> DEFINE I == {i \in 0..n : \E f : Evaluates(f, t, i)}
<1>0. \A d \in Exprs : Depth[d] \in Nat
  BY ExprsAssumption
<1> DEFINE Level(g, i) == [e \in Exprs |-> IF Depth[e] <= i - 1 THEN g[e] ELSE EvalOne(e, t, g)]
<1>1. ASSUME NEW i \in Nat, NEW g, i # 0 => Evaluates(g, t, i - 1)
      PROVE  Evaluates(Level(g, i), t, i)
  <2> DEFINE f == Level(g, i)
  <2> SUFFICES ASSUME NEW e \in Exprs, Depth[e] <= i PROVE f[e] = EvalOne(e, t, f)
    BY DEF Evaluates
  <2>1. \A d \in Exprs : Depth[d] < Depth[e] => f[d] = g[d]
    BY <1>0
  <2>2. EvalOne(e, t, f) = EvalOne(e, t, g)
    <3> HIDE DEF f
    <3> QED
      BY <2>1, OperandsDecide
  <2>3. CASE Depth[e] <= i - 1
    <3>1. Evaluates(g, t, i - 1)
      BY <1>0, <1>1, <2>3
    <3>2. f[e] = g[e]
      BY <2>3
    <3> HIDE DEF f
    <3> QED
      BY <2>2, <2>3, <3>1, <3>2 DEF Evaluates
  <2>4. CASE ~(Depth[e] <= i - 1)
    <3>1. f[e] = EvalOne(e, t, g)
      BY <2>4
    <3> HIDE DEF f
    <3> QED
      BY <2>2, <3>1
  <2> QED
    BY <2>3, <2>4
<1> HIDE DEF Level
<1>2. 0 \in I
  BY <1>1
<1>3. ASSUME NEW i \in 1..n, i - 1 \in I PROVE i \in I
  <2>1. PICK g : Evaluates(g, t, i - 1)
    BY <1>3
  <2>2. Evaluates(Level(g, i), t, i)
    BY <1>1, <2>1
  <2> QED
    BY <2>2
<1>4. n \in I
  <2>1. n \in 0..n
    OBVIOUS
  <2> HIDE DEF I
  <2> QED
    BY <1>2, <1>3, <2>1, Ascent
<1> QED
  BY <1>4

\* The recursion of eval ends: it has a solution, and Eval is one.
LEMMA EvalUnfolds ==
  ASSUME NEW t
  PROVE  \E value : \A e \in Exprs : /\ Eval(e, t) = value[e]
                                     /\ value[e] = EvalOne(e, t, value)
<1> DEFINE Body(f) == [x \in Exprs |-> EvalOne(x, t, f)]
           value   == CHOOSE f : f = Body(f)
           of(e)   == CHOOSE f : Evaluates(f, t, Depth[e])
           F       == [e \in Exprs |-> of(e)[e]]
<1>0. \A d \in Exprs : Depth[d] \in Nat
  BY ExprsAssumption
<1>1. \A e \in Exprs : Evaluates(of(e), t, Depth[e])
  BY <1>0, EvaluationsExist
<1> HIDE DEF of
<1>2. ASSUME NEW e \in Exprs PROVE F[e] = EvalOne(e, t, F)
  <2>1. ASSUME NEW d \in Exprs, Depth[d] < Depth[e] PROVE F[d] = of(e)[d]
    <3>1. of(d)[d] = of(e)[d]
      <4>1. Depth[d] \in Nat /\ Depth[e] \in Nat /\ Depth[d] <= Depth[d] /\ Depth[d] <= Depth[e]
        BY <1>0, <2>1
      <4> QED
        BY <1>1, <4>1, EvaluationsAgree
    <3> QED
      BY <3>1
  <2>2. F[e] = EvalOne(e, t, of(e))
    <3>1. Depth[e] <= Depth[e]
      BY <1>0
    <3> QED
      BY <1>1, <3>1 DEF Evaluates
  <2> HIDE DEF F
  <2>3. EvalOne(e, t, of(e)) = EvalOne(e, t, F)
    BY <2>1, OperandsDecide
  <2> QED
    BY <2>2, <2>3
<1>3. F = Body(F)
  <2>1. \A e \in Exprs : F[e] = Body(F)[e]
    BY <1>2
  <2>2. F = [e \in Exprs |-> F[e]] /\ Body(F) = [e \in Exprs |-> Body(F)[e]]
    OBVIOUS
  <2> HIDE DEF F, Body
  <2> QED
    BY <2>1, <2>2
<1>4. value = Body(value)
  <2> HIDE DEF F, Body
  <2> QED
    BY <1>3
<1>5. \A e : Eval(e, t) = value[e]
  BY DEF Eval
<1> HIDE DEF value
<1>6. \A e \in Exprs : value[e] = EvalOne(e, t, value)
  BY <1>4
<1> QED
  BY <1>5, <1>6

\* Each level of an evaluation.
LEMMA LevelsOfEvaluation ==
  ASSUME NEW t, NEW e \in Exprs
  PROVE  /\ e.kind = "number"   => Eval(e, t) = {Scalar(Float(e.value, 1))}
         /\ e.kind = "selector" => Eval(e, t) = {Vector(Instant(e.selector, t))}
         /\ e.kind = "rate"     => Eval(e, t) = {Vector(Rates(e.selector, e.window, t))}
         /\ e.kind = "sum"      =>
              Eval(e, t) = {Vector(SumBy(IntoVector(v), e.by)) : v \in Eval(e.expr, t)}
         /\ e.kind = "binary"   =>
              \A v : v \in Eval(e, t) <=>
                \E l \in Eval(e.lhs, t), r \in Eval(e.rhs, t) : v \in Combine(e.op, l, r)
<1>1. PICK value : \A x \in Exprs : Eval(x, t) = value[x] /\ value[x] = EvalOne(x, t, value)
  BY EvalUnfolds
<1>2. Eval(e, t) = EvalOne(e, t, value)
  BY <1>1
<1>3. CASE e.kind \in {"number", "selector", "rate"}
  BY <1>2, <1>3 DEF EvalOne
<1>4. CASE e.kind = "sum" /\ Shallower(e.expr, e)
  <2>1. Eval(e.expr, t) = value[e.expr]
    BY <1>1, <1>4 DEF Shallower
  <2> QED
    BY <1>2, <1>4, <2>1 DEF EvalOne
<1>5. CASE e.kind = "binary" /\ Shallower(e.lhs, e) /\ Shallower(e.rhs, e)
  <2>1. Eval(e.lhs, t) = value[e.lhs] /\ Eval(e.rhs, t) = value[e.rhs]
    BY <1>1, <1>5 DEF Shallower
  <2> QED
    BY <1>2, <1>5, <2>1 DEF EvalOne
<1> QED
  BY <1>3, <1>4, <1>5, ExprsAssumption

\* What is taken for a vector is one; a scalar is taken for an empty one.
LEMMA ValueIntoVector ==
  ASSUME NEW v, IsValue(v)
  PROVE  IsVector(IntoVector(v)) /\ (IsClear(v) => LabelledOnce(IntoVector(v)))
<1>1. CASE v.is = "vector"
  BY <1>1 DEF IsValue, IntoVector, IsClear
<1>2. CASE v.is # "vector"
  <2>1. IntoVector(v) = {}
    BY <1>2 DEF IntoVector
  <2> QED
    BY <2>1, FS_EmptySet DEF IsVector, LabelledOnce
<1> QED
  BY <1>1, <1>2

\* Whatever is asked, an evaluation yields scalars and vectors of floats.
LEMMA EvaluationsAreValues ==
  ASSUME IInv, ReadingsTyped, IsFiniteSet(Live),
         NEW t \in Int
  PROVE  \A e \in Exprs : \A v \in Eval(e, t) : IsValue(v)
<1> DEFINE good == {e \in Exprs : \A v \in Eval(e, t) : IsValue(v)}
<1>1. ASSUME NEW e \in Exprs, \A d \in Exprs : Depth[d] < Depth[e] => d \in good
      PROVE  e \in good
  <2> SUFFICES ASSUME NEW v \in Eval(e, t) PROVE IsValue(v)
    OBVIOUS
  <2>1. CASE e.kind = "number" /\ e.value \in Int
    <3>1. v = Scalar(Float(e.value, 1))
      BY <2>1, LevelsOfEvaluation
    <3>2. Float(e.value, 1) \in Floats
      BY <2>1, FloatIsFloat
    <3> QED
      BY <3>1, <3>2 DEF IsValue, Scalar
  <2>2. CASE e.kind = "selector" /\ IsSelector(e.selector)
    <3>1. v = Vector(Instant(e.selector, t))
      BY <2>2, LevelsOfEvaluation
    <3>2. IsVector(Instant(e.selector, t))
      BY <2>2, StoreVectors
    <3> QED
      BY <3>1, <3>2 DEF IsValue, Vector
  <2>3. CASE e.kind = "rate" /\ IsSelector(e.selector) /\ e.window \in Nat
    <3>1. v = Vector(Rates(e.selector, e.window, t))
      BY <2>3, LevelsOfEvaluation
    <3>2. IsVector(Rates(e.selector, e.window, t))
      BY <2>3, StoreVectors
    <3> QED
      BY <3>1, <3>2 DEF IsValue, Vector
  <2>4. CASE e.kind = "sum" /\ Shallower(e.expr, e)
    <3>1. PICK w \in Eval(e.expr, t) : v = Vector(SumBy(IntoVector(w), e.by))
      BY <2>4, LevelsOfEvaluation
    <3>2. IsVector(IntoVector(w))
      BY <1>1, <2>4, ValueIntoVector DEF Shallower
    <3>3. IsVector(SumBy(IntoVector(w), e.by))
      BY <3>2, SumKeepsTheTotal
    <3> QED
      BY <3>1, <3>3 DEF IsValue, Vector
  <2>5. CASE /\ e.kind = "binary" /\ e.op \in Operators
             /\ Shallower(e.lhs, e)
             /\ Shallower(e.rhs, e)
    <3>1. PICK l \in Eval(e.lhs, t), r \in Eval(e.rhs, t) : v \in Combine(e.op, l, r)
      BY <2>5, LevelsOfEvaluation
    <3>2. IsValue(l) /\ IsValue(r) /\ e.op \in Operators
      BY <1>1, <2>5, <3>1 DEF Shallower
    <3> QED
      BY <3>1, <3>2, CombineIsValue
  <2> QED
    BY <2>1, <2>2, <2>3, <2>4, <2>5, ExprsAssumption DEF Operators
<1> HIDE DEF good
<1>3. Exprs \subseteq good
  BY <1>1, OfAllExpressions
<1> QED
  BY <1>3 DEF good

\* Where the metrics are named, an evaluation has one outcome, and labels tell
\* its entries apart.
LEMMA NamedEvaluationsAreClear ==
  ASSUME IInv, ReadingsTyped, IsFiniteSet(Live),
         NEW t \in Int
  PROVE  \A e \in Named : \E v : Eval(e, t) = {v} /\ IsValue(v) /\ IsClear(v)
<1> DEFINE good == {e \in Exprs : e \in Named => \E v : Eval(e, t) = {v} /\ IsClear(v)}
<1>0. \A e \in Exprs : \A v \in Eval(e, t) : IsValue(v)
  BY EvaluationsAreValues
<1>1. ASSUME NEW e \in Exprs, \A d \in Exprs : Depth[d] < Depth[e] => d \in good
      PROVE  e \in good
  <2> SUFFICES ASSUME e \in Named PROVE \E v : Eval(e, t) = {v} /\ IsClear(v)
    OBVIOUS
  <2>1. CASE e.kind = "number"
    <3>1. Eval(e, t) = {Scalar(Float(e.value, 1))}
      BY <2>1, LevelsOfEvaluation
    <3>2. IsClear(Scalar(Float(e.value, 1)))
      BY DEF IsClear, Scalar
    <3> QED
      BY <3>1, <3>2
  <2>2. CASE e.kind = "selector" /\ IsSelector(e.selector)
    <3>1. Eval(e, t) = {Vector(Instant(e.selector, t))}
      BY <2>2, LevelsOfEvaluation
    <3>2. LabelledOnce(Instant(e.selector, t))
      BY <2>2, StoreVectors, NamedAssumption DEF IsNamed
    <3>3. IsClear(Vector(Instant(e.selector, t)))
      BY <3>2 DEF IsClear, Vector
    <3> QED
      BY <3>1, <3>3
  <2>3. CASE e.kind = "rate" /\ IsSelector(e.selector) /\ e.window \in Nat
    <3>1. Eval(e, t) = {Vector(Rates(e.selector, e.window, t))}
      BY <2>3, LevelsOfEvaluation
    <3>2. LabelledOnce(Rates(e.selector, e.window, t))
      BY <2>3, StoreVectors, NamedAssumption DEF IsNamed
    <3>3. IsClear(Vector(Rates(e.selector, e.window, t)))
      BY <3>2 DEF IsClear, Vector
    <3> QED
      BY <3>1, <3>3
  <2>4. CASE e.kind = "sum" /\ Shallower(e.expr, e)
    <3>1. PICK w : Eval(e.expr, t) = {w}
      BY <1>1, <2>4, NamedAssumption DEF Shallower
    <3>2. Eval(e, t) = {Vector(SumBy(IntoVector(w), e.by))}
      <4>1. Eval(e, t) = {Vector(SumBy(IntoVector(x), e.by)) : x \in Eval(e.expr, t)}
        BY <2>4, LevelsOfEvaluation
      <4> QED
        BY <3>1, <4>1
    <3>3. IsVector(IntoVector(w))
      BY <1>0, <2>4, <3>1, ValueIntoVector DEF Shallower
    <3>4. LabelledOnce(SumBy(IntoVector(w), e.by))
      BY <3>3, SumKeepsTheTotal
    <3>5. IsClear(Vector(SumBy(IntoVector(w), e.by)))
      BY <3>4 DEF IsClear, Vector
    <3> QED
      BY <3>2, <3>5
  <2>5. CASE /\ e.kind = "binary" /\ e.op \in Operators
             /\ Shallower(e.lhs, e)
             /\ Shallower(e.rhs, e)
    <3>1. PICK l : Eval(e.lhs, t) = {l} /\ IsClear(l)
      BY <1>1, <2>5, NamedAssumption DEF Shallower
    <3>2. PICK r : Eval(e.rhs, t) = {r} /\ IsClear(r)
      BY <1>1, <2>5, NamedAssumption DEF Shallower
    <3>3. Eval(e, t) = Combine(e.op, l, r)
      <4>1. \A v : v \in Eval(e, t) <=>
              \E x \in Eval(e.lhs, t), y \in Eval(e.rhs, t) : v \in Combine(e.op, x, y)
        BY <2>5, LevelsOfEvaluation
      <4>2. \A v : v \in Eval(e, t) <=> v \in Combine(e.op, l, r)
        BY <3>1, <3>2, <4>1
      <4>3. \A v \in Eval(e, t) : v \in Combine(e.op, l, r)
        BY <4>2
      <4> QED
        BY <4>2, <4>3
    <3>4. IsValue(l) /\ IsValue(r) /\ e.op \in Operators
      BY <1>0, <2>5, <3>1, <3>2 DEF Shallower
    <3>5. \E v : Combine(e.op, l, r) = {v} /\ IsClear(v)
      BY <3>1, <3>2, <3>4, CombineIsClear
    <3> QED
      BY <3>3, <3>5
  <2> QED
    BY <2>1, <2>2, <2>3, <2>4, <2>5, ExprsAssumption DEF Operators
<1> HIDE DEF good
<1>3. Exprs \subseteq good
  BY <1>1, OfAllExpressions
<1> QED
  BY <1>0, <1>3, NamedAssumption DEF good

-----------------------------------------------------------------------------
\* The store that queries find: its samples have readings, its series are
\* finitely many.
LEMMA StoreOfQueries == ESpec => [](IInv /\ ReadingsTyped /\ IsFiniteSet(Live))
<1>1. EInit => ReadingsTyped /\ IsFiniteSet(Live)
  <2> SUFFICES ASSUME EInit PROVE ReadingsTyped /\ IsFiniteSet(Live)
    OBVIOUS
  <2>1. Live = {}
    BY DEF EInit, Init, Live
  <2> QED
    BY <2>1, FS_EmptySet DEF EInit, Init, ReadingsTyped, Held
<1>2. IInv /\ ReadingsTyped /\ IsFiniteSet(Live) /\ [ENext]_evars
        => (ReadingsTyped /\ IsFiniteSet(Live))'
  <2> SUFFICES ASSUME IInv, ReadingsTyped, IsFiniteSet(Live), [ENext]_evars
               PROVE  ReadingsTyped' /\ IsFiniteSet(Live')
    OBVIOUS
  <2>1. ReadingsTyped'
    BY ReadingsTypedStep
  <2>2. \E k : Live' \subseteq Live \cup {k}
    <3>1. CASE \E t \in 0..MaxTime : BeginPass(t) /\ UNCHANGED reading
      BY <3>1 DEF BeginPass, Live
    <3>2. ASSUME NEW k \in Keys, NEW v \in Readings[k][started], Collect(k, v)
          PROVE  Live' \subseteq Live \cup {k}
      BY <3>2 DEF Collect, AppendExisting, AppendNew, Live
    <3>3. CASE EPrune
      BY <3>3 DEF EPrune, EndPass, Live
    <3>4. CASE UNCHANGED evars
      BY <3>4 DEF evars, vars, Live
    <3> QED
      BY <3>1, <3>2, <3>3, <3>4 DEF ENext
  <2>3. IsFiniteSet(Live')
    BY <2>2, FS_AddElement, FS_Subset
  <2> QED
    BY <2>1, <2>3
<1> QED
  BY <1>1, <1>2, InvarianceWithReadings, PTL DEF ESpec

\* A sum of whatever a query yields counts each of its entries once, by
\* whatever labels it groups them (src/promql/eval.rs: `Expr::Sum`).
THEOREM SumsAlwaysCountEach == ESpec => []SumCountsEach
<1>1. IInv /\ ReadingsTyped /\ IsFiniteSet(Live) => SumCountsEach
  <2> SUFFICES ASSUME IInv, ReadingsTyped, IsFiniteSet(Live),
                      NEW e \in Exprs, NEW t \in 0..MaxTime, NEW v \in Eval(e, t),
                      NEW by \in Clauses
               PROVE  Total(SumBy(IntoVector(v), by)) = Total(IntoVector(v))
    BY DEF SumCountsEach
  <2>1. t \in Int
    BY StoreAssumption
  <2>2. IsValue(v)
    BY <2>1, EvaluationsAreValues
  <2> QED
    BY <2>2, ValueIntoVector, SumKeepsTheTotal
<1> QED
  BY <1>1, StoreOfQueries, PTL

\* A wrapped number is a number.
LEMMA WrappedIsInt ==
  ASSUME NEW n \in Int
  PROVE  Wrapped(n) \in Int
<1> DEFINE m == n + Half
           w == 2 * Half
<1>1. m \in Int /\ w \in Nat \ {0} /\ Half \in Int
  BY RequestAssumption
<1> HIDE DEF m, w
<1>2. m % w \in Int
  BY <1>1
<1> QED
  BY <1>1, <1>2 DEF Wrapped, m, w

\* The parameters of a request are words, given or not.
LEMMA RequestInWords ==
  ASSUME NEW asked \in Asked
  PROVE  /\ OrElse(asked.start, MaxTime) \in Int
         /\ StartOf(asked, MaxTime) \in Int /\ EndOf(asked, MaxTime) \in Int
         /\ StepOf(asked) \in Nat \ {0}
<1>1. \A param \in {asked.start, asked.end, asked.step} : \A default \in Int :
        OrElse(param, default) \in Int
  BY AskedAssumption DEF OrElse
<1>2. MaxTime \in Int /\ DefaultSpan \in Int /\ DefaultStep \in Int
  BY StoreAssumption, RequestAssumption
<1>3. EndOf(asked, MaxTime) \in Int
  BY <1>1, <1>2 DEF EndOf
<1>4. \A x \in Int : Wrapped(x) \in Int
  BY WrappedIsInt
<1>5. StartOf(asked, MaxTime) \in Int
  BY <1>1, <1>2, <1>3, <1>4 DEF StartOf
<1>6. OrElse(asked.step, DefaultStep) \in Int
  BY <1>1, <1>2
<1>7. StepOf(asked) \in Nat \ {0}
  BY <1>6 DEF StepOf
<1> QED
  BY <1>1, <1>2, <1>3, <1>5, <1>7

\* A range query has one matrix, with one point at a time under each label set,
\* if there is one outcome at each instant, in which labels tell entries apart.
LEMMA RangeOfClear ==
  ASSUME NEW e, NEW start \in Int, NEW end \in Int, NEW step \in Nat \ {0},
         \A t \in Int : \E v : Eval(e, t) = {v} /\ LabelledOnce(IntoVector(v))
  PROVE  LET matrices == QueryRange(e, start, end, step)
         IN  /\ Cardinality(matrices) = 1
             /\ \A matrix \in matrices : \A labels \in DOMAIN matrix :
                  \A p, q \in matrix[labels] : p.t = q.t => p = q
<1> DEFINE instants == Instants(start, end, step)
           outcomes == [t \in instants |-> Eval(e, t)]
           answers  == {f \in [instants -> UNION {outcomes[t] : t \in instants}] :
                          \A t \in instants : f[t] \in outcomes[t]}
           shown(v) == {y \in IntoVector(v) : IsFinite(y.value)}
           points(f) == UNION {{[t |-> t, entry |-> x] : x \in shown(f[t])} : t \in DOMAIN f}
           matrix(f) == [labels \in {p.entry.labels : p \in points(f)} |->
                           {p \in points(f) : p.entry.labels = labels}]
<1>1. QueryRange(e, start, end, step) = {matrix(f) : f \in answers}
  BY DEF QueryRange
<1>2. instants \subseteq Int
  <2>1. ASSUME NEW n \in Int PROVE Round(start, step, n) \in Int
    <3>1. start + n * step \in Int
      OBVIOUS
    <3> QED
      BY <3>1, WrappedIsInt DEF Round
  <2>2. instants = {Round(start, step, n) : n \in 0..(end - start) \div step}
    BY DEF Instants
  <2>3. \A n \in 0..(end - start) \div step : n \in Int
    OBVIOUS
  <2> HIDE DEF instants
  <2> QED
    BY <2>1, <2>2, <2>3
<1> DEFINE one(t) == CHOOSE v : Eval(e, t) = {v} /\ LabelledOnce(IntoVector(v))
           F == [t \in instants |-> one(t)]
<1>3. \A t \in instants : Eval(e, t) = {one(t)} /\ LabelledOnce(IntoVector(one(t)))
  BY <1>2
<1> HIDE DEF one, instants
<1>4. answers = {F}
  <2>1. \A t \in instants : outcomes[t] = {one(t)}
    BY <1>3
  <2> HIDE DEF outcomes
  <2>2. F \in answers
    BY <2>1
  <2>3. ASSUME NEW f \in answers PROVE f = F
    <3>1. f = [t \in instants |-> f[t]] /\ \A t \in instants : f[t] = one(t)
      BY <2>1
    <3> QED
      BY <3>1
  <2> HIDE DEF answers, F
  <2> QED
    BY <2>2, <2>3
<1>5. QueryRange(e, start, end, step) = {matrix(F)}
  <2> HIDE DEF answers, matrix, F
  <2> QED
    BY <1>1, <1>4
<1>6. ASSUME NEW p \in points(F), NEW q \in points(F), p.entry.labels = q.entry.labels, p.t = q.t
      PROVE  p = q
  <2>1. PICK t \in instants : \E x \in shown(F[t]) : p = [t |-> t, entry |-> x]
    OBVIOUS
  <2>2. PICK u \in instants : \E x \in shown(F[u]) : q = [t |-> u, entry |-> x]
    OBVIOUS
  <2>3. t = u
    BY <1>6, <2>1, <2>2
  <2>4. F[t] = one(t)
    OBVIOUS
  <2>5. \A x, y \in shown(F[t]) : x.labels = y.labels => x = y
    BY <1>3, <2>4 DEF LabelledOnce
  <2> HIDE DEF shown, F
  <2>6. PICK x \in shown(F[t]) : p = [t |-> t, entry |-> x]
    BY <2>1
  <2>7. PICK y \in shown(F[t]) : q = [t |-> t, entry |-> y]
    BY <2>2, <2>3
  <2> QED
    BY <1>6, <2>5, <2>6, <2>7
<1>7. \A labels \in DOMAIN matrix(F) : \A p, q \in matrix(F)[labels] : p.t = q.t => p = q
  <2> HIDE DEF points
  <2> QED
    BY <1>6
<1> HIDE DEF matrix
<1> QED
  BY <1>5, <1>7, FS_Singleton

\* Where each selector names its metric, every query has one answer, however
\* deep its sums and joins are, and a range query has one point at a time under
\* each label set (src/promql/eval.rs: `Expr::Binary`, `query_range`).
THEOREM NamedAnswersAlwaysDetermined == ESpec => []NamedAnswersDetermined
<1>1. IInv /\ ReadingsTyped /\ IsFiniteSet(Live) => NamedAnswersDetermined
  <2> SUFFICES ASSUME IInv, ReadingsTyped, IsFiniteSet(Live),
                      NEW e \in Named, NEW asked \in Asked
               PROVE  LET matrices == RangeAnswer(e, asked, MaxTime)
                      IN  /\ Cardinality(InstantAnswer(e, asked, MaxTime)) = 1
                          /\ Cardinality(matrices) = 1
                          /\ \A matrix \in matrices : \A labels \in DOMAIN matrix :
                               \A p, q \in matrix[labels] : p.t = q.t => p = q
    BY DEF NamedAnswersDetermined
  <2>1. \A t \in Int : \E v : Eval(e, t) = {v} /\ LabelledOnce(IntoVector(v))
    BY NamedEvaluationsAreClear, ValueIntoVector
  <2>2. Cardinality(InstantAnswer(e, asked, MaxTime)) = 1
    <3>1. OrElse(asked.start, MaxTime) \in Int
      BY RequestInWords
    <3> QED
      BY <2>1, <3>1, FS_Singleton DEF InstantAnswer
  <2> DEFINE start == StartOf(asked, MaxTime)
             end   == EndOf(asked, MaxTime)
             step  == StepOf(asked)
  <2>3. RangeAnswer(e, asked, MaxTime) = QueryRange(e, start, end, step)
    BY AskedAssumption DEF RangeAnswer
  <2>4. start \in Int /\ end \in Int /\ step \in Nat \ {0}
    BY RequestInWords
  <2> HIDE DEF start, end, step
  <2> QED
    BY <2>1, <2>2, <2>3, <2>4, RangeOfClear
<1> QED
  BY <1>1, StoreOfQueries, PTL

=============================================================================
