------------------------- MODULE RestoredStoreProofs -------------------------
(***************************************************************************)
(* What a restart does to the store, for every history of passes, kills,   *)
(* stops and clocks, for every window and both layouts of the snapshot:    *)
(* the loader takes what the daemon has saved, and leaves of it what a     *)
(* pruning at that time would leave.                                       *)
(***************************************************************************)
EXTENDS RestoredStore, SampleStoreProofs

\* The loop of read_raw_samples, sample by sample.
ReadsBy(f, samples, cutoff) ==
  /\ f \in [0..Len(samples) -> Seq(Int)]
  /\ ReadRaw(samples, cutoff) = f[Len(samples)]
  /\ f[0] = <<>>
  /\ \A i \in 1..Len(samples) :
       f[i] = IF /\ samples[i] >= cutoff
                 /\ f[i - 1] = <<>> \/ LastOf(f[i - 1]) < samples[i]
              THEN Append(f[i - 1], samples[i]) ELSE f[i - 1]

LEMMA ReadLoop ==
  ASSUME NEW samples \in Seq(Int), NEW cutoff
  PROVE  \E f : ReadsBy(f, samples, cutoff)
<1> DEFINE n == Len(samples)
           Read(i, read) ==
             IF samples[i] >= cutoff /\ (read = <<>> \/ LastOf(read) < samples[i])
             THEN Append(read, samples[i]) ELSE read
           step == [p \in (1..n) \X Seq(Int) |-> Read(p[1], p[2])]
           Body(f) == [i \in 0..n |-> IF i = 0 THEN <<>> ELSE Read(i, f[i - 1])]
<1>1. n \in Nat /\ \A i \in 1..n : samples[i] \in Int
  BY LenProperties, ElementOfSeq
<1>2. \A i \in 1..n, read \in Seq(Int) : Read(i, read) \in Seq(Int)
  BY <1>1
<1>3. ReadRaw(samples, cutoff) = (CHOOSE h : h = Body(h))[n]
  BY DEF ReadRaw
<1> HIDE DEF Read, n
<1>0. <<>> \in Seq(Int)
  OBVIOUS
<1>4. PICK f : IsLoop(f, Seq(Int), <<>>, n, step)
  <2>1. step \in [(1..n) \X Seq(Int) -> Seq(Int)]
    BY <1>2
  <2> HIDE DEF step
  <2> QED
    BY <1>0, <1>1, <2>1, LoopExists
<1>5. ASSUME NEW i \in 1..n PROVE f[i] = Read(i, f[i - 1])
  <2>1. f[i - 1] \in Seq(Int)
    BY <1>1, <1>4 DEF IsLoop
  <2> QED
    BY <1>4, <2>1 DEF IsLoop
<1>6. f = Body(f)
  BY <1>1, <1>4, <1>5 DEF IsLoop
<1> DEFINE g == CHOOSE h : h = Body(h)
<1>7. g = Body(g)
  <2> HIDE DEF Body
  <2> QED
    BY <1>6
<1> HIDE DEF g
<1>8. g[0] = <<>> /\ \A i \in 1..n : g[i] = Read(i, g[i - 1])
  BY <1>1, <1>7
<1>9. \A i \in 0..n : g[i] \in Seq(Int)
  <2> DEFINE T == {i \in 0..n : g[i] \in Seq(Int)}
  <2>1. 0 \in T
    <3>1. g[0] \in Seq(Int)
      BY <1>0, <1>8
    <3> QED
      BY <1>1, <3>1
  <2>2. \A i \in 1..n : i - 1 \in T => i \in T
    BY <1>1, <1>2, <1>8
  <2> HIDE DEF T
  <2>3. 0..n \subseteq T
    BY <1>1, <2>1, <2>2, Ascent
  <2> QED
    BY <2>3 DEF T
<1>10. g \in [0..n -> Seq(Int)]
  BY <1>7, <1>9
<1> QED
  BY <1>3, <1>8, <1>10 DEF g, n, Read, ReadsBy

\* Of samples that ascend, read_raw_samples (src/snapshot.rs:231) drops
\* exactly those that have aged out: its check of the order refuses none.
LEMMA ReadRawIsDrop ==
  ASSUME NEW s \in Seq(Int), Ascending(s), NEW cutoff \in Int,
         NEW n \in 0..Len(s), IsBoundary(s, cutoff, n)
  PROVE  ReadRaw(s, cutoff) = DropFirst(s, n)
<1> DEFINE N == Len(s)
           Behind(i, q) == /\ Len(q) = IF i <= n THEN 0 ELSE i - n
                           /\ \A j \in 1..Len(q) : q[j] = s[n + j]
<1>0. N \in Nat /\ n \in 0..N /\ \A i \in 1..N : s[i] \in Int
  BY LenProperties, ElementOfSeq
<1> PICK f : ReadsBy(f, s, cutoff)
  BY ReadLoop
<1>1. /\ f \in [0..N -> Seq(Int)]
      /\ ReadRaw(s, cutoff) = f[N]
      /\ f[0] = <<>>
      /\ \A i \in 1..N :
           f[i] = IF /\ s[i] >= cutoff
                     /\ f[i - 1] = <<>> \/ LastOf(f[i - 1]) < s[i]
                  THEN Append(f[i - 1], s[i]) ELSE f[i - 1]
  BY DEF ReadsBy
<1> DEFINE T == {i \in 0..N : Behind(i, f[i])}
<1>2. 0 \in T
  <2>1. f[0] = <<>> /\ Len(f[0]) = 0
    BY <1>1, EmptySeq
  <2> QED
    BY <1>0, <2>1
<1>3. ASSUME NEW i \in 1..N, i - 1 \in T PROVE i \in T
  <2>0. i \in Nat /\ i \in 0..N /\ i - 1 \in 0..N /\ s[i] \in Int
    BY <1>0
  <2>1. i \in Nat /\ i \in 0..N /\ s[i] \in Int /\ f[i - 1] \in Seq(Int)
    BY <1>1, <2>0
  <2>2. Behind(i - 1, f[i - 1])
    BY <1>3
  <2>3. CASE i <= n
    <3>1. ~(s[i] >= cutoff)
      BY <1>0, <2>1, <2>3 DEF IsBoundary
    <3>2. f[i] = f[i - 1]
      BY <1>1, <3>1
    <3> QED
      BY <1>0, <2>1, <2>2, <2>3, <3>2
  <2>4. CASE i > n
    <3> DEFINE q == f[i - 1]
               r == Append(q, s[i])
    <3>1. /\ q \in Seq(Int) /\ Len(q) = i - 1 - n
          /\ \A j \in 1..Len(q) : q[j] = s[n + j]
      BY <1>0, <2>1, <2>2, <2>4
    <3>2. q = <<>> \/ LastOf(q) < s[i]
      <4>1. CASE Len(q) = 0
        BY <3>1, <4>1, EmptySeq
      <4>2. CASE Len(q) # 0
        <5>1. Len(q) \in 1..Len(q) /\ n + Len(q) = i - 1 /\ i - 1 \in 1..N
          BY <1>0, <2>1, <2>4, <3>1, <4>2
        <5>2. LastOf(q) = s[i - 1]
          BY <3>1, <5>1 DEF LastOf
        <5>3. i - 1 < i
          BY <2>1
        <5>4. s[i - 1] < s[i]
          BY <5>1, <5>3 DEF Ascending
        <5> QED
          BY <5>2, <5>4
      <4> QED
        BY <4>1, <4>2
    <3>3. f[i] = r
      <4>1. s[i] >= cutoff
        BY <1>0, <2>1, <2>4 DEF IsBoundary
      <4> QED
        BY <1>1, <3>2, <4>1
    <3>4. /\ Len(r) = Len(q) + 1
          /\ \A j \in 1..Len(q) : r[j] = q[j]
          /\ r[Len(q) + 1] = s[i]
      BY <2>1, <3>1, AppendProperties
    <3> HIDE DEF q, r
    <3>5. Len(r) = i - n /\ \A j \in 1..Len(r) : r[j] = s[n + j]
      <4>1. Len(q) + 1 = i - n
        BY <1>0, <2>1, <3>1
      <4>2. \A j \in 1..Len(r) : j \in 1..Len(q) \/ (j = Len(q) + 1 /\ n + j = i)
        BY <1>0, <2>1, <2>4, <3>1, <3>4
      <4> QED
        BY <3>1, <3>4, <4>1, <4>2
    <3>6. Behind(i, r)
      BY <1>0, <2>1, <2>4, <3>5
    <3> HIDE DEF Behind
    <3> QED
      BY <2>1, <3>3, <3>6
  <2> QED
    BY <1>0, <2>1, <2>3, <2>4
<1>4. N \in T
  <2>1. N \in 0..N
    BY <1>0
  <2> HIDE DEF T
  <2> QED
    BY <1>0, <1>2, <1>3, <2>1, Ascent
<1>5. /\ f[N] \in Seq(Int) /\ Len(f[N]) = N - n
      /\ \A j \in 1..N - n : f[N][j] = s[n + j]
  BY <1>0, <1>1, <1>4
<1>6. /\ DropFirst(s, n) \in Seq(Int) /\ Len(DropFirst(s, n)) = N - n
      /\ \A j \in 1..N - n : DropFirst(s, n)[j] = s[n + j]
  BY DropFirstProperties
<1>7. f[N] = DropFirst(s, n)
  <2> DEFINE a == f[N]
             b == DropFirst(s, n)
  <2>1. a \in Seq(Int) /\ b \in Seq(Int) /\ Len(a) = Len(b)
    BY <1>5, <1>6
  <2>2. \A i \in 1..Len(a) : a[i] = b[i]
    BY <1>5, <1>6
  <2> HIDE DEF a, b
  <2>3. a = b
    BY <2>1, <2>2, SeqEqual
  <2> QED
    BY <2>3 DEF a, b
<1> QED
  BY <1>1, <1>7

\* "Retention applies at chunk granularity, matching the store" (src/snapshot.rs):
\* of a well-formed series the loader leaves what Series::prune would.
LEMMA ReadIsPrune ==
  ASSUME NEW ser \in Series, WellFormedSeries(ser), NEW cutoff \in Int
  PROVE  ReadSeries(2, ser, cutoff) = PruneSeries(ser, cutoff)
<1>1. PICK a \in 0..Len(ser.chunks), b \in 0..Len(ser.head) :
        /\ PruneSeries(ser, cutoff) = [chunks |-> DropFirst(ser.chunks, a),
                                       head   |-> DropFirst(ser.head, b)]
        /\ \A c \in 1..a : ser.chunks[c].last_t < cutoff
        /\ \A c \in (a + 1)..Len(ser.chunks) : ser.chunks[c].last_t >= cutoff
        /\ IsBoundary(ser.head, cutoff, b)
  BY PruneCuts
<1>2. /\ ser.chunks \in Seq(Chunk) /\ ser.head \in Seq(Int)
      /\ Len(ser.chunks) \in Nat
      /\ \A c \in 1..Len(ser.chunks) :
           ser.chunks[c] \in Chunk /\ ser.chunks[c].last_t \in Int
  BY SeriesParts
<1>3. ReadRaw(ser.head, cutoff) = DropFirst(ser.head, b)
  BY <1>1, <1>2, ReadRawIsDrop DEF WellFormedSeries
<1>4. ReadChunks(ser.chunks, cutoff) = DropFirst(ser.chunks, a)
  <2> DEFINE wanted == {chunk \in Chunk : chunk.last_t >= cutoff}
  <2>1. \A c \in 1..a : ser.chunks[c] \notin wanted
    <3>1. 1..a \subseteq 1..Len(ser.chunks)
      BY <1>2
    <3> QED
      BY <1>1, <1>2, <3>1
  <2>2. \A c \in a + 1..Len(ser.chunks) : ser.chunks[c] \in wanted
    <3>1. a + 1..Len(ser.chunks) \subseteq 1..Len(ser.chunks)
      BY <1>2
    <3> QED
      BY <1>1, <1>2, <3>1
  <2>3. ReadChunks(ser.chunks, cutoff) = Retain(ser.chunks, wanted)
    BY DEF ReadChunks
  <2> HIDE DEF wanted
  <2>4. Retain(ser.chunks, wanted) = DropFirst(ser.chunks, a)
    BY <1>2, <2>1, <2>2, RetainIsDrop
  <2> QED
    BY <2>3, <2>4
<1> QED
  BY <1>1, <1>3, <1>4 DEF ReadSeries

-----------------------------------------------------------------------------
\* Where the chunks that insert_series packs begin and end in the samples.
LEMMA Pieces ==
  ASSUME NEW n \in Nat
  PROVE  LET M    == MaxChunkSamples
             full == n \div M
         IN  /\ full \in Nat /\ full * M \in 0..n
             /\ \A c \in 1..full :
                  /\ (c - 1) * M \in 0..n
                  /\ c * M = (c - 1) * M + M
                  /\ c * M \in 0..full * M
             /\ \A c, d \in 1..full : c < d => c * M <= (d - 1) * M
             /\ \A i \in 1..full * M : \E c \in 1..full : i \in (c - 1) * M + 1..c * M
<1> DEFINE M == MaxChunkSamples
           full == n \div M
<1>1. M \in Nat /\ M # 0 /\ M \in Nat \ {0}
  BY SeriesAssumption
<1>2. full \in Nat /\ full * M <= n /\ n < full * M + M
  BY <1>1, Division
<1> HIDE DEF M, full
<1>3. full * M \in Nat
  BY <1>1, <1>2
<1>4. ASSUME NEW c \in 1..full
      PROVE  /\ (c - 1) * M \in Nat /\ c * M \in Nat
             /\ c * M = (c - 1) * M + M
             /\ c * M <= full * M
  <2>1. c \in Nat /\ c - 1 \in Nat /\ c <= full
    BY <1>2
  <2>2. c * M <= full * M
    BY <1>1, <1>2, <2>1, Monotone
  <2>3. (c - 1) * M \in Nat /\ (c - 1 + 1) * M = (c - 1) * M + M
    BY <1>1, <2>1, NextProduct
  <2>4. c - 1 + 1 = c
    BY <2>1
  <2>5. c * M \in Nat
    BY <1>1, <2>1, NextProduct
  <2> QED
    BY <2>2, <2>3, <2>4, <2>5
<1>5. ASSUME NEW c \in 1..full PROVE (c - 1) * M \in 0..n /\ c * M \in 0..full * M
  <2> DEFINE p == (c - 1) * M
             q == c * M
             r == full * M
  <2>1. p \in Nat /\ q \in Nat /\ r \in Nat /\ q = p + M /\ q <= r /\ r <= n
    BY <1>2, <1>3, <1>4
  <2> HIDE DEF p, q, r
  <2>2. p \in 0..n /\ q \in 0..r
    BY <1>1, <2>1
  <2> QED
    BY <2>2 DEF p, q, r
<1>6. ASSUME NEW c \in 1..full, NEW d \in 1..full, c < d PROVE c * M <= (d - 1) * M
  <2>1. c \in Nat /\ d - 1 \in Nat /\ c <= d - 1
    BY <1>2, <1>6
  <2> QED
    BY <1>1, <2>1, Monotone
<1>7. ASSUME NEW i \in 1..full * M
      PROVE  \E c \in 1..full : i \in (c - 1) * M + 1..c * M
  <2> DEFINE q == (i - 1) \div M
  <2>1. i - 1 \in Nat
    BY <1>3
  <2>2. q \in Nat /\ q * M <= i - 1 /\ i - 1 < q * M + M
    BY <1>1, <2>1, Division
  <2> HIDE DEF q
  <2>3. q < full
    <3> SUFFICES ASSUME full <= q PROVE FALSE
      BY <1>2, <2>2
    <3> DEFINE x == full * M
               y == q * M
    <3>1. x <= y
      BY <1>1, <1>2, <2>2, Monotone
    <3>2. i \in 1..x /\ y <= i - 1 /\ x \in Nat /\ y \in Nat
      BY <1>1, <1>3, <2>2
    <3> HIDE DEF x, y
    <3> QED
      BY <3>1, <3>2
  <2>4. q + 1 \in 1..full
    BY <1>2, <2>2, <2>3
  <2> DEFINE c == q + 1
             lo == (c - 1) * M
             hi == c * M
  <2>5. lo = q * M /\ hi = q * M + M /\ lo \in Nat
    BY <1>1, <2>2
  <2> HIDE DEF c
  <2>6. i \in lo + 1..hi
    <3> DEFINE y == q * M
    <3>1. lo = y /\ hi = y + M /\ y \in Nat /\ y <= i - 1 /\ i - 1 < y + M
      BY <2>2, <2>5
    <3> HIDE DEF y, lo, hi
    <3> QED
      BY <1>1, <2>1, <3>1
  <2>7. c \in 1..full
    BY <2>4 DEF c
  <2> QED
    BY <2>6, <2>7
<1>8. full * M \in 0..n
  BY <1>2, <1>3
<1> QED
  BY <1>2, <1>4, <1>5, <1>6, <1>7, <1>8 DEF M, full

\* Store::insert_series (src/store.rs:325) packs samples that ascend into a
\* well-formed series, and loses none: not at the end of a chunk, nor of the
\* last one.
LEMMA PackKeeps ==
  ASSUME NEW s \in Seq(Int), Ascending(s)
  PROVE  /\ Pack(s) \in Series
         /\ WellFormedSeries(Pack(s))
         /\ Times(Pack(s)) = Elements(s)
<1> DEFINE n     == Len(s)
           M     == MaxChunkSamples
           full  == n \div M
           lo(c) == (c - 1) * M
           hi(c) == c * M
           cut   == full * M
           piece(c) == SubSeq(s, (c - 1) * M + 1, c * M)
           ser   == Pack(s)
<1>1. /\ n \in Nat /\ \A i \in 1..n : s[i] \in Int /\ s[i] \in Elements(s)
      /\ \A x \in Elements(s) : x \in Int /\ \E i \in 1..n : x = s[i]
  <2>1. \A x \in Elements(s) : x \in Int /\ \E i \in 1..n : x = s[i]
    BY ElementsOf
  <2> QED
    BY <2>1, ElementsOf
<1>2. M \in Nat /\ M # 0
  BY SeriesAssumption
<1>3. /\ full \in Nat /\ cut \in 0..n
      /\ \A c \in 1..full : /\ lo(c) \in 0..n
                            /\ hi(c) = lo(c) + M
                            /\ hi(c) \in 0..cut
      /\ \A c, d \in 1..full : c < d => hi(c) <= lo(d)
      /\ \A i \in 1..cut : \E c \in 1..full : i \in lo(c) + 1..hi(c)
  BY <1>1, Pieces
<1>4. /\ ser.head = SubSeq(s, cut + 1, n)
      /\ ser.chunks = [c \in 1..full |-> Encode(piece(c))]
      /\ ser = [chunks |-> ser.chunks, head |-> ser.head]
  BY DEF Pack, DropFirst
<1> HIDE DEF n, M, full, lo, hi, cut
<1>5. /\ ser.head \in Seq(Int) /\ Ascending(ser.head)
      /\ Len(ser.head) = n - cut
      /\ \A i \in 1..n - cut : ser.head[i] = s[cut + i]
      /\ Elements(ser.head) = {s[i] : i \in cut + 1..n}
  <2> DEFINE r == SubSeq(s, cut + 1, n)
  <2>1. n = Len(s)
    BY DEF n
  <2>2. cut \in 0..Len(s) /\ n \in cut..Len(s)
    BY <1>1, <1>3, <2>1
  <2>3. /\ r \in Seq(Int) /\ Ascending(r) /\ Len(r) = n - cut
        /\ \A i \in 1..n - cut : r[i] = s[cut + i]
        /\ Elements(r) = {s[i] : i \in cut + 1..n}
    BY <2>2, SubSeqAscending
  <2>4. ser.head = r
    BY <1>4
  <2> HIDE DEF r, ser
  <2> QED
    BY <2>3, <2>4
<1>6. ASSUME NEW c \in 1..full
      PROVE  /\ piece(c) \in Seq(Int) /\ Ascending(piece(c))
             /\ Len(piece(c)) = M
             /\ \A i \in 1..M : piece(c)[i] = s[lo(c) + i]
             /\ Elements(piece(c)) = {s[i] : i \in lo(c) + 1..hi(c)}
  <2> DEFINE a == lo(c)
             b == hi(c)
             r == SubSeq(s, a + 1, b)
  <2>0. /\ n = Len(s) /\ a \in 0..n /\ b = a + M /\ b \in 0..cut
    BY <1>3 DEF n
  <2>1. a \in 0..Len(s) /\ b \in a..Len(s) /\ b - a = M
    <3> HIDE DEF a, b
    <3> QED
      BY <1>1, <1>2, <1>3, <2>0
  <2>2. piece(c) = r
    BY DEF lo, hi, M
  <2> HIDE DEF a, b, piece
  <2>3. /\ r \in Seq(Int) /\ Ascending(r)
        /\ Len(r) = b - a
        /\ \A i \in 1..b - a : r[i] = s[a + i]
        /\ Elements(r) = {s[i] : i \in a + 1..b}
    BY <2>1, SubSeqAscending
  <2> HIDE DEF r
  <2> QED
    BY <2>1, <2>2, <2>3 DEF a, b
<1> HIDE DEF ser, piece
<1>7. ASSUME NEW c \in 1..full
      PROVE  /\ ser.chunks[c] \in Chunk
             /\ ser.chunks[c].samples = piece(c)
             /\ ser.chunks[c].first_t = s[lo(c) + 1]
             /\ ser.chunks[c].last_t = s[hi(c)]
             /\ WellFormedChunk(ser.chunks[c])
             /\ lo(c) + 1 \in 1..n /\ hi(c) \in 1..n /\ hi(c) <= cut
  <2>1. ser.chunks[c] = Encode(piece(c))
    BY <1>4
  <2> DEFINE p == piece(c)
  <2>2. /\ p \in Seq(Int) /\ Ascending(p) /\ Len(p) = M
        /\ \A i \in 1..M : p[i] = s[lo(c) + i]
    BY <1>6
  <2>3. /\ 1 \in 1..M /\ M \in 1..M
        /\ lo(c) + 1 \in 1..n /\ hi(c) \in 1..n /\ hi(c) <= cut
        /\ lo(c) + M = hi(c)
    <3> DEFINE a == lo(c)
               b == hi(c)
    <3>1. a \in 0..n /\ b = a + M /\ b \in 0..cut
      BY <1>3
    <3> HIDE DEF a, b
    <3>2. /\ 1 \in 1..M /\ M \in 1..M
          /\ a + 1 \in 1..n /\ b \in 1..n /\ b <= cut /\ a + M = b
      BY <1>1, <1>2, <1>3, <3>1
    <3> QED
      BY <3>2 DEF a, b
  <2>4. p[1] = s[lo(c) + 1] /\ LastOf(p) = s[hi(c)]
    BY <2>2, <2>3 DEF LastOf
  <2>5. p # <<>>
    BY <1>2, <2>2, EmptySeq
  <2>6. p[1] \in Int /\ LastOf(p) \in Int
    BY <1>1, <2>3, <2>4
  <2> HIDE DEF p
  <2>7. /\ Encode(p) \in Chunk /\ Encode(p).samples = p
        /\ Encode(p).first_t = p[1] /\ Encode(p).last_t = LastOf(p)
    BY <2>2, <2>6 DEF Encode, Chunk
  <2>8. WellFormedChunk(Encode(p))
    BY <2>2, <2>5, <2>7 DEF WellFormedChunk
  <2> QED
    BY <2>1, <2>3, <2>4, <2>7, <2>8 DEF p
<1>8. ser.chunks \in Seq(Chunk) /\ Len(ser.chunks) = full
  <2> DEFINE e == [c \in 1..full |-> Encode(piece(c))]
  <2>1. \A c \in 1..full : e[c] \in Chunk
    BY <1>4, <1>7
  <2>2. e \in [1..full -> Chunk]
    BY <2>1
  <2>3. ser.chunks = e
    BY <1>4
  <2> HIDE DEF e
  <2>4. e \in Seq(Chunk) /\ Len(e) = full
    BY <1>3, <2>2
  <2> QED
    BY <2>3, <2>4
<1>9. ser \in Series
  BY <1>4, <1>5, <1>8 DEF Series
<1>10. WellFormedSeries(ser)
  <2>1. ASSUME NEW c \in 1..full, NEW d \in 1..full, c < d
        PROVE  ser.chunks[c].last_t < ser.chunks[d].first_t
    <3>1. /\ hi(c) \in 1..n /\ lo(d) + 1 \in 1..n /\ hi(c) <= lo(d)
          /\ lo(d) \in Int
      BY <1>3, <1>7, <2>1
    <3>2. hi(c) < lo(d) + 1
      BY <3>1
    <3>3. s[hi(c)] < s[lo(d) + 1]
      BY <3>1, <3>2 DEF Ascending, n
    <3> QED
      BY <1>7, <3>3
  <2>2. ASSUME NEW c \in 1..full, NEW i \in 1..Len(ser.head)
        PROVE  ser.chunks[c].last_t < ser.head[i]
    <3>1. /\ hi(c) \in 1..n /\ cut + i \in 1..n /\ hi(c) < cut + i
          /\ i \in 1..n - cut
      BY <1>1, <1>3, <1>5, <1>7
    <3>2. s[hi(c)] < s[cut + i]
      BY <3>1 DEF Ascending, n
    <3> QED
      BY <1>5, <1>7, <3>1, <3>2
  <2> QED
    BY <1>5, <1>7, <1>8, <2>1, <2>2 DEF WellFormedSeries
<1>11. Times(ser) = Elements(s)
  <2>1. ASSUME NEW x \in Times(ser) PROVE x \in Elements(s)
    <3>1. CASE \E i \in 1..Len(ser.head) : x = ser.head[i]
      <4>1. PICK i \in 1..n - cut : x = s[cut + i]
        BY <1>5, <3>1
      <4>2. cut + i \in 1..n
        BY <1>1, <1>3
      <4> QED
        BY <1>1, <4>1, <4>2
    <3>2. CASE \E c \in 1..Len(ser.chunks) :
                 \E i \in 1..Len(ser.chunks[c].samples) : x = ser.chunks[c].samples[i]
      <4>1. PICK c \in 1..full : \E i \in 1..M : x = piece(c)[i]
        BY <1>6, <1>7, <1>8, <3>2
      <4>2. PICK i \in 1..M : x = s[lo(c) + i]
        BY <1>6, <4>1
      <4>3. lo(c) + i \in 1..n
        <5> DEFINE a == lo(c)
                   b == hi(c)
        <5>1. a \in 0..n /\ b = a + M /\ b \in 0..cut
          BY <1>3
        <5> HIDE DEF a, b
        <5>2. a + i \in 1..n
          BY <1>1, <1>2, <1>3, <5>1
        <5> QED
          BY <5>2 DEF a
      <4> QED
        BY <1>1, <4>2, <4>3
    <3> QED
      BY <1>9, <3>1, <3>2, TimesInParts
  <2>2. ASSUME NEW i \in 1..n PROVE s[i] \in Times(ser)
    <3>1. CASE i \in cut + 1..n
      <4>1. s[i] \in Elements(ser.head)
        BY <1>5, <3>1
      <4> QED
        BY <1>9, <4>1, TimesInParts
    <3>2. CASE i \in 1..cut
      <4>1. PICK c \in 1..full : i \in lo(c) + 1..hi(c)
        BY <1>3, <3>2
      <4>2. s[i] \in Elements(piece(c))
        BY <1>6, <4>1
      <4>3. s[i] \in Elements(ser.chunks[c].samples) /\ c \in 1..Len(ser.chunks)
        BY <1>7, <1>8, <4>2
      <4> QED
        BY <1>9, <4>3, TimesInParts
    <3> QED
      BY <1>1, <1>3, <3>1, <3>2
  <2>3. ASSUME NEW x \in Elements(s) PROVE x \in Times(ser)
    <3>1. PICK i \in 1..n : x = s[i]
      BY <1>1
    <3> QED
      BY <2>2, <3>1
  <2> QED
    BY <2>1, <2>3
<1> QED
  BY <1>9, <1>10, <1>11 DEF ser

-----------------------------------------------------------------------------
\* What the store holds and what the file tells hang together: every series
\* of either is well formed, and those of a version 1 file have no chunks.
Kept(held) ==
  \A k \in DOMAIN held :
    held[k] \in Series /\ WellFormedSeries(held[k]) /\ ~IsEmpty(held[k])

FileSound(saved) ==
  saved # NoFile =>
    /\ saved.version \in {1, 2}
    /\ \A k \in DOMAIN saved.content :
         /\ saved.content[k] \in Series
         /\ WellFormedSeries(saved.content[k])
         /\ saved.version = 1 => saved.content[k].chunks = <<>>

RInv == Kept(series) /\ started \in Int /\ FileSound(file)

\* What the loader makes of one series of a file.
LEMMA ReadSeriesKeeps ==
  ASSUME NEW ser \in Series, WellFormedSeries(ser), NEW version \in {1, 2},
         version = 1 => ser.chunks = <<>>, NEW cutoff \in Int
  PROVE  LET read == ReadSeries(version, ser, cutoff)
         IN  /\ read \in Series /\ WellFormedSeries(read)
             /\ Times(read) \subseteq Times(ser)
             /\ \A t \in Times(ser) : t >= cutoff => t \in Times(read)
<1> DEFINE read == ReadSeries(version, ser, cutoff)
<1>1. PICK a \in 0..Len(ser.chunks), b \in 0..Len(ser.head) :
        /\ PruneSeries(ser, cutoff) = [chunks |-> DropFirst(ser.chunks, a),
                                       head   |-> DropFirst(ser.head, b)]
        /\ \A c \in 1..a : ser.chunks[c].last_t < cutoff
        /\ IsBoundary(ser.head, cutoff, b)
  BY PruneCuts
<1>2. /\ ser.head \in Seq(Int) /\ Len(ser.head) \in Nat /\ Ascending(ser.head)
      /\ \A i \in 1..Len(ser.head) : ser.head[i] \in Int
      /\ ser.chunks \in Seq(Chunk) /\ Len(ser.chunks) \in Nat
      /\ \A c \in 1..Len(ser.chunks) : ser.chunks[c].last_t \in Int
  BY SeriesParts DEF WellFormedSeries
<1> DEFINE rest == DropFirst(ser.head, b)
<1>3. /\ rest \in Seq(Int) /\ Ascending(rest)
      /\ Elements(rest) = {ser.head[i] : i \in b + 1..Len(ser.head)}
  <2>1. b \in 0..Len(ser.head) /\ Len(ser.head) \in b..Len(ser.head)
    BY <1>2
  <2>2. rest = SubSeq(ser.head, b + 1, Len(ser.head))
    BY DEF DropFirst
  <2> DEFINE h == ser.head
             n == Len(ser.head)
             r == SubSeq(h, b + 1, n)
  <2>3. h \in Seq(Int) /\ Ascending(h) /\ b \in 0..Len(h) /\ n \in b..Len(h)
    BY <1>2, <2>1
  <2> HIDE DEF h, n
  <2>4. /\ r \in Seq(Int) /\ Ascending(r) /\ Elements(r) = {h[i] : i \in b + 1..n}
    BY <2>3, SubSeqAscending
  <2> QED
    BY <2>2, <2>4 DEF h, n
<1> HIDE DEF rest
\* Of the head, what is in the window is in the rest.
<1>4. /\ Elements(rest) \subseteq Elements(ser.head)
      /\ \A i \in 1..Len(ser.head) :
           ser.head[i] >= cutoff => ser.head[i] \in Elements(rest)
  <2>1. \A i \in b + 1..Len(ser.head) : ser.head[i] \in Elements(ser.head)
    <3>1. \A i \in 1..Len(ser.head) : ser.head[i] \in Elements(ser.head)
      BY <1>2, ElementsOf
    <3>2. b + 1..Len(ser.head) \subseteq 1..Len(ser.head)
      BY <1>2
    <3> QED
      BY <3>1, <3>2
  <2>2. ASSUME NEW i \in 1..Len(ser.head), ser.head[i] >= cutoff
        PROVE  i \in b + 1..Len(ser.head)
    <3>1. i \notin 1..b
      BY <1>1, <1>2, <2>2 DEF IsBoundary
    <3> QED
      BY <1>2, <3>1
  <2> QED
    BY <1>3, <2>1, <2>2
<1>5. CASE version = 1
  <2>1. read = Pack(ReadRaw(ser.head, cutoff))
    BY <1>5 DEF ReadSeries
  <2>2. ReadRaw(ser.head, cutoff) = rest
    BY <1>1, <1>2, ReadRawIsDrop DEF rest
  <2>3. /\ Pack(rest) \in Series /\ WellFormedSeries(Pack(rest))
        /\ Times(Pack(rest)) = Elements(rest)
    BY <1>3, PackKeeps
  <2>4. Elements(ser.head) \subseteq Times(ser)
    BY TimesInParts
  <2>5. \A t \in Times(ser) : \E i \in 1..Len(ser.head) : t = ser.head[i]
    <3>1. Len(ser.chunks) = 0
      BY <1>5, EmptySeq
    <3> QED
      BY <3>1, TimesInParts
  <2>6. \A t \in Times(ser) : t >= cutoff => t \in Times(Pack(rest))
    BY <1>4, <2>3, <2>5
  <2>7. Times(Pack(rest)) \subseteq Times(ser)
    BY <1>4, <2>3, <2>4
  <2>8. read = Pack(rest)
    BY <2>1, <2>2
  <2> HIDE DEF read
  <2> QED
    BY <2>3, <2>6, <2>7, <2>8 DEF read
<1>6. CASE version = 2
  <2> DEFINE kept == DropFirst(ser.chunks, a)
  <2>1. read = [chunks |-> kept, head |-> rest]
    <3>1. read = PruneSeries(ser, cutoff)
      BY <1>6, ReadIsPrune
    <3> QED
      BY <1>1, <3>1 DEF rest
  <2>2. read \in Series /\ WellFormedSeries(read)
    <3> HIDE DEF read
    <3> QED
      BY <2>1, DropWellFormed DEF rest
  <2>3. /\ Len(kept) = Len(ser.chunks) - a
        /\ \A c \in 1..(Len(ser.chunks) - a) : kept[c] = ser.chunks[a + c]
    <3>1. ser.chunks \in Seq(Chunk) /\ a \in 0..Len(ser.chunks)
      BY <1>2
    <3> QED
      BY <3>1, DropFirstProperties
  <2>4. read.chunks = kept /\ read.head = rest
    BY <2>1
  <2> HIDE DEF read, kept
  <2>5. ASSUME NEW t \in Times(read) PROVE t \in Times(ser)
    <3>1. CASE \E i \in 1..Len(read.head) : t = read.head[i]
      <4>1. rest \in Seq(Int) /\ \E i \in 1..Len(rest) : t = rest[i]
        BY <1>3, <2>4, <3>1
      <4>2. t \in Elements(rest)
        BY <4>1, ElementsOf
      <4> QED
        BY <1>4, <4>2, TimesInParts
    <3>2. CASE \E c \in 1..Len(read.chunks) :
                 \E i \in 1..Len(read.chunks[c].samples) : t = read.chunks[c].samples[i]
      <4>1. PICK c \in 1..Len(kept) :
              \E i \in 1..Len(kept[c].samples) : t = kept[c].samples[i]
        BY <2>4, <3>2
      <4>2. a + c \in 1..Len(ser.chunks) /\ kept[c] = ser.chunks[a + c]
        BY <1>2, <2>3
      <4> DEFINE u == ser.chunks[a + c].samples
      <4>3. u \in Seq(Int) /\ \E i \in 1..Len(u) : t = u[i]
        BY <4>1, <4>2, SeriesParts
      <4> HIDE DEF u
      <4>4. t \in Elements(u)
        BY <4>3, ElementsOf
      <4> QED
        BY <4>2, <4>4, TimesInParts DEF u
    <3> QED
      BY <2>2, <3>1, <3>2, TimesInParts
  <2>6. ASSUME NEW t \in Times(ser), t >= cutoff PROVE t \in Times(read)
    <3>1. CASE \E i \in 1..Len(ser.head) : t = ser.head[i]
      <4>1. t \in Elements(rest)
        BY <1>4, <2>6, <3>1
      <4> QED
        BY <2>2, <2>4, <4>1, TimesInParts
    <3>2. CASE \E c \in 1..Len(ser.chunks) :
                 \E i \in 1..Len(ser.chunks[c].samples) : t = ser.chunks[c].samples[i]
      <4>1. PICK c \in 1..Len(ser.chunks) :
              \E i \in 1..Len(ser.chunks[c].samples) : t = ser.chunks[c].samples[i]
        BY <3>2
      <4> DEFINE u == ser.chunks[c].samples
      <4>2. t <= ser.chunks[c].last_t /\ t \in Int
        <5>1. PICK i \in 1..Len(ser.chunks[c].samples) : t = ser.chunks[c].samples[i]
          BY <4>1
        <5>2. t <= ser.chunks[c].last_t
          BY <5>1, ChunkHeader
        <5> QED
          BY <5>2, TimesInParts
      <4>3. c \notin 1..a
        BY <1>1, <1>2, <2>6, <4>2
      <4>4. c - a \in 1..Len(kept) /\ kept[c - a] = ser.chunks[c]
        <5>1. c - a \in 1..(Len(ser.chunks) - a) /\ a + (c - a) = c
          BY <1>2, <4>3
        <5> QED
          BY <2>3, <5>1
      <4>5. u \in Seq(Int) /\ \E i \in 1..Len(u) : t = u[i]
        BY <4>1, SeriesParts
      <4> HIDE DEF u
      <4>6. t \in Elements(u)
        BY <4>5, ElementsOf
      <4>7. t \in Elements(read.chunks[c - a].samples) /\ c - a \in 1..Len(read.chunks)
        BY <2>4, <4>4, <4>6 DEF u
      <4> QED
        BY <2>2, <4>7, TimesInParts
    <3> QED
      BY <3>1, <3>2, TimesInParts
  <2> QED
    BY <2>2, <2>5, <2>6 DEF read
<1> QED
  BY <1>5, <1>6

\* A sound file passes the checks of the loader (src/snapshot.rs:181 to 219)
\* at every reading of the clock: what has aged out leaves a gap at the old
\* end only.
LEMMA SoundIsTaken ==
  ASSUME NEW saved, saved # NoFile, FileSound(saved), NEW cutoff \in Int
  PROVE  ~Refused(saved, cutoff)
<1> SUFFICES ASSUME saved.version = 2, NEW k \in DOMAIN saved.content
             PROVE  LET ser  == saved.content[k]
                        read == ReadSeries(2, ser, cutoff)
                    IN  /\ \A c \in DOMAIN ser.chunks : WellFormedChunk(ser.chunks[c])
                        /\ read.chunks # <<>> /\ read.head # <<>> =>
                             LastOf(read.chunks).last_t < read.head[1]
  <2>1. ASSUME saved.version = 2, NEW k \in DOMAIN saved.content
        PROVE  LET read == ReadSeries(2, saved.content[k], cutoff)
               IN  read.chunks # <<>> /\ read.head # <<>> =>
                     LastOf(read.chunks).last_t \in Int /\ read.head[1] \in Int
    <3> DEFINE read == ReadSeries(2, saved.content[k], cutoff)
    <3>1. saved.content[k] \in Series /\ WellFormedSeries(saved.content[k])
      BY DEF FileSound
    <3>2. read \in Series
      BY <2>1, <3>1, ReadSeriesKeeps
    <3> HIDE DEF read
    <3>3. ASSUME read.chunks # <<>>, read.head # <<>>
          PROVE  LastOf(read.chunks).last_t \in Int /\ read.head[1] \in Int
      <4>1. Len(read.chunks) \in 1..Len(read.chunks) /\ 1 \in 1..Len(read.head)
        BY <3>2, <3>3, SeriesParts, EmptySeq
      <4> QED
        BY <3>2, <4>1, SeriesParts DEF LastOf
    <3> QED
      BY <3>3 DEF read
  <2> QED
    BY <2>1 DEF Refused
<1> DEFINE ser  == saved.content[k]
           read == ReadSeries(2, ser, cutoff)
<1>1. ser \in Series /\ WellFormedSeries(ser)
  BY DEF FileSound
<1>2. \A c \in DOMAIN ser.chunks : WellFormedChunk(ser.chunks[c])
  BY <1>1, SeriesParts DEF WellFormedSeries
<1>3. read \in Series /\ WellFormedSeries(read)
  <2> HIDE DEF ser
  <2> QED
    BY <1>1, ReadSeriesKeeps
<1> HIDE DEF read
<1>4. ASSUME read.chunks # <<>>, read.head # <<>>
      PROVE  LastOf(read.chunks).last_t < read.head[1]
  <2>1. Len(read.chunks) \in 1..Len(read.chunks) /\ 1 \in 1..Len(read.head)
    BY <1>3, <1>4, SeriesParts, EmptySeq
  <2> QED
    BY <1>3, <2>1 DEF WellFormedSeries, LastOf
<1> QED
  BY <1>2, <1>4 DEF read

\* What the loader makes of a sound file is what the store may hold.
LEMMA LoadSound ==
  ASSUME NEW saved, FileSound(saved), NEW cutoff \in Int
  PROVE  Kept(Load(saved, cutoff))
<1>1. CASE saved = NoFile
  BY <1>1 DEF Load, Kept
<1>2. CASE saved # NoFile
  <2> DEFINE read(k) == ReadSeries(saved.version, saved.content[k], cutoff)
             loaded == [k \in {x \in DOMAIN saved.content : ~IsEmpty(read(x))} |-> read(k)]
  <2>1. Load(saved, cutoff) = loaded
    <3>1. ~Refused(saved, cutoff)
      BY <1>2, SoundIsTaken
    <3> QED
      BY <1>2, <3>1 DEF Load
  <2>2. ASSUME NEW k \in DOMAIN saved.content
        PROVE  read(k) \in Series /\ WellFormedSeries(read(k))
    BY <1>2, ReadSeriesKeeps DEF FileSound
  <2> HIDE DEF read
  <2>3. Kept(loaded)
    BY <2>2 DEF Kept
  <2> QED
    BY <2>1, <2>3
<1> QED
  BY <1>1, <1>2

-----------------------------------------------------------------------------
LEMMA Initial == RInit => RInv
<1> SUFFICES ASSUME RInit PROVE RInv
  OBVIOUS
<1>1. Kept(series) /\ started \in Int
  BY StoreAssumption DEF RInit, Init, Kept
<1>2. ASSUME NEW h \in [Keys -> OldHistories] PROVE FileSound(OldFile(h))
  <2> DEFINE saved == OldFile(h)
             ser(k) == [chunks |-> <<>>, head |-> h[k]]
  <2>1. saved.version = 1 /\ DOMAIN saved.content = Keys
        /\ \A k \in Keys : saved.content[k] = ser(k)
    BY DEF OldFile
  <2>2. ASSUME NEW k \in Keys
        PROVE  /\ ser(k) \in Series /\ WellFormedSeries(ser(k))
               /\ ser(k).chunks = <<>>
    <3>1. h[k] \in Seq(Int) /\ Ascending(h[k])
      BY OldHistoriesAssumption
    <3>2. <<>> \in Seq(Chunk) /\ Len(<<>>) = 0
      BY EmptySeq
    <3>3. ser(k) \in Series /\ ser(k).chunks = <<>> /\ ser(k).head = h[k]
      BY <3>1, <3>2 DEF Series
    <3> HIDE DEF ser
    <3>4. 1..Len(ser(k).chunks) = {}
      BY <3>2, <3>3
    <3> QED
      BY <3>1, <3>3, <3>4 DEF WellFormedSeries
  <2> HIDE DEF saved, ser
  <2>3. FileSound(saved)
    BY <2>1, <2>2 DEF FileSound
  <2> QED
    BY <2>3 DEF saved
<1>3. FileSound(file)
  BY <1>2 DEF RInit, FileSound
<1> QED
  BY <1>1, <1>3 DEF RInv

LEMMA SavedSound == Kept(series) => FileSound(Saved)
BY DEF Kept, FileSound, Saved

\* An append to one series leaves every series well formed.
LEMMA AppendKeeps ==
  ASSUME RInv, NEW k \in Keys, AppendExisting(k) \/ AppendNew(k)
  PROVE  Kept(series')
<1>1. started \in Int /\ Kept(series)
  BY DEF RInv
<1>2. CASE AppendExisting(k)
  <2>1. k \in Live /\ series[k] \in Series /\ WellFormedSeries(series[k])
    BY <1>1, <1>2 DEF AppendExisting, Kept, Live
  <2>2. CASE ~Accepts(series[k], started)
    BY <1>1, <1>2, <2>2 DEF AppendExisting, Kept
  <2>3. CASE Accepts(series[k], started)
    <3> DEFINE r == Push(series[k], started)
    <3>1. r \in Series /\ WellFormedSeries(r) /\ ~IsEmpty(r)
      BY <1>1, <2>1, <2>3, PushWellFormed
    <3>2. series' = [series EXCEPT ![k] = r]
      BY <1>2, <2>3 DEF AppendExisting
    <3> HIDE DEF r
    <3> QED
      BY <1>1, <3>1, <3>2 DEF Kept
  <2> QED
    BY <2>2, <2>3
<1>3. CASE AppendNew(k)
  <2> DEFINE r == Push(EmptySeries, started)
  <2>1. EmptySeries \in Series /\ IsEmpty(EmptySeries)
    BY EmptySeq DEF EmptySeries, Series, IsEmpty
  <2>2. WellFormedSeries(EmptySeries)
    <3>1. Len(EmptySeries.chunks) = 0 /\ Len(EmptySeries.head) = 0
      BY EmptySeq DEF EmptySeries
    <3> QED
      BY <3>1 DEF WellFormedSeries, Ascending
  <2>3. r \in Series /\ WellFormedSeries(r) /\ ~IsEmpty(r)
    BY <1>1, <2>1, <2>2, PushWellFormed DEF Accepts
  <2>4. series' = [x \in Live \cup {k} |-> IF x = k THEN r ELSE series[x]]
    BY <1>3 DEF AppendNew
  <2> HIDE DEF r
  <2> QED
    BY <1>1, <2>3, <2>4 DEF Kept, Live
<1> QED
  BY <1>2, <1>3

\* Pruning leaves every series that it leaves well formed.
LEMMA PruningKeeps ==
  ASSUME RInv, EndPass
  PROVE  Kept(series')
<1> DEFINE cutoff  == started - Retention
           left(k) == PruneSeries(series[k], cutoff)
<1>1. cutoff \in Int
  BY SeriesAssumption DEF RInv
<1>2. ASSUME NEW k \in Live PROVE left(k) \in Series /\ WellFormedSeries(left(k))
  <2>1. series[k] \in Series /\ WellFormedSeries(series[k])
    BY DEF RInv, Kept, Live
  <2> DEFINE ser == series[k]
  <2> HIDE DEF cutoff, ser
  <2>2. PICK a \in 0..Len(ser.chunks), b \in 0..Len(ser.head) :
          PruneSeries(ser, cutoff) = [chunks |-> DropFirst(ser.chunks, a),
                                      head   |-> DropFirst(ser.head, b)]
    BY <1>1, <2>1, PruneCuts DEF ser
  <2>3. PruneSeries(ser, cutoff) \in Series /\ WellFormedSeries(PruneSeries(ser, cutoff))
    BY <2>1, <2>2, DropWellFormed DEF ser
  <2> QED
    BY <2>3 DEF ser
<1>3. series' = [k \in Live \ {x \in Live : IsEmpty(left(x))} |-> left(k)]
  BY DEF EndPass
<1> HIDE DEF left
<1> QED
  BY <1>2, <1>3 DEF Kept

LEMMA Step == RInv /\ [RNext]_rvars => RInv'
<1> SUFFICES ASSUME RInv, [RNext]_rvars PROVE RInv'
  OBVIOUS
<1>0. Kept(series) /\ started \in Int /\ FileSound(file)
  BY DEF RInv
<1>1. ASSUME NEW t \in 0..MaxTime, BeginPass(t), UNCHANGED file PROVE RInv'
  <2>1. t \in Int
    BY StoreAssumption
  <2> QED
    BY <1>0, <1>1, <2>1 DEF BeginPass, RInv, Kept, FileSound
<1>2. ASSUME NEW k \in Keys, AppendExisting(k) \/ AppendNew(k), UNCHANGED file
      PROVE  RInv'
  <2>1. Kept(series')
    BY <1>2, AppendKeeps
  <2>2. started' = started
    BY <1>2 DEF AppendExisting, AppendNew
  <2> QED
    BY <1>0, <1>2, <2>1, <2>2 DEF RInv, Kept, FileSound
<1>3. ASSUME EndPass, UNCHANGED file PROVE RInv'
  <2>1. Kept(series')
    BY <1>3, PruningKeeps
  <2>2. started' = started
    BY <1>3 DEF EndPass
  <2> QED
    BY <1>0, <1>3, <2>1, <2>2 DEF RInv, Kept, FileSound
<1>4. CASE Save
  <2>1. FileSound(Saved)
    BY <1>0, SavedSound
  <2>2. file' = Saved /\ series' = series /\ started' = started
    BY <1>4 DEF Save, vars
  <2> QED
    BY <1>0, <2>1, <2>2 DEF RInv, Kept, FileSound
<1>5. ASSUME NEW now \in 0..MaxTime, NEW saved, FileSound(saved), StartFrom(saved, now),
             file' = saved
      PROVE  RInv'
  <2>1. now \in Int /\ now - Retention \in Int
    BY StoreAssumption, SeriesAssumption
  <2>2. Kept(Load(saved, now - Retention))
    BY <1>5, <2>1, LoadSound
  <2>3. series' = Load(saved, now - Retention) /\ started' = now
    BY <1>5 DEF StartFrom
  <2> HIDE DEF StartFrom
  <2> QED
    BY <1>5, <2>1, <2>2, <2>3 DEF RInv, Kept, FileSound
<1>6. ASSUME NEW now \in 0..MaxTime, KillAndRestart(now) PROVE RInv'
  BY <1>0, <1>5, <1>6 DEF KillAndRestart
<1>7. ASSUME NEW now \in 0..MaxTime, StopAndRestart(now) PROVE RInv'
  BY <1>0, <1>5, <1>7, SavedSound DEF StopAndRestart
<1>8. CASE UNCHANGED rvars
  BY <1>0, <1>8 DEF rvars, vars, RInv, Kept, FileSound
<1> QED
  BY <1>1, <1>2, <1>3, <1>4, <1>6, <1>7, <1>8 DEF RNext, Next

\* Whatever passes, kills, stops and clocks the store has been through, it and
\* the file hold well-formed series.
THEOREM RestoredInvariance == RSpec => []RInv
BY Initial, Step, PTL DEF RSpec

\* The searches of the queries can rely on the order of every series (src/store.rs,
\* struct Series), also of those that a snapshot brought back.
THEOREM RestoredSeriesWellFormed == RSpec => []SeriesWellFormed
<1>1. RInv => SeriesWellFormed
  BY DEF RInv, Kept, SeriesWellFormed, Live
<1> QED
  BY <1>1, RestoredInvariance, PTL

\* load (src/snapshot.rs:127) never refuses what save has written of the
\* store, whenever it is read: no restart costs the history.
THEOREM OwnSnapshotAlwaysLoads == RSpec => []OwnSnapshotLoads
<1>1. RInv => OwnSnapshotLoads
  <2> SUFFICES ASSUME RInv, file # NoFile, NEW now \in 0..MaxTime
               PROVE  ~Refused(file, now - Retention)
    BY DEF OwnSnapshotLoads
  <2>1. now - Retention \in Int
    BY StoreAssumption, SeriesAssumption
  <2> QED
    BY <2>1, SoundIsTaken DEF RInv
<1> QED
  BY <1>1, RestoredInvariance, PTL

\* A store that was saved and loaded (src/snapshot.rs:205) is the one that
\* Store::prune would have left at that time.
THEOREM LoadAlwaysMatchesPrune == RSpec => []LoadMatchesPrune
<1>1. RInv => LoadMatchesPrune
  <2> SUFFICES ASSUME RInv, file # NoFile, file.version = 2, NEW now \in 0..MaxTime
               PROVE  LET cutoff == now - Retention
                          left(k) == PruneSeries(file.content[k], cutoff)
                      IN  Load(file, cutoff) =
                            [k \in {x \in DOMAIN file.content : ~IsEmpty(left(x))}
                               |-> left(k)]
    BY DEF LoadMatchesPrune
  <2> DEFINE cutoff  == now - Retention
             left(k) == PruneSeries(file.content[k], cutoff)
             read(k) == ReadSeries(2, file.content[k], cutoff)
  <2>1. cutoff \in Int
    BY StoreAssumption, SeriesAssumption
  <2>2. FileSound(file)
    BY DEF RInv
  <2>3. \A k \in DOMAIN file.content : read(k) = left(k)
    <3> HIDE DEF cutoff
    <3> QED
      BY <2>1, <2>2, ReadIsPrune DEF FileSound
  <2>4. Load(file, cutoff) =
          [k \in {x \in DOMAIN file.content : ~IsEmpty(read(x))} |-> read(k)]
    <3>1. ~Refused(file, cutoff)
      <4> HIDE DEF cutoff
      <4> QED
        BY <2>1, <2>2, SoundIsTaken
    <3> QED
      BY <3>1 DEF Load
  <2> HIDE DEF left, read, cutoff
  <2>5. [k \in {x \in DOMAIN file.content : ~IsEmpty(read(x))} |-> read(k)] =
          [k \in {x \in DOMAIN file.content : ~IsEmpty(left(x))} |-> left(k)]
    BY <2>3
  <2>6. Load(file, cutoff) =
          [k \in {x \in DOMAIN file.content : ~IsEmpty(left(x))} |-> left(k)]
    BY <2>4, <2>5
  <2> QED
    BY <2>6 DEF left, cutoff
<1> QED
  BY <1>1, RestoredInvariance, PTL

\* A series of which nothing is left holds no samples.
LEMMA EmptyHoldsNothing ==
  ASSUME NEW ser \in Series, IsEmpty(ser)
  PROVE  Times(ser) = {}
<1>1. Len(ser.chunks) = 0 /\ Len(ser.head) = 0
  BY EmptySeq DEF IsEmpty
<1> QED
  BY <1>1, TimesInParts

\* A restart brings back every sample of the file that is in the window, and
\* no other, from either layout.
THEOREM LoadAlwaysKeepsWindow == RSpec => []LoadKeepsWindow
<1>1. RInv => LoadKeepsWindow
  <2> DEFINE Before(k) == IF k \in DOMAIN file.content THEN Times(file.content[k]) ELSE {}
             After(k, cutoff) == IF k \in DOMAIN Load(file, cutoff)
                                 THEN Times(Load(file, cutoff)[k]) ELSE {}
  <2> SUFFICES ASSUME RInv, file # NoFile, NEW now \in 0..MaxTime, NEW k \in Keys
               PROVE  /\ After(k, now - Retention) \subseteq Before(k)
                      /\ \A t \in Before(k) :
                           t >= now - Retention => t \in After(k, now - Retention)
    BY DEF LoadKeepsWindow
  <2> DEFINE cutoff  == now - Retention
             read(x) == ReadSeries(file.version, file.content[x], cutoff)
  <2>1. cutoff \in Int
    BY StoreAssumption, SeriesAssumption
  <2>2. FileSound(file)
    BY DEF RInv
  <2> HIDE DEF cutoff
  <2>3. Load(file, cutoff) =
          [x \in {y \in DOMAIN file.content : ~IsEmpty(read(y))} |-> read(x)]
    <3>1. ~Refused(file, cutoff)
      BY <2>1, <2>2, SoundIsTaken
    <3> QED
      BY <3>1 DEF Load
  <2>4. CASE k \in DOMAIN file.content
    <3>1. /\ read(k) \in Series
          /\ Times(read(k)) \subseteq Times(file.content[k])
          /\ \A t \in Times(file.content[k]) : t >= cutoff => t \in Times(read(k))
      BY <2>1, <2>2, <2>4, ReadSeriesKeeps DEF FileSound
    <3> HIDE DEF read
    <3>2. After(k, cutoff) = Times(read(k))
      <4>1. CASE IsEmpty(read(k))
        <5>1. k \notin DOMAIN Load(file, cutoff)
          BY <2>3, <4>1
        <5> QED
          BY <3>1, <4>1, <5>1, EmptyHoldsNothing
      <4>2. CASE ~IsEmpty(read(k))
        <5>1. k \in DOMAIN Load(file, cutoff) /\ Load(file, cutoff)[k] = read(k)
          BY <2>3, <2>4, <4>2
        <5> QED
          BY <5>1
      <4> QED
        BY <4>1, <4>2
    <3>3. Before(k) = Times(file.content[k])
      BY <2>4
    <3> HIDE DEF After, Before
    <3>4. /\ After(k, cutoff) \subseteq Before(k)
          /\ \A t \in Before(k) : t >= cutoff => t \in After(k, cutoff)
      BY <3>1, <3>2, <3>3
    <3> QED
      BY <3>4 DEF cutoff
  <2>5. CASE k \notin DOMAIN file.content
    <3>1. k \notin DOMAIN Load(file, cutoff)
      BY <2>3, <2>5
    <3> QED
      BY <2>5, <3>1 DEF cutoff
  <2> QED
    BY <2>4, <2>5
<1> QED
  BY <1>1, RestoredInvariance, PTL

=============================================================================
