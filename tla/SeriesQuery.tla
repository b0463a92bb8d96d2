----------------------------- MODULE SeriesQuery -----------------------------
(***************************************************************************)
(* The two reads of a series (src/store.rs): `value_at`, the instant       *)
(* vector rule, and `range_at`, the samples of a window.  The query        *)
(* engine (src/promql/eval.rs) reads a series through nothing else.  Both  *)
(* search the head and the chunks' headers by binary search, and so are    *)
(* right only as long as the series is well formed.                        *)
(***************************************************************************)
EXTENDS SampleStore, FiniteSetsExt

\* An Option is a set of at most one sample.
NoSample == {}

\* The newest of the n first samples, if it is no staler than lookback.
Newest(samples, n, t, lookback) ==
  IF n > 0 /\ t - samples[n] <= lookback THEN {samples[n]} ELSE NoSample

\* Variants with a bug, for mutation runs: the head is not searched past its
\* oldest sample; the first chunk that starts at or before t is taken.
ValueAtHeadFirst(ser, t, lookback) ==
  IF ser.head # <<>>
  THEN Newest(ser.head, Boundary(ser.head, t + 1), t, lookback)
  ELSE LET c == Boundary([i \in DOMAIN ser.chunks |-> ser.chunks[i].first_t],
                         t + 1)
           samples == ser.chunks[c].samples
       IN  IF c = 0 THEN NoSample
           ELSE Newest(samples, Boundary(samples, t + 1), t, lookback)

\* Series::value_at: the head if it has a sample at or before t, else the
\* last chunk that starts at or before t.
ValueAt(ser, t, lookback) ==
  LET inHead == Boundary(ser.head, t + 1)
      starts == {c \in DOMAIN ser.chunks : ser.chunks[c].first_t <= t}
      inChunk(c) ==
        Newest(ser.chunks[c].samples,
               Boundary(ser.chunks[c].samples, t + 1), t, lookback)
  IN  IF inHead > 0 THEN Newest(ser.head, inHead, t, lookback)
      ELSE IF starts # {} THEN inChunk(Max(starts))
      ELSE NoSample

\* A variant with a bug, for mutation runs: a chunk that starts at the end of
\* the window is skipped, although the window is closed there.
DecodedBeforeEnd(chunks, start, t) ==
  LET out[c \in 0..Len(chunks)] ==
        IF c = 0 THEN <<>>
        ELSE IF chunks[c].last_t <= start \/ chunks[c].first_t >= t THEN out[c - 1]
        ELSE out[c - 1] \o chunks[c].samples
  IN  out[Len(chunks)]

\* The samples of the chunks whose header does not show them outside the
\* window; the others are not decoded.
Decoded(chunks, start, t) ==
  LET out[c \in 0..Len(chunks)] ==
        IF c = 0 THEN <<>>
        ELSE IF chunks[c].last_t <= start \/ chunks[c].first_t > t THEN out[c - 1]
        ELSE out[c - 1] \o chunks[c].samples
  IN  out[Len(chunks)]

\* Series::range_at: the samples in (t - window, t].
RangeAt(ser, t, window) ==
  LET start == t - window
  IN  Retain(Decoded(ser.chunks, start, t), {x \in Int : x > start /\ x <= t})
        \o SubSeq(ser.head, Boundary(ser.head, start + 1) + 1,
                            Boundary(ser.head, t + 1))

-----------------------------------------------------------------------------
\* What the two reads are to return, of the timestamps alone.

ValueAtExact(ser, t, lookback) ==
  LET reach == {x \in Times(ser) : x <= t /\ t - x <= lookback}
  IN  ValueAt(ser, t, lookback) = IF reach = {} THEN NoSample ELSE {Max(reach)}

RangeAtExact(ser, t, window) ==
  LET answer == RangeAt(ser, t, window)
  IN  /\ Ascending(answer)
      /\ Elements(answer) = {x \in Times(ser) : x > t - window /\ x <= t}

\* Between passes, every instant query, at every time and for every lookback
\* up to the whole range of the clock, answers the newest sample within the
\* lookback and every range query exactly the samples of the window, in
\* order, wherever the seals and the clock's steps fall.
QueriesExact ==
  ~inPass => \A k \in Live : \A t \in -1..MaxTime + 1, w \in 1..MaxTime :
    ValueAtExact(series[k], t, w) /\ RangeAtExact(series[k], t, w)

=============================================================================
