----------------------------- MODULE SampleStore -----------------------------
(***************************************************************************)
(* The time series store (src/store.rs, `struct Store`) as the collector   *)
(* drives it (src/main.rs, `collector_loop`): a pass reads the clock once, *)
(* appends under that reading, in any order, samples for some of the       *)
(* series -- none at all when the API server is out -- and prunes under    *)
(* the same reading.  Between passes the store is what a query sees.       *)
(*                                                                         *)
(* The clock is the system's wall clock: from one pass to the next it may  *)
(* step back, stand still or jump ahead, at most MaxGap from the pass      *)
(* before.                                                                 *)
(***************************************************************************)
EXTENDS SeriesData

CONSTANTS
  Keys,      \* canonical keys: whole label sets
  Names,     \* values of the __name__ label
  NameOf,    \* the __name__ of a label set
  MaxTime,   \* bound: the clock reads 0..MaxTime
  MaxGap     \* bound: how far the clock is ahead of the latest pruning
             \* when the next pass starts

ASSUME StoreAssumption ==
  /\ NameOf \in [Keys -> Names]
  /\ MaxTime \in Nat
  /\ MaxGap \in Nat

VARIABLES
  series,   \* HashMap from a key to its series: a function on the live keys
  byName,   \* from a __name__ to its bucket of keys.  A bucket is a bag: how
            \* often each key is in the Vec, whose order nothing depends on
  started,  \* the clock reading of the current or the latest pass
  pruned,   \* the clock reading of the latest pruning
  inPass    \* is the collector between reading the clock and having pruned?

vars == <<series, byName, started, pruned, inPass>>

Live == DOMAIN series

TypeOK ==
  /\ series \in [Live -> Series]
  /\ Live \subseteq Keys
  /\ byName \in [DOMAIN byName -> [Keys -> Nat]]
  /\ DOMAIN byName \subseteq Names
  /\ started \in Int
  /\ pruned \in Int
  /\ inPass \in BOOLEAN

-----------------------------------------------------------------------------
EmptyBucket == [k \in Keys |-> 0]

\* Store::new, at a clock reading `started`.
Init ==
  /\ series = [k \in {} |-> EmptySeries]
  /\ byName = [n \in {} |-> EmptyBucket]
  /\ started \in 0..MaxTime
  /\ pruned = started
  /\ inPass = FALSE

\* collector_loop: the write lock is taken and the clock has been read.
BeginPass(t) ==
  /\ ~inPass
  /\ t <= pruned + MaxGap
  /\ started' = t
  /\ inPass' = TRUE
  /\ UNCHANGED <<series, byName, pruned>>

Bucket(n) == IF n \in DOMAIN byName THEN byName[n] ELSE EmptyBucket

\* Store::index: the key goes into the bucket of its name.
Index(k) ==
  byName' = [n \in DOMAIN byName \cup {NameOf[k]} |->
               [Bucket(n) EXCEPT ![k] = IF n = NameOf[k] THEN @ + 1 ELSE @]]

\* Variants with a bug, for mutation runs: an emptied key stays in the index;
\* an emptied bucket does; an emptied key is taken from every bucket, whether
\* it is there or not.
UnindexNothing(emptied) == byName' = byName

UnindexKeepingBuckets(emptied) ==
  byName' = [n \in DOMAIN byName |->
               [k \in Keys |-> IF k \in emptied THEN 0 ELSE byName[n][k]]]

UnindexEverywhere(emptied) ==
  byName' = [n \in DOMAIN byName |->
               [k \in Keys |-> IF k \in emptied THEN byName[n][k] - 1
                                               ELSE byName[n][k]]]

\* The end of Store::prune: every emptied key leaves the bucket of its name,
\* and a bucket left without keys leaves the index.
Unindex(emptied) ==
  LET bucket == [n \in DOMAIN byName |->
                   [k \in Keys |-> IF k \in emptied /\ NameOf[k] = n
                                   THEN 0 ELSE byName[n][k]]]
      gone   == {n \in DOMAIN byName :
                   /\ \E k \in emptied : NameOf[k] = n
                   /\ bucket[n] = EmptyBucket}
  IN  byName' = [n \in DOMAIN byName \ gone |-> bucket[n]]

\* Store::append for a series the store has.
AppendExisting(k) ==
  /\ inPass
  /\ k \in Live
  /\ series' = IF Accepts(series[k], started)
               THEN [series EXCEPT ![k] = Push(@, started)]
               ELSE series
  /\ UNCHANGED <<byName, started, pruned, inPass>>

\* Store::append for a label set the store does not have.
AppendNew(k) ==
  /\ inPass
  /\ k \in Keys \ Live
  /\ series' = [x \in Live \cup {k} |->
                  IF x = k THEN Push(EmptySeries, started) ELSE series[x]]
  /\ Index(k)
  /\ UNCHANGED <<started, pruned, inPass>>

\* Store::prune at the reading the pass started with: every series is
\* trimmed and the emptied ones leave the map and the index.
EndPass ==
  LET cutoff  == started - Retention
      emptied == {k \in Live : IsEmpty(PruneSeries(series[k], cutoff))}
  IN  /\ inPass
      /\ series' = [k \in Live \ emptied |-> PruneSeries(series[k], cutoff)]
      /\ Unindex(emptied)
      /\ pruned' = started
      /\ inPass' = FALSE
      /\ UNCHANGED started

Next ==
  \/ \E t \in 0..MaxTime : BeginPass(t)
  \/ \E k \in Keys : AppendExisting(k)
  \/ \E k \in Keys : AppendNew(k)
  \/ EndPass

Spec == Init /\ [][Next]_vars

-----------------------------------------------------------------------------
\* Every series in the map holds samples, in the order the binary searches of
\* the queries and of the pruning rely on: `chunks` "ascending by time, all
\* older than `head`", and each chunk's header telling what is in it.
SeriesWellFormed ==
  \A k \in Live : ~IsEmpty(series[k]) /\ WellFormedSeries(series[k])

\* The index and the map agree: a query by name finds each live series of
\* that name exactly once, and no name outlives its last series, however
\* series come, age out and come back.
IndexConsistent ==
  /\ DOMAIN byName = {NameOf[k] : k \in Live}
  /\ \A n \in DOMAIN byName, k \in Keys :
       byName[n][k] = IF k \in Live /\ NameOf[k] = n THEN 1 ELSE 0

\* The raw part of a series stays below both thresholds of sealing, also
\* after pruning has taken its old end.
HeadsBelowCaps == \A k \in Live : HeadBelowCaps(series[k].head)

\* MAX_CHUNK_SPAN_FRACTION caps every chunk up to its newest sample, the one
\* whose arrival sealed it; only the gap before that one is uncapped.
ChunksSpanCapped ==
  \A k \in Live : \A c \in DOMAIN series[k].chunks :
    SpanCappedButForLast(series[k].chunks[c])

\* Once a pass has ended, a series is there only for a sample inside the
\* window: pods that come and go do not accumulate.
AgedOutSeriesGone ==
  ~inPass => \A k \in Live : LastT(series[k]) >= pruned - Retention

\* How far beyond the window a sample can be held: one window and one gap
\* between passes, when a chunk was sealed across a silence of the series.
RetentionCeiling ==
  ~inPass => \A k \in Live : \A t \in Times(series[k]) :
               t >= pruned - (2 * Retention + MaxGap)

\* The overhang as the comment on MAX_CHUNK_SPAN_FRACTION and the README have
\* it: no sample outlives the window by more than the capped span of a chunk
\* and the gap between two passes.
OverhangCapped ==
  ~inPass => \A k \in Live : \A t \in Times(series[k]) :
               t >= pruned - (Retention + SpanCap + MaxGap)

-----------------------------------------------------------------------------
\* The store keeps the promise of SeriesLog: whatever chunks and heads a
\* series is kept in, its timestamps grow at the new end, go from the old end
\* and only once they are out of the window.
Held == [k \in Keys |-> IF k \in Live THEN Times(series[k]) ELSE {}]

Contract == INSTANCE SeriesLog WITH log <- Held

ImplementsLog == Contract!Spec

=============================================================================
