----------------------------- MODULE PromSelect -----------------------------
(***************************************************************************)
(* The store as queries find it: its samples now have readings, whatever a *)
(* kubelet said at the time, a counter that was reset included; and a      *)
(* selector picks series by their labels (src/promql/eval.rs, `select`).   *)
(***************************************************************************)
EXTENDS SeriesQuery, PromQL, Functions, TLC

CONSTANTS
  LabelsOf,   \* the label set a key stands for
  Readings    \* bound: what a sample of a series may read at a time, if any

\* An absent label is the empty string.
LabelValue(labels, label) == IF label \in DOMAIN labels THEN labels[label] ELSE ""

\* The index takes the name of a series from its labels, and no two series
\* share a label set.
ASSUME LabelsAssumption ==
  /\ \A k \in Keys : /\ LabelsOf[k] \in [DOMAIN LabelsOf[k] -> STRING]
                     /\ LabelValue(LabelsOf[k], NameLabel) = NameOf[k]
  /\ \A k, l \in Keys : LabelsOf[k] = LabelsOf[l] => k = l

\* Metrics are counts of bytes, cores and restarts: whole numbers do.
ASSUME ReadingsAssumption ==
  \A k \in Keys, t \in 0..MaxTime : Readings[k][t] \subseteq Int

VARIABLE reading   \* the reading of each sample that is held

evars == <<vars, reading>>

\* The samples go with their readings, into the store and out of it.
EInit == Init /\ reading = [k \in Keys |-> <<>>]

Collect(k, v) ==
  /\ AppendExisting(k) \/ AppendNew(k)
  /\ reading' = IF series' = series THEN reading
                ELSE [reading EXCEPT ![k] =
                        [x \in Held'[k] |-> IF x = started THEN v ELSE @[x]]]

EPrune ==
  /\ EndPass
  /\ reading' = [k \in Keys |-> Restrict(reading[k], Held'[k])]

ENext ==
  \/ \E t \in 0..MaxTime : BeginPass(t) /\ UNCHANGED reading
  \/ \E k \in Keys : \E v \in Readings[k][started] : Collect(k, v)
  \/ EPrune

ESpec == EInit /\ [][ENext]_evars

-----------------------------------------------------------------------------
\* Store::candidates: one bucket of the index, as often as a key is in it, or
\* every series.
Candidates(name) ==
  IF name = None THEN Live \X {1}
  ELSE UNION {{k} \X (1..Bucket(n)[k]) : k \in Live, n \in name}

\* select
Select(selector) ==
  {c \in Candidates(selector.name) :
     \A i \in DOMAIN selector.matchers :
       Matches(selector.matchers[i],
               LabelValue(LabelsOf[c[1]], selector.matchers[i].label))}

-----------------------------------------------------------------------------
\* The properties are about matchers of this set.  Queries see the store
\* between passes: the collector holds the lock throughout a pass.
CONSTANT Matchers   \* bound: lists of matchers

ASSUME MatchersAssumption ==
  \A ms \in Matchers : ms \in Seq([label : STRING, op : STRING, value : STRING])

\* Of several matchers that name the metric, the last one counts.
Overridden(ms, i) ==
  NamesMetric(ms[i]) /\ \E j \in DOMAIN ms : j > i /\ NamesMetric(ms[j])

\* A selector finds the live series with the labels it asks for, each of them
\* once, whether the name comes from the index or from the matchers.
SelectionByLabels ==
  ~inPass => \A ms \in Matchers :
    Select(SelectorFrom(None, ms)) =
      {k \in Live : \A i \in DOMAIN ms :
         \/ Overridden(ms, i)
         \/ Matches(ms[i], LabelValue(LabelsOf[k], ms[i].label))} \X {1}

=============================================================================
