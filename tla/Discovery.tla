----------------------------- MODULE Discovery ------------------------------
(***************************************************************************)
(* What /labels, /series and /label/../values (src/discovery.rs) answer    *)
(* from the store they have locked.  They change nothing.                  *)
(***************************************************************************)
EXTENDS PromSelect

\* Series::first_t
FirstT(ser) == IF ser.chunks # <<>> THEN ser.chunks[1].first_t ELSE ser.head[1]

\* A variant with a bug, for mutation runs: a series has to begin in the window.
InWindowFromStart(ser, start, end) ==
  ~IsEmpty(ser) /\ \A x \in start : FirstT(ser) >= x /\ \A y \in end : FirstT(ser) <= y

\* in_window
InWindow(ser, start, end) ==
  /\ ~IsEmpty(ser)
  /\ \A x \in start : LastT(ser) >= x
  /\ \A x \in end : FirstT(ser) <= x

\* matching: every series in the window that one of the selectors selects, or
\* every one when there is no selector.
Matching(selectors, start, end) ==
  {k \in IF selectors = {} THEN Live ELSE {c[1] : c \in UNION {Select(s) : s \in selectors}} :
     InWindow(series[k], start, end)}

\* The data of /labels and of /label/{name}/values.
LabelNames(selectors, start, end) ==
  UNION {DOMAIN LabelsOf[k] : k \in Matching(selectors, start, end)}

LabelValues(label, selectors, start, end) ==
  {LabelsOf[k][label] :
     k \in {x \in Matching(selectors, start, end) : label \in DOMAIN LabelsOf[x]}}

\* The data of /series, which refuses to answer without a selector.
SeriesOffered(selectors, start, end) ==
  IF selectors = {} THEN {} ELSE {LabelsOf[k] : k \in Matching(selectors, start, end)}

-----------------------------------------------------------------------------
\* Discovery offers every series of which a query could show a sample, with
\* its labels and their values.
SampledIsOffered ==
  ~inPass => \A ms \in Matchers, start \in 0..MaxTime : \A end \in start..MaxTime :
    LET selectors == {SelectorFrom(None, ms)}
        shown     == {c[1] : c \in UNION {Select(s) : s \in selectors}}
        sampled   == {k \in shown : \E x \in Times(series[k]) : start <= x /\ x <= end}
    IN  \A k \in sampled :
        /\ LabelsOf[k] \in SeriesOffered(selectors, Some(start), Some(end))
        /\ \A label \in DOMAIN LabelsOf[k] :
             /\ label \in LabelNames(selectors, Some(start), Some(end))
             /\ LabelsOf[k][label]
                  \in LabelValues(label, selectors, Some(start), Some(end))

=============================================================================
