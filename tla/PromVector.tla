---------------------------- MODULE PromVector -----------------------------
(***************************************************************************)
(* What a query reads of the store (src/promql/eval.rs): the samples that  *)
(* a selector finds at an instant, and the rates of those it finds in a    *)
(* window.  The rest of an evaluation is arithmetic on these.              *)
(*                                                                         *)
(* A vector is a set of entries, each with the series or the group it is   *)
(* from.  A float is a fraction in lowest terms, whose denominator is 0 in *)
(* infinities and in NaN; rounding and negative zero are left out.         *)
(***************************************************************************)
EXTENDS PromSelect

CONSTANT Lookback   \* LOOKBACK: 300

ASSUME EvalAssumption == Lookback \in Nat

-----------------------------------------------------------------------------
\* f64, as a fraction.

Sign(n) == IF n > 0 THEN 1 ELSE IF n < 0 THEN -1 ELSE 0

Float(n, d) ==
  LET divisors == {g \in 1..d : n % g = 0 /\ d % g = 0}
  IN  IF d = 0 THEN <<Sign(n), 0>> ELSE <<n \div Max(divisors), d \div Max(divisors)>>

-----------------------------------------------------------------------------
\* without_name
WithoutName(labels) == Restrict(labels, DOMAIN labels \ {NameLabel})

Entry(from, labels, value) == [from |-> from, labels |-> labels, value |-> value]

\* A variant with a bug, for mutation runs: what is left of a counter that was
\* reset is taken for a decrease.
IncreaseSigned(values) ==
  LET delta[i \in 0..Len(values)] ==
        IF i <= 1 THEN 0 ELSE delta[i - 1] + (values[i] - values[i - 1])
  IN  delta[Len(values)]

\* How much a counter grew from reading to reading; after a reset, from zero.
Increase(values) ==
  LET delta[i \in 0..Len(values)] ==
        IF i <= 1 THEN 0
        ELSE delta[i - 1] + (IF values[i] < values[i - 1] THEN values[i]
                             ELSE values[i] - values[i - 1])
  IN  delta[Len(values)]

\* Expr::Selector at t
Instant(selector, t) ==
  UNION {{Entry(c, WithoutName(LabelsOf[c[1]]), Float(reading[c[1]][x], 1)) :
            x \in ValueAt(series[c[1]], t, Lookback)} : c \in Select(selector)}

\* What rate makes of the samples of a window: nothing of less than two.
RateOver(k, times) ==
  IF Len(times) < 2 THEN None
  ELSE Some(Float(Increase([i \in DOMAIN times |-> reading[k][times[i]]]),
                  LastOf(times) - times[1]))

\* Expr::Rate at t
Rates(selector, window, t) ==
  UNION {{Entry(c, WithoutName(LabelsOf[c[1]]), r) :
            r \in RateOver(c[1], RangeAt(series[c[1]], t, window))} :
         c \in Select(selector)}

-----------------------------------------------------------------------------
\* "Counter-aware delta": a rate is what the counter grew by, a reset costing
\* nothing but what was counted before it, over the time between the first
\* and the last sample of the window; and there is one if there are two.
RateCorrected ==
  ~inPass => \A k \in Live, t \in 0..MaxTime, window \in 1..MaxTime + 1 :
    LET xs      == {x \in Times(series[k]) : x > t - window /\ x <= t}
        before(x) == Max({y \in xs : y < x})
        resets  == {x \in xs \ {Min(xs)} : reading[k][x] < reading[k][before(x)]}
        grown   == reading[k][Max(xs)] - reading[k][Min(xs)]
                     + MapThenSumSet(LAMBDA x : reading[k][before(x)], resets)
    IN  RateOver(k, RangeAt(series[k], t, window)) =
          IF Cardinality(xs) < 2 THEN None
          ELSE Some(Float(grown, Max(xs) - Min(xs)))

\* A handler reads the clock before it waits for the lock.  Whatever a pass
\* that reads a later clock does in the meantime, every selector and every
\* rate yields the same, as long as what it reaches back to is in the window
\* of that pass.
PastAnswersKept ==
  [][\A ms \in Matchers, now \in 0..MaxTime, window \in 1..Retention :
       LET selector == SelectorFrom(None, ms)
           cutoff   == started' - Retention
       IN  now < started' =>
             /\ now - Lookback >= cutoff =>
                  Instant(selector, now)' = Instant(selector, now)
             /\ now - window >= cutoff =>
                  Rates(selector, window, now)' = Rates(selector, window, now)
    ]_<<series, reading>>

=============================================================================
