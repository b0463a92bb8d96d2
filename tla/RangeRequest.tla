---------------------------- MODULE RangeRequest ----------------------------
(***************************************************************************)
(* The instants a range query is evaluated at: the defaults and checks of  *)
(* src/api.rs, `range`, and the loop of src/promql/eval.rs, `query_range`. *)
(* Times are 64-bit integers; in the release build their sums and          *)
(* differences wrap.                                                       *)
(***************************************************************************)
EXTENDS Integers

CONSTANTS
  Half,          \* 2^63: the words go from -Half to Half - 1
  MaxPoints,     \* MAX_POINTS: 11000
  DefaultSpan,   \* 3600, from start to end
  DefaultStep    \* 60

ASSUME RequestAssumption ==
  /\ Half \in Nat \ {0}
  /\ MaxPoints \in Nat /\ DefaultSpan \in Nat
  /\ DefaultStep \in Nat \ {0}

Word == -Half..Half - 1

Wrapped(n) == ((n + Half) % (2 * Half)) - Half

\* Integer division of the code, which rounds towards zero.
Quotient(a, b) == IF a >= 0 THEN a \div b ELSE -((-a) \div b)

\* A parameter is what parse_time makes of it: a word, or nothing.
OrElse(param, default) == IF param = {} THEN default ELSE CHOOSE x \in param : TRUE

EndOf(asked, now)   == OrElse(asked.end, now)
StartOf(asked, now) == OrElse(asked.start, Wrapped(EndOf(asked, now) - DefaultSpan))
StepOf(asked) == LET step == OrElse(asked.step, DefaultStep)
                 IN  IF step < 1 THEN 1 ELSE step

\* Neither of the two refusals.
Admitted(start, end, step) ==
  start <= end /\ Quotient(Wrapped(end - start), step) <= MaxPoints

\* The time the loop is at after n rounds.
Round(start, step, n) == Wrapped(start + n * step)

\* The loop ends after `n` rounds.
EndsAfter(start, end, step, n) ==
  /\ \A i \in 0..n - 1 : Round(start, step, i) <= end
  /\ Round(start, step, n) > end

\* The instants of a loop that ends before it wraps.
Instants(start, end, step) ==
  {Round(start, step, n) : n \in 0..(end - start) \div step}

=============================================================================
