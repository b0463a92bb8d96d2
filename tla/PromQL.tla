------------------------------- MODULE PromQL -------------------------------
(***************************************************************************)
(* The syntax tree of a query, what a matcher matches                      *)
(* (src/promql/mod.rs) and how a list of them becomes a selector.          *)
(*                                                                         *)
(* A label set is a function from label names to values; an absent label   *)
(* reads as the empty string.  A regular expression is known by the label  *)
(* values it matches whole, since the parser anchors it at both ends.      *)
(***************************************************************************)
EXTENDS Integers, Sequences

CONSTANTS
  NameLabel,   \* NAME_LABEL: "__name__"
  Language     \* from a text that is a regular expression to what it matches

\* None and Some of the code, as sets.
None == {}
Some(x) == {x}

\* A variant with a bug, for mutation runs: a negated pattern does as the plain
\* one.
MatchesUnnegated(matcher, value) ==
  \/ matcher.op = "=" /\ value = matcher.value
  \/ matcher.op = "!=" /\ value # matcher.value
  \/ matcher.op \in {"=~", "!~"} /\ value \in Language[matcher.value]

\* Matcher::matches
Matches(matcher, value) ==
  \/ matcher.op = "=" /\ value = matcher.value
  \/ matcher.op = "!=" /\ value # matcher.value
  \/ matcher.op = "=~" /\ value \in Language[matcher.value]
  \/ matcher.op = "!~" /\ value \notin Language[matcher.value]

Matcher(label, op, value) == [label |-> label, op |-> op, value |-> value]

\* The name of a selector is an Option.
Selector(name, matchers) == [name |-> name, matchers |-> matchers]

\* Does the matcher say what the metric is?
NamesMetric(matcher) == matcher.label = NameLabel /\ matcher.op = "="

\* A variant with a bug, for mutation runs: a pattern on the name is taken for
\* the name.
SelectorFromPattern(name, matchers) ==
  LET taken[i \in 0..Len(matchers)] ==
        IF i = 0 THEN Selector(name, <<>>)
        ELSE IF matchers[i].label = NameLabel /\ matchers[i].op \in {"=", "=~"}
        THEN [taken[i - 1] EXCEPT !.name = Some(matchers[i].value)]
        ELSE [taken[i - 1] EXCEPT !.matchers = Append(@, matchers[i])]
  IN  taken[Len(matchers)]

\* selector_from (src/promql/parser.rs): what names the metric becomes the
\* name of the selector, the last one for good; the rest is kept.
SelectorFrom(name, matchers) ==
  LET taken[i \in 0..Len(matchers)] ==
        IF i = 0 THEN Selector(name, <<>>)
        ELSE IF NamesMetric(matchers[i])
        THEN [taken[i - 1] EXCEPT !.name = Some(matchers[i].value)]
        ELSE [taken[i - 1] EXCEPT !.matchers = Append(@, matchers[i])]
  IN  taken[Len(matchers)]

\* Expr
NumberOf(n)          == [kind |-> "number", value |-> n]
SelectorOf(selector) == [kind |-> "selector", selector |-> selector]
RateOf(selector, w)  == [kind |-> "rate", selector |-> selector, window |-> w]
SumOf(expr, by)      == [kind |-> "sum", expr |-> expr, by |-> by]
BinaryOf(op, lhs, rhs) ==
  [kind |-> "binary", op |-> op, lhs |-> lhs, rhs |-> rhs]

=============================================================================
