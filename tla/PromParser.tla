----------------------------- MODULE PromParser -----------------------------
(***************************************************************************)
(* The recursive descent over the tokens of a query (src/promql/parser.rs, *)
(* `struct Parser`).                                                       *)
(*                                                                         *)
(* A token is a tuple of its kind and, for identifiers, strings and        *)
(* numbers, its text.  A parsing function yields a set: of the node and    *)
(* the position behind it or, where the code bails, of nothing.            *)
(***************************************************************************)
EXTENDS PromQL, SequencesExt

MatchOps == {"=", "!=", "=~", "!~"}

\* How tightly an operator binds.
Binding == [op \in {"+", "-", "*", "/"} |-> IF op \in {"+", "-"} THEN 1 ELSE 2]

\* Seconds in a unit of time.
Seconds == [s |-> 1, m |-> 60, h |-> 3600, d |-> 86400]

Parsed(node, pos) == {[node |-> node, pos |-> pos]}

\* The operator ? of the code: go on from what was parsed, if it was.
Then(results, Continue(_)) == UNION {Continue(r) : r \in results}

\* Parser::peek
Kind(ts, p) == IF p \in DOMAIN ts THEN ts[p][1] ELSE "end"
Text(ts, p) == ts[p][2]
IsWord(ts, p, word) == Kind(ts, p) = "Ident" /\ Text(ts, p) = word

\* Parser::expect of what has been parsed so far.
Closed(ts, results, kind) ==
  {[node |-> r.node, pos |-> r.pos + 1] :
     r \in {x \in results : Kind(ts, x.pos) = kind}}

-----------------------------------------------------------------------------
\* One matcher.  A pattern is compiled here, and refused when it is none.
ParseMatcher(ts, p) ==
  IF /\ Kind(ts, p) = "Ident" /\ Kind(ts, p + 1) \in MatchOps
     /\ Kind(ts, p + 2) = "String"
     /\ Kind(ts, p + 1) \in {"=~", "!~"} => Text(ts, p + 2) \in DOMAIN Language
  THEN Parsed(Matcher(Text(ts, p), Kind(ts, p + 1), Text(ts, p + 2)), p + 3)
  ELSE None

RECURSIVE MoreMatchers(_, _, _)
MoreMatchers(ts, p, out) ==
  Then(ParseMatcher(ts, p), LAMBDA m :
    IF Kind(ts, m.pos) = ","
    THEN MoreMatchers(ts, m.pos + 1, Append(out, m.node))
    ELSE Closed(ts, Parsed(Append(out, m.node), m.pos), "}"))

\* parse_matchers, behind the opening brace.
ParseMatchers(ts, p) ==
  IF Kind(ts, p) = "}" THEN Parsed(<<>>, p + 1) ELSE MoreMatchers(ts, p, <<>>)

\* A name, matchers or both, as parse_atom and parse_rate take them.
ParseSelector(ts, p) ==
  LET name == IF Kind(ts, p) = "Ident" THEN Some(Text(ts, p)) ELSE None
      q    == IF name = None THEN p ELSE p + 1
  IN  Then(IF Kind(ts, q) = "{" THEN ParseMatchers(ts, q + 1)
           ELSE IF name # None THEN Parsed(<<>>, q) ELSE None,
           LAMBDA ms : Parsed(SelectorFrom(name, ms.node), ms.pos))

\* parse_window: the lexer splits `1m` into a number and an identifier.
ParseWindow(ts, p) ==
  IF /\ Kind(ts, p) = "[" /\ Kind(ts, p + 1) = "Number"
     /\ Kind(ts, p + 2) = "Ident" /\ Kind(ts, p + 3) = "]"
     /\ Text(ts, p + 2) \in DOMAIN Seconds
  THEN Parsed(Text(ts, p + 1) * Seconds[Text(ts, p + 2)], p + 4)
  ELSE None

\* parse_rate, behind the word.
ParseRate(ts, p) ==
  IF Kind(ts, p) # "(" THEN None
  ELSE Then(ParseSelector(ts, p + 1), LAMBDA sel :
       Then(ParseWindow(ts, sel.pos), LAMBDA window :
         Closed(ts, Parsed(RateOf(sel.node, window.node), window.pos), ")")))

RECURSIVE ByLabels(_, _, _)
ByLabels(ts, p, labels) ==
  IF Kind(ts, p) = ")" THEN Parsed(Some(labels), p + 1)
  ELSE IF Kind(ts, p) # "Ident" THEN None
  ELSE IF Kind(ts, p + 1) = ","
       THEN ByLabels(ts, p + 2, Append(labels, Text(ts, p)))
       ELSE Closed(ts, Parsed(Some(Append(labels, Text(ts, p))), p + 1), ")")

\* take_by
TakeBy(ts, p) ==
  IF ~IsWord(ts, p, "by") THEN Parsed(None, p)
  ELSE IF Kind(ts, p + 1) = "(" THEN ByLabels(ts, p + 2, <<>>)
  ELSE None

-----------------------------------------------------------------------------
RECURSIVE ParseExpr(_, _, _), Climb(_, _, _, _)

\* parse_sum, behind the word: the clause stands before or after the operand.
ParseSum(ts, p) ==
  Then(TakeBy(ts, p), LAMBDA leading :
    IF Kind(ts, leading.pos) # "(" THEN None
    ELSE Then(Closed(ts, ParseExpr(ts, leading.pos + 1, 0), ")"), LAMBDA inner :
         Then(IF leading.node # None THEN Parsed(leading.node, inner.pos)
              ELSE TakeBy(ts, inner.pos),
              LAMBDA by : Parsed(SumOf(inner.node, by.node), by.pos))))

\* parse_atom
ParseAtom(ts, p) ==
  CASE Kind(ts, p) = "(" -> Closed(ts, ParseExpr(ts, p + 1, 0), ")")
    [] Kind(ts, p) = "Number" -> Parsed(NumberOf(Text(ts, p)), p + 1)
    [] IsWord(ts, p, "sum") -> ParseSum(ts, p + 1)
    [] IsWord(ts, p, "rate") \/ IsWord(ts, p, "irate") -> ParseRate(ts, p + 1)
    [] OTHER -> Then(ParseSelector(ts, p), LAMBDA sel :
                  Parsed(SelectorOf(sel.node), sel.pos))

\* A variant with a bug, for mutation runs: the right operand may take
\* operators that bind as loosely.
ClimbToTheRight(ts, lhs, p, minBp) ==
  IF Kind(ts, p) \in DOMAIN Binding /\ Binding[Kind(ts, p)] >= minBp
  THEN Then(ParseExpr(ts, p + 1, Binding[Kind(ts, p)]), LAMBDA rhs :
         Climb(ts, BinaryOf(Kind(ts, p), lhs, rhs.node), rhs.pos, minBp))
  ELSE Parsed(lhs, p)

\* The loop of parse_expr: operators that bind at least as tightly as minBp
\* join what is on the left; their right operand takes tighter ones only.
Climb(ts, lhs, p, minBp) ==
  IF Kind(ts, p) \in DOMAIN Binding /\ Binding[Kind(ts, p)] >= minBp
  THEN Then(ParseExpr(ts, p + 1, Binding[Kind(ts, p)] + 1), LAMBDA rhs :
         Climb(ts, BinaryOf(Kind(ts, p), lhs, rhs.node), rhs.pos, minBp))
  ELSE Parsed(lhs, p)

\* parse_expr
ParseExpr(ts, p, minBp) ==
  Then(ParseAtom(ts, p), LAMBDA lhs : Climb(ts, lhs.node, lhs.pos, minBp))

\* parse: nothing may be left over.
Parse(ts) == {r.node : r \in {x \in ParseExpr(ts, 1, 0) : x.pos = Len(ts) + 1}}

=============================================================================
