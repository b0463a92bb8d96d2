----------------------------- MODULE PromGrammar -----------------------------
(***************************************************************************)
(* The grammar of src/promql/mod.rs as it is written down for people:      *)
(*                                                                         *)
(*   sum      ::= sum + product | sum - product | product                  *)
(*   product  ::= product * atom | product / atom | atom                   *)
(*   atom     ::= ( sum ) | number | selector | rate ( selector [ n u ] )  *)
(*              | sum [by] ( sum ) | sum ( sum ) by                        *)
(*   selector ::= name | name { matchers } | { matchers }                  *)
(*   by       ::= by ( labels )                                            *)
(*                                                                         *)
(* `Derivations` is the set of syntax trees that derive a run of tokens:   *)
(* it looks for the operator, the brackets or the word that splits the run *)
(* anywhere in it, and so has nothing of the order in which the parser     *)
(* reads.                                                                  *)
(***************************************************************************)
EXTENDS PromParser

Keywords == {"sum", "rate", "irate"}

\* Do the kinds from position i on repeat `pattern` up to position j?
Repeats(ts, i, j, pattern) ==
  \A k \in i..j : Kind(ts, k) \in pattern[((k - i) % Len(pattern)) + 1]

\* The matchers between the braces at i and j: none, or some between commas.
MatchersBetween(ts, i, j) ==
  LET count == (j - i) \div 4
      start(k) == i + 4 * (k - 1) + 1
  IN  IF /\ Kind(ts, i) = "{" /\ Kind(ts, j) = "}"
         /\ j = i + 1 \/ (j - i) % 4 = 0
         /\ Repeats(ts, i + 1, j - 1, <<{"Ident"}, MatchOps, {"String"}, {","}>>)
         /\ \A k \in 1..count :
              Kind(ts, start(k) + 1) \in {"=~", "!~"} =>
                Text(ts, start(k) + 2) \in DOMAIN Language
      THEN {[k \in 1..count |-> Matcher(Text(ts, start(k)), Kind(ts, start(k) + 1),
                                        Text(ts, start(k) + 2))]}
      ELSE {}

Selectors(ts, i, j) ==
  {SelectorFrom(None, ms) : ms \in MatchersBetween(ts, i, j)} \cup
  (IF Kind(ts, i) = "Ident"
   THEN {SelectorFrom(Some(Text(ts, i)), ms) :
           ms \in IF i = j THEN {<<>>} ELSE MatchersBetween(ts, i + 1, j)}
   ELSE {})

\* Windows between the brackets at j - 3 and j.
WindowBefore(ts, j) ==
  IF /\ Repeats(ts, j - 3, j, << {"["}, {"Number"}, {"Ident"}, {"]"} >>)
     /\ Text(ts, j - 1) \in DOMAIN Seconds
  THEN {Text(ts, j - 2) * Seconds[Text(ts, j - 1)]} ELSE {}

\* Clauses from i to j; a comma may stand before the bracket.
Clauses(ts, i, j) ==
  IF /\ IsWord(ts, i, "by") /\ Kind(ts, i + 1) = "(" /\ Kind(ts, j) = ")"
     /\ Repeats(ts, i + 2, j - 1, << {"Ident"}, {","} >>)
     /\ j > i + 1
  THEN {[k \in 1..(j - i - 1) \div 2 |-> Text(ts, i + 2 * k)]} ELSE {}

RECURSIVE Sums(_, _, _), Products(_, _, _), Atoms(_, _, _)

\* A sum in brackets.
Bracketed(ts, i, j) ==
  IF Kind(ts, i) = "(" /\ Kind(ts, j) = ")" /\ i < j THEN Sums(ts, i + 1, j - 1)
  ELSE {}

Atoms(ts, i, j) ==
  Bracketed(ts, i, j) \cup
  (IF i = j /\ Kind(ts, i) = "Number" THEN {NumberOf(Text(ts, i))} ELSE {}) \cup
  (IF Kind(ts, i) # "Ident" \/ Text(ts, i) \notin Keywords
   THEN {SelectorOf(s) : s \in Selectors(ts, i, j)} ELSE {}) \cup
  (IF /\ IsWord(ts, i, "rate") \/ IsWord(ts, i, "irate")
      /\ Kind(ts, i + 1) = "(" /\ Kind(ts, j) = ")"
   THEN {RateOf(s, w) : s \in Selectors(ts, i + 2, j - 5), w \in WindowBefore(ts, j - 1)}
   ELSE {}) \cup
  (IF IsWord(ts, i, "sum")
   THEN {SumOf(e, None) : e \in Bracketed(ts, i + 1, j)} \cup
        UNION {{SumOf(e, Some(by)) : e  \in Bracketed(ts, k + 1, j),
                                     by \in Clauses(ts, i + 1, k)} \cup
               {SumOf(e, Some(by)) : e  \in Bracketed(ts, i + 1, k),
                                     by \in Clauses(ts, k + 1, j)} : k \in i + 1..j}
   ELSE {})

\* What a splitting operator at k joins.
Joined(ts, k, left, right) ==
  {BinaryOf(Kind(ts, k), l, r) : l \in left, r \in right}

Products(ts, i, j) ==
  Atoms(ts, i, j) \cup
  UNION {Joined(ts, k, Products(ts, i, k - 1), Atoms(ts, k + 1, j)) :
           k \in {x \in i + 1..j - 1 : Kind(ts, x) \in {"*", "/"}}}

Sums(ts, i, j) ==
  Products(ts, i, j) \cup
  UNION {Joined(ts, k, Sums(ts, i, k - 1), Products(ts, k + 1, j)) :
           k \in {x \in i + 1..j - 1 : Kind(ts, x) \in {"+", "-"}}}

Derivations(ts) == Sums(ts, 1, Len(ts))

=============================================================================
