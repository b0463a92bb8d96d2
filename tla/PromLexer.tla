------------------------------ MODULE PromLexer ------------------------------
(***************************************************************************)
(* The tokeniser of queries (src/promql/parser.rs, `lex`), character by    *)
(* character.  Its tokens have their text as the characters it consists    *)
(* of.                                                                     *)
(***************************************************************************)
EXTENDS Integers, SequencesExt

CONSTANTS Letters, Digits   \* characters

Blank     == {" ", "tab", "newline"}
Quotes    == {"'", "\""}
Backslash == "\\"

\* Characters that begin an identifier, that go on with one, that a number is
\* made of.
IdentStart == Letters \cup {"_", ":"}
IdentChars == IdentStart \cup Digits
NumberChars == Digits \cup {"."}

\* Tokens of two characters, and of one.
TwoChars == "=~" :> <<"=", "~">> @@ "!~" :> <<"!", "~">> @@
            "!=" :> <<"!", "=">> @@ "==" :> <<"=", "=">>
OneChar  == {"=", "(", ")", "{", "}", "[", "]", ",", "+", "-", "*", "/"}

\* The end of the longest run of characters of `class` that starts at i.
RunEnd(cs, i, class) ==
  CHOOSE j \in i - 1..Len(cs) :
    /\ \A k \in i..j : cs[k] \in class
    /\ j < Len(cs) => cs[j + 1] \notin class

\* A variant with a bug, for mutation runs: the backslash is dropped whatever
\* it stands before.
UnescapedBare(c) ==
  IF c = "n" THEN <<"newline">> ELSE IF c = "t" THEN <<"tab">> ELSE <<c>>

\* What a backslash and the character behind it stand for: it has to survive
\* where it is a regular expression's.
Unescaped(c) ==
  IF c = "n" THEN <<"newline">> ELSE IF c = "t" THEN <<"tab">>
  ELSE IF c \in Quotes \cup {Backslash} THEN <<c>> ELSE <<Backslash, c>>

\* The text of a string literal from position i on, and the position behind
\* its closing quote; nothing, if it is not closed.
RECURSIVE ReadString(_, _, _, _)
ReadString(cs, i, quote, text) ==
  IF i > Len(cs) THEN {}
  ELSE IF cs[i] = quote THEN {<<text, i + 1>>}
  ELSE IF cs[i] = Backslash /\ i < Len(cs)
       THEN ReadString(cs, i + 2, quote, text \o Unescaped(cs[i + 1]))
       ELSE ReadString(cs, i + 1, quote, Append(text, cs[i]))

\* str::parse::<f64> of digits and points.
IsNumber(text) == Len(SelectSeq(text, LAMBDA c : c = ".")) <= 1

\* One token from position i on, and the position behind it.
TokenAt(cs, i) ==
  LET run(kind, class) ==
        {<< <<kind, SubSeq(cs, i, RunEnd(cs, i, class))>>, RunEnd(cs, i, class) + 1>>}
      both == {t \in DOMAIN TwoChars : IsPrefix(TwoChars[t], SubSeq(cs, i, Len(cs)))}
  IN  CASE cs[i] \in IdentStart -> run("Ident", IdentChars)
        [] cs[i] \in Digits ->
             {r \in run("Number", NumberChars) : IsNumber(r[1][2])}
        [] cs[i] \in Quotes ->
             {<< <<"String", r[1]>>, r[2]>> : r \in ReadString(cs, i + 1, cs[i], <<>>)}
        [] both # {} ->
             {<< <<IF t = "==" THEN "=" ELSE t>>, i + 2>> : t \in both}
        [] OTHER -> {<< <<t>>, i + 1>> : t \in OneChar \cap {cs[i]}}

RECURSIVE LexFrom(_, _, _)
LexFrom(cs, i, out) ==
  IF i > Len(cs) THEN {out}
  ELSE IF cs[i] \in Blank THEN LexFrom(cs, i + 1, out)
  ELSE UNION {LexFrom(cs, r[2], Append(out, r[1])) : r \in TokenAt(cs, i)}

\* lex: the tokens of a query or, where the code bails, nothing.
Lex(cs) == LexFrom(cs, 1, <<>>)

-----------------------------------------------------------------------------
\* What a client does: it writes a text between quotes, with a backslash
\* before each quote and each backslash of it.
Quoted(text) ==
  <<"\"">> \o FlattenSeq([i \in DOMAIN text |->
      IF text[i] \in Quotes \cup {Backslash} THEN <<Backslash, text[i]>>
                                             ELSE <<text[i]>>]) \o <<"\"">>

\* The characters of a token, spelt in one of the ways there are.
Spelt(token) ==
  CASE token[1] = "String" -> Quoted(token[2])
    [] token[1] \in {"Ident", "Number"} -> token[2]
    [] token[1] \in DOMAIN TwoChars -> TwoChars[token[1]]
    [] OTHER -> token

=============================================================================
