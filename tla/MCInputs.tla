------------------------------ MODULE MCInputs ------------------------------
(***************************************************************************)
(* Bounded inputs for the two formats of the program that are more than a  *)
(* layout: the chunks it seals and the queries it reads.  A query grows by *)
(* a character or a run of tokens at a time, as it is typed.               *)
(***************************************************************************)
EXTENDS ChunkInputs

CONSTANTS
  negativeZero, nan,    \* model values
  NameLabel, Language, Letters, Digits

Lexer   == INSTANCE PromLexer
Parser  == INSTANCE PromParser
Grammar == INSTANCE PromGrammar

\* In halves: the numbers next to the limit and those that are no integers.
MCValues == {-14, -13, -12, -1, 0, 2, 12} \cup Odd \cup NotFinite

\* A pattern of one value, and one of two; "(" is no pattern.
MCLanguage == "a" :> {"a"} @@ "a|b" :> {"a", "b"}

MCMaxLength ==
  [samples |-> 4, bytes |-> 5, chars |-> 4, arithmetic |-> 7, matching |-> 6,
   calling |-> 6, windows |-> 7]

Chars == {"a", "n", "1", ".", "\"", "\\", " ", "=", "~", "!", "$"}

Name(text) == <<"Ident", text>>
Match(label, op, text) == <<Name(label), <<op>>, <<"String", text>> >>
One(kind) == << <<kind>> >>
Two == << <<"Number", 2>> >>
Window == One("[") \o Two \o <<Name("m")>> \o One("]")

\* What is typed in queries of one sort: tokens and short runs of them.
Alphabets ==
  [arithmetic |-> {<<Name("up")>>, Two} \cup
                    {One(k) : k \in {"(", ")", "+", "-", "*"}},
   matching   |-> {<<Name("up")>>, Match("pod", "=", "a"), Match("pod", "!=", "a"),
                   Match("pod", "=~", "a|b"), Match("pod", "!~", "("),
                   Match("__name__", "=", "a"), Match("__name__", "=~", "a")} \cup
                    {One(k) : k \in {"{", "}", ",", "="}},
   calling    |-> {<<Name("up")>>, <<Name("sum")>>, <<Name("by")>>,
                   <<Name("irate"), <<"(">>, Name("up")>> \o Window \o One(")"),
                   <<Name("by"), <<"(">>, Name("pod"), <<",">> >>} \cup
                    {One(k) : k \in {"(", ")", ",", "/"}},
   windows    |-> {<<Name("rate"), <<"(">> >>, One("{") \o One("}"),
                   <<Name("up")>>, <<Name("m")>>, Two} \cup
                    {One(k) : k \in {")", "[", "]"}}]

\* Two tokens that never stand side by side end the typing: what ends an
\* operand is followed by what does not begin one, up to brackets and words.
Ending    == {"Ident", "Number", "String", ")", "}", "]"}
Beginning == {"Ident", "Number", "String"}
Fits(ts) ==
  \A i \in 2..Len(ts) :
    \/ ts[i][1] \in {"(", "{", "["}
    \/ ts[i] \in {Name("by"), Name("m")}
    \/ (ts[i - 1][1] \in Ending) # (ts[i][1] \in Beginning)

Tokens == FlattenSeq(input)

-----------------------------------------------------------------------------
TypeChar == sort = "chars" /\ Grow(Chars)

TypeToken == sort \in DOMAIN Alphabets /\ Fits(Tokens) /\ Grow(Alphabets[sort])

Next == ChunkNext \/ TypeChar \/ TypeToken

Spec == Init /\ [][Next]_vars

-----------------------------------------------------------------------------
\* "Parsing this structurally": whatever is typed, the parser yields the one
\* tree the grammar derives it from, operators of one kind grouped from the
\* left, and bails exactly on what the grammar does not derive.
ParserMatchesGrammar ==
  sort \in DOMAIN Alphabets => Parser!Parse(Tokens) = Grammar!Derivations(Tokens)

\* A text without quotes whose backslashes are those of a regular expression.
Bare(text) ==
  \A i \in DOMAIN text :
    /\ text[i] \notin Lexer!Quotes
    /\ text[i] = Lexer!Backslash =>
         i < Len(text) /\ text[i + 1] \notin {"n", "t", Lexer!Backslash} \cup Lexer!Quotes

\* "Backslash escapes have to survive": a text that a client quotes is read
\* as that text; so is a bare one that is quoted as it is; and tokens that are
\* read can be spelt again.
LexerFaithful ==
  sort = "chars" =>
    /\ Lexer!Lex(Lexer!Quoted(input)) = {<< <<"String", input>> >>}
    /\ Bare(input) =>
         Lexer!Lex(<<"\"">> \o input \o <<"\"">>) = {<< <<"String", input>> >>}
    /\ \A ts \in Lexer!Lex(input) :
         Lexer!Lex(FlattenSeq([i \in DOMAIN ts |-> Lexer!Spelt(ts[i]) \o <<" ">>]))
           = {ts}

=============================================================================
