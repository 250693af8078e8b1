----------------------------- MODULE JsonParser -----------------------------
(***************************************************************************)
(* json_parser, the first version: a lexer that counts brackets and keeps  *)
(* its position and its verdict in a context.                              *)
(*                                                                         *)
(* The context is set up by the constructor and never again, so what one   *)
(* parse() leaves in it is what the next one starts from.  A text is a     *)
(* sequence of symbols: characters, and words of letters.                  *)
(***************************************************************************)
EXTENDS Integers, Sequences, FiniteSets, FiniteSetsExt

CONSTANTS
    Texts   \* for each call of parse(), the texts it may be given
            \* (bound: there are Len(Texts) calls)

Blanks   == {"SP", "NL"}
Digits   == {"1"}
Words    == {"null", "true", "false"}
BadWords == {"nope", "fals"}   \* start as words do; "fals" wants a byte more
Others   == {"x", "."}         \* no token starts with them
Symbols  == Blanks \union Digits \union Words \union BadWords \union Others
              \union {"{", "}", "[", "]", ":", ",", "QUOTE"}

ASSUME ParserAssumption ==
    Texts \in Seq(SUBSET Seq(Symbols))

VARIABLES
    context,    \* _context; ended stands for SEM_END_OF_JSON
    text,       \* the text of the last parse()
    head,       \* the place the next symbol is read from
    pc,         \* "idle", "parsing", or "undefined" after a read behind the end
    result,     \* what the last parse() returned, "none" while it runs
    parses,     \* calls of parse() so far
    start       \* the context the last parse() started from

vars == <<context, text, head, pc, result, parses, start>>

Init ==
    /\ context = [depth |-> 0, line |-> 1, column |-> 1, error |-> "no error",
                  curly |-> 0, square |-> 0, ended |-> FALSE]
    /\ text = <<>>
    /\ head = 1
    /\ pc = "idle"
    /\ result = "none"
    /\ parses = 0
    /\ start = context

-----------------------------------------------------------------------------
(* The text *)

End == Len(text) + 1

Width(s) == CASE s \in {"null", "true", "nope", "fals"} -> 4
              [] s = "false"                            -> 5
              [] OTHER                                  -> 1

LongestWord == 5

\* How many characters, each the k-th one of a symbol, there are from a place
\* up to another one.
WidthOf(from, to) ==
    Cardinality({c \in (from .. (to - 1)) \X (1 .. LongestWord) : c[2] <= Width(text[c[1]])})

\* The first place from `from' on whose symbol is not in S, or the end.
Past(from, S) == Min({i \in from .. Len(text) : text[i] \notin S} \union {End})

Newlines(from, to) == {i \in from .. (to - 1) : text[i] = "NL"}

-----------------------------------------------------------------------------
(* One turn of the loop of parse() *)

Parse(t) ==
    /\ pc = "idle"
    /\ parses' = parses + 1
    /\ text' = t
    /\ head' = 1
    /\ pc' = "parsing"
    /\ result' = "none"
    /\ start' = context
    /\ UNCHANGED context

Return(r) ==
    /\ pc' = "idle"
    /\ result' = r
    /\ UNCHANGED <<text, head, parses, start>>

\* The variant that keeps the column over a new line.
SkipKeepsColumn(i) ==
    [context EXCEPT !.line = @ + Cardinality(Newlines(head, i)),
                    !.column = @ + (i - head)]

\* skip_empty_symbols, up to place i.
Skip(i) ==
    LET lines == Newlines(head, i)
    IN  [context EXCEPT
            !.line = @ + Cardinality(lines),
            !.column = IF lines = {} THEN @ + (i - head) ELSE i - Max(lines)]

\* The symbol the next token starts with, behind the blanks.
At == Past(head, Blanks)
Sees(S) == pc = "parsing" /\ At < End /\ text[At] \in S

\* What parse() does with a token of the given width that was read up to
\* `next': the end of the object or of the text ends the parse.
Token(new, next, width) ==
    \/ /\ new.ended \/ next = End
       /\ context' = new
       /\ Return(new.error)
    \/ /\ ~new.ended /\ next # End
       /\ context' = [new EXCEPT !.column = @ + width]
       /\ head' = next
       /\ UNCHANGED <<text, pc, result, parses, start>>

\* parse_token has returned nullptr.
Fails(error) ==
    LET new == [Skip(At) EXCEPT !.error = error]
    IN  context' = new /\ Return(new.error)

\* The two brackets of a kind.  The curly bracket that closes the outermost
\* one is not counted: it ends the text.
OpenBracket(bracket, kind) ==
    /\ Sees({bracket})
    /\ Token([Skip(At) EXCEPT !.depth = @ + 1, ![kind] = @ + 1], At + 1, 1)

\* The variant that counts brackets that close nothing.
CloseBracketUnchecked(bracket, kind) ==
    /\ Sees({bracket})
    /\ kind = "curly" => context.curly # 1
    /\ Token([Skip(At) EXCEPT !.depth = @ - 1, ![kind] = @ - 1], At + 1, 1)

CloseBracket(bracket, kind) ==
    /\ Sees({bracket})
    /\ context[kind] > 0
    /\ kind = "curly" => context.curly # 1
    /\ Token([Skip(At) EXCEPT !.depth = @ - 1, ![kind] = @ - 1], At + 1, 1)

\* Variants: the bracket is counted and ends nothing, or any curly bracket
\* ends the text.
EndObjectNever ==
    /\ Sees({"}"})
    /\ context.curly = 1
    /\ Token([Skip(At) EXCEPT !.depth = @ - 1, !.curly = 0], At + 1, 1)

EndObjectAlways ==
    /\ Sees({"}"})
    /\ context.curly >= 1
    /\ Token([Skip(At) EXCEPT !.ended = TRUE], At, 0)

EndObject ==
    /\ Sees({"}"})
    /\ context.curly = 1
    /\ Token([Skip(At) EXCEPT !.ended = TRUE], At, 0)

ExtraBracket(bracket, kind) ==
    /\ Sees({bracket})
    /\ context[kind] = 0
    /\ Fails("invalid bracket sequence")

\* parse_string: up to the next quote, or to the end of the text and then
\* one place too far.
ReadString ==
    /\ Sees({"QUOTE"})
    /\ LET close == Past(At + 1, Symbols \ {"QUOTE"})
       IN  Token(Skip(At), close + 1, WidthOf(At + 1, close))

ReadNumber ==
    /\ Sees(Digits)
    /\ LET next == Past(At, Digits \union {"."})
       IN  Token(Skip(At), next, next - At)

ReadDelimiter ==
    /\ Sees({":", ","})
    /\ Token(Skip(At), At + 1, 1)

ReadWord ==
    /\ Sees(Words)
    /\ Token(Skip(At), At + 1, Width(text[At]))

ReadBadWord == Sees(BadWords) /\ Fails("invalid token")

\* tk.end, where the token before has ended, is not the place i, where the next
\* one begins: nothing has been read, or blanks or a quote lie between.
Apart(i) == i = 1 \/ text[i - 1] \in Blanks \union {"QUOTE"}

\* The loop ends at a symbol no token starts with, and parse returns 0,
\* which is the value of ERR_UNHANDLED_TOKEN.  On the way out the token is
\* printed with the precision tk.end - tk.begin: nothing if that is 0, and
\* else, as it is negative or has no meaning, what there is up to a NUL, which
\* stands in the text, behind a C string, or in memory that is not its own.
ReadOther ==
    /\ Sees(Others)
    /\ \/ /\ context' = Skip(At)
          /\ Return("unhandled token")
       \/ /\ Apart(At)
          /\ pc' = "undefined"
          /\ UNCHANGED <<context, text, head, result, parses, start>>

\* Nothing but blanks, or a string without its end: the next token is
\* predicted from a byte behind the end.  If that is the NUL of a C string
\* parse returns 0; otherwise it goes on in memory that is not its own.
\* "fals" at the end is compared with that byte, too.
ReadBehind ==
    \/ /\ pc = "parsing" /\ At = End
       /\ context' = IF head > End THEN context ELSE Skip(At)
       /\ Return("unhandled token")
    \/ /\ pc = "parsing"
       /\ At = End \/ (Sees({"fals"}) /\ At = Len(text))
       /\ pc' = "undefined"
       /\ UNCHANGED <<context, text, head, result, parses, start>>

Brackets ==
    \E b \in {<<"{", "}", "curly">>, <<"[", "]", "square">>} :
        OpenBracket(b[1], b[3]) \/ CloseBracket(b[2], b[3]) \/ ExtraBracket(b[2], b[3])

Turn == \/ Brackets \/ EndObject \/ ReadString \/ ReadNumber \/ ReadDelimiter
        \/ ReadWord \/ ReadBadWord \/ ReadOther \/ ReadBehind

Parses ==
    /\ parses < Len(Texts)
    /\ \E t \in Texts[parses + 1] : Parse(t)

Next == Turn \/ Parses

Spec == Init /\ [][Next]_vars

-----------------------------------------------------------------------------
(* Properties *)

\* Places of the text that are not within a string.
Outside(i) == Cardinality({j \in 1 .. (i - 1) : text[j] = "QUOTE"}) % 2 = 0

Count(symbol, k) == Cardinality({i \in 1 .. k : text[i] = symbol /\ Outside(i)})

\* Brackets of a kind that are open behind place k.
OpenAt(left, right, k) == Count(left, k) - Count(right, k)

\* The bracket at place k closes one that was not opened, or the outermost
\* object.
ClosesNothing(left, right, k) ==
    text[k] = right /\ Outside(k) /\ OpenAt(left, right, k) < 0

ClosesAll(k) == text[k] = "}" /\ Outside(k) /\ OpenAt("{", "}", k) = 0

\* The last parse() started from a clean context, and it has returned.
Clean    == start.curly = 0 /\ start.square = 0 /\ ~start.ended /\ start.error = "no error"
Returned == pc = "idle" /\ parses > 0 /\ Clean

\* The end of the text is found at the bracket that closes the first object,
\* wherever strings hold brackets, too.
EndIsTheFirstObjects ==
    Returned /\ context.ended
      => /\ result = "no error"
         /\ \E k \in DOMAIN text :
               /\ ClosesAll(k)
               /\ \A j \in 1 .. (k - 1) :
                     /\ ~ClosesAll(j)
                     /\ ~ClosesNothing("{", "}", j) /\ ~ClosesNothing("[", "]", j)

\* The parser reads behind the text only before it has come to the end of the
\* first object.  An object that is complete keeps it from doing so, whatever
\* stands behind, unless in front of its end there is a symbol no token
\* starts with, apart from the token before.
ReadsBehindBeforeTheEnd ==
    pc = "undefined" /\ Clean =>
      \A k \in DOMAIN text : ClosesAll(k) =>
         \E i \in 1 .. (k - 1) : text[i] \in Others /\ Outside(i) /\ Apart(i)

\* Brackets are blamed when one closes nothing, and only then: a text that
\* is read to its end without an error has none.
BracketsAreJudged ==
    Returned =>
      LET wrong == {k \in DOMAIN text : \/ ClosesNothing("{", "}", k)
                                        \/ ClosesNothing("[", "]", k)}
      IN  /\ result = "invalid bracket sequence" => wrong # {}
          /\ result = "no error" /\ ~context.ended => wrong = {}

\* Between two tokens the context knows the place it is at: the lines, and
\* the characters of the line, of which the quotes are not counted.
LineStart == Max({0} \union {i \in Newlines(1, head) : Outside(i)})

Quotes(from, to) == {i \in from .. (to - 1) : text[i] = "QUOTE"}

PositionIsKept ==
    pc = "parsing" /\ head <= End =>
      LET lines == {i \in Newlines(1, head) : Outside(i)}
      IN  /\ context.line = start.line + Cardinality(lines)
          /\ context.column =
                (IF lines = {} THEN start.column ELSE 1)
                  + WidthOf(LineStart + 1, head)
                  - Cardinality(Quotes(LineStart + 1, head))
=============================================================================
