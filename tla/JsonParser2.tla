---------------------------- MODULE JsonParser2 ----------------------------
(***************************************************************************)
(* v2::json_parser, the second version: it reads brackets and commas, and  *)
(* gives up at the first token of another kind.                            *)
(*                                                                         *)
(* parse() sets the two pointers and leaves the context as it is, so       *)
(* positions go on counting from one text to the next.  The byte behind    *)
(* the text, `after', is part of the model because the code reads it: in   *)
(* skip_ws behind trailing blanks, and whenever all tokens have been read. *)
(***************************************************************************)
EXTENDS Integers, Sequences, FiniteSets, FiniteSetsExt

CONSTANTS
    Texts,  \* for each call of parse(), the texts it may be given
            \* (bound: there are Len(Texts) calls)
    Afters  \* what may stand behind a text: a symbol, or "unmapped"

Blanks   == {"SP", "NL"}
Specials == {"{", "}", "[", "]", ","}
Planned  == {"QUOTE", "n", "t", "f", "1"}   \* first characters of tokens
                                            \* that are not implemented
Others   == {":", "x", "NUL"}
Symbols  == Blanks \union Specials \union Planned \union Others

VARIABLES
    text,     \* the text of the last parse(), and ...
    after,    \* ... the byte at _end
    pointer,  \* the place of _pointer in the text
    pos,      \* _ctx.pos
    last,     \* _ctx.last_token: its kind, where it begins, its position
    pc,       \* "idle", "parsing", "crashed", or "undefined": _pointer is
              \* behind _end and keeps going
    parses    \* calls of parse() so far

vars == <<text, after, pointer, pos, last, pc, parses>>

Origin == [line |-> 0, col |-> 0]

Init ==
    /\ text = <<>>
    /\ after = "NUL"
    /\ pointer = 1
    /\ pos = Origin
    /\ last = [kind |-> "VOID", begin |-> 0, at |-> Origin]
    /\ pc = "idle"
    /\ parses = 0

-----------------------------------------------------------------------------
(* The text *)

End == Len(text) + 1

Byte(i) == IF i = End THEN after ELSE text[i]

\* The first place from `from' on whose symbol is not in S, or the end.
Past(from, S) == Min({i \in from .. Len(text) : text[i] \notin S} \union {End})

\* Where the next token begins.
At == Past(pointer, Blanks)

-----------------------------------------------------------------------------
(* One turn of the loop of parse() *)

Parse(t, b) ==
    /\ pc = "idle"
    /\ parses' = parses + 1
    /\ text' = t
    /\ after' = b
    /\ pointer' = 1
    /\ pc' = "parsing"
    /\ UNCHANGED <<pos, last>>

\* The variant that goes back to the first column without counting the line.
SkippedSameLine ==
    LET lines == {i \in (pointer + 1) .. At : Byte(i) = "NL"}
    IN  IF lines = {} THEN [pos EXCEPT !.col = @ + (At - pointer)]
        ELSE [line |-> pos.line, col |-> At - Max(lines)]

\* skip_ws: for each blank the pointer moves first, and what counts is the
\* byte it then points to.
Skipped ==
    LET lines == {i \in (pointer + 1) .. At : Byte(i) = "NL"}
    IN  IF lines = {} THEN [pos EXCEPT !.col = @ + (At - pointer)]
        ELSE [line |-> pos.line + Cardinality(lines), col |-> At - Max(lines)]

\* read_token skips blanks and notes where the token begins.  Its characters
\* up to `next' move the column only: no new line is among them.
Token(kind, next) ==
    /\ last' = [kind |-> kind, begin |-> At, at |-> Skipped]
    /\ pos' = [Skipped EXCEPT !.col = @ + (next - At)]
    /\ pointer' = next
    /\ UNCHANGED <<text, after, parses>>

Sees(S) == pc = "parsing" /\ At < End /\ text[At] \in S

\* The variant that steps over the character behind a bracket, too.
ReadSpecialTwice ==
    /\ Sees(Specials)
    /\ Token(text[At], Min({At + 2, End}))
    /\ UNCHANGED pc

ReadSpecial ==
    /\ Sees(Specials)
    /\ Token(text[At], At + 1)
    /\ UNCHANGED pc

\* The token is predicted and not read; parse ends.
ReadPlanned ==
    /\ Sees(Planned)
    /\ Token("planned", At)
    /\ pc' = "idle"

\* An invalid token is read up to a blank, a bracket or the end; parse ends.
ReadInvalid ==
    /\ Sees(Others)
    /\ Token("INVALID", Past(At, Planned \union Others))
    /\ pc' = "idle"

\* All tokens have been read.  The end is predicted as an invalid token,
\* which is then read from *_end: it is empty if a blank or a bracket stands
\* there, and otherwise the pointer runs on, never to meet _end again.
ReadEnd ==
    /\ pc = "parsing"
    /\ At = End
    /\ after # "unmapped"
    /\ \/ /\ after \in Blanks \union Specials
          /\ Token("INVALID", End)
          /\ pc' = "idle"
       \/ /\ after \notin Blanks \union Specials
          /\ Token("INVALID", End + 1)
          /\ pc' = "undefined"

Crash ==
    /\ pc = "parsing"
    /\ At = End
    /\ after = "unmapped"
    /\ pc' = "crashed"
    /\ UNCHANGED <<text, after, pointer, pos, last, parses>>

Turn == ReadSpecial \/ ReadPlanned \/ ReadInvalid \/ ReadEnd \/ Crash

Parses ==
    /\ parses < Len(Texts)
    /\ \E t \in Texts[parses + 1], b \in Afters : Parse(t, b)

Next == Turn \/ Parses

Spec == Init /\ [][Next]_vars

-----------------------------------------------------------------------------
(* Properties *)

\* The place of the first token parse() cannot read.
Stop == Past(1, Blanks \union Specials)

\* parse() returns 0 whatever happens.  What it has done then: it has read
\* every token in front of the first one it cannot read and none behind it;
\* and it has come to the end of a text only by the luck of the byte there.
ReturnsAtTheFirstUnknown ==
    /\ pc = "idle" /\ parses > 0
         => /\ last.begin = Stop
            /\ Stop = End => after \in Blanks \union Specials
    /\ pc \in {"crashed", "undefined"} => Stop = End

Before(p, q) == p.line < q.line \/ (p.line = q.line /\ p.col < q.col)

\* Within a parse() a token's position is behind the one of the token before
\* it.  Between two tokens of the text no line is counted that does not end
\* there, and if none does their columns are as far apart as they are.
PositionsGrow ==
    [][pc = "parsing" /\ pointer > 1 /\ last' # last =>
         LET lines == {i \in pointer .. (last'.begin - 1) : text[i] = "NL"}
         IN  /\ Before(last.at, last'.at)
             /\ last'.begin # End =>
                  /\ last'.at.line - last.at.line <= Cardinality(lines)
                  /\ lines = {} => last'.at.col - last.at.col = last'.begin - last.begin]_vars
=============================================================================
