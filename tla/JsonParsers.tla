---------------------------- MODULE JsonParsers ----------------------------
(***************************************************************************)
(* The two versions of the parser, which live in namespaces of their own:  *)
(* a behaviour is about one of them.                                       *)
(***************************************************************************)
EXTENDS JsonParser

CONSTANTS
    Texts2, \* for each call of the second version's parse(), its texts
    Afters  \* what may stand behind them

VARIABLES
    version,    \* the parser a behaviour is about
    text2, after, pointer, pos, last, pc2, parses2

second == <<text2, after, pointer, pos, last, pc2, parses2>>

Second == INSTANCE JsonParser2 WITH
    Texts <- Texts2, text <- text2, pc <- pc2, parses <- parses2

ASSUME SecondParserAssumption ==
    Texts2 \in Seq(SUBSET Seq(Second!Symbols))

EitherInit == version \in {"first", "second"} /\ Init /\ Second!Init

EitherNext ==
    /\ UNCHANGED version
    /\ \/ version = "first" /\ Next /\ UNCHANGED second
       \/ version = "second" /\ Second!Next /\ UNCHANGED vars

EitherSpec == EitherInit /\ [][EitherNext]_<<version, vars, second>>

\* What the second version has read when it returns (JsonParser2).
ReturnsAtTheFirstUnknown == Second!ReturnsAtTheFirstUnknown

\* How the positions of tokens follow each other in the second (JsonParser2).
PositionsGrow == Second!PositionsGrow
=============================================================================
