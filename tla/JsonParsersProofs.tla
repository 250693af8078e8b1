--------------------------- MODULE JsonParsersProofs ---------------------------
(***************************************************************************)
(* Theorems about the two versions of json_parser.                         *)
(*                                                                         *)
(* A text has any length, so what is said of it is said by induction: by   *)
(* the least place at which it fails, which Least finds.  The first        *)
(* version's brackets and verdict stand on ParserInv, its positions on     *)
(* PlaceInv; the second version's return on ReadInv and its positions on   *)
(* PositionInv.                                                            *)
(***************************************************************************)
EXTENDS JsonParsers, FiniteSetTheorems, WellFoundedInduction, TLAPS

LEMMA Least ==
  ASSUME NEW T \in SUBSET Nat, T # {}
  PROVE  \E x \in T : \A y \in T : x <= y
<1>1. IsWellFoundedOn(OpToRel(<, Nat), Nat)
  BY NatLessThanWellFounded
<1> DEFINE Smaller == {p \in Nat \X Nat : p[1] < p[2]}
<1>2. OpToRel(<, Nat) = Smaller
  BY DEF OpToRel
<1>3. IsWellFoundedOn(Smaller, Nat)
  BY <1>1, <1>2
<1>4. ASSUME NEW x \in Nat, NEW y \in Nat, y < x
      PROVE  <<y, x>> \in Smaller
  <2>1. <<y, x>> \in Nat \X Nat
    OBVIOUS
  <2>2. <<y, x>>[1] < <<y, x>>[2]
    BY <1>4
  <2>3. QED
    BY <2>1, <2>2
<1> HIDE DEF Smaller
<1>5. PICK x \in T : \A y \in T : ~(<<y, x>> \in Smaller)
  BY <1>3, WFMin
<1>6. ASSUME NEW y \in T
      PROVE  x <= y
  <2>1. ~(y < x)
    BY <1>4, <1>5, Zenon
  <2>2. QED
    BY <2>1
<1>7. QED
  BY <1>6

\* The minimum of such a set is one of its members, and the least.
LEMMA MinIsLeast ==
  ASSUME NEW T \in SUBSET Nat, T # {}
  PROVE  Min(T) \in T /\ \A y \in T : Min(T) <= y
  BY Least DEF Min

\* What Past finds: nothing but members of S lie in front of it.
LEMMA PastIs ==
  ASSUME text \in Seq(Symbols), NEW from \in 1 .. (End + 1), NEW S
  PROVE  /\ Past(from, S) \in 1 .. End
         /\ from <= End => from <= Past(from, S)
         /\ \A i \in from .. (Past(from, S) - 1) : i \in DOMAIN text /\ text[i] \in S
         /\ Past(from, S) # End => text[Past(from, S)] \notin S
<1> DEFINE T == {i \in from .. Len(text) : text[i] \notin S} \union {End}
<1>1. Len(text) \in Nat /\ DOMAIN text = 1 .. Len(text) /\ End = Len(text) + 1
  BY DEF End
<1>2. T \in SUBSET Nat /\ T # {}
  BY <1>1
<1>3. Min(T) \in T /\ \A y \in T : Min(T) <= y
  BY <1>2, MinIsLeast
<1>4. Past(from, S) = Min(T)
  BY DEF Past
<1> DEFINE p == Past(from, S)
<1>5. p \in T /\ \A y \in T : p <= y
  BY <1>3, <1>4
<1> HIDE DEF p
<1>6. p \in 1 .. End /\ (from <= End => from <= p)
  BY <1>1, <1>5
<1>7. ASSUME NEW i \in from .. (p - 1)
      PROVE  i \in DOMAIN text /\ text[i] \in S
  <2>1. i \in from .. Len(text) /\ i < p
    BY <1>1, <1>6
  <2>2. i \notin T
    BY <1>5, <1>6, <2>1
  <2>3. QED
    BY <1>1, <2>1, <2>2
<1>8. p # End => text[p] \notin S
  BY <1>5
<1>9. QED
  BY <1>6, <1>7, <1>8 DEF p

-----------------------------------------------------------------------------
(* Counting *)

\* Quotes in front of a place.
QuotesBefore(i) == {j \in 1 .. (i - 1) : text[j] = "QUOTE"}

LEMMA SomeOfMany ==
  ASSUME NEW n \in Int, NEW S \in SUBSET (1 .. n)
  PROVE  IsFiniteSet(S) /\ Cardinality(S) \in Nat
<1>1. IsFiniteSet(1 .. n)
  BY FS_Interval
<1>2. IsFiniteSet(S)
  BY <1>1, FS_Subset
<1>3. QED
  BY <1>2, FS_CardinalityType

\* A place behind another one, with no quote between them, is within a string
\* when that one is.
LEMMA NoQuoteBetween ==
  ASSUME NEW i \in Nat, NEW j \in Nat, i <= j,
         \A k \in i .. (j - 1) : text[k] # "QUOTE"
  PROVE  Outside(j) <=> Outside(i)
<1>1. QuotesBefore(j) = QuotesBefore(i)
  BY DEF QuotesBefore
<1>2. QED
  BY <1>1 DEF Outside, QuotesBefore

\* A quote ends what is outside of the strings, or within one.
LEMMA QuoteToggles ==
  ASSUME NEW i \in Nat \ {0}, text[i] = "QUOTE"
  PROVE  Outside(i + 1) <=> ~Outside(i)
<1> DEFINE n == Cardinality(QuotesBefore(i))
<1>1. IsFiniteSet(QuotesBefore(i)) /\ n \in Nat
  <2>1. QuotesBefore(i) \in SUBSET (1 .. (i - 1)) /\ i - 1 \in Int
    BY DEF QuotesBefore
  <2>2. QED
    BY <2>1, SomeOfMany
<1>2. QuotesBefore(i + 1) = QuotesBefore(i) \union {i} /\ i \notin QuotesBefore(i)
  BY DEF QuotesBefore
<1>3. Cardinality(QuotesBefore(i + 1)) = n + 1
  BY <1>1, <1>2, FS_AddElement
<1>4. Outside(i) <=> n % 2 = 0
  BY DEF Outside, QuotesBefore
<1>5. Outside(i + 1) <=> (n + 1) % 2 = 0
  BY <1>3 DEF Outside, QuotesBefore
<1> HIDE DEF n
<1>6. (n + 1) % 2 = 0 <=> n % 2 # 0
  BY <1>1
<1>7. QED
  BY <1>4, <1>5, <1>6

Counted(symbol, k) == {i \in 1 .. k : text[i] = symbol /\ Outside(i)}

LEMMA CountIsNat ==
  ASSUME NEW symbol, NEW k \in Int
  PROVE  IsFiniteSet(Counted(symbol, k)) /\ Count(symbol, k) \in Nat
<1>1. Counted(symbol, k) \in SUBSET (1 .. k)
  BY DEF Counted
<1>2. QED
  BY <1>1, SomeOfMany DEF Count, Counted

LEMMA CountsTheSame ==
  ASSUME NEW symbol, NEW k \in Nat, NEW m \in Nat, k <= m,
         \A i \in (k + 1) .. m : ~(text[i] = symbol /\ Outside(i))
  PROVE  Count(symbol, m) = Count(symbol, k)
<1>1. Counted(symbol, m) = Counted(symbol, k)
  BY DEF Counted
<1>2. QED
  BY <1>1 DEF Count, Counted

LEMMA CountsOneMore ==
  ASSUME NEW symbol, NEW k \in Nat, text[k + 1] = symbol, Outside(k + 1)
  PROVE  Count(symbol, k + 1) = Count(symbol, k) + 1
<1>1. IsFiniteSet(Counted(symbol, k))
  BY CountIsNat
<1>2. Counted(symbol, k + 1) = Counted(symbol, k) \union {k + 1}
  BY DEF Counted
<1>3. k + 1 \notin Counted(symbol, k)
  BY DEF Counted
<1>4. Cardinality(Counted(symbol, k + 1)) = Cardinality(Counted(symbol, k)) + 1
  BY <1>1, <1>2, <1>3, FS_AddElement
<1>5. QED
  BY <1>4 DEF Count, Counted

LEMMA CountOfNothing == ASSUME NEW symbol PROVE Count(symbol, 0) = 0
<1>1. Counted(symbol, 0) = {}
  BY DEF Counted
<1>2. QED
  BY <1>1, FS_EmptySet DEF Count, Counted

LEMMA OutsideStarts == Outside(1)
<1>1. QuotesBefore(1) = {}
  BY DEF QuotesBefore
<1>2. Cardinality(QuotesBefore(1)) = 0
  BY <1>1, FS_EmptySet
<1>3. QED
  BY <1>2 DEF Outside, QuotesBefore

-----------------------------------------------------------------------------
(* Reading *)

Brackets4 == {"{", "}", "[", "]"}

\* A bracket that counts.
IsBracket(i) == text[i] \in Brackets4 /\ Outside(i)

Curly(k)  == OpenAt("{", "}", k)
Square(k) == OpenAt("[", "]", k)

\* No place up to k ends the text or is to be blamed.
Judged(k) ==
    \A j \in 1 .. k : /\ ~ClosesAll(j)
                      /\ ~ClosesNothing("{", "}", j)
                      /\ ~ClosesNothing("[", "]", j)

LEMMA Signs ==
  ASSUME NEW n \in Int
  PROVE  /\ n > 0 => n # 0 /\ ~(n < 0)
         /\ n >= 0 => ~(n < 0)
  OBVIOUS

LEMMA LastOrBefore ==
  ASSUME NEW a \in Nat \ {0}, NEW j \in 1 .. a
  PROVE  j = a \/ j \in 1 .. (a - 1)
  OBVIOUS

LEMMA Places ==
  ASSUME NEW a \in Nat \ {0}
  PROVE  /\ a \in Int /\ a - 1 \in Nat /\ a - 1 \in Int /\ (a - 1) + 1 = a /\ a - 1 <= a
         /\ \A i \in ((a - 1) + 1) .. a : i = a
  OBVIOUS

LEMMA NextPlace ==
  ASSUME NEW a \in Nat
  PROVE  /\ a + 1 \in Nat /\ a <= a + 1
         /\ \A k \in a .. ((a + 1) - 1) : k = a
  OBVIOUS

LEMMA OneLess ==
  ASSUME NEW n \in Int, n > 0
  PROVE  n - 1 >= 0 /\ (n # 1 => n - 1 > 0)
  OBVIOUS

LEMMA Differences ==
  ASSUME NEW m \in Nat, NEW n \in Nat, NEW o \in Nat, NEW p \in Nat
  PROVE  /\ m - n \in Int
         /\ o = m + 1 /\ p = n => o - p = (m - n) + 1
         /\ o = m /\ p = n + 1 => o - p = (m - n) - 1
         /\ o = m /\ p = n => o - p = m - n
  OBVIOUS

LEMMA OpenIsInt == ASSUME NEW k \in Int PROVE Curly(k) \in Int /\ Square(k) \in Int
<1>1. /\ Count("{", k) \in Nat /\ Count("}", k) \in Nat
      /\ Count("[", k) \in Nat /\ Count("]", k) \in Nat
  BY CountIsNat
<1>2. QED
  BY <1>1, Differences DEF Curly, Square, OpenAt

\* Where there are no brackets nothing changes.
LEMMA NoBracketBetween ==
  ASSUME NEW k \in Nat, NEW m \in Nat, k <= m, Judged(k),
         \A i \in (k + 1) .. m : ~IsBracket(i)
  PROVE  Judged(m) /\ Curly(m) = Curly(k) /\ Square(m) = Square(k)
<1>1. \A symbol \in Brackets4 : Count(symbol, m) = Count(symbol, k)
  BY CountsTheSame DEF IsBracket
<1>2. Curly(m) = Curly(k) /\ Square(m) = Square(k)
  BY <1>1 DEF Curly, Square, OpenAt, Brackets4
<1>3. ASSUME NEW j \in 1 .. m, ~(j \in 1 .. k)
      PROVE  /\ ~ClosesAll(j)
             /\ ~ClosesNothing("{", "}", j)
             /\ ~ClosesNothing("[", "]", j)
  <2>1. ~IsBracket(j)
    BY <1>3
  <2>2. QED
    BY <2>1 DEF IsBracket, Brackets4, ClosesAll, ClosesNothing
<1>4. Judged(m)
  BY <1>3 DEF Judged
<1>5. QED
  BY <1>2, <1>4

\* What a bracket outside of the strings changes.
LEMMA OneBracket ==
  ASSUME NEW a \in Nat \ {0}, IsBracket(a)
  PROVE  /\ text[a] = "{" => Curly(a) = Curly(a - 1) + 1
         /\ text[a] = "}" => Curly(a) = Curly(a - 1) - 1
         /\ text[a] \notin {"{", "}"} => Curly(a) = Curly(a - 1)
         /\ text[a] = "[" => Square(a) = Square(a - 1) + 1
         /\ text[a] = "]" => Square(a) = Square(a - 1) - 1
         /\ text[a] \notin {"[", "]"} => Square(a) = Square(a - 1)
<1> DEFINE k == a - 1
<1>1. k \in Nat /\ k + 1 = a /\ k <= a /\ \A i \in (k + 1) .. a : i = a
  BY Places
<1>2. ASSUME NEW symbol, text[a] = symbol
      PROVE  Count(symbol, a) = Count(symbol, k) + 1
  BY <1>1, <1>2, CountsOneMore DEF IsBracket
<1>3. ASSUME NEW symbol, text[a] # symbol
      PROVE  Count(symbol, a) = Count(symbol, k)
  <2>1. \A i \in (k + 1) .. a : ~(text[i] = symbol /\ Outside(i))
    BY <1>1, <1>3
  <2>2. QED
    BY <1>1, <2>1, CountsTheSame
<1>4. \A symbol : Count(symbol, k) \in Nat /\ Count(symbol, a) \in Nat
  BY <1>1, CountIsNat
<1> HIDE DEF k
<1>5. ASSUME NEW left, NEW right, left # right
      PROVE  /\ text[a] = left => OpenAt(left, right, a) = OpenAt(left, right, k) + 1
             /\ text[a] = right => OpenAt(left, right, a) = OpenAt(left, right, k) - 1
             /\ text[a] \notin {left, right} => OpenAt(left, right, a) = OpenAt(left, right, k)
  BY <1>2, <1>3, <1>4, <1>5, Differences DEF OpenAt
<1>6. QED
  BY <1>5 DEF Curly, Square, k

\* Behind a bracket all is still in order, unless it closes the outermost
\* object, or nothing.
LEMMA JudgedBehind ==
  ASSUME NEW a \in Nat \ {0}, IsBracket(a), Judged(a - 1),
         text[a] = "}" => Curly(a) > 0,
         text[a] = "]" => Square(a) >= 0
  PROVE  Judged(a)
<1>1. Curly(a) \in Int /\ Square(a) \in Int
  <2>1. a \in Int
    BY Places
  <2>2. QED
    BY <2>1, OpenIsInt
<1>2. /\ ~ClosesAll(a)
      /\ ~ClosesNothing("{", "}", a)
      /\ ~ClosesNothing("[", "]", a)
  <2>1. CASE text[a] = "}"
    BY <1>1, <2>1, Signs DEF Curly, Square, ClosesAll, ClosesNothing
  <2>2. CASE text[a] = "]"
    BY <1>1, <2>2, Signs DEF Curly, Square, ClosesAll, ClosesNothing
  <2>3. CASE text[a] # "}" /\ text[a] # "]"
    BY <2>3 DEF ClosesAll, ClosesNothing
  <2>4. QED
    BY <2>1, <2>2, <2>3
<1>3. \A j \in 1 .. a : j = a \/ j \in 1 .. (a - 1)
  BY LastOrBefore
<1>4. QED
  BY <1>2, <1>3 DEF Judged

\* All in front of place h has been read, and the context c knows it.
Progress(c, h) ==
    /\ ~c.ended /\ c.error = "no error"
    /\ Judged(IF h <= End THEN h - 1 ELSE Len(text))
    /\ h <= End => Outside(h) /\ c.curly = Curly(h - 1) /\ c.square = Square(h - 1)

Fields == {"depth", "line", "column", "error", "curly", "square", "ended"}

\* Skipping moves the position only.
LEMMA SkipKeeps ==
  ASSUME DOMAIN context = Fields, NEW i
  PROVE  /\ DOMAIN Skip(i) = Fields
         /\ Skip(i).curly = context.curly /\ Skip(i).square = context.square
         /\ Skip(i).ended = context.ended /\ Skip(i).error = context.error
  BY DEF Skip, Fields

\* At the next symbol, behind the blanks, nothing has changed.
LEMMA BlanksAreSkipped ==
  ASSUME text \in Seq(Symbols), head \in 1 .. (End + 1), Progress(context, head)
  PROVE  /\ At \in 1 .. End
         /\ head <= End => /\ Judged(At - 1) /\ Outside(At)
                           /\ context.curly = Curly(At - 1)
                           /\ context.square = Square(At - 1)
         /\ At = End => Judged(Len(text))
         /\ At # End => head <= End /\ At \in DOMAIN text
<1>0. Len(text) \in Nat /\ End = Len(text) + 1 /\ DOMAIN text = 1 .. Len(text) /\ head \in Nat
  BY DEF End
<1>1. /\ At \in 1 .. End
      /\ head <= End => head <= At
      /\ \A i \in head .. (At - 1) : text[i] \in Blanks
  BY PastIs DEF At
<1>2. ASSUME head <= End
      PROVE  /\ Judged(At - 1) /\ Outside(At)
             /\ context.curly = Curly(At - 1)
             /\ context.square = Square(At - 1)
  <2>1. \A i \in head .. (At - 1) : text[i] # "QUOTE" /\ text[i] \notin Brackets4
    BY <1>1 DEF Blanks, Brackets4
  <2>2. head \in Nat /\ At \in Nat /\ head <= At /\ head - 1 \in Nat /\ At - 1 \in Nat
    BY <1>0, <1>1, <1>2
  <2>3. Outside(At)
    BY <1>2, <2>1, <2>2, NoQuoteBetween DEF Progress
  <2>4. \A i \in ((head - 1) + 1) .. (At - 1) : ~IsBracket(i)
    BY <2>1, <2>2 DEF IsBracket
  <2>5. Judged(head - 1)
    BY <1>2 DEF Progress
  <2>6. Judged(At - 1) /\ Curly(At - 1) = Curly(head - 1) /\ Square(At - 1) = Square(head - 1)
    BY <2>2, <2>4, <2>5, NoBracketBetween
  <2>7. QED
    BY <1>2, <2>3, <2>6 DEF Progress
<1>3. ASSUME At = End
      PROVE  Judged(Len(text))
  <2>1. CASE head <= End
    BY <1>0, <1>2, <1>3, <2>1
  <2>2. CASE ~(head <= End)
    BY <2>2 DEF Progress
  <2>3. QED
    BY <2>1, <2>2
<1>4. ASSUME At # End
      PROVE  head <= End /\ At \in DOMAIN text
  <2>1. At \in 1 .. Len(text)
    BY <1>0, <1>1, <1>4
  <2>2. ~(head = End + 1)
    <3>1. ASSUME head = End + 1 PROVE FALSE
      <4>1. {i \in head .. Len(text) : text[i] \notin Blanks} = {}
        BY <1>0, <3>1
      <4>2. At = Min({End})
        BY <4>1 DEF At, Past
      <4>3. Min({End}) = End
        <5>1. {End} \in SUBSET Nat /\ {End} # {}
          BY <1>0
        <5>2. QED
          BY <5>1, MinIsLeast
      <4>4. QED
        BY <1>4, <4>2, <4>3
    <3>2. QED
      BY <3>1
  <2>3. QED
    BY <1>0, <2>1, <2>2
<1>5. QED
  BY <1>1, <1>2, <1>3, <1>4

-----------------------------------------------------------------------------
(* What a turn of the loop comes to, from a clean context *)

GoesOn == pc' = "parsing" /\ Progress(context', head') /\ head' \in 1 .. (End + 1)

ReadsAll ==
    /\ pc' = "idle" /\ result' = "no error"
    /\ ~context'.ended
    /\ Judged(Len(text))

EndsTheObject ==
    /\ pc' = "idle" /\ result' = "no error"
    /\ context'.ended
    /\ \E k \in DOMAIN text : ClosesAll(k) /\ Judged(k - 1)

Blames ==
    /\ pc' = "idle" /\ result' = "invalid bracket sequence"
    /\ ~context'.ended
    /\ \E k \in DOMAIN text : ClosesNothing("{", "}", k) \/ ClosesNothing("[", "]", k)

GivesUp ==
    /\ pc' = "idle" /\ result' \in {"invalid token", "unhandled token"}
    /\ ~context'.ended

\* In front of a place there is a symbol no token starts with, apart from the
\* token before.
Loose(k) == \E i \in 1 .. (k - 1) : text[i] \in Others /\ Outside(i) /\ Apart(i)

RunsOn == pc' = "undefined" /\ \A k \in DOMAIN text : ClosesAll(k) => Loose(k)

Outcome ==
    /\ text' = text /\ head' \in 1 .. (End + 1) /\ DOMAIN context' = Fields
    /\ start' = start /\ parses' = parses
    /\ GoesOn \/ ReadsAll \/ EndsTheObject \/ Blames \/ GivesUp \/ RunsOn

\* What a turn starts from.
CleanTurn ==
    /\ text \in Seq(Symbols)
    /\ head \in 1 .. (End + 1)
    /\ DOMAIN context = Fields
    /\ pc = "parsing"
    /\ Progress(context, head)

LEMMA Ends == ASSUME text \in Seq(Symbols)
              PROVE  /\ Len(text) \in Nat /\ End = Len(text) + 1 /\ End \in Nat
                     /\ DOMAIN text = 1 .. Len(text)
                     /\ End - 1 = Len(text) /\ End <= End /\ ~(End + 1 <= End)
  BY DEF End

\* A token that does not end the text.
LEMMA TokenGoesOn ==
  ASSUME CleanTurn, NEW new, NEW next \in 1 .. (End + 1), NEW width,
         Token(new, next, width), DOMAIN new = Fields, Progress(new, next)
  PROVE  Outcome
<1>0. /\ Len(text) \in Nat /\ End = Len(text) + 1 /\ End <= End /\ End - 1 = Len(text)
      /\ End \in Nat
  BY Ends DEF CleanTurn
<1>1. ~new.ended /\ new.error = "no error"
  BY DEF Progress
<1>2. CASE next = End
  <2>1. context' = new /\ pc' = "idle" /\ result' = "no error"
        /\ UNCHANGED <<text, head, parses, start>>
    BY <1>1, <1>2 DEF Token, Return
  <2>2. Judged(Len(text))
    BY <1>0, <1>2 DEF Progress
  <2>3. QED
    BY <1>1, <2>1, <2>2 DEF Outcome, ReadsAll, CleanTurn
<1>3. CASE next # End
  <2>1. context' = [new EXCEPT !.column = @ + width] /\ head' = next
        /\ UNCHANGED <<text, pc, result, parses, start>>
    BY <1>1, <1>3 DEF Token, Return
  <2>2. /\ DOMAIN context' = Fields
        /\ context'.curly = new.curly /\ context'.square = new.square
        /\ context'.ended = new.ended /\ context'.error = new.error
    BY <2>1 DEF Fields
  <2>3. Progress(context', head')
    BY <2>1, <2>2 DEF Progress
  <2>4. QED
    BY <2>1, <2>2, <2>3 DEF Outcome, GoesOn, CleanTurn
<1>4. QED
  BY <1>2, <1>3

LEMMA FailsGivesUp ==
  ASSUME CleanTurn, NEW error, Fails(error)
  PROVE  /\ text' = text /\ head' = head /\ start' = start /\ parses' = parses
         /\ pc' = "idle" /\ result' = error
         /\ DOMAIN context' = Fields /\ ~context'.ended
<1> DEFINE new == [Skip(At) EXCEPT !.error = error]
<1>1. DOMAIN Skip(At) = Fields /\ ~Skip(At).ended
  BY SkipKeeps DEF CleanTurn, Progress
<1>2. DOMAIN new = Fields /\ ~new.ended /\ new.error = error
  BY <1>1 DEF Fields
<1>3. context' = new /\ pc' = "idle" /\ result' = new.error
      /\ UNCHANGED <<text, head, parses, start>>
  BY DEF Fails, Return
<1>4. QED
  BY <1>2, <1>3

\* A place the parser sees.
LEMMA Seen ==
  ASSUME CleanTurn, NEW S, Sees(S)
  PROVE  /\ At \in DOMAIN text /\ At \in Nat \ {0} /\ text[At] \in S
         /\ At + 1 \in 1 .. (End + 1) /\ At + 1 <= End /\ (At + 1) - 1 = At
         /\ Judged(At - 1) /\ Outside(At)
         /\ Skip(At).curly = Curly(At - 1) /\ Skip(At).square = Square(At - 1)
         /\ DOMAIN Skip(At) = Fields /\ ~Skip(At).ended /\ Skip(At).error = "no error"
         /\ context.curly = Curly(At - 1) /\ context.square = Square(At - 1)
<1>1. At # End /\ text[At] \in S
  <2>1. At < End
    BY DEF Sees
  <2>2. At \in 1 .. End
    BY BlanksAreSkipped DEF CleanTurn
  <2>3. QED
    BY <2>1, <2>2, Ends DEF Sees, CleanTurn
<1>2. /\ head <= End /\ At \in DOMAIN text /\ Judged(At - 1) /\ Outside(At)
      /\ context.curly = Curly(At - 1) /\ context.square = Square(At - 1)
  BY <1>1, BlanksAreSkipped DEF CleanTurn
<1>3. /\ DOMAIN Skip(At) = Fields /\ ~Skip(At).ended /\ Skip(At).error = "no error"
      /\ Skip(At).curly = context.curly /\ Skip(At).square = context.square
  BY SkipKeeps DEF CleanTurn, Progress
<1>4. /\ At \in Nat \ {0} /\ At + 1 \in 1 .. (End + 1) /\ At + 1 <= End /\ (At + 1) - 1 = At
  BY <1>2, Ends DEF CleanTurn
<1>5. QED
  BY <1>1, <1>2, <1>3, <1>4

LEMMA Spans ==
  ASSUME NEW e \in Nat, NEW a \in Nat \ {0}, NEW n \in 1 .. e, a <= n
  PROVE  /\ a - 1 \in Nat /\ n - 1 \in Nat /\ a - 1 <= n - 1
         /\ (a - 1) + 1 = a /\ n \in Nat /\ n <= e /\ n \in 1 .. (e + 1)
  OBVIOUS

\* The symbols from the next one to a later place are read, no bracket and no
\* quote among them.
LEMMA PlainToken ==
  ASSUME CleanTurn, NEW S, Sees(S), NEW next \in 1 .. End, At <= next,
         \A i \in At .. (next - 1) : text[i] \notin Brackets4 \union {"QUOTE"},
         NEW width, Token(Skip(At), next, width)
  PROVE  Outcome
<1>1. /\ At \in Nat \ {0} /\ Judged(At - 1) /\ Outside(At)
      /\ Skip(At).curly = Curly(At - 1) /\ Skip(At).square = Square(At - 1)
      /\ DOMAIN Skip(At) = Fields /\ ~Skip(At).ended /\ Skip(At).error = "no error"
  BY Seen
<1>2. /\ At - 1 \in Nat /\ next - 1 \in Nat /\ At - 1 <= next - 1
      /\ (At - 1) + 1 = At /\ next \in Nat /\ next <= End /\ next \in 1 .. (End + 1)
  BY <1>1, Ends, Spans DEF CleanTurn
<1>3. \A i \in ((At - 1) + 1) .. (next - 1) : ~IsBracket(i)
  BY <1>2 DEF IsBracket
<1>4. /\ Judged(next - 1)
      /\ Curly(next - 1) = Curly(At - 1) /\ Square(next - 1) = Square(At - 1)
  BY <1>1, <1>2, <1>3, NoBracketBetween
<1>5. Outside(next)
  BY <1>1, <1>2, NoQuoteBetween
<1>6. Progress(Skip(At), next)
  BY <1>1, <1>2, <1>4, <1>5 DEF Progress
<1>7. QED
  BY <1>1, <1>2, <1>6, TokenGoesOn


LEMMA SeenOne ==
  ASSUME CleanTurn, NEW s, Sees({s})
  PROVE  /\ At \in DOMAIN text /\ At \in Nat \ {0} /\ text[At] = s
         /\ Judged(At - 1) /\ Outside(At)
         /\ Skip(At).curly = Curly(At - 1) /\ Skip(At).square = Square(At - 1)
         /\ DOMAIN Skip(At) = Fields /\ ~Skip(At).ended /\ Skip(At).error = "no error"
         /\ context.curly = Curly(At - 1) /\ context.square = Square(At - 1)
         /\ Curly(At - 1) \in Int /\ Square(At - 1) \in Int
<1>1. text[At] \in {s} /\ At \in Nat \ {0}
  BY Seen
<1>2. At - 1 \in Int
  BY <1>1, Places
<1>3. Curly(At - 1) \in Int /\ Square(At - 1) \in Int
  BY <1>2, OpenIsInt
<1>4. text[At] = s
  BY <1>1
<1>5. QED
  BY <1>3, <1>4, Seen

LEMMA NoneLess == ASSUME NEW m, NEW n, m = n - 1, n = 0 PROVE m < 0
  OBVIOUS

\* A bracket has been counted.
LEMMA BracketToken ==
  ASSUME CleanTurn, NEW S \in SUBSET Brackets4, Sees(S), NEW new, DOMAIN new = Fields,
         ~new.ended, new.error = "no error",
         new.curly = Curly(At), new.square = Square(At),
         text[At] = "}" => Curly(At) > 0,
         text[At] = "]" => Square(At) >= 0,
         Token(new, At + 1, 1)
  PROVE  Outcome
<1>1. /\ At \in Nat \ {0} /\ text[At] \in S /\ Judged(At - 1) /\ Outside(At)
      /\ At + 1 \in 1 .. (End + 1) /\ At + 1 <= End /\ (At + 1) - 1 = At
  BY Seen
<1>2. IsBracket(At)
  BY <1>1 DEF IsBracket
<1>3. Judged(At)
  BY <1>1, <1>2, JudgedBehind
<1>4. Outside(At + 1)
  <2>1. At \in Nat /\ At + 1 \in Nat /\ At <= At + 1 /\ \A k \in At .. ((At + 1) - 1) : k = At
    BY <1>1, NextPlace
  <2>2. \A k \in At .. ((At + 1) - 1) : text[k] # "QUOTE"
    BY <1>1, <2>1 DEF Brackets4
  <2>3. QED
    BY <1>1, <2>1, <2>2, NoQuoteBetween
<1>5. Progress(new, At + 1)
  BY <1>1, <1>3, <1>4 DEF Progress
<1>6. QED
  BY <1>1, <1>5, TokenGoesOn

LEMMA OpenBracketKeeps ==
  ASSUME CleanTurn, OpenBracket("{", "curly") \/ OpenBracket("[", "square")
  PROVE  Outcome
<1>1. CASE OpenBracket("{", "curly")
  <2> DEFINE new == [Skip(At) EXCEPT !.depth = @ + 1, !["curly"] = @ + 1]
  <2>1. Sees({"{"}) /\ Token(new, At + 1, 1)
    BY <1>1 DEF OpenBracket
  <2>2. /\ At \in Nat \ {0} /\ text[At] = "{" /\ Outside(At)
        /\ Skip(At).curly = Curly(At - 1) /\ Skip(At).square = Square(At - 1)
        /\ DOMAIN Skip(At) = Fields /\ ~Skip(At).ended /\ Skip(At).error = "no error"
    BY <2>1, SeenOne
  <2>3. /\ DOMAIN new = Fields /\ ~new.ended /\ new.error = "no error"
        /\ new.curly = Curly(At - 1) + 1 /\ new.square = Square(At - 1)
    BY <2>2 DEF Fields
  <2>4. Curly(At) = Curly(At - 1) + 1 /\ Square(At) = Square(At - 1)
    <3>1. IsBracket(At)
      BY <2>2 DEF IsBracket, Brackets4
    <3>2. QED
      BY <2>2, <3>1, OneBracket
  <2> HIDE DEF new
  <2>5. {"{"} \in SUBSET Brackets4
    BY DEF Brackets4
  <2>6. QED
    BY <2>1, <2>2, <2>3, <2>4, <2>5, BracketToken
<1>2. CASE OpenBracket("[", "square")
  <2> DEFINE new == [Skip(At) EXCEPT !.depth = @ + 1, !["square"] = @ + 1]
  <2>1. Sees({"["}) /\ Token(new, At + 1, 1)
    BY <1>2 DEF OpenBracket
  <2>2. /\ At \in Nat \ {0} /\ text[At] = "[" /\ Outside(At)
        /\ Skip(At).curly = Curly(At - 1) /\ Skip(At).square = Square(At - 1)
        /\ DOMAIN Skip(At) = Fields /\ ~Skip(At).ended /\ Skip(At).error = "no error"
    BY <2>1, SeenOne
  <2>3. /\ DOMAIN new = Fields /\ ~new.ended /\ new.error = "no error"
        /\ new.curly = Curly(At - 1) /\ new.square = Square(At - 1) + 1
    BY <2>2 DEF Fields
  <2>4. Curly(At) = Curly(At - 1) /\ Square(At) = Square(At - 1) + 1
    <3>1. IsBracket(At)
      BY <2>2 DEF IsBracket, Brackets4
    <3>2. QED
      BY <2>2, <3>1, OneBracket
  <2> HIDE DEF new
  <2>5. {"["} \in SUBSET Brackets4
    BY DEF Brackets4
  <2>6. QED
    BY <2>1, <2>2, <2>3, <2>4, <2>5, BracketToken
<1>3. QED
  BY <1>1, <1>2

LEMMA CloseBracketKeeps ==
  ASSUME CleanTurn, CloseBracket("}", "curly") \/ CloseBracket("]", "square")
  PROVE  Outcome
<1>1. CASE CloseBracket("}", "curly")
  <2> DEFINE new == [Skip(At) EXCEPT !.depth = @ - 1, !["curly"] = @ - 1]
  <2>1. Sees({"}"}) /\ Token(new, At + 1, 1) /\ context.curly > 0 /\ context.curly # 1
    BY <1>1 DEF CloseBracket
  <2>2. /\ At \in Nat \ {0} /\ text[At] = "}" /\ Outside(At)
        /\ Skip(At).curly = Curly(At - 1) /\ Skip(At).square = Square(At - 1)
        /\ DOMAIN Skip(At) = Fields /\ ~Skip(At).ended /\ Skip(At).error = "no error"
        /\ context.curly = Curly(At - 1)
    BY <2>1, SeenOne
  <2>3. /\ DOMAIN new = Fields /\ ~new.ended /\ new.error = "no error"
        /\ new.curly = Curly(At - 1) - 1 /\ new.square = Square(At - 1)
    BY <2>2 DEF Fields
  <2>4. Curly(At) = Curly(At - 1) - 1 /\ Square(At) = Square(At - 1)
    <3>1. IsBracket(At)
      BY <2>2 DEF IsBracket, Brackets4
    <3>2. QED
      BY <2>2, <3>1, OneBracket
  <2> HIDE DEF new
  <2>5. {"}"} \in SUBSET Brackets4
    BY DEF Brackets4
  <2>6. Curly(At) > 0
    <3>1. Curly(At - 1) \in Int
      BY <2>1, SeenOne
    <3>2. Curly(At - 1) > 0 /\ Curly(At - 1) # 1
      BY <2>1, <2>2
    <3>3. QED
      BY <2>4, <3>1, <3>2, OneLess
  <2>7. QED
    BY <2>1, <2>2, <2>3, <2>4, <2>5, <2>6, BracketToken
<1>2. CASE CloseBracket("]", "square")
  <2> DEFINE new == [Skip(At) EXCEPT !.depth = @ - 1, !["square"] = @ - 1]
  <2>1. Sees({"]"}) /\ Token(new, At + 1, 1) /\ context["square"] > 0
    BY <1>2 DEF CloseBracket
  <2>2. /\ At \in Nat \ {0} /\ text[At] = "]" /\ Outside(At)
        /\ Skip(At).curly = Curly(At - 1) /\ Skip(At).square = Square(At - 1)
        /\ DOMAIN Skip(At) = Fields /\ ~Skip(At).ended /\ Skip(At).error = "no error"
        /\ context.square = Square(At - 1)
    BY <2>1, SeenOne
  <2>3. /\ DOMAIN new = Fields /\ ~new.ended /\ new.error = "no error"
        /\ new.curly = Curly(At - 1) /\ new.square = Square(At - 1) - 1
    BY <2>2 DEF Fields
  <2>4. Curly(At) = Curly(At - 1) /\ Square(At) = Square(At - 1) - 1
    <3>1. IsBracket(At)
      BY <2>2 DEF IsBracket, Brackets4
    <3>2. QED
      BY <2>2, <3>1, OneBracket
  <2> HIDE DEF new
  <2>5. {"]"} \in SUBSET Brackets4
    BY DEF Brackets4
  <2>6. Square(At) >= 0
    <3>1. Square(At - 1) \in Int
      BY <2>1, SeenOne
    <3>2. Square(At - 1) > 0
      BY <2>1, <2>2
    <3>3. QED
      BY <2>4, <3>1, <3>2, OneLess
  <2>7. QED
    BY <2>1, <2>2, <2>3, <2>4, <2>5, <2>6, BracketToken
<1>3. QED
  BY <1>1, <1>2

LEMMA EndObjectKeeps == ASSUME CleanTurn, EndObject PROVE Outcome
<1> DEFINE new == [Skip(At) EXCEPT !.ended = TRUE]
<1>1. Sees({"}"}) /\ Token(new, At, 0) /\ context.curly = 1
  BY DEF EndObject
<1>2. /\ At \in DOMAIN text /\ At \in Nat \ {0} /\ text[At] = "}" /\ Outside(At) /\ Judged(At - 1)
      /\ DOMAIN Skip(At) = Fields /\ Skip(At).error = "no error"
      /\ context.curly = Curly(At - 1)
  BY <1>1, SeenOne
<1>3. DOMAIN new = Fields /\ new.ended /\ new.error = "no error"
  BY <1>2 DEF Fields
<1> HIDE DEF new
<1>4. /\ context' = new /\ pc' = "idle" /\ result' = "no error"
      /\ UNCHANGED <<text, head, parses, start>>
  BY <1>1, <1>3 DEF Token, Return
<1>5. Curly(At) = 0
  <2>1. IsBracket(At)
    BY <1>2 DEF IsBracket, Brackets4
  <2>2. Curly(At) = Curly(At - 1) - 1
    BY <1>2, <2>1, OneBracket
  <2>3. Curly(At - 1) = 1
    BY <1>1, <1>2
  <2>4. QED
    BY <2>2, <2>3
<1>6. ClosesAll(At)
  BY <1>2, <1>5 DEF ClosesAll, Curly
<1>7. EndsTheObject
  BY <1>2, <1>3, <1>4, <1>6 DEF EndsTheObject
<1>8. QED
  BY <1>3, <1>4, <1>7 DEF Outcome, CleanTurn

LEMMA ExtraBracketKeeps ==
  ASSUME CleanTurn, ExtraBracket("}", "curly") \/ ExtraBracket("]", "square")
  PROVE  Outcome
<1>1. Fails("invalid bracket sequence")
  BY DEF ExtraBracket
<1>2. /\ text' = text /\ head' = head /\ start' = start /\ parses' = parses
      /\ pc' = "idle" /\ result' = "invalid bracket sequence"
      /\ DOMAIN context' = Fields /\ ~context'.ended
  BY <1>1, FailsGivesUp
<1>3. CASE ExtraBracket("}", "curly")
  <2>1. Sees({"}"}) /\ context.curly = 0
    BY <1>3 DEF ExtraBracket
  <2>2. /\ At \in DOMAIN text /\ At \in Nat \ {0} /\ text[At] = "}" /\ Outside(At)
        /\ context.curly = Curly(At - 1)
    BY <2>1, SeenOne
  <2>3. Curly(At) = Curly(At - 1) - 1
    <3>1. IsBracket(At)
      BY <2>2 DEF IsBracket, Brackets4
    <3>2. QED
      BY <2>2, <3>1, OneBracket
  <2>4. Curly(At) < 0
    BY <2>1, <2>2, <2>3, NoneLess
  <2>5. ClosesNothing("{", "}", At)
    BY <2>2, <2>4 DEF ClosesNothing, Curly
  <2>6. Blames
    BY <1>2, <2>2, <2>5 DEF Blames
  <2>7. QED
    BY <1>2, <2>6 DEF Outcome, CleanTurn
<1>4. CASE ExtraBracket("]", "square")
  <2>1. Sees({"]"}) /\ context.square = 0
    BY <1>4 DEF ExtraBracket
  <2>2. /\ At \in DOMAIN text /\ At \in Nat \ {0} /\ text[At] = "]" /\ Outside(At)
        /\ context.square = Square(At - 1)
    BY <2>1, SeenOne
  <2>3. Square(At) = Square(At - 1) - 1
    <3>1. IsBracket(At)
      BY <2>2 DEF IsBracket, Brackets4
    <3>2. QED
      BY <2>2, <3>1, OneBracket
  <2>4. Square(At) < 0
    BY <2>1, <2>2, <2>3, NoneLess
  <2>5. ClosesNothing("[", "]", At)
    BY <2>2, <2>4 DEF ClosesNothing, Square
  <2>6. Blames
    BY <1>2, <2>2, <2>5 DEF Blames
  <2>7. QED
    BY <1>2, <2>6 DEF Outcome, CleanTurn
<1>5. QED
  BY <1>3, <1>4


LEMMA StringSpans ==
  ASSUME NEW n \in Nat, NEW a \in 1 .. n, NEW c \in 1 .. (n + 1), a + 1 <= c,
         NEW upto, upto = IF c = n + 1 THEN n ELSE c
  PROVE  /\ a - 1 \in Nat /\ upto \in Nat /\ a - 1 <= upto
         /\ \A i \in ((a - 1) + 1) .. upto : i = a \/ i \in (a + 1) .. c
         /\ \A i \in (a + 1) .. c : a + 1 \in Nat /\ i \in Nat /\ a + 1 <= i
         /\ c + 1 \in 1 .. (n + 2)
         /\ c # n + 1 => /\ upto = c /\ (c + 1) - 1 = c /\ c + 1 <= n + 1
                         /\ c \in Nat \ {0} /\ c \in (a + 1) .. c /\ c \in 1 .. n
  OBVIOUS

\* The symbols of a string.
CloseOf(a) == Past(a + 1, Symbols \ {"QUOTE"})

LEMMA StringIs ==
  ASSUME text \in Seq(Symbols), NEW a \in DOMAIN text, text[a] = "QUOTE", Outside(a)
  PROVE  /\ CloseOf(a) \in 1 .. End /\ a + 1 <= CloseOf(a)
         /\ \A i \in (a + 1) .. (CloseOf(a) - 1) : text[i] # "QUOTE"
         /\ \A i \in (a + 1) .. CloseOf(a) : ~Outside(i)
         /\ CloseOf(a) # End => /\ text[CloseOf(a)] = "QUOTE" /\ CloseOf(a) \in DOMAIN text
                                /\ Outside(CloseOf(a) + 1)
<1> DEFINE close == CloseOf(a)
<1>1. /\ Len(text) \in Nat /\ End = Len(text) + 1 /\ End \in Nat
      /\ DOMAIN text = 1 .. Len(text) /\ a \in Nat \ {0} /\ a \in Nat
  BY Ends
<1>2. a + 1 \in 1 .. (End + 1) /\ a + 1 <= End /\ a + 1 \in Nat
  BY <1>1
<1>3. /\ close \in 1 .. End /\ a + 1 <= close
      /\ \A i \in (a + 1) .. (close - 1) : i \in DOMAIN text /\ text[i] \in Symbols \ {"QUOTE"}
      /\ close # End => text[close] \notin Symbols \ {"QUOTE"}
  BY <1>2, PastIs DEF CloseOf
<1> HIDE DEF close
<1>4. close # End => text[close] = "QUOTE" /\ close \in DOMAIN text
  <2>1. close # End => close \in DOMAIN text
    BY <1>1, <1>3
  <2>2. close # End => text[close] \in Symbols
    BY <2>1
  <2>3. QED
    BY <1>3, <2>1, <2>2
<1>5. ~Outside(a + 1)
  BY <1>1, QuoteToggles
<1>6. \A i \in (a + 1) .. close : ~Outside(i)
  <2>1. ASSUME NEW i \in (a + 1) .. close
        PROVE  ~Outside(i)
    <3>1. i \in Nat /\ a + 1 <= i /\ \A k \in (a + 1) .. (i - 1) : k \in (a + 1) .. (close - 1)
      BY <1>1, <1>3
    <3>2. \A k \in (a + 1) .. (i - 1) : text[k] # "QUOTE"
      BY <1>3, <3>1
    <3>3. QED
      BY <1>2, <1>5, <3>1, <3>2, NoQuoteBetween
  <2>2. QED
    BY <2>1
<1>7. close # End => Outside(close + 1)
  <2>1. close \in (a + 1) .. close /\ close \in Nat \ {0}
    BY <1>1, <1>3
  <2>2. QED
    BY <1>4, <1>6, <2>1, QuoteToggles
<1>8. QED
  BY <1>3, <1>4, <1>6, <1>7 DEF close

LEMMA ReadStringKeeps == ASSUME CleanTurn, ReadString PROVE Outcome
<1> DEFINE close == CloseOf(At)
           upto == IF close = End THEN Len(text) ELSE close
<1>1. Sees({"QUOTE"}) /\ Token(Skip(At), close + 1, WidthOf(At + 1, close))
  BY DEF ReadString, CloseOf
<1>2. /\ At \in DOMAIN text /\ At \in Nat \ {0} /\ text[At] = "QUOTE"
      /\ Judged(At - 1) /\ Outside(At)
      /\ Skip(At).curly = Curly(At - 1) /\ Skip(At).square = Square(At - 1)
      /\ DOMAIN Skip(At) = Fields /\ ~Skip(At).ended /\ Skip(At).error = "no error"
  BY <1>1, SeenOne
<1>3. /\ text \in Seq(Symbols) /\ Len(text) \in Nat /\ End = Len(text) + 1
      /\ DOMAIN text = 1 .. Len(text) /\ End \in Nat
  BY Ends DEF CleanTurn
<1>4. /\ close \in 1 .. End /\ At + 1 <= close
      /\ \A i \in (At + 1) .. close : ~Outside(i)
      /\ close # End => Outside(close + 1)
  BY <1>2, <1>3, StringIs
<1> HIDE DEF close
<1>5. /\ At - 1 \in Nat /\ upto \in Nat /\ At - 1 <= upto
      /\ \A i \in ((At - 1) + 1) .. upto : i = At \/ i \in (At + 1) .. close
      /\ \A i \in (At + 1) .. close : At + 1 \in Nat /\ i \in Nat /\ At + 1 <= i
      /\ close # End => /\ upto = close /\ (close + 1) - 1 = close /\ close + 1 <= End
                        /\ close \in Nat \ {0} /\ close \in (At + 1) .. close
  <2> DEFINE n == Len(text)
  <2>1. n \in Nat /\ At \in 1 .. n /\ close \in 1 .. (n + 1) /\ At + 1 <= close /\ End = n + 1
    BY <1>2, <1>3, <1>4
  <2>2. upto = IF close = n + 1 THEN n ELSE close
    BY <1>3
  <2> HIDE DEF n, upto
  <2>3. QED
    BY <2>1, <2>2, StringSpans
<1>6. \A i \in ((At - 1) + 1) .. upto : ~IsBracket(i)
  BY <1>2, <1>4, <1>5 DEF IsBracket, Brackets4
<1> HIDE DEF upto
<1>7. /\ Judged(upto) /\ Curly(upto) = Curly(At - 1) /\ Square(upto) = Square(At - 1)
  BY <1>2, <1>5, <1>6, NoBracketBetween
<1>8. close + 1 \in 1 .. (End + 1)
  BY <1>3, <1>4
<1>9. Progress(Skip(At), close + 1)
  <2>1. CASE close = End
    <3>1. upto = Len(text) /\ ~(close + 1 <= End)
      BY <1>3, <2>1 DEF upto
    <3>2. QED
      BY <1>2, <1>7, <3>1 DEF Progress
  <2>2. CASE close # End
    <3>1. upto = close /\ (close + 1) - 1 = close /\ close + 1 <= End /\ close \in Nat \ {0}
          /\ close \in (At + 1) .. close
      BY <1>5, <2>2
    <3>2. Outside(close + 1)
      BY <1>4, <2>2
    <3>3. QED
      BY <1>2, <1>7, <3>1, <3>2 DEF Progress
  <2>3. QED
    BY <2>1, <2>2
<1>10. QED
  BY <1>1, <1>2, <1>8, <1>9, TokenGoesOn

\* Tokens that hold neither brackets nor quotes.
LEMMA ReadPlainKeeps ==
  ASSUME CleanTurn, ReadNumber \/ ReadDelimiter \/ ReadWord
  PROVE  Outcome
<1>1. CASE ReadNumber
  <2> DEFINE next == Past(At, Digits \union {"."})
  <2>1. Sees(Digits) /\ Token(Skip(At), next, next - At)
    BY <1>1 DEF ReadNumber
  <2>2. At \in Nat \ {0} /\ At + 1 <= End
    BY <2>1, Seen
  <2>3. At \in 1 .. (End + 1) /\ At <= End
    BY <2>2, Ends DEF CleanTurn
  <2>4. /\ next \in 1 .. End /\ At <= next
        /\ \A i \in At .. (next - 1) : text[i] \in Digits \union {"."}
    BY <2>3, PastIs DEF CleanTurn
  <2> HIDE DEF next
  <2>5. \A i \in At .. (next - 1) : text[i] \notin Brackets4 \union {"QUOTE"}
    BY <2>4 DEF Digits, Brackets4
  <2>6. QED
    BY <2>1, <2>4, <2>5, PlainToken
<1>2. ASSUME NEW S, Sees(S), NEW width, Token(Skip(At), At + 1, width),
             S \intersect (Brackets4 \union {"QUOTE"}) = {}
      PROVE  Outcome
  <2>1. At \in Nat \ {0} /\ text[At] \in S /\ At + 1 <= End
    BY <1>2, Seen
  <2>2. At + 1 \in 1 .. End /\ At <= At + 1 /\ \A i \in At .. ((At + 1) - 1) : i = At
    BY <2>1, Ends DEF CleanTurn
  <2>3. \A i \in At .. ((At + 1) - 1) : text[i] \notin Brackets4 \union {"QUOTE"}
    BY <1>2, <2>1, <2>2
  <2>4. QED
    BY <1>2, <2>2, <2>3, PlainToken
<1>3. CASE ReadDelimiter
  <2>1. Sees({":", ","}) /\ Token(Skip(At), At + 1, 1)
    BY <1>3 DEF ReadDelimiter
  <2>2. {":", ","} \intersect (Brackets4 \union {"QUOTE"}) = {}
    BY DEF Brackets4
  <2>3. QED
    BY <1>2, <2>1, <2>2
<1>4. CASE ReadWord
  <2>1. Sees(Words) /\ Token(Skip(At), At + 1, Width(text[At]))
    BY <1>4 DEF ReadWord
  <2>2. Words \intersect (Brackets4 \union {"QUOTE"}) = {}
    BY DEF Brackets4, Words
  <2>3. QED
    BY <1>2, <2>1, <2>2
<1>5. QED
  BY <1>1, <1>3, <1>4

\* What the parser stands at when it gives up is in front of every bracket
\* that closes the first object.
LEMMA OtherIsLoose ==
  ASSUME CleanTurn, Sees(Others), Apart(At)
  PROVE  \A k \in DOMAIN text : ClosesAll(k) => Loose(k)
<1>1. At \in DOMAIN text /\ At \in Nat \ {0} /\ text[At] \in Others
  BY Seen
<1>2. head <= End /\ Judged(At - 1) /\ Outside(At)
  <2>1. At # End
    BY Ends DEF Sees, CleanTurn
  <2>2. QED
    BY <2>1, BlanksAreSkipped DEF CleanTurn
<1>3. "}" \notin Others
  BY DEF Others
<1>4. \A k : ClosesAll(k) => text[k] = "}"
  BY DEF ClosesAll
<1>5. \A k \in 1 .. (At - 1) : ~ClosesAll(k)
  BY <1>2 DEF Judged
<1>6. ASSUME NEW k \in DOMAIN text, ClosesAll(k)
      PROVE  Loose(k)
  <2>1. k # At
    BY <1>1, <1>3, <1>4, <1>6
  <2>2. k \notin 1 .. (At - 1)
    BY <1>5, <1>6
  <2>3. DOMAIN text = 1 .. Len(text) /\ Len(text) \in Nat
    BY Ends DEF CleanTurn
  <2> DEFINE a == At
  <2>4. k # a /\ k \notin 1 .. (a - 1) /\ k \in 1 .. Len(text) /\ a \in Nat \ {0}
    BY <1>1, <2>1, <2>2, <2>3
  <2> HIDE DEF a
  <2>5. a \in 1 .. (k - 1)
    BY <2>3, <2>4
  <2>6. QED
    BY <1>1, <1>2, <2>5 DEF Loose, a
<1>7. QED
  BY <1>6

LEMMA GivingUpKeeps ==
  ASSUME CleanTurn, ReadBadWord \/ ReadOther
  PROVE  Outcome
<1>1. CASE ReadBadWord
  <2>1. Fails("invalid token")
    BY <1>1 DEF ReadBadWord
  <2>2. QED
    BY <2>1, FailsGivesUp DEF Outcome, GivesUp, CleanTurn
<1>2. CASE ReadOther
  <2>1. DOMAIN Skip(At) = Fields /\ ~Skip(At).ended
    BY SkipKeeps DEF CleanTurn, Progress
  <2>2. CASE context' = Skip(At) /\ Return("unhandled token")
    <3>1. context' = Skip(At) /\ pc' = "idle" /\ result' = "unhandled token"
          /\ UNCHANGED <<text, head, parses, start>>
      BY <2>2 DEF Return
    <3>2. QED
      BY <2>1, <3>1 DEF Outcome, GivesUp, CleanTurn
  <2>3. CASE ~(context' = Skip(At) /\ Return("unhandled token"))
    <3>1. /\ Sees(Others) /\ Apart(At) /\ pc' = "undefined"
          /\ UNCHANGED <<context, text, head, result, parses, start>>
      BY <1>2, <2>3 DEF ReadOther
    <3>2. RunsOn
      BY <3>1, OtherIsLoose DEF RunsOn
    <3>3. QED
      BY <3>1, <3>2 DEF Outcome, CleanTurn
  <2>4. QED
    BY <2>2, <2>3
<1>3. QED
  BY <1>1, <1>2

LEMMA ReadBehindKeeps == ASSUME CleanTurn, ReadBehind PROVE Outcome
<1>0. /\ text \in Seq(Symbols) /\ Len(text) \in Nat /\ End = Len(text) + 1
      /\ DOMAIN text = 1 .. Len(text) /\ End \in Nat
  BY Ends DEF CleanTurn
<1>1. CASE pc' = "idle"
  <2>1. /\ context' = (IF head > End THEN context ELSE Skip(At))
        /\ result' = "unhandled token"
        /\ UNCHANGED <<text, head, parses, start>>
    BY <1>1 DEF ReadBehind, Return
  <2>2. DOMAIN context' = Fields /\ ~context'.ended
    <3>1. DOMAIN Skip(At) = Fields /\ ~Skip(At).ended
      BY SkipKeeps DEF CleanTurn, Progress
    <3>2. DOMAIN context = Fields /\ ~context.ended
      BY DEF CleanTurn, Progress
    <3>3. context' = context \/ context' = Skip(At)
      BY <2>1
    <3>4. QED
      BY <3>1, <3>2, <3>3
  <2>3. QED
    BY <1>1, <2>1, <2>2 DEF Outcome, GivesUp, CleanTurn
<1>2. CASE pc' # "idle"
  <2>1. /\ At = End \/ (Sees({"fals"}) /\ At = Len(text))
        /\ pc' = "undefined"
        /\ UNCHANGED <<context, text, head, parses, start>>
    BY <1>2 DEF ReadBehind, Return
  <2>2. Judged(Len(text))
    <3>1. CASE At = End
      BY <3>1, BlanksAreSkipped DEF CleanTurn
    <3>2. CASE Sees({"fals"}) /\ At = Len(text)
      <4>1. /\ At \in Nat \ {0} /\ text[At] = "fals" /\ Judged(At - 1)
        BY <3>2, SeenOne
      <4>2. /\ At - 1 \in Nat /\ At \in Nat /\ At - 1 <= At
            /\ \A i \in ((At - 1) + 1) .. At : i = At
        BY <4>1, Places
      <4>3. \A i \in ((At - 1) + 1) .. At : ~IsBracket(i)
        BY <4>1, <4>2 DEF IsBracket, Brackets4
      <4>4. Judged(At)
        BY <4>1, <4>2, <4>3, NoBracketBetween
      <4>5. QED
        BY <3>2, <4>4
    <3>3. QED
      BY <2>1, <3>1, <3>2
  <2>3. \A k \in DOMAIN text : ~ClosesAll(k)
    BY <1>0, <2>2 DEF Judged
  <2>4. QED
    BY <2>1, <2>3 DEF Outcome, RunsOn, CleanTurn
<1>3. QED
  BY <1>1, <1>2

LEMMA TurnKeeps == ASSUME CleanTurn, Turn PROVE Outcome
<1>1. ASSUME Brackets PROVE Outcome
  <2>1. PICK b \in {<<"{", "}", "curly">>, <<"[", "]", "square">>} :
           OpenBracket(b[1], b[3]) \/ CloseBracket(b[2], b[3]) \/ ExtraBracket(b[2], b[3])
    BY <1>1 DEF Brackets
  <2>2. CASE b = <<"{", "}", "curly">>
    <3>1. b[1] = "{" /\ b[2] = "}" /\ b[3] = "curly"
      BY <2>2
    <3>2. \/ OpenBracket("{", "curly") \/ CloseBracket("}", "curly")
          \/ ExtraBracket("}", "curly")
      BY <2>1, <3>1, Zenon
    <3>3. QED
      BY <3>2, OpenBracketKeeps, CloseBracketKeeps, ExtraBracketKeeps
  <2>3. CASE b = <<"[", "]", "square">>
    <3>1. b[1] = "[" /\ b[2] = "]" /\ b[3] = "square"
      BY <2>3
    <3>2. \/ OpenBracket("[", "square") \/ CloseBracket("]", "square")
          \/ ExtraBracket("]", "square")
      BY <2>1, <3>1, Zenon
    <3>3. QED
      BY <3>2, OpenBracketKeeps, CloseBracketKeeps, ExtraBracketKeeps
  <2>4. QED
    BY <2>2, <2>3
<1>2. QED
  BY <1>1, EndObjectKeeps, ReadStringKeeps, ReadPlainKeeps, GivingUpKeeps, ReadBehindKeeps
     DEF Turn


ParserInv ==
    /\ text \in Seq(Symbols)
    /\ parses \in Nat
    /\ DOMAIN context = Fields
    /\ Clean => head \in 1 .. (End + 1)
    /\ pc = "parsing" /\ Clean => Progress(context, head)
    /\ EndIsTheFirstObjects
    /\ ReadsBehindBeforeTheEnd
    /\ BracketsAreJudged

\* A turn leaves the text alone, and what is said of its places.
LEMMA SameOutside == ASSUME text' = text, NEW i PROVE Outside(i)' <=> Outside(i)
  BY DEF Outside

LEMMA SameCount == ASSUME text' = text, NEW s, NEW k PROVE Count(s, k)' = Count(s, k)
<1>1. {i \in 1 .. k : text[i] = s /\ Outside(i)}' = {i \in 1 .. k : text[i] = s /\ Outside(i)}
  BY SameOutside
<1>2. QED
  BY <1>1 DEF Count

LEMMA SamePlaces ==
  ASSUME text' = text, NEW k
  PROVE  /\ ClosesAll(k)' <=> ClosesAll(k)
         /\ \A l, r : ClosesNothing(l, r, k)' <=> ClosesNothing(l, r, k)
         /\ Curly(k)' = Curly(k) /\ Square(k)' = Square(k)
         /\ Loose(k)' <=> Loose(k)
<1>1. \A l, r : OpenAt(l, r, k)' = OpenAt(l, r, k)
  BY SameCount DEF OpenAt
<1>2. QED
  BY <1>1, SameOutside DEF ClosesAll, ClosesNothing, Curly, Square, Loose, Apart

LEMMA SameJudged == ASSUME text' = text, NEW k PROVE Judged(k)' <=> Judged(k)
  BY SamePlaces DEF Judged

LEMMA SameProgress ==
  ASSUME text' = text, Progress(context', head')
  PROVE  Progress(context, head)'
<1>1. End' = End /\ Len(text') = Len(text)
  BY DEF End
<1>2. \A k : Judged(k)' <=> Judged(k)
  BY SameJudged
<1>3. \A i : Outside(i)' <=> Outside(i)
  BY SameOutside
<1>4. \A k : Curly(k)' = Curly(k) /\ Square(k)' = Square(k)
  BY SamePlaces
<1>5. QED
  BY <1>1, <1>2, <1>3, <1>4 DEF Progress

\* Whatever a parse starts from, the context keeps its fields.
LEMMA FieldsStay == ASSUME DOMAIN context = Fields, Turn PROVE DOMAIN context' = Fields
<1>1. DOMAIN Skip(At) = Fields
  BY SkipKeeps
<1>2. ASSUME NEW new, NEW next, NEW width, DOMAIN new = Fields, Token(new, next, width)
      PROVE  DOMAIN context' = Fields
  BY <1>2 DEF Token
<1>3. ASSUME NEW error, Fails(error)
      PROVE  DOMAIN context' = Fields
  BY <1>1, <1>3 DEF Fails
<1>4. ASSUME NEW bracket, NEW kind, OpenBracket(bracket, kind)
      PROVE  DOMAIN context' = Fields
  <2>1. DOMAIN [Skip(At) EXCEPT !.depth = @ + 1, ![kind] = @ + 1] = Fields
    BY <1>1
  <2>2. QED
    BY <1>2, <1>4, <2>1 DEF OpenBracket
<1>5. ASSUME NEW bracket, NEW kind, CloseBracket(bracket, kind)
      PROVE  DOMAIN context' = Fields
  <2>1. DOMAIN [Skip(At) EXCEPT !.depth = @ - 1, ![kind] = @ - 1] = Fields
    BY <1>1
  <2>2. QED
    BY <1>2, <1>5, <2>1 DEF CloseBracket
<1>6. CASE Brackets
  BY <1>3, <1>4, <1>5, <1>6 DEF Brackets, ExtraBracket
<1>7. CASE EndObject
  <2>1. DOMAIN [Skip(At) EXCEPT !.ended = TRUE] = Fields
    BY <1>1
  <2>2. QED
    BY <1>2, <1>7, <2>1 DEF EndObject
<1>8. CASE ReadString
  BY <1>1, <1>2, <1>8 DEF ReadString
<1>9. CASE ReadNumber \/ ReadDelimiter \/ ReadWord
  BY <1>1, <1>2, <1>9 DEF ReadNumber, ReadDelimiter, ReadWord
<1>10. CASE ReadBadWord \/ ReadOther \/ ReadBehind
  BY <1>1, <1>3, <1>10 DEF ReadBadWord, ReadOther, ReadBehind
<1>11. QED
  BY <1>6, <1>7, <1>8, <1>9, <1>10 DEF Turn

LEMMA TurnStays == ASSUME ParserInv, Turn PROVE ParserInv'
<1>1. /\ pc = "parsing"
      /\ text' = text /\ start' = start /\ parses' = parses
      /\ Clean' <=> Clean
  BY DEF Turn, Brackets, OpenBracket, CloseBracket, ExtraBracket, EndObject,
     ReadString, ReadNumber, ReadDelimiter, ReadWord, ReadBadWord, ReadOther,
     ReadBehind, Sees, Token, Fails, Return, Clean
<1>2. End' = End
  BY <1>1 DEF End
<1>3. CASE Clean
  <2>1. CleanTurn
    BY <1>1, <1>3 DEF ParserInv, CleanTurn
  <2>2. Outcome
    BY <2>1, TurnKeeps
  <2>3. text' \in Seq(Symbols) /\ head' \in 1 .. (End' + 1) /\ DOMAIN context' = Fields
    BY <1>1, <1>2, <2>2 DEF ParserInv, Outcome
  <2>4. pc' = "parsing" => Progress(context, head)'
    BY <1>1, <2>2, SameProgress DEF Outcome, GoesOn, ReadsAll, EndsTheObject,
       Blames, GivesUp, RunsOn
  <2>5. EndIsTheFirstObjects'
    <3>1. ASSUME Returned', context'.ended
          PROVE  /\ result' = "no error"
                 /\ \E k \in DOMAIN text : ClosesAll(k) /\ Judged(k - 1)
      BY <2>2, <3>1 DEF Outcome, GoesOn, ReadsAll, EndsTheObject, Blames, GivesUp,
         RunsOn, Returned
    <3>2. ASSUME NEW k \in DOMAIN text, ClosesAll(k), Judged(k - 1)
          PROVE  /\ ClosesAll(k)'
                 /\ \A j \in 1 .. (k - 1) :
                       /\ ~ClosesAll(j)'
                       /\ ~ClosesNothing("{", "}", j)' /\ ~ClosesNothing("[", "]", j)'
      BY <1>1, <3>2, SamePlaces DEF Judged
    <3>3. QED
      BY <1>1, <3>1, <3>2 DEF EndIsTheFirstObjects
  <2>6. ReadsBehindBeforeTheEnd'
    <3>1. ASSUME pc' = "undefined"
          PROVE  \A k \in DOMAIN text : ClosesAll(k) => Loose(k)
      BY <2>2, <3>1 DEF Outcome, GoesOn, ReadsAll, EndsTheObject, Blames, GivesUp, RunsOn
    <3>2. \A k : (ClosesAll(k)' <=> ClosesAll(k)) /\ (Loose(k)' <=> Loose(k))
      BY <1>1, SamePlaces
    <3>3. \A k \in DOMAIN text' : pc' = "undefined" /\ ClosesAll(k)' => Loose(k)'
      BY <1>1, <3>1, <3>2
    <3>4. QED
      BY <3>3 DEF ReadsBehindBeforeTheEnd, Loose
  <2>7. BracketsAreJudged'
    <3>1. ASSUME Returned', result' = "invalid bracket sequence"
          PROVE  \E k \in DOMAIN text :
                    ClosesNothing("{", "}", k) \/ ClosesNothing("[", "]", k)
      BY <2>2, <3>1 DEF Outcome, GoesOn, ReadsAll, EndsTheObject, Blames, GivesUp,
         RunsOn, Returned
    <3>2. ASSUME Returned', result' = "no error", ~context'.ended
          PROVE  \A k \in DOMAIN text :
                    ~ClosesNothing("{", "}", k) /\ ~ClosesNothing("[", "]", k)
      <4>1. CASE ReadsAll
        <5>1. DOMAIN text = 1 .. Len(text)
          BY DEF ParserInv
        <5>2. QED
          BY <4>1, <5>1 DEF ReadsAll, Judged
      <4>2. QED
        BY <2>2, <3>2, <4>1 DEF Outcome, GoesOn, EndsTheObject, Blames, GivesUp,
           RunsOn, Returned
    <3>3. \A k, l, r : ClosesNothing(l, r, k)' <=> ClosesNothing(l, r, k)
      BY <1>1, SamePlaces
    <3>4. QED
      BY <1>1, <3>1, <3>2, <3>3 DEF BracketsAreJudged
  <2>8. QED
    BY <1>1, <2>3, <2>4, <2>5, <2>6, <2>7 DEF ParserInv
<1>4. CASE ~Clean
  <2>1. ~Clean' /\ ~Returned'
    BY <1>1, <1>4 DEF Returned
  <2>2. DOMAIN context' = Fields
    BY FieldsStay DEF ParserInv
  <2>3. QED
    BY <1>1, <2>1, <2>2 DEF ParserInv, EndIsTheFirstObjects,
       ReadsBehindBeforeTheEnd, BracketsAreJudged
<1>5. QED
  BY <1>3, <1>4

-----------------------------------------------------------------------------
(* From one parse() to the next *)

\* parse() begins, from a clean context.
BeginsClean ==
    /\ text \in Seq(Symbols) /\ head = 1
    /\ ~context.ended /\ context.error = "no error"
    /\ context.curly = 0 /\ context.square = 0

ReadSoFar == Progress(context, head)

LEMMA Zeros ==
  /\ 0 - 0 = 0 /\ 1 - 1 = 0 /\ 1 .. 0 = {}
  /\ \A n \in Nat : 1 <= n + 1
  OBVIOUS

LEMMA NothingRead == BeginsClean => ReadSoFar
<1> SUFFICES ASSUME BeginsClean PROVE ReadSoFar
  OBVIOUS
<1>1. 1 <= End /\ 1 - 1 = 0 /\ 1 .. 0 = {}
  BY Ends, Zeros DEF BeginsClean
<1>2. Judged(0)
  BY <1>1 DEF Judged
<1>3. Curly(0) = 0 /\ Square(0) = 0
  BY CountOfNothing, Zeros DEF Curly, Square, OpenAt
<1>4. QED
  BY <1>1, <1>2, <1>3, OutsideStarts DEF BeginsClean, ReadSoFar, Progress

LEMMA ParsesStays == ASSUME ParserInv, Parses PROVE ParserInv'
<1>1. PICK t \in Texts[parses + 1] : Parse(t)
  BY DEF Parses
<1>2. /\ text' = t /\ head' = 1 /\ pc' = "parsing" /\ context' = context /\ start' = context
  BY <1>1 DEF Parse
<1>3. text' \in Seq(Symbols)
  <2>1. parses \in Nat /\ parses < Len(Texts)
    BY DEF Parses, ParserInv
  <2>2. Texts \in Seq(SUBSET Seq(Symbols)) /\ parses + 1 \in 1 .. Len(Texts)
    BY <2>1, ParserAssumption
  <2>3. Texts[parses + 1] \in SUBSET Seq(Symbols)
    BY <2>2
  <2>4. QED
    BY <1>2, <2>3
<1>9. parses' \in Nat
  BY <1>1 DEF Parse, ParserInv
<1>4. End' + 1 \in Nat /\ head' \in 1 .. (End' + 1)
  BY <1>2, <1>3 DEF End
<1>5. Clean' => BeginsClean'
  BY <1>2, <1>3 DEF Clean, BeginsClean
<1>6. BeginsClean' => ReadSoFar'
  BY NothingRead, PTL
<1>7. pc' # "undefined" /\ ~Returned'
  BY <1>2 DEF Returned
<1>8. QED
  BY <1>2, <1>3, <1>9, <1>4, <1>5, <1>6, <1>7 DEF ParserInv, ReadSoFar, EndIsTheFirstObjects,
     ReadsBehindBeforeTheEnd, BracketsAreJudged

LEMMA ParserStarts == Init => ParserInv
<1> SUFFICES ASSUME Init PROVE ParserInv
  OBVIOUS
<1>1. pc = "idle" /\ parses = 0 /\ text = <<>> /\ head = 1
  BY DEF Init
<1>2. DOMAIN context = Fields
  BY DEF Init, Fields
<1>3. text \in Seq(Symbols) /\ head \in 1 .. (End + 1)
  BY <1>1 DEF End
<1>4. ~Returned
  BY <1>1 DEF Returned
<1>5. QED
  BY <1>1, <1>2, <1>3, <1>4 DEF ParserInv, EndIsTheFirstObjects,
     ReadsBehindBeforeTheEnd, BracketsAreJudged

LEMMA ParserStep == ParserInv /\ [Next]_vars => ParserInv'
<1> SUFFICES ASSUME ParserInv, [Next]_vars PROVE ParserInv'
  OBVIOUS
<1>1. CASE UNCHANGED vars
  <2>1. UNCHANGED <<context, text, head, pc, result, parses, start>>
    BY <1>1 DEF vars
  <2>2. /\ \A k : ClosesAll(k)' <=> ClosesAll(k)
        /\ \A k, l, r : ClosesNothing(l, r, k)' <=> ClosesNothing(l, r, k)
        /\ \A k : Loose(k)' <=> Loose(k)
    BY <2>1, SamePlaces
  <2>3. (Clean' <=> Clean) /\ (Returned' <=> Returned) /\ End' = End
    BY <2>1 DEF Clean, Returned, End
  <2>4. EndIsTheFirstObjects'
    BY <2>1, <2>2, <2>3 DEF ParserInv, EndIsTheFirstObjects
  <2>5. ReadsBehindBeforeTheEnd'
    BY <2>1, <2>2, <2>3 DEF ParserInv, ReadsBehindBeforeTheEnd, Loose
  <2>6. BracketsAreJudged'
    BY <2>1, <2>2, <2>3 DEF ParserInv, BracketsAreJudged
  <2>7. pc' = "parsing" /\ Clean' => Progress(context, head)'
    BY <2>1, <2>3, SameProgress DEF ParserInv
  <2>8. QED
    BY <2>1, <2>3, <2>4, <2>5, <2>6, <2>7 DEF ParserInv
<1>2. QED
  BY <1>1, TurnStays, ParsesStays DEF Next

\* The end of a text is found at the bracket that closes its first object.
THEOREM FirstObjectEndsTheText == Spec => []EndIsTheFirstObjects
<1>1. Spec => []ParserInv
  BY ParserStarts, ParserStep, PTL DEF Spec
<1>2. ParserInv => EndIsTheFirstObjects
  BY DEF ParserInv
<1>3. QED
  BY <1>1, <1>2, PTL

\* The parser reads behind a text only before it has come to the end of the
\* first object: there is none, or a symbol no token starts with is in front.
THEOREM CompleteObjectsAreSafe == Spec => []ReadsBehindBeforeTheEnd
<1>1. Spec => []ParserInv
  BY ParserStarts, ParserStep, PTL DEF Spec
<1>2. ParserInv => ReadsBehindBeforeTheEnd
  BY DEF ParserInv
<1>3. QED
  BY <1>1, <1>2, PTL

\* Brackets are blamed exactly when one closes nothing.
THEOREM VerdictOnBrackets == Spec => []BracketsAreJudged
<1>1. Spec => []ParserInv
  BY ParserStarts, ParserStep, PTL DEF Spec
<1>2. ParserInv => BracketsAreJudged
  BY DEF ParserInv
<1>3. QED
  BY <1>1, <1>2, PTL

-----------------------------------------------------------------------------
(* The second version *)

LEMMA SameOperators ==
  ASSUME NEW S
  PROVE  /\ Second!Cardinality(S) = Cardinality(S)
         /\ Second!Min(S) = Min(S)
         /\ Second!Max(S) = Max(S)
  BY DEF Second!Cardinality, Cardinality, Second!Min, Min, Second!Max, Max

\* The maximum of such a set is one of its members, and the greatest.
LEMMA MaxIsThere ==
  ASSUME NEW n \in Nat, NEW T \in SUBSET (0 .. n), T # {}
  PROVE  Max(T) \in T /\ \A y \in T : Max(T) >= y
<1> DEFINE Mirror == {k \in 0 .. n : n - k \in T}
<1>1. Mirror \in SUBSET Nat /\ Mirror # {}
  <2>1. PICK x \in T : TRUE
    OBVIOUS
  <2>2. n - x \in 0 .. n /\ n - (n - x) = x
    OBVIOUS
  <2>3. n - x \in Mirror
    BY <2>1, <2>2
  <2>4. \A k \in 0 .. n : k \in Nat
    OBVIOUS
  <2>5. QED
    BY <2>3, <2>4
<1>2. PICK k \in Mirror : \A y \in Mirror : k <= y
  BY <1>1, Least
<1>3. n - k \in T
  BY <1>2
<1>4. ASSUME NEW y \in T
      PROVE  n - k >= y
  <2>1. n - y \in 0 .. n /\ n - (n - y) = y
    OBVIOUS
  <2>2. k <= n - y
    BY <1>2, <2>1
  <2>3. k \in 0 .. n /\ y \in 0 .. n
    BY <1>2
  <2>4. QED
    BY <2>2, <2>3
<1>5. \E x \in T : \A y \in T : x >= y
  BY <1>3, <1>4
<1>6. QED
  BY <1>5 DEF Max

LEMMA MaxIsGreatest ==
  ASSUME NEW n \in Nat, NEW T \in SUBSET (1 .. n), T # {}
  PROVE  Max(T) \in T /\ \A y \in T : Max(T) >= y
<1>1. \A i \in 1 .. n : i \in 0 .. n
  OBVIOUS
<1>2. T \in SUBSET (0 .. n)
  BY <1>1
<1>3. QED
  BY <1>2, MaxIsThere

\* What tells a token that can be read from one that cannot.
Known == Second!Blanks \union Second!Specials

LEMMA Ends2 ==
  ASSUME text2 \in Seq(Second!Symbols)
  PROVE  /\ Len(text2) \in Nat /\ Second!End = Len(text2) + 1
         /\ Second!End \in Nat \ {0} /\ 1 \in 1 .. Second!End
         /\ DOMAIN text2 = 1 .. Len(text2)
  BY DEF Second!End

LEMMA PastIs2 ==
  ASSUME text2 \in Seq(Second!Symbols), NEW from \in 1 .. Second!End, NEW S
  PROVE  /\ Second!Past(from, S) \in from .. Second!End
         /\ \A i \in from .. (Second!Past(from, S) - 1) : i \in DOMAIN text2 /\ text2[i] \in S
         /\ Second!Past(from, S) # Second!End =>
               /\ Second!Past(from, S) \in DOMAIN text2
               /\ text2[Second!Past(from, S)] \notin S
<1> DEFINE T == {i \in from .. Len(text2) : text2[i] \notin S} \union {Second!End}
           p == Second!Past(from, S)
<1>1. /\ Len(text2) \in Nat /\ DOMAIN text2 = 1 .. Len(text2)
      /\ Second!End = Len(text2) + 1
  BY Ends2
<1>2. T \in SUBSET Nat /\ T # {}
  BY <1>1
<1>3. Min(T) \in T /\ \A y \in T : Min(T) <= y
  BY <1>2, MinIsLeast
<1>4. p = Min(T)
  BY SameOperators DEF Second!Past
<1>5. p \in T /\ \A y \in T : p <= y
  BY <1>3, <1>4
<1> HIDE DEF p
<1>6. p \in from .. Second!End
  BY <1>1, <1>5
<1>7. ASSUME NEW i \in from .. (p - 1)
      PROVE  i \in DOMAIN text2 /\ text2[i] \in S
  <2>1. i \in from .. Len(text2) /\ i < p
    BY <1>1, <1>6
  <2>2. i \notin T
    BY <1>5, <1>6, <2>1
  <2>3. QED
    BY <1>1, <2>1, <2>2
<1>8. p # Second!End => p \in DOMAIN text2 /\ text2[p] \notin S
  BY <1>1, <1>5
<1>9. QED
  BY <1>6, <1>7, <1>8 DEF p

\* Where all in front can be read, and this cannot, or is the end.
LEMMA StopIsHere ==
  ASSUME text2 \in Seq(Second!Symbols), NEW n \in 1 .. Second!End,
         \A i \in 1 .. (n - 1) : text2[i] \in Known,
         n # Second!End => text2[n] \notin Known
  PROVE  Second!Stop = n
<1> DEFINE p == Second!Stop
<1>1. Len(text2) \in Nat /\ Second!End = Len(text2) + 1 /\ 1 \in 1 .. Second!End
  BY Ends2
<1>2. /\ p \in 1 .. Second!End
      /\ \A i \in 1 .. (p - 1) : text2[i] \in Known
      /\ p # Second!End => text2[p] \notin Known
  BY <1>1, PastIs2 DEF Second!Stop, Known
<1> HIDE DEF p
<1>3. ~(p < n)
  <2>1. p < n => p \in 1 .. (n - 1) /\ p # Second!End
    BY <1>1, <1>2
  <2>2. QED
    BY <1>2, <2>1
<1>4. ~(n < p)
  <2>1. n < p => n \in 1 .. (p - 1) /\ n # Second!End
    BY <1>1, <1>2
  <2>2. QED
    BY <1>2, <2>1
<1>5. p = n
  BY <1>1, <1>2, <1>3, <1>4
<1>6. QED
  BY <1>5 DEF p

-----------------------------------------------------------------------------

\* All in front of the pointer could be read.
ReadInv ==
    /\ text2 \in Seq(Second!Symbols)
    /\ parses2 \in Nat
    /\ pc2 = "parsing" => /\ pointer \in 1 .. Second!End
                          /\ \A i \in 1 .. (pointer - 1) : text2[i] \in Known
    /\ Second!ReturnsAtTheFirstUnknown

LEMMA ReadStarts == Second!Init => ReadInv
  BY DEF Second!Init, ReadInv, Second!ReturnsAtTheFirstUnknown

\* What can be said when the next token has been found.
LEMMA AtNext ==
  ASSUME ReadInv, pc2 = "parsing"
  PROVE  /\ Second!At \in pointer .. Second!End /\ Second!At \in 1 .. Second!End
         /\ \A i \in 1 .. (Second!At - 1) : text2[i] \in Known
         /\ \A i \in pointer .. (Second!At - 1) : text2[i] \in Second!Blanks
         /\ Second!At # Second!End => /\ Second!At \in DOMAIN text2
                                      /\ text2[Second!At] \notin Second!Blanks
<1> DEFINE a == Second!At
<1>1. pointer \in 1 .. Second!End /\ \A i \in 1 .. (pointer - 1) : text2[i] \in Known
  BY DEF ReadInv
<1>2. /\ a \in pointer .. Second!End
      /\ \A i \in pointer .. (a - 1) : text2[i] \in Second!Blanks
      /\ a # Second!End => a \in DOMAIN text2 /\ text2[a] \notin Second!Blanks
  BY <1>1, PastIs2 DEF ReadInv, Second!At
<1> HIDE DEF a
<1>3. Second!End \in Nat
  BY Ends2 DEF ReadInv
<1>4. a \in 1 .. Second!End
  BY <1>1, <1>2, <1>3
<1>5. \A i \in 1 .. (a - 1) : i \in 1 .. (pointer - 1) \/ i \in pointer .. (a - 1)
  BY <1>1, <1>2, <1>3
<1>6. \A i \in 1 .. (a - 1) : text2[i] \in Known
  BY <1>1, <1>2, <1>5 DEF Known
<1>7. QED
  BY <1>2, <1>4, <1>6 DEF a

LEMMA SecondTurnReads == ReadInv /\ Second!Turn => ReadInv'
<1> SUFFICES ASSUME ReadInv, Second!Turn PROVE ReadInv'
  OBVIOUS
<1> DEFINE a == Second!At
<1>1. pc2 = "parsing" /\ text2' = text2 /\ parses2' = parses2 /\ after' = after
  BY DEF Second!Turn, Second!ReadSpecial, Second!ReadPlanned, Second!ReadInvalid,
     Second!ReadEnd, Second!Crash, Second!Sees, Second!Token
<1>2. /\ a \in 1 .. Second!End
      /\ \A i \in 1 .. (a - 1) : text2[i] \in Known
      /\ a # Second!End => /\ a \in DOMAIN text2
                           /\ text2[a] \notin Second!Blanks
  BY <1>1, AtNext
<1>3. Second!End' = Second!End /\ Second!Stop' = Second!Stop
  BY <1>1 DEF Second!End, Second!Stop, Second!Past
<1>4. Second!End \in Nat /\ DOMAIN text2 = 1 .. (Second!End - 1)
  BY Ends2 DEF ReadInv
<1>5. ASSUME NEW S, Second!Sees(S)
      PROVE  a # Second!End /\ text2[a] \in S
  BY <1>2, <1>4, <1>5 DEF Second!Sees
<1>6. ASSUME NEW kind, NEW next, Second!Token(kind, next)
      PROVE  last'.begin = a /\ pointer' = next
  BY <1>6 DEF Second!Token
<1>7. CASE Second!ReadSpecial
  <2>1. a # Second!End /\ text2[a] \in Second!Specials /\ pc2' = "parsing" /\ pointer' = a + 1
    BY <1>1, <1>5, <1>6, <1>7 DEF Second!ReadSpecial
  <2> HIDE DEF a
  <2>2. pointer' \in 1 .. Second!End /\ \A i \in 1 .. (pointer' - 1) : i = a \/ i \in 1 .. (a - 1)
    BY <1>2, <1>4, <2>1
  <2>3. \A i \in 1 .. (pointer' - 1) : text2[i] \in Known
    BY <1>2, <2>1, <2>2 DEF Known
  <2>4. QED
    BY <1>1, <1>3, <2>1, <2>2, <2>3 DEF ReadInv, Second!ReturnsAtTheFirstUnknown
<1>8. CASE Second!ReadPlanned \/ Second!ReadInvalid
  <2>1. /\ a # Second!End /\ text2[a] \in Second!Planned \union Second!Others
        /\ pc2' = "idle" /\ last'.begin = a
    BY <1>5, <1>6, <1>8 DEF Second!ReadPlanned, Second!ReadInvalid
  <2>2. text2[a] \notin Known
    BY <2>1 DEF Known, Second!Planned, Second!Others, Second!Blanks, Second!Specials
  <2>3. Second!Stop = a
    BY <1>2, <2>2, StopIsHere DEF ReadInv
  <2>4. QED
    BY <1>1, <1>3, <2>1, <2>3 DEF ReadInv, Second!ReturnsAtTheFirstUnknown
<1>9. CASE Second!ReadEnd \/ Second!Crash
  <2>1. /\ a = Second!End
        /\ \/ pc2' = "idle" /\ last'.begin = a /\ after \in Known
           \/ pc2' \in {"undefined", "crashed"}
    BY <1>6, <1>9 DEF Second!ReadEnd, Second!Crash, Known
  <2>2. Second!Stop = a
    BY <1>2, <2>1, StopIsHere DEF ReadInv
  <2>3. QED
    BY <1>1, <1>3, <2>1, <2>2 DEF ReadInv, Second!ReturnsAtTheFirstUnknown, Known
<1>10. QED
  BY <1>7, <1>8, <1>9 DEF Second!Turn

LEMMA GivenTexts ==
  ASSUME NEW n \in Nat, n < Len(Texts2), NEW t \in Texts2[n + 1]
  PROVE  t \in Seq(Second!Symbols)
<1>1. Texts2 \in Seq(SUBSET Seq(Second!Symbols)) /\ n + 1 \in 1 .. Len(Texts2)
  BY SecondParserAssumption
<1>2. Texts2[n + 1] \in SUBSET Seq(Second!Symbols)
  BY <1>1
<1>3. QED
  BY <1>2

LEMMA ReadStep ==
  ReadInv /\ [Second!Next]_(Second!vars) => ReadInv'
<1> SUFFICES ASSUME ReadInv, [Second!Next]_(Second!vars) PROVE ReadInv'
  OBVIOUS
<1>1. CASE Second!Turn
  BY <1>1, SecondTurnReads
<1>2. CASE Second!Parses
  <2>1. PICK t \in Texts2[parses2 + 1], b \in Afters : Second!Parse(t, b)
    BY <1>2 DEF Second!Parses
  <2>2. parses2 \in Nat /\ parses2 < Len(Texts2)
    BY <1>2 DEF Second!Parses, ReadInv
  <2>3. text2' \in Seq(Second!Symbols) /\ pointer' = 1 /\ pc2' = "parsing" /\ parses2' \in Nat
    BY <2>1, <2>2, GivenTexts DEF Second!Parse
  <2>4. pointer' \in 1 .. Second!End' /\ \A i \in 1 .. (pointer' - 1) : text2'[i] \in Known
    BY <2>3 DEF Second!End
  <2>5. QED
    BY <2>3, <2>4 DEF ReadInv, Second!ReturnsAtTheFirstUnknown
<1>3. CASE UNCHANGED Second!vars
  <2>1. UNCHANGED <<text2, after, pointer, last, pc2, parses2>>
    BY <1>3 DEF Second!vars
  <2>2. Second!End' = Second!End /\ Second!Stop' = Second!Stop
    BY <2>1 DEF Second!End, Second!Stop, Second!Past
  <2>3. QED
    BY <2>1, <2>2 DEF ReadInv, Second!ReturnsAtTheFirstUnknown
<1>4. QED
  BY <1>1, <1>2, <1>3 DEF Second!Next

\* The second version has read every token in front of the first one it
\* cannot read, and none behind, when it returns; for all texts.
THEOREM ReadsUpToTheFirstUnknown == Second!Spec => []ReturnsAtTheFirstUnknown
<1>1. Second!Spec => []ReadInv
  BY ReadStarts, ReadStep, PTL DEF Second!Spec
<1>2. ReadInv => ReturnsAtTheFirstUnknown
  BY DEF ReadInv, ReturnsAtTheFirstUnknown
<1>3. QED
  BY <1>1, <1>2, PTL

-----------------------------------------------------------------------------
(* Positions of the second version *)

Positions == [line : Int, col : Int]

\* Between two tokens the pointer is behind the first, and so is the position.
PositionInv ==
    /\ ReadInv
    /\ pos \in Positions
    /\ pc2 = "parsing" /\ pointer > 1 => /\ last.begin = pointer - 1
                                         /\ last.at.line = pos.line
                                         /\ last.at.col = pos.col - 1

\* Where skip_ws gets to from the place p to the place a, when it counts the
\* new lines at the places T.
Moved(q, p, a, T) ==
    IF T = {} THEN [q EXCEPT !.col = @ + (a - p)]
    ELSE [line |-> q.line + Cardinality(T), col |-> a - Max(T)]

NewLines(p, a) == {i \in (p + 1) .. a : Second!Byte(i) = "NL"}

LEMMA SkippedIsMoved ==
  Second!Skipped = Moved(pos, pointer, Second!At, NewLines(pointer, Second!At))
  BY SameOperators DEF Second!Skipped, Moved, NewLines

LEMMA NewLinesAre ==
  ASSUME NEW p \in Nat, NEW a \in Nat
  PROVE  /\ IsFiniteSet(NewLines(p, a)) /\ Cardinality(NewLines(p, a)) \in Nat
         /\ NewLines(p, a) # {} => Cardinality(NewLines(p, a)) > 0 /\ Max(NewLines(p, a)) \in Int
<1> DEFINE T == NewLines(p, a)
<1>1. T \in SUBSET (1 .. a)
  <2>1. \A i \in (p + 1) .. a : i \in 1 .. a
    OBVIOUS
  <2>2. QED
    BY <2>1 DEF NewLines
<1> HIDE DEF T
<1>2. IsFiniteSet(T) /\ Cardinality(T) \in Nat
  BY <1>1, SomeOfMany
<1>3. T # {} => Cardinality(T) # 0
  BY <1>2, FS_EmptySet
<1>4. T # {} => Max(T) \in Int
  <2>1. T # {} => Max(T) \in T
    BY <1>1, MaxIsGreatest
  <2>2. \A i \in 1 .. a : i \in Int
    OBVIOUS
  <2>3. QED
    BY <1>1, <2>1, <2>2
<1>5. QED
  BY <1>2, <1>3, <1>4 DEF T

\* The position of a token, and the one behind it, are positions.
LEMMA TokenMoves ==
  ASSUME PositionInv, pc2 = "parsing", NEW kind, NEW next \in Int, Second!Token(kind, next)
  PROVE  /\ pos' \in Positions
         /\ last'.at = Second!Skipped /\ last'.begin = Second!At /\ pointer' = next
         /\ pos'.line = Second!Skipped.line
         /\ pos'.col = Second!Skipped.col + (next - Second!At)
         /\ Second!Skipped \in Positions
<1> DEFINE a == Second!At
           T == NewLines(pointer, a)
           s == Second!Skipped
<1>1. a \in Nat /\ pointer \in Nat /\ a \in Int
  BY AtNext, Ends2 DEF PositionInv, ReadInv
<1>2. s = Moved(pos, pointer, a, T)
  BY SkippedIsMoved
<1>3. Cardinality(T) \in Nat /\ (T # {} => Max(T) \in Int)
  BY <1>1, NewLinesAre
<1>4. pos \in Positions
  BY DEF PositionInv
<1>5. /\ last' = [kind |-> kind, begin |-> a, at |-> s] /\ pointer' = next
      /\ pos' = [s EXCEPT !.col = @ + (next - a)]
  BY DEF Second!Token
<1> HIDE DEF a, T, s
<1>6. s \in Positions
  BY <1>1, <1>2, <1>3, <1>4 DEF Moved, Positions
<1>7. /\ pos' \in Positions
      /\ pos'.line = s.line
      /\ pos'.col = s.col + (next - a)
  BY <1>1, <1>5, <1>6 DEF Positions
<1>8. QED
  BY <1>5, <1>6, <1>7 DEF a, s

LEMMA OneColumn ==
  ASSUME NEW c \in Int, NEW a \in Int
  PROVE  (a + 1) - 1 = a /\ (c + ((a + 1) - a)) - 1 = c
  OBVIOUS

LEMMA SecondTurnPositions == PositionInv /\ Second!Turn => PositionInv'
<1> SUFFICES ASSUME PositionInv, Second!Turn PROVE PositionInv'
  OBVIOUS
<1> DEFINE a == Second!At
           e == Second!End
<1>1. ReadInv'
  BY SecondTurnReads DEF PositionInv
<1>2. pc2 = "parsing"
  BY DEF Second!Turn, Second!ReadSpecial, Second!ReadPlanned, Second!ReadInvalid,
     Second!ReadEnd, Second!Crash, Second!Sees, Second!Token
<1>3. a \in 1 .. e /\ e \in Nat /\ a \in Nat \ {0} /\ a \in Int /\ a + 1 \in Int /\ e + 1 \in Int /\ e \in Int
  BY <1>2, AtNext, Ends2 DEF PositionInv, ReadInv
<1>4. CASE Second!ReadSpecial
  <2>1. Second!Token(text2[a], a + 1) /\ pc2' = "parsing"
    BY <1>2, <1>4 DEF Second!ReadSpecial
  <2>2. /\ pos' \in Positions
        /\ last'.at = Second!Skipped /\ last'.begin = a /\ pointer' = a + 1
        /\ pos'.line = Second!Skipped.line
        /\ pos'.col = Second!Skipped.col + ((a + 1) - a)
        /\ Second!Skipped \in Positions
    BY <1>2, <1>3, <2>1, TokenMoves
  <2>3. Second!Skipped.col \in Int
    BY <2>2 DEF Positions
  <2> DEFINE c == Second!Skipped.col
  <2>4. (a + 1) - 1 = a /\ (c + ((a + 1) - a)) - 1 = c
    BY <1>3, <2>3, OneColumn
  <2> HIDE DEF a, c
  <2>5. /\ last'.begin = pointer' - 1
        /\ last'.at.line = pos'.line
        /\ last'.at.col = pos'.col - 1
    BY <2>2, <2>4 DEF c
  <2>6. QED
    BY <1>1, <2>2, <2>5 DEF PositionInv
<1>5. CASE Second!ReadPlanned \/ Second!ReadInvalid \/ Second!ReadEnd
  <2>1. pc2' # "parsing"
    BY <1>5 DEF Second!ReadPlanned, Second!ReadInvalid, Second!ReadEnd
  <2>2. PICK kind, next : Second!Token(kind, next) /\ next \in Int
    <3>1. CASE Second!ReadPlanned
      BY <1>3, <3>1 DEF Second!ReadPlanned
    <3>2. CASE Second!ReadInvalid
      <4>1. Second!Past(a, Second!Planned \union Second!Others) \in a .. e
        BY <1>3, PastIs2 DEF PositionInv, ReadInv
      <4>2. Second!Past(a, Second!Planned \union Second!Others) \in Int
        BY <1>3, <4>1
      <4>3. QED
        BY <3>2, <4>2 DEF Second!ReadInvalid
    <3>3. CASE Second!ReadEnd
      BY <1>3, <3>3 DEF Second!ReadEnd
    <3>4. QED
      BY <1>5, <3>1, <3>2, <3>3
  <2>3. pos' \in Positions
    BY <1>2, <2>2, TokenMoves
  <2>4. QED
    BY <1>1, <2>1, <2>3 DEF PositionInv
<1>6. CASE Second!Crash
  <2>1. pc2' = "crashed" /\ pos' = pos
    BY <1>6 DEF Second!Crash
  <2>2. QED
    BY <1>1, <2>1 DEF PositionInv
<1>7. QED
  BY <1>4, <1>5, <1>6 DEF Second!Turn

LEMMA PositionStarts == Second!Init => PositionInv
  BY ReadStarts DEF Second!Init, Second!Origin, PositionInv, Positions

LEMMA PositionStep ==
  PositionInv /\ [Second!Next]_(Second!vars) => PositionInv'
<1> SUFFICES ASSUME PositionInv, [Second!Next]_(Second!vars) PROVE PositionInv'
  OBVIOUS
<1>1. ReadInv'
  BY ReadStep DEF PositionInv
<1>2. CASE Second!Turn
  BY <1>2, SecondTurnPositions
<1>3. CASE Second!Parses
  <2>1. PICK t \in Texts2[parses2 + 1], b \in Afters : Second!Parse(t, b)
    BY <1>3 DEF Second!Parses
  <2>2. pointer' = 1 /\ pos' = pos
    BY <2>1 DEF Second!Parse
  <2>3. QED
    BY <1>1, <2>2 DEF PositionInv
<1>4. CASE UNCHANGED Second!vars
  BY <1>1, <1>4 DEF PositionInv, Second!vars
<1>5. QED
  BY <1>2, <1>3, <1>4 DEF Second!Next

\* The position behind a token, moved on over blanks, is behind the token's.
LEMMA MovedIsBehind ==
  ASSUME NEW q \in Positions, NEW p \in Nat, NEW a \in Nat, p <= a, NEW from,
         from.line = q.line, from.col = q.col - 1
  PROVE  LET s == Moved(q, p, a, NewLines(p, a))
         IN  /\ Second!Before(from, s)
             /\ s.line - from.line = Cardinality(NewLines(p, a))
             /\ NewLines(p, a) = {} => s.col - from.col = a - (p - 1)
<1> DEFINE T == NewLines(p, a)
           s == Moved(q, p, a, T)
           n == Cardinality(T)
           l == q.line
           c == q.col
           m == Max(T)
<1>1. l \in Int /\ c \in Int /\ DOMAIN q = {"line", "col"}
  BY DEF Positions
<1>2. n \in Nat /\ (T # {} => n > 0 /\ m \in Int)
  BY NewLinesAre
<1>3. T = {} => n = 0
  BY FS_EmptySet
<1>4. T = {} => s = [q EXCEPT !.col = @ + (a - p)]
  BY DEF Moved
<1>5. T # {} => s = [line |-> l + n, col |-> a - m]
  BY DEF Moved
<1> HIDE DEF T, s, n, m
<1>6. CASE T = {}
  <2>1. s.line = l /\ s.col = c + (a - p)
    BY <1>1, <1>4, <1>6
  <2> HIDE DEF l, c
  <2>2. c - 1 < c + (a - p) /\ (c + (a - p)) - (c - 1) = a - (p - 1) /\ l - l = 0
    BY <1>1
  <2>3. QED
    BY <1>3, <1>6, <2>1, <2>2 DEF Second!Before, l, c, s, T, n
<1>7. CASE T # {}
  <2>1. s.line = l + n
    BY <1>5, <1>7
  <2> HIDE DEF l, c
  <2>2. l < l + n /\ (l + n) - l = n
    BY <1>1, <1>2, <1>7
  <2>3. QED
    BY <1>7, <2>1, <2>2 DEF Second!Before, l, c, s, T, n
<1>8. QED
  BY <1>6, <1>7

\* The lines between two tokens of the text, and those skip_ws counts.
LinesUpTo(p, a) == {i \in p .. (a - 1) : text2[i] = "NL"}

LEMMA CountedAreThere ==
  ASSUME PositionInv, pc2 = "parsing", Second!At # Second!End
  PROVE  LET T == NewLines(pointer, Second!At)
             U == LinesUpTo(pointer, Second!At)
         IN  /\ Cardinality(T) \in Nat /\ Cardinality(U) \in Nat
             /\ Cardinality(T) <= Cardinality(U)
             /\ U = {} => T = {}
<1> DEFINE p == pointer
           a == Second!At
           e == Second!End
           T == NewLines(p, a)
           U == LinesUpTo(p, a)
<1>1. /\ a \in p .. e /\ p \in 1 .. e /\ e \in Nat /\ a # e /\ a \in Nat /\ p \in Nat
      /\ text2[a] \notin Second!Blanks
  BY AtNext, Ends2 DEF PositionInv, ReadInv
<1>2. "NL" \in Second!Blanks
  BY DEF Second!Blanks
<1>3. \A i : i # e => Second!Byte(i) = text2[i]
  BY DEF Second!Byte
<1>4. T = {i \in (p + 1) .. a : Second!Byte(i) = "NL"} /\ U = {i \in p .. (a - 1) : text2[i] = "NL"}
  BY DEF NewLines, LinesUpTo
<1> HIDE DEF p, a, e, T, U
<1>5. ASSUME NEW i \in T PROVE i \in U
  <2>1. i \in (p + 1) .. a /\ Second!Byte(i) = "NL"
    BY <1>4
  <2>2. i # e
    BY <1>1, <2>1
  <2>3. text2[i] = "NL"
    BY <1>3, <2>1, <2>2
  <2>4. i # a
    BY <1>1, <1>2, <2>3
  <2>5. i \in p .. (a - 1)
    BY <1>1, <2>1, <2>4
  <2>6. QED
    BY <1>4, <2>3, <2>5
<1>6. U \in SUBSET (1 .. a)
  <2>1. \A i \in p .. (a - 1) : i \in 1 .. a
    BY <1>1
  <2>2. QED
    BY <1>4, <2>1
<1>7. IsFiniteSet(U) /\ Cardinality(U) \in Nat
  <2>1. a \in Int
    BY <1>1
  <2>2. QED
    BY <1>6, <2>1, SomeOfMany
<1>8. T \subseteq U
  BY <1>5
<1>9. Cardinality(T) <= Cardinality(U) /\ Cardinality(T) \in Nat
  BY <1>7, <1>8, FS_Subset, FS_CardinalityType
<1>10. QED
  BY <1>7, <1>8, <1>9 DEF p, a, e, T, U

LEMMA Fewer == ASSUME NEW d, NEW n \in Int, NEW m \in Int, d = n, n <= m PROVE d <= m
  OBVIOUS

\* What the property says of a step.
Grows ==
    pc2 = "parsing" /\ pointer > 1 /\ last' # last =>
      LET U == LinesUpTo(pointer, last'.begin)
      IN  /\ Second!Before(last.at, last'.at)
          /\ last'.begin # Second!End =>
               /\ last'.at.line - last.at.line <= Cardinality(U)
               /\ U = {} => last'.at.col - last.at.col = last'.begin - last.begin

\* The same, with the operators of JsonParser2.
GrowsThere ==
    pc2 = "parsing" /\ pointer > 1 /\ last' # last =>
      LET lines == {i \in pointer .. (last'.begin - 1) : text2[i] = "NL"}
      IN  /\ Second!Before(last.at, last'.at)
          /\ last'.begin # Second!End =>
               /\ last'.at.line - last.at.line <= Second!Cardinality(lines)
               /\ lines = {} => last'.at.col - last.at.col = last'.begin - last.begin

LEMMA TokensGrow ==
  ASSUME PositionInv, Second!Turn, pc2 = "parsing", pointer > 1, last' # last
  PROVE  Grows
<1> DEFINE p == pointer
           a == Second!At
           T == NewLines(p, a)
           U == LinesUpTo(p, a)
           s == Moved(pos, p, a, T)
<1>1. PICK kind, next : Second!Token(kind, next)
  BY DEF Second!Turn, Second!ReadSpecial, Second!ReadPlanned, Second!ReadInvalid,
     Second!ReadEnd, Second!Crash
<1>2. last'.at = Second!Skipped /\ last'.begin = a
  BY <1>1 DEF Second!Token
<1>3. Second!Skipped = s
  BY SkippedIsMoved
<1>4. a \in Nat /\ p \in Nat /\ p <= a /\ pos \in Positions
  BY AtNext, Ends2 DEF PositionInv, ReadInv
<1>5. last.begin = p - 1 /\ last.at.line = pos.line /\ last.at.col = pos.col - 1
  BY DEF PositionInv
<1>6. /\ Second!Before(last.at, s)
      /\ s.line - last.at.line = Cardinality(T)
      /\ T = {} => s.col - last.at.col = a - (p - 1)
  BY <1>4, <1>5, MovedIsBehind
<1>7. a # Second!End => /\ Cardinality(T) \in Nat /\ Cardinality(U) \in Nat
                        /\ Cardinality(T) <= Cardinality(U)
                        /\ U = {} => T = {}
  BY CountedAreThere
<1> HIDE DEF p, a, T, s
<1>8. a # Second!End => s.line - last.at.line <= Cardinality(U)
  <2>1. ASSUME a # Second!End PROVE s.line - last.at.line <= Cardinality(U)
    <3>1. Cardinality(T) \in Int /\ Cardinality(U) \in Int /\ Cardinality(T) <= Cardinality(U)
      BY <1>7, <2>1
    <3>2. QED
      BY <1>6, <3>1, Fewer
  <2>2. QED
    BY <2>1
<1>9. a # Second!End /\ U = {} => s.col - last.at.col = a - last.begin
  BY <1>5, <1>6, <1>7
<1>10. last'.at = s /\ last'.begin = a
  BY <1>2, <1>3
<1>11. U = LinesUpTo(pointer, last'.begin)
  BY <1>10 DEF p
<1> HIDE DEF U
<1>12. QED
  BY <1>6, <1>8, <1>9, <1>10, <1>11 DEF Grows

\* Every step but a turn leaves the token, or comes when none is read.
LEMMA OthersKeepTokens ==
  ASSUME [Second!Next]_(Second!vars), pc2 = "parsing", last' # last
  PROVE  Second!Turn
  BY DEF Second!Next, Second!Parses, Second!Parse, Second!vars

\* Within a parse, the position of each token is behind the one of the token
\* before it, as far as the text between them says; for all texts.
THEOREM TokensFollowEachOther == Second!Spec => PositionsGrow
<1>1. Second!Spec => []PositionInv
  BY PositionStarts, PositionStep, PTL DEF Second!Spec
<1>2. PositionInv /\ [Second!Next]_(Second!vars) => [Grows]_(Second!vars)
  BY TokensGrow, OthersKeepTokens DEF Grows
<1>3. PositionsGrow <=> [][GrowsThere]_(Second!vars)
  BY DEF PositionsGrow, Second!PositionsGrow, GrowsThere
<1>4. Grows <=> GrowsThere
  BY SameOperators DEF Grows, GrowsThere, LinesUpTo
<1>5. QED
  BY <1>1, <1>2, <1>3, <1>4, PTL DEF Second!Spec

-----------------------------------------------------------------------------
(* Positions of the first version *)

\* The k-th characters of the symbols from a place up to another one.
Chars(from, to) ==
    {c \in (from .. (to - 1)) \X (1 .. LongestWord) : c[2] <= Width(text[c[1]])}

LEMMA Widths ==
  ASSUME NEW s
  PROVE  /\ Width(s) \in 1 .. LongestWord
         /\ s \notin Words \union BadWords => Width(s) = 1
<1>1. CASE s \in {"null", "true", "nope", "fals"}
  BY <1>1 DEF Width, LongestWord, Words, BadWords
<1>2. CASE s = "false"
  BY <1>2 DEF Width, LongestWord, Words, BadWords
<1>3. CASE s \notin {"null", "true", "nope", "fals"} /\ s # "false"
  BY <1>3 DEF Width, LongestWord, Words, BadWords
<1>4. QED
  BY <1>1, <1>2, <1>3

LEMMA FiniteChars ==
  ASSUME NEW from \in Int, NEW to \in Int
  PROVE  IsFiniteSet(Chars(from, to)) /\ WidthOf(from, to) \in Nat
<1>1. to - 1 \in Int /\ 1 \in Int /\ LongestWord \in Int
  BY DEF LongestWord
<1>2. IsFiniteSet(from .. (to - 1)) /\ IsFiniteSet(1 .. LongestWord)
  BY <1>1, FS_Interval
<1>3. IsFiniteSet((from .. (to - 1)) \X (1 .. LongestWord))
  BY <1>2, FS_Product
<1>4. Chars(from, to) \in SUBSET ((from .. (to - 1)) \X (1 .. LongestWord))
  BY DEF Chars
<1>5. IsFiniteSet(Chars(from, to))
  BY <1>3, <1>4, FS_Subset
<1>6. QED
  BY <1>5, FS_CardinalityType DEF WidthOf, Chars

\* Disjoint sets are counted together.
LEMMA Together ==
  ASSUME NEW S, NEW T, IsFiniteSet(S), IsFiniteSet(T), S \intersect T = {}
  PROVE  /\ IsFiniteSet(S \union T)
         /\ Cardinality(S \union T) = Cardinality(S) + Cardinality(T)
<1>1. Cardinality(S) \in Nat /\ Cardinality(T) \in Nat
  BY FS_CardinalityType
<1>2. Cardinality(S \intersect T) = 0
  BY FS_EmptySet
<1>3. /\ IsFiniteSet(S \union T)
      /\ Cardinality(S \union T) = Cardinality(S) + Cardinality(T) - 0
  BY <1>2, FS_Union
<1>4. QED
  BY <1>1, <1>3

LEMMA WidthsAdd ==
  ASSUME NEW a \in Int, NEW b \in Int, NEW c \in Int, a <= b, b <= c
  PROVE  WidthOf(a, c) = WidthOf(a, b) + WidthOf(b, c)
<1>1. IsFiniteSet(Chars(a, b)) /\ IsFiniteSet(Chars(b, c))
  BY FiniteChars
<1>2. \A i : i \in a .. (c - 1) <=> i \in a .. (b - 1) \/ i \in b .. (c - 1)
  OBVIOUS
<1>3. \A i : ~(i \in a .. (b - 1) /\ i \in b .. (c - 1))
  OBVIOUS
<1>4. Chars(a, c) = Chars(a, b) \union Chars(b, c)
  BY <1>2 DEF Chars
<1>5. Chars(a, b) \intersect Chars(b, c) = {}
  BY <1>3 DEF Chars
<1>6. Cardinality(Chars(a, c)) = Cardinality(Chars(a, b)) + Cardinality(Chars(b, c))
  BY <1>1, <1>4, <1>5, Together
<1>7. QED
  BY <1>6 DEF WidthOf, Chars

\* A set is as large as the one it is numbered by.
LEMMA Numbered ==
  ASSUME NEW a \in Int, NEW b \in Int, a <= b + 1, NEW S,
         NEW f \in [a .. b -> S],
         \A i, j \in a .. b : f[i] = f[j] => i = j,
         \A s \in S : \E i \in a .. b : f[i] = s
  PROVE  Cardinality(S) = (b - a) + 1
<1>1. f \in Bijection(a .. b, S)
  BY DEF Bijection, Injection, Surjection, IsInjective
<1>2. ExistsBijection(a .. b, S)
  BY <1>1 DEF ExistsBijection
<1>3. IsFiniteSet(a .. b) /\ Cardinality(a .. b) = (IF a > b THEN 0 ELSE b - a + 1)
  BY FS_Interval
<1>4. Cardinality(S) = Cardinality(a .. b)
  BY <1>2, <1>3, FS_Bijection
<1>5. QED
  BY <1>3, <1>4

\* One symbol.
LEMMA WidthOfOne ==
  ASSUME NEW a \in Int
  PROVE  WidthOf(a, a + 1) = Width(text[a])
<1> DEFINE w == Width(text[a])
           f == [k \in 1 .. w |-> <<a, k>>]
           S == Chars(a, a + 1)
<1>1. w \in 1 .. LongestWord /\ LongestWord \in Int /\ w \in Int /\ 1 <= w + 1 /\ 1 \in Int
  BY Widths DEF LongestWord
<1>2. \A i : i \in a .. ((a + 1) - 1) <=> i = a
  OBVIOUS
<1> HIDE DEF w
<1>3. \A k \in 1 .. w : <<a, k>> \in S
  <2>1. ASSUME NEW k \in 1 .. w
        PROVE  <<a, k>> \in S
    <3>1. k \in 1 .. LongestWord /\ k <= w
      BY <1>1
    <3>2. <<a, k>> \in (a .. ((a + 1) - 1)) \X (1 .. LongestWord)
      BY <1>2, <3>1
    <3>3. <<a, k>>[1] = a /\ <<a, k>>[2] = k
      OBVIOUS
    <3>4. QED
      BY <3>1, <3>2, <3>3, Zenon DEF Chars, w
  <2>2. QED
    BY <2>1
<1>4. \A s \in S : \E k \in 1 .. w : s = <<a, k>>
  <2>1. ASSUME NEW s \in S
        PROVE  \E k \in 1 .. w : s = <<a, k>>
    <3>1. /\ s \in (a .. ((a + 1) - 1)) \X (1 .. LongestWord)
          /\ s[2] <= Width(text[s[1]])
      BY DEF Chars
    <3>2. s[1] = a /\ s[2] \in 1 .. LongestWord /\ s = <<s[1], s[2]>>
      BY <1>2, <3>1
    <3>3. s[2] <= w
      BY <3>1, <3>2 DEF w
    <3>4. s[2] \in 1 .. w
      BY <1>1, <3>2, <3>3
    <3>5. QED
      BY <3>2, <3>4
  <2>2. QED
    BY <2>1
<1> HIDE DEF S
<1>5. f \in [1 .. w -> S]
  BY <1>3
<1>6. \A i, j \in 1 .. w : f[i] = f[j] => i = j
  OBVIOUS
<1>7. \A s \in S : \E i \in 1 .. w : f[i] = s
  BY <1>4
<1> HIDE DEF f
<1>8. Cardinality(S) = (w - 1) + 1
  BY <1>1, <1>5, <1>6, <1>7, Numbered
<1>9. Cardinality(S) = w
  BY <1>1, <1>8
<1>10. QED
  BY <1>9 DEF w, S, WidthOf, Chars

\* Symbols of one character each.
LEMMA WidthOfSingles ==
  ASSUME NEW a \in Int, NEW b \in Int, a <= b,
         \A i \in a .. (b - 1) : Width(text[i]) = 1
  PROVE  WidthOf(a, b) = b - a
<1> DEFINE f == [i \in a .. (b - 1) |-> <<i, 1>>]
           S == Chars(a, b)
<1>1. 1 \in 1 .. LongestWord /\ b - 1 \in Int /\ a <= (b - 1) + 1
  BY DEF LongestWord
<1>2. \A i \in a .. (b - 1) : <<i, 1>> \in S
  <2>1. ASSUME NEW i \in a .. (b - 1)
        PROVE  <<i, 1>> \in S
    <3>1. <<i, 1>> \in (a .. (b - 1)) \X (1 .. LongestWord)
      BY <1>1
    <3>2. <<i, 1>>[1] = i /\ <<i, 1>>[2] = 1
      OBVIOUS
    <3>3. 1 <= Width(text[i])
      OBVIOUS
    <3>4. QED
      BY <3>1, <3>2, <3>3, Zenon DEF Chars
  <2>2. QED
    BY <2>1
<1>3. \A s \in S : \E i \in a .. (b - 1) : s = <<i, 1>>
  <2>1. ASSUME NEW s \in S
        PROVE  \E i \in a .. (b - 1) : s = <<i, 1>>
    <3>1. /\ s \in (a .. (b - 1)) \X (1 .. LongestWord)
          /\ s[2] <= Width(text[s[1]])
      BY DEF Chars
    <3>2. s[1] \in a .. (b - 1) /\ s[2] \in 1 .. LongestWord /\ s = <<s[1], s[2]>>
      BY <3>1
    <3>3. s[2] <= 1
      BY <3>1, <3>2
    <3>4. s[2] = 1
      BY <3>2, <3>3 DEF LongestWord
    <3>5. QED
      BY <3>2, <3>4
  <2>2. QED
    BY <2>1
<1> HIDE DEF S
<1>4. f \in [a .. (b - 1) -> S]
  BY <1>2
<1>5. \A i, j \in a .. (b - 1) : f[i] = f[j] => i = j
  OBVIOUS
<1>6. \A s \in S : \E i \in a .. (b - 1) : f[i] = s
  BY <1>3
<1> HIDE DEF f
<1>7. Cardinality(S) = ((b - 1) - a) + 1
  BY <1>1, <1>4, <1>5, <1>6, Numbered
<1>8. Cardinality(S) = b - a
  BY <1>7
<1>9. QED
  BY <1>8 DEF S, WidthOf, Chars

\* Quotes are counted piece by piece, too.
LEMMA QuotesAdd ==
  ASSUME NEW a \in Int, NEW b \in Int, NEW c \in Int, a <= b, b <= c
  PROVE  /\ Cardinality(Quotes(a, c)) = Cardinality(Quotes(a, b)) + Cardinality(Quotes(b, c))
         /\ Cardinality(Quotes(a, b)) \in Nat /\ Cardinality(Quotes(b, c)) \in Nat
<1>1. ASSUME NEW m \in Int, NEW n \in Int
      PROVE  IsFiniteSet(Quotes(m, n)) /\ Cardinality(Quotes(m, n)) \in Nat
  <2>1. IsFiniteSet(m .. (n - 1))
    <3>1. n - 1 \in Int
      OBVIOUS
    <3>2. QED
      BY <3>1, FS_Interval
  <2>2. Quotes(m, n) \in SUBSET (m .. (n - 1))
    BY DEF Quotes
  <2>3. IsFiniteSet(Quotes(m, n))
    BY <2>1, <2>2, FS_Subset
  <2>4. QED
    BY <2>3, FS_CardinalityType
<1>2. \A i : i \in a .. (c - 1) <=> i \in a .. (b - 1) \/ i \in b .. (c - 1)
  OBVIOUS
<1>3. \A i : ~(i \in a .. (b - 1) /\ i \in b .. (c - 1))
  OBVIOUS
<1>4. Quotes(a, c) = Quotes(a, b) \union Quotes(b, c)
  BY <1>2 DEF Quotes
<1>5. Quotes(a, b) \intersect Quotes(b, c) = {}
  BY <1>3 DEF Quotes
<1>6. IsFiniteSet(Quotes(a, b)) /\ IsFiniteSet(Quotes(b, c))
  BY <1>1
<1>7. Cardinality(Quotes(a, c)) = Cardinality(Quotes(a, b)) + Cardinality(Quotes(b, c))
  BY <1>4, <1>5, <1>6, Together
<1>8. QED
  BY <1>1, <1>7

\* The lines that count in front of a place, and the place the last began
\* behind.
LinesBefore(h) == {i \in Newlines(1, h) : Outside(i)}

StartOf(h) == Max({0} \union LinesBefore(h))

\* The context c has the position of place h.
Placed(c, h) ==
    /\ c.line = start.line + Cardinality(LinesBefore(h))
    /\ c.column = (IF LinesBefore(h) = {} THEN start.column ELSE 1)
                    + WidthOf(StartOf(h) + 1, h)
                    - Cardinality(Quotes(StartOf(h) + 1, h))

KnownPlace(c, h) == h <= End => Outside(h) /\ Placed(c, h)

PlaceInv ==
    /\ text \in Seq(Symbols)
    /\ parses \in Nat
    /\ DOMAIN context = Fields
    /\ context.line \in Int /\ context.column \in Int
    /\ start.line \in Int /\ start.column \in Int
    /\ pc = "parsing" => head \in 1 .. (End + 1) /\ KnownPlace(context, head)

LEMMA StartIsBefore ==
  ASSUME NEW h \in Nat \ {0}
  PROVE  /\ StartOf(h) \in 0 .. (h - 1)
         /\ StartOf(h) \in {0} \union LinesBefore(h)
         /\ \A i \in LinesBefore(h) : StartOf(h) >= i
<1> DEFINE T == {0} \union LinesBefore(h)
<1>1. T \in SUBSET (0 .. (h - 1)) /\ h - 1 \in Nat /\ T # {}
  <2>1. \A i \in 1 .. (h - 1) : i \in 0 .. (h - 1)
    OBVIOUS
  <2>2. 0 \in 0 .. (h - 1) /\ h - 1 \in Nat
    OBVIOUS
  <2>3. QED
    BY <2>1, <2>2 DEF LinesBefore, Newlines
<1>2. Max(T) \in T /\ \A y \in T : Max(T) >= y
  BY <1>1, MaxIsThere
<1>3. QED
  BY <1>1, <1>2 DEF StartOf

LEMMA Sums ==
  ASSUME NEW s \in Int, NEW v \in Int, NEW x \in Int, NEW q \in Int, NEW r \in Int, NEW w \in Int,
         x - r = w
  PROVE  (s + v - q) + w = s + (v + x) - (q + r)
  OBVIOUS

\* From one place to a later one, no line that counts between them: the column
\* moves by the characters that are no quotes.
LEMMA ColumnMoves ==
  ASSUME NEW h \in Nat \ {0}, NEW a \in Nat, h <= a, start.column \in Int,
         LinesBefore(a) = LinesBefore(h),
         NEW c, NEW d, NEW w \in Int, Placed(c, h),
         d.line = c.line, d.column = c.column + w,
         WidthOf(h, a) - Cardinality(Quotes(h, a)) = w
  PROVE  Placed(d, a)
<1> DEFINE b == StartOf(h) + 1
           base == IF LinesBefore(h) = {} THEN start.column ELSE 1
<1>1. StartOf(a) = StartOf(h)
  BY DEF StartOf
<1>2. b \in Int /\ b <= h /\ h \in Int /\ a \in Int
  <2>1. StartOf(h) \in 0 .. (h - 1)
    BY StartIsBefore
  <2>2. \A i \in 0 .. (h - 1) : i + 1 \in Int /\ i + 1 <= h
    OBVIOUS
  <2>3. QED
    BY <2>1, <2>2
<1>3. base \in Int
  OBVIOUS
<1>4. /\ c.line = start.line + Cardinality(LinesBefore(h))
      /\ c.column = base + WidthOf(b, h) - Cardinality(Quotes(b, h))
  BY DEF Placed
<1> HIDE DEF b, base
<1>5. WidthOf(b, a) = WidthOf(b, h) + WidthOf(h, a)
  BY <1>2, WidthsAdd
<1>51. WidthOf(b, h) \in Int /\ WidthOf(h, a) \in Int
  <2>1. WidthOf(b, h) \in Nat /\ WidthOf(h, a) \in Nat
    BY <1>2, FiniteChars
  <2>2. QED
    BY <2>1
<1>6. Cardinality(Quotes(b, a)) = Cardinality(Quotes(b, h)) + Cardinality(Quotes(h, a))
  BY <1>2, QuotesAdd
<1>61. Cardinality(Quotes(b, h)) \in Int /\ Cardinality(Quotes(h, a)) \in Int
  <2>1. Cardinality(Quotes(b, h)) \in Nat /\ Cardinality(Quotes(h, a)) \in Nat
    BY <1>2, QuotesAdd
  <2>2. QED
    BY <2>1
<1>7. (base + WidthOf(b, h) - Cardinality(Quotes(b, h))) + w
        = base + (WidthOf(b, h) + WidthOf(h, a)) - (Cardinality(Quotes(b, h)) + Cardinality(Quotes(h, a)))
  BY <1>3, <1>51, <1>61, Sums
<1>8. d.column = base + WidthOf(b, a) - Cardinality(Quotes(b, a))
  BY <1>4, <1>5, <1>6, <1>7
<1>9. d.line = start.line + Cardinality(LinesBefore(a))
  BY <1>4
<1>10. QED
  BY <1>1, <1>8, <1>9 DEF Placed, b, base

\* Nothing between two places begins a line that counts.
LEMMA NoLineBetween ==
  ASSUME NEW h \in Nat \ {0}, NEW a \in Nat, h <= a,
         \A i \in h .. (a - 1) : ~(text[i] = "NL" /\ Outside(i))
  PROVE  LinesBefore(a) = LinesBefore(h)
<1>1. \A i : i \in 1 .. (a - 1) <=> i \in 1 .. (h - 1) \/ i \in h .. (a - 1)
  OBVIOUS
<1>2. QED
  BY <1>1 DEF LinesBefore, Newlines

\* No quotes between two places.
LEMMA NoQuotes ==
  ASSUME NEW h, NEW a, \A i \in h .. (a - 1) : text[i] # "QUOTE"
  PROVE  Cardinality(Quotes(h, a)) = 0
<1>1. Quotes(h, a) = {}
  BY DEF Quotes
<1>2. QED
  BY <1>1, FS_EmptySet

\* Blanks that are skipped: the lines are counted, and the column begins anew
\* behind the last of them.
LEMMA SkipPlaced ==
  ASSUME NEW h \in Nat \ {0}, h = head, NEW a \in Nat, h <= a,
         DOMAIN context = Fields, start.column \in Int, start.line \in Int,
         Outside(h), Placed(context, h),
         \A i \in h .. (a - 1) : text[i] \in Blanks
  PROVE  Outside(a) /\ Placed(Skip(a), a)
<1> DEFINE N == Newlines(h, a)
<1>1. \A i \in h .. (a - 1) : text[i] # "QUOTE" /\ Width(text[i]) = 1
  <2>1. \A s \in Blanks : s # "QUOTE" /\ s \notin Words \union BadWords
    BY DEF Blanks, Words, BadWords
  <2>2. QED
    BY <2>1, Widths
<1>2. \A i \in h .. a : Outside(i)
  <2>1. ASSUME NEW i \in h .. a
        PROVE  Outside(i)
    <3>1. i \in Nat /\ h \in Nat /\ h <= i /\ \A k \in h .. (i - 1) : k \in h .. (a - 1)
      OBVIOUS
    <3>2. QED
      BY <1>1, <3>1, NoQuoteBetween
  <2>2. QED
    BY <2>1
<1>3. Outside(a)
  <2>1. a \in h .. a
    OBVIOUS
  <2>2. QED
    BY <1>2, <2>1
<1>4. \A i : i \in 1 .. (a - 1) <=> i \in 1 .. (h - 1) \/ i \in h .. (a - 1)
  OBVIOUS
<1>5. \A i \in h .. (a - 1) : i \in h .. a
  OBVIOUS
<1>6. LinesBefore(a) = LinesBefore(h) \union N
  BY <1>2, <1>4, <1>5 DEF LinesBefore, Newlines
<1>7. /\ Skip(a).line = context.line + Cardinality(N)
      /\ Skip(a).column = IF N = {} THEN context.column + (a - h) ELSE a - Max(N)
  BY DEF Skip, Fields
<1> HIDE DEF N
<1>8. h - 1 \in 0 .. (a - 1) /\ a \in Int /\ h \in Int
  OBVIOUS
<1>9. N \in SUBSET (h .. (a - 1)) /\ LinesBefore(h) \in SUBSET (1 .. (h - 1))
  BY DEF N, Newlines, LinesBefore
<1>10. CASE N = {}
  <2>1. LinesBefore(a) = LinesBefore(h)
    BY <1>6, <1>10
  <2>2. WidthOf(h, a) = a - h /\ Cardinality(Quotes(h, a)) = 0
    BY <1>1, <1>8, WidthOfSingles, NoQuotes
  <2>3. WidthOf(h, a) - Cardinality(Quotes(h, a)) = a - h /\ a - h \in Int
    BY <2>2
  <2>4. Cardinality(N) = 0
    BY <1>10, FS_EmptySet
  <2>5. context.line \in Int
    <3>1. IsFiniteSet(LinesBefore(h))
      BY <1>9, FS_Interval, FS_Subset
    <3>2. Cardinality(LinesBefore(h)) \in Nat
      BY <3>1, FS_CardinalityType
    <3>3. QED
      BY <3>2 DEF Placed
  <2>6. Skip(a).line = context.line /\ Skip(a).column = context.column + (a - h)
    BY <1>7, <1>10, <2>4, <2>5
  <2>7. Placed(Skip(a), a)
    BY <2>1, <2>3, <2>6, ColumnMoves
  <2>8. QED
    BY <1>3, <2>7
<1>11. CASE N # {}
  <2>1. IsFiniteSet(LinesBefore(h)) /\ IsFiniteSet(N)
    <3>1. IsFiniteSet(1 .. (h - 1)) /\ IsFiniteSet(h .. (a - 1))
      <4>1. 1 \in Int /\ h - 1 \in Int /\ a - 1 \in Int
        BY <1>8
      <4>2. QED
        BY <1>8, <4>1, FS_Interval
    <3>2. QED
      BY <1>9, <3>1, FS_Subset
  <2>2. LinesBefore(h) \intersect N = {}
    <3>1. \A i : ~(i \in 1 .. (h - 1) /\ i \in h .. (a - 1))
      OBVIOUS
    <3>2. QED
      BY <1>9, <3>1
  <2>3. /\ Cardinality(LinesBefore(a)) = Cardinality(LinesBefore(h)) + Cardinality(N)
        /\ Cardinality(LinesBefore(h)) \in Nat /\ Cardinality(N) \in Nat
    BY <1>6, <2>1, <2>2, Together, FS_CardinalityType
  <2>4. Skip(a).line = start.line + Cardinality(LinesBefore(a))
    <3>1. context.line = start.line + Cardinality(LinesBefore(h))
      BY DEF Placed
    <3>2. QED
      BY <1>7, <2>3, <3>1
  <2> DEFINE m == Max(N)
             s == StartOf(a)
  <2>5. m \in N /\ \A y \in N : m >= y
    <3>1. \A i \in h .. (a - 1) : i \in 0 .. a
      OBVIOUS
    <3>2. N \in SUBSET (0 .. a) /\ a \in Nat
      BY <1>9, <3>1
    <3>3. QED
      BY <1>11, <3>2, MaxIsThere
  <2>6. a \in Nat \ {0}
    OBVIOUS
  <2>7. s \in {0} \union LinesBefore(a) /\ \A i \in LinesBefore(a) : s >= i
    BY <2>6, StartIsBefore
  <2> HIDE DEF m, s
  <2>8. m \in h .. (a - 1)
    BY <1>9, <2>5
  <2>9. s >= m
    BY <1>6, <2>5, <2>7
  <2>10. s = 0 \/ s \in 1 .. (h - 1) \/ s \in N
    BY <1>6, <1>9, <2>7
  <2>11. s = m
    <3>1. ~(s = 0 \/ s \in 1 .. (h - 1))
      BY <2>8, <2>9
    <3>2. s \in N /\ m >= s /\ s \in h .. (a - 1)
      BY <1>9, <2>5, <2>10, <3>1
    <3>3. QED
      BY <2>8, <2>9, <3>2
  <2>12. /\ \A i \in (m + 1) .. (a - 1) : i \in h .. (a - 1)
         /\ m + 1 \in Int /\ m + 1 <= a /\ a - (m + 1) \in Int
         /\ a - m = 1 + (a - (m + 1)) - 0
    BY <1>8, <2>8
  <2>13. WidthOf(m + 1, a) = a - (m + 1) /\ Cardinality(Quotes(m + 1, a)) = 0
    BY <1>1, <1>8, <2>12, WidthOfSingles, NoQuotes
  <2>14. Skip(a).column = 1 + WidthOf(s + 1, a) - Cardinality(Quotes(s + 1, a))
    BY <1>7, <1>11, <2>11, <2>12, <2>13 DEF m
  <2>15. LinesBefore(a) # {}
    BY <1>6, <1>11
  <2>16. Placed(Skip(a), a)
    BY <2>4, <2>14, <2>15 DEF Placed, s
  <2>17. QED
    BY <1>3, <2>16
<1>12. QED
  BY <1>10, <1>11

\* The symbol the next token starts with.
LEMMA NextSymbol ==
  ASSUME text \in Seq(Symbols), head \in 1 .. (End + 1)
  PROVE  /\ At \in 1 .. End
         /\ head <= End => head <= At
         /\ \A i \in head .. (At - 1) : text[i] \in Blanks
         /\ At # End => head <= End /\ At \in DOMAIN text
<1>1. /\ At \in 1 .. End
      /\ head <= End => head <= At
      /\ \A i \in head .. (At - 1) : text[i] \in Blanks
  BY PastIs DEF At
<1>2. Len(text) \in Nat /\ End = Len(text) + 1 /\ DOMAIN text = 1 .. Len(text)
  BY Ends
<1>3. ~(head <= End) => At = End
  <2>1. ASSUME ~(head <= End)
        PROVE  {i \in head .. Len(text) : text[i] \notin Blanks} = {}
    BY <1>2, <2>1
  <2>2. ASSUME ~(head <= End)
        PROVE  At \in {End}
    <3>1. {End} \in SUBSET Nat /\ {End} # {}
      BY <1>2
    <3>2. Min({End}) \in {End}
      BY <3>1, MinIsLeast
    <3>3. At = Min({} \union {End})
      BY <2>1, <2>2 DEF At, Past
    <3>4. QED
      BY <3>2, <3>3
  <2>3. QED
    BY <2>2
<1>4. QED
  BY <1>1, <1>2, <1>3

LEMMA AddsUp ==
  /\ \A m, n \in Int : m + n \in Int /\ m - n \in Int
  /\ \A n \in Nat : n \in Int
  OBVIOUS

\* Skipping leaves numbers in the context.
LEMMA SkipNumbers ==
  ASSUME PlaceInv, pc = "parsing"
  PROVE  DOMAIN Skip(At) = Fields /\ Skip(At).line \in Int /\ Skip(At).column \in Int
<1> DEFINE N == Newlines(head, At)
<1>1. At \in Nat /\ At \in Int /\ head \in Nat /\ head \in Int
  <2>1. At \in 1 .. End /\ End \in Nat /\ head \in 1 .. (End + 1)
    BY NextSymbol, Ends DEF PlaceInv
  <2>2. QED
    BY <2>1
<1>2. N \in SUBSET (head .. (At - 1))
  BY DEF Newlines
<1>3. Cardinality(N) \in Nat
  <2>1. \A i \in head .. (At - 1) : i \in 1 .. At
    <3>1. head \in 1 .. (End + 1)
      BY DEF PlaceInv
    <3>2. QED
      BY <1>1, <3>1, Ends DEF PlaceInv
  <2>2. N \in SUBSET (1 .. At)
    BY <1>2, <2>1
  <2>3. QED
    BY <1>1, <2>2, SomeOfMany
<1>4. N # {} => Max(N) \in Int
  <2>1. \A i \in head .. (At - 1) : i \in 0 .. At
    BY <1>1
  <2>2. N \in SUBSET (0 .. At)
    BY <1>2, <2>1
  <2>3. N # {} => Max(N) \in N
    BY <1>1, <2>2, MaxIsThere
  <2>4. \A i \in 0 .. At : i \in Int
    OBVIOUS
  <2>5. QED
    BY <2>2, <2>3, <2>4
<1> HIDE DEF N
<1>5. DOMAIN context = Fields /\ context.line \in Int /\ context.column \in Int
  BY DEF PlaceInv
<1>6. /\ DOMAIN Skip(At) = Fields
      /\ Skip(At).line = context.line + Cardinality(N)
      /\ Skip(At).column = IF N = {} THEN context.column + (At - head) ELSE At - Max(N)
  BY <1>5 DEF Skip, Fields, N
<1>7. context.line + Cardinality(N) \in Int /\ context.column + (At - head) \in Int
  BY <1>1, <1>3, <1>5, AddsUp
<1>8. N # {} => At - Max(N) \in Int
  BY <1>1, <1>4, AddsUp
<1>9. QED
  BY <1>6, <1>7, <1>8

\* A place the parser sees: the context is known there.
LEMMA SeenPlace ==
  ASSUME PlaceInv, NEW S, Sees(S)
  PROVE  /\ At \in DOMAIN text /\ At \in Nat \ {0} /\ text[At] \in S
         /\ At + 1 \in 1 .. End
         /\ Outside(At) /\ Placed(Skip(At), At)
         /\ DOMAIN Skip(At) = Fields /\ Skip(At).line \in Int /\ Skip(At).column \in Int
         /\ pc = "parsing"
<1>1. /\ text \in Seq(Symbols) /\ head \in 1 .. (End + 1) /\ pc = "parsing" /\ At < End
      /\ text[At] \in S /\ DOMAIN context = Fields
      /\ start.line \in Int /\ start.column \in Int
  BY DEF Sees, PlaceInv
<1>2. /\ Len(text) \in Nat /\ End = Len(text) + 1 /\ DOMAIN text = 1 .. Len(text)
  BY <1>1, Ends
<1>3. At \in 1 .. End
  BY <1>1, NextSymbol
<1>4. At # End
  BY <1>1, <1>2, <1>3
<1>5. /\ head <= End /\ head <= At /\ At \in DOMAIN text
      /\ \A i \in head .. (At - 1) : text[i] \in Blanks
  BY <1>1, <1>4, NextSymbol
<1>6. Outside(head) /\ Placed(context, head)
  BY <1>1, <1>5 DEF PlaceInv, KnownPlace
<1>7. At \in Nat \ {0} /\ head \in Nat \ {0} /\ At + 1 \in 1 .. End /\ At \in Nat
  BY <1>1, <1>2, <1>5
<1>8. Outside(At) /\ Placed(Skip(At), At)
  BY <1>1, <1>5, <1>6, <1>7, SkipPlaced
<1>9. QED
  BY <1>1, <1>5, <1>7, <1>8, SkipNumbers

\* What the places in front of one another are is told by the text alone.
LEMMA SamePlaced ==
  ASSUME text' = text, start' = start, NEW h
  PROVE  Placed(context', h) <=> Placed(context, h)'
<1>1. \A i : Outside(i)' <=> Outside(i)
  BY SameOutside
<1>2. LinesBefore(h)' = LinesBefore(h)
  BY <1>1 DEF LinesBefore, Newlines
<1>3. StartOf(h)' = StartOf(h)
  BY <1>2 DEF StartOf
<1>4. \A a : WidthOf(a, h)' = WidthOf(a, h) /\ Quotes(a, h)' = Quotes(a, h)
  BY DEF WidthOf, Quotes
<1>5. QED
  BY <1>2, <1>3, <1>4 DEF Placed

LEMMA SameKnownPlace ==
  ASSUME text' = text, start' = start, KnownPlace(context', head')
  PROVE  KnownPlace(context, head)'
<1>1. End' = End
  BY DEF End
<1>2. \A i : Outside(i)' <=> Outside(i)
  BY SameOutside
<1>3. \A h : Placed(context', h) <=> Placed(context, h)'
  BY SamePlaced
<1>4. QED
  BY <1>1, <1>2, <1>3 DEF KnownPlace

\* The parse ends: the context holds numbers.
LEMMA LeavesPlace ==
  ASSUME PlaceInv, text' = text, start' = start, parses' = parses, pc' # "parsing",
         DOMAIN context' = Fields, context'.line \in Int, context'.column \in Int
  PROVE  PlaceInv'
  BY DEF PlaceInv

\* A token has been read up to a place the context knows.
LEMMA TokenPlace ==
  ASSUME PlaceInv, pc = "parsing", NEW new, NEW next \in 1 .. (End + 1), NEW width \in Int,
         Token(new, next, width),
         DOMAIN new = Fields, new.line \in Int, new.column \in Int,
         new.ended \/ KnownPlace([new EXCEPT !.column = @ + width], next)
  PROVE  PlaceInv'
<1>1. CASE new.ended \/ next = End
  <2>1. context' = new /\ pc' = "idle" /\ UNCHANGED <<text, head, parses, start>>
    BY <1>1 DEF Token, Return
  <2>2. QED
    BY <2>1, LeavesPlace
<1>2. CASE ~(new.ended \/ next = End)
  <2> DEFINE moved == [new EXCEPT !.column = @ + width]
  <2>1. context' = moved /\ head' = next /\ UNCHANGED <<text, pc, result, parses, start>>
    BY <1>2 DEF Token, Return
  <2>2. DOMAIN moved = Fields /\ moved.line = new.line /\ moved.column = new.column + width
    BY DEF Fields
  <2>3. new.column + width \in Int
    BY AddsUp
  <2>4. DOMAIN context' = Fields /\ context'.line \in Int /\ context'.column \in Int
    BY <2>1, <2>2, <2>3
  <2>5. KnownPlace(context, head)'
    BY <1>2, <2>1, SameKnownPlace
  <2>6. End' = End
    BY <2>1 DEF End
  <2>7. QED
    BY <2>1, <2>4, <2>5, <2>6 DEF PlaceInv
<1>3. QED
  BY <1>1, <1>2

\* A token of symbols that hold no line that counts, of as many characters.
LEMMA ReadsOn ==
  ASSUME PlaceInv, NEW S, Sees(S), NEW new, NEW next \in 1 .. (End + 1), At <= next,
         NEW width \in Int, Token(new, next, width),
         DOMAIN new = Fields, new.line = Skip(At).line, new.column = Skip(At).column,
         next <= End =>
            /\ Outside(next)
            /\ \A i \in At .. (next - 1) : ~(text[i] = "NL" /\ Outside(i))
            /\ WidthOf(At, next) - Cardinality(Quotes(At, next)) = width
  PROVE  PlaceInv'
<1> DEFINE moved == [new EXCEPT !.column = @ + width]
<1>1. /\ At \in Nat \ {0} /\ Placed(Skip(At), At) /\ pc = "parsing"
      /\ Skip(At).line \in Int /\ Skip(At).column \in Int /\ start.column \in Int
  BY SeenPlace DEF PlaceInv
<1>2. moved.line = Skip(At).line /\ moved.column = Skip(At).column + width
  BY DEF Fields
<1>3. next \in Nat
  BY Ends DEF PlaceInv
<1> HIDE DEF moved
<1>4. ASSUME next <= End
      PROVE  Outside(next) /\ Placed(moved, next)
  <2>1. /\ Outside(next)
        /\ \A i \in At .. (next - 1) : ~(text[i] = "NL" /\ Outside(i))
        /\ WidthOf(At, next) - Cardinality(Quotes(At, next)) = width
    BY <1>4
  <2>2. LinesBefore(next) = LinesBefore(At)
    BY <1>1, <1>3, <2>1, NoLineBetween
  <2>3. Placed(moved, next)
    BY <1>1, <1>2, <1>3, <2>1, <2>2, ColumnMoves
  <2>4. QED
    BY <2>1, <2>3
<1>5. KnownPlace(moved, next)
  BY <1>4 DEF KnownPlace
<1>6. QED
  BY <1>1, <1>5, TokenPlace DEF moved

LEMMA NoMore == ASSUME NEW m \in Int, NEW n, n = 0 PROVE m - n = m
  OBVIOUS

\* One symbol that is neither a quote nor a new line.
LEMMA ReadsOne ==
  ASSUME PlaceInv, NEW S, Sees(S), NEW new, NEW width, width = Width(text[At]),
         Token(new, At + 1, width), S \intersect {"NL", "QUOTE"} = {},
         DOMAIN new = Fields, new.line = Skip(At).line, new.column = Skip(At).column
  PROVE  PlaceInv'
<1>1. At \in Nat \ {0} /\ text[At] \in S /\ At + 1 \in 1 .. End /\ Outside(At)
  BY SeenPlace
<1>2. text[At] # "NL" /\ text[At] # "QUOTE"
  BY <1>1
<1>3. /\ At \in Nat /\ At \in Int /\ At + 1 \in Nat /\ At <= At + 1
      /\ \A i \in At .. ((At + 1) - 1) : i = At
  BY <1>1
<1>4. At + 1 \in 1 .. (End + 1)
  BY <1>1, Ends DEF PlaceInv
<1>5. WidthOf(At, At + 1) = width /\ width \in Int
  <2>1. WidthOf(At, At + 1) = width
    BY <1>3, WidthOfOne
  <2>2. width \in 1 .. LongestWord
    BY Widths
  <2>3. QED
    BY <2>1, <2>2 DEF LongestWord
<1>6. \A i \in At .. ((At + 1) - 1) : text[i] # "QUOTE" /\ text[i] # "NL"
  BY <1>2, <1>3
<1>7. Outside(At + 1)
  BY <1>1, <1>3, <1>6, NoQuoteBetween
<1>8. WidthOf(At, At + 1) - Cardinality(Quotes(At, At + 1)) = width
  <2>1. Cardinality(Quotes(At, At + 1)) = 0
    BY <1>6, NoQuotes
  <2>2. QED
    BY <1>5, <2>1, NoMore
<1>9. QED
  BY <1>3, <1>4, <1>5, <1>6, <1>7, <1>8, ReadsOn

LEMMA OneBracketPlace ==
  ASSUME PlaceInv, NEW b, NEW kind \in {"curly", "square"}, b \in Brackets4,
         OpenBracket(b, kind) \/ CloseBracket(b, kind)
  PROVE  PlaceInv'
<1>1. Sees({b})
  BY DEF OpenBracket, CloseBracket
<1>2. /\ DOMAIN Skip(At) = Fields /\ At \in DOMAIN text /\ text[At] = b
  BY <1>1, SeenPlace
<1>3. {b} \intersect {"NL", "QUOTE"} = {} /\ Width(text[At]) = 1
  BY <1>2 DEF Width, Brackets4
<1>4. CASE OpenBracket(b, kind)
  <2> DEFINE new == [Skip(At) EXCEPT !.depth = @ + 1, ![kind] = @ + 1]
  <2>1. Token(new, At + 1, 1)
    BY <1>4 DEF OpenBracket
  <2>2. DOMAIN new = Fields /\ new.line = Skip(At).line /\ new.column = Skip(At).column
    BY <1>2 DEF Fields
  <2>3. QED
    BY <1>1, <1>3, <2>1, <2>2, ReadsOne
<1>5. CASE CloseBracket(b, kind)
  <2> DEFINE new == [Skip(At) EXCEPT !.depth = @ - 1, ![kind] = @ - 1]
  <2>1. Token(new, At + 1, 1)
    BY <1>5 DEF CloseBracket
  <2>2. DOMAIN new = Fields /\ new.line = Skip(At).line /\ new.column = Skip(At).column
    BY <1>2 DEF Fields
  <2>3. QED
    BY <1>1, <1>3, <2>1, <2>2, ReadsOne
<1>6. QED
  BY <1>4, <1>5

\* The end of the object, and whatever the parser gives up at.
LEMMA GivesUpPlace ==
  ASSUME PlaceInv, \/ EndObject \/ ReadBadWord \/ ReadOther \/ ReadBehind
                   \/ \E b, kind : ExtraBracket(b, kind)
  PROVE  PlaceInv'
<1>1. pc = "parsing"
  BY DEF EndObject, ReadBadWord, ReadOther, ReadBehind, ExtraBracket, Sees
<1>2. /\ DOMAIN Skip(At) = Fields /\ Skip(At).line \in Int /\ Skip(At).column \in Int
      /\ DOMAIN context = Fields /\ context.line \in Int /\ context.column \in Int
  BY <1>1, SkipNumbers DEF PlaceInv
<1>3. ASSUME NEW error, Fails(error)
      PROVE  PlaceInv'
  <2> DEFINE new == [Skip(At) EXCEPT !.error = error]
  <2>1. context' = new /\ pc' = "idle" /\ UNCHANGED <<text, head, parses, start>>
    BY <1>3 DEF Fails, Return
  <2>2. DOMAIN new = Fields /\ new.line = Skip(At).line /\ new.column = Skip(At).column
    BY <1>2 DEF Fields
  <2>3. QED
    BY <1>2, <2>1, <2>2, LeavesPlace
<1>4. CASE EndObject
  <2> DEFINE new == [Skip(At) EXCEPT !.ended = TRUE]
  <2>1. Token(new, At, 0)
    BY <1>4 DEF EndObject
  <2>2. /\ DOMAIN new = Fields /\ new.line = Skip(At).line /\ new.column = Skip(At).column
        /\ new.ended
    BY <1>2 DEF Fields
  <2>3. context' = new /\ pc' = "idle" /\ UNCHANGED <<text, head, parses, start>>
    BY <2>1, <2>2 DEF Token, Return
  <2>4. QED
    BY <1>2, <2>2, <2>3, LeavesPlace
<1>5. CASE ReadOther
  <2>1. /\ context' = context \/ context' = Skip(At)
        /\ pc' # "parsing" /\ UNCHANGED <<text, head, parses, start>>
    BY <1>5 DEF ReadOther, Return
  <2>2. QED
    BY <1>2, <2>1, LeavesPlace
<1>6. CASE ReadBehind
  <2>1. /\ context' = context \/ context' = Skip(At)
        /\ pc' # "parsing" /\ UNCHANGED <<text, head, parses, start>>
    BY <1>6 DEF ReadBehind, Return
  <2>2. QED
    BY <1>2, <2>1, LeavesPlace
<1>7. QED
  BY <1>3, <1>4, <1>5, <1>6 DEF ReadBadWord, ExtraBracket

LEMMA NumberPlace == ASSUME PlaceInv, ReadNumber PROVE PlaceInv'
<1> DEFINE next == Past(At, Digits \union {"."})
<1>1. Sees(Digits) /\ Token(Skip(At), next, next - At)
  BY DEF ReadNumber
<1>2. /\ At \in Nat \ {0} /\ At + 1 \in 1 .. End /\ Outside(At)
      /\ DOMAIN Skip(At) = Fields /\ Skip(At).line \in Int /\ Skip(At).column \in Int
  BY <1>1, SeenPlace
<1>3. text \in Seq(Symbols) /\ End \in Nat
  BY Ends DEF PlaceInv
<1>4. At \in 1 .. (End + 1) /\ At <= End
  BY <1>2, <1>3
<1>5. /\ next \in 1 .. End /\ At <= next
      /\ \A i \in At .. (next - 1) : text[i] \in Digits \union {"."}
  BY <1>3, <1>4, PastIs
<1> HIDE DEF next
<1>6. \A i \in At .. (next - 1) : text[i] # "QUOTE" /\ text[i] # "NL" /\ Width(text[i]) = 1
  <2>1. \A s \in Digits \union {"."} : s # "QUOTE" /\ s # "NL" /\ s \notin Words \union BadWords
    BY DEF Digits, Words, BadWords
  <2>2. QED
    BY <1>5, <2>1, Widths
<1>7. /\ At \in Nat /\ At \in Int /\ next \in Nat /\ next \in Int /\ next - At \in Int
      /\ next \in 1 .. (End + 1)
  BY <1>2, <1>3, <1>5
<1>8. Outside(next)
  BY <1>2, <1>5, <1>6, <1>7, NoQuoteBetween
<1>9. WidthOf(At, next) - Cardinality(Quotes(At, next)) = next - At
  <2>1. WidthOf(At, next) = next - At
    BY <1>5, <1>6, <1>7, WidthOfSingles
  <2>2. Cardinality(Quotes(At, next)) = 0
    BY <1>6, NoQuotes
  <2>3. QED
    BY <1>7, <2>1, <2>2, NoMore
<1>10. QED
  BY <1>1, <1>2, <1>5, <1>6, <1>7, <1>8, <1>9, ReadsOn

LEMMA TwoOfThem ==
  ASSUME NEW x, NEW y, x # y
  PROVE  Cardinality({x, y}) = 2
<1>1. IsFiniteSet({x}) /\ Cardinality({x}) = 1
  BY FS_Singleton
<1>2. y \notin {x} /\ {x, y} = {x} \union {y}
  OBVIOUS
<1>3. Cardinality({x} \union {y}) = Cardinality({x}) + 1
  BY <1>1, <1>2, FS_AddElement
<1>4. QED
  BY <1>1, <1>2, <1>3

LEMMA QuotesOff ==
  ASSUME NEW w \in Int, NEW q, NEW v, NEW u, NEW x, NEW y, x = 1, y = 1, q = 2,
         v = x + u, u = w + y
  PROVE  v - q = w
  OBVIOUS

LEMMA StringPlaces ==
  ASSUME NEW e \in Nat, NEW a \in 1 .. e, NEW c \in 1 .. e, a + 1 <= c
  PROVE  /\ a \in Int /\ a + 1 \in Int /\ c \in Int /\ c + 1 \in Int
         /\ a <= a + 1 /\ a + 1 <= c + 1 /\ c <= c + 1 /\ a <= c + 1 /\ a # c
         /\ c + 1 \in 1 .. (e + 1)
         /\ a \in a .. ((c + 1) - 1) /\ c \in a .. ((c + 1) - 1)
         /\ \A i \in a .. ((c + 1) - 1) : i = a \/ i = c \/ i \in (a + 1) .. (c - 1)
         /\ \A i \in (a + 1) .. (c - 1) : i \in (a + 1) .. c
         /\ ~(c + 1 <= e) <=> c = e
  OBVIOUS

LEMMA StringPlace == ASSUME PlaceInv, ReadString PROVE PlaceInv'
<1> DEFINE close == CloseOf(At)
<1>1. Sees({"QUOTE"}) /\ Token(Skip(At), close + 1, WidthOf(At + 1, close))
  BY DEF ReadString, CloseOf
<1>2. /\ At \in DOMAIN text /\ At \in Nat \ {0} /\ text[At] = "QUOTE" /\ Outside(At)
      /\ At + 1 \in 1 .. End
      /\ DOMAIN Skip(At) = Fields /\ Skip(At).line \in Int /\ Skip(At).column \in Int
  BY <1>1, SeenPlace
<1>3. text \in Seq(Symbols) /\ End \in Nat
  BY Ends DEF PlaceInv
<1>4. /\ close \in 1 .. End /\ At + 1 <= close
      /\ \A i \in (At + 1) .. (close - 1) : text[i] # "QUOTE"
      /\ \A i \in (At + 1) .. close : ~Outside(i)
      /\ close # End => text[close] = "QUOTE" /\ Outside(close + 1)
  BY <1>2, <1>3, StringIs
<1> HIDE DEF close
<1>5. /\ At \in Int /\ At + 1 \in Int /\ close \in Int /\ close + 1 \in Int
      /\ At <= At + 1 /\ At + 1 <= close + 1 /\ close <= close + 1 /\ At <= close + 1
      /\ At # close /\ close + 1 \in 1 .. (End + 1)
      /\ At \in At .. ((close + 1) - 1) /\ close \in At .. ((close + 1) - 1)
      /\ \A i \in At .. ((close + 1) - 1) : i = At \/ i = close \/ i \in (At + 1) .. (close - 1)
      /\ \A i \in (At + 1) .. (close - 1) : i \in (At + 1) .. close
      /\ ~(close + 1 <= End) <=> close = End
  <2>1. At \in 1 .. End
    BY <1>2, <1>3
  <2>2. QED
    BY <1>3, <1>4, <2>1, StringPlaces
<1>6. WidthOf(At + 1, close) \in Int
  <2>1. WidthOf(At + 1, close) \in Nat
    BY <1>5, FiniteChars
  <2>2. QED
    BY <2>1
<1>7. ASSUME close + 1 <= End
      PROVE  WidthOf(At, close + 1) - Cardinality(Quotes(At, close + 1)) = WidthOf(At + 1, close)
  <2>1. text[close] = "QUOTE"
    BY <1>4, <1>5, <1>7
  <2>2. Width(text[At]) = 1 /\ Width(text[close]) = 1
    BY <1>2, <2>1 DEF Width
  <2>3. WidthOf(At, At + 1) = 1 /\ WidthOf(close, close + 1) = 1
    BY <1>5, <2>2, WidthOfOne
  <2>4. WidthOf(At, close + 1) = WidthOf(At, At + 1) + WidthOf(At + 1, close + 1)
    BY <1>5, WidthsAdd
  <2>5. WidthOf(At + 1, close + 1) = WidthOf(At + 1, close) + WidthOf(close, close + 1)
    BY <1>4, <1>5, WidthsAdd
  <2>6. Quotes(At, close + 1) = {At, close}
    BY <1>2, <1>4, <1>5, <2>1 DEF Quotes
  <2>7. Cardinality(Quotes(At, close + 1)) = 2
    BY <1>5, <2>6, TwoOfThem
  <2>8. QED
    BY <1>6, <2>3, <2>4, <2>5, <2>7, QuotesOff
<1>8. ASSUME close + 1 <= End
      PROVE  \A i \in At .. ((close + 1) - 1) : ~(text[i] = "NL" /\ Outside(i))
  <2>1. text[close] # "NL" /\ text[At] # "NL"
    BY <1>2, <1>4, <1>5, <1>8
  <2>2. QED
    BY <1>4, <1>5, <2>1
<1>9. close + 1 <= End => Outside(close + 1)
  BY <1>4, <1>5
<1>10. QED
  BY <1>1, <1>2, <1>5, <1>6, <1>7, <1>8, <1>9, ReadsOn

LEMMA TurnPlace == ASSUME PlaceInv, Turn PROVE PlaceInv'
<1>1. CASE Brackets
  <2>1. PICK b \in {<<"{", "}", "curly">>, <<"[", "]", "square">>} :
           OpenBracket(b[1], b[3]) \/ CloseBracket(b[2], b[3]) \/ ExtraBracket(b[2], b[3])
    BY <1>1 DEF Brackets
  <2>2. b[1] \in Brackets4 /\ b[2] \in Brackets4 /\ b[3] \in {"curly", "square"}
    <3>1. /\ <<"{", "}", "curly">>[1] = "{" /\ <<"{", "}", "curly">>[2] = "}"
          /\ <<"{", "}", "curly">>[3] = "curly"
          /\ <<"[", "]", "square">>[1] = "[" /\ <<"[", "]", "square">>[2] = "]"
          /\ <<"[", "]", "square">>[3] = "square"
      OBVIOUS
    <3>2. /\ "{" \in Brackets4 /\ "}" \in Brackets4 /\ "[" \in Brackets4 /\ "]" \in Brackets4
          /\ "curly" \in {"curly", "square"} /\ "square" \in {"curly", "square"}
      BY DEF Brackets4
    <3>3. b = <<"{", "}", "curly">> \/ b = <<"[", "]", "square">>
      OBVIOUS
    <3>4. QED
      BY <3>1, <3>2, <3>3, Zenon
  <2>3. QED
    BY <2>1, <2>2, OneBracketPlace, GivesUpPlace
<1>2. CASE ReadDelimiter
  <2>1. Sees({":", ","}) /\ Token(Skip(At), At + 1, 1)
    BY <1>2 DEF ReadDelimiter
  <2>2. text[At] \in {":", ","} /\ DOMAIN Skip(At) = Fields
    BY <2>1, SeenPlace
  <2>3. {":", ","} \intersect {"NL", "QUOTE"} = {} /\ 1 = Width(text[At])
    BY <2>2 DEF Width
  <2>4. QED
    BY <2>1, <2>2, <2>3, ReadsOne
<1>3. CASE ReadWord
  <2>1. Sees(Words) /\ Token(Skip(At), At + 1, Width(text[At]))
    BY <1>3 DEF ReadWord
  <2>2. Words \intersect {"NL", "QUOTE"} = {} /\ DOMAIN Skip(At) = Fields
    BY <2>1, SeenPlace DEF Words
  <2>3. QED
    BY <2>1, <2>2, ReadsOne
<1>4. QED
  BY <1>1, <1>2, <1>3, NumberPlace, StringPlace, GivesUpPlace DEF Turn

\* At its start the context knows the place it is at.
LEMMA FirstPlace ==
  ASSUME context.line \in Int, context.column \in Int, start = context
  PROVE  KnownPlace(context, 1)
<1>1. /\ 1 \in Int /\ 1 <= 1 /\ 1 .. (1 - 1) = {} /\ 1 - 1 = 0 /\ 0 + 1 = 1
      /\ 0 \in Nat /\ 1 \in Nat
  OBVIOUS
<1>2. LinesBefore(1) = {} /\ Cardinality(LinesBefore(1)) = 0
  BY <1>1, FS_EmptySet DEF LinesBefore, Newlines
<1>3. StartOf(1) = 0
  <2>1. StartOf(1) = Max({0})
    BY <1>2 DEF StartOf
  <2>2. {0} \in SUBSET (0 .. 0) /\ {0} # {}
    BY <1>1
  <2>3. Max({0}) \in {0}
    BY <1>1, <2>2, MaxIsThere
  <2>4. QED
    BY <2>1, <2>3
<1>4. WidthOf(1, 1) = 0 /\ Cardinality(Quotes(1, 1)) = 0
  BY <1>1, WidthOfSingles, NoQuotes
<1>5. context.column = start.column + WidthOf(1, 1) - Cardinality(Quotes(1, 1))
  BY <1>4
<1>6. context.line = start.line + Cardinality(LinesBefore(1))
  BY <1>2
<1>7. Placed(context, 1)
  BY <1>1, <1>2, <1>3, <1>5, <1>6 DEF Placed
<1>8. QED
  BY <1>7, OutsideStarts DEF KnownPlace

LEMMA FirstPlaceNow ==
  context.line \in Int /\ context.column \in Int /\ start = context => KnownPlace(context, 1)
  BY FirstPlace

LEMMA ParsesPlace == ASSUME PlaceInv, Parses PROVE PlaceInv'
<1>1. PICK t \in Texts[parses + 1] : Parse(t)
  BY DEF Parses
<1>2. /\ text' = t /\ head' = 1 /\ pc' = "parsing" /\ context' = context /\ start' = context
      /\ parses' = parses + 1
  BY <1>1 DEF Parse
<1>3. text' \in Seq(Symbols)
  <2>1. parses \in Nat /\ parses < Len(Texts)
    BY DEF Parses, PlaceInv
  <2>2. Texts \in Seq(SUBSET Seq(Symbols)) /\ parses + 1 \in 1 .. Len(Texts)
    BY <2>1, ParserAssumption
  <2>3. Texts[parses + 1] \in SUBSET Seq(Symbols)
    BY <2>2
  <2>4. QED
    BY <1>2, <2>3
<1>4. head' \in 1 .. (End' + 1)
  BY <1>2, <1>3 DEF End
<1>5. /\ context'.line \in Int /\ context'.column \in Int /\ DOMAIN context' = Fields
      /\ start'.line \in Int /\ start'.column \in Int /\ parses' \in Nat
  BY <1>2 DEF PlaceInv
<1>6. KnownPlace(context, 1)'
  <2>1. (context.line \in Int /\ context.column \in Int /\ start = context)'
    BY <1>2, <1>5
  <2>2. QED
    BY <2>1, FirstPlaceNow, PTL
<1>7. QED
  BY <1>2, <1>3, <1>4, <1>5, <1>6 DEF PlaceInv

LEMMA PlaceStarts == Init => PlaceInv
<1> SUFFICES ASSUME Init PROVE PlaceInv
  OBVIOUS
<1>1. /\ DOMAIN context = Fields /\ context.line = 1 /\ context.column = 1 /\ start = context
      /\ pc = "idle" /\ parses = 0 /\ text = <<>>
  BY DEF Init, Fields
<1>2. QED
  BY <1>1 DEF PlaceInv

LEMMA PlaceStep == PlaceInv /\ [Next]_vars => PlaceInv'
<1> SUFFICES ASSUME PlaceInv, [Next]_vars PROVE PlaceInv'
  OBVIOUS
<1>1. CASE UNCHANGED vars
  <2>1. UNCHANGED <<context, text, head, pc, result, parses, start>>
    BY <1>1 DEF vars
  <2>2. End' = End
    BY <2>1 DEF End
  <2>3. pc' = "parsing" => KnownPlace(context, head)'
    <3>1. pc' = "parsing" => KnownPlace(context', head')
      BY <2>1 DEF PlaceInv
    <3>2. QED
      BY <2>1, <3>1, SameKnownPlace
  <2>4. QED
    BY <2>1, <2>2, <2>3 DEF PlaceInv
<1>2. QED
  BY <1>1, TurnPlace, ParsesPlace DEF Next

\* Between two tokens the context knows its place: the lines that are not
\* within strings, and the characters of the line but for the quotes.
THEOREM PositionsAreKept == Spec => []PositionIsKept
<1>1. Spec => []PlaceInv
  BY PlaceStarts, PlaceStep, PTL DEF Spec
<1>2. PlaceInv => PositionIsKept
  BY DEF PlaceInv, KnownPlace, Placed, LinesBefore, StartOf, PositionIsKept, LineStart
<1>3. QED
  BY <1>1, <1>2, PTL
=============================================================================
