-------------------------- MODULE HandshakeProofs --------------------------
(***************************************************************************)
(* Proofs about the connection that becomes a websocket: what the parser   *)
(* makes of a message that arrives in part, what is answered to a request, *)
(* and what the websocket has of the frames behind it.                     *)
(*                                                                         *)
(* Messages.  The parser looks for line ends and empty lines, so the first *)
(* parts are about Find, Split and TrimAny: where the line ends of a       *)
(* message are, for headers of any number (the induction over them is      *)
(* GoingUp and GoingDown: a set of numbers that is not empty has a least   *)
(* one), and what is still found when only the first n tokens of the       *)
(* message are in the buffer.  MessageIsRead puts this together: the       *)
(* headers are seen from one length of the message on, the body when it    *)
(* ends, and not before.                                                   *)
(*                                                                         *)
(* Frames.  The stream is a flattening of frames, so the next part is about*)
(* FlattenSeq: where each frame is and what data lies between two places.  *)
(* The invariant, ReadInv, then says that the reader is at a known place of*)
(* a known frame with the data so far in the message, or that the stream   *)
(* has ended within a frame and all of it is read.  Each step of the reader*)
(* gets a lemma of its own; the peer and the handshake move nothing but the*)
(* end, the last byte delivered and the stream's start.                    *)
(*                                                                         *)
(* The key.  What recv took is a part of the request, or all of it with    *)
(* frames behind it, and both are read as a message without a body. KeyInv *)
(* says which of the two it is and that it was accepted, until the answer  *)
(* is sent.                                                                *)
(***************************************************************************)
EXTENDS Handshake, HttpTransfer, WellFoundedInduction, SequenceTheorems, FiniteSetTheorems, TLAPS

-----------------------------------------------------------------------------
(* Numbers *)

LEMMA Least ==
  ASSUME NEW T \in SUBSET Nat, T # {}
  PROVE  \E x \in T : \A y \in T : x <= y
<1>1. IsWellFoundedOn(OpToRel(<, Nat), Nat)
  BY NatLessThanWellFounded
<1> DEFINE Smaller == {p \in Nat \X Nat : p[1] < p[2]}
<1>2. OpToRel(<, Nat) = Smaller
  BY DEF OpToRel
<1>3. IsWellFoundedOn(Smaller, Nat)
  BY <1>1, <1>2
<1>4. ASSUME NEW x \in Nat, NEW y \in Nat, y < x
      PROVE  <<y, x>> \in Smaller
  <2>1. <<y, x>> \in Nat \X Nat
    OBVIOUS
  <2>2. <<y, x>>[1] < <<y, x>>[2]
    BY <1>4
  <2>3. QED
    BY <2>1, <2>2
<1> HIDE DEF Smaller
<1>5. PICK x \in T : \A y \in T : ~(<<y, x>> \in Smaller)
  BY <1>3, WFMin
<1>6. ASSUME NEW y \in T
      PROVE  x <= y
  <2>1. ~(y < x)
    BY <1>4, <1>5, Zenon
  <2>2. QED
    BY <2>1
<1>7. QED
  BY <1>6

\* Induction, told of the set of the numbers a claim holds of.
LEMMA GoingUp ==
  ASSUME NEW m \in Nat, NEW G \in SUBSET (0 .. m), 0 \in G,
         \A n \in 0 .. (m - 1) : n \in G => n + 1 \in G
  PROVE  G = 0 .. m
<1> DEFINE Bad == {n \in 0 .. m : n \notin G}
<1>1. SUFFICES ASSUME Bad # {} PROVE FALSE
  OBVIOUS
<1>2. Bad \in SUBSET Nat
  OBVIOUS
<1>3. PICK n \in Bad : \A y \in Bad : n <= y
  BY <1>1, <1>2, Least
<1>4. n \in 0 .. m /\ n # 0 /\ n \notin G
  BY <1>3
<1>5. n - 1 \in 0 .. (m - 1) /\ n - 1 \in 0 .. m /\ ~(n <= n - 1) /\ (n - 1) + 1 = n
  BY <1>4
<1>6. n - 1 \in G
  BY <1>3, <1>5
<1>7. QED
  BY <1>4, <1>5, <1>6

\* What is true of every number of a range when it is of one whose greater
\* ones it is true of: the induction that goes down.
LEMMA GoingDown ==
  ASSUME NEW m \in Nat, NEW G \in SUBSET (1 .. m),
         \A l \in 1 .. m : (\A k \in (l + 1) .. m : k \in G) => l \in G
  PROVE  G = 1 .. m
<1> DEFINE Bad == {n \in 0 .. (m - 1) : m - n \notin G}
<1>1. SUFFICES ASSUME G # 1 .. m PROVE FALSE
  OBVIOUS
<1>2. Bad \in SUBSET Nat /\ Bad # {}
  <2>1. PICK l \in 1 .. m : l \notin G
    BY <1>1
  <2>2. m - l \in 0 .. (m - 1) /\ m - (m - l) = l
    OBVIOUS
  <2>3. m - l \in Bad
    BY <2>1, <2>2
  <2>4. \A n \in 0 .. (m - 1) : n \in Nat
    OBVIOUS
  <2>5. QED
    BY <2>3, <2>4
<1>3. PICK n \in Bad : \A y \in Bad : n <= y
  BY <1>2, Least
<1>4. n \in 0 .. (m - 1) /\ m - n \in 1 .. m
  BY <1>3
<1>5. ASSUME NEW k \in ((m - n) + 1) .. m
      PROVE  k \in G
  <2>1. m - k \in 0 .. (m - 1) /\ m - k < n /\ m - (m - k) = k
    BY <1>4
  <2>2. m - k \notin Bad
    BY <1>3, <1>4, <2>1
  <2>3. QED
    BY <2>1, <2>2
<1>6. m - n \in G
  BY <1>4, <1>5
<1>7. QED
  BY <1>3, <1>6

-----------------------------------------------------------------------------
(* Finding *)

\* Every token is a string; that one of these is, the provers do not know.
Token == STRING \union {"CR", "LF", "SP", "COLON", "NUL", "frames", "HTTP/1.1", "200", "OK",
                        "host", "sec-websocket-key", "Content-Length", "length"}

Texts == Seq(Token)

\* Where a delimiter stands in a text.
Occurs(text, delim, i) ==
    /\ i \in 1 .. (Len(text) - Len(delim) + 1)
    /\ \A k \in 1 .. Len(delim) : text[i + k - 1] = delim[k]

LEMMA One ==
  ASSUME NEW token \in Token
  PROVE  <<token>> \in Texts /\ <<token>> # <<>> /\ Len(<<token>>) = 1 /\ <<token>>[1] = token
  BY DEF Texts

LEMMA OccursIs ==
  ASSUME NEW text \in Texts, NEW delim \in Texts, delim # <<>>,
         NEW i \in 1 .. (Len(text) - Len(delim) + 1)
  PROVE  SubSeq(text, i, i + Len(delim) - 1) = delim <=> Occurs(text, delim, i)
<1> DEFINE d == Len(delim)
           n == Len(text)
           sub == SubSeq(text, i, i + d - 1)
<1>1. d \in Nat \ {0} /\ n \in Nat
  BY EmptySeq, LenProperties DEF Texts
<1>2. \A k \in i .. (i + d - 1) : text[k] \in Token
  <2>1. \A k \in i .. (i + d - 1) : k \in 1 .. n
    BY <1>1
  <2>2. QED
    BY <2>1, ElementOfSeq DEF Texts
<1>3. i \in Int /\ i + d - 1 \in Int /\ i <= i + d - 1 /\ (i + d - 1) - i + 1 = d
  BY <1>1
<1>4. sub \in Texts /\ Len(sub) = d /\ \A k \in 1 .. d : sub[k] = text[i + k - 1]
  <2> HIDE DEF d
  <2>1. QED
    BY <1>2, <1>3, SubSeqProperties DEF Texts
<1>5. ASSUME \A k \in 1 .. d : text[i + k - 1] = delim[k]
      PROVE  sub = delim
  <2>1. \A k \in 1 .. Len(sub) : sub[k] = delim[k]
    BY <1>4, <1>5
  <2> HIDE DEF sub
  <2>2. QED
    BY <1>4, <2>1, SeqEqual DEF Texts
<1>6. QED
  BY <1>4, <1>5 DEF Occurs

\* What find finds: the first place behind from, or that there is none.
LEMMA FindIs ==
  ASSUME NEW text \in Texts, NEW delim \in Texts, delim # <<>>, NEW begin \in Nat \ {0}
  PROVE  LET r == Find(text, delim, begin)
         IN  \/ r = 0 /\ \A i \in Nat : i >= begin => ~Occurs(text, delim, i)
             \/ /\ r \in begin .. Len(text) /\ Occurs(text, delim, r)
                /\ \A i \in begin .. (r - 1) : ~Occurs(text, delim, i)
<1> DEFINE d == Len(delim)
           n == Len(text)
           hit == {i \in begin .. (n - d + 1) : SubSeq(text, i, i + d - 1) = delim}
           r == Find(text, delim, begin)
<1>1. d \in Nat \ {0} /\ n \in Nat
  BY EmptySeq, LenProperties DEF Texts
<1>2. \A i \in begin .. (n - d + 1) : i \in hit <=> Occurs(text, delim, i)
  <2>1. \A i \in begin .. (n - d + 1) : i \in 1 .. (n - d + 1)
    BY <1>1
  <2>2. QED
    BY <2>1, OccursIs
<1>3. \A i \in Nat : i >= begin /\ Occurs(text, delim, i) => i \in begin .. (n - d + 1)
  BY <1>1 DEF Occurs
<1>4. hit \in SUBSET Nat /\ hit \subseteq begin .. (n - d + 1)
  OBVIOUS
<1>5. r = IF hit = {} THEN 0 ELSE CHOOSE i \in hit : \A j \in hit : i <= j
  BY DEF Find
<1> HIDE DEF hit
<1>6. hit # {} => r \in hit /\ \A j \in hit : r <= j
  <2>1. hit # {} => \E i \in hit : \A j \in hit : i <= j
    BY <1>4, Least
  <2>2. QED
    BY <1>5, <2>1
<1>7. CASE hit = {}
  BY <1>2, <1>3, <1>5, <1>7
<1>8. CASE hit # {}
  <2>1. r \in begin .. (n - d + 1) /\ Occurs(text, delim, r)
    BY <1>2, <1>4, <1>6, <1>8
  <2>2. ASSUME NEW i \in begin .. (r - 1), Occurs(text, delim, i)
        PROVE  FALSE
    <3> HIDE DEF r
    <3>1. i \in Nat /\ i >= begin /\ i < r
      BY <2>1
    <3>2. i \in hit
      BY <1>2, <1>3, <2>2, <3>1
    <3>3. QED
      BY <1>6, <1>8, <2>1, <3>1, <3>2
  <2>3. r \in begin .. n
    <3> HIDE DEF r, n, d
    <3>1. QED
      BY <1>1, <2>1
  <2>4. QED
    BY <2>1, <2>2, <2>3
<1>9. QED
  BY <1>7, <1>8

LEMMA FoundAt ==
  ASSUME NEW text \in Texts, NEW delim \in Texts, delim # <<>>, NEW begin \in Nat \ {0},
         NEW r \in Nat, r >= begin, Occurs(text, delim, r),
         \A i \in begin .. (r - 1) : ~Occurs(text, delim, i)
  PROVE  Find(text, delim, begin) = r
<1> DEFINE f == Find(text, delim, begin)
<1>1. CASE f = 0 /\ \A i \in Nat : i >= begin => ~Occurs(text, delim, i)
  BY <1>1
<1>2. CASE /\ f \in begin .. Len(text) /\ Occurs(text, delim, f)
           /\ \A i \in begin .. (f - 1) : ~Occurs(text, delim, i)
  <2>1. f \in Nat /\ f >= begin /\ ~(f \in begin .. (r - 1)) /\ ~(r \in begin .. (f - 1))
    BY <1>2, LenProperties DEF Texts
  <2> HIDE DEF f
  <2>2. f = r
    BY <2>1
  <2>3. QED
    BY <2>2 DEF f
<1>3. QED
  BY <1>1, <1>2, FindIs

LEMMA FoundNowhere ==
  ASSUME NEW text \in Texts, NEW delim \in Texts, delim # <<>>, NEW begin \in Nat \ {0},
         \A i \in Nat : i >= begin => ~Occurs(text, delim, i)
  PROVE  Find(text, delim, begin) = 0
<1> DEFINE f == Find(text, delim, begin)
<1>1. ~(f \in begin .. Len(text) /\ Occurs(text, delim, f))
  BY LenProperties DEF Texts
<1>2. QED
  BY <1>1, FindIs

-----------------------------------------------------------------------------
(* Splitting *)

\* The function of split, from which it takes the value at 1.
Cut(f, text, delim, l) ==
    LET r == Find(text, delim, l)
    IN  IF l > Len(text) THEN <<>>
        ELSE IF r = 0 THEN <<SubSeq(text, l, Len(text))>>
        ELSE (IF r > l THEN <<SubSeq(text, l, r - 1)>> ELSE <<>>)
                \o f[r + Len(delim)]

Splits(f, text, delim) ==
    /\ DOMAIN f = 1 .. (Len(text) + 1)
    /\ \A l \in 1 .. (Len(text) + 1) : f[l] = Cut(f, text, delim, l)

LEMMA CutLater ==
  ASSUME NEW text \in Texts, NEW delim \in Texts, delim # <<>>,
         NEW l \in 1 .. (Len(text) + 1), Find(text, delim, l) # 0, l <= Len(text)
  PROVE  LET r == Find(text, delim, l)
         IN  r \in l .. Len(text) /\ r + Len(delim) \in (l + 1) .. (Len(text) + 1)
<1> DEFINE n == Len(text)
           d == Len(delim)
           r == Find(text, delim, l)
<1>1. n \in Nat /\ d \in Nat \ {0} /\ l \in Nat \ {0}
  BY EmptySeq, LenProperties DEF Texts
<1>2. r \in l .. n /\ r \in 1 .. (n - d + 1)
  BY <1>1, FindIs DEF Occurs
<1> HIDE DEF r, n, d
<1>3. r \in l .. n /\ r + d \in (l + 1) .. (n + 1)
  BY <1>1, <1>2
<1>4. QED
  BY <1>3 DEF r, n, d

LEMMA CutDepends ==
  ASSUME NEW text \in Texts, NEW delim \in Texts, delim # <<>>,
         NEW l \in 1 .. (Len(text) + 1)
  PROVE  \A f, g : (\A k \in (l + 1) .. (Len(text) + 1) : f[k] = g[k])
                    => Cut(f, text, delim, l) = Cut(g, text, delim, l)
<1> SUFFICES ASSUME NEW f, NEW g, \A k \in (l + 1) .. (Len(text) + 1) : f[k] = g[k]
             PROVE  Cut(f, text, delim, l) = Cut(g, text, delim, l)
  OBVIOUS
<1>1. CASE l > Len(text) \/ Find(text, delim, l) = 0
  BY <1>1 DEF Cut
<1>2. CASE ~(l > Len(text)) /\ Find(text, delim, l) # 0
  <2>1. l <= Len(text)
    BY <1>2, LenProperties DEF Texts
  <2>2. f[Find(text, delim, l) + Len(delim)] = g[Find(text, delim, l) + Len(delim)]
    BY <1>2, <2>1, CutLater
  <2>3. QED
    BY <2>2 DEF Cut
<1>3. QED
  BY <1>1, <1>2

LEMMA SplitsExists ==
  ASSUME NEW text \in Texts, NEW delim \in Texts, delim # <<>>
  PROVE  \E f : Splits(f, text, delim)
<1> DEFINE m == Len(text) + 1
           Good(f, l) == DOMAIN f = 1 .. m /\ \A k \in l .. m : f[k] = Cut(f, text, delim, k)
           G == {l \in 1 .. m : \E f : Good(f, l)}
<1>1. m \in Nat /\ m >= 1
  BY LenProperties DEF Texts
<1>2. ASSUME NEW l \in 1 .. m, \A k \in (l + 1) .. m : k \in G
      PROVE  l \in G
  <2>1. \E f : Good(f, l + 1)
    <3>1. CASE l + 1 \in (l + 1) .. m
      BY <1>2, <3>1
    <3>2. CASE ~(l + 1 \in (l + 1) .. m)
      <4>1. (l + 1) .. m = {}
        BY <1>1, <3>2
      <4>2. Good([k \in 1 .. m |-> 0], l + 1)
        BY <4>1
      <4>3. QED
        BY <4>2
    <3>3. QED
      BY <3>1, <3>2
  <2>2. PICK f : Good(f, l + 1)
    BY <2>1
  <2> DEFINE g == [k \in 1 .. m |-> IF k = l THEN Cut(f, text, delim, l) ELSE f[k]]
  <2>3. g[l] = Cut(f, text, delim, l) /\ \A k \in (l + 1) .. m : g[k] = f[k]
    OBVIOUS
  <2>4. DOMAIN g = 1 .. m
    OBVIOUS
  <2> HIDE DEF g
  <2>5. ASSUME NEW k \in l .. m
        PROVE  g[k] = Cut(g, text, delim, k)
    <3>1. k \in 1 .. m /\ \A j \in (k + 1) .. m : j \in (l + 1) .. m
      BY <1>1
    <3>2. \A j \in (k + 1) .. m : f[j] = g[j]
      BY <2>3, <3>1
    <3>3. Cut(f, text, delim, k) = Cut(g, text, delim, k)
      <4> HIDE DEF Good, G
      <4>1. k \in 1 .. (Len(text) + 1) /\ \A j \in (k + 1) .. (Len(text) + 1) : f[j] = g[j]
        BY <3>1, <3>2
      <4>2. QED
        BY <4>1, CutDepends
    <3>4. g[k] = Cut(f, text, delim, k)
      <4>1. k = l \/ k \in (l + 1) .. m
        BY <1>1
      <4>2. k \in (l + 1) .. m => f[k] = Cut(f, text, delim, k)
        BY <2>2
      <4>3. QED
        BY <2>3, <4>1, <4>2
    <3>5. QED
      BY <3>3, <3>4
  <2>6. Good(g, l)
    BY <2>4, <2>5
  <2>7. QED
    BY <2>6
<1>3. G = 1 .. m
  <2>1. G \in SUBSET (1 .. m)
    OBVIOUS
  <2> HIDE DEF G, m
  <2>2. QED
    BY <1>1, <1>2, <2>1, GoingDown
<1>4. PICK f : Good(f, 1)
  <2>1. 1 \in G
    BY <1>1, <1>3
  <2>2. QED
    BY <2>1
<1>5. Splits(f, text, delim)
  BY <1>4 DEF Splits
<1>6. QED
  BY <1>5

\* split is the value at 1 of a function of which nothing more is known than
\* what each value is made of.
LEMMA SplitIs ==
  ASSUME NEW text \in Texts, NEW delim \in Texts, delim # <<>>
  PROVE  \E f : Splits(f, text, delim) /\ Split(text, delim) = f[1]
<1> DEFINE e(f, l) ==
             LET r == Find(text, delim, l)
             IN  IF l > Len(text) THEN <<>>
                 ELSE IF r = 0 THEN <<SubSeq(text, l, Len(text))>>
                 ELSE (IF r > l THEN <<SubSeq(text, l, r - 1)>> ELSE <<>>)
                         \o f[r + Len(delim)]
           P == CHOOSE f : f = [l \in 1 .. (Len(text) + 1) |-> e(f, l)]
<1>1. \A f, l : e(f, l) = Cut(f, text, delim, l)
  BY DEF Cut
<1>2. Split(text, delim) = P[1]
  BY DEF Split
<1> HIDE DEF e
<1>3. PICK f : Splits(f, text, delim)
  BY SplitsExists
<1>4. P = [l \in 1 .. (Len(text) + 1) |-> e(P, l)]
  <2>0. SUFFICES \E F : F = [l \in 1 .. (Len(text) + 1) |-> e(F, l)]
    OBVIOUS
  <2> DEFINE D == 1 .. (Len(text) + 1)
             F == [l \in D |-> f[l]]
  <2>1. \A l \in D : F[l] = f[l]
    OBVIOUS
  <2>2. \A l \in D : \A k \in (l + 1) .. (Len(text) + 1) : k \in D
    BY LenProperties DEF Texts
  <2>3. ASSUME NEW l \in D
        PROVE  F[l] = e(F, l)
    <3>1. \A k \in (l + 1) .. (Len(text) + 1) : f[k] = F[k]
      BY <2>1, <2>2
    <3> HIDE DEF F
    <3>2. Cut(f, text, delim, l) = Cut(F, text, delim, l)
      <4>1. l \in 1 .. (Len(text) + 1) /\ \A k \in (l + 1) .. (Len(text) + 1) : f[k] = F[k]
        BY <3>1
      <4>2. \A a, b : (\A k \in (l + 1) .. (Len(text) + 1) : a[k] = b[k])
                        => Cut(a, text, delim, l) = Cut(b, text, delim, l)
        BY <4>1, CutDepends
      <4>3. QED
        BY <4>1, <4>2
    <3>3. QED
      BY <1>1, <1>3, <2>1, <3>2 DEF Splits
  <2>4. F = [l \in D |-> e(F, l)]
    <3>1. F = [l \in D |-> F[l]]
      OBVIOUS
    <3> HIDE DEF F
    <3>2. QED
      BY <2>3, <3>1
  <2>5. QED
    BY <2>4
<1> HIDE DEF P
<1>5. Splits(P, text, delim)
  <2> DEFINE D == 1 .. (Len(text) + 1)
  <2>1. DOMAIN [l \in D |-> e(P, l)] = D /\ \A l \in D : [k \in D |-> e(P, k)][l] = e(P, l)
    OBVIOUS
  <2>2. QED
    BY <1>1, <1>4, <2>1 DEF Splits
<1>6. QED
  BY <1>2, <1>5

LEMMA SplitsEnd ==
  ASSUME NEW text \in Texts, NEW delim, NEW f, Splits(f, text, delim)
  PROVE  f[Len(text) + 1] = <<>>
<1>1. Len(text) \in Nat
  BY LenProperties DEF Texts
<1>2. Len(text) + 1 \in 1 .. (Len(text) + 1) /\ Len(text) + 1 > Len(text)
  BY <1>1
<1>3. QED
  BY <1>2 DEF Splits, Cut

LEMMA SplitsLast ==
  ASSUME NEW text, NEW delim, NEW f, Splits(f, text, delim),
         NEW l \in 1 .. Len(text), Len(text) \in Nat, Find(text, delim, l) = 0
  PROVE  f[l] = <<SubSeq(text, l, Len(text))>>
<1>1. l \in 1 .. (Len(text) + 1) /\ ~(l > Len(text))
  OBVIOUS
<1>2. QED
  BY <1>1 DEF Splits, Cut

PieceAt(f, text, delim, l, r) ==
    f[l] = (IF r > l THEN <<SubSeq(text, l, r - 1)>> ELSE <<>>) \o f[r + Len(delim)]

LEMMA SplitsPiece ==
  ASSUME NEW text, NEW delim, NEW f, Splits(f, text, delim), Len(text) \in Nat,
         NEW l \in 1 .. Len(text), NEW r \in l .. Len(text), Find(text, delim, l) = r
  PROVE  PieceAt(f, text, delim, l, r)
<1>1. l \in 1 .. (Len(text) + 1) /\ ~(l > Len(text)) /\ r # 0
  OBVIOUS
<1>2. QED
  BY <1>1 DEF Splits, Cut, PieceAt

-----------------------------------------------------------------------------
(* Line ends *)

LineEnd(text, i) == text[i] = "CR" /\ text[i + 1] = "LF"

EmptyLine == CRLF \o CRLF

LEMMA Delimiters ==
  /\ CRLF \in Texts /\ CRLF # <<>> /\ Len(CRLF) = 2 /\ CRLF[1] = "CR" /\ CRLF[2] = "LF"
  /\ EmptyLine \in Texts /\ EmptyLine # <<>> /\ Len(EmptyLine) = 4
  /\ \A k \in 1 .. 4 : EmptyLine[k] = IF k \in {1, 3} THEN "CR" ELSE "LF"
<1>1. CRLF \in Texts /\ CRLF # <<>> /\ Len(CRLF) = 2 /\ CRLF[1] = "CR" /\ CRLF[2] = "LF"
  <2>1. "CR" \in Token /\ "LF" \in Token
    BY DEF Token
  <2>2. QED
    BY <2>1 DEF CRLF, Texts
<1>2. /\ EmptyLine \in Texts /\ Len(EmptyLine) = 2 + 2
      /\ \A k \in 1 .. 2 + 2 : EmptyLine[k] = IF k <= 2 THEN CRLF[k] ELSE CRLF[k - 2]
  <2>1. /\ EmptyLine \in Texts /\ Len(EmptyLine) = Len(CRLF) + Len(CRLF)
        /\ \A k \in 1 .. Len(CRLF) + Len(CRLF) :
              EmptyLine[k] = IF k <= Len(CRLF) THEN CRLF[k] ELSE CRLF[k - Len(CRLF)]
    BY <1>1, ConcatProperties, Zenon DEF EmptyLine, Texts
  <2>2. QED
    BY <1>1, <2>1
<1>3. Len(EmptyLine) = 4 /\ EmptyLine # <<>>
  BY <1>2, EmptySeq
<1>4. EmptyLine[1] = "CR" /\ EmptyLine[2] = "LF" /\ EmptyLine[3] = "CR" /\ EmptyLine[4] = "LF"
  <2>1. \A k \in {1, 2, 3, 4} : EmptyLine[k] = IF k <= 2 THEN CRLF[k] ELSE CRLF[k - 2]
    BY <1>2
  <2>2. /\ EmptyLine[1] = CRLF[1] /\ EmptyLine[2] = CRLF[2]
        /\ EmptyLine[3] = CRLF[3 - 2] /\ EmptyLine[4] = CRLF[4 - 2]
    BY <2>1
  <2>3. 3 - 2 = 1 /\ 4 - 2 = 2
    OBVIOUS
  <2>4. QED
    BY <1>1, <2>2, <2>3
<1>5. \A k \in 1 .. 4 : EmptyLine[k] = IF k \in {1, 3} THEN "CR" ELSE "LF"
  <2>1. \A k \in 1 .. 4 : k = 1 \/ k = 2 \/ k = 3 \/ k = 4
    OBVIOUS
  <2>2. QED
    BY <1>4, <2>1
<1>6. QED
  BY <1>1, <1>2, <1>3, <1>5

LEMMA OccursLine ==
  ASSUME NEW text \in Texts, NEW i \in Nat \ {0}
  PROVE  Occurs(text, CRLF, i) <=> i + 1 <= Len(text) /\ LineEnd(text, i)
<1>1. \A k \in 1 .. 2 : k = 1 \/ k = 2
  OBVIOUS
<1>2. i + 1 - 1 = i /\ i + 2 - 1 = i + 1 /\ 1 \in 1 .. 2 /\ 2 \in 1 .. 2
  OBVIOUS
<1>3. (\A k \in 1 .. 2 : text[i + k - 1] = CRLF[k]) <=> LineEnd(text, i)
  <2>1. (\A k \in 1 .. 2 : text[i + k - 1] = CRLF[k])
          <=> text[i + 1 - 1] = CRLF[1] /\ text[i + 2 - 1] = CRLF[2]
    BY <1>1
  <2>2. QED
    BY <1>2, <2>1, Delimiters DEF LineEnd
<1>4. i \in 1 .. (Len(text) - 2 + 1) <=> i + 1 <= Len(text)
  BY LenProperties DEF Texts
<1>5. QED
  BY <1>3, <1>4, Delimiters DEF Occurs

LEMMA OccursEmptyLine ==
  ASSUME NEW text \in Texts, NEW i \in Nat \ {0}
  PROVE  Occurs(text, EmptyLine, i)
           <=> i + 3 <= Len(text) /\ LineEnd(text, i) /\ LineEnd(text, i + 2)
<1>1. \A k \in 1 .. 4 : k = 1 \/ k = 2 \/ k = 3 \/ k = 4
  OBVIOUS
<1>2. /\ i + 1 - 1 = i /\ i + 2 - 1 = i + 1 /\ i + 3 - 1 = i + 2 /\ i + 4 - 1 = (i + 2) + 1
      /\ 1 \in 1 .. 4 /\ 2 \in 1 .. 4 /\ 3 \in 1 .. 4 /\ 4 \in 1 .. 4
  OBVIOUS
<1>3. EmptyLine[1] = "CR" /\ EmptyLine[2] = "LF" /\ EmptyLine[3] = "CR" /\ EmptyLine[4] = "LF"
  BY <1>2, Delimiters
<1>4. (\A k \in 1 .. 4 : text[i + k - 1] = EmptyLine[k]) <=> LineEnd(text, i) /\ LineEnd(text, i + 2)
  <2>1. (\A k \in 1 .. 4 : text[i + k - 1] = EmptyLine[k])
          <=> /\ text[i + 1 - 1] = EmptyLine[1] /\ text[i + 2 - 1] = EmptyLine[2]
              /\ text[i + 3 - 1] = EmptyLine[3] /\ text[i + 4 - 1] = EmptyLine[4]
    BY <1>1
  <2>2. QED
    BY <1>2, <1>3, <2>1 DEF LineEnd
<1>5. i \in 1 .. (Len(text) - 4 + 1) <=> i + 3 <= Len(text)
  BY LenProperties DEF Texts
<1>6. QED
  BY <1>4, <1>5, Delimiters DEF Occurs

LEMMA OccursToken ==
  ASSUME NEW text \in Texts, NEW token \in Token, NEW i
  PROVE  /\ <<token>> \in Texts /\ <<token>> # <<>> /\ Len(<<token>>) = 1
         /\ Occurs(text, <<token>>, i) <=> i \in 1 .. Len(text) /\ text[i] = token
<1>1. <<token>> \in Texts /\ <<token>> # <<>> /\ Len(<<token>>) = 1 /\ <<token>>[1] = token
  BY One
<1>2. Len(text) \in Nat
  BY LenProperties DEF Texts
<1>3. (Len(text) - 1) + 1 = Len(text) /\ 1 .. 1 = {1}
  BY <1>2
<1>4. \A j \in 1 .. Len(text) : j + 1 - 1 = j
  BY <1>2
<1>5. QED
  BY <1>1, <1>3, <1>4 DEF Occurs

-----------------------------------------------------------------------------
(* The lines of headers *)

\* What a peer's header has not got in it.
Plain(header) ==
    /\ \A i \in 1 .. Len(header[1]) : header[1][i] \notin LineEnds /\ header[1][i] # "COLON"
    /\ \A i \in 1 .. Len(header[2]) : header[2][i] \notin LineEnds

Listed(list) ==
    /\ list \in Seq(Texts \X Texts)
    /\ \A n \in 1 .. Len(list) : Plain(list[n])

LineOf(header) == header[1] \o (<<"COLON">> \o header[2])

LEMMA LineIs ==
  ASSUME NEW header \in Texts \X Texts, Plain(header)
  PROVE  LET line == LineOf(header)
             k    == Len(header[1])
         IN  /\ line \in Texts /\ header[1] \in Texts /\ header[2] \in Texts /\ k \in Nat
             /\ Len(line) = k + (1 + Len(header[2]))
             /\ \A i \in 1 .. k : line[i] = header[1][i]
             /\ line[k + 1] = "COLON"
             /\ \A i \in 1 .. Len(header[2]) : line[k + 1 + i] = header[2][i]
             /\ \A i \in 1 .. Len(line) : line[i] \notin LineEnds
<1> DEFINE key == header[1]
           value == header[2]
           k == Len(key)
           v == Len(value)
           end == <<"COLON">> \o value
           line == LineOf(header)
<1>1. key \in Texts /\ value \in Texts /\ k \in Nat /\ v \in Nat
  BY LenProperties DEF Texts
<1>2. <<"COLON">> \in Texts /\ Len(<<"COLON">>) = 1 /\ <<"COLON">>[1] = "COLON"
  BY One DEF Token
<1>3. /\ end \in Texts /\ Len(end) = 1 + v
      /\ \A i \in 1 .. 1 + v : end[i] = IF i <= 1 THEN <<"COLON">>[i] ELSE value[i - 1]
  BY <1>1, <1>2, ConcatProperties DEF Texts
<1>4. end[1] = "COLON" /\ \A i \in 1 .. v : end[1 + i] = value[i]
  <2>1. 1 \in 1 .. 1 + v /\ \A i \in 1 .. v : 1 + i \in 1 .. 1 + v /\ ~(1 + i <= 1) /\ (1 + i) - 1 = i
    BY <1>1
  <2> HIDE DEF v, end, value
  <2>2. QED
    BY <1>2, <1>3, <2>1
<1>5. line = key \o end
  BY DEF LineOf
<1> HIDE DEF end, line
<1>6. /\ line \in Texts /\ Len(line) = k + (1 + v)
      /\ \A i \in 1 .. k + (1 + v) : line[i] = IF i <= k THEN key[i] ELSE end[i - k]
  <2>1. line = key \o end /\ key \in Texts /\ end \in Texts /\ Len(end) = 1 + v /\ Len(key) = k
    BY <1>1, <1>3, <1>5
  <2> HIDE DEF key, k, v
  <2>2. QED
    BY <2>1, ConcatProperties DEF Texts
<1> HIDE DEF k, v, key, value
<1>7. \A i \in 1 .. k : line[i] = key[i]
  <2>1. \A i \in 1 .. k : i \in 1 .. k + (1 + v) /\ i <= k
    BY <1>1
  <2>2. QED
    BY <1>6, <2>1
<1>8. \A i \in 1 .. 1 + v : line[k + i] = end[i]
  <2>1. \A i \in 1 .. 1 + v : k + i \in 1 .. k + (1 + v) /\ ~(k + i <= k) /\ (k + i) - k = i
    BY <1>1
  <2>2. QED
    BY <1>6, <2>1
<1>9. line[k + 1] = "COLON" /\ \A i \in 1 .. v : line[k + 1 + i] = value[i]
  <2>1. 1 \in 1 .. 1 + v /\ \A i \in 1 .. v : 1 + i \in 1 .. 1 + v /\ k + 1 + i = k + (1 + i)
    BY <1>1
  <2>2. QED
    BY <1>4, <1>8, <2>1
<1>10. /\ \A i \in 1 .. k : key[i] \notin LineEnds
       /\ \A i \in 1 .. v : value[i] \notin LineEnds
  BY DEF Plain, k, v, key, value
<1>11. ASSUME NEW i \in 1 .. Len(line)
       PROVE  line[i] \notin LineEnds
  <2>1. i \in 1 .. k \/ i = k + 1 \/ \E j \in 1 .. v : i = k + 1 + j
    <3>1. i \in 1 .. k \/ i = k + 1 \/ i - (k + 1) \in 1 .. v
      BY <1>1, <1>6
    <3>2. i = (k + 1) + (i - (k + 1))
      BY <1>1, <1>6
    <3>3. QED
      BY <3>1, <3>2
  <2>2. "COLON" \notin LineEnds
    BY DEF LineEnds
  <2>3. QED
    BY <1>7, <1>9, <1>10, <2>1, <2>2
<1>12. QED
  BY <1>1, <1>6, <1>7, <1>9, <1>11 DEF key, value, k, v, line

LEMMA Concatenated ==
  ASSUME NEW s \in Texts, NEW t \in Texts
  PROVE  /\ s \o t \in Texts /\ Len(s) \in Nat /\ Len(t) \in Nat /\ Len(s \o t) = Len(s) + Len(t)
         /\ \A i \in 1 .. Len(s) : (s \o t)[i] = s[i]
         /\ \A i \in 1 .. Len(t) : (s \o t)[Len(s) + i] = t[i]
<1>1. /\ s \o t \in Texts /\ Len(s) \in Nat /\ Len(t) \in Nat /\ Len(s \o t) = Len(s) + Len(t)
      /\ \A i \in 1 .. Len(s) + Len(t) : (s \o t)[i] = IF i <= Len(s) THEN s[i] ELSE t[i - Len(s)]
  BY ConcatProperties, LenProperties DEF Texts
<1>2. \A i \in 1 .. Len(s) : i \in 1 .. Len(s) + Len(t) /\ i <= Len(s)
  BY <1>1
<1>3. \A i \in 1 .. Len(t) : /\ Len(s) + i \in 1 .. Len(s) + Len(t) /\ ~(Len(s) + i <= Len(s))
                              /\ (Len(s) + i) - Len(s) = i
  BY <1>1
<1>4. QED
  BY <1>1, <1>2, <1>3

LEMMA Associative ==
  ASSUME NEW s \in Texts, NEW t \in Texts, NEW u \in Texts
  PROVE  (s \o t) \o u = s \o (t \o u)
  BY ConcatAssociative DEF Texts

Associate(s, t, u) == (s \o t) \o u = s \o (t \o u)

LEMMA AssociateAll ==
  ASSUME NEW s \in Texts, NEW t \in Texts, NEW u \in Texts
  PROVE  Associate(s, t, u)
  BY Associative DEF Associate

LEMMA LinesAreTexts ==
  ASSUME NEW list, Listed(list)
  PROVE  /\ Len(list) \in Nat
         /\ \A n \in 1 .. Len(list) :
               /\ list[n] \in Texts \X Texts /\ Plain(list[n])
               /\ list[n][1] \in Texts /\ list[n][2] \in Texts
               /\ LineOf(list[n]) \in Texts /\ LineOf(list[n]) \o CRLF \in Texts
<1>1. list \in Seq(Texts \X Texts) /\ Len(list) \in Nat
  BY LenProperties DEF Listed
<1>2. ASSUME NEW n \in 1 .. Len(list)
      PROVE  /\ list[n] \in Texts \X Texts /\ Plain(list[n])
             /\ list[n][1] \in Texts /\ list[n][2] \in Texts
             /\ LineOf(list[n]) \in Texts /\ LineOf(list[n]) \o CRLF \in Texts
  <2>1. list[n] \in Texts \X Texts
    BY <1>1, <1>2, ElementOfSeq
  <2>2. Plain(list[n])
    BY <1>2 DEF Listed
  <2>3. LineOf(list[n]) \in Texts
    BY <2>1, <2>2, LineIs
  <2>4. LineOf(list[n]) \o CRLF \in Texts
    BY <2>3, Delimiters, Concatenated
  <2>5. QED
    BY <2>1, <2>2, <2>3, <2>4
<1>3. QED
  BY <1>1, <1>2

\* The texts of the first n headers of a list.
Blocks(b, list) ==
    /\ b \in [0 .. Len(list) -> Texts]
    /\ b[0] = <<>>
    /\ \A n \in 1 .. Len(list) : b[n] = b[n - 1] \o (LineOf(list[n]) \o CRLF)

LEMMA BlocksExist ==
  ASSUME NEW list, Listed(list)
  PROVE  \E b : Blocks(b, list)
<1> DEFINE m == Len(list)
           more == [n \in 1 .. m |-> LineOf(list[n]) \o CRLF]
           Up(b, n) == b[0] = <<>> /\ \A k \in 1 .. n : b[k] = b[k - 1] \o more[k]
           G == {n \in 0 .. m : \E b \in [0 .. m -> Texts] : Up(b, n)}
<1>1. m \in Nat /\ \A n \in 1 .. m : more[n] \in Texts
  BY LinesAreTexts
<1>2. \A n \in 1 .. m : more[n] = LineOf(list[n]) \o CRLF
  OBVIOUS
<1>0. m \in Nat
  BY <1>1
<1> HIDE DEF more, m
<1>3. 0 \in G
  <2>1. <<>> \in Texts
    BY EmptySeq DEF Texts
  <2>2. [n \in 0 .. m |-> <<>>] \in [0 .. m -> Texts]
    BY <2>1
  <2>3. Up([n \in 0 .. m |-> <<>>], 0)
    BY <1>0
  <2>4. 0 \in 0 .. m
    BY <1>0
  <2>5. QED
    BY <2>2, <2>3, <2>4, Zenon
<1>4. ASSUME NEW n \in 0 .. (m - 1), n \in G
      PROVE  n + 1 \in G
  <2>1. PICK b \in [0 .. m -> Texts] : Up(b, n)
    BY <1>4
  <2> DEFINE c == [b EXCEPT ![n + 1] = b[n] \o more[n + 1]]
  <2>2. n \in 0 .. m /\ n + 1 \in 1 .. m /\ n + 1 \in 0 .. m /\ 0 \in 0 .. m /\ n + 1 # 0
    BY <1>0
  <2>3. b[n] \o more[n + 1] \in Texts
    BY <1>1, <2>1, <2>2, Concatenated
  <2>4. c \in [0 .. m -> Texts]
    BY <2>2, <2>3
  <2>5. c[n + 1] = b[n] \o more[n + 1] /\ \A k \in 0 .. m : k # n + 1 => c[k] = b[k]
    BY <2>2
  <2> HIDE DEF c
  <2>6. ASSUME NEW k \in 1 .. (n + 1)
        PROVE  c[k] = c[k - 1] \o more[k]
    <3>1. CASE k = n + 1
      <4>1. k - 1 = n /\ n # n + 1
        BY <3>1
      <4>2. QED
        BY <2>2, <2>5, <3>1, <4>1
    <3>2. CASE k # n + 1
      <4>1. k \in 1 .. n /\ k \in 0 .. m /\ k - 1 \in 0 .. m /\ k - 1 # n + 1
        BY <1>0, <3>2
      <4>2. b[k] = b[k - 1] \o more[k]
        BY <2>1, <4>1
      <4>3. QED
        BY <2>5, <3>2, <4>1, <4>2
    <3>3. QED
      BY <3>1, <3>2
  <2>7. c[0] = <<>>
    BY <2>1, <2>2, <2>5
  <2>8. QED
    BY <2>2, <2>4, <2>6, <2>7
<1>5. m \in G
  <2>1. G \in SUBSET (0 .. m)
    BY Zenon
  <2> HIDE DEF G
  <2>2. G = 0 .. m
    BY <1>0, <1>3, <1>4, <2>1, GoingUp
  <2>3. m \in 0 .. m
    BY <1>0
  <2>4. QED
    BY <2>2, <2>3
<1>6. PICK b \in [0 .. m -> Texts] : Up(b, m)
  BY <1>5
<1>7. Blocks(b, list)
  BY <1>2, <1>6 DEF Blocks, m
<1>8. QED
  BY <1>7

LEMMA BlockIs ==
  ASSUME NEW list, Listed(list)
  PROVE  \E b : Blocks(b, list) /\ HeaderBlock(list) = b[Len(list)]
<1> DEFINE e(b, n) == IF n = 0 THEN <<>>
                      ELSE b[n - 1] \o list[n][1] \o <<"COLON">> \o list[n][2] \o CRLF
           P == CHOOSE b : b = [n \in 0 .. Len(list) |-> e(b, n)]
<1>1. HeaderBlock(list) = P[Len(list)]
  BY DEF HeaderBlock
<1>2. Len(list) \in Nat
  BY LinesAreTexts
<1>3. ASSUME NEW b, NEW n \in 1 .. Len(list), b[n - 1] \in Texts
      PROVE  e(b, n) = b[n - 1] \o (LineOf(list[n]) \o CRLF)
  <2> DEFINE c == b[n - 1]
             k == list[n][1]
             v == list[n][2]
             w == <<"COLON">>
  <2>1. c \in Texts /\ k \in Texts /\ v \in Texts /\ w \in Texts /\ CRLF \in Texts
    <3>1. w \in Texts
      BY One DEF Token
    <3>2. k \in Texts /\ v \in Texts
      BY LinesAreTexts
    <3>3. QED
      BY <1>3, <3>1, <3>2, Delimiters
  <2>2. e(b, n) = (((c \o k) \o w) \o v) \o CRLF
    <3>1. n # 0
      OBVIOUS
    <3>2. QED
      BY <3>1
  <2>3. LineOf(list[n]) = k \o (w \o v)
    BY DEF LineOf
  <2> HIDE DEF c, k, v, w, e
  <2>4. k \o w \in Texts /\ w \o v \in Texts
    BY <2>1, Concatenated
  <2>5. k \o (w \o v) \in Texts
    BY <2>1, <2>4, Concatenated
  <2>6. (c \o k) \o w = c \o (k \o w)
    BY <2>1, Associative
  <2>7. (c \o (k \o w)) \o v = c \o ((k \o w) \o v)
    <3>1. Associate(c, k \o w, v)
      BY <2>1, <2>4, AssociateAll
    <3>2. QED
      BY <3>1, Zenon DEF Associate
  <2>8. (k \o w) \o v = k \o (w \o v)
    <3>1. Associate(k, w, v)
      BY <2>1, AssociateAll
    <3>2. QED
      BY <3>1, Zenon DEF Associate
  <2>9. (c \o (k \o (w \o v))) \o CRLF = c \o ((k \o (w \o v)) \o CRLF)
    <3> DEFINE z == k \o (w \o v)
    <3>1. z \in Texts
      BY <2>5
    <3> HIDE DEF z
    <3>2. (c \o z) \o CRLF = c \o (z \o CRLF)
      <4>1. Associate(c, z, CRLF)
        BY <2>1, <3>1, AssociateAll
      <4>2. QED
        BY <4>1, Zenon DEF Associate
    <3>3. QED
      BY <3>2 DEF z
  <2>10. QED
    BY <2>2, <2>3, <2>6, <2>7, <2>8, <2>9 DEF c
<1>4. \A b : e(b, 0) = <<>>
  OBVIOUS
<1> HIDE DEF e
<1>5. PICK b : Blocks(b, list)
  BY BlocksExist
<1>6. \A n \in 1 .. Len(list) : n - 1 \in 0 .. Len(list) /\ n \in 0 .. Len(list)
  BY <1>2
<1>7. \A n \in 0 .. Len(list) : b[n] = e(b, n)
  <2>1. \A n \in 1 .. Len(list) : b[n - 1] \in Texts
    BY <1>5, <1>6 DEF Blocks
  <2>2. \A n \in 1 .. Len(list) : b[n] = e(b, n)
    BY <1>3, <1>5, <2>1 DEF Blocks
  <2>3. b[0] = e(b, 0)
    BY <1>4, <1>5 DEF Blocks
  <2>4. \A n \in 0 .. Len(list) : n = 0 \/ n \in 1 .. Len(list)
    BY <1>2
  <2>5. QED
    BY <2>2, <2>3, <2>4
<1>8. b = [n \in 0 .. Len(list) |-> e(b, n)]
  <2>1. b = [n \in 0 .. Len(list) |-> b[n]]
    BY <1>5 DEF Blocks
  <2>2. QED
    BY <1>7, <2>1
<1>9. P = [n \in 0 .. Len(list) |-> e(P, n)]
  BY <1>8
<1> HIDE DEF P
<1>10. \A n \in 0 .. Len(list) : P[n] = e(P, n)
  BY <1>9
\* Two such functions are the same.
<1>11. P[Len(list)] = b[Len(list)]
  <2> DEFINE G == {n \in 0 .. Len(list) : P[n] = b[n]}
  <2>1. 0 \in G
    <3>1. 0 \in 0 .. Len(list)
      BY <1>2
    <3>2. P[0] = <<>> /\ b[0] = <<>>
      BY <1>4, <1>7, <1>10, <3>1
    <3>3. QED
      BY <3>1, <3>2
  <2>2. ASSUME NEW n \in 0 .. (Len(list) - 1), n \in G
        PROVE  n + 1 \in G
    <3>1. n + 1 \in 1 .. Len(list) /\ n + 1 \in 0 .. Len(list) /\ (n + 1) - 1 = n /\ n \in 0 .. Len(list)
      BY <1>2
    <3>2. P[n] = b[n] /\ b[n] \in Texts
      BY <1>5, <2>2, <3>1 DEF Blocks
    <3>3. P[(n + 1) - 1] \in Texts /\ b[(n + 1) - 1] \in Texts
      BY <3>1, <3>2
    <3>4. /\ e(P, n + 1) = P[(n + 1) - 1] \o (LineOf(list[n + 1]) \o CRLF)
          /\ e(b, n + 1) = b[(n + 1) - 1] \o (LineOf(list[n + 1]) \o CRLF)
      BY <1>3, <3>1, <3>3
    <3>5. P[n + 1] = e(P, n + 1) /\ b[n + 1] = e(b, n + 1)
      BY <1>7, <1>10, <3>1
    <3>6. QED
      BY <3>1, <3>2, <3>4, <3>5
  <2>3. G \in SUBSET (0 .. Len(list)) /\ Len(list) \in 0 .. Len(list)
    BY <1>2
  <2> HIDE DEF G
  <2>4. G = 0 .. Len(list)
    BY <1>2, <2>1, <2>2, <2>3, GoingUp
  <2>5. Len(list) \in G
    BY <2>3, <2>4
  <2>6. QED
    BY <2>5 DEF G
<1>12. QED
  BY <1>1, <1>5, <1>11

\* The n-th header is between the first n - 1 and the first n of them, and
\* more headers come behind.
Grows(new, old, line) ==
    /\ new \in Texts /\ old \in Texts /\ Len(old) \in Nat
    /\ line \in Texts /\ Len(line) \in Nat \ {0}
    /\ Len(new) = Len(old) + (Len(line) + 2)
    /\ \A i \in 1 .. Len(old) : new[i] = old[i]
    /\ \A i \in 1 .. Len(line) : new[Len(old) + i] = line[i]
    /\ \A i \in 1 .. Len(line) : line[i] \notin LineEnds
    /\ LineEnd(new, Len(old) + (Len(line) + 1))

LEMMA BlockGrows ==
  ASSUME NEW list, Listed(list), NEW b, Blocks(b, list), NEW n \in 1 .. Len(list)
  PROVE  Grows(b[n], b[n - 1], LineOf(list[n]))
<1> DEFINE line == LineOf(list[n])
           c == Len(b[n - 1])
           l == Len(line)
           more == line \o CRLF
<1>1. n - 1 \in 0 .. Len(list) /\ n \in 0 .. Len(list)
  BY LinesAreTexts
<1>2. b[n] \in Texts /\ b[n - 1] \in Texts /\ b[n] = b[n - 1] \o more
  BY <1>1 DEF Blocks
<1>3. line \in Texts /\ list[n] \in Texts \X Texts /\ Plain(list[n])
  BY LinesAreTexts
<1>4. l \in Nat \ {0} /\ \A i \in 1 .. l : line[i] \notin LineEnds
  <2>1. /\ Len(list[n][1]) \in Nat /\ Len(list[n][2]) \in Nat
        /\ l = Len(list[n][1]) + (1 + Len(list[n][2]))
        /\ \A i \in 1 .. l : line[i] \notin LineEnds
    BY <1>3, LineIs, LenProperties DEF Texts
  <2> DEFINE u == Len(list[n][1])
             v == Len(list[n][2])
  <2>2. u \in Nat /\ v \in Nat /\ l = u + (1 + v)
    BY <2>1
  <2> HIDE DEF l, line, u, v
  <2>3. l \in Nat \ {0}
    BY <2>2
  <2>4. QED
    BY <2>1, <2>3
<1>5. /\ more \in Texts /\ Len(more) = l + 2
      /\ \A i \in 1 .. l : more[i] = line[i]
      /\ more[l + 1] = "CR" /\ more[l + 2] = "LF"
  <2>1. /\ line \o CRLF \in Texts /\ Len(line \o CRLF) = Len(line) + Len(CRLF)
        /\ \A i \in 1 .. Len(line) : (line \o CRLF)[i] = line[i]
        /\ \A i \in 1 .. Len(CRLF) : (line \o CRLF)[Len(line) + i] = CRLF[i]
    BY <1>3, Delimiters, Concatenated
  <2>2. 1 \in 1 .. 2 /\ 2 \in 1 .. 2
    OBVIOUS
  <2> HIDE DEF line
  <2>3. QED
    BY <2>1, <2>2, Delimiters
<1> HIDE DEF more, line
<1>6. /\ c \in Nat /\ Len(b[n]) = c + (l + 2)
      /\ \A i \in 1 .. c : b[n][i] = b[n - 1][i]
      /\ \A i \in 1 .. l + 2 : b[n][c + i] = more[i]
  <2>1. /\ Len(b[n - 1]) \in Nat /\ Len(b[n - 1] \o more) = Len(b[n - 1]) + Len(more)
        /\ \A i \in 1 .. Len(b[n - 1]) : (b[n - 1] \o more)[i] = b[n - 1][i]
        /\ \A i \in 1 .. Len(more) : (b[n - 1] \o more)[Len(b[n - 1]) + i] = more[i]
    BY <1>2, <1>5, Concatenated
  <2> HIDE DEF l
  <2>2. QED
    BY <1>2, <1>5, <2>1
<1> HIDE DEF l, c
<1>7. ASSUME NEW i \in 1 .. l
      PROVE  b[n][c + i] = line[i]
  <2>1. i \in 1 .. l + 2
    BY <1>4
  <2>2. QED
    BY <1>5, <1>6, <2>1
<1>8. b[n][c + (l + 1)] = "CR" /\ b[n][c + (l + 2)] = "LF" /\ c + (l + 2) = (c + (l + 1)) + 1
  <2>1. l + 1 \in 1 .. l + 2 /\ l + 2 \in 1 .. l + 2 /\ c + (l + 2) = (c + (l + 1)) + 1
    BY <1>4, <1>6
  <2>2. QED
    BY <1>5, <1>6, <2>1
<1>9. LineEnd(b[n], c + (l + 1))
  BY <1>8 DEF LineEnd
<1>10. QED
  BY <1>2, <1>3, <1>4, <1>6, <1>7, <1>9 DEF line, c, l, Grows

LEMMA BlockKeeps ==
  ASSUME NEW list, Listed(list), NEW b, Blocks(b, list), NEW k \in 0 .. Len(list)
  PROVE  LET B == b[Len(list)]
         IN  /\ B \in Texts /\ b[k] \in Texts /\ Len(b[k]) <= Len(B)
             /\ \A i \in 1 .. Len(b[k]) : B[i] = b[k][i]
<1> DEFINE N == Len(list)
           Keeps(n) == Len(b[k]) <= Len(b[n]) /\ \A i \in 1 .. Len(b[k]) : b[n][i] = b[k][i]
           G == {d \in 0 .. (N - k) : Keeps(k + d)}
<1>1. N \in Nat /\ k \in 0 .. N
  BY LinesAreTexts
<1>2. \A n \in 0 .. N : b[n] \in Texts /\ Len(b[n]) \in Nat
  BY LenProperties DEF Blocks, Texts
<1>20. ASSUME NEW j \in 1 .. N
       PROVE  /\ Len(b[j - 1]) \in Nat /\ Len(LineOf(list[j])) \in Nat
              /\ Len(b[j]) = Len(b[j - 1]) + (Len(LineOf(list[j])) + 2)
              /\ \A i \in 1 .. Len(b[j - 1]) : b[j][i] = b[j - 1][i]
  <2>1. Grows(b[j], b[j - 1], LineOf(list[j]))
    BY BlockGrows
  <2>2. QED
    BY <2>1 DEF Grows
<1> HIDE DEF N
<1>3. 0 \in G
  <2>1. 0 \in 0 .. (N - k) /\ k + 0 = k /\ Len(b[k]) <= Len(b[k])
    BY <1>1, <1>2
  <2>2. QED
    BY <2>1
<1>4. ASSUME NEW d \in 0 .. ((N - k) - 1), d \in G
      PROVE  d + 1 \in G
  <2> DEFINE n == k + (d + 1)
  <2>1. /\ n \in 1 .. N /\ n - 1 = k + d /\ k + d \in 0 .. N /\ n \in 0 .. N
        /\ d + 1 \in 0 .. (N - k)
    BY <1>1
  <2>2. Keeps(k + d)
    BY <1>4
  <2> HIDE DEF n
  <2>3. Len(b[n - 1]) <= Len(b[n]) /\ \A i \in 1 .. Len(b[n - 1]) : b[n][i] = b[n - 1][i]
    <3>1. /\ Len(b[n - 1]) \in Nat /\ Len(LineOf(list[n])) \in Nat
          /\ Len(b[n]) = Len(b[n - 1]) + (Len(LineOf(list[n])) + 2)
          /\ \A i \in 1 .. Len(b[n - 1]) : b[n][i] = b[n - 1][i]
      BY <1>20, <2>1
    <3>2. Len(b[n - 1]) <= Len(b[n])
      <4> DEFINE u == Len(b[n - 1])
                 v == Len(LineOf(list[n]))
                 w == Len(b[n])
      <4>1. u \in Nat /\ v \in Nat /\ w = u + (v + 2)
        BY <3>1
      <4> HIDE DEF u, v, w
      <4>2. u <= w
        BY <4>1
      <4>3. QED
        BY <4>2 DEF u, w
    <3>3. QED
      BY <3>1, <3>2
  <2>4. Keeps(n)
    <3>1. Len(b[k]) <= Len(b[n - 1]) /\ \A i \in 1 .. Len(b[k]) : b[n - 1][i] = b[k][i]
      BY <2>1, <2>2
    <3>2. Len(b[k]) \in Nat /\ Len(b[n - 1]) \in Nat /\ Len(b[n]) \in Nat
      BY <1>1, <1>2, <2>1
    <3>3. \A i \in 1 .. Len(b[k]) : i \in 1 .. Len(b[n - 1])
      BY <3>1, <3>2
    <3>4. Len(b[k]) <= Len(b[n])
      BY <2>3, <3>1, <3>2
    <3>5. QED
      BY <2>3, <3>1, <3>3, <3>4
  <2>5. QED
    BY <2>1, <2>4 DEF n
<1>5. N - k \in Nat /\ G \in SUBSET (0 .. (N - k)) /\ N - k \in 0 .. (N - k) /\ k + (N - k) = N
  BY <1>1
<1> HIDE DEF G
<1>6. G = 0 .. (N - k)
  BY <1>3, <1>4, <1>5, GoingUp
<1>7. N - k \in G
  BY <1>5, <1>6
<1>8. Keeps(N)
  BY <1>5, <1>7 DEF G
<1>9. N \in 0 .. N
  BY <1>1
<1>10. QED
  BY <1>1, <1>2, <1>8, <1>9 DEF N

LEMMA BlockPlaces ==
  ASSUME NEW list, Listed(list), NEW b, Blocks(b, list), NEW p \in 1 .. Len(b[Len(list)])
  PROVE  \E n \in 1 .. Len(list) : p \in (Len(b[n - 1]) + 1) .. Len(b[n])
<1> DEFINE N == Len(list)
           T == {n \in 0 .. N : p <= Len(b[n])}
<1>1. N \in Nat /\ \A n \in 0 .. N : b[n] \in Texts /\ Len(b[n]) \in Nat
  BY LinesAreTexts, LenProperties DEF Blocks, Texts
<1>2. N \in 0 .. N /\ p \in Nat /\ p >= 1 /\ p <= Len(b[N])
  BY <1>1
<1> HIDE DEF N
<1>3. T \in SUBSET Nat /\ N \in T
  BY <1>1, <1>2
<1>4. PICK n \in T : \A k \in T : n <= k
  BY <1>3, Least
<1>5. n \in 0 .. N /\ p <= Len(b[n])
  BY <1>4
<1>6. n # 0
  <2>1. Len(b[0]) = 0
    BY EmptySeq DEF Blocks
  <2>2. QED
    BY <1>2, <1>5, <2>1
<1>7. n - 1 \in 0 .. N /\ n \in 1 .. N /\ ~(n <= n - 1)
  BY <1>1, <1>5, <1>6
<1>8. n - 1 \notin T
  BY <1>4, <1>7
<1>9. ~(p <= Len(b[n - 1]))
  BY <1>7, <1>8
<1>10. p \in (Len(b[n - 1]) + 1) .. Len(b[n])
  BY <1>1, <1>2, <1>5, <1>7, <1>9
<1>11. QED
  BY <1>7, <1>10 DEF N

-----------------------------------------------------------------------------
(* What follows the first line of a message *)

RestOf(block, body, closed) ==
    block \o (CRLF \o (body \o (IF closed THEN EmptyLine ELSE <<>>)))

RestHas(rest, block, body, closed) ==
    /\ rest \in Texts /\ block \in Texts /\ body \in Texts
    /\ Len(block) \in Nat /\ Len(body) \in Nat
    /\ Len(rest) = Len(block) + (2 + (Len(body) + (IF closed THEN 4 ELSE 0)))
    /\ \A i \in 1 .. Len(block) : rest[i] = block[i]
    /\ LineEnd(rest, Len(block) + 1)
    /\ \A i \in 1 .. Len(body) : rest[Len(block) + (2 + i)] = body[i]
    /\ closed => \A i \in 1 .. 4 : rest[Len(block) + (2 + (Len(body) + i))] = EmptyLine[i]

LEMMA RestIs ==
  ASSUME NEW block \in Texts, NEW body \in Texts, NEW closed \in BOOLEAN
  PROVE  RestHas(RestOf(block, body, closed), block, body, closed)
<1> DEFINE tail == IF closed THEN EmptyLine ELSE <<>>
           t == IF closed THEN 4 ELSE 0
           u == body \o tail
           w == CRLF \o u
           rest == block \o w
           n == Len(block)
           m == Len(body)
<1>1. tail \in Texts /\ Len(tail) = t /\ t \in Nat
  BY Delimiters, EmptySeq DEF Texts
<1>2. closed => tail = EmptyLine /\ t = 4
  OBVIOUS
<1>3. rest = RestOf(block, body, closed)
  BY DEF RestOf
<1>4. t = IF closed THEN 4 ELSE 0
  OBVIOUS
<1> HIDE DEF tail, t
<1>5. /\ u \in Texts /\ m \in Nat /\ Len(u) = m + t
      /\ \A i \in 1 .. m : u[i] = body[i]
      /\ \A i \in 1 .. t : u[m + i] = tail[i]
  <2>1. /\ body \o tail \in Texts /\ Len(body) \in Nat /\ Len(body \o tail) = Len(body) + Len(tail)
        /\ \A i \in 1 .. Len(body) : (body \o tail)[i] = body[i]
        /\ \A i \in 1 .. Len(tail) : (body \o tail)[Len(body) + i] = tail[i]
    BY <1>1, Concatenated
  <2>2. QED
    BY <1>1, <2>1
<1> HIDE DEF u, m
<1>6. /\ w \in Texts /\ Len(w) = 2 + (m + t)
      /\ w[1] = "CR" /\ w[2] = "LF"
      /\ \A i \in 1 .. m + t : w[2 + i] = u[i]
  <2>1. /\ CRLF \o u \in Texts /\ Len(CRLF \o u) = Len(CRLF) + Len(u)
        /\ \A i \in 1 .. Len(CRLF) : (CRLF \o u)[i] = CRLF[i]
        /\ \A i \in 1 .. Len(u) : (CRLF \o u)[Len(CRLF) + i] = u[i]
    <3>1. CRLF \in Texts /\ u \in Texts
      BY <1>5, Delimiters
    <3>2. QED
      BY <3>1, Concatenated, Zenon
  <2>2. 1 \in 1 .. 2 /\ 2 \in 1 .. 2
    OBVIOUS
  <2>3. QED
    BY <1>5, <2>1, <2>2, Delimiters
<1> HIDE DEF w
<1>7. /\ rest \in Texts /\ n \in Nat /\ Len(rest) = n + (2 + (m + t))
      /\ \A i \in 1 .. n : rest[i] = block[i]
      /\ \A i \in 1 .. 2 + (m + t) : rest[n + i] = w[i]
  <2>1. /\ block \o w \in Texts /\ Len(block) \in Nat /\ Len(block \o w) = Len(block) + Len(w)
        /\ \A i \in 1 .. Len(block) : (block \o w)[i] = block[i]
        /\ \A i \in 1 .. Len(w) : (block \o w)[Len(block) + i] = w[i]
    BY <1>6, Concatenated
  <2>2. QED
    BY <1>6, <2>1
<1> HIDE DEF rest, n
<1>8. LineEnd(rest, n + 1)
  <2>1. 1 \in 1 .. 2 + (m + t) /\ 2 \in 1 .. 2 + (m + t) /\ (n + 1) + 1 = n + 2
    BY <1>1, <1>5, <1>7
  <2>2. rest[n + 1] = "CR" /\ rest[n + 2] = "LF"
    BY <1>6, <1>7, <2>1
  <2>3. QED
    BY <2>1, <2>2 DEF LineEnd
<1>9. \A i \in 1 .. m : rest[n + (2 + i)] = body[i]
  <2>1. \A i \in 1 .. m : i \in 1 .. m + t /\ 2 + i \in 1 .. 2 + (m + t)
    BY <1>1, <1>5
  <2>2. QED
    BY <1>5, <1>6, <1>7, <2>1
<1>10. \A i \in 1 .. t : rest[n + (2 + (m + i))] = tail[i]
  <2>1. \A i \in 1 .. t : m + i \in 1 .. m + t /\ 2 + (m + i) \in 1 .. 2 + (m + t)
    BY <1>1, <1>5
  <2>2. QED
    BY <1>5, <1>6, <1>7, <2>1
<1>11. RestHas(rest, block, body, closed)
  BY <1>2, <1>4, <1>5, <1>7, <1>8, <1>9, <1>10 DEF RestHas, n, m
<1>12. QED
  BY <1>3, <1>11

\* Two line ends with nothing between them.
Gap(text, i) == LineEnd(text, i) /\ LineEnd(text, i + 2)

\* A line of a text behind the place before, and where the next one starts.
LineAt(text, before, line, after) ==
    /\ before \in Nat /\ Len(line) \in Nat \ {0}
    /\ after = before + (Len(line) + 2)
    /\ \A i \in 1 .. Len(line) : text[before + i] = line[i]
    /\ \A i \in 1 .. Len(line) : text[before + i] \notin LineEnds
    /\ LineEnd(text, before + (Len(line) + 1))

LEMMA LineThere ==
  ASSUME NEW list, Listed(list), NEW b, Blocks(b, list), NEW n \in 1 .. Len(list),
         NEW text, \A i \in 1 .. Len(b[Len(list)]) : text[i] = b[Len(list)][i]
  PROVE  /\ LineAt(text, Len(b[n - 1]), LineOf(list[n]), Len(b[n]))
         /\ Len(b[n]) <= Len(b[Len(list)])
<1> DEFINE N == Len(list)
           line == LineOf(list[n])
           u == Len(b[n - 1])
           v == Len(line)
           w == Len(b[n])
           B == Len(b[N])
<1>1. Grows(b[n], b[n - 1], line)
  BY BlockGrows
<1>2. b[n] \in Texts /\ b[N] \in Texts /\ w <= B /\ \A i \in 1 .. w : b[N][i] = b[n][i]
  <2>1. n \in 0 .. N
    BY LinesAreTexts
  <2>2. QED
    BY <2>1, BlockKeeps
<1>3. w \in Nat /\ B \in Nat
  BY <1>2, LenProperties DEF Texts
<1>4. u \in Nat /\ v \in Nat \ {0} /\ w = u + (v + 2)
  BY <1>1 DEF Grows
<1>5. /\ \A i \in 1 .. v : b[n][u + i] = line[i]
      /\ \A i \in 1 .. v : line[i] \notin LineEnds
      /\ LineEnd(b[n], u + (v + 1))
  BY <1>1 DEF Grows
<1>6. \A i \in 1 .. B : text[i] = b[N][i]
  OBVIOUS
<1> HIDE DEF u, v, w, B, line, N
<1>7. \A i \in 1 .. w : text[i] = b[n][i]
  <2>1. \A i \in 1 .. w : i \in 1 .. B
    BY <1>2, <1>3
  <2>2. QED
    BY <1>2, <1>6, <2>1
<1>8. /\ \A i \in 1 .. v : u + i \in 1 .. w
      /\ u + (v + 1) \in 1 .. w /\ (u + (v + 1)) + 1 \in 1 .. w
  BY <1>4
<1>9. LineEnd(text, u + (v + 1))
  BY <1>5, <1>7, <1>8 DEF LineEnd
<1>10. /\ \A i \in 1 .. v : text[u + i] = line[i]
       /\ \A i \in 1 .. v : text[u + i] \notin LineEnds
  BY <1>5, <1>7, <1>8
<1>11. LineAt(text, u, line, w)
  BY <1>4, <1>9, <1>10 DEF LineAt, v
<1>12. QED
  BY <1>2, <1>11 DEF u, w, line, B, N

\* The first gap is behind the headers,
LEMMA FirstGap ==
  ASSUME NEW list, Listed(list), Len(list) # 0, NEW b, Blocks(b, list),
         NEW body, NEW closed, NEW rest, RestHas(rest, b[Len(list)], body, closed)
  PROVE  /\ Len(b[Len(list)]) \in Nat /\ Len(b[Len(list)]) >= 3
         /\ Gap(rest, Len(b[Len(list)]) - 1)
         /\ \A i \in 1 .. (Len(b[Len(list)]) - 2) : ~Gap(rest, i)
         /\ rest[1] \notin LineEnds
<1> DEFINE N == Len(list)
           B == Len(b[N])
<1>1. N \in Nat /\ N >= 1 /\ B \in Nat
  BY LinesAreTexts DEF RestHas
<1>2. \A i \in 1 .. B : rest[i] = b[N][i]
  BY DEF RestHas
<1>3. \A n \in 1 .. N : LineAt(rest, Len(b[n - 1]), LineOf(list[n]), Len(b[n])) /\ Len(b[n]) <= B
  BY <1>2, LineThere
<1>4. N \in 1 .. N /\ 1 \in 1 .. N /\ 1 - 1 = 0 /\ Len(b[0]) = 0
  BY <1>1, EmptySeq DEF Blocks
<1>5. \A p \in 1 .. B : \E n \in 1 .. N : p \in (Len(b[n - 1]) + 1) .. Len(b[n])
  BY BlockPlaces
<1>6. LineEnd(rest, B + 1)
  BY DEF RestHas
<1> HIDE DEF N, B
<1>7. B >= 3 /\ LineEnd(rest, B - 1)
  <2> DEFINE u == Len(b[N - 1])
             v == Len(LineOf(list[N]))
  <2>1. LineAt(rest, u, LineOf(list[N]), B)
    BY <1>3, <1>4 DEF B
  <2>2. u \in Nat /\ v \in Nat \ {0} /\ B = u + (v + 2) /\ LineEnd(rest, u + (v + 1))
    BY <2>1 DEF LineAt
  <2> HIDE DEF u, v
  <2>3. B >= 3 /\ u + (v + 1) = B - 1
    BY <2>2
  <2>4. QED
    BY <2>2, <2>3
<1>8. Gap(rest, B - 1)
  <2>1. (B - 1) + 2 = B + 1
    BY <1>1
  <2>2. QED
    BY <1>6, <1>7, <2>1 DEF Gap
<1>9. \A n \in 1 .. N : rest[Len(b[n - 1]) + 1] \notin LineEnds
  <2>1. ASSUME NEW n \in 1 .. N
        PROVE  rest[Len(b[n - 1]) + 1] \notin LineEnds
    <3>1. LineAt(rest, Len(b[n - 1]), LineOf(list[n]), Len(b[n]))
      BY <1>3
    <3>2. Len(LineOf(list[n])) \in Nat \ {0}
      BY <3>1 DEF LineAt
    <3>3. 1 \in 1 .. Len(LineOf(list[n]))
      BY <3>2
    <3>4. QED
      BY <3>1, <3>3 DEF LineAt
  <2>2. QED
    BY <2>1
<1>10. rest[1] \notin LineEnds
  BY <1>4, <1>9
<1>11. ASSUME NEW p \in 1 .. (B - 2), Gap(rest, p)
       PROVE  FALSE
  <2>1. p \in 1 .. B /\ p <= B - 2
    BY <1>1
  <2>2. PICK n \in 1 .. N : p \in (Len(b[n - 1]) + 1) .. Len(b[n])
    BY <1>5, <2>1
  <2> DEFINE u == Len(b[n - 1])
             v == Len(LineOf(list[n]))
             w == Len(b[n])
  <2>3. LineAt(rest, u, LineOf(list[n]), w)
    BY <1>3
  <2>4. /\ u \in Nat /\ v \in Nat \ {0} /\ w = u + (v + 2)
        /\ \A i \in 1 .. v : rest[u + i] \notin LineEnds
        /\ LineEnd(rest, u + (v + 1))
    BY <2>3 DEF LineAt
  <2>5. p \in (u + 1) .. w
    BY <2>2
  <2>6. n # N => n + 1 \in 1 .. N /\ (n + 1) - 1 = n
    BY <1>1
  <2>7. n # N => rest[w + 1] \notin LineEnds
    BY <1>9, <2>6
  <2>8. n = N => w = B
    BY DEF B
  <2>9. rest[p] = "CR" /\ rest[p + 2] = "CR"
    BY <1>11 DEF Gap, LineEnd
  <2> HIDE DEF u, v, w
  <2>10. p - u \in 1 .. v \/ p = u + (v + 1) \/ p = (u + (v + 1)) + 1
    BY <2>4, <2>5
  <2>11. CASE p - u \in 1 .. v
    <3>1. u + (p - u) = p
      BY <2>4, <2>5
    <3>2. rest[p] \notin LineEnds
      BY <2>4, <2>11, <3>1
    <3>3. QED
      BY <2>9, <3>2 DEF LineEnds
  <2>12. CASE p = u + (v + 1)
    <3>1. p + 2 = w + 1
      BY <2>4, <2>12
    <3>2. n # N
      BY <1>1, <2>1, <2>4, <2>8, <2>12
    <3>3. QED
      BY <2>7, <2>9, <3>1, <3>2 DEF LineEnds
  <2>13. CASE p = (u + (v + 1)) + 1
    BY <2>4, <2>9, <2>13 DEF LineEnd
  <2>14. QED
    BY <2>10, <2>11, <2>12, <2>13
<1>12. QED
  BY <1>1, <1>7, <1>8, <1>10, <1>11 DEF B, N

\* A body as a peer sends it: the first gap behind it is the one that ends it.
BodyText(body) ==
    /\ body \in Texts
    /\ Find(body \o EmptyLine, EmptyLine, 1) = Len(body) + 1

\* and the second, if any, is behind the body.
LEMMA SecondGap ==
  ASSUME NEW block, NEW body, BodyText(body), NEW closed \in BOOLEAN,
         NEW rest, RestHas(rest, block, body, closed)
  PROVE  LET c == Len(block) + 2
         IN  /\ \A j \in 1 .. Len(body) : c + j + 3 <= Len(rest) => ~Gap(rest, c + j)
             /\ closed => Gap(rest, c + (Len(body) + 1)) /\ Len(rest) = c + (Len(body) + 4)
             /\ ~closed => Len(rest) = c + Len(body)
<1> DEFINE n == Len(block)
           m == Len(body)
           c == n + 2
           stops == body \o EmptyLine
<1>1. body \in Texts /\ n \in Nat /\ m \in Nat
  BY DEF BodyText, RestHas
<1>2. /\ stops \in Texts /\ Len(stops) = m + 4
      /\ \A i \in 1 .. m : stops[i] = body[i]
      /\ \A i \in 1 .. 4 : stops[m + i] = EmptyLine[i]
  <2>1. /\ stops \in Texts /\ Len(stops) = m + Len(EmptyLine)
        /\ \A i \in 1 .. m : stops[i] = body[i]
        /\ \A i \in 1 .. Len(EmptyLine) : stops[m + i] = EmptyLine[i]
    BY <1>1, Delimiters, Concatenated
  <2> HIDE DEF m, stops
  <2>2. QED
    BY <2>1, Delimiters
<1>3. /\ \A i \in 1 .. m : rest[n + (2 + i)] = body[i]
      /\ closed => \A i \in 1 .. 4 : rest[n + (2 + (m + i))] = EmptyLine[i]
      /\ Len(rest) = n + (2 + (m + (IF closed THEN 4 ELSE 0)))
  BY DEF RestHas
<1>4. \A j \in 1 .. m : ~Occurs(stops, EmptyLine, j)
  <2> DEFINE r == Find(stops, EmptyLine, 1)
  <2>1. r = m + 1
    BY DEF BodyText
  <2>2. \/ r = 0
        \/ \A i \in 1 .. (r - 1) : ~Occurs(stops, EmptyLine, i)
    <3> HIDE DEF stops
    <3>1. EmptyLine \in Texts /\ EmptyLine # <<>> /\ 1 \in Nat \ {0}
      BY Delimiters
    <3>2. QED
      BY <1>2, <3>1, FindIs
  <2> HIDE DEF r
  <2>3. (m + 1) - 1 = m /\ m + 1 # 0
    BY <1>1
  <2>4. QED
    BY <2>1, <2>2, <2>3
<1> HIDE DEF n, m, stops
<1>5. Len(rest) = IF closed THEN c + (m + 4) ELSE c + m
  BY <1>1, <1>3
<1>6. \A j \in 1 .. m + 4 : closed \/ j <= m => rest[c + j] = stops[j]
  <2>1. ASSUME NEW j \in 1 .. m + 4, closed \/ j <= m
        PROVE  rest[c + j] = stops[j]
    <3>1. CASE j <= m
      <4>1. j \in 1 .. m /\ c + j = n + (2 + j)
        BY <1>1, <3>1
      <4>2. QED
        BY <1>2, <1>3, <4>1
    <3>2. CASE ~(j <= m)
      <4>1. closed /\ j - m \in 1 .. 4 /\ m + (j - m) = j /\ c + j = n + (2 + (m + (j - m)))
        BY <1>1, <2>1, <3>2
      <4>2. QED
        BY <1>2, <1>3, <4>1
    <3>3. QED
      BY <3>1, <3>2
  <2>2. QED
    BY <2>1
<1>7. ASSUME NEW j \in 1 .. m, c + j + 3 <= Len(rest), Gap(rest, c + j)
      PROVE  FALSE
  <2>1. \A k \in {j, j + 1, j + 2, j + 3} : k \in 1 .. m + 4 /\ (closed \/ k <= m)
    BY <1>1, <1>5, <1>7
  <2>2. (c + j) + 1 = c + (j + 1) /\ (c + j) + 2 = c + (j + 2) /\ ((c + j) + 2) + 1 = c + (j + 3)
    BY <1>1
  <2>3. /\ rest[c + j] = "CR" /\ rest[(c + j) + 1] = "LF"
        /\ rest[(c + j) + 2] = "CR" /\ rest[((c + j) + 2) + 1] = "LF"
    BY <1>7 DEF Gap, LineEnd
  <2>4. stops[j] = "CR" /\ stops[j + 1] = "LF" /\ stops[j + 2] = "CR" /\ stops[j + 3] = "LF"
    BY <1>6, <2>1, <2>2, <2>3
  <2>5. (j + 2) + 1 = j + 3 /\ j + 3 <= m + 4 /\ j \in Nat \ {0}
    BY <1>1
  <2>6. Occurs(stops, EmptyLine, j)
    BY <1>2, <2>4, <2>5, OccursEmptyLine DEF LineEnd
  <2>7. QED
    BY <1>4, <2>6
<1>8. ASSUME closed
      PROVE  Gap(rest, c + (m + 1))
  <2>1. \A i \in {1, 2, 3, 4} : i \in 1 .. 4
    OBVIOUS
  <2>2. /\ c + (m + 1) = n + (2 + (m + 1)) /\ (c + (m + 1)) + 1 = n + (2 + (m + 2))
        /\ (c + (m + 1)) + 2 = n + (2 + (m + 3)) /\ ((c + (m + 1)) + 2) + 1 = n + (2 + (m + 4))
    BY <1>1
  <2>3. EmptyLine[1] = "CR" /\ EmptyLine[2] = "LF" /\ EmptyLine[3] = "CR" /\ EmptyLine[4] = "LF"
    BY <2>1, Delimiters
  <2>4. /\ rest[n + (2 + (m + 1))] = EmptyLine[1] /\ rest[n + (2 + (m + 2))] = EmptyLine[2]
        /\ rest[n + (2 + (m + 3))] = EmptyLine[3] /\ rest[n + (2 + (m + 4))] = EmptyLine[4]
    BY <1>3, <1>8, <2>1
  <2>5. QED
    BY <2>2, <2>3, <2>4 DEF Gap, LineEnd
<1>9. QED
  BY <1>5, <1>7, <1>8 DEF n, m

\* A text that holds the first m tokens of what follows a first line, and no
\* line ends behind them.
Carries(text, rest, m) ==
    /\ text \in Texts /\ rest \in Texts
    /\ m \in Nat /\ m <= Len(rest) /\ m <= Len(text)
    /\ \A i \in 1 .. m : text[i] = rest[i]
    /\ \A i \in (m + 1) .. Len(text) : text[i] \notin LineEnds

LEMMA GapsHeld ==
  ASSUME NEW text, NEW rest, NEW m, Carries(text, rest, m), NEW i \in Nat \ {0}
  PROVE  Occurs(text, EmptyLine, i) <=> i + 3 <= m /\ Gap(rest, i)
<1> DEFINE n == Len(text)
<1>1. n \in Nat /\ m \in Nat /\ m <= n
  BY LenProperties DEF Carries, Texts
<1>2. Occurs(text, EmptyLine, i) <=> i + 3 <= n /\ LineEnd(text, i) /\ LineEnd(text, i + 2)
  BY OccursEmptyLine DEF Carries
<1>3. /\ \A k \in 1 .. m : text[k] = rest[k]
      /\ \A k \in (m + 1) .. n : text[k] \notin LineEnds
  BY DEF Carries
<1> HIDE DEF n
<1>4. ASSUME i + 3 <= n, LineEnd(text, i + 2)
      PROVE  i + 3 <= m
  <2>1. text[i + 3] \in LineEnds
    <3>1. (i + 2) + 1 = i + 3
      OBVIOUS
    <3>2. QED
      BY <1>4, <3>1 DEF LineEnd, LineEnds
  <2>2. ~(i + 3 \in (m + 1) .. n)
    BY <1>3, <2>1
  <2>3. QED
    BY <1>1, <1>4, <2>2
<1>5. ASSUME i + 3 <= m
      PROVE  LineEnd(text, i) /\ LineEnd(text, i + 2) <=> Gap(rest, i)
  <2>1. i \in 1 .. m /\ i + 1 \in 1 .. m /\ i + 2 \in 1 .. m /\ (i + 2) + 1 \in 1 .. m
    BY <1>1, <1>5
  <2>2. QED
    BY <1>3, <2>1 DEF Gap, LineEnd
<1>6. i + 3 <= m => i + 3 <= n
  BY <1>1
<1>7. QED
  BY <1>2, <1>4, <1>5, <1>6

\* One piece more, in front of others.
OnTop(joined, piece, pieces) ==
    /\ joined \in Seq(Texts) /\ Len(joined) = 1 + Len(pieces) /\ joined[1] = piece
    /\ \A i \in 1 .. Len(pieces) : joined[1 + i] = pieces[i]

LEMMA PutOnTop ==
  ASSUME NEW piece \in Texts, NEW pieces \in Seq(Texts)
  PROVE  OnTop(<<piece>> \o pieces, piece, pieces)
<1> DEFINE one == <<piece>>
           n == Len(pieces)
           joined == one \o pieces
<1>1. one \in Seq(Texts) /\ Len(one) = 1 /\ one[1] = piece /\ n \in Nat
  BY LenProperties
<1> HIDE DEF one
<1>2. /\ joined \in Seq(Texts) /\ Len(joined) = Len(one) + Len(pieces)
      /\ \A i \in 1 .. Len(one) + Len(pieces) :
            joined[i] = IF i <= Len(one) THEN one[i] ELSE pieces[i - Len(one)]
  BY <1>1, ConcatProperties
<1>3. /\ Len(joined) = 1 + n
      /\ \A i \in 1 .. 1 + n : joined[i] = IF i <= 1 THEN one[i] ELSE pieces[i - 1]
  BY <1>1, <1>2
<1> HIDE DEF joined, n
<1>4. joined[1] = piece
  <2>1. 1 \in 1 .. 1 + n
    BY <1>1
  <2>2. QED
    BY <1>1, <1>3, <2>1
<1>5. \A i \in 1 .. n : joined[1 + i] = pieces[i]
  <2>1. \A i \in 1 .. n : 1 + i \in 1 .. 1 + n /\ ~(1 + i <= 1) /\ (1 + i) - 1 = i
    BY <1>1
  <2>2. QED
    BY <1>3, <2>1
<1>6. QED
  BY <1>2, <1>3, <1>4, <1>5 DEF OnTop, one, n, joined

LEMMA SameSubSeq ==
  ASSUME NEW s \in Texts, NEW t \in Texts, NEW a \in Nat, NEW n \in Nat, a + n <= Len(s), Len(t) = n,
         \A i \in 1 .. n : s[a + i] = t[i]
  PROVE  SubSeq(s, a + 1, a + n) = t
<1> DEFINE sub == SubSeq(s, a + 1, a + n)
<1>1. Len(s) \in Nat
  BY LenProperties DEF Texts
<1>2. \A i \in (a + 1) .. (a + n) : s[i] \in Token
  <2>1. \A i \in (a + 1) .. (a + n) : i \in 1 .. Len(s)
    BY <1>1
  <2>2. QED
    BY <2>1, ElementOfSeq DEF Texts
<1>3. a + 1 \in Int /\ a + n \in Int /\ (a + n) - (a + 1) + 1 = n /\ (~(a + 1 <= a + n) => n = 0)
      /\ \A i \in 1 .. n : (a + 1) + i - 1 = a + i
  OBVIOUS
<1>4. /\ sub \in Seq(Token) /\ Len(sub) = (IF a + 1 <= a + n THEN (a + n) - (a + 1) + 1 ELSE 0)
      /\ \A i \in 1 .. (a + n) - (a + 1) + 1 : sub[i] = s[(a + 1) + i - 1]
  BY <1>2, <1>3, SubSeqProperties
<1> HIDE DEF sub
<1>5. Len(sub) = n
  BY <1>3, <1>4
<1>6. \A i \in 1 .. n : sub[i] = t[i]
  BY <1>3, <1>4
<1>7. sub = t
  BY <1>4, <1>5, <1>6, SeqEqual DEF Texts
<1>8. QED
  BY <1>7 DEF sub

LEMMA SubText ==
  ASSUME NEW s \in Texts, NEW a \in Nat, NEW n \in Nat, a + n <= Len(s)
  PROVE  /\ SubSeq(s, a + 1, a + n) \in Texts /\ Len(SubSeq(s, a + 1, a + n)) = n
         /\ \A i \in 1 .. n : SubSeq(s, a + 1, a + n)[i] = s[a + i]
<1> DEFINE sub == SubSeq(s, a + 1, a + n)
<1>1. Len(s) \in Nat
  BY LenProperties DEF Texts
<1>2. \A i \in (a + 1) .. (a + n) : s[i] \in Token
  <2>1. \A i \in (a + 1) .. (a + n) : i \in 1 .. Len(s)
    BY <1>1
  <2>2. QED
    BY <2>1, ElementOfSeq DEF Texts
<1>3. a + 1 \in Int /\ a + n \in Int /\ (a + n) - (a + 1) + 1 = n /\ (~(a + 1 <= a + n) => n = 0)
      /\ \A i \in 1 .. n : (a + 1) + i - 1 = a + i
  OBVIOUS
<1>4. /\ sub \in Seq(Token) /\ Len(sub) = (IF a + 1 <= a + n THEN (a + n) - (a + 1) + 1 ELSE 0)
      /\ \A i \in 1 .. (a + n) - (a + 1) + 1 : sub[i] = s[(a + 1) + i - 1]
  BY <1>2, <1>3, SubSeqProperties
<1> HIDE DEF sub
<1>5. Len(sub) = n
  BY <1>3, <1>4
<1>6. \A i \in 1 .. n : sub[i] = s[a + i]
  BY <1>3, <1>4
<1>7. QED
  BY <1>4, <1>5, <1>6 DEF sub, Texts

\* What split at the empty lines makes of a part of a message.
InPieces(parts, text, rest, m, block, body, closed) ==
    /\ Len(parts) \in Nat
    /\ Len(parts) >= 2 => m >= Len(block) + 2 /\ parts[1] = SubSeq(rest, 1, Len(block) - 2)
    /\ Len(parts) >= 3 => closed /\ m = Len(rest) /\ body # <<>> /\ parts[2] = body
    /\ m >= Len(block) + 2 /\ Len(text) > m => Len(parts) >= 2
    /\ m = Len(rest) /\ Len(text) > m /\ closed /\ body # <<>> => Len(parts) >= 3

\* Where the gaps are.
HasGaps(rest, block, body, closed) ==
    LET c == Len(block) + 2
    IN  /\ Len(block) >= 3 /\ Gap(rest, c - 3)
        /\ \A i \in 1 .. (c - 4) : ~Gap(rest, i)
        /\ \A j \in 1 .. Len(body) : c + j + 3 <= Len(rest) => ~Gap(rest, c + j)
        /\ closed => Gap(rest, c + (Len(body) + 1)) /\ Len(rest) = c + (Len(body) + 4)
        /\ ~closed => Len(rest) = c + Len(body)

\* No empty line from here on: one piece, if there is anything.
LEMMA LastPiece ==
  ASSUME NEW text \in Texts, NEW f, Splits(f, text, EmptyLine),
         NEW l \in 1 .. (Len(text) + 1),
         \A i \in Nat : i >= l => ~Occurs(text, EmptyLine, i)
  PROVE  f[l] \in Seq(Texts) /\ Len(f[l]) = IF l <= Len(text) THEN 1 ELSE 0
<1>1. Len(text) \in Nat /\ l \in Nat \ {0}
  BY LenProperties DEF Texts
<1>2. CASE l <= Len(text)
  <2>1. Find(text, EmptyLine, l) = 0
    BY <1>1, Delimiters, FoundNowhere
  <2>2. l \in 1 .. Len(text)
    BY <1>1, <1>2
  <2>3. f[l] = <<SubSeq(text, l, Len(text))>>
    BY <1>1, <2>1, <2>2, SplitsLast
  <2>4. SubSeq(text, l, Len(text)) \in Texts
    <3> DEFINE a == l - 1
               n == Len(text) - a
    <3>1. a \in Nat /\ n \in Nat /\ a + n <= Len(text) /\ a + 1 = l /\ a + n = Len(text)
      BY <1>1, <1>2
    <3> HIDE DEF a, n
    <3>2. SubSeq(text, a + 1, a + n) \in Texts
      BY <3>1, SubText
    <3>3. QED
      BY <3>1, <3>2
  <2> DEFINE s == SubSeq(text, l, Len(text))
  <2> HIDE DEF s
  <2>5. <<s>> \in Seq(Texts) /\ Len(<<s>>) = 1
    BY <2>4 DEF s
  <2>6. QED
    BY <1>2, <2>3, <2>5 DEF s
<1>3. CASE ~(l <= Len(text))
  <2>1. l = Len(text) + 1
    BY <1>1, <1>3
  <2>2. f[l] = <<>>
    BY <2>1, SplitsEnd
  <2>3. QED
    BY <1>3, <2>2, EmptySeq
<1>4. QED
  BY <1>2, <1>3

\* What comes behind the first empty line of a part that has it.
InRest(s, text, rest, m, block, body, closed) ==
    /\ s \in Seq(Texts) /\ Len(s) \in Nat
    /\ Len(s) >= 2 => closed /\ m = Len(rest) /\ body # <<>> /\ s[1] = body
    /\ Len(text) > m => Len(s) >= 1
    /\ m = Len(rest) /\ Len(text) > m /\ closed /\ body # <<>> => Len(s) >= 2

\* The message is all there and its body is ended.
LEMMA EndedRest ==
  ASSUME NEW text, NEW rest, NEW m, Carries(text, rest, m), NEW block, NEW body,
         RestHas(rest, block, body, TRUE),
         HasGaps(rest, block, body, TRUE), m = Len(rest),
         NEW f, Splits(f, text, EmptyLine)
  PROVE  InRest(f[Len(block) + 3], text, rest, m, block, body, TRUE)
<1> DEFINE c == Len(block) + 2
           v == Len(body)
           n == Len(text)
           q == c + (v + 1)
           s == f[c + 1]
           t == f[m + 1]
<1>1. c \in Nat /\ v \in Nat /\ m \in Nat /\ n \in Nat /\ m <= n /\ m = c + (v + 4)
  BY LenProperties DEF Carries, RestHas, HasGaps, Texts
<1>2. text \in Texts /\ rest \in Texts /\ body \in Texts /\ \A i \in 1 .. m : text[i] = rest[i]
  BY DEF Carries, RestHas
<1>3. /\ Gap(rest, q)
      /\ \A j \in 1 .. v : c + j + 3 <= m => ~Gap(rest, c + j)
      /\ \A i \in 1 .. v : rest[c + i] = body[i]
  <2>1. Gap(rest, q) /\ \A j \in 1 .. v : c + j + 3 <= m => ~Gap(rest, c + j)
    BY DEF HasGaps
  <2>2. \A i \in 1 .. Len(body) : rest[Len(block) + (2 + i)] = body[i]
    BY DEF RestHas
  <2>3. Len(block) \in Nat
    BY DEF RestHas
  <2>4. \A i \in 1 .. Len(body) : Len(block) + (2 + i) = (Len(block) + 2) + i
    BY <2>3
  <2>5. QED
    BY <2>1, <2>2, <2>4
<1>4. \A i \in Nat \ {0} : Occurs(text, EmptyLine, i) <=> i + 3 <= m /\ Gap(rest, i)
  BY GapsHeld
<1>5. Len(block) + 3 = c + 1
  BY DEF RestHas
<1> HIDE DEF c, v, n
<1>6. c + 1 \in Nat \ {0} /\ q \in Nat \ {0} /\ q >= c + 1 /\ q + 3 <= m /\ q + 4 = m + 1
      /\ q \in (c + 1) .. n /\ c + 1 \in 1 .. n
  BY <1>1
<1>7. Find(text, EmptyLine, c + 1) = q
  <2>1. Occurs(text, EmptyLine, q)
    BY <1>3, <1>4, <1>6
  <2>2. ASSUME NEW i \in (c + 1) .. (q - 1)
        PROVE  ~Occurs(text, EmptyLine, i)
    <3>1. i - c \in 1 .. v /\ c + (i - c) = i /\ i \in Nat \ {0}
      BY <1>1
    <3>2. i + 3 <= m => ~Gap(rest, i)
      BY <1>3, <3>1
    <3>3. QED
      BY <1>4, <3>1, <3>2
  <2> HIDE DEF q
  <2>3. QED
    BY <1>2, <1>6, <2>1, <2>2, Delimiters, FoundAt
<1>8. s = (IF q > c + 1 THEN <<SubSeq(text, c + 1, q - 1)>> ELSE <<>>) \o f[q + Len(EmptyLine)]
  <2> HIDE DEF q
  <2>1. Len(text) \in Nat /\ c + 1 \in 1 .. Len(text) /\ q \in (c + 1) .. Len(text)
    BY <1>1, <1>6 DEF n
  <2> DEFINE l == c + 1
  <2>2. l \in 1 .. Len(text) /\ q \in l .. Len(text) /\ Find(text, EmptyLine, l) = q
    BY <1>7, <2>1
  <2> HIDE DEF l
  <2>3. PieceAt(f, text, EmptyLine, l, q)
    BY <2>1, <2>2, SplitsPiece
  <2>4. QED
    BY <2>3 DEF l, PieceAt
<1>9. s = (IF v # 0 THEN <<body>> ELSE <<>>) \o t
  <2>1. q > c + 1 <=> v # 0
    BY <1>1
  <2>2. q - 1 = c + v /\ c + v <= n
    BY <1>1
  <2>3. SubSeq(text, c + 1, c + v) = body
    <3>1. \A i \in 1 .. v : c + i \in 1 .. m
      BY <1>1
    <3>2. \A i \in 1 .. v : text[c + i] = body[i]
      BY <1>2, <1>3, <3>1
    <3>3. QED
      BY <1>1, <1>2, <2>2, <3>2, SameSubSeq DEF n, v
  <2>4. f[q + Len(EmptyLine)] = t
    BY <1>6, Delimiters
  <2>5. QED
    BY <1>8, <2>1, <2>2, <2>3, <2>4
<1>10. t \in Seq(Texts) /\ Len(t) = IF m + 1 <= n THEN 1 ELSE 0
  <2>1. ASSUME NEW i \in Nat, i >= m + 1
        PROVE  ~Occurs(text, EmptyLine, i)
    <3>1. i \in Nat \ {0} /\ ~(i + 3 <= m)
      BY <1>1, <2>1
    <3>2. QED
      BY <1>4, <3>1
  <2>2. m + 1 \in 1 .. (Len(text) + 1)
    BY <1>1 DEF n
  <2>3. QED
    BY <1>2, <2>1, <2>2, LastPiece DEF n
<1> HIDE DEF t, s, q
<1>11. v # 0 <=> body # <<>>
  BY <1>2, EmptySeq DEF v, Texts
<1>12. CASE v # 0
  <2>1. OnTop(s, body, t)
    BY <1>2, <1>9, <1>10, <1>12, PutOnTop
  <2>2. s \in Seq(Texts) /\ Len(s) = 1 + Len(t) /\ s[1] = body
    BY <2>1 DEF OnTop
  <2>3. Len(s) \in Nat /\ (n > m => Len(s) >= 2)
    BY <1>1, <1>10, <2>2
  <2>4. InRest(s, text, rest, m, block, body, TRUE)
    BY <1>11, <1>12, <2>2, <2>3 DEF InRest, n
  <2>5. QED
    BY <1>5, <2>4 DEF s
<1>13. CASE v = 0
  <2>1. s = t
    BY <1>9, <1>10, <1>13, ConcatEmptySeq
  <2>2. Len(s) \in Nat /\ ~(Len(s) >= 2) /\ (n > m => Len(s) >= 1)
    <3>1. Len(s) = IF m + 1 <= n THEN 1 ELSE 0
      BY <1>10, <2>1
    <3>2. m + 1 <= n <=> n > m
      BY <1>1
    <3>3. QED
      BY <3>1, <3>2
  <2>3. InRest(s, text, rest, m, block, body, TRUE)
    BY <1>10, <1>11, <1>13, <2>1, <2>2 DEF InRest, n
  <2>4. QED
    BY <1>5, <2>3 DEF s
<1>14. QED
  BY <1>12, <1>13

\* It is not: there is at most one more piece.
LEMMA OpenRest ==
  ASSUME NEW text, NEW rest, NEW m, Carries(text, rest, m), NEW block, NEW body,
         NEW closed \in BOOLEAN, RestHas(rest, block, body, closed),
         HasGaps(rest, block, body, closed), m >= Len(block) + 2, ~(closed /\ m = Len(rest)),
         NEW f, Splits(f, text, EmptyLine)
  PROVE  InRest(f[Len(block) + 3], text, rest, m, block, body, closed)
<1> DEFINE c == Len(block) + 2
           v == Len(body)
           n == Len(text)
           s == f[c + 1]
<1>1. c \in Nat /\ v \in Nat /\ m \in Nat /\ n \in Nat /\ m <= n /\ m <= Len(rest) /\ c <= m
  BY LenProperties DEF Carries, RestHas, Texts
<1>2. text \in Texts
  BY DEF Carries
<1>3. /\ \A j \in 1 .. v : c + j + 3 <= Len(rest) => ~Gap(rest, c + j)
      /\ (closed => Len(rest) = c + (v + 4)) /\ (~closed => Len(rest) = c + v)
  BY DEF HasGaps
<1>4. \A i \in Nat \ {0} : Occurs(text, EmptyLine, i) <=> i + 3 <= m /\ Gap(rest, i)
  BY GapsHeld
<1>5. Len(block) + 3 = c + 1
  BY DEF RestHas
<1> HIDE DEF c, v, n
<1>6. ASSUME NEW i \in Nat, i >= c + 1
      PROVE  ~Occurs(text, EmptyLine, i)
  <2>1. i \in Nat \ {0} /\ i - c \in Nat \ {0} /\ c + (i - c) = i
    BY <1>1, <1>6
  <2>2. CASE i + 3 <= m
    <3>1. Len(rest) \in Nat
      BY LenProperties DEF Carries, Texts
    <3>2. i - c <= v
      <4>1. CASE closed
        <5>1. Len(rest) = c + (v + 4) /\ m # Len(rest)
          BY <1>3, <4>1
        <5>2. QED
          BY <1>1, <2>1, <2>2, <5>1
      <4>2. CASE ~closed
        <5>1. Len(rest) = c + v
          BY <1>3, <4>2
        <5>2. QED
          BY <1>1, <2>1, <2>2, <5>1
      <4>3. QED
        BY <4>1, <4>2
    <3>3. i - c \in 1 .. v /\ i + 3 <= Len(rest)
      BY <1>1, <2>1, <2>2, <3>1, <3>2
    <3>4. ~Gap(rest, i)
      BY <1>3, <2>1, <3>3
    <3>5. QED
      BY <1>4, <2>1, <3>4
  <2>3. CASE ~(i + 3 <= m)
    BY <1>4, <2>1, <2>3
  <2>4. QED
    BY <2>2, <2>3
<1>7. c + 1 \in 1 .. (Len(text) + 1)
  BY <1>1 DEF n
<1>8. s \in Seq(Texts) /\ Len(s) = IF c + 1 <= n THEN 1 ELSE 0
  BY <1>2, <1>6, <1>7, LastPiece DEF n
<1> HIDE DEF s
<1>9. Len(s) \in Nat /\ ~(Len(s) >= 2) /\ (n > m => Len(s) >= 1)
  BY <1>1, <1>8
<1>10. InRest(s, text, rest, m, block, body, closed)
  BY <1>8, <1>9 DEF InRest, n
<1>11. QED
  BY <1>5, <1>10 DEF s

LEMMA PiecesOfPart ==
  ASSUME NEW text, NEW rest, NEW m, Carries(text, rest, m), NEW block, NEW body,
         NEW closed \in BOOLEAN, RestHas(rest, block, body, closed),
         HasGaps(rest, block, body, closed)
  PROVE  InPieces(Split(text, EmptyLine), text, rest, m, block, body, closed)
<1> DEFINE c == Len(block) + 2
           n == Len(text)
           parts == Split(text, EmptyLine)
<1>1. /\ c \in Nat /\ m \in Nat /\ n \in Nat /\ m <= n /\ c >= 5 /\ Len(block) = c - 2
      /\ c <= Len(rest) /\ Len(rest) \in Nat /\ m <= Len(rest)
  BY LenProperties DEF Carries, RestHas, HasGaps, Texts
<1>2. text \in Texts /\ rest \in Texts /\ \A i \in 1 .. m : text[i] = rest[i]
  BY DEF Carries
<1>3. /\ Gap(rest, c - 3)
      /\ \A i \in 1 .. (c - 4) : ~Gap(rest, i)
  BY DEF HasGaps
<1>4. \A i \in Nat \ {0} : Occurs(text, EmptyLine, i) <=> i + 3 <= m /\ Gap(rest, i)
  BY GapsHeld
<1>5. PICK f : Splits(f, text, EmptyLine) /\ parts = f[1]
  BY <1>2, Delimiters, SplitIs
<1> DEFINE s == f[1]
           t == f[c + 1]
<1> HIDE DEF c, n, parts
<1>6. CASE ~(m >= c)
  <2>1. ASSUME NEW i \in Nat, i >= 1
        PROVE  ~Occurs(text, EmptyLine, i)
    <3>1. i \in Nat \ {0}
      BY <2>1
    <3>2. i + 3 <= m => i \in 1 .. (c - 4)
      BY <1>1, <1>6, <2>1
    <3>3. QED
      BY <1>3, <1>4, <3>1, <3>2
  <2>2. 1 \in 1 .. (Len(text) + 1)
    BY <1>1 DEF n
  <2>3. s \in Seq(Texts) /\ Len(s) = IF 1 <= Len(text) THEN 1 ELSE 0
    BY <1>2, <1>5, <2>1, <2>2, LastPiece
  <2> HIDE DEF s
  <2>4. Len(s) \in Nat /\ ~(Len(s) >= 2) /\ ~(Len(s) >= 3)
    BY <2>3
  <2>5. ~(m >= c) /\ m # Len(rest)
    BY <1>1, <1>6
  <2>6. InPieces(s, text, rest, m, block, body, closed)
    BY <2>4, <2>5 DEF InPieces, c
  <2>7. QED
    BY <1>5, <2>6 DEF s, parts
<1>7. CASE m >= c
  <2> DEFINE r == c - 3
             first == SubSeq(text, 1, c - 4)
  <2>1. Find(text, EmptyLine, 1) = r
    <3>1. r \in Nat \ {0} /\ r \in Nat /\ r >= 1 /\ r + 3 <= m /\ 1 \in Nat \ {0}
      BY <1>1, <1>7
    <3>2. Occurs(text, EmptyLine, r)
      BY <1>3, <1>4, <3>1
    <3>3. ASSUME NEW i \in 1 .. (r - 1)
          PROVE  ~Occurs(text, EmptyLine, i)
      <4>1. i \in 1 .. (c - 4) /\ i \in Nat \ {0}
        BY <1>1
      <4>2. QED
        BY <1>3, <1>4, <4>1
    <3> HIDE DEF r
    <3>4. QED
      BY <1>2, <3>1, <3>2, <3>3, Delimiters, FoundAt
  <2>2. PieceAt(f, text, EmptyLine, 1, r)
    <3>1. Len(text) \in Nat /\ 1 \in 1 .. Len(text) /\ r \in 1 .. Len(text)
      BY <1>1, <1>7 DEF n
    <3> HIDE DEF r
    <3>2. QED
      BY <1>5, <2>1, <3>1, SplitsPiece
  <2>3. s = <<first>> \o t
    <3>1. r > 1 /\ r - 1 = c - 4 /\ r + 4 = c + 1
      BY <1>1
    <3>2. s = <<SubSeq(text, 1, r - 1)>> \o f[r + Len(EmptyLine)]
      <4> HIDE DEF r
      <4>1. QED
        BY <2>2, <3>1 DEF PieceAt
    <3>3. QED
      BY <3>1, <3>2, Delimiters
  <2>4. first = SubSeq(rest, 1, c - 4) /\ first \in Texts
    <3> DEFINE a == c - 4
               part == SubSeq(rest, 1, a)
    <3>1. a \in Nat /\ 0 + a <= Len(text) /\ 0 + a <= Len(rest) /\ 0 + 1 = 1 /\ 0 + a = a
      BY <1>1, <1>7 DEF n
    <3>2. \A i \in 1 .. a : i \in 1 .. m /\ 0 + i = i
      BY <1>1, <1>7
    <3>3. 0 \in Nat
      OBVIOUS
    <3> HIDE DEF a
    <3>4. /\ SubSeq(rest, 0 + 1, 0 + a) \in Texts /\ Len(SubSeq(rest, 0 + 1, 0 + a)) = a
          /\ \A i \in 1 .. a : SubSeq(rest, 0 + 1, 0 + a)[i] = rest[0 + i]
      BY <1>2, <3>1, <3>3, SubText
    <3>5. part \in Texts /\ Len(part) = a /\ \A i \in 1 .. a : part[i] = rest[i]
      BY <3>1, <3>2, <3>4
    <3> HIDE DEF part
    <3>6. \A i \in 1 .. a : text[0 + i] = part[i]
      BY <1>2, <3>2, <3>5
    <3>7. SubSeq(text, 0 + 1, 0 + a) = part
      BY <1>2, <3>1, <3>3, <3>5, <3>6, SameSubSeq
    <3>8. SubSeq(text, 1, a) = part
      BY <3>1, <3>7
    <3>9. QED
      BY <3>5, <3>8 DEF part, a
  <2>5. InRest(t, text, rest, m, block, body, closed)
    <3>1. Len(block) + 3 = c + 1 /\ m >= Len(block) + 2
      BY <1>1, <1>7
    <3>2. CASE closed /\ m = Len(rest)
      <4>1. closed = TRUE
        BY <3>2
      <4>2. RestHas(rest, block, body, TRUE) /\ HasGaps(rest, block, body, TRUE)
        BY <4>1
      <4>3. InRest(f[Len(block) + 3], text, rest, m, block, body, TRUE)
        BY <1>5, <3>2, <4>2, EndedRest
      <4>4. QED
        BY <3>1, <4>1, <4>3
    <3>3. CASE ~(closed /\ m = Len(rest))
      <4>1. InRest(f[Len(block) + 3], text, rest, m, block, body, closed)
        BY <1>5, <3>1, <3>3, OpenRest
      <4>2. QED
        BY <3>1, <4>1
    <3>4. QED
      BY <3>2, <3>3
  <2> HIDE DEF t, first
  <2>6. /\ t \in Seq(Texts) /\ Len(t) \in Nat
        /\ Len(t) >= 2 => closed /\ m = Len(rest) /\ body # <<>> /\ t[1] = body
        /\ Len(text) > m => Len(t) >= 1
        /\ m = Len(rest) /\ Len(text) > m /\ closed /\ body # <<>> => Len(t) >= 2
    BY <2>5 DEF InRest
  <2>7. OnTop(s, first, t)
    BY <2>3, <2>4, <2>6, PutOnTop
  <2> HIDE DEF s
  <2>8. Len(s) = 1 + Len(t) /\ s[1] = first /\ \A i \in 1 .. Len(t) : s[1 + i] = t[i]
    BY <2>7 DEF OnTop
  <2>9. Len(s) >= 3 => s[2] = t[1]
    <3>1. Len(s) >= 3 => 1 \in 1 .. Len(t)
      BY <2>6, <2>8
    <3>2. 1 + 1 = 2
      OBVIOUS
    <3>3. QED
      BY <2>8, <3>1, <3>2
  <2>10. /\ Len(s) \in Nat /\ (Len(t) >= 1 => Len(s) >= 2) /\ (Len(s) >= 3 <=> Len(t) >= 2)
    BY <2>6, <2>8
  <2>11. s[1] = SubSeq(rest, 1, Len(block) - 2) /\ m >= Len(block) + 2
    <3>1. Len(block) - 2 = c - 4 /\ Len(block) + 2 = c
      BY <1>1
    <3>2. QED
      BY <1>7, <2>4, <2>8, <3>1
  <2>12. InPieces(s, text, rest, m, block, body, closed)
    BY <2>6, <2>9, <2>10, <2>11 DEF InPieces
  <2>13. QED
    BY <1>5, <2>12 DEF s, parts
<1>8. QED
  BY <1>6, <1>7

-----------------------------------------------------------------------------
(* Trimming *)

LEMMA Greatest ==
  ASSUME NEW n \in Nat, NEW T \in SUBSET (1 .. n), T # {}
  PROVE  \E x \in T : \A y \in T : y <= x
<1> DEFINE Early == {k \in 0 .. n : n - k \in T}
<1>1. Early \in SUBSET Nat
  OBVIOUS
<1>2. \A x \in T : x \in 1 .. n /\ n - x \in 0 .. n /\ n - (n - x) = x
  OBVIOUS
<1>3. \A x \in T : n - x \in Early
  BY <1>2
<1>4. Early # {}
  BY <1>3
<1>5. PICK k \in Early : \A y \in Early : k <= y
  BY <1>1, <1>4, Least
<1>6. k \in 0 .. n /\ n - k \in T
  BY <1>5
<1> HIDE DEF Early
<1>7. ASSUME NEW y \in T
      PROVE  y <= n - k
  <2>1. k <= n - y
    BY <1>3, <1>5
  <2>2. QED
    BY <1>2, <1>6, <2>1
<1>8. QED
  BY <1>6, <1>7

\* What trim_any leaves: nothing, or what is between two tokens it keeps.
TrimsTo(text, chars, first, last) ==
    /\ first \in 1 .. Len(text) /\ last \in first .. Len(text)
    /\ text[first] \notin chars /\ text[last] \notin chars
    /\ \A i \in 1 .. (first - 1) : text[i] \in chars
    /\ \A i \in (last + 1) .. Len(text) : text[i] \in chars
    /\ TrimAny(text, chars) = SubSeq(text, first, last)

LEMMA TrimIs ==
  ASSUME NEW text \in Texts, NEW chars
  PROVE  \/ TrimAny(text, chars) = <<>> /\ \A i \in 1 .. Len(text) : text[i] \in chars
         \/ \E first, last : TrimsTo(text, chars, first, last)
<1> DEFINE n == Len(text)
           kept == {i \in DOMAIN text : text[i] \notin chars}
           first == CHOOSE i \in kept : \A j \in kept : i <= j
           last == CHOOSE i \in kept : \A j \in kept : j <= i
<1>1. n \in Nat /\ DOMAIN text = 1 .. n
  BY LenProperties DEF Texts
<1>2. TrimAny(text, chars) = IF kept = {} THEN <<>> ELSE SubSeq(text, first, last)
  BY DEF TrimAny
<1>3. CASE kept = {}
  <2>1. \A i \in 1 .. n : text[i] \in chars
    BY <1>1, <1>3
  <2>2. QED
    BY <1>2, <1>3, <2>1
<1>4. CASE kept # {}
  <2>1. kept \in SUBSET (1 .. n) /\ kept \in SUBSET Nat
    BY <1>1
  <2>2. \E i \in kept : \A j \in kept : i <= j
    <3> HIDE DEF kept
    <3>1. QED
      BY <1>4, <2>1, Least
  <2>3. \E i \in kept : \A j \in kept : j <= i
    <3> HIDE DEF kept, n
    <3>1. QED
      BY <1>1, <1>4, <2>1, Greatest
  <2>4. first \in kept /\ \A j \in kept : first <= j
    <3> HIDE DEF kept
    <3>1. QED
      BY <2>2
  <2>5. last \in kept /\ \A j \in kept : j <= last
    <3> HIDE DEF kept
    <3>1. QED
      BY <2>3
  <2>6. TrimAny(text, chars) = SubSeq(text, first, last)
    BY <1>2, <1>4
  <2>7. \A i \in 1 .. n : i \in kept <=> text[i] \notin chars
    BY <1>1
  <2> HIDE DEF kept, first, last, n
  <2>8. first \in 1 .. n /\ last \in 1 .. n /\ first <= last
    BY <2>1, <2>4, <2>5
  <2>9. first \in 1 .. n /\ last \in first .. n
    BY <1>1, <2>8
  <2>10. text[first] \notin chars /\ text[last] \notin chars
    BY <2>4, <2>5, <2>7, <2>8
  <2>11. \A i \in 1 .. (first - 1) : text[i] \in chars
    <3>1. \A i \in 1 .. (first - 1) : i \in 1 .. n /\ ~(first <= i)
      BY <1>1, <2>8
    <3>2. QED
      BY <2>4, <2>7, <3>1
  <2>12. \A i \in (last + 1) .. n : text[i] \in chars
    <3>1. \A i \in (last + 1) .. n : i \in 1 .. n /\ ~(i <= last)
      BY <1>1, <2>8
    <3>2. QED
      BY <2>5, <2>7, <3>1
  <2>13. TrimsTo(text, chars, first, last)
    BY <2>6, <2>9, <2>10, <2>11, <2>12 DEF TrimsTo, n
  <2>14. QED
    BY <2>13
<1>5. QED
  BY <1>3, <1>4

\* A part of a message without the line ends around it is a part again, the
\* same but for line ends.
Peeled(trimmed, text, rest, m, k) ==
    /\ k \in Nat /\ k <= m - 2
    /\ Carries(trimmed, rest, k)
    /\ Len(text) > m => k = m - 2 /\ Len(trimmed) > k
    /\ Len(text) = m /\ k # 0 => rest[k] \notin LineEnds

LEMMA PartIsPeeled ==
  ASSUME NEW rest \in Texts, rest[1] \notin LineEnds, NEW text, NEW m,
         Carries(text, CRLF \o rest, m), m >= 2
  PROVE  \E k : Peeled(TrimAny(text, LineEnds), text, rest, m, k)
<1> DEFINE n == Len(text)
           late == CRLF \o rest
           trimmed == TrimAny(text, LineEnds)
<1>1. /\ late \in Texts /\ Len(rest) \in Nat /\ Len(late) = 2 + Len(rest)
      /\ late[1] = "CR" /\ late[2] = "LF"
      /\ \A i \in 1 .. Len(rest) : late[2 + i] = rest[i]
  <2>1. /\ CRLF \o rest \in Texts /\ Len(rest) \in Nat /\ Len(CRLF \o rest) = Len(CRLF) + Len(rest)
        /\ \A i \in 1 .. Len(CRLF) : (CRLF \o rest)[i] = CRLF[i]
        /\ \A i \in 1 .. Len(rest) : (CRLF \o rest)[Len(CRLF) + i] = rest[i]
    BY Delimiters, Concatenated
  <2>2. 1 \in 1 .. 2 /\ 2 \in 1 .. 2
    OBVIOUS
  <2> HIDE DEF late
  <2>3. QED
    BY <2>1, <2>2, Delimiters DEF late
<1>2. /\ text \in Texts /\ n \in Nat /\ m \in Nat /\ m <= 2 + Len(rest) /\ m <= n
      /\ \A i \in 1 .. m : text[i] = late[i]
      /\ \A i \in (m + 1) .. n : text[i] \notin LineEnds
  BY <1>1, LenProperties DEF Carries, Texts
<1>3. text[1] \in LineEnds /\ text[2] \in LineEnds
  <2>1. 1 \in 1 .. m /\ 2 \in 1 .. m
    BY <1>2
  <2>2. QED
    BY <1>1, <1>2, <2>1 DEF LineEnds
<1> HIDE DEF late, trimmed
<1>4. ASSUME n >= 3
      PROVE  text[3] \notin LineEnds
  <2>1. CASE m >= 3
    <3>1. 3 \in 1 .. m /\ 1 \in 1 .. Len(rest) /\ 2 + 1 = 3
      BY <1>1, <1>2, <2>1
    <3>2. QED
      BY <1>1, <1>2, <3>1
  <2>2. CASE ~(m >= 3)
    <3>1. 3 \in (m + 1) .. n
      BY <1>2, <1>4, <2>2
    <3>2. QED
      BY <1>2, <3>1
  <2>3. QED
    BY <2>1, <2>2
<1>5. CASE trimmed = <<>> /\ \A i \in 1 .. n : text[i] \in LineEnds
  <2>1. n = 2 /\ m = 2
    <3>1. n \in Nat /\ m \in Nat /\ 2 <= m /\ m <= n
      BY <1>2
    <3>2. 3 \in 1 .. n => FALSE
      BY <1>4, <1>5, <3>1
    <3> HIDE DEF n
    <3>3. QED
      BY <3>1, <3>2
  <2>2. trimmed \in Texts /\ Len(trimmed) = 0
    BY <1>5, EmptySeq DEF Texts
  <2>3. Carries(trimmed, rest, 0)
    BY <1>1, <2>2 DEF Carries
  <2>4. Peeled(trimmed, text, rest, m, 0)
    <3>1. 0 \in Nat /\ 0 <= m - 2 /\ ~(n > m) /\ ~(0 # 0)
      BY <2>1
    <3>2. QED
      BY <2>3, <3>1 DEF Peeled, n
  <2>5. QED
    BY <2>4 DEF trimmed
<1>6. ASSUME NEW first, NEW last, TrimsTo(text, LineEnds, first, last)
      PROVE  \E k : Peeled(trimmed, text, rest, m, k)
  <2> DEFINE k == IF last <= m THEN last - 2 ELSE m - 2
  <2>1. /\ first \in 1 .. n /\ last \in first .. n
        /\ text[first] \notin LineEnds /\ text[last] \notin LineEnds
        /\ \A i \in 1 .. (first - 1) : text[i] \in LineEnds
        /\ \A i \in (last + 1) .. n : text[i] \in LineEnds
        /\ trimmed = SubSeq(text, first, last)
    BY <1>6 DEF TrimsTo, n, trimmed
  <2>2. first = 3
    <3>1. first # 1 /\ first # 2
      BY <1>3, <2>1
    <3>2. first >= 3 /\ n >= 3
      BY <1>2, <2>1, <3>1
    <3>3. ~(3 \in 1 .. (first - 1))
      BY <1>4, <2>1, <3>2
    <3>4. QED
      BY <1>2, <2>1, <3>2, <3>3
  <2>3. last \in 3 .. n /\ n >= 3
    BY <1>2, <2>1, <2>2
  <2>4. n > m => last = n
    <3>1. ASSUME n > m, last # n
          PROVE  FALSE
      <4>1. n \in (m + 1) .. n /\ n \in (last + 1) .. n
        BY <1>2, <2>3, <3>1
      <4>2. QED
        BY <1>2, <2>1, <4>1
    <3>2. QED
      BY <3>1
  <2> DEFINE a == 2
             l == last - 2
  <2>5. a \in Nat /\ l \in Nat /\ a + l <= n /\ a + 1 = 3 /\ a + l = last
    BY <1>2, <2>3
  <2>6. trimmed \in Texts /\ Len(trimmed) = l /\ \A i \in 1 .. l : trimmed[i] = text[2 + i]
    <3>1. trimmed = SubSeq(text, a + 1, a + l)
      BY <2>1, <2>2, <2>5
    <3>2. /\ SubSeq(text, a + 1, a + l) \in Texts /\ Len(SubSeq(text, a + 1, a + l)) = l
          /\ \A i \in 1 .. l : SubSeq(text, a + 1, a + l)[i] = text[a + i]
      <4> HIDE DEF a, l
      <4>1. QED
        BY <1>2, <2>5, SubText DEF n
    <3> HIDE DEF l
    <3>3. QED
      BY <3>1, <3>2
  <2>7. k \in Nat /\ k <= m - 2 /\ k <= l /\ k <= Len(rest) /\ (n > m => k = m - 2 /\ l > k)
    BY <1>1, <1>2, <2>3, <2>4
  <2>8. ASSUME NEW i \in 1 .. k
        PROVE  trimmed[i] = rest[i]
    <3>1. i \in 1 .. l /\ 2 + i \in 1 .. m /\ i \in 1 .. Len(rest)
      BY <1>1, <1>2, <2>3, <2>7
    <3>2. QED
      BY <1>1, <1>2, <2>6, <3>1
  <2>9. ASSUME NEW i \in (k + 1) .. l
        PROVE  trimmed[i] \notin LineEnds
    <3>1. i \in 1 .. l /\ 2 + i \in (m + 1) .. n
      BY <1>1, <1>2, <2>3, <2>7
    <3>2. QED
      BY <1>2, <2>6, <3>1
  <2>13. ASSUME n = m
         PROVE  rest[k] \notin LineEnds
    <3>1. last <= m /\ k = last - 2 /\ last \in 1 .. m /\ k \in 1 .. Len(rest) /\ 2 + k = last
      BY <1>1, <1>2, <2>3, <2>13
    <3>2. text[last] = rest[k]
      <4> HIDE DEF k
      <4>1. text[last] = late[last] /\ late[2 + k] = rest[k]
        BY <1>1, <1>2, <3>1
      <4>2. QED
        BY <3>1, <4>1
    <3> HIDE DEF k
    <3>3. QED
      BY <2>1, <3>2
  <2> HIDE DEF k, l
  <2>10. Carries(trimmed, rest, k)
    BY <2>6, <2>7, <2>8, <2>9 DEF Carries
  <2>11. Peeled(trimmed, text, rest, m, k)
    BY <2>6, <2>7, <2>10, <2>13 DEF Peeled, n
  <2>12. QED
    BY <2>11
<1>7. QED
  BY <1>2, <1>5, <1>6, TrimIs DEF n, trimmed

-----------------------------------------------------------------------------
(* The lines parse_headers reads *)

\* The lines of the headers from the n-th on.
LinesFrom(s, list, n) ==
    /\ s \in Seq(Texts) /\ Len(s) = (Len(list) + 1) - n
    /\ \A i \in 1 .. (Len(list) + 1) - n : s[i] = LineOf(list[(n + i) - 1])

LEMMA BlockSplits ==
  ASSUME NEW list, Listed(list), NEW b, Blocks(b, list), Len(list) # 0,
         NEW text \in Texts, Len(text) = Len(b[Len(list)]) - 2,
         \A i \in 1 .. Len(text) : text[i] = b[Len(list)][i]
  PROVE  LinesFrom(Split(text, CRLF), list, 1)
<1> DEFINE N == Len(list)
           B == Len(b[N])
           L == Len(text)
<1>1. N \in Nat /\ N >= 1 /\ N \in 1 .. N
  BY LinesAreTexts
<1>2. PICK f : Splits(f, text, CRLF) /\ Split(text, CRLF) = f[1]
  BY Delimiters, SplitIs
<1>3. /\ \A n \in 1 .. N : LineOf(list[n]) \in Texts
      /\ \A n \in 1 .. N : /\ LineAt(b[N], Len(b[n - 1]), LineOf(list[n]), Len(b[n]))
                           /\ Len(b[n]) <= B
  <2>1. \A i \in 1 .. Len(b[Len(list)]) : b[N][i] = b[Len(list)][i]
    OBVIOUS
  <2>2. QED
    BY <2>1, LinesAreTexts, LineThere
<1>4. Len(b[0]) = 0 /\ 1 - 1 = 0 /\ 1 \in 1 .. N
  BY <1>1, EmptySeq DEF Blocks
<1>5. L = B - 2 /\ \A i \in 1 .. L : text[i] = b[N][i]
  OBVIOUS
<1>6. L \in Nat /\ B \in Nat
  <2>1. L \in Nat
    BY LenProperties DEF Texts
  <2>2. LineAt(b[N], Len(b[N - 1]), LineOf(list[N]), B)
    BY <1>1, <1>3
  <2> DEFINE u == Len(b[N - 1])
             v == Len(LineOf(list[N]))
  <2>3. u \in Nat /\ v \in Nat \ {0} /\ B = u + (v + 2)
    BY <2>2 DEF LineAt
  <2> HIDE DEF u, v, B
  <2>4. QED
    BY <2>1, <2>3
<1> DEFINE G == {n \in 1 .. N : LinesFrom(f[Len(b[n - 1]) + 1], list, n)}
<1>7. ASSUME NEW n \in 1 .. N, n # N => LinesFrom(f[Len(b[n]) + 1], list, n + 1)
      PROVE  LinesFrom(f[Len(b[n - 1]) + 1], list, n)
  <2> DEFINE line == LineOf(list[n])
             u == Len(b[n - 1])
             v == Len(line)
             w == Len(b[n])
             s == f[u + 1]
             t == f[w + 1]
  <2>1. /\ line \in Texts
        /\ u \in Nat /\ v \in Nat \ {0} /\ w = u + (v + 2) /\ w <= B
        /\ \A i \in 1 .. v : b[N][u + i] = line[i]
        /\ \A i \in 1 .. v : b[N][u + i] \notin LineEnds
        /\ LineEnd(b[N], u + (v + 1))
    <3>1. LineAt(b[N], u, line, w) /\ w <= B /\ line \in Texts
      BY <1>3
    <3>2. QED
      BY <3>1 DEF LineAt
  <2> HIDE DEF B, L, line, u, v, w, s, t
  <2>2. /\ u + v <= L /\ \A i \in 1 .. v : u + i \in 1 .. L
        /\ u + 1 \in 1 .. L /\ u + 1 \in Nat \ {0}
    BY <1>5, <1>6, <2>1
  <2>3. \A i \in 1 .. v : text[u + i] = line[i] /\ text[u + i] \notin LineEnds
    BY <1>5, <2>1, <2>2
  <2>4. \A i \in (u + 1) .. (u + v) : ~Occurs(text, CRLF, i)
    <3>1. ASSUME NEW i \in (u + 1) .. (u + v)
          PROVE  ~Occurs(text, CRLF, i)
      <4>1. i - u \in 1 .. v /\ u + (i - u) = i /\ i \in Nat \ {0}
        BY <2>1
      <4>2. text[i] \notin LineEnds
        BY <2>3, <4>1
      <4>3. QED
        BY <4>1, <4>2, OccursLine DEF LineEnd, LineEnds
    <3>2. QED
      BY <3>1
  <2>5. SubSeq(text, u + 1, u + v) = line
    <3>1. text \in Texts /\ u + v <= Len(text) /\ Len(line) = v /\ v \in Nat
      BY <1>5, <2>1, <2>2 DEF L, v
    <3>2. \A i \in 1 .. v : text[u + i] = line[i]
      BY <2>3
    <3>3. QED
      BY <2>1, <3>1, <3>2, SameSubSeq, Zenon
  <2>6. CASE n = N
    <3>1. w = B
      BY <2>6 DEF w, B
    <3>15. u + v = L
      <4>1. L = B - 2 /\ w = B
        BY <1>5, <3>1
      <4>2. w = u + (v + 2) /\ u \in Nat /\ v \in Nat
        BY <2>1
      <4>3. QED
        BY <4>1, <4>2
    <3>2. \A i \in Nat : i >= u + 1 => ~Occurs(text, CRLF, i)
      <4>1. ASSUME NEW i \in Nat, i >= u + 1
            PROVE  ~Occurs(text, CRLF, i)
        <5>1. CASE i <= u + v
          <6>1. i \in (u + 1) .. (u + v)
            BY <2>1, <4>1, <5>1
          <6>2. QED
            BY <2>4, <6>1
        <5>2. CASE ~(i <= u + v)
          <6>1. i \in Nat \ {0} /\ ~(i + 1 <= L)
            BY <1>6, <2>1, <3>15, <4>1, <5>2
          <6>2. QED
            BY <6>1, OccursLine DEF L
        <5>3. QED
          BY <5>1, <5>2
      <4>2. QED
        BY <4>1
    <3>3. Find(text, CRLF, u + 1) = 0
      BY <2>2, <3>2, Delimiters, FoundNowhere
    <3>4. s = <<line>>
      <4> DEFINE l == u + 1
      <4>1. l \in 1 .. Len(text) /\ Len(text) \in Nat /\ Find(text, CRLF, l) = 0
        BY <1>6, <2>2, <3>3 DEF L
      <4> HIDE DEF l
      <4>2. f[l] = <<SubSeq(text, l, Len(text))>>
        BY <1>2, <4>1, SplitsLast
      <4>3. QED
        BY <2>5, <3>15, <4>2 DEF l, s, L
    <3>5. <<line>> \in Seq(Texts) /\ Len(<<line>>) = 1 /\ <<line>>[1] = line
      BY <2>1
    <3> DEFINE one == <<line>>
    <3> HIDE DEF one
    <3>6. s \in Seq(Texts) /\ Len(s) = 1 /\ s[1] = line
      BY <3>4, <3>5 DEF one
    <3>7. (N + 1) - n = 1 /\ \A i \in 1 .. 1 : i = 1 /\ (n + i) - 1 = n
      BY <1>1, <2>6
    <3>8. LinesFrom(s, list, n)
      BY <3>6, <3>7 DEF LinesFrom, line, N
    <3>9. QED
      BY <3>8 DEF s, u
  <2>7. CASE n # N
    <3>1. n + 1 \in 1 .. N /\ (n + 1) - 1 = n
      BY <1>1, <2>7
    <3>2. w + 3 <= B
      <4> DEFINE x == Len(LineOf(list[n + 1]))
                 y == Len(b[n + 1])
      <4>1. LineAt(b[N], Len(b[(n + 1) - 1]), LineOf(list[n + 1]), y) /\ y <= B
        BY <1>3, <3>1
      <4>2. x \in Nat \ {0} /\ y = w + (x + 2) /\ y <= B
        BY <3>1, <4>1 DEF LineAt, w
      <4> HIDE DEF x, y
      <4>3. QED
        BY <1>6, <2>1, <4>2
    <3> DEFINE r == u + (v + 1)
    <3>3. r \in Nat /\ r \in (u + 1) .. L /\ r + 1 <= L /\ r \in Nat \ {0} /\ r - 1 = u + v /\ r + 2 = w + 1
          /\ r > u + 1 /\ r \in 1 .. L /\ r + 1 \in 1 .. L /\ r >= u + 1
      BY <1>5, <1>6, <2>1, <3>2
    <3>4. Occurs(text, CRLF, r)
      <4>1. LineEnd(text, r)
        BY <1>5, <2>1, <3>3 DEF LineEnd
      <4>2. QED
        BY <3>3, <4>1, OccursLine DEF L
    <3> HIDE DEF r
    <3>5. Find(text, CRLF, u + 1) = r
      <4>1. \A i \in (u + 1) .. (r - 1) : ~Occurs(text, CRLF, i)
        BY <2>4, <3>3
      <4>2. QED
        BY <2>2, <3>3, <3>4, <4>1, Delimiters, FoundAt
    <3>6. PieceAt(f, text, CRLF, u + 1, r)
      <4> DEFINE l == u + 1
      <4>1. l \in 1 .. Len(text) /\ r \in l .. Len(text) /\ Len(text) \in Nat /\ Find(text, CRLF, l) = r
        BY <1>6, <2>2, <3>3, <3>5 DEF L
      <4> HIDE DEF l
      <4>2. PieceAt(f, text, CRLF, l, r)
        BY <1>2, <4>1, SplitsPiece
      <4>3. QED
        BY <4>2 DEF l
    <3>7. s = <<line>> \o t
      <4>1. s = <<SubSeq(text, u + 1, r - 1)>> \o f[r + Len(CRLF)]
        BY <3>3, <3>6 DEF PieceAt, s
      <4>2. r + Len(CRLF) = w + 1
        BY <3>3, Delimiters
      <4>3. QED
        BY <2>5, <3>3, <4>1, <4>2 DEF t
    <3>8. /\ t \in Seq(Texts) /\ Len(t) = (N + 1) - (n + 1)
          /\ \A i \in 1 .. (N + 1) - (n + 1) : t[i] = LineOf(list[((n + 1) + i) - 1])
      BY <1>7, <2>7 DEF LinesFrom, t, w, N
    <3>9. OnTop(s, line, t)
      BY <2>1, <3>7, <3>8, PutOnTop
    <3> DEFINE z == N - n
    <3>10. z \in Nat /\ (N + 1) - (n + 1) = z /\ (N + 1) - n = 1 + z
           /\ \A i \in 1 .. z : ((n + 1) + i) - 1 = (n + (1 + i)) - 1
      BY <1>1
    <3>11. /\ s \in Seq(Texts) /\ Len(s) = 1 + z /\ s[1] = line
           /\ \A i \in 1 .. z : s[1 + i] = LineOf(list[(n + (1 + i)) - 1])
      <4>1. Len(t) = z /\ \A i \in 1 .. z : t[i] = LineOf(list[(n + (1 + i)) - 1])
        BY <3>8, <3>10
      <4>2. /\ s \in Seq(Texts) /\ Len(s) = 1 + Len(t) /\ s[1] = line
            /\ \A i \in 1 .. Len(t) : s[1 + i] = t[i]
        BY <3>9 DEF OnTop
      <4>3. QED
        BY <4>1, <4>2
    <3> HIDE DEF z
    <3>12. ASSUME NEW i \in 1 .. 1 + z
           PROVE  s[i] = LineOf(list[(n + i) - 1])
      <4>1. CASE i = 1
        <5>1. (n + 1) - 1 = n
          BY <1>1
        <5>2. QED
          BY <3>11, <4>1, <5>1 DEF line
      <4>2. CASE i # 1
        <5>1. i - 1 \in 1 .. z /\ 1 + (i - 1) = i
          BY <3>10, <4>2
        <5>2. QED
          BY <3>11, <5>1
      <4>3. QED
        BY <4>1, <4>2
    <3>13. LinesFrom(s, list, n)
      BY <3>10, <3>11, <3>12 DEF LinesFrom, N
    <3>14. QED
      BY <3>13 DEF s, u
  <2>8. QED
    BY <2>6, <2>7
<1>8. ASSUME NEW n \in 1 .. N, \A k \in (n + 1) .. N : k \in G
      PROVE  n \in G
  <2>1. n # N => n + 1 \in (n + 1) .. N /\ (n + 1) - 1 = n
    BY <1>1
  <2>2. n # N => LinesFrom(f[Len(b[(n + 1) - 1]) + 1], list, n + 1)
    BY <1>8, <2>1
  <2>3. n # N => LinesFrom(f[Len(b[n]) + 1], list, n + 1)
    BY <2>1, <2>2
  <2>4. LinesFrom(f[Len(b[n - 1]) + 1], list, n)
    BY <1>7, <2>3
  <2>5. QED
    BY <2>4
<1>9. G = 1 .. N
  <2>1. G \in SUBSET (1 .. N)
    OBVIOUS
  <2> HIDE DEF G, N
  <2>2. QED
    BY <1>1, <1>8, <2>1, GoingDown
<1>10. LinesFrom(f[0 + 1], list, 1)
  BY <1>4, <1>9
<1>11. QED
  BY <1>2, <1>10

LEMMA LineInTwo ==
  ASSUME NEW header \in Texts \X Texts, Plain(header)
  PROVE  /\ SplitFirst(LineOf(header), "COLON")[1] = header[1]
         /\ SplitFirst(LineOf(header), "COLON")[2] = header[2]
<1> DEFINE line == LineOf(header)
           key == header[1]
           value == header[2]
           k == Len(key)
           v == Len(value)
           hit == Find(line, <<"COLON">>, 1)
<1>1. /\ line \in Texts /\ key \in Texts /\ value \in Texts /\ k \in Nat
      /\ Len(line) = k + (1 + v)
      /\ \A i \in 1 .. k : line[i] = key[i]
      /\ line[k + 1] = "COLON"
      /\ \A i \in 1 .. v : line[k + 1 + i] = value[i]
  BY LineIs
<1>2. v \in Nat
  BY <1>1, LenProperties DEF Texts
<1>3. \A i \in 1 .. k : key[i] # "COLON"
  BY DEF Plain
<1> HIDE DEF line, key, value, k, v
<1>4. "COLON" \in Token
  BY DEF Token
<1>5. hit = k + 1
  <2>1. <<"COLON">> \in Texts /\ <<"COLON">> # <<>>
    BY <1>4, One
  <2>2. Occurs(line, <<"COLON">>, k + 1)
    <3>1. k + 1 \in 1 .. Len(line)
      BY <1>1, <1>2
    <3>2. QED
      BY <1>1, <1>4, <3>1, OccursToken
  <2>3. ASSUME NEW i \in 1 .. ((k + 1) - 1)
        PROVE  ~Occurs(line, <<"COLON">>, i)
    <3>1. i \in 1 .. k
      BY <1>1
    <3>2. line[i] # "COLON"
      BY <1>1, <1>3, <3>1
    <3>3. QED
      BY <1>1, <1>4, <3>2, OccursToken
  <2> DEFINE w == <<"COLON">>
             r == k + 1
  <2>4. r \in Nat /\ r >= 1 /\ 1 \in Nat \ {0}
    BY <1>1
  <2>5. w \in Texts /\ w # <<>> /\ Occurs(line, w, r) /\ \A i \in 1 .. (r - 1) : ~Occurs(line, w, i)
    BY <2>1, <2>2, <2>3
  <2> HIDE DEF w, r
  <2>6. Find(line, w, 1) = r
    BY <1>1, <2>4, <2>5, FoundAt
  <2>7. QED
    BY <2>6 DEF w, r
<1>6. SubSeq(line, 1, (k + 1) - 1) = key
  <2>1. 0 \in Nat /\ 0 + k <= Len(line) /\ Len(key) = k /\ 0 + 1 = 1 /\ 0 + k = (k + 1) - 1
    BY <1>1, <1>2 DEF k
  <2>2. \A i \in 1 .. k : line[0 + i] = key[i]
    <3>1. \A i \in 1 .. k : 0 + i = i
      OBVIOUS
    <3>2. QED
      BY <1>1, <3>1
  <2>3. SubSeq(line, 0 + 1, 0 + k) = key
    BY <1>1, <2>1, <2>2, SameSubSeq
  <2>4. QED
    BY <2>1, <2>3
<1>7. SubSeq(line, (k + 1) + 1, Len(line)) = value
  <2> DEFINE a == k + 1
  <2>1. a \in Nat /\ a + v <= Len(line) /\ Len(value) = v /\ a + v = Len(line)
    BY <1>1, <1>2 DEF v
  <2>2. \A i \in 1 .. v : line[a + i] = value[i]
    BY <1>1
  <2> HIDE DEF a
  <2>3. SubSeq(line, a + 1, a + v) = value
    <3>1. line \in Texts /\ value \in Texts /\ v \in Nat
      BY <1>1, <1>2
    <3>2. QED
      BY <2>1, <2>2, <3>1, SameSubSeq, Zenon
  <2>4. QED
    BY <2>1, <2>3 DEF a
<1>8. SplitFirst(line, "COLON") = <<SubSeq(line, 1, hit - 1), SubSeq(line, hit + 1, Len(line))>>
  <2>1. hit # 0
    BY <1>1, <1>5
  <2>2. QED
    BY <2>1 DEF SplitFirst
<1> DEFINE first == SubSeq(line, 1, hit - 1)
           second == SubSeq(line, hit + 1, Len(line))
<1>9. first = key /\ second = value
  BY <1>5, <1>6, <1>7
<1> HIDE DEF first, second
<1>10. <<first, second>>[1] = first /\ <<first, second>>[2] = second
  OBVIOUS
<1>11. SplitFirst(line, "COLON") = <<first, second>>
  BY <1>8 DEF first, second
<1>12. QED
  BY <1>9, <1>10, <1>11 DEF line, key, value

\* What a header's line does to what is read so far.
LEMMA LineRead ==
  ASSUME NEW header \in Texts \X Texts, Plain(header), NEW before
  PROVE  ParseHeaderLine(before, LineOf(header)) =
           IF before.err # "NO_ERROR" THEN before
           ELSE IF header[1] = <<>> THEN Result("EMPTY_HEADER_KEY", before.http)
           ELSE IF header[2] = <<>> THEN Result("EMPTY_HEADER_VALUE", before.http)
           ELSE Result("NO_ERROR",
                       [before.http EXCEPT !.headers = SetHeader(@, Trimmed(header[1]), Trimmed(header[2]))])
<1> DEFINE parts == SplitFirst(LineOf(header), "COLON")
<1>1. parts[1] = header[1] /\ parts[2] = header[2]
  BY LineInTwo
<1> HIDE DEF parts
<1>2. ParseHeaderLine(before, LineOf(header)) =
           IF before.err # "NO_ERROR" THEN before
           ELSE IF parts[1] = <<>> THEN Result("EMPTY_HEADER_KEY", before.http)
           ELSE IF parts[2] = <<>> THEN Result("EMPTY_HEADER_VALUE", before.http)
           ELSE Result("NO_ERROR",
                       [before.http EXCEPT !.headers = SetHeader(@, Trimmed(parts[1]), Trimmed(parts[2]))])
  BY Zenon DEF ParseHeaderLine, Trimmed, parts
<1>3. QED
  BY <1>1, <1>2, Zenon

ReadsLines(after, http, lines) ==
    /\ after[0] = Result("NO_ERROR", http)
    /\ \A n \in 1 .. Len(lines) : after[n] = ParseHeaderLine(after[n - 1], lines[n])

LEMMA ReadsExists ==
  ASSUME NEW lines, Len(lines) \in Nat, NEW http
  PROVE  \E after : after = [n \in 0 .. Len(lines) |->
                               IF n = 0 THEN Result("NO_ERROR", http)
                               ELSE ParseHeaderLine(after[n - 1], lines[n])]
<1> DEFINE m == Len(lines)
           start == Result("NO_ERROR", http)
           Step(x, n) == ParseHeaderLine(x, lines[n])
           Up(b, n) == b[0] = start /\ \A k \in 1 .. n : b[k] = Step(b[k - 1], k)
           G == {n \in 0 .. m : \E b : Up(b, n)}
<1>1. m \in Nat
  OBVIOUS
<1> HIDE DEF m, start, Step
<1>2. 0 \in G
  <2>1. Up([n \in 0 .. m |-> start], 0)
    BY <1>1
  <2>2. 0 \in 0 .. m
    BY <1>1
  <2>3. QED
    BY <2>1, <2>2, Zenon
<1>3. ASSUME NEW n \in 0 .. (m - 1), n \in G
      PROVE  n + 1 \in G
  <2>1. PICK b : Up(b, n)
    BY <1>3
  <2> DEFINE c == [k \in 0 .. m |-> IF k = n + 1 THEN Step(b[n], n + 1) ELSE b[k]]
  <2>2. n \in 0 .. m /\ n + 1 \in 1 .. m /\ n + 1 \in 0 .. m /\ 0 \in 0 .. m /\ n + 1 # 0
    BY <1>1
  <2>3. c[n + 1] = Step(b[n], n + 1) /\ \A k \in 0 .. m : k # n + 1 => c[k] = b[k]
    BY <2>2
  <2> HIDE DEF c
  <2>4. ASSUME NEW k \in 1 .. (n + 1)
        PROVE  c[k] = Step(c[k - 1], k)
    <3>1. CASE k = n + 1
      <4>1. k - 1 = n /\ n # n + 1
        BY <3>1
      <4>2. QED
        BY <2>2, <2>3, <3>1, <4>1
    <3>2. CASE k # n + 1
      <4>1. k \in 1 .. n /\ k \in 0 .. m /\ k - 1 \in 0 .. m /\ k - 1 # n + 1
        BY <1>1, <3>2
      <4>2. b[k] = Step(b[k - 1], k)
        BY <2>1, <4>1
      <4>3. QED
        BY <2>3, <3>2, <4>1, <4>2
    <3>3. QED
      BY <3>1, <3>2
  <2>5. c[0] = start
    BY <2>1, <2>2, <2>3
  <2>6. Up(c, n + 1)
    BY <2>4, <2>5
  <2>7. QED
    BY <2>2, <2>6, Zenon
<1>4. m \in G
  <2>1. G \in SUBSET (0 .. m)
    BY Zenon
  <2> HIDE DEF G
  <2>2. G = 0 .. m
    BY <1>1, <1>2, <1>3, <2>1, GoingUp
  <2>3. m \in 0 .. m
    BY <1>1
  <2>4. QED
    BY <2>2, <2>3
<1>5. PICK b : Up(b, m)
  BY <1>4
<1> DEFINE d == [n \in 0 .. m |-> b[n]]
<1>6. \A n \in 0 .. m : d[n] = b[n]
  OBVIOUS
<1>7. ASSUME NEW n \in 0 .. m
      PROVE  b[n] = IF n = 0 THEN start ELSE Step(d[n - 1], n)
  <2>1. CASE n = 0
    BY <1>5, <2>1
  <2>2. CASE n # 0
    <3>1. n \in 1 .. m /\ n - 1 \in 0 .. m
      BY <1>1, <2>2
    <3>2. b[n] = Step(b[n - 1], n) /\ d[n - 1] = b[n - 1]
      BY <1>5, <1>6, <3>1
    <3>3. QED
      BY <2>2, <3>2
  <2>3. QED
    BY <2>1, <2>2
<1>8. d = [n \in 0 .. m |-> IF n = 0 THEN start ELSE Step(d[n - 1], n)]
  <2> DEFINE e(n) == IF n = 0 THEN start ELSE Step(d[n - 1], n)
  <2>1. \A n \in 0 .. m : b[n] = e(n)
    BY <1>7
  <2> HIDE DEF e
  <2>2. [n \in 0 .. m |-> b[n]] = [n \in 0 .. m |-> e(n)]
    BY <2>1
  <2>3. QED
    BY <2>2 DEF e
<1> HIDE DEF d
<1>9. QED
  BY <1>8, Zenon DEF m, start, Step

LEMMA ReadsIs ==
  ASSUME NEW text, NEW http, Len(Split(text, CRLF)) \in Nat
  PROVE  \E after : /\ ReadsLines(after, http, Split(text, CRLF))
                    /\ ParseHeaders(text, http) = after[Len(Split(text, CRLF))]
<1> DEFINE lines == Split(text, CRLF)
           m == Len(lines)
           e(f, n) == IF n = 0 THEN Result("NO_ERROR", http) ELSE ParseHeaderLine(f[n - 1], lines[n])
           P == CHOOSE f : f = [n \in 0 .. m |-> e(f, n)]
<1>1. ParseHeaders(text, http) = P[m]
  BY DEF ParseHeaders
<1>2. \E f : f = [n \in 0 .. m |-> e(f, n)]
  BY ReadsExists
<1>3. P = [n \in 0 .. m |-> e(P, n)]
  BY <1>2, Zenon
<1> HIDE DEF P
<1>4. \A n \in 0 .. m : P[n] = e(P, n)
  BY <1>3, Zenon
<1>5. m \in Nat
  OBVIOUS
<1> HIDE DEF m
<1>6. 0 \in 0 .. m /\ \A n \in 1 .. m : n \in 0 .. m /\ n # 0
  BY <1>5
<1>7. ReadsLines(P, http, lines)
  <2>1. P[0] = Result("NO_ERROR", http)
    BY <1>4, <1>6
  <2>2. \A n \in 1 .. m : P[n] = ParseHeaderLine(P[n - 1], lines[n])
    BY <1>4, <1>6
  <2>3. QED
    BY <2>1, <2>2 DEF ReadsLines, m
<1>8. QED
  BY <1>1, <1>7 DEF m

\* The headers of the first lines.
NameAt(list, n) == HeaderName(Trimmed(list[n][1]))

IsLastOf(list, n, name, k) ==
    /\ k \in 1 .. n /\ NameAt(list, k) = name
    /\ \A j \in (k + 1) .. n : NameAt(list, j) # name

LastOf(list, n, name) == CHOOSE k \in 1 .. n : IsLastOf(list, n, name, k)

Meant(list, n) ==
    [name \in {NameAt(list, k) : k \in 1 .. n} |-> Trimmed(list[LastOf(list, n, name)][2])]

LEMMA LastIsOne ==
  ASSUME NEW list, NEW n \in Nat, NEW name, NEW k, IsLastOf(list, n, name, k)
  PROVE  LastOf(list, n, name) = k
<1>1. k \in 1 .. n
  BY DEF IsLastOf
<1> DEFINE l == LastOf(list, n, name)
<1>2. l \in 1 .. n /\ IsLastOf(list, n, name, l)
  BY <1>1 DEF LastOf
<1> HIDE DEF l
<1>3. ~(k < l)
  <2>1. k < l => l \in (k + 1) .. n
    BY <1>1, <1>2
  <2>2. QED
    BY <1>2, <2>1 DEF IsLastOf
<1>4. ~(l < k)
  <2>1. l < k => k \in (l + 1) .. n
    BY <1>1, <1>2
  <2>2. QED
    BY <1>2, <2>1 DEF IsLastOf
<1>5. l = k
  BY <1>1, <1>2, <1>3, <1>4
<1>6. QED
  BY <1>5 DEF l

LEMMA LastExists ==
  ASSUME NEW list, NEW n \in Nat, NEW h \in 1 .. n
  PROVE  IsLastOf(list, n, NameAt(list, h), LastOf(list, n, NameAt(list, h)))
<1> DEFINE name == NameAt(list, h)
           T == {k \in 1 .. n : NameAt(list, k) = name}
<1>1. T \in SUBSET (1 .. n) /\ T # {}
  OBVIOUS
<1>2. PICK k \in T : \A y \in T : y <= k
  <2> HIDE DEF T
  <2>1. QED
    BY <1>1, Greatest
<1>3. k \in 1 .. n /\ NameAt(list, k) = name
  BY <1>2
<1>4. ASSUME NEW j \in (k + 1) .. n
      PROVE  NameAt(list, j) # name
  <2>1. j \in 1 .. n /\ ~(j <= k)
    BY <1>3
  <2>2. j \notin T
    BY <1>2, <2>1
  <2>3. QED
    BY <2>1, <2>2
<1> HIDE DEF name
<1>5. IsLastOf(list, n, name, k)
  BY <1>3, <1>4 DEF IsLastOf
<1>6. LastOf(list, n, name) = k
  BY <1>5, LastIsOne
<1>7. QED
  BY <1>5, <1>6 DEF name

LEMMA MeantMore ==
  ASSUME NEW list, NEW n \in Nat
  PROVE  SetHeader(Meant(list, n), Trimmed(list[n + 1][1]), Trimmed(list[n + 1][2]))
           = Meant(list, n + 1)
<1> DEFINE old == Meant(list, n)
           new == NameAt(list, n + 1)
           value == Trimmed(list[n + 1][2])
           D == {NameAt(list, k) : k \in 1 .. n}
           E == {NameAt(list, k) : k \in 1 .. (n + 1)}
           Was(name) == Trimmed(list[LastOf(list, n, name)][2])
           Is(name) == Trimmed(list[LastOf(list, n + 1, name)][2])
<1>1. DOMAIN old = D /\ \A name \in D : old[name] = Was(name)
  BY DEF Meant
<1>2. Meant(list, n + 1) = [name \in E |-> Is(name)]
  BY DEF Meant
<1>3. SetHeader(old, Trimmed(list[n + 1][1]), value)
        = [name \in DOMAIN old \union {new} |-> IF name = new THEN value ELSE old[name]]
  BY DEF SetHeader, NameAt
<1>4. D \union {new} = E
  <2>1. \A k : k \in 1 .. (n + 1) <=> k \in 1 .. n \/ k = n + 1
    OBVIOUS
  <2> DEFINE h(k) == NameAt(list, k)
  <2> HIDE DEF h
  <2>2. {h(k) : k \in 1 .. n} \union {h(n + 1)} = {h(k) : k \in 1 .. (n + 1)}
    BY <2>1
  <2>3. QED
    BY <2>2 DEF h
<1>5. Is(new) = value
  <2>1. n + 1 \in 1 .. (n + 1) /\ n + 1 \in Nat /\ (((n + 1) + 1) .. (n + 1)) = {}
    OBVIOUS
  <2>2. IsLastOf(list, n + 1, new, n + 1)
    BY <2>1 DEF IsLastOf
  <2>3. LastOf(list, n + 1, new) = n + 1
    BY <2>1, <2>2, LastIsOne
  <2>4. QED
    BY <2>3
<1>6. ASSUME NEW name \in D, name # new
      PROVE  Is(name) = Was(name)
  <2> DEFINE l == LastOf(list, n, name)
  <2>1. PICK h \in 1 .. n : name = NameAt(list, h)
    OBVIOUS
  <2>2. IsLastOf(list, n, name, l)
    BY <2>1, LastExists
  <2> HIDE DEF l
  <2>3. /\ l \in 1 .. n /\ NameAt(list, l) = name
        /\ \A j \in (l + 1) .. n : NameAt(list, j) # name
    BY <2>2 DEF IsLastOf
  <2>4. \A j \in (l + 1) .. (n + 1) : j \in (l + 1) .. n \/ j = n + 1
    BY <2>3
  <2>5. l \in 1 .. (n + 1) /\ n + 1 \in Nat
    BY <2>3
  <2>6. IsLastOf(list, n + 1, name, l)
    BY <1>6, <2>3, <2>4, <2>5 DEF IsLastOf
  <2>7. LastOf(list, n + 1, name) = l
    BY <2>5, <2>6, LastIsOne
  <2>8. QED
    BY <2>7 DEF l
<1> HIDE DEF old, new, value, Was, Is, D, E
<1>7. \A name \in E : Is(name) = IF name = new THEN value ELSE old[name]
  BY <1>1, <1>4, <1>5, <1>6
<1>8. [name \in E |-> Is(name)] = [name \in E |-> IF name = new THEN value ELSE old[name]]
  BY <1>7
<1>9. QED
  BY <1>1, <1>2, <1>3, <1>4, <1>8 DEF old, value

LEMMA MeaningIs ==
  ASSUME NEW list, Listed(list)
  PROVE  Meaning(list) = Meant(list, Len(list))
<1>1. DOMAIN list = 1 .. Len(list) /\ Len(list) \in Nat
  BY LenProperties DEF Listed
<1> DEFINE n == Len(list)
           Was(name) == Trimmed(list[CHOOSE k \in DOMAIN list :
                          /\ HeaderName(Trimmed(list[k][1])) = name
                          /\ \A j \in (k + 1) .. Len(list) :
                                HeaderName(Trimmed(list[j][1])) # name][2])
           Is(name) == Trimmed(list[LastOf(list, n, name)][2])
<1>2. Meaning(list) = [name \in Names(list) |-> Was(name)]
  BY DEF Meaning
<1>3. Names(list) = {NameAt(list, k) : k \in 1 .. n}
  BY <1>1 DEF Names, NameAt
<1>4. \A name : Was(name) = Is(name)
  <2>1. ASSUME NEW name
        PROVE  Was(name) = Is(name)
    <3> DEFINE P(k) == /\ HeaderName(Trimmed(list[k][1])) = name
                       /\ \A j \in (k + 1) .. Len(list) :
                             HeaderName(Trimmed(list[j][1])) # name
               was == CHOOSE k \in DOMAIN list : P(k)
    <3>1. \A k \in 1 .. n : IsLastOf(list, n, name, k) <=> P(k)
      BY DEF IsLastOf, NameAt
    <3>2. Was(name) = Trimmed(list[was][2])
      OBVIOUS
    <3> HIDE DEF P
    <3>3. was = LastOf(list, n, name)
      BY <1>1, <3>1 DEF LastOf
    <3> HIDE DEF was
    <3>4. QED
      BY <3>2, <3>3
  <2>2. QED
    BY <2>1
<1> HIDE DEF Was, Is, n
<1>5. [name \in Names(list) |-> Was(name)] = [name \in Names(list) |-> Is(name)]
  BY <1>4
<1>6. Meant(list, n) = [name \in {NameAt(list, k) : k \in 1 .. n} |-> Is(name)]
  BY DEF Meant, Is
<1>7. QED
  BY <1>2, <1>3, <1>5, <1>6 DEF n

\* A message object that has no headers yet.
NoHeadersYet(http) ==
    "headers" \in DOMAIN http /\ http = [http EXCEPT !.headers = NoHeaders]

WithHeaders(http, headers) == [http EXCEPT !.headers = headers]

LEMMA HeadersSet ==
  ASSUME NEW http, "headers" \in DOMAIN http, NEW old, NEW new
  PROVE  /\ WithHeaders(http, old).headers = old
         /\ WithHeaders(WithHeaders(http, old), new) = WithHeaders(http, new)
         /\ "headers" \in DOMAIN WithHeaders(http, old)
  BY DEF WithHeaders

HeadersRead(r, http, list) ==
    /\ r.err = "NO_ERROR" => r = Result("NO_ERROR", WithHeaders(http, Meaning(list)))
    /\ SoundList(list) => r.err = "NO_ERROR"

LEMMA HeadersAreRead ==
  ASSUME NEW list, Listed(list), NEW text, LinesFrom(Split(text, CRLF), list, 1),
         NEW http, NoHeadersYet(http)
  PROVE  HeadersRead(ParseHeaders(text, http), http, list)
<1> DEFINE lines == Split(text, CRLF)
           N == Len(list)
           Good(r, n) == /\ r.err = "NO_ERROR" => r = Result("NO_ERROR", WithHeaders(http, Meant(list, n)))
                         /\ SoundList(list) => r.err = "NO_ERROR"
<1>1. N \in Nat /\ \A n \in 1 .. N : list[n] \in Texts \X Texts /\ Plain(list[n])
  BY LinesAreTexts
<1>2. Len(lines) = N /\ \A n \in 1 .. N : lines[n] = LineOf(list[n])
  <2>1. (N + 1) - 1 = N /\ \A n \in 1 .. N : (1 + n) - 1 = n
    BY <1>1
  <2>2. Len(lines) = (N + 1) - 1 /\ \A n \in 1 .. (N + 1) - 1 : lines[n] = LineOf(list[(1 + n) - 1])
    BY DEF LinesFrom
  <2> HIDE DEF N, lines
  <2>3. QED
    BY <2>1, <2>2
<1>3. PICK after : ReadsLines(after, http, lines) /\ ParseHeaders(text, http) = after[Len(lines)]
  BY <1>1, <1>2, ReadsIs
<1>4. DOMAIN list = 1 .. N
  BY LenProperties DEF Listed
<1> HIDE DEF lines, N
<1>5. /\ after[0] = Result("NO_ERROR", http)
      /\ \A n \in 1 .. N : after[n] = ParseHeaderLine(after[n - 1], lines[n])
  BY <1>2, <1>3 DEF ReadsLines
<1> DEFINE G == {n \in 0 .. N : Good(after[n], n)}
<1>6. 0 \in G
  <2>1. Meant(list, 0) = NoHeaders
    <3>1. {NameAt(list, k) : k \in 1 .. 0} = {}
      OBVIOUS
    <3>2. QED
      BY <3>1 DEF Meant, NoHeaders
  <2>2. after[0] = Result("NO_ERROR", WithHeaders(http, Meant(list, 0)))
    BY <1>5, <2>1 DEF NoHeadersYet, WithHeaders
  <2>3. after[0].err = "NO_ERROR"
    BY <2>2 DEF Result
  <2>4. 0 \in 0 .. N
    BY <1>1
  <2>5. QED
    BY <2>2, <2>3, <2>4
<1>7. ASSUME NEW n \in 0 .. (N - 1), n \in G
      PROVE  n + 1 \in G
  <2> DEFINE r == after[n]
             s == after[n + 1]
             key == list[n + 1][1]
             value == list[n + 1][2]
  <2>1. n + 1 \in 1 .. N /\ (n + 1) - 1 = n /\ n \in Nat /\ n + 1 \in 0 .. N
    BY <1>1
  <2>2. s = ParseHeaderLine(r, LineOf(list[n + 1]))
    BY <1>2, <1>5, <2>1
  <2>3. s = IF r.err # "NO_ERROR" THEN r
            ELSE IF key = <<>> THEN Result("EMPTY_HEADER_KEY", r.http)
            ELSE IF value = <<>> THEN Result("EMPTY_HEADER_VALUE", r.http)
            ELSE Result("NO_ERROR", [r.http EXCEPT !.headers = SetHeader(@, Trimmed(key), Trimmed(value))])
    BY <1>1, <2>1, <2>2, LineRead, Zenon
  <2>4. Good(r, n)
    BY <1>7
  <2>5. SoundList(list) => key # <<>> /\ value # <<>>
    BY <1>4, <2>1 DEF SoundList
  <2> HIDE DEF r, s, key, value
  <2>6. CASE r.err # "NO_ERROR"
    <3>1. s = r
      BY <2>3, <2>6
    <3>2. Good(s, n + 1)
      BY <2>4, <2>6, <3>1
    <3>3. QED
      BY <2>1, <3>2 DEF s
  <2>7. CASE r.err = "NO_ERROR" /\ (key = <<>> \/ value = <<>>)
    <3>1. s = Result("EMPTY_HEADER_KEY", r.http) \/ s = Result("EMPTY_HEADER_VALUE", r.http)
      BY <2>3, <2>7
    <3>2. s.err # "NO_ERROR" /\ ~SoundList(list)
      BY <2>5, <2>7, <3>1 DEF Result
    <3>3. Good(s, n + 1)
      BY <3>2
    <3>4. QED
      BY <2>1, <3>3 DEF s
  <2>8. CASE r.err = "NO_ERROR" /\ key # <<>> /\ value # <<>>
    <3>1. r.http = WithHeaders(http, Meant(list, n))
      BY <2>4, <2>8 DEF Result
    <3>2. s = Result("NO_ERROR", [r.http EXCEPT !.headers = SetHeader(@, Trimmed(key), Trimmed(value))])
      BY <2>3, <2>8
    <3>3. s = Result("NO_ERROR", WithHeaders(r.http, SetHeader(r.http.headers, Trimmed(key), Trimmed(value))))
      BY <3>2 DEF WithHeaders
    <3>4. SetHeader(Meant(list, n), Trimmed(key), Trimmed(value)) = Meant(list, n + 1)
      BY <2>1, MeantMore DEF key, value
    <3>5. s = Result("NO_ERROR", WithHeaders(http, Meant(list, n + 1)))
      <4>1. "headers" \in DOMAIN http
        BY DEF NoHeadersYet
      <4>2. r.http.headers = Meant(list, n)
        BY <3>1, <4>1, HeadersSet
      <4>3. WithHeaders(r.http, Meant(list, n + 1)) = WithHeaders(http, Meant(list, n + 1))
        BY <3>1, <4>1, HeadersSet
      <4>4. QED
        BY <3>3, <3>4, <4>2, <4>3
    <3>6. s.err = "NO_ERROR"
      BY <3>5 DEF Result
    <3>7. Good(s, n + 1)
      BY <3>5, <3>6
    <3>8. QED
      BY <2>1, <3>7 DEF s
  <2>9. QED
    BY <2>6, <2>7, <2>8
<1>8. N \in G
  <2>1. G \in SUBSET (0 .. N)
    OBVIOUS
  <2> HIDE DEF G
  <2>2. G = 0 .. N
    BY <1>1, <1>6, <1>7, <2>1, GoingUp
  <2>3. N \in 0 .. N
    BY <1>1
  <2>4. QED
    BY <2>2, <2>3
<1>9. Good(after[N], N)
  BY <1>8
<1>10. Meaning(list) = Meant(list, N)
  BY MeaningIs DEF N
<1>11. ParseHeaders(text, http) = after[N]
  BY <1>2, <1>3
<1>12. QED
  BY <1>9, <1>10, <1>11 DEF HeadersRead

-----------------------------------------------------------------------------
(* What parse_http_string makes of a part of a message *)

\* What the first line leaves of a message object.
Started(http) ==
    /\ NoHeadersYet(http) /\ http.body = <<>> /\ http.headers = NoHeaders
    /\ DOMAIN http = {"method", "url", "protocol", "headers", "body"}

RestRead(r, http, list, body, closed, text, rest, m) ==
    LET c == Len(HeaderBlock(list)) + 4
    IN  /\ r.err = "NO_ERROR" =>
             /\ r.http.headers \in {NoHeaders, Meaning(list)}
             /\ r.http.body \in {<<>>, IF closed THEN body ELSE <<>>}
             /\ r.http.url = http.url /\ r.http.method = http.method
             /\ r.http.headers # NoHeaders => m >= c
             /\ r.http.body # <<>> => m = 2 + Len(rest)
             /\ m >= c /\ Len(text) > m => r.http.headers = Meaning(list)
             /\ m = c /\ Len(text) = m => r.http.headers = NoHeaders
             /\ m = 2 + Len(rest) /\ Len(text) > m
                  => r.http.body = IF closed THEN body ELSE <<>>
        /\ SoundList(list) => r.err = "NO_ERROR"

\* The fields of a message object with headers, and with headers and a body.
FieldsAre(h, http, headers, body) ==
    /\ h.headers = headers /\ h.body = body
    /\ h.url = http.url /\ h.method = http.method

LEMMA TheFields ==
  ASSUME NEW http, Started(http), NEW headers
  PROVE  FieldsAre(WithHeaders(http, headers), http, headers, <<>>)
  BY DEF WithHeaders, Started, FieldsAre

WithBody(r, body) == [r EXCEPT !.http.body = body]

LEMMA AllFields ==
  ASSUME NEW http, Started(http), NEW headers, NEW body,
         NEW r, r = WithBody(Result("NO_ERROR", WithHeaders(http, headers)), body)
  PROVE  r.err = "NO_ERROR" /\ FieldsAre(r.http, http, headers, body)
<1> DEFINE h == WithHeaders(http, headers)
           k == [h EXCEPT !.body = body]
<1>1. /\ DOMAIN h = {"method", "url", "protocol", "headers", "body"}
      /\ h.headers = headers /\ h.url = http.url /\ h.method = http.method
  BY DEF WithHeaders, Started
<1>2. r = [err |-> "NO_ERROR", http |-> k]
  BY DEF Result, WithBody
<1> HIDE DEF h
<1>3. /\ k.body = body /\ k.headers = h.headers /\ k.url = h.url /\ k.method = h.method
  BY <1>1
<1> HIDE DEF k
<1>4. r.err = "NO_ERROR" /\ r.http = k
  BY <1>2
<1>5. QED
  BY <1>1, <1>3, <1>4 DEF FieldsAre

LEMMA RestIsRead ==
  ASSUME NEW list, Listed(list), Len(list) # 0, NEW body, BodyText(body),
         NEW closed \in BOOLEAN, NEW rest, rest = RestOf(HeaderBlock(list), body, closed),
         NEW text, NEW m, Carries(text, CRLF \o rest, m), m >= 2,
         NEW http, Started(http)
  PROVE  RestRead(ParseRest(text, http), http, list, body, closed, text, rest, m)
<1> DEFINE N == Len(list)
           block == HeaderBlock(list)
           B == Len(block)
           trimmed == TrimAny(text, LineEnds)
           parts == Split(trimmed, EmptyLine)
           header == ParseHeaders(parts[1], http)
           r == ParseRest(text, http)
           stops == IF closed THEN body ELSE <<>>
<1>1. PICK b : Blocks(b, list) /\ block = b[N]
  BY BlockIs
<1>2. N \in Nat /\ block \in Texts /\ B \in Nat
  <2>1. N \in Nat
    BY LinesAreTexts
  <2>2. N \in 0 .. N
    BY <2>1
  <2>3. block \in Texts
    BY <1>1, <2>2 DEF Blocks
  <2>4. QED
    BY <2>1, <2>3, LenProperties DEF Texts
<1>3. RestHas(rest, block, body, closed)
  BY <1>2, RestIs DEF BodyText
<1> HIDE DEF block
<1>4. /\ B >= 3 /\ Gap(rest, B - 1)
      /\ \A i \in 1 .. (B - 2) : ~Gap(rest, i)
      /\ rest[1] \notin LineEnds
  BY <1>1, <1>3, FirstGap
<1>5. HasGaps(rest, block, body, closed)
  <2>1. /\ \A j \in 1 .. Len(body) : (B + 2) + j + 3 <= Len(rest) => ~Gap(rest, (B + 2) + j)
        /\ closed => Gap(rest, (B + 2) + (Len(body) + 1)) /\ Len(rest) = (B + 2) + (Len(body) + 4)
        /\ ~closed => Len(rest) = (B + 2) + Len(body)
    BY <1>3, SecondGap
  <2>2. (B + 2) - 3 = B - 1 /\ (B + 2) - 4 = B - 2
    BY <1>2
  <2>3. QED
    BY <1>4, <2>1, <2>2 DEF HasGaps
<1>6. rest \in Texts /\ Len(rest) \in Nat
  BY <1>3, LenProperties DEF RestHas, Texts
<1>7. m \in Nat /\ Len(text) \in Nat
  BY LenProperties DEF Carries, Texts
<1>8. PICK k : Peeled(trimmed, text, rest, m, k)
  BY <1>4, <1>6, PartIsPeeled
<1>9. /\ k \in Nat /\ k <= m - 2 /\ Carries(trimmed, rest, k)
      /\ Len(text) > m => k = m - 2 /\ Len(trimmed) > k
      /\ Len(text) = m /\ k # 0 => rest[k] \notin LineEnds
  BY <1>8 DEF Peeled
<1>10. InPieces(parts, trimmed, rest, k, block, body, closed)
  BY <1>3, <1>5, <1>9, PiecesOfPart
<1>11. k <= Len(rest) /\ m <= 2 + Len(rest) /\ B + 2 <= Len(rest)
  <2>1. k <= Len(rest)
    BY <1>9 DEF Carries
  <2>2. Len(CRLF \o rest) = 2 + Len(rest)
    <3>1. CRLF \in Texts /\ Len(CRLF) = 2
      BY Delimiters
    <3>2. Len(CRLF \o rest) = Len(CRLF) + Len(rest)
      BY <1>6, <3>1, Concatenated
    <3>3. QED
      BY <3>1, <3>2
  <2>3. m <= 2 + Len(rest)
    BY <2>2 DEF Carries
  <2>4. Len(body) \in Nat
    BY <1>3 DEF RestHas
  <2>5. B + 2 <= Len(rest)
    BY <1>2, <1>5, <2>4 DEF HasGaps
  <2>6. QED
    BY <2>1, <2>3, <2>5
<1>12. r = IF Len(parts) < 2 THEN Result("NO_ERROR", http)
           ELSE IF header.err # "NO_ERROR" \/ Len(parts) < 3 THEN header
           ELSE [header EXCEPT !.http.body = parts[2]]
  <2>1. parts = Pieces(text)
    BY DEF Pieces, EmptyLine, LineEnds
  <2>2. QED
    BY <2>1, Zenon DEF ParseRest
<1>13. ASSUME Len(parts) >= 2
       PROVE  HeadersRead(header, http, list)
  <2> DEFINE first == parts[1]
             a == B - 2
  <2>1. first = SubSeq(rest, 1, B - 2)
    BY <1>10, <1>13 DEF InPieces
  <2>2. a \in Nat /\ 0 \in Nat /\ 0 + a <= Len(rest) /\ 0 + 1 = 1 /\ 0 + a = B - 2
    BY <1>2, <1>4, <1>6, <1>11
  <2>3. \A i \in 1 .. a : 0 + i = i /\ i \in 1 .. B
    BY <1>2
  <2> HIDE DEF a
  <2>4. /\ SubSeq(rest, 0 + 1, 0 + a) \in Texts /\ Len(SubSeq(rest, 0 + 1, 0 + a)) = a
        /\ \A i \in 1 .. a : SubSeq(rest, 0 + 1, 0 + a)[i] = rest[0 + i]
    BY <1>6, <2>2, SubText
  <2>5. first \in Texts /\ Len(first) = a /\ \A i \in 1 .. a : first[i] = rest[i]
    BY <2>1, <2>2, <2>3, <2>4
  <2>6. \A i \in 1 .. B : rest[i] = block[i]
    BY <1>3 DEF RestHas
  <2>7. \A i \in 1 .. Len(first) : first[i] = b[Len(list)][i]
    BY <1>1, <2>3, <2>5, <2>6
  <2>8. Len(first) = Len(b[Len(list)]) - 2
    BY <1>1, <2>5 DEF a
  <2> HIDE DEF first
  <2>9. LinesFrom(Split(first, CRLF), list, 1)
    BY <1>1, <2>5, <2>7, <2>8, BlockSplits
  <2>10. HeadersRead(ParseHeaders(first, http), http, list)
    BY <2>9, HeadersAreRead DEF Started
  <2>11. QED
    BY <2>10 DEF first
<1> HIDE DEF parts, header, r, trimmed, N, B
<1> DEFINE c == B + 4
<1>14. CASE Len(parts) < 2
  <2>1. r = Result("NO_ERROR", http)
    BY <1>12, <1>14
  <2>2. r.err = "NO_ERROR" /\ r.http = http
    BY <2>1 DEF Result
  <2>3. ~(Len(parts) >= 2) /\ ~(Len(parts) >= 3)
    BY <1>10, <1>14 DEF InPieces
  <2>4. ~(k >= B + 2 /\ Len(trimmed) > k)
    BY <1>10, <2>3 DEF InPieces, B
  <2>5. ~(m >= c /\ Len(text) > m)
    <3>1. ASSUME m >= c, Len(text) > m
          PROVE  FALSE
      <4>1. k = m - 2 /\ Len(trimmed) > k
        BY <1>9, <3>1
      <4>2. k >= B + 2
        BY <1>2, <1>7, <3>1, <4>1
      <4>3. QED
        BY <2>4, <4>1, <4>2
    <3>2. QED
      BY <3>1
  <2>6. ~(m = 2 + Len(rest) /\ Len(text) > m)
    <3>1. m = 2 + Len(rest) => m >= c
      BY <1>2, <1>6, <1>11
    <3>2. QED
      BY <2>5, <3>1
  <2>7. http.headers = NoHeaders /\ http.body = <<>>
    BY DEF Started
  <2>8. RestRead(r, http, list, body, closed, text, rest, m)
    BY <2>2, <2>5, <2>6, <2>7 DEF RestRead, B, block
  <2>9. QED
    BY <2>8 DEF r
<1>15. CASE ~(Len(parts) < 2)
  <2>1. Len(parts) \in Nat /\ Len(parts) >= 2
    BY <1>10, <1>15 DEF InPieces
  <2>2. k >= B + 2
    BY <1>10, <2>1 DEF InPieces, B
  <2>3. m >= c
    BY <1>2, <1>7, <1>9, <2>2
  <2>9. ~(m = c /\ Len(text) = m)
    <3>1. ASSUME m = c, Len(text) = m
          PROVE  FALSE
      <4>1. k = B + 2 /\ k # 0
        BY <1>2, <1>7, <1>9, <2>2, <3>1
      <4>2. rest[B + 2] \in LineEnds
        <5>1. (B - 1) + 2 = B + 1 /\ (B + 1) + 1 = B + 2
          BY <1>2
        <5>2. LineEnd(rest, B + 1)
          BY <1>4, <5>1 DEF Gap
        <5>3. QED
          BY <5>1, <5>2 DEF LineEnd, LineEnds
      <4>3. QED
        BY <1>9, <3>1, <4>1, <4>2
    <3>2. QED
      BY <3>1
  <2>4. /\ header.err = "NO_ERROR" => header = Result("NO_ERROR", WithHeaders(http, Meaning(list)))
        /\ SoundList(list) => header.err = "NO_ERROR"
    BY <1>13, <2>1 DEF HeadersRead
  <2>5. CASE header.err # "NO_ERROR"
    <3>1. r = header
      BY <1>12, <1>15, <2>5
    <3>2. r.err # "NO_ERROR" /\ ~SoundList(list)
      BY <2>4, <2>5, <3>1
    <3>3. RestRead(r, http, list, body, closed, text, rest, m)
      BY <3>2 DEF RestRead
    <3>4. QED
      BY <3>3 DEF r
  <2>6. CASE header.err = "NO_ERROR" /\ Len(parts) < 3
    <3>1. r = Result("NO_ERROR", WithHeaders(http, Meaning(list)))
      BY <1>12, <1>15, <2>4, <2>6
    <3>2. r.err = "NO_ERROR" /\ r.http = WithHeaders(http, Meaning(list))
      BY <3>1 DEF Result
    <3>3. /\ r.http.headers = Meaning(list) /\ r.http.body = <<>>
          /\ r.http.url = http.url /\ r.http.method = http.method
      <4>1. FieldsAre(r.http, http, Meaning(list), <<>>)
        BY <3>2, TheFields
      <4>2. QED
        BY <4>1 DEF FieldsAre
    <3>4. ~(Len(parts) >= 3)
      BY <2>1, <2>6
    <3>5. ~(k = Len(rest) /\ Len(trimmed) > k /\ closed /\ body # <<>>)
      BY <1>10, <3>4 DEF InPieces
    <3>6. m = 2 + Len(rest) /\ Len(text) > m => stops = <<>>
      <4>1. ASSUME m = 2 + Len(rest), Len(text) > m
            PROVE  k = Len(rest) /\ Len(trimmed) > k
        <5>1. k = m - 2 /\ Len(trimmed) > k
          BY <1>9, <4>1
        <5>2. m - 2 = Len(rest)
          BY <1>6, <4>1
        <5>3. QED
          BY <5>1, <5>2
      <4>2. QED
        BY <3>5, <4>1
    <3>7. RestRead(r, http, list, body, closed, text, rest, m)
      BY <2>3, <2>9, <3>2, <3>3, <3>6 DEF RestRead, B, block
    <3>8. QED
      BY <3>7 DEF r
  <2>7. CASE header.err = "NO_ERROR" /\ ~(Len(parts) < 3)
    <3>1. Len(parts) >= 3
      BY <2>1, <2>7
    <3>2. closed /\ k = Len(rest) /\ body # <<>> /\ parts[2] = body
      BY <1>10, <3>1 DEF InPieces
    <3>3. r = WithBody(header, parts[2])
      BY <1>12, <1>15, <2>7, Zenon DEF WithBody
    <3>4. header = Result("NO_ERROR", WithHeaders(http, Meaning(list)))
      BY <2>4, <2>7
    <3>5. r = WithBody(Result("NO_ERROR", WithHeaders(http, Meaning(list))), body)
      BY <3>2, <3>3, <3>4, Zenon
    <3>6. /\ r.err = "NO_ERROR" /\ r.http.headers = Meaning(list) /\ r.http.body = body
          /\ r.http.url = http.url /\ r.http.method = http.method
      <4>1. r.err = "NO_ERROR" /\ FieldsAre(r.http, http, Meaning(list), body)
        BY <3>5, AllFields
      <4>2. QED
        BY <4>1 DEF FieldsAre
    <3>7. m = 2 + Len(rest)
      <4>1. k = Len(rest)
        BY <3>2
      <4>2. k \in Nat /\ k <= m - 2 /\ m <= 2 + Len(rest)
        BY <1>9, <1>11
      <4>3. QED
        BY <1>6, <1>7, <4>1, <4>2
    <3>8. stops = body
      BY <3>2
    <3>9. RestRead(r, http, list, body, closed, text, rest, m)
      BY <2>3, <2>9, <3>6, <3>7, <3>8 DEF RestRead, B, block
    <3>10. QED
      BY <3>9 DEF r
  <2>8. QED
    BY <2>5, <2>6, <2>7
<1>16. QED
  BY <1>14, <1>15

Bare(method, url, protocol) ==
    [method |-> method, url |-> url, protocol |-> protocol, headers |-> NoHeaders, body |-> <<>>]

LEMMA BareIsStarted ==
  ASSUME NEW method, NEW url, NEW protocol
  PROVE  Started(Bare(method, url, protocol))
<1> DEFINE h == Bare(method, url, protocol)
<1>1. /\ DOMAIN h = {"method", "url", "protocol", "headers", "body"}
      /\ h.headers = NoHeaders /\ h.body = <<>>
  BY DEF Bare
<1>2. h = [h EXCEPT !.headers = NoHeaders]
  BY DEF Bare
<1>3. QED
  BY <1>1, <1>2 DEF Started, NoHeadersYet

LEMMA ProtocolOnly ==
  ASSUME NEW text, NEW method, NEW url, NEW protocol
  PROVE  LET h == ParseProtocol(text, Bare(method, url, protocol)).http
         IN  h = Bare(method, url, protocol) \/ h = Bare(method, url, text[1])
<1>1. [Bare(method, url, protocol) EXCEPT !.protocol = text[1]] = Bare(method, url, text[1])
  BY DEF Bare
<1> DEFINE bare == Bare(method, url, protocol)
           r == ParseProtocol(text, bare)
<1>2. r = Result("NO_ERROR", [bare EXCEPT !.protocol = text[1]]) \/ r = Result("INVALID_PROTOCOL_VERSION", bare)
  BY Zenon DEF ParseProtocol
<1> HIDE DEF r, bare
<1>3. r.http = [bare EXCEPT !.protocol = text[1]] \/ r.http = bare
  BY <1>2 DEF Result
<1>4. QED
  BY <1>1, <1>3 DEF r, bare

AskedFor(http, method, url) == [http EXCEPT !.method = method, !.url = url]

LEMMA BareAsked ==
  ASSUME NEW method, NEW url, NEW protocol, NEW asked, NEW target
  PROVE  AskedFor(Bare(method, url, protocol), asked, target) = Bare(asked, target, protocol)
<1> DEFINE h == Bare(method, url, protocol)
           g == [h EXCEPT !.method = asked, !.url = target]
           f == [[h EXCEPT !.method = asked] EXCEPT !.url = target]
<1>1. [h EXCEPT !.method = asked] = Bare(asked, url, protocol)
  BY DEF Bare
<1>2. [Bare(asked, url, protocol) EXCEPT !.url = target] = Bare(asked, target, protocol)
  BY DEF Bare
<1>3. f = Bare(asked, target, protocol)
  BY <1>1, <1>2, Zenon
<1> HIDE DEF h
<1>4. g = f
  OBVIOUS
<1>5. QED
  BY <1>3, <1>4 DEF h, AskedFor

LEMMA FirstLineKeeps ==
  ASSUME NEW line
  PROVE  Started(ParseStatusLine(line, EmptyHttp).http)
<1> DEFINE first == Find(line, <<"SP">>, 1)
           second == Find(line, <<"SP">>, first + 1)
           front == SubSeq(line, 1, first - 1)
           url == SubSeq(line, first + 1, second - 1)
           asked == [EmptyHttp EXCEPT !.method = front[1], !.url = url]
           last == SubSeq(line, second + 1, Len(line))
           s == ParseStatusLine(line, EmptyHttp)
<1>1. EmptyHttp = Bare("GET", <<>>, "HTTP/1.1")
  BY DEF EmptyHttp, Bare
<1>2. asked = Bare(front[1], url, "HTTP/1.1")
  <2>1. asked = AskedFor(EmptyHttp, front[1], url)
    BY Zenon DEF AskedFor
  <2> HIDE DEF asked, front, url
  <2>2. AskedFor(EmptyHttp, front[1], url) = Bare(front[1], url, "HTTP/1.1")
    BY <1>1, BareAsked
  <2>3. QED
    BY <2>1, <2>2
<1>3. \/ s = Result("MALFORMED_STATUS_LINE", EmptyHttp)
      \/ s = ParseProtocol(front, EmptyHttp)
      \/ s = Result("INVALID_METHOD", EmptyHttp)
      \/ s = Result("NO_ERROR", ParseProtocol(last, asked).http)
  BY Zenon DEF ParseStatusLine
<1> HIDE DEF front, url, asked, last, s
<1>4. \/ s.http = EmptyHttp \/ s.http = ParseProtocol(front, EmptyHttp).http
      \/ s.http = ParseProtocol(last, asked).http
  BY <1>3 DEF Result
<1>5. \E method, u, protocol : s.http = Bare(method, u, protocol)
  BY <1>1, <1>2, <1>4, ProtocolOnly
<1>6. QED
  BY <1>5, BareIsStarted DEF s

\* A line's end is found in a part of a message when it is there.
LEMMA LinesHeld ==
  ASSUME NEW text, NEW full, NEW m, Carries(text, full, m), NEW i \in Nat \ {0}
  PROVE  Occurs(text, CRLF, i) <=> i + 1 <= m /\ LineEnd(full, i)
<1> DEFINE n == Len(text)
<1>1. n \in Nat /\ m \in Nat /\ m <= n
  BY LenProperties DEF Carries, Texts
<1>2. Occurs(text, CRLF, i) <=> i + 1 <= n /\ LineEnd(text, i)
  BY OccursLine DEF Carries
<1>3. /\ \A k \in 1 .. m : text[k] = full[k]
      /\ \A k \in (m + 1) .. n : text[k] \notin LineEnds
  BY DEF Carries
<1> HIDE DEF n
<1>4. ASSUME i + 1 <= n, LineEnd(text, i)
      PROVE  i + 1 <= m
  <2>1. text[i + 1] \in LineEnds
    BY <1>4 DEF LineEnd, LineEnds
  <2>2. ~(i + 1 \in (m + 1) .. n)
    BY <1>3, <2>1
  <2>3. QED
    BY <1>1, <1>4, <2>2
<1>5. ASSUME i + 1 <= m
      PROVE  LineEnd(text, i) <=> LineEnd(full, i)
  <2>1. i \in 1 .. m /\ i + 1 \in 1 .. m
    BY <1>1, <1>5
  <2>2. QED
    BY <1>3, <2>1 DEF LineEnd
<1>6. i + 1 <= m => i + 1 <= n
  BY <1>1
<1>7. QED
  BY <1>2, <1>4, <1>5, <1>6

\* The part of what follows the first line.
LEMMA RestHeld ==
  ASSUME NEW line \in Texts, NEW late \in Texts, NEW text, NEW m, Carries(text, line \o late, m),
         m >= Len(line)
  PROVE  /\ Carries(SubSeq(text, Len(line) + 1, Len(text)), late, m - Len(line))
         /\ Len(SubSeq(text, Len(line) + 1, Len(text))) = Len(text) - Len(line)
         /\ SubSeq(text, 1, Len(line)) = line
<1> DEFINE a == Len(line)
           n == Len(text)
           full == line \o late
           sub == SubSeq(text, a + 1, n)
           l == n - a
           k == m - a
<1>1. /\ a \in Nat /\ Len(late) \in Nat /\ Len(full) = a + Len(late) /\ full \in Texts
      /\ \A i \in 1 .. a : full[i] = line[i]
      /\ \A i \in 1 .. Len(late) : full[a + i] = late[i]
  BY Concatenated
<1>2. /\ text \in Texts /\ n \in Nat /\ m \in Nat /\ m <= n /\ m <= Len(full) /\ m >= a
      /\ \A i \in 1 .. m : text[i] = full[i]
      /\ \A i \in (m + 1) .. n : text[i] \notin LineEnds
  BY LenProperties DEF Carries, Texts
<1> HIDE DEF a, n, full
<1>3. l \in Nat /\ a + l <= n /\ a + l = n /\ k \in Nat /\ k <= l /\ k <= Len(late)
  BY <1>1, <1>2
<1>4. sub \in Texts /\ Len(sub) = l /\ \A i \in 1 .. l : sub[i] = text[a + i]
  <2> HIDE DEF l, sub
  <2>1. /\ SubSeq(text, a + 1, a + l) \in Texts /\ Len(SubSeq(text, a + 1, a + l)) = l
        /\ \A i \in 1 .. l : SubSeq(text, a + 1, a + l)[i] = text[a + i]
    <3>1. text \in Texts /\ a \in Nat /\ l \in Nat /\ a + l <= Len(text)
      BY <1>1, <1>2, <1>3 DEF n
    <3>2. QED
      BY <3>1, SubText, Zenon
  <2>2. QED
    BY <1>3, <2>1 DEF sub
<1>5. \A i \in 1 .. k : sub[i] = late[i]
  <2>1. \A i \in 1 .. k : i \in 1 .. l /\ a + i \in 1 .. m /\ i \in 1 .. Len(late)
    BY <1>1, <1>2, <1>3
  <2>2. QED
    BY <1>1, <1>2, <1>4, <2>1
<1>6. \A i \in (k + 1) .. l : sub[i] \notin LineEnds
  <2>1. \A i \in (k + 1) .. l : i \in 1 .. l /\ a + i \in (m + 1) .. n
    BY <1>1, <1>2, <1>3
  <2>2. QED
    BY <1>2, <1>4, <2>1
<1>7. SubSeq(text, 1, a) = line
  <2>1. 0 \in Nat /\ 0 + a <= n /\ Len(line) = a /\ 0 + 1 = 1 /\ 0 + a = a
    BY <1>1, <1>2 DEF a
  <2>2. \A i \in 1 .. a : text[0 + i] = line[i]
    <3>1. \A i \in 1 .. a : 0 + i = i /\ i \in 1 .. m
      BY <1>1, <1>2
    <3>2. QED
      BY <1>1, <1>2, <3>1
  <2>3. SubSeq(text, 0 + 1, 0 + a) = line
    BY <1>1, <1>2, <2>1, <2>2, SameSubSeq DEF n
  <2>4. QED
    BY <2>1, <2>3
<1>8. Carries(sub, late, k)
  <2> HIDE DEF k, l, sub
  <2>1. QED
    BY <1>3, <1>4, <1>5, <1>6 DEF Carries
<1>9. QED
  BY <1>4, <1>7, <1>8 DEF a, n

\* What is made of the first m tokens of a message in a text: status is what
\* its first line says, and its headers end at the place ends.
MessageRead(r, status, list, body, closed, text, full, m, ends) ==
    /\ ends \in Nat /\ ends <= Len(full)
    /\ r.err = "NO_ERROR" =>
         /\ r.http.headers \in {NoHeaders, Meaning(list)}
         /\ r.http.body \in {<<>>, IF closed THEN body ELSE <<>>}
         /\ r.http.url = status.http.url /\ r.http.method = status.http.method
         /\ r.http.headers # NoHeaders => m >= ends
         /\ r.http.body # <<>> => m = Len(full)
         /\ m >= ends /\ Len(text) > m => r.http.headers = Meaning(list)
         /\ m = ends /\ Len(text) = m => r.http.headers = NoHeaders
         /\ m = Len(full) /\ Len(text) > m => r.http.body = IF closed THEN body ELSE <<>>
    /\ status.err = "NO_ERROR" /\ SoundList(list) /\ m = Len(full) => r.err = "NO_ERROR"

\* Messages with headers.
IsMessage(full, line, list, body, closed) ==
    /\ line \in Texts /\ \A i \in 1 .. Len(line) : line[i] \notin LineEnds
    /\ Listed(list) /\ Len(list) # 0
    /\ BodyText(body) /\ closed \in BOOLEAN
    /\ full = line \o (CRLF \o RestOf(HeaderBlock(list), body, closed))

HeadersEnd(line, list) == Len(line) + (Len(HeaderBlock(list)) + 4)

LEMMA MessageIsRead ==
  ASSUME NEW full, NEW line, NEW list, NEW body, NEW closed,
         IsMessage(full, line, list, body, closed),
         NEW text, NEW m, Carries(text, full, m)
  PROVE  MessageRead(ParseHttp(text), ParseStatusLine(line, EmptyHttp),
                     list, body, closed, text, full, m, HeadersEnd(line, list))
<1> DEFINE block == HeaderBlock(list)
           rest == RestOf(block, body, closed)
           late == CRLF \o rest
           a == Len(line)
           n == Len(text)
           c == Len(block) + 4
           ends == HeadersEnd(line, list)
           status == ParseStatusLine(line, EmptyHttp)
           r == ParseHttp(text)
           end == Find(text, CRLF, 1)
           given == SubSeq(text, end, n)
<1>1. /\ line \in Texts /\ \A i \in 1 .. Len(line) : line[i] \notin LineEnds
      /\ Listed(list) /\ Len(list) # 0
      /\ BodyText(body) /\ closed \in BOOLEAN
      /\ full = line \o late
  BY DEF IsMessage
<1>2. block \in Texts /\ Len(block) \in Nat
  <2>1. PICK b : Blocks(b, list) /\ block = b[Len(list)]
    BY <1>1, BlockIs
  <2>2. Len(list) \in 0 .. Len(list)
    BY <1>1, LinesAreTexts
  <2>3. block \in Texts
    BY <2>1, <2>2 DEF Blocks
  <2>4. QED
    BY <2>3, LenProperties DEF Texts
<1>0. ends = a + c
  BY DEF HeadersEnd
<1> HIDE DEF block
<1>3. RestHas(rest, block, body, closed)
  BY <1>1, <1>2, RestIs DEF BodyText
<1> HIDE DEF rest
<1>4. rest \in Texts /\ Len(rest) \in Nat /\ c - 2 <= Len(rest)
  <2>1. rest \in Texts /\ Len(body) \in Nat
        /\ Len(rest) = Len(block) + (2 + (Len(body) + (IF closed THEN 4 ELSE 0)))
    BY <1>3 DEF RestHas
  <2> DEFINE u == Len(block)
             v == Len(body)
             w == IF closed THEN 4 ELSE 0
             x == Len(rest)
  <2>2. u \in Nat /\ v \in Nat /\ w \in Nat /\ x = u + (2 + (v + w)) /\ c = u + 4
    BY <1>2, <2>1
  <2> HIDE DEF u, v, w, x, c
  <2>3. x \in Nat /\ c - 2 <= x
    BY <2>2
  <2>4. QED
    BY <2>1, <2>3 DEF x
<1>5. late \in Texts /\ Len(late) = 2 + Len(rest) /\ LineEnd(late, 1)
  <2>1. CRLF \in Texts /\ Len(CRLF) = 2 /\ CRLF[1] = "CR" /\ CRLF[2] = "LF"
    BY Delimiters
  <2>2. /\ late \in Texts /\ Len(late) = Len(CRLF) + Len(rest)
        /\ \A i \in 1 .. Len(CRLF) : late[i] = CRLF[i]
    BY <1>4, <2>1, Concatenated
  <2>3. 1 \in 1 .. 2 /\ 2 \in 1 .. 2 /\ 1 + 1 = 2
    OBVIOUS
  <2> HIDE DEF late
  <2>4. QED
    BY <2>1, <2>2, <2>3 DEF LineEnd
<1> HIDE DEF late
<1>6. /\ full \in Texts /\ a \in Nat /\ Len(full) = a + Len(late)
      /\ \A i \in 1 .. a : full[i] = line[i]
      /\ \A i \in 1 .. Len(late) : full[a + i] = late[i]
  BY <1>1, <1>5, Concatenated
<1>7. n \in Nat /\ m \in Nat /\ m <= n /\ m <= Len(full) /\ text \in Texts
  BY LenProperties DEF Carries, Texts
<1>8. LineEnd(full, a + 1) /\ \A i \in 1 .. a : ~LineEnd(full, i)
  <2>1. 1 \in 1 .. Len(late) /\ 1 + 1 \in 1 .. Len(late) /\ (a + 1) + 1 = a + (1 + 1)
    BY <1>4, <1>5, <1>6
  <2>2. LineEnd(full, a + 1)
    BY <1>5, <1>6, <2>1 DEF LineEnd
  <2>3. \A i \in 1 .. a : full[i] \notin LineEnds
    BY <1>1, <1>6
  <2>4. QED
    BY <2>2, <2>3 DEF LineEnd, LineEnds
<1>9. \A i \in Nat \ {0} : Occurs(text, CRLF, i) <=> i + 1 <= m /\ LineEnd(full, i)
  BY LinesHeld
<1> HIDE DEF ends
<1>10. c \in Nat /\ ends \in Nat /\ ends <= Len(full) /\ c >= 4 /\ Len(full) = a + (2 + Len(rest))
  BY <1>0, <1>2, <1>4, <1>5, <1>6
<1>11. r = IF end = 0 THEN Result("MALFORMED_HTTP", EmptyHttp)
           ELSE LET s == ParseStatusLine(SubSeq(text, 1, end - 1), EmptyHttp)
                IN  IF s.err # "NO_ERROR" THEN s ELSE ParseRest(given, s.http)
  BY Zenon DEF ParseHttp
<1> HIDE DEF a, n, c, status, r, end, ends
<1>12. CASE ~(m >= a + 2)
  <2>1. \A i \in Nat : i >= 1 => ~Occurs(text, CRLF, i)
    <3>1. ASSUME NEW i \in Nat, i >= 1
          PROVE  ~Occurs(text, CRLF, i)
      <4>1. i \in Nat \ {0} /\ (i + 1 <= m => i \in 1 .. a)
        BY <1>6, <1>7, <1>12, <3>1
      <4>2. QED
        BY <1>8, <1>9, <4>1
    <3>2. QED
      BY <3>1
  <2>2. end = 0
    <3>1. 1 \in Nat \ {0}
      OBVIOUS
    <3>2. QED
      BY <1>7, <2>1, <3>1, Delimiters, FoundNowhere DEF end
  <2>3. r = Result("MALFORMED_HTTP", EmptyHttp)
    BY <1>11, <2>2
  <2>4. r.err # "NO_ERROR"
    BY <2>3 DEF Result
  <2>5. m # Len(full)
    BY <1>4, <1>6, <1>7, <1>10, <1>12
  <2>6. MessageRead(r, status, list, body, closed, text, full, m, ends)
    BY <1>10, <2>4, <2>5 DEF MessageRead
  <2>7. QED
    BY <2>6 DEF r, status, ends
<1>13. CASE m >= a + 2
  <2>1. end = a + 1
    <3> DEFINE q == a + 1
    <3>1. q \in Nat /\ q \in Nat \ {0} /\ q >= 1 /\ q + 1 <= m /\ 1 \in Nat \ {0} /\ q - 1 = a
      BY <1>6, <1>7, <1>13
    <3>2. Occurs(text, CRLF, q)
      BY <1>8, <1>9, <3>1
    <3>3. \A i \in 1 .. (q - 1) : ~Occurs(text, CRLF, i)
      <4>1. \A i \in 1 .. (q - 1) : i \in 1 .. a /\ i \in Nat \ {0}
        BY <3>1
      <4>2. QED
        BY <1>8, <1>9, <4>1
    <3> HIDE DEF q
    <3>4. Find(text, CRLF, 1) = q
      BY <1>7, <3>1, <3>2, <3>3, Delimiters, FoundAt
    <3>5. QED
      BY <3>4 DEF end, q
  <2> DEFINE k == m - a
             part == SubSeq(text, a + 1, n)
  <2>2. Carries(part, late, k) /\ Len(part) = n - a /\ SubSeq(text, 1, a) = line
    <3>1. m >= Len(line) /\ Carries(text, line \o late, m)
      BY <1>1, <1>6, <1>7, <1>13 DEF a
    <3>2. QED
      BY <1>1, <1>5, <3>1, RestHeld DEF a, n
  <2>3. end # 0 /\ end - 1 = a
    BY <1>6, <2>1
  <2>4. r = IF status.err # "NO_ERROR" THEN status ELSE ParseRest(part, status.http)
    <3>1. ParseStatusLine(SubSeq(text, 1, end - 1), EmptyHttp) = status
      BY <2>2, <2>3 DEF status
    <3>2. given = part
      BY <2>1
    <3>3. QED
      BY <1>11, <2>3, <3>1, <3>2, Zenon
  <2>5. CASE status.err # "NO_ERROR"
    <3>1. r.err # "NO_ERROR"
      BY <2>4, <2>5
    <3>2. MessageRead(r, status, list, body, closed, text, full, m, ends)
      BY <1>10, <2>5, <3>1 DEF MessageRead
    <3>3. QED
      BY <3>2 DEF r, status, ends
  <2>6. CASE status.err = "NO_ERROR"
    <3>1. r = ParseRest(part, status.http)
      BY <2>4, <2>6
    <3>2. Started(status.http)
      BY FirstLineKeeps DEF status
    <3>3. k >= 2 /\ k \in Nat
      BY <1>6, <1>7, <1>13
    <3>4. rest = RestOf(HeaderBlock(list), body, closed) /\ Carries(part, CRLF \o rest, k)
      BY <2>2 DEF rest, block, late
    <3> HIDE DEF part, k
    <3>5. RestRead(r, status.http, list, body, closed, part, rest, k)
      BY <1>1, <3>1, <3>2, <3>3, <3>4, RestIsRead
    <3>6. /\ (k >= c <=> m >= ends) /\ (k = 2 + Len(rest) <=> m = Len(full))
          /\ (Len(part) > k <=> n > m)
          /\ (k = c /\ Len(part) = k <=> m = ends /\ n = m)
      <4>1. k = m - a /\ Len(part) = n - a /\ ends = a + c
        BY <1>0, <2>2 DEF k, part
      <4> DEFINE x == Len(rest)
                 y == Len(full)
                 z == Len(part)
      <4>2. x \in Nat /\ y = a + (2 + x) /\ z = n - a /\ a \in Nat /\ c \in Nat /\ n \in Nat /\ m \in Nat
        BY <1>4, <1>6, <1>7, <1>10, <4>1
      <4> HIDE DEF x, y, z
      <4>3. /\ (k >= c <=> m >= ends) /\ (k = 2 + x <=> m = y) /\ (z > k <=> n > m)
            /\ (k = c /\ z = k <=> m = ends /\ n = m)
        BY <4>1, <4>2
      <4>4. QED
        BY <4>3 DEF x, y, z
    <3> DEFINE P == k >= c
               Q == k = 2 + Len(rest)
               R == Len(part) > k
               E == k = c /\ Len(part) = k
               stops == IF closed THEN body ELSE <<>>
    <3>7. /\ r.err = "NO_ERROR" =>
               /\ r.http.headers \in {NoHeaders, Meaning(list)}
               /\ r.http.body \in {<<>>, stops}
               /\ r.http.url = status.http.url /\ r.http.method = status.http.method
               /\ r.http.headers # NoHeaders => P
               /\ r.http.body # <<>> => Q
               /\ P /\ R => r.http.headers = Meaning(list)
               /\ E => r.http.headers = NoHeaders
               /\ Q /\ R => r.http.body = stops
          /\ SoundList(list) => r.err = "NO_ERROR"
      BY <3>5 DEF RestRead, c, block
    <3>8. /\ (P <=> m >= ends) /\ (Q <=> m = Len(full)) /\ (R <=> Len(text) > m)
          /\ (E <=> m = ends /\ Len(text) = m)
      BY <3>6 DEF n
    <3> HIDE DEF P, Q, R, E
    <3>9. MessageRead(r, status, list, body, closed, text, full, m, ends)
      BY <1>10, <3>7, <3>8 DEF MessageRead
    <3>10. QED
      BY <3>9 DEF r, status, ends
  <2>7. QED
    BY <2>5, <2>6
<1>14. QED
  BY <1>12, <1>13

-----------------------------------------------------------------------------
(* The messages of requests *)

LEMMA StringsAreTexts ==
  Seq(STRING) \subseteq Texts
<1>1. STRING \subseteq Token
  BY DEF Token
<1>2. QED
  BY <1>1, SeqMonotonic DEF Texts

LEMMA HeadersAreListed ==
  ASSUME NEW list, IsHeaderList(list)
  PROVE  Listed(list)
<1>1. list \in Seq(Seq(STRING) \X Seq(STRING)) /\ \A n \in DOMAIN list : IsHeader(list[n])
  BY DEF IsHeaderList
<1>2. Seq(STRING) \X Seq(STRING) \subseteq Texts \X Texts
  <2> DEFINE S == Seq(STRING)
  <2>1. S \subseteq Texts
    BY StringsAreTexts
  <2> HIDE DEF S
  <2>2. S \X S \subseteq Texts \X Texts
    BY <2>1
  <2>3. QED
    BY <2>2 DEF S
<1>3. list \in Seq(Texts \X Texts)
  BY <1>1, <1>2, SeqMonotonic
<1>4. DOMAIN list = 1 .. Len(list)
  BY <1>3, LenProperties
<1>5. ASSUME NEW n \in 1 .. Len(list)
      PROVE  Plain(list[n])
  <2>1. IsHeader(list[n])
    BY <1>1, <1>4
  <2>2. list[n] \in Texts \X Texts
    BY <1>3, ElementOfSeq
  <2>3. list[n][1] \in Texts /\ list[n][2] \in Texts
    BY <2>2
  <2>4. DOMAIN list[n][1] = 1 .. Len(list[n][1]) /\ DOMAIN list[n][2] = 1 .. Len(list[n][2])
    BY <2>3, LenProperties DEF Texts
  <2>5. QED
    BY <2>1, <2>4 DEF IsHeader, IsLine, Plain
<1>6. QED
  BY <1>3, <1>5 DEF Listed

LEMMA LinesArePlain ==
  ASSUME NEW line, IsLine(line)
  PROVE  line \in Texts /\ \A i \in 1 .. Len(line) : line[i] \notin LineEnds
<1>1. line \in Texts
  BY StringsAreTexts DEF IsLine
<1>2. DOMAIN line = 1 .. Len(line)
  BY <1>1, LenProperties DEF Texts
<1>3. QED
  BY <1>1, <1>2 DEF IsLine

LEMMA BodiesAreTexts ==
  ASSUME NEW body, IsBody(body)
  PROVE  BodyText(body)
<1>1. body \in Texts
  BY StringsAreTexts DEF IsBody
<1>2. (body \o CRLF) \o CRLF = body \o EmptyLine
  BY <1>1, Delimiters, Associative DEF EmptyLine
<1>3. Find((body \o CRLF) \o CRLF, EmptyLine, 1) = Len(body) + 1
  BY Zenon DEF IsBody, EmptyLine
<1>4. QED
  BY <1>1, <1>2, <1>3 DEF BodyText

LEMMA BlockIsText ==
  ASSUME NEW list, Listed(list)
  PROVE  HeaderBlock(list) \in Texts
<1>1. PICK b : Blocks(b, list) /\ HeaderBlock(list) = b[Len(list)]
  BY BlockIs
<1>2. Len(list) \in 0 .. Len(list)
  BY LinesAreTexts
<1>3. QED
  BY <1>1, <1>2 DEF Blocks

InOrder(line, block, body, tail) ==
    ((((line \o CRLF) \o block) \o CRLF) \o body) \o tail
      = line \o (CRLF \o (block \o (CRLF \o (body \o tail))))

LEMMA TextsInOrder ==
  ASSUME NEW line \in Texts, NEW block \in Texts, NEW body \in Texts, NEW tail \in Texts
  PROVE  InOrder(line, block, body, tail)
<1> DEFINE c == CRLF
<1>1. c \in Texts
  BY Delimiters
<1> HIDE DEF c
<1> DEFINE x == line \o c
           y == x \o block
           z == y \o c
           u == body \o tail
           v == c \o u
           w == block \o v
<1>2. x \in Texts /\ u \in Texts
  BY <1>1, Concatenated
<1>3. x \o w = line \o (c \o w) /\ z \o u = (z \o body) \o tail
  <2> HIDE DEF w, z
  <2>1. w \in Texts /\ z \in Texts
    <3>1. y \in Texts
      <4> HIDE DEF x
      <4>1. QED
        BY <1>2, Concatenated
    <3>2. v \in Texts
      <4> HIDE DEF u
      <4>1. QED
        BY <1>1, <1>2, Concatenated
    <3> HIDE DEF y, v
    <3>3. QED
      BY <1>1, <3>1, <3>2, Concatenated DEF w, z
  <2>2. (line \o c) \o w = line \o (c \o w)
    <3>1. Associate(line, c, w)
      BY <1>1, <2>1, AssociateAll
    <3>2. QED
      BY <3>1, Zenon DEF Associate
  <2>3. (z \o body) \o tail = z \o (body \o tail)
    <3>1. Associate(z, body, tail)
      BY <2>1, AssociateAll
    <3>2. QED
      BY <3>1, Zenon DEF Associate
  <2>4. QED
    BY <2>2, <2>3, Zenon
<1>4. y \o v = x \o w
  <2> HIDE DEF x, v
  <2>1. v \in Texts
    <3> HIDE DEF u
    <3>1. QED
      BY <1>1, <1>2, Concatenated DEF v
  <2>2. QED
    <3>1. Associate(x, block, v)
      BY <1>2, <2>1, AssociateAll
    <3>2. QED
      BY <3>1, Zenon DEF Associate
<1>5. z \o u = y \o v
  <2> HIDE DEF y, u
  <2>1. y \in Texts
    <3> HIDE DEF x
    <3>1. QED
      BY <1>2, Concatenated DEF y
  <2>2. QED
    <3>1. Associate(y, c, u)
      BY <1>1, <1>2, <2>1, AssociateAll
    <3>2. QED
      BY <3>1, Zenon DEF Associate
<1> DEFINE left == (z \o body) \o tail
           right == line \o (c \o w)
<1>6. left = right
  BY <1>3, <1>4, <1>5
<1>7. QED
  BY <1>6 DEF c, InOrder

LEMMA RequestIsMessage ==
  ASSUME NEW line, IsLine(line), NEW list, IsHeaderList(list), Len(list) # 0,
         NEW body, IsBody(body), NEW closed \in BOOLEAN
  PROVE  IsMessage(MessageText(line, list, body, closed), line, list, body, closed)
<1> DEFINE tail == IF closed THEN EmptyLine ELSE <<>>
           block == HeaderBlock(list)
<1>1. line \in Texts /\ \A i \in 1 .. Len(line) : line[i] \notin LineEnds
  BY LinesArePlain
<1>2. Listed(list) /\ BodyText(body) /\ body \in Texts
  BY HeadersAreListed, BodiesAreTexts DEF BodyText
<1>3. block \in Texts
  BY <1>2, BlockIsText
<1>4. tail \in Texts
  BY Delimiters, EmptySeq DEF Texts
<1>5. MessageText(line, list, body, closed) = ((((line \o CRLF) \o block) \o CRLF) \o body) \o tail
  BY Zenon DEF MessageText, EmptyLine
<1>6. RestOf(block, body, closed) = block \o (CRLF \o (body \o tail))
  BY Zenon DEF RestOf
<1> HIDE DEF tail, block
<1>7. InOrder(line, block, body, tail)
  BY <1>1, <1>2, <1>3, <1>4, TextsInOrder
<1>8. MessageText(line, list, body, closed) = line \o (CRLF \o RestOf(block, body, closed))
  BY <1>5, <1>6, <1>7, Zenon DEF InOrder
<1>9. QED
  BY <1>1, <1>2, <1>8 DEF IsMessage, block

LEMMA FirstLineIsSound ==
  ASSUME NEW line \in Texts, Len(line) >= 4, {i \in DOMAIN line : line[i] = "SP"} = {2, 4},
         line[1] \in Methods \/ line[1] = "HTTP/1.1", NEW http
  PROVE  ParseStatusLine(line, http).err = "NO_ERROR"
<1> DEFINE spaces == {i \in DOMAIN line : line[i] = "SP"}
           first == Find(line, <<"SP">>, 1)
           second == Find(line, <<"SP">>, first + 1)
           front == SubSeq(line, 1, first - 1)
           url == SubSeq(line, first + 1, second - 1)
           asked == [http EXCEPT !.method = front[1], !.url = url]
           last == SubSeq(line, second + 1, Len(line))
           s == ParseStatusLine(line, http)
<1>1. Cardinality(spaces) = 2
  <2> DEFINE one == {2}
             two == one \union {4}
  <2>1. IsFiniteSet(one) /\ Cardinality(one) = 1
    BY FS_Singleton
  <2>2. spaces = two /\ 4 \notin one
    OBVIOUS
  <2> HIDE DEF one
  <2>3. Cardinality(two) = IF 4 \in one THEN Cardinality(one) ELSE Cardinality(one) + 1
    BY <2>1, FS_AddElement
  <2> HIDE DEF two, spaces
  <2>4. QED
    BY <2>1, <2>2, <2>3
<1>2. /\ Len(line) \in Nat
      /\ \A i \in 1 .. Len(line) : line[i] = "SP" <=> i = 2 \/ i = 4
  <2>1. DOMAIN line = 1 .. Len(line) /\ Len(line) \in Nat
    BY LenProperties DEF Texts
  <2>2. \A i : i \in spaces <=> i = 2 \/ i = 4
    OBVIOUS
  <2>3. QED
    BY <2>1, <2>2
<1>3. "SP" \in Token
  BY DEF Token
<1>4. first = 2
  <2> DEFINE w == <<"SP">>
  <2>1. w \in Texts /\ w # <<>>
    BY <1>3, One
  <2>2. \A i : Occurs(line, w, i) <=> i \in 1 .. Len(line) /\ line[i] = "SP"
    BY <1>3, OccursToken
  <2> HIDE DEF w
  <2>3. /\ 2 \in 1 .. Len(line) /\ 1 \in 1 .. Len(line)
        /\ 2 - 1 = 1 /\ 1 .. 1 = {1} /\ 1 \in Nat \ {0} /\ 2 \in Nat /\ 2 >= 1
    BY <1>2
  <2>4. Occurs(line, w, 2) /\ \A i \in 1 .. (2 - 1) : ~Occurs(line, w, i)
    BY <1>2, <2>2, <2>3
  <2>5. Find(line, w, 1) = 2
    BY <2>1, <2>3, <2>4, FoundAt
  <2>6. QED
    BY <2>5 DEF w
<1>5. Len(front) = 1 /\ front[1] = line[1] /\ front # <<>>
  <2>1. 0 \in Nat /\ 1 \in Nat /\ 0 + 1 <= Len(line) /\ 0 + 1 = 1 /\ 2 - 1 = 1 /\ 1 \in 1 .. 1
    BY <1>2
  <2>2. /\ SubSeq(line, 0 + 1, 0 + 1) \in Texts /\ Len(SubSeq(line, 0 + 1, 0 + 1)) = 1
        /\ \A i \in 1 .. 1 : SubSeq(line, 0 + 1, 0 + 1)[i] = line[0 + i]
    BY <2>1, SubText
  <2>3. front = SubSeq(line, 0 + 1, 0 + 1)
    BY <1>4, <2>1
  <2> HIDE DEF front
  <2>4. front \in Texts /\ Len(front) = 1 /\ front[1] = line[1]
    BY <2>1, <2>2, <2>3
  <2>5. Len(<<>>) = 0
    BY EmptySeq
  <2>6. QED
    BY <2>4, <2>5
<1>6. s = IF Cardinality(spaces) # 2 THEN Result("MALFORMED_STATUS_LINE", http)
          ELSE IF StartsWith(front, Protocols \union BadProtocols) THEN ParseProtocol(front, http)
          ELSE IF ~StartsWith(front, Methods) THEN Result("INVALID_METHOD", http)
          ELSE Result("NO_ERROR", ParseProtocol(last, asked).http)
  BY Zenon DEF ParseStatusLine
<1>7. \A word \in Methods : word \notin Protocols \union BadProtocols
  BY DEF Methods, Protocols, BadProtocols
<1>8. "HTTP/1.1" \in Protocols
  BY DEF Protocols
<1> HIDE DEF spaces, first, second, front, url, asked, last, s
<1>9. CASE line[1] \in Methods
  <2>1. ~StartsWith(front, Protocols \union BadProtocols) /\ StartsWith(front, Methods)
    BY <1>5, <1>7, <1>9 DEF StartsWith
  <2>2. s = Result("NO_ERROR", ParseProtocol(last, asked).http)
    BY <1>1, <1>6, <2>1
  <2>3. QED
    BY <2>2 DEF Result, s
<1>10. CASE line[1] = "HTTP/1.1"
  <2>1. StartsWith(front, Protocols \union BadProtocols)
    BY <1>5, <1>8, <1>10 DEF StartsWith
  <2>2. s = ParseProtocol(front, http)
    BY <1>1, <1>6, <2>1
  <2>3. s = Result("NO_ERROR", [http EXCEPT !.protocol = front[1]])
    BY <1>5, <1>8, <1>10, <2>2, Zenon DEF ParseProtocol
  <2>4. QED
    BY <2>3 DEF Result, s
<1>11. QED
  BY <1>9, <1>10

LEMMA SoundLinesAreAccepted ==
  ASSUME NEW line, IsLine(line), SoundLine(line), NEW http
  PROVE  ParseStatusLine(line, http).err = "NO_ERROR"
<1>1. line \in Texts
  BY LinesArePlain
<1>2. Len(line) = 5 /\ line[1] \in Methods /\ {i \in DOMAIN line : line[i] = "SP"} = {2, 4}
  BY DEF SoundLine
<1>3. Len(line) >= 4
  BY <1>2
<1>4. QED
  BY <1>1, <1>2, <1>3, FirstLineIsSound, Zenon

\* The first line of a response.
ResponseLine(status) == <<"HTTP/1.1", "SP", "200", "SP">> \o status

LEMMA ResponseLineIs ==
  ASSUME NEW status, IsLine(status)
  PROVE  /\ ResponseLine(status) \in Texts
         /\ \A i \in 1 .. Len(ResponseLine(status)) : ResponseLine(status)[i] \notin LineEnds
         /\ OneWord(status) => \A http : ParseStatusLine(ResponseLine(status), http).err = "NO_ERROR"
<1> DEFINE four == <<"HTTP/1.1", "SP", "200", "SP">>
           line == four \o status
           n == Len(status)
<1>1. /\ four \in Texts /\ Len(four) = 4
      /\ four[1] = "HTTP/1.1" /\ four[2] = "SP" /\ four[3] = "200" /\ four[4] = "SP"
  <2>1. "HTTP/1.1" \in Token /\ "SP" \in Token /\ "200" \in Token
    BY DEF Token
  <2>2. QED
    BY <2>1 DEF Texts
<1>2. /\ status \in Texts /\ n \in Nat /\ DOMAIN status = 1 .. n
      /\ \A i \in 1 .. n : status[i] \notin LineEnds
  <2>1. status \in Texts /\ \A i \in 1 .. n : status[i] \notin LineEnds
    BY LinesArePlain
  <2>2. QED
    BY <2>1, LenProperties DEF Texts
<1> HIDE DEF four
<1>3. /\ line \in Texts /\ Len(line) = 4 + n
      /\ \A i \in 1 .. 4 : line[i] = four[i]
      /\ \A i \in 1 .. n : line[4 + i] = status[i]
  <2>1. /\ four \o status \in Texts /\ Len(four \o status) = Len(four) + n
        /\ \A i \in 1 .. Len(four) : (four \o status)[i] = four[i]
        /\ \A i \in 1 .. n : (four \o status)[Len(four) + i] = status[i]
    BY <1>1, <1>2, Concatenated
  <2>2. QED
    BY <1>1, <2>1
<1> HIDE DEF line
<1>4. line[1] = "HTTP/1.1" /\ line[2] = "SP" /\ line[3] = "200" /\ line[4] = "SP"
  <2>1. 1 \in 1 .. 4 /\ 2 \in 1 .. 4 /\ 3 \in 1 .. 4 /\ 4 \in 1 .. 4
    OBVIOUS
  <2>2. QED
    BY <1>1, <1>3, <2>1
<1> HIDE DEF n
<1>5. \A i \in 1 .. (4 + n) : \/ i \in {1, 2, 3, 4}
                             \/ \E j \in 1 .. n : i = 4 + j /\ line[i] = status[j]
  <2>1. ASSUME NEW i \in 1 .. (4 + n), i \notin {1, 2, 3, 4}
        PROVE  i - 4 \in 1 .. n /\ 4 + (i - 4) = i
    BY <1>2, <2>1
  <2>2. ASSUME NEW i \in 1 .. (4 + n), i \notin {1, 2, 3, 4}
        PROVE  \E j \in 1 .. n : i = 4 + j /\ line[i] = status[j]
    BY <1>3, <2>1, <2>2
  <2>3. QED
    BY <2>2
<1>6. \A i \in 1 .. Len(line) : line[i] \notin LineEnds
  BY <1>2, <1>3, <1>4, <1>5 DEF LineEnds
<1>7. ASSUME OneWord(status)
      PROVE  {i \in DOMAIN line : line[i] = "SP"} = {2, 4}
  <2>1. DOMAIN line = 1 .. (4 + n)
    BY <1>3, LenProperties DEF Texts
  <2>2. \A j \in 1 .. n : status[j] # "SP"
    BY <1>2, <1>7 DEF OneWord
  <2>3. 2 \in 1 .. (4 + n) /\ 4 \in 1 .. (4 + n)
    BY <1>2
  <2>4. QED
    BY <1>4, <1>5, <2>1, <2>2, <2>3
<1>8. line = ResponseLine(status)
  BY DEF line, four, ResponseLine
<1>9. ASSUME OneWord(status)
      PROVE  \A http : ParseStatusLine(line, http).err = "NO_ERROR"
  <2>1. Len(line) >= 4
    BY <1>2, <1>3
  <2>2. QED
    BY <1>3, <1>4, <1>7, <1>9, <2>1, FirstLineIsSound
<1>10. QED
  BY <1>3, <1>6, <1>8, <1>9

-----------------------------------------------------------------------------
(* The names and values of headers, written once more *)

\* A text without spaces around it.
Tight(text) ==
    /\ text \in Texts
    /\ Len(text) # 0 => text[1] # "SP" /\ text[Len(text)] # "SP"

\* Every token of one text is in the other.
From(short, text) ==
    \A i \in 1 .. Len(short) : \E j \in 1 .. Len(text) : short[i] = text[j]

LEMMA TrimmedIsTight ==
  ASSUME NEW text \in Texts
  PROVE  Tight(Trimmed(text)) /\ From(Trimmed(text), text)
<1> DEFINE chars == {"SP"}
           t == TrimAny(text, chars)
<1>1. Trimmed(text) = t
  BY DEF Trimmed
<1> HIDE DEF t
<1>2. CASE t = <<>>
  <2>1. t \in Texts /\ Len(t) = 0
    BY <1>2, EmptySeq DEF Texts
  <2>2. QED
    BY <1>1, <2>1 DEF Tight, From
<1>3. ASSUME NEW first, NEW last, TrimsTo(text, chars, first, last)
      PROVE  Tight(t) /\ From(t, text)
  <2> DEFINE n == Len(text)
             a == first - 1
             l == last - a
  <2>1. /\ first \in 1 .. n /\ last \in first .. n
        /\ text[first] # "SP" /\ text[last] # "SP"
        /\ t = SubSeq(text, first, last)
    BY <1>3 DEF TrimsTo, t
  <2>2. n \in Nat
    BY LenProperties DEF Texts
  <2> HIDE DEF n
  <2>3. a \in Nat /\ l \in Nat /\ l >= 1 /\ a + l <= n /\ a + 1 = first /\ a + l = last
        /\ 1 \in 1 .. l /\ l \in 1 .. l /\ \A i \in 1 .. l : a + i \in 1 .. n
    BY <2>1, <2>2
  <2> HIDE DEF a, l
  <2>4. /\ SubSeq(text, a + 1, a + l) \in Texts /\ Len(SubSeq(text, a + 1, a + l)) = l
        /\ \A i \in 1 .. l : SubSeq(text, a + 1, a + l)[i] = text[a + i]
    BY <2>3, SubText DEF n
  <2>5. t \in Texts /\ Len(t) = l /\ \A i \in 1 .. l : t[i] = text[a + i]
    BY <2>1, <2>3, <2>4
  <2>6. t[1] # "SP" /\ t[l] # "SP"
    BY <2>1, <2>3, <2>5
  <2>7. Tight(t)
    BY <2>5, <2>6 DEF Tight
  <2>8. From(t, text)
    BY <2>3, <2>5 DEF From, n
  <2>9. QED
    BY <2>7, <2>8
<1>4. QED
  BY <1>1, <1>2, <1>3, TrimIs DEF t

\* Trimming leaves such a text alone, with or without a space in front.
LEMMA TightStays ==
  ASSUME NEW text, Tight(text), NEW s \in Texts, NEW a \in {0, 1}, Len(s) = a + Len(text),
         \A i \in 1 .. a : s[i] = "SP",
         \A i \in 1 .. Len(text) : s[a + i] = text[i]
  PROVE  Trimmed(s) = text
<1> DEFINE chars == {"SP"}
           n == Len(text)
           t == TrimAny(s, chars)
<1>1. text \in Texts /\ n \in Nat /\ (n # 0 => text[1] # "SP" /\ text[n] # "SP")
  <2>1. text \in Texts /\ (n # 0 => text[1] # "SP" /\ text[n] # "SP")
    BY DEF Tight
  <2>2. QED
    BY <2>1, LenProperties DEF Texts
<1>2. Trimmed(s) = t
  BY DEF Trimmed
<1>3. Len(s) = a + n /\ (\A i \in 1 .. a : s[i] = "SP") /\ \A i \in 1 .. n : s[a + i] = text[i]
  OBVIOUS
<1>4. a \in Nat
  OBVIOUS
<1> HIDE DEF t, n
<1>5. CASE t = <<>> /\ \A i \in 1 .. Len(s) : s[i] \in chars
  <2>1. n = 0
    <3>1. n # 0 => a + 1 \in 1 .. Len(s) /\ 1 \in 1 .. n
      BY <1>1, <1>3, <1>4
    <3>2. n # 0 => s[a + 1] = text[1] /\ s[a + 1] = "SP"
      BY <1>3, <1>5, <3>1
    <3>3. QED
      BY <1>1, <3>2
  <2>2. text = <<>>
    BY <1>1, <2>1, EmptySeq DEF n, Texts
  <2>3. QED
    BY <1>2, <1>5, <2>2
<1>6. ASSUME NEW first, NEW last, TrimsTo(s, chars, first, last)
      PROVE  t = text
  <2>1. /\ first \in 1 .. Len(s) /\ last \in first .. Len(s)
        /\ s[first] # "SP" /\ s[last] # "SP"
        /\ \A i \in 1 .. (first - 1) : s[i] = "SP"
        /\ \A i \in (last + 1) .. Len(s) : s[i] = "SP"
        /\ t = SubSeq(s, first, last)
    BY <1>6 DEF TrimsTo, t
  <2>2. first > a
    <3>1. ~(first > a) => first \in 1 .. a
      BY <1>3, <1>4, <2>1
    <3>2. QED
      BY <1>3, <2>1, <3>1
  <2>3. n # 0
    BY <1>1, <1>3, <1>4, <2>1, <2>2
  <2>4. s[a + 1] # "SP" /\ s[a + n] # "SP"
    <3>1. 1 \in 1 .. n /\ n \in 1 .. n
      BY <1>1, <2>3
    <3>2. QED
      BY <1>1, <1>3, <2>3, <3>1
  <2>5. first = a + 1
    <3>1. first # a + 1 => a + 1 \in 1 .. (first - 1)
      BY <1>1, <1>3, <1>4, <2>1, <2>2
    <3>2. QED
      BY <2>1, <2>4, <3>1
  <2>6. last = a + n
    <3>1. last # a + n => a + n \in (last + 1) .. Len(s)
      BY <1>1, <1>3, <1>4, <2>1, <2>5
    <3>2. QED
      BY <2>1, <2>4, <3>1
  <2>7. SubSeq(s, a + 1, a + n) = text
    <3>1. a + n <= Len(s) /\ Len(text) = n
      BY <1>1, <1>3, <1>4 DEF n
    <3>2. QED
      BY <1>1, <1>3, <1>4, <3>1, SameSubSeq
  <2>8. QED
    BY <2>1, <2>5, <2>6, <2>7
<1>7. QED
  BY <1>2, <1>5, <1>6, TrimIs DEF t

LEMMA TightTrimmed ==
  ASSUME NEW text, Tight(text)
  PROVE  Trimmed(text) = text /\ Trimmed(<<"SP">> \o text) = text
<1>1. text \in Texts /\ Len(text) \in Nat
  BY LenProperties DEF Tight, Texts
<1>2. Trimmed(text) = text
  <2>1. 0 \in {0, 1} /\ Len(text) = 0 + Len(text) /\ (\A i \in 1 .. 0 : text[i] = "SP")
        /\ \A i \in 1 .. Len(text) : text[0 + i] = text[i]
    BY <1>1
  <2>2. QED
    BY <1>1, <2>1, TightStays
<1>3. Trimmed(<<"SP">> \o text) = text
  <2> DEFINE w == <<"SP">>
             s == w \o text
  <2>1. w \in Texts /\ Len(w) = 1 /\ w[1] = "SP"
    BY One DEF Token
  <2> HIDE DEF w
  <2>2. /\ s \in Texts /\ Len(s) = Len(w) + Len(text)
        /\ \A i \in 1 .. Len(w) : s[i] = w[i]
        /\ \A i \in 1 .. Len(text) : s[Len(w) + i] = text[i]
    BY <1>1, <2>1, Concatenated
  <2> HIDE DEF s
  <2>3. /\ Len(s) = 1 + Len(text) /\ 1 \in {0, 1}
        /\ \A i \in 1 .. 1 : s[i] = "SP"
        /\ \A i \in 1 .. Len(text) : s[1 + i] = text[i]
    BY <2>1, <2>2
  <2>4. Trimmed(s) = text
    BY <2>2, <2>3, TightStays
  <2>5. QED
    BY <2>4 DEF s, w
<1>4. QED
  BY <1>2, <1>3

LEMMA Lowered ==
  ASSUME NEW token \in Token
  PROVE  /\ Lower(token) \in Token /\ Lower(Lower(token)) = Lower(token)
         /\ Lower(token) = "SP" <=> token = "SP"
         /\ token \notin LineEnds => Lower(token) \notin LineEnds
         /\ token # "COLON" => Lower(token) # "COLON"
  BY DEF Lower, Token, LineEnds

\* A name as set_header stores it.
LEMMA NamesOnce ==
  ASSUME NEW text, Tight(text)
  PROVE  LET name == HeaderName(text)
         IN  /\ Tight(name) /\ Len(name) = Len(text) /\ HeaderName(name) = name
             /\ \A i \in 1 .. Len(name) : name[i] = Lower(text[i])
<1> DEFINE n == Len(text)
           name == [i \in DOMAIN text |-> Lower(text[i])]
<1>1. text \in Texts /\ n \in Nat /\ DOMAIN text = 1 .. n /\ (n # 0 => text[1] # "SP" /\ text[n] # "SP")
  <2>1. text \in Texts /\ (n # 0 => text[1] # "SP" /\ text[n] # "SP")
    BY DEF Tight
  <2>2. QED
    BY <2>1, LenProperties DEF Texts
<1>2. \A i \in 1 .. n : text[i] \in Token
  BY <1>1, ElementOfSeq DEF Texts
<1> HIDE DEF n
<1>3. DOMAIN name = 1 .. n /\ \A i \in 1 .. n : name[i] = Lower(text[i])
  BY <1>1
<1>4. name \in Texts /\ Len(name) = n
  <2>1. name \in [1 .. n -> Token]
    BY <1>1, <1>2, Lowered
  <2>2. name \in Seq(Token)
    BY <1>1, <2>1, SeqDef
  <2>3. Len(name) = n
    BY <1>1, <1>3, <2>2, LenProperties
  <2>4. QED
    BY <2>2, <2>3 DEF Texts
<1>5. Tight(name)
  <2>1. n # 0 => 1 \in 1 .. n /\ n \in 1 .. n
    BY <1>1
  <2>2. n # 0 => name[1] # "SP" /\ name[n] # "SP"
    BY <1>1, <1>2, <1>3, <2>1, Lowered
  <2>3. QED
    BY <1>4, <2>2 DEF Tight
<1>6. HeaderName(name) = name
  <2>1. HeaderName(name) = [i \in 1 .. n |-> Lower(name[i])]
    BY <1>3 DEF HeaderName
  <2>2. \A i \in 1 .. n : Lower(name[i]) = Lower(text[i])
    BY <1>2, <1>3, Lowered
  <2>3. name = [i \in 1 .. n |-> Lower(text[i])]
    BY <1>1
  <2> HIDE DEF name
  <2>4. QED
    BY <2>1, <2>2, <2>3
<1>7. name = HeaderName(text)
  BY DEF HeaderName
<1> HIDE DEF name
<1>8. QED
  BY <1>3, <1>4, <1>5, <1>6, <1>7 DEF n

\* What headers are once they are stored.
Stored(headers) ==
    \A name \in DOMAIN headers :
       /\ Tight(name) /\ HeaderName(name) = name
       /\ Tight(headers[name])
       /\ \A i \in 1 .. Len(name) : name[i] \notin LineEnds /\ name[i] # "COLON"
       /\ \A i \in 1 .. Len(headers[name]) : headers[name][i] \notin LineEnds

LEMMA MeaningDomain ==
  ASSUME NEW list, Listed(list)
  PROVE  /\ DOMAIN Meaning(list) = {NameAt(list, k) : k \in 1 .. Len(list)}
         /\ \A name \in DOMAIN Meaning(list) :
               \E k \in 1 .. Len(list) :
                  NameAt(list, k) = name /\ Meaning(list)[name] = Trimmed(list[k][2])
<1> DEFINE n == Len(list)
           headers == Meant(list, n)
           S == {NameAt(list, k) : k \in 1 .. n}
           At(name) == LastOf(list, n, name)
<1>1. n \in Nat
  BY LinesAreTexts
<1>2. headers = [name \in S |-> Trimmed(list[At(name)][2])]
  BY DEF Meant
<1>3. DOMAIN headers = S /\ \A name \in S : headers[name] = Trimmed(list[At(name)][2])
  BY <1>2
<1> HIDE DEF headers
<1>4. ASSUME NEW name \in S
      PROVE  At(name) \in 1 .. n /\ NameAt(list, At(name)) = name
  <2>1. PICK h \in 1 .. n : name = NameAt(list, h)
    OBVIOUS
  <2>2. IsLastOf(list, n, name, At(name))
    BY <1>1, <2>1, LastExists
  <2>3. QED
    BY <2>2 DEF IsLastOf
<1> HIDE DEF S, At
<1>5. \A name \in S : \E k \in 1 .. n : NameAt(list, k) = name /\ headers[name] = Trimmed(list[k][2])
  BY <1>3, <1>4
<1>6. Meaning(list) = headers
  BY MeaningIs DEF headers
<1>7. QED
  BY <1>3, <1>5, <1>6 DEF S

LEMMA MeaningIsStored ==
  ASSUME NEW list, Listed(list)
  PROVE  Stored(Meaning(list))
<1> DEFINE headers == Meaning(list)
<1>1. ASSUME NEW name \in DOMAIN headers
      PROVE  /\ Tight(name) /\ HeaderName(name) = name
             /\ Tight(headers[name])
             /\ \A i \in 1 .. Len(name) : name[i] \notin LineEnds /\ name[i] # "COLON"
             /\ \A i \in 1 .. Len(headers[name]) : headers[name][i] \notin LineEnds
  <2>1. PICK k \in 1 .. Len(list) : NameAt(list, k) = name /\ headers[name] = Trimmed(list[k][2])
    BY MeaningDomain
  <2> DEFINE key == Trimmed(list[k][1])
             value == Trimmed(list[k][2])
  <2>2. list[k][1] \in Texts /\ list[k][2] \in Texts /\ Plain(list[k])
    BY LinesAreTexts
  <2>3. Tight(key) /\ From(key, list[k][1]) /\ Tight(value) /\ From(value, list[k][2])
    BY <2>2, TrimmedIsTight
  <2>4. \A i \in 1 .. Len(key) : key[i] \notin LineEnds /\ key[i] # "COLON"
    <3> HIDE DEF key
    <3>1. QED
      BY <2>2, <2>3 DEF From, Plain
  <2>5. \A i \in 1 .. Len(value) : value[i] \notin LineEnds
    <3> HIDE DEF value
    <3>1. QED
      BY <2>2, <2>3 DEF From, Plain
  <2>6. name = HeaderName(key)
    BY <2>1 DEF NameAt
  <2> HIDE DEF key, value
  <2>7. /\ Tight(name) /\ Len(name) = Len(key) /\ HeaderName(name) = name
        /\ \A i \in 1 .. Len(name) : name[i] = Lower(key[i])
    BY <2>3, <2>6, NamesOnce
  <2>8. ASSUME NEW i \in 1 .. Len(name)
        PROVE  name[i] \notin LineEnds /\ name[i] # "COLON"
    <3>1. key[i] \in Token
      <4>1. key \in Seq(Token) /\ i \in 1 .. Len(key)
        BY <2>3, <2>7 DEF Tight, Texts
      <4>2. QED
        BY <4>1, ElementOfSeq
    <3>2. key[i] \notin LineEnds /\ key[i] # "COLON"
      BY <2>4, <2>7
    <3>3. Lower(key[i]) \notin LineEnds /\ Lower(key[i]) # "COLON"
      BY <3>1, <3>2, Lowered
    <3>4. QED
      BY <2>7, <3>3
  <2>9. headers[name] = value
    BY <2>1 DEF value
  <2>10. QED
    BY <2>3, <2>5, <2>7, <2>8, <2>9
<1> HIDE DEF headers
<1>2. Stored(headers)
  BY <1>1 DEF Stored
<1>3. QED
  BY <1>2 DEF headers

LEMMA NamesAreFinite ==
  ASSUME NEW list, Listed(list)
  PROVE  IsFiniteSet(DOMAIN Meaning(list))
<1> DEFINE n == Len(list)
           I == 1 .. n
           S == {NameAt(list, k) : k \in I}
           f == [k \in I |-> NameAt(list, k)]
<1>1. n \in Nat
  BY LinesAreTexts
<1>2. IsFiniteSet(I)
  <2>1. 1 \in Int /\ n \in Int
    BY <1>1
  <2> HIDE DEF n
  <2>2. QED
    BY <2>1, FS_Interval
<1> HIDE DEF I
<1>3. f \in Surjection(I, S)
  <2>1. f \in [I -> S] /\ \A t \in S : \E s \in I : f[s] = t
    BY Zenon
  <2> HIDE DEF f, S
  <2>2. QED
    BY <2>1 DEF Surjection
<1>4. IsFiniteSet(S)
  <2> HIDE DEF f, S
  <2>1. QED
    BY <1>2, <1>3, FS_Surjection
<1>5. QED
  BY <1>4, MeaningDomain DEF I

LEMMA OrdersCover ==
  ASSUME NEW S, IsFiniteSet(S), NEW order \in SetToSeqs(S)
  PROVE  /\ Cardinality(S) \in Nat
         /\ order \in [1 .. Cardinality(S) -> S]
         /\ \A x \in S : \E k \in 1 .. Cardinality(S) : order[k] = x
<1> DEFINE n == Cardinality(S)
           I == 1 .. n
<1>1. n \in Nat
  BY FS_CardinalityType
<1>2. order \in [I -> S] /\ \A i, j \in I : i # j => order[i] # order[j]
  BY DEF SetToSeqs
<1>3. Cardinality(I) = n
  <2>1. 1 \in Int /\ n \in Int /\ (IF 1 > n THEN 0 ELSE n - 1 + 1) = n
    BY <1>1
  <2> HIDE DEF n
  <2>2. Cardinality(1 .. n) = IF 1 > n THEN 0 ELSE n - 1 + 1
    BY <2>1, FS_Interval
  <2>3. QED
    BY <2>1, <2>2
<1> HIDE DEF I
<1>4. order \in Injection(I, S)
  BY <1>2 DEF Injection, IsInjective
<1>5. order \in Surjection(I, S)
  BY <1>3, <1>4, FS_Injection
<1>6. \A x \in S : \E k \in I : order[k] = x
  BY <1>5 DEF Surjection
<1>7. QED
  BY <1>1, <1>2, <1>6 DEF I

\* The n first headers of a list are those the program writes.
WrittenAs(v, headers, order, n) ==
    \A k \in 1 .. n : v[k] = <<order[k], <<"SP">> \o headers[order[k]]>>

\* An order of all the headers.
Ordered(headers, order, n) ==
    /\ n \in Nat /\ order \in [1 .. n -> DOMAIN headers]
    /\ \A name \in DOMAIN headers : \E k \in 1 .. n : order[k] = name

LEMMA WrittenMeans ==
  ASSUME NEW headers, Stored(headers), headers = [name \in DOMAIN headers |-> headers[name]],
         NEW order, NEW n, Ordered(headers, order, n),
         NEW v, WrittenAs(v, headers, order, n)
  PROVE  Meant(v, n) = headers
<1> DEFINE D == DOMAIN headers
           S == {NameAt(v, k) : k \in 1 .. n}
           Is(name) == Trimmed(v[LastOf(v, n, name)][2])
<1>1. /\ n \in Nat /\ order \in [1 .. n -> D]
      /\ \A name \in D : \E k \in 1 .. n : order[k] = name
  BY DEF Ordered
<1>2. \A k \in 1 .. n : order[k] \in D
  BY <1>1
<1>3. ASSUME NEW k \in 1 .. n
      PROVE  NameAt(v, k) = order[k] /\ Trimmed(v[k][2]) = headers[order[k]]
  <2>1. v[k][1] = order[k] /\ v[k][2] = <<"SP">> \o headers[order[k]]
    BY DEF WrittenAs
  <2>2. Tight(order[k]) /\ HeaderName(order[k]) = order[k] /\ Tight(headers[order[k]])
    BY <1>2 DEF Stored
  <2>3. Trimmed(order[k]) = order[k] /\ Trimmed(<<"SP">> \o headers[order[k]]) = headers[order[k]]
    BY <2>2, TightTrimmed
  <2>4. QED
    BY <2>1, <2>2, <2>3 DEF NameAt
<1>4. S = D
  <2>1. \A k \in 1 .. n : NameAt(v, k) \in D
    BY <1>2, <1>3
  <2>2. \A name \in D : \E k \in 1 .. n : NameAt(v, k) = name
    BY <1>1, <1>3
  <2> DEFINE h(k) == NameAt(v, k)
  <2> HIDE DEF h, D
  <2>3. S = {h(k) : k \in 1 .. n}
    BY DEF h
  <2>4. \A x : x \in {h(k) : k \in 1 .. n} <=> x \in D
    BY <2>1, <2>2 DEF h
  <2> HIDE DEF S
  <2>5. QED
    BY <2>3, <2>4
<1>5. ASSUME NEW name \in S
      PROVE  Is(name) = headers[name]
  <2> DEFINE l == LastOf(v, n, name)
  <2>1. PICK h \in 1 .. n : name = NameAt(v, h)
    OBVIOUS
  <2>2. IsLastOf(v, n, name, l)
    BY <1>1, <2>1, LastExists
  <2> HIDE DEF l
  <2>3. l \in 1 .. n /\ NameAt(v, l) = name
    BY <2>2 DEF IsLastOf
  <2>4. Trimmed(v[l][2]) = headers[name]
    BY <1>3, <2>3
  <2>5. QED
    BY <2>4 DEF l
<1>6. Meant(v, n) = [name \in S |-> Is(name)]
  BY DEF Meant
<1> HIDE DEF S, Is, D
<1>7. [name \in S |-> Is(name)] = [name \in S |-> headers[name]]
  BY <1>5
<1>8. headers = [name \in D |-> headers[name]]
  BY DEF D
<1>9. QED
  BY <1>4, <1>6, <1>7, <1>8

\* As a list, what the program writes is one a peer may write.
LEMMA WrittenIsListed ==
  ASSUME NEW headers, Stored(headers), NEW order, NEW n, Ordered(headers, order, n),
         NEW v, WrittenAs(v, headers, order, n), NEW k \in 1 .. n
  PROVE  /\ v[k] \in Texts \X Texts /\ Plain(v[k])
         /\ v[k][1] = order[k] /\ v[k][2] # <<>>
<1> DEFINE name == order[k]
           value == headers[name]
           w == <<"SP">>
           late == w \o value
<1>1. name \in DOMAIN headers
  BY DEF Ordered
<1>2. /\ name \in Texts /\ value \in Texts
      /\ \A i \in 1 .. Len(name) : name[i] \notin LineEnds /\ name[i] # "COLON"
      /\ \A i \in 1 .. Len(value) : value[i] \notin LineEnds
  BY <1>1 DEF Stored, Tight
<1>3. w \in Texts /\ Len(w) = 1 /\ w[1] = "SP"
  BY One DEF Token
<1>4. v[k] = <<name, late>>
  BY DEF WrittenAs
<1> HIDE DEF name, value, w
<1>5. /\ late \in Texts /\ Len(value) \in Nat /\ Len(late) = 1 + Len(value)
      /\ \A i \in 1 .. 1 : late[i] = w[i]
      /\ \A i \in 1 .. Len(value) : late[1 + i] = value[i]
  <2>1. /\ late \in Texts /\ Len(value) \in Nat /\ Len(late) = Len(w) + Len(value)
        /\ \A i \in 1 .. Len(w) : late[i] = w[i]
        /\ \A i \in 1 .. Len(value) : late[Len(w) + i] = value[i]
    BY <1>2, <1>3, Concatenated
  <2>2. QED
    BY <1>3, <2>1
<1> HIDE DEF late
<1>6. late # <<>>
  <2>1. Len(late) # 0
    BY <1>5
  <2>2. QED
    BY <2>1
<1>7. ASSUME NEW i \in 1 .. Len(late)
      PROVE  late[i] \notin LineEnds
  <2>1. i = 1 \/ (i - 1 \in 1 .. Len(value) /\ 1 + (i - 1) = i)
    BY <1>5
  <2>2. "SP" \notin LineEnds /\ 1 \in 1 .. 1
    BY DEF LineEnds
  <2>3. QED
    BY <1>2, <1>3, <1>5, <2>1, <2>2
<1>8. v[k][1] = name /\ v[k][2] = late
  BY <1>4
<1>9. Plain(v[k])
  BY <1>2, <1>7, <1>8 DEF Plain
<1>10. v[k] \in Texts \X Texts
  BY <1>2, <1>4, <1>5
<1>11. QED
  BY <1>6, <1>8, <1>9, <1>10 DEF name

\* The header a body brings with it.
LengthHeader == <<ContentLength, <<"length">>>>

LEMMA LengthHeaderIs ==
  /\ LengthHeader \in Texts \X Texts /\ Plain(LengthHeader)
  /\ LengthHeader[1] = ContentLength /\ LengthHeader[2] = <<"length">>
  /\ ContentLength # <<>> /\ <<"length">> # <<>>
  /\ Trimmed(ContentLength) = ContentLength /\ HeaderName(ContentLength) = ContentLength
  /\ Trimmed(<<"length">>) = <<"length">>
<1> DEFINE l == <<"length">>
<1>1. /\ ContentLength \in Texts /\ Len(ContentLength) = 1 /\ ContentLength[1] = "Content-Length"
      /\ ContentLength # <<>>
  BY One DEF ContentLength, Token
<1>2. l \in Texts /\ Len(l) = 1 /\ l[1] = "length" /\ l # <<>>
  BY One DEF Token
<1> HIDE DEF l
<1>3. LengthHeader = <<ContentLength, l>>
  BY DEF LengthHeader, l
<1>4. LengthHeader[1] = ContentLength /\ LengthHeader[2] = l /\ LengthHeader \in Texts \X Texts
  BY <1>1, <1>2, <1>3
<1>5. \A i : i \in 1 .. 1 <=> i = 1
  OBVIOUS
<1>6. Plain(LengthHeader)
  BY <1>1, <1>2, <1>4, <1>5 DEF Plain, LineEnds
<1>7. Tight(ContentLength) /\ Tight(l)
  BY <1>1, <1>2 DEF Tight
<1>8. Trimmed(ContentLength) = ContentLength /\ Trimmed(l) = l
  BY <1>7, TightTrimmed
<1>9. HeaderName(ContentLength) = ContentLength
  <2> DEFINE name == HeaderName(ContentLength)
  <2>1. /\ Tight(name) /\ Len(name) = Len(ContentLength)
        /\ \A i \in 1 .. Len(name) : name[i] = Lower(ContentLength[i])
    BY <1>7, NamesOnce
  <2>2. Lower("Content-Length") = "Content-Length"
    BY DEF Lower
  <2> HIDE DEF name
  <2>3. name \in Texts /\ Len(name) = 1 /\ \A i \in 1 .. Len(name) : name[i] = ContentLength[i]
    BY <1>1, <1>5, <2>1, <2>2 DEF Tight
  <2>4. name = ContentLength
    BY <1>1, <2>3, SeqEqual DEF Texts
  <2>5. QED
    BY <2>4 DEF name
<1>10. QED
  BY <1>1, <1>2, <1>4, <1>6, <1>8, <1>9 DEF l

\* The lines stringify writes of headers.
LinesOf(headers, order) ==
    [i \in DOMAIN order |-> <<order[i], <<"SP">> \o headers[order[i]]>>]

LEMMA LinesOfAre ==
  ASSUME NEW headers, Stored(headers), NEW order, NEW n, Ordered(headers, order, n)
  PROVE  /\ WrittenAs(LinesOf(headers, order), headers, order, n)
         /\ Listed(LinesOf(headers, order)) /\ Len(LinesOf(headers, order)) = n
         /\ <<>> \notin DOMAIN headers => SoundList(LinesOf(headers, order))
<1> DEFINE v == LinesOf(headers, order)
<1>1. n \in Nat /\ order \in [1 .. n -> DOMAIN headers]
  BY DEF Ordered
<1>2. v = [i \in 1 .. n |-> <<order[i], <<"SP">> \o headers[order[i]]>>]
  BY <1>1 DEF LinesOf
<1>3. \A k \in 1 .. n : v[k] = <<order[k], <<"SP">> \o headers[order[k]]>>
  BY <1>2
<1>4. WrittenAs(v, headers, order, n)
  BY <1>3 DEF WrittenAs
<1>5. DOMAIN v = 1 .. n /\ v = [i \in 1 .. n |-> v[i]]
  BY <1>2
<1> HIDE DEF v
<1>6. \A k \in 1 .. n : /\ v[k] \in Texts \X Texts /\ Plain(v[k])
                         /\ v[k][1] = order[k] /\ v[k][2] # <<>>
  BY <1>4, WrittenIsListed
<1>7. v \in Seq(Texts \X Texts) /\ Len(v) = n
  <2> DEFINE S == Texts \X Texts
  <2>1. \A i \in 1 .. n : v[i] \in S
    BY <1>6
  <2> HIDE DEF S
  <2>2. v \in [1 .. n -> S]
    BY <1>5, <2>1
  <2>3. v \in Seq(S)
    BY <1>1, <2>2, SeqDef
  <2>4. Len(v) = n
    BY <1>1, <1>5, <2>3, LenProperties
  <2>5. QED
    BY <2>3, <2>4 DEF S
<1>8. Listed(v)
  BY <1>6, <1>7 DEF Listed
<1>9. <<>> \notin DOMAIN headers => SoundList(v)
  BY <1>1, <1>5, <1>6 DEF SoundList
<1>10. QED
  BY <1>4, <1>7, <1>8, <1>9 DEF v

\* A list with one header more at its end.
Longer(new, list, header) ==
    /\ Listed(new) /\ Len(list) \in Nat /\ Len(new) = Len(list) + 1
    /\ \A i \in 1 .. Len(list) : new[i] = list[i]
    /\ new[Len(list) + 1] = header

LEMMA OneHeaderMore ==
  ASSUME NEW list, Listed(list), NEW header \in Texts \X Texts, Plain(header)
  PROVE  Longer(Append(list, header), list, header)
<1> DEFINE S == Texts \X Texts
           new == Append(list, header)
           n == Len(list)
<1>1. list \in Seq(S) /\ header \in S /\ \A i \in 1 .. n : Plain(list[i])
  BY DEF Listed
<1> HIDE DEF S
<1>2. n \in Nat /\ new \in Seq(S) /\ Len(new) = n + 1 /\ new[n + 1] = header
      /\ \A i \in 1 .. n : new[i] = list[i]
  BY <1>1, AppendProperties, LenProperties
<1> HIDE DEF new, n
<1>3. \A i \in 1 .. (n + 1) : i \in 1 .. n \/ i = n + 1
  BY <1>2
<1>4. \A i \in 1 .. Len(new) : Plain(new[i])
  BY <1>1, <1>2, <1>3
<1>5. Listed(new)
  BY <1>2, <1>4 DEF Listed, S
<1>6. QED
  BY <1>2, <1>5 DEF Longer, new, n

LEMMA LongerBlock ==
  ASSUME NEW list, Listed(list), NEW header, NEW new, Longer(new, list, header)
  PROVE  HeaderBlock(new) = HeaderBlock(list) \o (LineOf(header) \o CRLF)
<1> DEFINE n == Len(list)
<1>1. /\ Listed(new) /\ n \in Nat /\ Len(new) = n + 1
      /\ \A i \in 1 .. n : new[i] = list[i]
      /\ new[n + 1] = header
  BY DEF Longer
<1>2. PICK b : Blocks(b, list) /\ HeaderBlock(list) = b[Len(list)]
  BY BlockIs
<1>3. PICK c : Blocks(c, new) /\ HeaderBlock(new) = c[Len(new)]
  BY <1>1, BlockIs
<1> HIDE DEF n
<1>4. b[0] = <<>> /\ \A k \in 1 .. n : b[k] = b[k - 1] \o (LineOf(list[k]) \o CRLF)
  BY <1>2 DEF Blocks, n
<1>5. c[0] = <<>> /\ \A k \in 1 .. (n + 1) : c[k] = c[k - 1] \o (LineOf(new[k]) \o CRLF)
  BY <1>1, <1>3 DEF Blocks
<1> DEFINE G == {k \in 0 .. n : c[k] = b[k]}
<1>6. 0 \in G
  BY <1>1, <1>4, <1>5
<1>7. ASSUME NEW k \in 0 .. (n - 1), k \in G
      PROVE  k + 1 \in G
  <2>1. k + 1 \in 1 .. n /\ k + 1 \in 1 .. (n + 1) /\ (k + 1) - 1 = k /\ k + 1 \in 0 .. n
    BY <1>1
  <2>2. b[k + 1] = b[k] \o (LineOf(list[k + 1]) \o CRLF)
    BY <1>4, <2>1
  <2>3. c[k + 1] = c[k] \o (LineOf(new[k + 1]) \o CRLF)
    BY <1>5, <2>1
  <2>4. new[k + 1] = list[k + 1] /\ c[k] = b[k]
    BY <1>1, <1>7, <2>1
  <2>5. c[k + 1] = b[k + 1]
    BY <2>2, <2>3, <2>4
  <2>6. QED
    BY <2>1, <2>5
<1>8. n \in G
  <2>1. G \in SUBSET (0 .. n) /\ n \in 0 .. n
    BY <1>1
  <2> HIDE DEF G
  <2>2. G = 0 .. n
    BY <1>1, <1>6, <1>7, <2>1, GoingUp
  <2>3. QED
    BY <2>1, <2>2
<1>9. c[n + 1] = c[n] \o (LineOf(header) \o CRLF)
  <2>1. n + 1 \in 1 .. (n + 1) /\ (n + 1) - 1 = n
    BY <1>1
  <2>2. QED
    BY <1>1, <1>5, <2>1
<1>10. QED
  BY <1>1, <1>2, <1>3, <1>8, <1>9 DEF n

\* What a peer is told by the lines of headers, and by the length behind them.
LEMMA LinesMean ==
  ASSUME NEW headers, Stored(headers), headers = [name \in DOMAIN headers |-> headers[name]],
         NEW order, NEW n, Ordered(headers, order, n)
  PROVE  Meaning(LinesOf(headers, order)) = headers
<1> DEFINE v == LinesOf(headers, order)
<1>1. WrittenAs(v, headers, order, n) /\ Listed(v) /\ Len(v) = n
  BY LinesOfAre
<1> HIDE DEF v
<1>2. Meaning(v) = Meant(v, n)
  BY <1>1, MeaningIs
<1>3. Meant(v, n) = headers
  BY <1>1, WrittenMeans
<1>4. QED
  BY <1>2, <1>3 DEF v

LEMMA LengthMeans ==
  ASSUME NEW headers, Stored(headers), headers = [name \in DOMAIN headers |-> headers[name]],
         NEW order, NEW n, Ordered(headers, order, n),
         NEW new, Longer(new, LinesOf(headers, order), LengthHeader)
  PROVE  Meaning(new) = WithLength(headers)
<1> DEFINE v == LinesOf(headers, order)
           l == <<"length">>
<1>1. WrittenAs(v, headers, order, n) /\ Listed(v) /\ Len(v) = n
  BY LinesOfAre
<1> HIDE DEF v
<1>2. /\ Listed(new) /\ n \in Nat /\ Len(new) = n + 1
      /\ \A i \in 1 .. n : new[i] = v[i]
      /\ new[n + 1] = LengthHeader
  BY <1>1 DEF Longer, v
<1>3. WrittenAs(new, headers, order, n)
  BY <1>1, <1>2 DEF WrittenAs
<1>4. Meant(new, n) = headers
  BY <1>3, WrittenMeans
<1>5. Meaning(new) = Meant(new, n + 1)
  BY <1>2, MeaningIs
<1>6. SetHeader(Meant(new, n), Trimmed(new[n + 1][1]), Trimmed(new[n + 1][2])) = Meant(new, n + 1)
  BY <1>2, MeantMore
<1>7. /\ Trimmed(new[n + 1][1]) = ContentLength /\ HeaderName(ContentLength) = ContentLength
      /\ Trimmed(new[n + 1][2]) = l
  <2>1. new[n + 1][1] = ContentLength /\ new[n + 1][2] = l
    BY <1>2, LengthHeaderIs
  <2>2. QED
    BY <2>1, LengthHeaderIs
<1>8. WithLength(headers) = [name \in DOMAIN headers \union {ContentLength} |->
                                IF name = ContentLength THEN l ELSE headers[name]]
  BY DEF WithLength
<1> HIDE DEF l
<1>9. Meant(new, n + 1) = SetHeader(headers, ContentLength, l)
  BY <1>4, <1>6, <1>7
<1>10. SetHeader(headers, ContentLength, l)
         = [name \in DOMAIN headers \union {ContentLength} |->
                                IF name = ContentLength THEN l ELSE headers[name]]
  BY <1>7 DEF SetHeader
<1>11. QED
  BY <1>5, <1>8, <1>9, <1>10

-----------------------------------------------------------------------------
(* The messages of responses *)

\* The text stringify writes, with what a body brings with it.
BodyEnd(body) ==
    ((((<<"Content-Length", "COLON", "length">> \o CRLF) \o CRLF) \o body) \o CRLF) \o CRLF

ResponseText(status, headers, body, order) ==
    ((ResponseLine(status) \o CRLF) \o HeaderBlock(LinesOf(headers, order)))
      \o IF body = <<>> THEN CRLF ELSE BodyEnd(body)

\* The message stringify writes, in ResponsesOf.
Answered(headers, body) == [EmptyHttp EXCEPT !.headers = headers, !.body = body]

LEMMA WrittenOut ==
  ASSUME NEW status, NEW headers, NEW body, NEW order
  PROVE  Stringify(Answered(headers, body), "200", status, order)
           = ResponseText(status, headers, body, order)
<1> DEFINE http == Answered(headers, body)
<1>1. http.protocol = "HTTP/1.1" /\ http.headers = headers /\ http.body = body
  BY DEF Answered, EmptyHttp
<1> HIDE DEF http
<1>2. Stringify(http, "200", status, order)
        = (((<<http.protocol, "SP", "200", "SP">> \o status) \o CRLF)
            \o HeaderBlock([i \in DOMAIN order |-> <<order[i], <<"SP">> \o http.headers[order[i]]>>]))
            \o IF http.body = <<>> THEN CRLF ELSE BodyEnd(http.body)
  BY Zenon DEF Stringify, BodyEnd
<1>3. Stringify(http, "200", status, order)
        = ((ResponseLine(status) \o CRLF) \o HeaderBlock(LinesOf(headers, order)))
            \o IF body = <<>> THEN CRLF ELSE BodyEnd(body)
  BY <1>1, <1>2, Zenon DEF ResponseLine, LinesOf
<1>4. QED
  BY <1>3, Zenon DEF http, ResponseText

NothingMore(s) == (s \o <<>>) \o <<>> = s

LEMMA EmptyEnd ==
  ASSUME NEW s \in Texts
  PROVE  NothingMore(s)
<1>1. s \o <<>> = s
  BY ConcatEmptySeq DEF Texts
<1>2. QED
  BY <1>1 DEF NothingMore

Regrouped(y, q, c, body) ==
    y \o ((((q \o c) \o body) \o c) \o c) = (((y \o q) \o c) \o body) \o (c \o c)

LEMMA Regroup ==
  ASSUME NEW y \in Texts, NEW q \in Texts, NEW c \in Texts, NEW body \in Texts
  PROVE  Regrouped(y, q, c, body)
<1> DEFINE z == q \o c
           x == z \o body
           e == c \o c
           yq == y \o q
           yz == y \o z
           yx == y \o x
<1>1. z \in Texts /\ e \in Texts /\ yq \in Texts
  BY Concatenated
<1>2. x \in Texts /\ yz \in Texts
  <2> HIDE DEF z
  <2>1. QED
    BY <1>1, Concatenated
<1>3. (x \o c) \o c = x \o e
  <2> HIDE DEF x
  <2>1. QED
    BY <1>2, Associative
<1>4. yq \o c = yz
  BY Associative
<1>5. yz \o body = yx
  <2> HIDE DEF z
  <2>1. QED
    <3>1. Associate(y, z, body)
      BY <1>1, AssociateAll
    <3>2. QED
      BY <3>1, Zenon DEF Associate
<1>6. yx \o e = y \o (x \o e)
  <2>1. x \in Texts /\ e \in Texts
    BY <1>1, <1>2
  <2> HIDE DEF x, e
  <2>2. (y \o x) \o e = y \o (x \o e)
    <3>1. Associate(y, x, e)
      BY <2>1, AssociateAll
    <3>2. QED
      BY <3>1, Zenon DEF Associate
  <2>3. QED
    BY <2>2
<1> DEFINE left == y \o ((x \o c) \o c)
           right == ((yq \o c) \o body) \o e
<1>7. left = right
  <2> HIDE DEF yq, yz, yx, e, x, z
  <2>1. QED
    BY <1>3, <1>4, <1>5, <1>6
<1>8. QED
  BY <1>7 DEF Regrouped

\* The line of the length, as stringify writes it.
LEMMA LengthLineIs ==
  /\ LineOf(LengthHeader) = <<"Content-Length", "COLON", "length">>
  /\ LineOf(LengthHeader) \in Texts
<1> DEFINE three == <<"Content-Length", "COLON", "length">>
           line == LineOf(LengthHeader)
<1>1. three \in Texts /\ Len(three) = 3
      /\ three[1] = "Content-Length" /\ three[2] = "COLON" /\ three[3] = "length"
  <2>1. "Content-Length" \in Token /\ "COLON" \in Token /\ "length" \in Token
    BY DEF Token
  <2>2. QED
    BY <2>1 DEF Texts
<1>2. /\ Len(LengthHeader[1]) = 1 /\ LengthHeader[1][1] = "Content-Length"
      /\ Len(LengthHeader[2]) = 1 /\ LengthHeader[2][1] = "length"
      /\ LengthHeader \in Texts \X Texts /\ Plain(LengthHeader)
  <2>1. LengthHeader[1] = <<"Content-Length">> /\ LengthHeader[2] = <<"length">>
    BY LengthHeaderIs DEF ContentLength
  <2>2. /\ Len(<<"Content-Length">>) = 1 /\ <<"Content-Length">>[1] = "Content-Length"
        /\ Len(<<"length">>) = 1 /\ <<"length">>[1] = "length"
    OBVIOUS
  <2>3. QED
    BY <2>1, <2>2, LengthHeaderIs
<1>3. /\ line \in Texts
      /\ Len(line) = Len(LengthHeader[1]) + (1 + Len(LengthHeader[2]))
      /\ \A i \in 1 .. Len(LengthHeader[1]) : line[i] = LengthHeader[1][i]
      /\ line[Len(LengthHeader[1]) + 1] = "COLON"
      /\ \A i \in 1 .. Len(LengthHeader[2]) : line[Len(LengthHeader[1]) + 1 + i] = LengthHeader[2][i]
  BY <1>2, LineIs
<1> HIDE DEF line, three
<1>4. Len(line) = 3 /\ line[1] = "Content-Length" /\ line[2] = "COLON" /\ line[3] = "length"
  <2>1. /\ Len(line) = 1 + (1 + 1) /\ line[1 + 1] = "COLON"
        /\ \A i \in 1 .. 1 : line[i] = LengthHeader[1][i]
        /\ \A i \in 1 .. 1 : line[1 + 1 + i] = LengthHeader[2][i]
    BY <1>2, <1>3
  <2>2. 1 \in 1 .. 1
    OBVIOUS
  <2>3. line[1] = LengthHeader[1][1] /\ line[1 + 1 + 1] = LengthHeader[2][1]
    BY <2>1, <2>2
  <2>4. 1 + 1 = 2 /\ 1 + 1 + 1 = 3 /\ 1 + (1 + 1) = 3
    OBVIOUS
  <2>5. QED
    BY <1>2, <2>1, <2>3, <2>4
<1>5. \A i \in 1 .. 3 : line[i] = three[i]
  <2>1. \A i \in 1 .. 3 : i = 1 \/ i = 2 \/ i = 3
    OBVIOUS
  <2>2. QED
    BY <1>1, <1>4, <2>1
<1>6. line = three
  BY <1>1, <1>3, <1>4, <1>5, SeqEqual DEF Texts
<1>7. QED
  BY <1>3, <1>6 DEF line, three

LEMMA BareResponseIsMessage ==
  ASSUME NEW status, IsLine(status), NEW headers, Stored(headers), DOMAIN headers # {},
         NEW order, NEW n, Ordered(headers, order, n), IsBody(<<>>)
  PROVE  IsMessage(ResponseText(status, headers, <<>>, order), ResponseLine(status),
                   LinesOf(headers, order), <<>>, FALSE)
<1> DEFINE list == LinesOf(headers, order)
           block == HeaderBlock(list)
           line == ResponseLine(status)
           none == <<>>
           start == ((line \o CRLF) \o block) \o CRLF
<1>1. Listed(list) /\ Len(list) # 0
  <2>1. Listed(list) /\ Len(list) = n
    BY LinesOfAre
  <2>2. n \in Nat /\ n # 0
    BY DEF Ordered
  <2>3. QED
    BY <2>1, <2>2
<1> HIDE DEF list
<1>2. block \in Texts
  BY <1>1, BlockIsText
<1>3. line \in Texts /\ \A i \in 1 .. Len(line) : line[i] \notin LineEnds
  BY ResponseLineIs
<1>4. none \in Texts /\ BodyText(none)
  BY EmptySeq, BodiesAreTexts DEF Texts
<1>5. ResponseText(status, headers, none, order) = start
  BY Zenon DEF ResponseText, list
<1>6. RestOf(block, none, FALSE) = block \o (CRLF \o (none \o none))
  BY Zenon DEF RestOf
<1> HIDE DEF block, line
<1>7. start \in Texts
  <2>1. line \o CRLF \in Texts
    BY <1>3, Delimiters, Concatenated
  <2> DEFINE x == line \o CRLF
  <2>2. x \in Texts
    BY <2>1
  <2> HIDE DEF x
  <2>3. x \o block \in Texts
    BY <1>2, <2>2, Concatenated
  <2> DEFINE y == x \o block
  <2>4. y \in Texts
    BY <2>3
  <2> HIDE DEF y
  <2>5. y \o CRLF \in Texts
    BY <2>4, Delimiters, Concatenated
  <2>6. QED
    BY <2>5 DEF x, y
<1> HIDE DEF none
<1>8. InOrder(line, block, none, none)
  BY <1>2, <1>3, <1>4, TextsInOrder
<1>9. (start \o none) \o none = line \o (CRLF \o (block \o (CRLF \o (none \o none))))
  BY <1>8, Zenon DEF InOrder
<1>10. (start \o none) \o none = start
  <2> HIDE DEF start
  <2>1. NothingMore(start)
    BY <1>7, EmptyEnd
  <2>2. QED
    BY <2>1 DEF NothingMore, none
<1>11. ResponseText(status, headers, none, order) = line \o (CRLF \o RestOf(block, none, FALSE))
  BY <1>5, <1>6, <1>9, <1>10, Zenon
<1>12. IsMessage(ResponseText(status, headers, none, order), line, list, none, FALSE)
  BY <1>1, <1>3, <1>4, <1>11 DEF IsMessage, block
<1>13. QED
  BY <1>12 DEF list, line, none

LEMMA FullResponseIsMessage ==
  ASSUME NEW status, IsLine(status), NEW headers, Stored(headers), NEW order, NEW n, Ordered(headers, order, n),
         NEW body, IsBody(body), body # <<>>,
         NEW list, Longer(list, LinesOf(headers, order), LengthHeader)
  PROVE  IsMessage(ResponseText(status, headers, body, order), ResponseLine(status), list, body, TRUE)
<1> DEFINE short == HeaderBlock(LinesOf(headers, order))
           block == HeaderBlock(list)
           line == ResponseLine(status)
           q == LineOf(LengthHeader) \o CRLF
           x == line \o CRLF
           y == x \o short
           c == CRLF
<1>1. Listed(list) /\ Len(list) # 0
  BY DEF Longer
<1>2. Listed(LinesOf(headers, order))
  BY LinesOfAre
<1>3. block = short \o q
  BY <1>2, LongerBlock
<1>4. /\ line \in Texts /\ \A i \in 1 .. Len(line) : line[i] \notin LineEnds
      /\ short \in Texts /\ block \in Texts /\ c \in Texts /\ q \in Texts
      /\ body \in Texts /\ BodyText(body)
  BY <1>1, <1>2, BlockIsText, ResponseLineIs, Delimiters, LengthLineIs, Concatenated, BodiesAreTexts DEF BodyText
<1>5. ResponseText(status, headers, body, order) = y \o ((((q \o c) \o body) \o c) \o c)
  BY LengthLineIs, Zenon DEF ResponseText, BodyEnd
<1>6. RestOf(block, body, TRUE) = block \o (CRLF \o (body \o EmptyLine))
  BY Zenon DEF RestOf
<1>7. InOrder(line, block, body, EmptyLine)
  BY <1>4, Delimiters, TextsInOrder
<1>8. (((x \o block) \o c) \o body) \o (c \o c) = line \o (CRLF \o RestOf(block, body, TRUE))
  BY <1>6, <1>7, Zenon DEF InOrder, EmptyLine
<1>9. x \in Texts
  BY <1>4, Concatenated
<1> HIDE DEF x, q, block, short, line, c
<1>10. x \o block = y \o q
  <2>1. Associate(x, short, q)
    BY <1>4, <1>9, AssociateAll
  <2>2. QED
    BY <1>3, <2>1, Zenon DEF Associate
<1>11. y \in Texts
  BY <1>4, <1>9, Concatenated
<1> HIDE DEF y
<1>12. Regrouped(y, q, c, body)
  BY <1>4, <1>11, Regroup
<1>13. ResponseText(status, headers, body, order) = line \o (CRLF \o RestOf(block, body, TRUE))
  BY <1>5, <1>8, <1>10, <1>12, Zenon DEF Regrouped
<1>14. QED
  BY <1>1, <1>4, <1>13 DEF IsMessage, block, line

-----------------------------------------------------------------------------
(* The transfer of a message *)

\* What a message with headers is, and what is said of it.
Tells(s, line, list, body, closed) ==
    /\ IsMessage(s.text, line, list, body, closed)
    /\ s.headers = Meaning(list)
    /\ s.body = IF closed THEN body ELSE <<>>
    /\ s.sound => ParseStatusLine(line, EmptyHttp).err = "NO_ERROR" /\ SoundList(list)

Told(s) == DOMAIN s.headers # {} => \E line, list, body, closed : Tells(s, line, list, body, closed)

LEMMA RequestsTell ==
  ASSUME NEW line, IsLine(line), NEW list, IsHeaderList(list),
         NEW body, IsBody(body), NEW closed \in BOOLEAN
  PROVE  Told(RequestOf(line, list, body, closed))
<1> DEFINE s == RequestOf(line, list, body, closed)
<1>1. /\ s.text = MessageText(line, list, body, closed)
      /\ s.headers = Meaning(list)
      /\ s.body = IF closed THEN body ELSE <<>>
      /\ s.sound <=> SoundLine(line) /\ SoundList(list)
  BY Zenon DEF RequestOf
<1> HIDE DEF s
<1>2. SUFFICES ASSUME DOMAIN s.headers # {}
               PROVE  Tells(s, line, list, body, closed)
  BY Zenon DEF Told, s
<1>3. Len(list) # 0
  <2>1. Listed(list)
    BY HeadersAreListed
  <2>2. DOMAIN s.headers = {NameAt(list, k) : k \in 1 .. Len(list)}
    BY <1>1, <2>1, MeaningDomain
  <2>3. PICK name : name \in {NameAt(list, k) : k \in 1 .. Len(list)}
    BY <1>2, <2>2
  <2>4. PICK k : k \in 1 .. Len(list)
    BY <2>3
  <2>5. Len(list) \in Nat
    BY <2>1, LinesAreTexts
  <2>6. QED
    BY <2>4, <2>5
<1>4. IsMessage(s.text, line, list, body, closed)
  BY <1>1, <1>3, RequestIsMessage
<1>5. s.sound => ParseStatusLine(line, EmptyHttp).err = "NO_ERROR" /\ SoundList(list)
  BY <1>1, SoundLinesAreAccepted
<1>6. QED
  BY <1>1, <1>4, <1>5 DEF Tells

LEMMA ResponsesTell ==
  ASSUME NEW status, IsLine(status), NEW list, IsHeaderList(list), NEW body, IsBody(body),
         NEW s \in ResponsesOf(status, list, body)
  PROVE  Told(s)
<1> DEFINE headers == Meaning(list)
           S == DOMAIN headers
           n == Cardinality(S)
<1>1. PICK order \in SetToSeqs(S) :
        s = [text    |-> Stringify(Answered(headers, body), "200", status, order),
             headers |-> IF body = <<>> THEN headers ELSE WithLength(headers),
             body    |-> body,
             sound   |-> OneWord(status) /\ <<>> \notin S]
  BY Zenon DEF ResponsesOf, Answered
<1>2. Listed(list)
  BY HeadersAreListed
<1>3. Stored(headers) /\ IsFiniteSet(S)
  BY <1>2, MeaningIsStored, NamesAreFinite
<1>4. headers = [name \in S |-> headers[name]]
  BY DEF Meaning
<1>5. Ordered(headers, order, n)
  BY <1>3, OrdersCover DEF Ordered
<1>6. /\ s.text = ResponseText(status, headers, body, order)
      /\ s.headers = IF body = <<>> THEN headers ELSE WithLength(headers)
      /\ s.body = body
      /\ s.sound <=> OneWord(status) /\ <<>> \notin S
  <2>1. /\ s.text = Stringify(Answered(headers, body), "200", status, order)
        /\ s.headers = IF body = <<>> THEN headers ELSE WithLength(headers)
        /\ s.body = body
        /\ s.sound <=> OneWord(status) /\ <<>> \notin S
    BY <1>1, Zenon
  <2>2. QED
    BY <2>1, WrittenOut
<1> HIDE DEF headers, n
<1> DEFINE v == LinesOf(headers, order)
           new == Append(v, LengthHeader)
<1>7. Listed(v) /\ (<<>> \notin S => SoundList(v)) /\ Len(v) = n
  BY <1>3, <1>5, LinesOfAre
<1>8. Meaning(v) = headers
  BY <1>3, <1>4, <1>5, LinesMean
<1> HIDE DEF v
<1>9. Longer(new, v, LengthHeader)
  BY <1>7, LengthHeaderIs, OneHeaderMore
<1> HIDE DEF new
<1>10. Meaning(new) = WithLength(headers)
  BY <1>3, <1>4, <1>5, <1>9, LengthMeans DEF v
<1>11. <<>> \notin S => SoundList(new)
  <2>1. /\ Listed(new) /\ Len(v) \in Nat /\ Len(new) = Len(v) + 1
        /\ \A i \in 1 .. Len(v) : new[i] = v[i]
        /\ new[Len(v) + 1] = LengthHeader
    BY <1>9 DEF Longer
  <2>2. DOMAIN v = 1 .. Len(v) /\ DOMAIN new = 1 .. (Len(v) + 1)
    BY <1>7, <2>1, LenProperties DEF Listed
  <2>3. \A i \in 1 .. (Len(v) + 1) : i \in 1 .. Len(v) \/ i = Len(v) + 1
    BY <2>1
  <2>4. LengthHeader[1] # <<>> /\ LengthHeader[2] # <<>>
    BY LengthHeaderIs
  <2>5. QED
    BY <1>7, <2>1, <2>2, <2>3, <2>4 DEF SoundList
<1>12. s.sound => ParseStatusLine(ResponseLine(status), EmptyHttp).err = "NO_ERROR"
  BY <1>6, ResponseLineIs
<1>13. CASE body = <<>>
  <2>1. SUFFICES ASSUME DOMAIN s.headers # {}
                 PROVE  Tells(s, ResponseLine(status), v, body, FALSE)
    BY Zenon DEF Told
  <2>2. IsMessage(s.text, ResponseLine(status), v, body, FALSE)
    <3>1. DOMAIN headers # {} /\ IsBody(<<>>)
      BY <1>6, <1>13, <2>1
    <3>2. IsMessage(ResponseText(status, headers, <<>>, order), ResponseLine(status), v, <<>>, FALSE)
      BY <1>3, <1>5, <3>1, BareResponseIsMessage DEF v
    <3>3. QED
      BY <1>6, <1>13, <3>2
  <2>3. s.headers = Meaning(v) /\ s.body = <<>>
    BY <1>6, <1>8, <1>13
  <2>4. s.sound => SoundList(v)
    BY <1>6, <1>7
  <2>5. QED
    BY <1>12, <2>2, <2>3, <2>4 DEF Tells
<1>14. CASE body # <<>>
  <2>1. IsMessage(s.text, ResponseLine(status), new, body, TRUE)
    <3>1. IsMessage(ResponseText(status, headers, body, order), ResponseLine(status), new, body, TRUE)
      BY <1>3, <1>5, <1>9, <1>14, FullResponseIsMessage DEF v
    <3>2. QED
      BY <1>6, <3>1
  <2>2. s.headers = Meaning(new) /\ s.body = body
    BY <1>6, <1>10, <1>14
  <2>3. s.sound => SoundList(new)
    BY <1>6, <1>11
  <2>4. Tells(s, ResponseLine(status), new, body, TRUE)
    BY <1>12, <2>1, <2>2, <2>3 DEF Tells
  <2>5. QED
    BY <2>4, Zenon DEF Told
<1>15. QED
  BY <1>13, <1>14

LEMMA MessagesAreTexts ==
  ASSUME NEW full, NEW line, NEW list, NEW body, NEW closed,
         IsMessage(full, line, list, body, closed)
  PROVE  full \in Texts
<1> DEFINE block == HeaderBlock(list)
           rest == RestOf(block, body, closed)
<1>1. /\ line \in Texts /\ Listed(list) /\ body \in Texts /\ closed \in BOOLEAN
      /\ full = line \o (CRLF \o rest)
  BY DEF IsMessage, BodyText
<1>2. block \in Texts
  BY <1>1, BlockIsText
<1> HIDE DEF block
<1>3. rest \in Texts
  <2>1. RestHas(RestOf(block, body, closed), block, body, closed)
    BY <1>1, <1>2, RestIs
  <2>2. QED
    BY <2>1 DEF RestHas
<1> HIDE DEF rest
<1>4. CRLF \o rest \in Texts
  BY <1>3, Delimiters, Concatenated
<1>5. QED
  BY <1>1, <1>4, Concatenated

\* What arrives of such a message, and where it stops.
TransferInv ==
    /\ capacity \in Nat /\ received \in Nat /\ received <= capacity
    /\ Told(sent)
    /\ HasHeaders => received <= Len(sent.text)

LEMMA TransferIsKept ==
  TransferSpec => []TransferInv
<1>1. TransferInit => TransferInv
  <2>1. SUFFICES ASSUME TransferInit PROVE TransferInv
    OBVIOUS
  <2>2. PICK list \in HeaderLists, body \in Bodies :
          \/ \E line \in StatusLines, closed \in BOOLEAN :
                sent = RequestOf(line, list, body, closed)
          \/ \E status \in Statuses : sent \in ResponsesOf(status, list, body)
    BY <2>1 DEF TransferInit
  <2>3. IsHeaderList(list) /\ IsBody(body)
    BY TransferAssumption
  <2>4. Told(sent)
    <3>1. ASSUME NEW status \in Statuses, sent \in ResponsesOf(status, list, body)
          PROVE  Told(sent)
      <4>1. IsLine(status)
        BY TransferAssumption
      <4>2. QED
        BY <2>3, <3>1, <4>1, ResponsesTell
    <3>2. ASSUME NEW line \in StatusLines, NEW closed \in BOOLEAN,
                 sent = RequestOf(line, list, body, closed)
          PROVE  Told(sent)
      <4>1. IsLine(line)
        BY TransferAssumption
      <4>2. QED
        BY <2>3, <3>2, <4>1, RequestsTell
    <3>3. QED
      BY <2>2, <3>1, <3>2
  <2>5. capacity \in Nat /\ received = 0
    BY <2>1, TransferAssumption DEF TransferInit
  <2>6. HasHeaders => received <= Len(sent.text)
    <3>1. SUFFICES ASSUME HasHeaders PROVE received <= Len(sent.text)
      OBVIOUS
    <3>2. PICK line, li, bo, closed : Tells(sent, line, li, bo, closed)
      BY <2>4, <3>1, Zenon DEF Told, HasHeaders
    <3>3. sent.text \in Texts
      BY <3>2, MessagesAreTexts DEF Tells
    <3>4. Len(sent.text) \in Nat
      BY <3>3, LenProperties DEF Texts
    <3>5. QED
      BY <2>5, <3>4
  <2>7. QED
    BY <2>4, <2>5, <2>6 DEF TransferInv
<1>2. TransferInv /\ [TransferNext]_transfer => TransferInv'
  <2>1. SUFFICES ASSUME TransferInv, [TransferNext]_transfer PROVE TransferInv'
    OBVIOUS
  <2>2. CASE TransferNext
    <3>1. /\ received < Len(sent.text) /\ received < capacity
          /\ received' = received + 1 /\ sent' = sent /\ capacity' = capacity
      BY <2>2 DEF TransferNext, TokenArrives
    <3>2. /\ capacity' \in Nat /\ received' \in Nat /\ received' <= capacity'
      BY <2>1, <3>1 DEF TransferInv
    <3>3. Told(sent)'
      BY <2>1, <3>1 DEF TransferInv, Told
    <3>4. HasHeaders' => received' <= Len(sent.text)'
      <4>1. SUFFICES ASSUME HasHeaders PROVE received + 1 <= Len(sent.text)
        BY <3>1 DEF HasHeaders
      <4>2. PICK line, li, bo, closed : Tells(sent, line, li, bo, closed)
        BY <2>1, <4>1, Zenon DEF Told, HasHeaders, TransferInv
      <4>3. sent.text \in Texts
        BY <4>2, MessagesAreTexts DEF Tells
      <4>4. Len(sent.text) \in Nat
        BY <4>3, LenProperties DEF Texts
      <4>5. received \in Nat
        BY <2>1 DEF TransferInv
      <4>6. QED
        BY <3>1, <4>4, <4>5
    <3>5. QED
      BY <3>2, <3>3, <3>4 DEF TransferInv
  <2>3. CASE UNCHANGED transfer
    BY <2>1, <2>3 DEF transfer, TransferInv, Told, HasHeaders
  <2>4. QED
    BY <2>1, <2>2, <2>3
<1>3. QED
  BY <1>1, <1>2, PTL DEF TransferSpec

\* What the parser makes of the first m tokens in the buffer.
BufferRead(m) ==
    \E line, list, body, closed :
       /\ Tells(sent, line, list, body, closed)
       /\ Len(sent.text) \in Nat /\ Len(Buffer(m)) = capacity
       /\ MessageRead(ParseHttp(Buffer(m)), ParseStatusLine(line, EmptyHttp), list, body, closed,
                      Buffer(m), sent.text, m, HeadersEnd(line, list))

LEMMA BufferCarries ==
  ASSUME sent.text \in Texts, capacity \in Nat,
         NEW m \in Nat, m <= capacity, m <= Len(sent.text)
  PROVE  Carries(Buffer(m), sent.text, m) /\ Len(Buffer(m)) = capacity
<1> DEFINE b == Buffer(m)
<1>1. DOMAIN b = 1 .. capacity /\ b = [i \in 1 .. capacity |-> b[i]]
      /\ \A i \in 1 .. capacity : b[i] = IF i <= m THEN sent.text[i] ELSE "NUL"
  BY DEF Buffer
<1> HIDE DEF b
<1>2. Len(sent.text) \in Nat
  BY LenProperties DEF Texts
<1>3. ASSUME NEW i \in 1 .. capacity
      PROVE  b[i] \in Token
  <2>1. CASE i <= m
    <3>1. i \in 1 .. Len(sent.text) /\ sent.text \in Seq(Token)
      BY <1>2, <2>1 DEF Texts
    <3>2. QED
      BY <1>1, <2>1, <3>1, ElementOfSeq
  <2>2. CASE ~(i <= m)
    BY <1>1, <2>2 DEF Token
  <2>3. QED
    BY <2>1, <2>2
<1>4. b \in [1 .. capacity -> Token]
  BY <1>1, <1>3
<1>5. b \in Texts
  BY <1>4, SeqDef DEF Texts
<1>6. Len(b) = capacity
  BY <1>1, <1>5, LenProperties DEF Texts
<1>7. \A i \in 1 .. m : b[i] = sent.text[i]
  BY <1>1
<1>8. \A i \in (m + 1) .. capacity : b[i] \notin LineEnds
  <2>1. \A i \in (m + 1) .. capacity : i \in 1 .. capacity /\ ~(i <= m)
    OBVIOUS
  <2>2. \A i \in (m + 1) .. capacity : b[i] = "NUL"
    BY <1>1, <2>1
  <2>3. "NUL" \notin LineEnds
    BY DEF LineEnds
  <2>4. QED
    BY <2>2, <2>3
<1>9. Carries(b, sent.text, m)
  BY <1>5, <1>6, <1>7, <1>8 DEF Carries
<1>10. QED
  BY <1>6, <1>9 DEF b

LEMMA BufferIsRead ==
  ASSUME TransferInv, HasHeaders, NEW m \in Nat, m <= received
  PROVE  BufferRead(m)
<1>1. PICK line, list, body, closed : Tells(sent, line, list, body, closed)
  BY Zenon DEF Told, HasHeaders, TransferInv
<1>2. IsMessage(sent.text, line, list, body, closed)
  BY <1>1 DEF Tells
<1>3. sent.text \in Texts
  BY <1>2, MessagesAreTexts
<1>4. Len(sent.text) \in Nat
  BY <1>3, LenProperties DEF Texts
<1>5. capacity \in Nat /\ m <= capacity /\ m <= Len(sent.text)
  <2>1. capacity \in Nat /\ received \in Nat /\ received <= capacity /\ received <= Len(sent.text)
    BY DEF TransferInv
  <2>2. QED
    BY <1>4, <2>1
<1>6. Carries(Buffer(m), sent.text, m) /\ Len(Buffer(m)) = capacity
  BY <1>3, <1>5, BufferCarries
<1>7. MessageRead(ParseHttp(Buffer(m)), ParseStatusLine(line, EmptyHttp), list, body, closed,
                  Buffer(m), sent.text, m, HeadersEnd(line, list))
  BY <1>2, <1>6, MessageIsRead
<1>8. QED
  BY <1>1, <1>4, <1>6, <1>7, Zenon DEF BufferRead

LEMMA AllIsSeen ==
  TransferInv => AllOrNothing
<1>1. SUFFICES ASSUME TransferInv, HasHeaders, Accepted
               PROVE  View.headers \in {NoHeaders, sent.headers} /\ View.body \in {<<>>, sent.body}
  BY DEF AllOrNothing
<1>2. received \in Nat /\ received <= received
  BY <1>1 DEF TransferInv
<1>3. BufferRead(received)
  BY <1>1, <1>2, BufferIsRead
<1>4. PICK line, list, body, closed :
         /\ Tells(sent, line, list, body, closed)
         /\ MessageRead(ParseHttp(Buffer(received)), ParseStatusLine(line, EmptyHttp),
                        list, body, closed,
                        Buffer(received), sent.text, received, HeadersEnd(line, list))
  BY <1>3, Zenon DEF BufferRead
<1> DEFINE r == ParseHttp(Buffer(received))
<1>5. r.err = "NO_ERROR" /\ View = r.http
  BY <1>1 DEF Accepted, Outcome, View
<1> HIDE DEF r
<1>6. /\ r.http.headers \in {NoHeaders, Meaning(list)}
      /\ r.http.body \in {<<>>, IF closed THEN body ELSE <<>>}
  BY <1>4, <1>5, Zenon DEF MessageRead, r
<1>7. sent.headers = Meaning(list) /\ sent.body = IF closed THEN body ELSE <<>>
  BY <1>4, Zenon DEF Tells
<1>8. QED
  BY <1>5, <1>6, <1>7

LEMMA WholeIsSeen ==
  TransferInv => CompleteIsUnderstood
<1>1. SUFFICES ASSUME TransferInv, Complete, HasHeaders, sent.sound
               PROVE  Accepted /\ View.headers = sent.headers /\ View.body = sent.body
  BY DEF CompleteIsUnderstood
<1>2. received \in Nat /\ received <= received
  BY <1>1 DEF TransferInv
<1>3. BufferRead(received)
  BY <1>1, <1>2, BufferIsRead
<1> DEFINE r == ParseHttp(Buffer(received))
<1>4. PICK line, list, body, closed :
         /\ Tells(sent, line, list, body, closed)
         /\ Len(sent.text) \in Nat /\ Len(Buffer(received)) = capacity
         /\ MessageRead(r, ParseStatusLine(line, EmptyHttp), list, body, closed,
                        Buffer(received), sent.text, received, HeadersEnd(line, list))
  BY <1>3, Zenon DEF BufferRead
<1>5. Outcome = r /\ View = r.http
  BY DEF Outcome, View
<1> HIDE DEF r
<1>6. received = Len(sent.text) /\ Len(Buffer(received)) > received
  BY <1>1, <1>4 DEF Complete
<1> DEFINE ends == HeadersEnd(line, list)
<1>7. received >= ends
  <2>1. ends \in Nat /\ ends <= Len(sent.text)
    BY <1>4, Zenon DEF MessageRead
  <2> HIDE DEF ends
  <2>2. QED
    BY <1>2, <1>6, <2>1
<1>8. r.err = "NO_ERROR"
  <2>1. ParseStatusLine(line, EmptyHttp).err = "NO_ERROR" /\ SoundList(list)
    BY <1>1, <1>4 DEF Tells
  <2>2. QED
    BY <1>4, <1>6, <2>1, Zenon DEF MessageRead
<1>9. r.http.headers = Meaning(list) /\ r.http.body = IF closed THEN body ELSE <<>>
  BY <1>4, <1>6, <1>7, <1>8, Zenon DEF MessageRead
<1>10. sent.headers = Meaning(list) /\ sent.body = IF closed THEN body ELSE <<>>
  BY <1>4, Zenon DEF Tells
<1>11. QED
  BY <1>5, <1>8, <1>9, <1>10 DEF Accepted

\* Two views of one message, the later of one token more.
LEMMA MoreIsSeen ==
  TransferInv => NothingIsRetracted
<1> DEFINE m == received - 1
           less == ParseHttp(Buffer(m))
           more == ParseHttp(Buffer(received))
<1>1. SUFFICES ASSUME TransferInv, HasHeaders, 0 < received, received < capacity,
                      less.err = "NO_ERROR", more.err = "NO_ERROR"
               PROVE  /\ more.http.url = less.http.url
                      /\ more.http.method = less.http.method
                      /\ less.http.headers # NoHeaders => more.http.headers = less.http.headers
                      /\ less.http.body # <<>> => more.http.body = less.http.body
  BY Zenon DEF NothingIsRetracted, Extends, Outcome
<1>2. received \in Nat /\ received <= received /\ m \in Nat /\ m <= received /\ m < received
  BY <1>1 DEF TransferInv
<1>3. PICK line, list, body, closed : Tells(sent, line, list, body, closed)
  BY <1>1, Zenon DEF Told, HasHeaders, TransferInv
<1>4. IsMessage(sent.text, line, list, body, closed) /\ sent.text \in Texts
  BY <1>3, MessagesAreTexts DEF Tells
<1>5. Len(sent.text) \in Nat /\ received <= Len(sent.text) /\ capacity \in Nat
  BY <1>1, <1>4, LenProperties DEF TransferInv, Texts
<1> DEFINE status == ParseStatusLine(line, EmptyHttp)
           ends == HeadersEnd(line, list)
<1>6. MessageRead(less, status, list, body, closed, Buffer(m), sent.text, m, ends)
  <2>1. m <= capacity /\ m <= Len(sent.text)
    BY <1>1, <1>2, <1>5
  <2> HIDE DEF m
  <2>2. Carries(Buffer(m), sent.text, m)
    BY <1>2, <1>4, <1>5, <2>1, BufferCarries
  <2>3. QED
    BY <1>4, <2>2, MessageIsRead
<1>7. MessageRead(more, status, list, body, closed, Buffer(received), sent.text, received, ends)
      /\ Len(Buffer(received)) = capacity
  <2>1. received <= capacity
    BY <1>1, <1>5, <1>2
  <2>2. Carries(Buffer(received), sent.text, received) /\ Len(Buffer(received)) = capacity
    BY <1>2, <1>4, <1>5, <2>1, BufferCarries
  <2>3. QED
    BY <1>4, <2>2, MessageIsRead
<1>8. Len(Buffer(received)) > received
  BY <1>1, <1>7
<1> HIDE DEF less, more, status, m
<1>9. /\ less.http.url = status.http.url /\ less.http.method = status.http.method
      /\ less.http.headers \in {NoHeaders, Meaning(list)}
      /\ less.http.headers # NoHeaders => m >= ends
      /\ less.http.body # <<>> => m = Len(sent.text)
      /\ ends \in Nat
  BY <1>1, <1>6, Zenon DEF MessageRead
<1> HIDE DEF ends
<1>10. /\ more.http.url = status.http.url /\ more.http.method = status.http.method
       /\ received >= ends => more.http.headers = Meaning(list)
  BY <1>1, <1>7, <1>8, Zenon DEF MessageRead
<1>11. less.http.body = <<>>
  <2>1. m # Len(sent.text)
    BY <1>2, <1>5
  <2>2. QED
    BY <1>9, <2>1
<1>12. m >= ends => received >= ends
  BY <1>2, <1>9
<1>13. QED
  BY <1>9, <1>10, <1>11, <1>12

\* However many tokens of a message read_http has in its buffer, and wherever
\* the buffer ends: http_parser accepts all of the headers or none, and all of
\* the body or none.
THEOREM MessagesAreSeenWhole ==
  TransferSpec => []AllOrNothing
  BY TransferIsKept, AllIsSeen, PTL

\* A message of sound lines that is in the buffer whole, with a NUL behind it,
\* is accepted with the headers and the body its peer has written: requests,
\* and what stringify writes, its headers in any order, as long as the status
\* is one word.  "Switching Protocols" (main.cpp:62) is not, and is rejected.
THEOREM MessagesAreUnderstood ==
  TransferSpec => []CompleteIsUnderstood
  BY TransferIsKept, WholeIsSeen, PTL

\* One more token in the buffer takes back nothing that http_parser has made of
\* the tokens before it.
THEOREM ViewsExtend ==
  TransferSpec => []NothingIsRetracted
  BY TransferIsKept, MoreIsSeen, PTL

-----------------------------------------------------------------------------
(* The key of the request *)

LEMMA NoBody == IsBody(<<>>)
<1> DEFINE none == <<>>
           text == none \o EmptyLine
<1>1. none \in Texts /\ Len(none) = 0 /\ none \in Seq(STRING)
  BY EmptySeq DEF Texts
<1>2. text = EmptyLine
  BY Delimiters, ConcatEmptySeq DEF Texts
<1>3. (none \o CRLF) \o CRLF = text
  BY <1>1, Delimiters, Associative DEF EmptyLine
<1>4. Find(EmptyLine, EmptyLine, 1) = 1
  <2> DEFINE e == EmptyLine
  <2>1. e \in Texts /\ e # <<>> /\ Len(e) = 4
    BY Delimiters
  <2> HIDE DEF e
  <2>2. Occurs(e, e, 1)
    <3>1. 1 \in 1 .. (Len(e) - Len(e) + 1) /\ \A k \in 1 .. Len(e) : 1 + k - 1 = k
      BY <2>1
    <3>2. QED
      BY <3>1 DEF Occurs
  <2>3. 1 \in Nat /\ 1 \in Nat \ {0} /\ 1 >= 1 /\ (1 .. (1 - 1)) = {}
    OBVIOUS
  <2>4. \A i \in 1 .. (1 - 1) : ~Occurs(e, e, i)
    BY <2>3
  <2>5. Find(e, e, 1) = 1
    BY <2>1, <2>2, <2>3, <2>4, FoundAt
  <2>6. QED
    BY <2>5 DEF e
<1>5. Find((none \o CRLF) \o CRLF, EmptyLine, 1) = Len(none) + 1
  <2> DEFINE w == (none \o CRLF) \o CRLF
  <2>1. w = EmptyLine
    BY <1>2, <1>3
  <2>2. 1 = Len(none) + 1
    BY <1>1
  <2> HIDE DEF w
  <2>3. Find(w, EmptyLine, 1) = 1
    BY <1>4, <2>1
  <2> HIDE DEF none
  <2>4. Find(w, EmptyLine, 1) = Len(none) + 1
    BY <2>2, <2>3
  <2>5. QED
    BY <2>4 DEF w
<1> HIDE DEF none
<1>6. IsBody(none)
  BY <1>1, <1>5, Zenon DEF IsBody, EmptyLine
<1>7. QED
  BY <1>6 DEF none

\* The request of a websocket has headers, and ends with them.
LEMMA RequestHasHeaders ==
  /\ IsMessage(Request, RequestLine, RequestHeaders, <<>>, FALSE)
  /\ Request \in Texts /\ Len(Request) \in Nat
  /\ HeadersEnd(RequestLine, RequestHeaders) = Len(Request)
<1> DEFINE list == RequestHeaders
           line == RequestLine
           block == HeaderBlock(list)
           rest == RestOf(block, <<>>, FALSE)
           late == CRLF \o rest
<1>1. IsLine(line) /\ IsHeaderList(list) /\ Key # <<>>
  BY HandshakeAssumption
<1>2. Listed(list)
  BY <1>1, HeadersAreListed
<1>3. Len(list) # 0
  <2>1. DOMAIN Meaning(list) # {}
    <3> DEFINE http == [headers |-> Meaning(list)]
               name == HeaderName(KeyName)
    <3>1. http.headers = Meaning(list)
      OBVIOUS
    <3> HIDE DEF http
    <3>2. Key = IF name \in DOMAIN http.headers THEN http.headers[name] ELSE <<>>
      BY DEF Key, HeaderOf, http
    <3>3. name \in DOMAIN http.headers
      BY <1>1, <3>2
    <3>4. QED
      BY <3>1, <3>3
  <2>2. DOMAIN Meaning(list) = {NameAt(list, k) : k \in 1 .. Len(list)}
    BY <1>2, MeaningDomain
  <2>3. PICK name : name \in {NameAt(list, k) : k \in 1 .. Len(list)}
    BY <2>1, <2>2
  <2>4. PICK k : k \in 1 .. Len(list)
    BY <2>3
  <2>5. Len(list) \in Nat
    BY <1>2, LinesAreTexts
  <2>6. QED
    BY <2>4, <2>5
<1>4. IsMessage(Request, line, list, <<>>, FALSE)
  BY <1>1, <1>3, NoBody, RequestIsMessage DEF Request
<1>5. Request \in Texts
  BY <1>4, MessagesAreTexts
<1>6. Len(Request) \in Nat
  BY <1>5, LenProperties DEF Texts
<1>7. /\ line \in Texts /\ block \in Texts /\ <<>> \in Texts /\ Len(<<>>) = 0
      /\ Request = line \o late
  BY <1>2, <1>4, BlockIsText, EmptySeq DEF IsMessage, Texts
<1>8. /\ rest \in Texts /\ Len(block) \in Nat
      /\ Len(rest) = Len(block) + (2 + (Len(<<>>) + (IF FALSE THEN 4 ELSE 0)))
  <2>1. RestHas(rest, block, <<>>, FALSE)
    BY <1>7, RestIs
  <2> HIDE DEF rest, block
  <2>2. QED
    BY <2>1, Zenon DEF RestHas
<1>9. late \in Texts /\ Len(late) = 2 + Len(rest)
  <2> HIDE DEF rest
  <2>1. late \in Texts /\ Len(late) = Len(CRLF) + Len(rest)
    BY <1>8, Delimiters, Concatenated
  <2>2. QED
    BY <2>1, Delimiters
<1>10. Len(line) \in Nat /\ Len(Request) = Len(line) + Len(late)
  <2> HIDE DEF late
  <2>1. QED
    BY <1>7, <1>9, Concatenated
<1>11. HeadersEnd(line, list) = Len(Request)
  <2> DEFINE u == Len(line)
             v == Len(block)
             w == Len(rest)
             x == Len(late)
  <2>1. u \in Nat /\ v \in Nat /\ w = v + (2 + (0 + 0)) /\ x = 2 + w /\ Len(Request) = u + x
    BY <1>7, <1>8, <1>9, <1>10
  <2>2. HeadersEnd(line, list) = u + (v + 4)
    BY DEF HeadersEnd
  <2> HIDE DEF u, v, w, x
  <2>3. QED
    BY <2>1, <2>2
<1>12. QED
  BY <1>4, <1>5, <1>6, <1>11

-----------------------------------------------------------------------------
(* Flattening *)

\* The function of FlattenSeq.
Flattens(F, s) ==
    F = [i \in 1 .. Len(s) |-> IF i = 1 THEN s[i] ELSE F[i - 1] \o s[i]]

LEMMA FlattenExists ==
  ASSUME NEW S, NEW s \in Seq(Seq(S))
  PROVE  \E F \in [1 .. Len(s) -> Seq(S)] : Flattens(F, s)
<1> DEFINE m == Len(s)
           Up(F, n) == \A i \in 1 .. n : F[i] = IF i = 1 THEN s[i] ELSE F[i - 1] \o s[i]
           G == {n \in 0 .. m : \E F \in [1 .. m -> Seq(S)] : Up(F, n)}
<1>1. m \in Nat /\ \A i \in 1 .. m : s[i] \in Seq(S)
  OBVIOUS
<1>2. 0 \in G
  <2>1. [i \in 1 .. m |-> <<>>] \in [1 .. m -> Seq(S)]
    OBVIOUS
  <2>2. \A F : Up(F, 0)
    OBVIOUS
  <2>3. QED
    BY <1>1, <2>1, <2>2
<1>3. ASSUME NEW n \in 0 .. (m - 1), n \in G
      PROVE  n + 1 \in G
  <2>1. PICK F \in [1 .. m -> Seq(S)] : Up(F, n)
    BY <1>3
  <2> DEFINE new == IF n + 1 = 1 THEN s[n + 1] ELSE F[n] \o s[n + 1]
             H == [F EXCEPT ![n + 1] = new]
  <2>2. n + 1 \in 1 .. m /\ n + 1 \in 0 .. m /\ (n + 1 # 1 => n \in 1 .. m) /\ (n + 1) - 1 = n
    BY <1>1
  <2>3. new \in Seq(S)
    <3>1. s[n + 1] \in Seq(S)
      BY <1>1, <2>2
    <3>2. n + 1 # 1 => F[n] \in Seq(S)
      BY <2>2
    <3>3. QED
      BY <3>1, <3>2
  <2> HIDE DEF new
  <2>4. H \in [1 .. m -> Seq(S)]
    BY <2>2, <2>3
  <2>5. H[n + 1] = new /\ \A i \in 1 .. m : i # n + 1 => H[i] = F[i]
    BY <2>2
  <2> HIDE DEF H
  <2>6. \A i \in 1 .. (n + 1) : i = n + 1 \/ (i \in 1 .. n /\ i # n + 1 /\ i \in 1 .. m)
    BY <2>2
  <2>7. \A i \in 1 .. n : i # 1 => i - 1 \in 1 .. m /\ i - 1 # n + 1
    BY <2>2
  <2>8. Up(H, n + 1)
    <3>1. ASSUME NEW i \in 1 .. (n + 1)
          PROVE  H[i] = IF i = 1 THEN s[i] ELSE H[i - 1] \o s[i]
      <4>1. CASE i = n + 1
        <5>1. n + 1 # 1 => H[n] = F[n]
          <6>1. n # n + 1
            OBVIOUS
          <6>2. QED
            BY <2>2, <2>5, <6>1
        <5>2. H[n + 1] = IF n + 1 = 1 THEN s[n + 1] ELSE H[n] \o s[n + 1]
          BY <2>5, <5>1 DEF new
        <5>3. QED
          BY <2>2, <4>1, <5>2
      <4>2. CASE i \in 1 .. n /\ i # n + 1 /\ i \in 1 .. m
        <5>1. F[i] = IF i = 1 THEN s[i] ELSE F[i - 1] \o s[i]
          BY <2>1, <4>2
        <5>2. H[i] = F[i] /\ (i # 1 => H[i - 1] = F[i - 1])
          BY <2>5, <2>7, <4>2
        <5>3. QED
          BY <5>1, <5>2
      <4>3. QED
        BY <2>6, <4>1, <4>2
    <3>2. QED
      BY <3>1
  <2>9. QED
    BY <2>2, <2>4, <2>8
<1>4. m \in G
  <2>1. G \in SUBSET (0 .. m) /\ m \in 0 .. m
    BY <1>1
  <2> HIDE DEF G, m
  <2>2. G = 0 .. m
    BY <1>1, <1>2, <1>3, <2>1, GoingUp
  <2>3. QED
    BY <2>1, <2>2
<1>5. PICK F \in [1 .. m -> Seq(S)] : Up(F, m)
  BY <1>4
<1>6. F = [i \in 1 .. m |-> IF i = 1 THEN s[i] ELSE F[i - 1] \o s[i]]
  BY <1>5
<1>7. QED
  BY <1>6 DEF Flattens

LEMMA FlattenIs ==
  ASSUME NEW S, NEW s \in Seq(Seq(S)), NEW F, Flattens(F, s)
  PROVE  /\ FlattenSeq(s) = IF Len(s) = 0 THEN <<>> ELSE F[Len(s)]
         /\ \A i \in 1 .. Len(s) : F[i] \in Seq(S)
<1> DEFINE m == Len(s)
           P == CHOOSE f : f = [i \in 1 .. m |-> IF i = 1 THEN s[i] ELSE f[i - 1] \o s[i]]
           G == {n \in 0 .. m : n # 0 => F[n] = P[n] /\ F[n] \in Seq(S)}
<1>1. m \in Nat /\ \A i \in 1 .. m : s[i] \in Seq(S)
  OBVIOUS
<1>2. F = [i \in 1 .. m |-> IF i = 1 THEN s[i] ELSE F[i - 1] \o s[i]]
  BY DEF Flattens
<1>3. P = [i \in 1 .. m |-> IF i = 1 THEN s[i] ELSE P[i - 1] \o s[i]]
  BY <1>2
<1>4. FlattenSeq(s) = IF m = 0 THEN <<>> ELSE P[m]
  <2>1. m = 0 => s = <<>>
    OBVIOUS
  <2>2. FlattenSeq(s) = IF m = 0 THEN s ELSE P[m]
    BY DEF FlattenSeq
  <2>3. QED
    BY <2>1, <2>2
<1> HIDE DEF P
<1>5. ASSUME NEW n \in 0 .. (m - 1), n \in G
      PROVE  n + 1 \in G
  <2>1. n + 1 \in 1 .. m /\ n + 1 \in 0 .. m /\ (n + 1) - 1 = n /\ (n + 1 = 1 <=> n = 0)
    BY <1>1
  <2>2. /\ F[n + 1] = IF n + 1 = 1 THEN s[n + 1] ELSE F[n] \o s[n + 1]
        /\ P[n + 1] = IF n + 1 = 1 THEN s[n + 1] ELSE P[n] \o s[n + 1]
    BY <1>2, <1>3, <2>1
  <2>3. n # 0 => F[n] = P[n] /\ F[n] \in Seq(S)
    BY <1>5
  <2>4. s[n + 1] \in Seq(S)
    BY <1>1, <2>1
  <2>5. F[n + 1] = P[n + 1] /\ F[n + 1] \in Seq(S)
    BY <2>1, <2>2, <2>3, <2>4
  <2>6. QED
    BY <2>1, <2>5
<1>6. G = 0 .. m
  <2>1. G \in SUBSET (0 .. m) /\ 0 \in G
    BY <1>1
  <2> HIDE DEF G, m
  <2>2. QED
    BY <1>1, <1>5, <2>1, GoingUp
<1>7. \A i \in 1 .. m : F[i] = P[i] /\ F[i] \in Seq(S)
  <2>1. \A i \in 1 .. m : i \in 0 .. m /\ i # 0
    OBVIOUS
  <2>2. QED
    BY <1>6, <2>1
<1>8. m # 0 => m \in 1 .. m
  BY <1>1
<1>9. QED
  BY <1>4, <1>7, <1>8

\* One more piece.
LEMMA FlattenMore ==
  ASSUME NEW S, NEW s \in Seq(Seq(S)), NEW t \in Seq(Seq(S)), Len(t) = Len(s) + 1,
         \A i \in 1 .. Len(s) : t[i] = s[i]
  PROVE  FlattenSeq(t) = FlattenSeq(s) \o t[Len(t)] /\ FlattenSeq(s) \in Seq(S)
<1> DEFINE n == Len(s)
<1>1. PICK F : Flattens(F, s)
  BY FlattenExists
<1>2. PICK H : Flattens(H, t)
  BY FlattenExists
<1> DEFINE R == [i \in 1 .. n |-> H[i]]
<1>3. n \in Nat /\ H = [i \in 1 .. (n + 1) |-> IF i = 1 THEN t[i] ELSE H[i - 1] \o t[i]]
  <2>1. H = [i \in 1 .. Len(t) |-> IF i = 1 THEN t[i] ELSE H[i - 1] \o t[i]]
    BY <1>2 DEF Flattens
  <2>2. n \in Nat /\ Len(t) = n + 1
    OBVIOUS
  <2>3. QED
    BY <2>1, <2>2
<1>4. \A i \in 1 .. n : i \in 1 .. (n + 1) /\ (i # 1 => i - 1 \in 1 .. n)
  BY <1>3
<1>5. \A i \in 1 .. n : R[i] = IF i = 1 THEN s[i] ELSE R[i - 1] \o s[i]
  BY <1>3, <1>4
<1>6. Flattens(R, s)
  BY <1>5 DEF Flattens
<1>7. /\ FlattenSeq(s) = IF n = 0 THEN <<>> ELSE R[n]
      /\ \A i \in 1 .. n : R[i] \in Seq(S)
  BY <1>6, FlattenIs
<1>8. FlattenSeq(t) = H[n + 1]
  <2>1. FlattenSeq(t) = IF Len(t) = 0 THEN <<>> ELSE H[Len(t)]
    BY <1>2, FlattenIs
  <2>2. Len(t) = n + 1 /\ n + 1 # 0
    BY <1>3
  <2>3. QED
    BY <2>1, <2>2
<1>9. t[n + 1] \in Seq(S)
  BY <1>3
<1>10. CASE n = 0
  <2>1. H[n + 1] = t[n + 1]
    BY <1>3, <1>10
  <2>2. <<>> \o t[n + 1] = t[n + 1]
    BY <1>9, ConcatEmptySeq
  <2>3. QED
    BY <1>7, <1>8, <1>10, <2>1, <2>2
<1>11. CASE n # 0
  <2>1. n \in 1 .. n /\ n + 1 # 1 /\ n + 1 \in 1 .. (n + 1) /\ (n + 1) - 1 = n
    BY <1>3, <1>11
  <2>2. H[n + 1] = H[n] \o t[n + 1]
    BY <1>3, <2>1
  <2>3. R[n] = H[n]
    BY <2>1
  <2>4. QED
    BY <1>7, <1>8, <1>11, <2>1, <2>2, <2>3
<1>12. QED
  BY <1>10, <1>11

-----------------------------------------------------------------------------
(* The stream *)

Kinds  == {"junk", "lead", "first", "second", "length", "mask", "data"}
Symbol == (Kinds \X Int) \union (Kinds \X Int \X Int)
Byte   == SUBSET Symbol
Cell   == [byte : Byte, data : Seq(Byte)]

LEMMA BytesAre ==
  /\ Zero \in Byte
  /\ \A k \in Int : Junk(k) \in Byte /\ Lead(k) \in Byte /\ First(k) \in Byte /\ Second(k) \in Byte
  /\ \A i, k \in Int : Ext(i, k) \in Byte /\ Mask(i, k) \in Byte /\ Data(i, k) \in Byte
  /\ \A a, b \in Byte : Xor(a, b) \in Byte
<1>0. \A name \in Kinds, i, k \in Int :
         {<<name, k>>} \in Byte /\ {<<name, i, k>>} \in Byte
  <2>1. ASSUME NEW name \in Kinds, NEW i \in Int, NEW k \in Int
        PROVE  <<name, k>> \in Symbol /\ <<name, i, k>> \in Symbol
    BY DEF Symbol
  <2> HIDE DEF Symbol
  <2>2. QED
    BY <2>1 DEF Byte
<1>1. \A k \in Int : Junk(k) \in Byte /\ Lead(k) \in Byte /\ First(k) \in Byte /\ Second(k) \in Byte
  <2>1. "junk" \in Kinds /\ "lead" \in Kinds /\ "first" \in Kinds /\ "second" \in Kinds
    BY DEF Kinds
  <2>2. \A k \in Int : {<<"junk", k>>} \in Byte /\ {<<"lead", k>>} \in Byte
                       /\ {<<"first", k>>} \in Byte /\ {<<"second", k>>} \in Byte
    BY <1>0, <2>1, Zenon
  <2>3. QED
    BY <2>2 DEF Junk, Lead, First, Second
<1>2. \A i, k \in Int : Ext(i, k) \in Byte /\ Mask(i, k) \in Byte /\ Data(i, k) \in Byte
  <2>1. "length" \in Kinds /\ "mask" \in Kinds /\ "data" \in Kinds
    BY DEF Kinds
  <2>2. \A i, k \in Int : {<<"length", i, k>>} \in Byte /\ {<<"mask", i, k>>} \in Byte
                          /\ {<<"data", i, k>>} \in Byte
    BY <1>0, <2>1, Zenon
  <2>3. QED
    BY <2>2 DEF Ext, Mask, Data
<1>3. \A a, b \in Byte : Xor(a, b) \in Byte
  BY DEF Xor, Byte
<1>4. QED
  BY <1>1, <1>2, <1>3 DEF Zero, Byte

\* The payload byte k of frame i on the wire.
PayloadByte(i, f, k) ==
    IF f.masked THEN Xor(Data(i, k), Mask(i, ((k - 1) % 4) + 1)) ELSE Data(i, k)

Masks(f)    == IF f.masked THEN 4 ELSE 0
Ahead(f)    == 2 + ExtSent(f.form) + Masks(f)
FrameLen(f) == Ahead(f) + f.n

FrameType == [fin : BOOLEAN, masked : BOOLEAN, form : Forms, n : Nat]

LEMMA FrameLengths ==
  ASSUME NEW f \in FrameType
  PROVE  /\ ExtSent(f.form) \in {0, 2, 8} /\ Masks(f) \in {0, 4} /\ f.n \in Nat
         /\ Ahead(f) \in Nat /\ Ahead(f) >= 2 /\ FrameLen(f) \in Nat /\ FrameLen(f) >= 2
<1>1. f.form \in {"short", "medium", "long"} /\ f.n \in Nat
  BY DEF FrameType, Forms
<1>2. ExtSent(f.form) \in {0, 2, 8}
  BY <1>1 DEF ExtSent
<1>3. Masks(f) \in {0, 4}
  BY DEF Masks
<1>4. QED
  BY <1>1, <1>2, <1>3 DEF Ahead, FrameLen

\* Sequences behind each other.
LEMMA TwoParts ==
  ASSUME NEW S, NEW a \in Seq(S), NEW b \in Seq(S), NEW m, NEW n, Len(a) = m, Len(b) = n
  PROVE  /\ a \o b \in Seq(S) /\ Len(a \o b) = m + n
         /\ \A k \in 1 .. m : (a \o b)[k] = a[k]
         /\ \A k \in 1 .. n : (a \o b)[m + k] = b[k]
<1> DEFINE x == a \o b
<1>1. /\ x \in Seq(S) /\ Len(x) = Len(a) + Len(b)
      /\ \A i \in 1 .. Len(a) + Len(b) : x[i] = IF i <= Len(a) THEN a[i] ELSE b[i - Len(a)]
  BY ConcatProperties
<1>2. m \in Nat /\ n \in Nat
  OBVIOUS
<1> HIDE DEF x
<1>3. /\ \A k \in 1 .. m : k \in 1 .. m + n /\ k <= m
      /\ \A k \in 1 .. n : m + k \in 1 .. m + n /\ ~(m + k <= m) /\ (m + k) - m = k
  BY <1>2
<1>4. /\ \A k \in 1 .. m : x[k] = a[k]
      /\ \A k \in 1 .. n : x[m + k] = b[k]
  BY <1>1, <1>3
<1>5. QED
  BY <1>1, <1>4 DEF x

Parts(S, a, b, c, d, k, l, m, n) ==
    /\ a \in Seq(S) /\ b \in Seq(S) /\ c \in Seq(S) /\ d \in Seq(S)
    /\ Len(a) = k /\ Len(b) = l /\ Len(c) = m /\ Len(d) = n

Joined(S, w, a, b, c, d, k, l, m, n) ==
    /\ w \in Seq(S)
    /\ Len(w) = k + l + m + n
    /\ \A i \in 1 .. k : w[i] = a[i]
    /\ \A i \in 1 .. l : w[k + i] = b[i]
    /\ \A i \in 1 .. m : w[k + l + i] = c[i]
    /\ \A i \in 1 .. n : w[k + l + m + i] = d[i]

LEMMA FourParts ==
  ASSUME NEW S, NEW a, NEW b, NEW c, NEW d,
         NEW k, NEW l, NEW m, NEW n, Parts(S, a, b, c, d, k, l, m, n)
  PROVE  Joined(S, a \o b \o c \o d, a, b, c, d, k, l, m, n)
<1>0. /\ a \in Seq(S) /\ b \in Seq(S) /\ c \in Seq(S) /\ d \in Seq(S)
      /\ Len(a) = k /\ Len(b) = l /\ Len(c) = m /\ Len(d) = n
  BY DEF Parts
<1> DEFINE p == k + l
           q == p + m
           x == a \o b
           y == x \o c
           z == y \o d
<1>1. /\ x \in Seq(S) /\ Len(x) = p
      /\ \A i \in 1 .. k : x[i] = a[i]
      /\ \A i \in 1 .. l : x[k + i] = b[i]
  BY <1>0, TwoParts
<1>4. k \in Nat /\ l \in Nat /\ m \in Nat /\ n \in Nat
  BY <1>0
<1>41. p \in Nat /\ q \in Nat /\ p = k + l /\ q = k + l + m
  BY <1>4
<1>5. /\ \A i \in 1 .. k : i \in 1 .. p /\ i \in 1 .. q
      /\ \A i \in 1 .. l : k + i \in 1 .. p /\ k + i \in 1 .. q
      /\ \A i \in 1 .. m : p + i \in 1 .. q
  BY <1>4
<1> HIDE DEF x, p
<1>2. /\ y \in Seq(S) /\ Len(y) = q
      /\ \A i \in 1 .. p : y[i] = x[i]
      /\ \A i \in 1 .. m : y[p + i] = c[i]
  <2>1. x \in Seq(S) /\ Len(x) = p /\ c \in Seq(S) /\ Len(c) = m
    BY <1>0, <1>1
  <2>2. Len(y) = p + m => Len(y) = q
    BY DEF q
  <2> HIDE DEF q
  <2>3. QED
    BY <2>1, <2>2, TwoParts
<1> HIDE DEF y, q
<1>3. /\ z \in Seq(S) /\ Len(z) = q + n
      /\ \A i \in 1 .. q : z[i] = y[i]
      /\ \A i \in 1 .. n : z[q + i] = d[i]
  <2>1. y \in Seq(S) /\ Len(y) = q /\ d \in Seq(S) /\ Len(d) = n
    BY <1>0, <1>2
  <2>2. QED
    BY <2>1, TwoParts
<1> HIDE DEF z
<1>6. /\ \A i \in 1 .. k : z[i] = a[i]
      /\ \A i \in 1 .. l : z[k + i] = b[i]
      /\ \A i \in 1 .. m : z[p + i] = c[i]
      /\ \A i \in 1 .. n : z[q + i] = d[i]
  BY <1>1, <1>2, <1>3, <1>5
<1>7. z = a \o b \o c \o d
  BY DEF z, y, x
<1>8. QED
  BY <1>3, <1>6, <1>7, <1>41 DEF Joined

\* What a frame is on the wire, place by place.
LEMMA OnWireIs ==
  ASSUME NEW f \in FrameType, NEW i \in Nat
  PROVE  /\ OnWire(i, f) \in Seq(Cell) /\ Len(OnWire(i, f)) = FrameLen(f)
         /\ OnWire(i, f)[1] = [byte |-> First(i), data |-> <<>>]
         /\ OnWire(i, f)[2] = [byte |-> Second(i), data |-> <<>>]
         /\ \A k \in 1 .. ExtSent(f.form) :
               OnWire(i, f)[2 + k] = [byte |-> Ext(i, k), data |-> <<>>]
         /\ \A k \in 1 .. Masks(f) :
               OnWire(i, f)[2 + ExtSent(f.form) + k] = [byte |-> Mask(i, k), data |-> <<>>]
         /\ \A k \in 1 .. f.n :
               OnWire(i, f)[Ahead(f) + k]
                 = [byte |-> PayloadByte(i, f, k), data |-> <<Data(i, k)>>]
<1> DEFINE bare(b) == [byte |-> b, data |-> <<>>]
           byte(k) == IF f.masked THEN Xor(Data(i, k), Mask(i, ((k - 1) % 4) + 1))
                      ELSE Data(i, k)
           x == ExtSent(f.form)
           m == IF f.masked THEN 4 ELSE 0
           n == f.n
           a == << bare(First(i)), bare(Second(i)) >>
           b == [k \in 1 .. x |-> bare(Ext(i, k))]
           c == [k \in 1 .. m |-> bare(Mask(i, k))]
           d == [k \in 1 .. n |-> [byte |-> byte(k), data |-> <<Data(i, k)>>]]
<1>1. OnWire(i, f) = a \o b \o c \o d
  BY DEF OnWire
<1>2. x \in Nat /\ m \in Nat /\ n \in Nat /\ m = Masks(f)
  BY FrameLengths DEF Masks
<1>3. \A k \in Int : ((k - 1) % 4) + 1 \in Int
  OBVIOUS
<1>4. \A k \in Int : bare(Ext(i, k)) \in Cell /\ bare(Mask(i, k)) \in Cell
  BY BytesAre DEF Cell
<1>5. \A k \in Int : [byte |-> byte(k), data |-> <<Data(i, k)>>] \in Cell
  <2>1. \A k \in Int : byte(k) \in Byte /\ Data(i, k) \in Byte
    BY <1>3, BytesAre
  <2>2. \A k \in Int : <<Data(i, k)>> \in Seq(Byte)
    BY <2>1
  <2>3. QED
    BY <2>1, <2>2 DEF Cell
<1>6. a \in Seq(Cell) /\ Len(a) = 2 /\ a[1] = bare(First(i)) /\ a[2] = bare(Second(i))
  <2>1. bare(First(i)) \in Cell /\ bare(Second(i)) \in Cell
    BY BytesAre DEF Cell
  <2> HIDE DEF bare
  <2>2. QED
    BY <2>1
<1>7. b \in Seq(Cell) /\ Len(b) = x /\ \A k \in 1 .. x : b[k] = bare(Ext(i, k))
  <2> HIDE DEF bare, x
  <2>1. QED
    BY <1>2, <1>4
<1>8. c \in Seq(Cell) /\ Len(c) = m /\ \A k \in 1 .. m : c[k] = bare(Mask(i, k))
  <2> HIDE DEF bare, m
  <2>1. QED
    BY <1>2, <1>4
<1>9. /\ d \in Seq(Cell) /\ Len(d) = n
      /\ \A k \in 1 .. n : d[k] = [byte |-> byte(k), data |-> <<Data(i, k)>>]
  <2> HIDE DEF byte, n
  <2>1. QED
    BY <1>2, <1>5
<1> HIDE DEF a, b, c, d, x, m, n
<1>10. /\ OnWire(i, f) \in Seq(Cell)
       /\ Len(OnWire(i, f)) = 2 + x + m + n
       /\ \A k \in 1 .. 2 : OnWire(i, f)[k] = a[k]
       /\ \A k \in 1 .. x : OnWire(i, f)[2 + k] = b[k]
       /\ \A k \in 1 .. m : OnWire(i, f)[2 + x + k] = c[k]
       /\ \A k \in 1 .. n : OnWire(i, f)[2 + x + m + k] = d[k]
  <2>1. a \in Seq(Cell) /\ b \in Seq(Cell) /\ c \in Seq(Cell) /\ d \in Seq(Cell)
    BY <1>6, <1>7, <1>8, <1>9
  <2>2. Len(a) = 2 /\ Len(b) = x /\ Len(c) = m /\ Len(d) = n
    BY <1>6, <1>7, <1>8, <1>9
  <2> DEFINE w == a \o b \o c \o d
  <2>3. /\ w \in Seq(Cell)
        /\ Len(w) = 2 + x + m + n
        /\ \A k \in 1 .. 2 : w[k] = a[k]
        /\ \A k \in 1 .. x : w[2 + k] = b[k]
        /\ \A k \in 1 .. m : w[2 + x + k] = c[k]
        /\ \A k \in 1 .. n : w[2 + x + m + k] = d[k]
    <3>1. Parts(Cell, a, b, c, d, 2, x, m, n)
      BY <2>1, <2>2 DEF Parts
    <3>2. Joined(Cell, w, a, b, c, d, 2, x, m, n)
      BY <3>1, FourParts, Zenon
    <3> HIDE DEF w
    <3>3. QED
      BY <3>2 DEF Joined
  <2> HIDE DEF w
  <2>4. w = OnWire(i, f)
    BY <1>1 DEF w
  <2>5. QED
    BY <2>3, <2>4
<1>11. 1 \in 1 .. 2 /\ 2 \in 1 .. 2
  OBVIOUS
<1>12. OnWire(i, f)[1] = bare(First(i)) /\ OnWire(i, f)[2] = bare(Second(i))
  BY <1>6, <1>10, <1>11
<1>13. \A k \in 1 .. n : byte(k) = PayloadByte(i, f, k)
  BY DEF PayloadByte
<1> HIDE DEF bare, byte
<1>14. Ahead(f) = 2 + x + m /\ FrameLen(f) = 2 + x + m + n
  BY <1>2 DEF x, n, Ahead, FrameLen
<1>15. \A k \in 1 .. x : OnWire(i, f)[2 + k] = bare(Ext(i, k))
  BY <1>7, <1>10
<1>16. \A k \in 1 .. m : OnWire(i, f)[2 + x + k] = bare(Mask(i, k))
  BY <1>8, <1>10
<1>17. \A k \in 1 .. n : OnWire(i, f)[2 + x + m + k]
                           = [byte |-> PayloadByte(i, f, k), data |-> <<Data(i, k)>>]
  BY <1>9, <1>10, <1>13
<1>18. /\ OnWire(i, f) \in Seq(Cell) /\ Len(OnWire(i, f)) = FrameLen(f)
       /\ \A k \in 1 .. n : OnWire(i, f)[Ahead(f) + k]
                             = [byte |-> PayloadByte(i, f, k), data |-> <<Data(i, k)>>]
  BY <1>10, <1>14, <1>17
<1>19. QED
  BY <1>2, <1>12, <1>15, <1>16, <1>18 DEF bare, x, n

-----------------------------------------------------------------------------
(* Frames one behind the other *)

Wired(fs, i) == FlattenSeq([j \in 1 .. i |-> OnWire(j, fs[j])])

\* The pieces of a stream.
LEMMA WirePieces ==
  ASSUME NEW fs \in Seq(FrameType), NEW i \in 0 .. Len(fs)
  PROVE  /\ [j \in 1 .. i |-> OnWire(j, fs[j])] \in Seq(Seq(Cell))
         /\ Len([j \in 1 .. i |-> OnWire(j, fs[j])]) = i
         /\ Wired(fs, i) \in Seq(Cell)
<1> DEFINE s == [j \in 1 .. i |-> OnWire(j, fs[j])]
<1>1. i \in Nat /\ \A j \in 1 .. i : j \in Nat /\ j \in 1 .. Len(fs)
  OBVIOUS
<1>2. \A j \in 1 .. i : fs[j] \in FrameType
  BY <1>1
<1>3. \A j \in 1 .. i : OnWire(j, fs[j]) \in Seq(Cell)
  BY <1>1, <1>2, OnWireIs
<1>4. s \in Seq(Seq(Cell)) /\ Len(s) = i
  BY <1>1, <1>3, IsASeq
<1> HIDE DEF s
<1>5. PICK F : Flattens(F, s)
  BY <1>4, FlattenExists
<1>6. /\ FlattenSeq(s) = IF Len(s) = 0 THEN <<>> ELSE F[Len(s)]
      /\ \A k \in 1 .. Len(s) : F[k] \in Seq(Cell)
  BY <1>4, <1>5, FlattenIs
<1>7. FlattenSeq(s) \in Seq(Cell)
  <2>1. CASE i = 0
    BY <1>4, <1>6, <2>1
  <2>2. CASE i # 0
    <3>1. i \in 1 .. i
      BY <1>1, <2>2
    <3>2. QED
      BY <1>4, <1>6, <2>2, <3>1
  <2>3. QED
    BY <2>1, <2>2
<1>8. QED
  BY <1>4, <1>7 DEF s, Wired

LEMMA WiredStarts ==
  ASSUME NEW fs \in Seq(FrameType)
  PROVE  Wired(fs, 0) = <<>> /\ Len(Wired(fs, 0)) = 0
<1> DEFINE s == [j \in 1 .. 0 |-> OnWire(j, fs[j])]
<1>1. 0 \in 0 .. Len(fs)
  OBVIOUS
<1>2. s \in Seq(Seq(Cell)) /\ Len(s) = 0
  BY <1>1, WirePieces
<1> HIDE DEF s
<1>3. PICK F : Flattens(F, s)
  BY <1>2, FlattenExists
<1>4. FlattenSeq(s) = <<>>
  BY <1>2, <1>3, FlattenIs
<1>5. QED
  BY <1>4 DEF s, Wired

LEMMA WiredGrows ==
  ASSUME NEW fs \in Seq(FrameType), NEW i \in Nat, i < Len(fs)
  PROVE  Wired(fs, i + 1) = Wired(fs, i) \o OnWire(i + 1, fs[i + 1])
<1> DEFINE s == [j \in 1 .. i |-> OnWire(j, fs[j])]
           t == [j \in 1 .. (i + 1) |-> OnWire(j, fs[j])]
<1>1. i \in 0 .. Len(fs) /\ i + 1 \in 0 .. Len(fs)
  OBVIOUS
<1>2. s \in Seq(Seq(Cell)) /\ Len(s) = i
  BY <1>1, WirePieces
<1>3. t \in Seq(Seq(Cell)) /\ Len(t) = i + 1
  BY <1>1, WirePieces
<1>4. \A j \in 1 .. i : t[j] = s[j]
  <2>1. \A j \in 1 .. i : j \in 1 .. (i + 1)
    OBVIOUS
  <2>2. QED
    BY <2>1
<1>5. t[i + 1] = OnWire(i + 1, fs[i + 1])
  <2>1. i + 1 \in 1 .. (i + 1)
    OBVIOUS
  <2>2. QED
    BY <2>1
<1> HIDE DEF s, t
<1>6. FlattenSeq(t) = FlattenSeq(s) \o t[Len(t)]
  BY <1>2, <1>3, <1>4, FlattenMore
<1>7. QED
  BY <1>3, <1>5, <1>6 DEF s, t, Wired

LEMMA WiredPlaces ==
  ASSUME NEW fs \in Seq(FrameType), NEW i \in Nat, i < Len(fs)
  PROVE  LET f == fs[i + 1]
             m == Len(Wired(fs, i))
         IN  /\ m \in Nat /\ f \in FrameType /\ FrameLen(f) \in Nat /\ FrameLen(f) >= 2
             /\ Len(Wired(fs, i + 1)) = m + FrameLen(f)
             /\ \A k \in 1 .. m : Wired(fs, i + 1)[k] = Wired(fs, i)[k]
             /\ \A k \in 1 .. FrameLen(f) : Wired(fs, i + 1)[m + k] = OnWire(i + 1, f)[k]
<1> DEFINE f == fs[i + 1]
           a == Wired(fs, i)
           b == OnWire(i + 1, f)
           m == Len(a)
           n == FrameLen(f)
<1>1. i \in 0 .. Len(fs) /\ i + 1 \in 1 .. Len(fs) /\ i + 1 \in Nat
  OBVIOUS
<1>2. f \in FrameType
  BY <1>1
<1>3. a \in Seq(Cell) /\ m \in Nat
  <2>1. a \in Seq(Cell)
    BY <1>1, WirePieces
  <2> HIDE DEF a
  <2>2. QED
    BY <2>1
<1> HIDE DEF f
<1>4. b \in Seq(Cell) /\ Len(b) = n
  BY <1>1, <1>2, OnWireIs
<1>5. n \in Nat /\ n >= 2
  BY <1>2, FrameLengths
<1>6. Wired(fs, i + 1) = a \o b
  BY WiredGrows DEF f
<1> HIDE DEF a, b, n
<1>7. /\ Len(a \o b) = m + n
      /\ \A k \in 1 .. m : (a \o b)[k] = a[k]
      /\ \A k \in 1 .. n : (a \o b)[m + k] = b[k]
  BY <1>3, <1>4, TwoParts
<1> HIDE DEF m
<1>8. /\ Len(Wired(fs, i + 1)) = m + n
      /\ \A k \in 1 .. m : Wired(fs, i + 1)[k] = a[k]
      /\ \A k \in 1 .. n : Wired(fs, i + 1)[m + k] = b[k]
  BY <1>6, <1>7
<1>9. QED
  BY <1>2, <1>3, <1>5, <1>8 DEF a, b, f, m, n

\* What is on the wire of the first frames stays there.
LEMMA WiredBegins ==
  ASSUME NEW fs \in Seq(FrameType), NEW n \in 0 .. Len(fs), NEW i \in 0 .. n
  PROVE  /\ Len(Wired(fs, i)) \in Nat /\ Len(Wired(fs, n)) \in Nat
         /\ Len(Wired(fs, i)) <= Len(Wired(fs, n))
         /\ \A k \in 1 .. Len(Wired(fs, i)) : Wired(fs, n)[k] = Wired(fs, i)[k]
<1> DEFINE N == Len(fs)
           L(j) == Len(Wired(fs, j))
           Begins(j, q) == /\ L(j) <= L(q)
                           /\ \A k \in 1 .. L(j) : Wired(fs, q)[k] = Wired(fs, j)[k]
           G == {q \in 0 .. N : \A j \in 0 .. q : Begins(j, q)}
<1>1. N \in Nat
  OBVIOUS
<1>2. \A j \in 0 .. N : L(j) \in Nat
  <2>1. \A j \in 0 .. N : Wired(fs, j) \in Seq(Cell)
    BY WirePieces
  <2>2. QED
    BY <2>1
<1> HIDE DEF N
<1>3. 0 \in G
  <2>1. 0 \in 0 .. N /\ \A j \in 0 .. 0 : j = 0
    BY <1>1
  <2>2. L(0) <= L(0)
    BY <1>2, <2>1
  <2>3. QED
    BY <2>1, <2>2
<1>4. ASSUME NEW q \in 0 .. (N - 1), q \in G
      PROVE  q + 1 \in G
  <2>1. q \in Nat /\ q < N /\ q + 1 \in 0 .. N /\ q \in 0 .. N
    BY <1>1
  <2>2. /\ L(q) <= L(q + 1)
        /\ \A k \in 1 .. L(q) : Wired(fs, q + 1)[k] = Wired(fs, q)[k]
    <3>1. /\ L(q + 1) = L(q) + FrameLen(fs[q + 1]) /\ FrameLen(fs[q + 1]) \in Nat
          /\ \A k \in 1 .. L(q) : Wired(fs, q + 1)[k] = Wired(fs, q)[k]
      BY <2>1, WiredPlaces DEF N
    <3> DEFINE x == L(q)
               y == L(q + 1)
               z == FrameLen(fs[q + 1])
    <3>2. x \in Nat /\ y = x + z /\ z \in Nat
      BY <1>2, <2>1, <3>1
    <3> HIDE DEF x, y, z
    <3>3. x <= y
      BY <3>2
    <3>4. QED
      BY <3>1, <3>3 DEF x, y
  <2>3. ASSUME NEW j \in 0 .. (q + 1)
        PROVE  Begins(j, q + 1)
    <3>1. CASE j = q + 1
      <4>1. L(q + 1) \in Nat
        BY <1>2, <2>1
      <4>2. L(q + 1) <= L(q + 1)
        BY <4>1
      <4>3. QED
        BY <3>1, <4>2
    <3>2. CASE j # q + 1
      <4>1. j \in 0 .. q /\ j \in 0 .. N
        <5> HIDE DEF G, Begins, L
        <5>1. j \in Nat /\ j <= q + 1
          BY <2>1
        <5>2. j <= q
          BY <2>1, <3>2, <5>1
        <5>3. QED
          BY <1>1, <2>1, <5>1, <5>2
      <4>2. L(j) <= L(q) /\ \A k \in 1 .. L(j) : Wired(fs, q)[k] = Wired(fs, j)[k]
        BY <1>4, <4>1
      <4>3. L(j) \in Nat /\ L(q) \in Nat /\ L(q + 1) \in Nat
        BY <1>2, <2>1, <4>1
      <4> HIDE DEF L
      <4>4. L(j) <= L(q + 1) /\ \A k \in 1 .. L(j) : k \in 1 .. L(q)
        BY <2>2, <4>2, <4>3
      <4>5. QED
        BY <2>2, <4>2, <4>4
    <3>3. QED
      BY <3>1, <3>2
  <2> HIDE DEF Begins
  <2>4. QED
    BY <2>1, <2>3
<1>5. G = 0 .. N
  <2>1. G \in SUBSET (0 .. N)
    OBVIOUS
  <2> HIDE DEF G
  <2>2. QED
    BY <1>1, <1>3, <1>4, <2>1, GoingUp
<1>6. n \in 0 .. N /\ i \in 0 .. N /\ n \in G
  BY <1>5 DEF N
<1>7. Begins(i, n)
  BY <1>6
<1>8. QED
  BY <1>2, <1>6, <1>7

LEMMA WiredOrdered ==
  ASSUME NEW fs \in Seq(FrameType), NEW j \in 1 .. Len(fs), NEW i \in 0 .. (j - 1)
  PROVE  /\ Len(Wired(fs, i)) \in Nat /\ Len(Wired(fs, j)) \in Nat
         /\ Len(Wired(fs, i)) + 2 <= Len(Wired(fs, j))
<1> DEFINE x == Len(Wired(fs, i))
           y == Len(Wired(fs, i + 1))
           z == Len(Wired(fs, j))
           n == FrameLen(fs[i + 1])
<1>1. i \in Nat /\ i < Len(fs) /\ i + 1 \in 0 .. j /\ j \in 0 .. Len(fs)
  OBVIOUS
<1>2. x \in Nat /\ n \in Nat /\ n >= 2 /\ y = x + n
  BY <1>1, WiredPlaces
<1>3. z \in Nat /\ y <= z
  BY <1>1, WiredBegins
<1> HIDE DEF x, y, z, n
<1>4. x + 2 <= z
  BY <1>2, <1>3
<1>5. QED
  BY <1>2, <1>3, <1>4 DEF x, z

-----------------------------------------------------------------------------
(* The stream of a reader *)

EndOf(fs, l, i)     == l + Len(Wired(fs, i))
CellAt(fs, l, k)    == IF k <= l THEN [byte |-> Lead(k), data |-> <<>>]
                       ELSE Wired(fs, Len(fs))[k - l]
DataOf(fs, l, a, b) == FlattenSeq([k \in 1 .. (b - a) |-> CellAt(fs, l, a + k).data])

LEMMA EndsAre ==
  ASSUME NEW fs \in Seq(FrameType), NEW l \in Int
  PROVE  /\ \A i \in 0 .. Len(fs) : EndOf(fs, l, i) \in Int /\ EndOf(fs, l, i) >= l
         /\ EndOf(fs, l, 0) = l
         /\ \A i \in 0 .. Len(fs), j \in 0 .. Len(fs) :
               i < j => EndOf(fs, l, i) + 2 <= EndOf(fs, l, j)
         /\ \A i \in 0 .. (Len(fs) - 1) :
               EndOf(fs, l, i + 1) = EndOf(fs, l, i) + FrameLen(fs[i + 1])
<1>1. ASSUME NEW i \in 0 .. Len(fs)
      PROVE  EndOf(fs, l, i) \in Int /\ EndOf(fs, l, i) >= l
  <2>1. Wired(fs, i) \in Seq(Cell)
    BY WirePieces
  <2>2. Len(Wired(fs, i)) \in Nat
    BY <2>1
  <2>3. QED
    BY <2>2 DEF EndOf
<1>2. EndOf(fs, l, 0) = l
  BY WiredStarts DEF EndOf
<1>3. ASSUME NEW i \in 0 .. Len(fs), NEW j \in 0 .. Len(fs), i < j
      PROVE  EndOf(fs, l, i) + 2 <= EndOf(fs, l, j)
  <2>1. j \in 1 .. Len(fs) /\ i \in 0 .. (j - 1)
    BY <1>3
  <2>2. /\ Len(Wired(fs, i)) \in Nat /\ Len(Wired(fs, j)) \in Nat
        /\ Len(Wired(fs, i)) + 2 <= Len(Wired(fs, j))
    BY <2>1, WiredOrdered
  <2>3. QED
    BY <2>2 DEF EndOf
<1>4. ASSUME NEW i \in 0 .. (Len(fs) - 1)
      PROVE  EndOf(fs, l, i + 1) = EndOf(fs, l, i) + FrameLen(fs[i + 1])
  <2>1. i \in Nat /\ i < Len(fs)
    OBVIOUS
  <2>2. /\ Len(Wired(fs, i)) \in Nat /\ FrameLen(fs[i + 1]) \in Nat
        /\ Len(Wired(fs, i + 1)) = Len(Wired(fs, i)) + FrameLen(fs[i + 1])
    BY <2>1, WiredPlaces
  <2>3. QED
    BY <2>2 DEF EndOf
<1>5. QED
  BY <1>1, <1>2, <1>3, <1>4

LEMMA CellsAre ==
  ASSUME NEW fs \in Seq(FrameType), NEW l \in Int,
         NEW k \in Int, k >= 1, k <= EndOf(fs, l, Len(fs))
  PROVE  CellAt(fs, l, k) \in Cell
<1>1. CASE k <= l
  <2>1. Lead(k) \in Byte /\ <<>> \in Seq(Byte)
    BY BytesAre
  <2>2. QED
    BY <1>1, <2>1 DEF CellAt, Cell
<1>2. CASE ~(k <= l)
  <2>1. Wired(fs, Len(fs)) \in Seq(Cell)
    <3>1. Len(fs) \in 0 .. Len(fs)
      OBVIOUS
    <3>2. QED
      BY <3>1, WirePieces
  <2> DEFINE w == Wired(fs, Len(fs))
  <2>2. k <= l + Len(w)
    BY DEF EndOf
  <2> HIDE DEF w
  <2>3. w \in Seq(Cell)
    BY <2>1 DEF w
  <2>4. k - l \in 1 .. Len(w)
    BY <1>2, <2>2, <2>3
  <2>5. w[k - l] \in Cell
    BY <2>3, <2>4
  <2>6. QED
    BY <1>2, <2>5 DEF CellAt, w
<1>3. QED
  BY <1>1, <1>2

\* The cells of the frame behind place EndOf(fs, l, i).
LEMMA CellsOfFrame ==
  ASSUME NEW fs \in Seq(FrameType), NEW l \in Int, NEW i \in 0 .. (Len(fs) - 1)
  PROVE  \A k \in 1 .. FrameLen(fs[i + 1]) :
            CellAt(fs, l, EndOf(fs, l, i) + k) = OnWire(i + 1, fs[i + 1])[k]
<1> DEFINE w == Wired(fs, Len(fs))
           v == Wired(fs, i + 1)
           m == Len(Wired(fs, i))
           n == FrameLen(fs[i + 1])
<1>1. i \in Nat /\ i < Len(fs) /\ i + 1 \in 0 .. Len(fs) /\ Len(fs) \in 0 .. Len(fs)
  OBVIOUS
<1>2. /\ m \in Nat /\ n \in Nat /\ Len(v) = m + n
      /\ \A k \in 1 .. n : v[m + k] = OnWire(i + 1, fs[i + 1])[k]
  BY <1>1, WiredPlaces
<1>3. \A k \in 1 .. Len(v) : w[k] = v[k]
  BY <1>1, WiredBegins
<1>4. SUFFICES ASSUME NEW k \in 1 .. n
               PROVE  CellAt(fs, l, l + m + k) = OnWire(i + 1, fs[i + 1])[k]
  BY DEF EndOf
<1> HIDE DEF m, n, v
<1>5. m + k \in 1 .. Len(v) /\ ~(l + m + k <= l) /\ (l + m + k) - l = m + k
  BY <1>2
<1>6. CellAt(fs, l, l + m + k) = w[m + k]
  BY <1>5 DEF CellAt
<1>7. QED
  BY <1>2, <1>3, <1>5, <1>6

-----------------------------------------------------------------------------
(* The data of a stream *)

LEMMA OneMore ==
  ASSUME NEW S, NEW s \in Seq(S), NEW x \in S
  PROVE  /\ Len(s \o <<x>>) = Len(s) + 1
         /\ \A k \in 1 .. Len(s) : (s \o <<x>>)[k] = s[k]
         /\ (s \o <<x>>)[Len(s) + 1] = x
<1> DEFINE w == <<x>>
           z == s \o w
<1>1. w \in Seq(S) /\ Len(w) = 1 /\ w[1] = x
  OBVIOUS
<1> HIDE DEF w
<1>2. /\ Len(z) = Len(s) + Len(w)
      /\ \A i \in 1 .. Len(s) + Len(w) : z[i] = IF i <= Len(s) THEN s[i] ELSE w[i - Len(s)]
  BY <1>1, ConcatProperties
<1> HIDE DEF z
<1>3. Len(s) \in Nat
  OBVIOUS
<1>4. QED
  BY <1>1, <1>2, <1>3 DEF z, w

\* The data of the cells between two places.
LEMMA DataPieces ==
  ASSUME NEW fs \in Seq(FrameType), NEW l \in Int,
         NEW a \in Nat, NEW b \in Nat, a <= b, b <= EndOf(fs, l, Len(fs))
  PROVE  /\ [k \in 1 .. (b - a) |-> CellAt(fs, l, a + k).data] \in Seq(Seq(Byte))
         /\ Len([k \in 1 .. (b - a) |-> CellAt(fs, l, a + k).data]) = b - a
<1>0. Len(fs) \in 0 .. Len(fs)
  OBVIOUS
<1>1. EndOf(fs, l, Len(fs)) \in Int
  BY <1>0, EndsAre
<1> DEFINE e == EndOf(fs, l, Len(fs))
<1>2. ASSUME NEW k \in 1 .. (b - a)
      PROVE  CellAt(fs, l, a + k).data \in Seq(Byte)
  <2>1. e \in Int /\ b <= e
    BY <1>1
  <2> HIDE DEF e
  <2>2. a + k \in Int /\ a + k >= 1 /\ a + k <= e
    BY <2>1
  <2>3. CellAt(fs, l, a + k) \in Cell
    BY <2>2, CellsAre DEF e
  <2>4. QED
    BY <2>3 DEF Cell
<1>3. b - a \in Nat
  OBVIOUS
<1>4. QED
  BY <1>2, <1>3, IsASeq

LEMMA DataStarts ==
  ASSUME NEW fs \in Seq(FrameType), NEW l \in Int,
         NEW a \in Nat, a <= EndOf(fs, l, Len(fs))
  PROVE  DataOf(fs, l, a, a) = <<>>
<1> DEFINE s == [k \in 1 .. (a - a) |-> CellAt(fs, l, a + k).data]
<1>1. a <= a /\ a - a = 0
  OBVIOUS
<1>2. s \in Seq(Seq(Byte)) /\ Len(s) = 0
  BY <1>1, DataPieces
<1> HIDE DEF s
<1>3. PICK F : Flattens(F, s)
  BY <1>2, FlattenExists
<1>4. FlattenSeq(s) = <<>>
  BY <1>2, <1>3, FlattenIs
<1>5. QED
  BY <1>4 DEF s, DataOf

LEMMA DataMore ==
  ASSUME NEW fs \in Seq(FrameType), NEW l \in Int,
         NEW a \in Nat, NEW b \in Nat, a <= b, b + 1 <= EndOf(fs, l, Len(fs))
  PROVE  /\ DataOf(fs, l, a, b) \in Seq(Byte)
         /\ DataOf(fs, l, a, b + 1) = DataOf(fs, l, a, b) \o CellAt(fs, l, b + 1).data
<1> DEFINE s == [k \in 1 .. (b - a) |-> CellAt(fs, l, a + k).data]
           t == [k \in 1 .. ((b + 1) - a) |-> CellAt(fs, l, a + k).data]
           e == EndOf(fs, l, Len(fs))
<1>0. Len(fs) \in 0 .. Len(fs)
  OBVIOUS
<1>1. e \in Int /\ b + 1 <= e
  BY <1>0, EndsAre
<1>2. b <= e /\ b + 1 \in Nat /\ a <= b + 1
  <2> HIDE DEF e
  <2>1. QED
    BY <1>1
<1>3. s \in Seq(Seq(Byte)) /\ Len(s) = b - a
  BY <1>2, DataPieces
<1>4. t \in Seq(Seq(Byte)) /\ Len(t) = (b + 1) - a
  BY <1>1, <1>2, DataPieces
<1>5. (b + 1) - a = (b - a) + 1 /\ b - a \in Nat /\ a + ((b - a) + 1) = b + 1
  OBVIOUS
<1>6. \A k \in 1 .. (b - a) : t[k] = s[k]
  <2>1. \A k \in 1 .. (b - a) : k \in 1 .. ((b + 1) - a)
    BY <1>5
  <2>2. QED
    BY <2>1
<1>7. t[(b - a) + 1] = CellAt(fs, l, b + 1).data
  <2>1. (b - a) + 1 \in 1 .. ((b + 1) - a)
    BY <1>5
  <2>2. t[(b - a) + 1] = CellAt(fs, l, a + ((b - a) + 1)).data
    BY <2>1
  <2>3. QED
    BY <1>5, <2>2
<1> HIDE DEF s, t, e
<1>8. Len(t) = Len(s) + 1
  BY <1>3, <1>4, <1>5
<1>9. FlattenSeq(t) = FlattenSeq(s) \o t[Len(t)] /\ FlattenSeq(s) \in Seq(Byte)
  BY <1>3, <1>4, <1>6, <1>8, FlattenMore
<1>10. t[Len(t)] = CellAt(fs, l, b + 1).data
  BY <1>4, <1>5, <1>7
<1>11. QED
  BY <1>9, <1>10 DEF s, t, DataOf

\* Data is a sequence of bytes.
LEMMA DataIs ==
  ASSUME NEW fs \in Seq(FrameType), NEW l \in Int,
         NEW a \in Nat, NEW b \in Nat, a <= b, b <= EndOf(fs, l, Len(fs))
  PROVE  DataOf(fs, l, a, b) \in Seq(Byte)
<1>1. CASE a = b
  <2>1. DataOf(fs, l, a, b) = <<>>
    BY <1>1, DataStarts
  <2>2. QED
    BY <2>1
<1>2. CASE a < b
  <2> DEFINE c == b - 1
             x == CellAt(fs, l, c + 1).data
             d == DataOf(fs, l, a, c)
  <2>1. c \in Nat /\ a <= c /\ c + 1 = b
    BY <1>2
  <2> HIDE DEF c
  <2>2. c + 1 <= EndOf(fs, l, Len(fs))
    BY <2>1
  <2>3. d \in Seq(Byte) /\ DataOf(fs, l, a, c + 1) = d \o x
    BY <2>1, <2>2, DataMore
  <2>4. x \in Seq(Byte)
    <3>1. c + 1 \in Int /\ c + 1 >= 1
      BY <2>1
    <3>2. CellAt(fs, l, c + 1) \in Cell
      BY <2>2, <3>1, CellsAre
    <3>3. QED
      BY <3>2 DEF Cell
  <2>5. DataOf(fs, l, a, b) = DataOf(fs, l, a, c + 1)
    BY <2>1
  <2> HIDE DEF d, x
  <2>6. d \o x \in Seq(Byte)
    BY <2>3, <2>4
  <2>7. QED
    BY <2>3, <2>5, <2>6
<1>3. QED
  BY <1>1, <1>2

\* Cells without data.
LEMMA DataBare ==
  ASSUME NEW fs \in Seq(FrameType), NEW l \in Int,
         NEW a \in Nat, NEW b \in Nat, a <= b,
         NEW n \in Nat, b + n <= EndOf(fs, l, Len(fs)),
         \A k \in 1 .. n : CellAt(fs, l, b + k).data = <<>>
  PROVE  DataOf(fs, l, a, b + n) = DataOf(fs, l, a, b)
<1> DEFINE e == EndOf(fs, l, Len(fs))
           x == DataOf(fs, l, a, b)
           G == {m \in 0 .. n : DataOf(fs, l, a, b + m) = x}
<1>0. Len(fs) \in 0 .. Len(fs)
  OBVIOUS
<1>1. e \in Int /\ b + n <= e
  BY <1>0, EndsAre
<1>2. 0 \in G
  <2>1. b + 0 = b /\ 0 \in 0 .. n
    OBVIOUS
  <2>2. QED
    BY <2>1
<1>3. ASSUME NEW m \in 0 .. (n - 1), m \in G
      PROVE  m + 1 \in G
  <2> DEFINE c == b + m
  <2>1. /\ c \in Nat /\ a <= c /\ c + 1 <= e /\ b + (m + 1) = c + 1
        /\ m + 1 \in 0 .. n /\ m + 1 \in 1 .. n
    <3> HIDE DEF e, G
    <3>1. m \in Nat /\ m < n
      OBVIOUS
    <3>2. QED
      BY <1>1, <3>1
  <2>2. DataOf(fs, l, a, c) = x
    BY <1>3
  <2>3. CellAt(fs, l, b + (m + 1)).data = <<>>
    BY <2>1
  <2>4. CellAt(fs, l, c + 1).data = <<>>
    BY <2>1, <2>3
  <2> HIDE DEF c
  <2>5. /\ DataOf(fs, l, a, c) \in Seq(Byte)
        /\ DataOf(fs, l, a, c + 1) = DataOf(fs, l, a, c) \o CellAt(fs, l, c + 1).data
    BY <2>1, DataMore
  <2> HIDE DEF x
  <2>6. DataOf(fs, l, a, c + 1) = x
    <3>1. x \in Seq(Byte) /\ DataOf(fs, l, a, c + 1) = x \o <<>>
      BY <2>2, <2>4, <2>5
    <3>2. x \o <<>> = x
      BY <3>1, ConcatEmptySeq
    <3>3. QED
      BY <3>1, <3>2
  <2>7. QED
    BY <2>1, <2>6
<1>4. G = 0 .. n
  <2>1. G \in SUBSET (0 .. n)
    OBVIOUS
  <2> HIDE DEF G
  <2>2. QED
    BY <1>2, <1>3, <2>1, GoingUp
<1>5. n \in G
  <2> HIDE DEF G
  <2>1. n \in 0 .. n
    OBVIOUS
  <2>2. QED
    BY <1>4, <2>1
<1>6. QED
  BY <1>5

\* y goes on behind x with these n bytes.
GoesOn(x, y, n, D) ==
    /\ Len(y) = Len(x) + n
    /\ \A k \in 1 .. Len(x) : y[k] = x[k]
    /\ \A k \in 1 .. n : y[Len(x) + k] = D[k]

\* Cells with a byte of data each.
LEMMA DataFull ==
  ASSUME NEW fs \in Seq(FrameType), NEW l \in Int,
         NEW a \in Nat, NEW b \in Nat, a <= b,
         NEW n \in Nat, b + n <= EndOf(fs, l, Len(fs)), NEW D,
         \A k \in 1 .. n : D[k] \in Byte /\ CellAt(fs, l, b + k).data = <<D[k]>>
  PROVE  GoesOn(DataOf(fs, l, a, b), DataOf(fs, l, a, b + n), n, D)
<1> DEFINE e == EndOf(fs, l, Len(fs))
           x == DataOf(fs, l, a, b)
           y(m) == DataOf(fs, l, a, b + m)
           G == {m \in 0 .. n : GoesOn(x, y(m), m, D)}
<1>0. Len(fs) \in 0 .. Len(fs)
  OBVIOUS
<1>1. e \in Int /\ b + n <= e
  BY <1>0, EndsAre
<1>11. x \in Seq(Byte)
  <2>1. b <= e
    <3> HIDE DEF e
    <3>1. QED
      BY <1>1
  <2>2. QED
    BY <2>1, DataIs
<1>2. 0 \in G
  <2>1. b + 0 = b /\ 0 \in 0 .. n
    OBVIOUS
  <2>2. y(0) = x
    BY <2>1
  <2> HIDE DEF x, y
  <2>3. Len(x) = Len(x) + 0
    BY <1>11
  <2>4. QED
    BY <2>1, <2>2, <2>3 DEF GoesOn
<1>3. ASSUME NEW m \in 0 .. (n - 1), m \in G
      PROVE  m + 1 \in G
  <2> DEFINE c == b + m
  <2>1. /\ c \in Nat /\ a <= c /\ c + 1 <= e /\ b + (m + 1) = c + 1
        /\ m + 1 \in 0 .. n /\ m + 1 \in 1 .. n
    <3> HIDE DEF e, G
    <3>1. m \in Nat /\ m < n
      OBVIOUS
    <3>2. QED
      BY <1>1, <3>1
  <2>2. GoesOn(x, DataOf(fs, l, a, c), m, D)
    BY <1>3
  <2>3. CellAt(fs, l, b + (m + 1)).data = <<D[m + 1]>> /\ D[m + 1] \in Byte
    BY <2>1
  <2>4. CellAt(fs, l, c + 1).data = <<D[m + 1]>>
    BY <2>1, <2>3
  <2> HIDE DEF c
  <2>5. /\ DataOf(fs, l, a, c) \in Seq(Byte)
        /\ DataOf(fs, l, a, c + 1) = DataOf(fs, l, a, c) \o CellAt(fs, l, c + 1).data
    BY <2>1, DataMore
  <2> DEFINE u == DataOf(fs, l, a, c)
             v == DataOf(fs, l, a, c + 1)
             w == <<D[m + 1]>>
             p == Len(x) + m
  <2>6. u \in Seq(Byte) /\ D[m + 1] \in Byte /\ v = u \o w
    BY <2>3, <2>4, <2>5
  <2>7. GoesOn(x, v, m + 1, D)
    <3>1. m \in Nat /\ Len(x) \in Nat /\ Len(u) = p /\ p \in Nat
      <4>1. m \in Nat /\ Len(u) = p
        BY <2>2 DEF GoesOn
      <4> HIDE DEF x
      <4>2. QED
        BY <1>11, <4>1
    <3> HIDE DEF x, u, v, w, p, G, e
    <3>2. /\ Len(u \o w) = p + 1
          /\ \A k \in 1 .. p : (u \o w)[k] = u[k]
          /\ (u \o w)[p + 1] = D[m + 1]
      <4> DEFINE z == D[m + 1]
      <4>1. u \in Seq(Byte) /\ z \in Byte /\ w = <<z>>
        BY <2>6 DEF w
      <4> HIDE DEF z
      <4>2. /\ Len(u \o <<z>>) = Len(u) + 1
            /\ \A k \in 1 .. Len(u) : (u \o <<z>>)[k] = u[k]
            /\ (u \o <<z>>)[Len(u) + 1] = z
        BY <4>1, OneMore
      <4>3. Len(u) = p
        BY <3>1
      <4>4. QED
        BY <4>1, <4>2, <4>3 DEF z
    <3>3. Len(v) = Len(x) + (m + 1)
      BY <2>6, <3>1, <3>2 DEF p
    <3>4. \A k \in 1 .. Len(x) : v[k] = x[k]
      <4>1. \A k \in 1 .. Len(x) : k \in 1 .. p
        BY <3>1 DEF p
      <4>2. \A k \in 1 .. Len(x) : u[k] = x[k]
        BY <2>2 DEF GoesOn, u
      <4>3. QED
        BY <2>6, <3>2, <4>1, <4>2
    <3>5. \A k \in 1 .. (m + 1) : v[Len(x) + k] = D[k]
      <4>1. \A k \in 1 .. m : u[Len(x) + k] = D[k]
        BY <2>2 DEF GoesOn, u
      <4>2. \A k \in 1 .. m : Len(x) + k \in 1 .. p
        BY <3>1 DEF p
      <4>3. v[p + 1] = D[m + 1]
        BY <2>6, <3>2
      <4>4. \A k \in 1 .. (m + 1) : k \in 1 .. m \/ k = m + 1
        BY <3>1
      <4>5. p + 1 = Len(x) + (m + 1)
        BY <3>1 DEF p
      <4>6. QED
        BY <2>6, <3>2, <4>1, <4>2, <4>3, <4>4, <4>5
    <3>6. QED
      BY <3>3, <3>4, <3>5 DEF GoesOn
  <2>8. y(m + 1) = v
    BY <2>1
  <2>9. QED
    BY <2>1, <2>7, <2>8
<1>4. G = 0 .. n
  <2>1. G \in SUBSET (0 .. n)
    OBVIOUS
  <2> HIDE DEF G
  <2>2. QED
    BY <1>2, <1>3, <2>1, GoingUp
<1>5. n \in G
  <2>1. n \in 0 .. n
    OBVIOUS
  <2> HIDE DEF G
  <2>2. QED
    BY <1>4, <2>1
<1>6. QED
  BY <1>5

-----------------------------------------------------------------------------
(* Bytes that start as the data did *)

Spoils(fs, byte) == \E i \in DOMAIN fs : \E k \in 1 .. fs[i].n :
                       byte = Data(i, k) /\ ~fs[i].masked

Starts(fs, bytes, data) ==
    /\ Len(data) <= Len(bytes)
    /\ \A k \in DOMAIN data : bytes[k] = data[k] \/ Spoils(fs, data[k])

\* All of the data and nothing else.
Whole(fs, bytes, data) == Starts(fs, bytes, data) /\ Len(bytes) = Len(data)

LEMMA StartsStill ==
  ASSUME NEW fs, NEW x \in Seq(Byte), NEW y \in Seq(Byte), NEW d \in Seq(Byte),
         Starts(fs, x, d)
  PROVE  Starts(fs, x \o y, d)
<1> DEFINE m == Len(x)
           n == Len(y)
           z == x \o y
<1>1. Len(z) = m + n /\ \A k \in 1 .. m : z[k] = x[k]
  BY TwoParts
<1>2. m \in Nat /\ n \in Nat /\ Len(d) \in Nat /\ DOMAIN d = 1 .. Len(d)
  OBVIOUS
<1> HIDE DEF m, n, z
<1>3. Len(d) <= m /\ \A k \in 1 .. Len(d) : x[k] = d[k] \/ Spoils(fs, d[k])
  BY <1>2 DEF Starts, m
<1>4. Len(d) <= Len(z) /\ \A k \in 1 .. Len(d) : k \in 1 .. m
  BY <1>1, <1>2, <1>3
<1>5. Starts(fs, z, d)
  BY <1>1, <1>2, <1>3, <1>4 DEF Starts
<1>6. QED
  BY <1>5 DEF z

LEMMA StartsMore ==
  ASSUME NEW fs, NEW x \in Seq(Byte), NEW p \in Seq(Byte),
         NEW d \in Seq(Byte), NEW e \in Seq(Byte), NEW n \in Nat, NEW D,
         Whole(fs, x, d), GoesOn(d, e, n, D), n <= Len(p),
         \A k \in 1 .. n : p[k] = D[k] \/ Spoils(fs, D[k])
  PROVE  Starts(fs, x \o p, e) /\ (n = Len(p) => Whole(fs, x \o p, e))
<1> DEFINE m == Len(x)
           q == Len(p)
           z == x \o p
<1>1. /\ Len(z) = m + q
      /\ \A k \in 1 .. m : z[k] = x[k]
      /\ \A k \in 1 .. q : z[m + k] = p[k]
  BY TwoParts
<1>2. m \in Nat /\ q \in Nat /\ n <= q /\ DOMAIN e = 1 .. Len(e) /\ DOMAIN d = 1 .. Len(d)
  OBVIOUS
<1>3. /\ Len(d) = m
      /\ \A k \in 1 .. m : x[k] = d[k] \/ Spoils(fs, d[k])
      /\ Len(e) = m + n
      /\ \A k \in 1 .. m : e[k] = d[k]
      /\ \A k \in 1 .. n : e[m + k] = D[k]
  BY <1>2 DEF Whole, Starts, GoesOn
<1> HIDE DEF m, q, z
<1>4. Len(e) <= Len(z) /\ (n = q => Len(z) = Len(e))
  <2>1. Len(z) = m + q /\ Len(e) = m + n
    BY <1>1, <1>3
  <2>2. m + n <= m + q /\ (n = q => m + n = m + q)
    BY <1>2
  <2>3. QED
    BY <2>1, <2>2, Zenon
<1>5. ASSUME NEW k \in DOMAIN e
      PROVE  z[k] = e[k] \/ Spoils(fs, e[k])
  <2>1. k \in 1 .. m \/ (k - m \in 1 .. n /\ k - m \in 1 .. q /\ m + (k - m) = k)
    BY <1>2, <1>3
  <2>2. CASE k \in 1 .. m
    BY <1>1, <1>3, <2>2
  <2>3. CASE k - m \in 1 .. n /\ k - m \in 1 .. q /\ m + (k - m) = k
    <3>1. z[m + (k - m)] = p[k - m] /\ e[m + (k - m)] = D[k - m]
      BY <1>1, <1>3, <2>3
    <3>2. p[k - m] = D[k - m] \/ Spoils(fs, D[k - m])
      BY <2>3
    <3>3. QED
      BY <2>3, <3>1, <3>2
  <2>4. QED
    BY <2>1, <2>2, <2>3
<1>6. Starts(fs, z, e)
  BY <1>4, <1>5 DEF Starts
<1>7. QED
  BY <1>4, <1>6 DEF z, q, Whole

LEMMA XorTwice == ASSUME NEW a, NEW b PROVE Xor(Xor(a, b), b) = a
  BY DEF Xor

-----------------------------------------------------------------------------
(* The stream of the model is the one above *)

LEMMA SameWords ==
  ASSUME frames \in Streams
  PROVE  /\ frames \in Seq(FrameType)
         /\ \A i \in 0 .. Len(frames) : EndsAt(i) = EndOf(frames, lead, i)
         /\ Sum = EndOf(frames, lead, Len(frames))
         /\ \A k : Wire(k) = CellAt(frames, lead, k)
         /\ \A a, b : Sent(a, b) = DataOf(frames, lead, a, b)
         /\ \A x, y : StartsAs(x, y) <=> Starts(frames, x, y)
<1>1. frames \in Seq(FrameType)
  BY ReaderAssumption DEF FrameType
<1>2. WireOf[frames] = [i \in 0 .. Len(frames) |-> Wired(frames, i)]
  BY DEF WireOf, Wired
<1>3. \A i \in 0 .. Len(frames) : EndsAt(i) = EndOf(frames, lead, i)
  BY <1>2 DEF EndsAt, EndOf
<1>4. Len(frames) \in 0 .. Len(frames)
  BY <1>1
<1>5. WireOf[frames][Len(frames)] = Wired(frames, Len(frames))
  BY <1>2, <1>4
<1>6. Sum = EndOf(frames, lead, Len(frames))
  BY <1>5 DEF Sum, EndOf
<1>7. \A k : Wire(k) = CellAt(frames, lead, k)
  BY <1>5 DEF Wire, CellAt
<1>8. \A a, b : Sent(a, b) = DataOf(frames, lead, a, b)
  BY <1>7 DEF Sent, DataOf
<1>9. \A b : Spoilt(b) <=> Spoils(frames, b)
  BY DEF Spoilt, Spoils
<1>10. \A x, y : StartsAs(x, y) <=> Starts(frames, x, y)
  BY <1>9 DEF StartsAs, Starts
<1>11. QED
  BY <1>1, <1>3, <1>6, <1>7, <1>8, <1>10

-----------------------------------------------------------------------------
(* Types *)

Places == {"idle", "header", "extended", "length", "payload", "append"}

Types ==
    /\ frames \in Streams
    /\ lead \in Int
    /\ delivered \in Nat /\ got \in Nat /\ from \in Nat
    /\ from <= got /\ got <= delivered
    /\ delivered <= EndOf(frames, lead, Len(frames))
    /\ ended \in {"no", "closed", "reset"}
    /\ pc \in Places
    /\ pc \in {"extended", "length"} => buf \in [1 .. 12 -> Byte]
    /\ head \in Headers
    /\ mask \in [1 .. 4 -> Byte]
    /\ payload \in Seq(Byte)
    /\ message \in Seq(Byte)
    /\ result = "ok" => pc = "idle"
    /\ at = "recv" => /\ pc = "idle" /\ lead = 0 /\ got = 0 /\ from = 0
                      /\ message = <<>>
    /\ arrived \in 0 .. Len(Request)
    /\ room \in Rooms

LEMMA LengthsAre ==
  ASSUME NEW n \in Lengths \union {0}
  PROVE  n \in Nat
<1>1. Lengths \subseteq Nat
  <2>1. ASSUME NEW fs \in Streams, NEW i \in DOMAIN fs
        PROVE  fs[i].n \in Nat
    <3>1. fs \in Seq(FrameType)
      BY ReaderAssumption DEF FrameType
    <3>2. fs[i] \in FrameType
      BY <3>1
    <3>3. QED
      BY <3>2 DEF FrameType
  <2>2. QED
    BY <2>1 DEF Lengths
<1>2. n = 0 => n \in Nat
  OBVIOUS
<1>3. QED
  BY <1>1, <1>2, Zenon

LEMMA HeadIs ==
  ASSUME head \in Headers
  PROVE  /\ head.n \in Nat /\ head.form \in Forms /\ head.masked \in BOOLEAN /\ head.fin \in BOOLEAN
         /\ Asked \in Nat /\ Asked <= 8 /\ ExtRead(head.form) \in {0, 2, 4}
<1>2. /\ head.n \in Lengths \union {0} /\ head.form \in Forms
      /\ head.masked \in BOOLEAN /\ head.fin \in BOOLEAN
  BY DEF Headers
<1>3. ExtRead(head.form) \in {0, 2, 4}
  BY <1>2 DEF Forms, ExtRead
<1>4. head.n \in Nat
  BY <1>2, LengthsAre
<1>5. Asked \in Nat /\ Asked <= 8
  <2>1. ExtRead(head.form) = 0 \/ ExtRead(head.form) = 2 \/ ExtRead(head.form) = 4
    BY <1>3
  <2>2. Asked = ExtRead(head.form) + 4 \/ Asked = ExtRead(head.form) + 0
    BY DEF Asked
  <2>3. QED
    BY <2>1, <2>2
<1>6. QED
  BY <1>2, <1>3, <1>4, <1>5, Zenon

\* What a recv of n bytes comes to.
LEMMA RecvIs ==
  ASSUME Types, NEW n \in Nat, Returns(n)
  PROVE  /\ Status(n) \in Int /\ Status(n) <= n
         /\ Status(n) >= 0 => got + Status(n) \in Nat /\ got + Status(n) <= delivered
         /\ DOMAIN Taken(n) = 1 .. Status(n)
         /\ \A k \in 1 .. Status(n) :
               /\ Taken(n)[k] \in Byte
               /\ Taken(n)[k] = CellAt(frames, lead, got + k).byte
         /\ \/ Status(n) = n
            \/ ended # "no" /\ Status(n) >= 0 /\ Status(n) < n /\ got + Status(n) = delivered
            \/ ended # "no" /\ Status(n) < 0 /\ got = delivered /\ n > 0
<1> DEFINE s == Status(n)
<1>1. got \in Nat /\ delivered \in Nat /\ got <= delivered /\ Left = delivered - got
  BY DEF Types, Left
<1>2. Left >= n \/ ended # "no"
  BY DEF Returns
<1>3. s = IF Left >= n THEN n ELSE IF Left = 0 /\ ended = "reset" THEN -1 ELSE Left
  BY DEF Status, Refused
<1>4. /\ s \in Int /\ s <= n
      /\ s >= 0 => got + s \in Nat /\ got + s <= delivered
      /\ \/ s = n
         \/ ended # "no" /\ s >= 0 /\ s < n /\ got + s = delivered
         \/ ended # "no" /\ s < 0 /\ got = delivered /\ n > 0
  <2> HIDE DEF s
  <2>1. CASE Left >= n
    BY <1>1, <1>3, <2>1
  <2>2. CASE ~(Left >= n) /\ Left = 0 /\ ended = "reset"
    BY <1>1, <1>3, <2>2
  <2>3. CASE ~(Left >= n) /\ ~(Left = 0 /\ ended = "reset")
    BY <1>1, <1>2, <1>3, <2>3
  <2>4. QED
    BY <2>1, <2>2, <2>3
<1>5. DOMAIN Taken(n) = 1 .. s /\ \A k \in 1 .. s : Taken(n)[k] = Wire(got + k).byte
  BY DEF Taken
<1>6. ASSUME NEW k \in 1 .. s
      PROVE  Taken(n)[k] \in Byte /\ Taken(n)[k] = CellAt(frames, lead, got + k).byte
  <2>1. frames \in Streams
    BY DEF Types
  <2>2. /\ frames \in Seq(FrameType)
        /\ \A j : Wire(j) = CellAt(frames, lead, j)
    BY <2>1, SameWords
  <2> DEFINE e == EndOf(frames, lead, Len(frames))
  <2>3. e \in Int /\ delivered <= e /\ lead \in Int
    <3>1. Len(frames) \in 0 .. Len(frames)
      BY <2>2
    <3>2. lead \in Int /\ delivered <= e
      BY DEF Types
    <3>3. QED
      BY <2>2, <3>1, <3>2, EndsAre
  <2> HIDE DEF e, s
  <2>4. got + k \in Int /\ got + k >= 1 /\ got + k <= e
    BY <1>1, <1>4, <2>3
  <2>5. CellAt(frames, lead, got + k) \in Cell
    BY <2>2, <2>3, <2>4, CellsAre DEF e
  <2>6. CellAt(frames, lead, got + k).byte \in Byte
    BY <2>5 DEF Cell
  <2>7. QED
    BY <1>5, <2>2, <2>6
<1>7. QED
  BY <1>4, <1>5, <1>6

LEMMA NotRefusedIs ==
  ASSUME Types, NEW n \in Nat, ~Refused
  PROVE  Status(n) >= 0
<1>1. got \in Nat /\ delivered \in Nat /\ got <= delivered /\ Left = delivered - got
  BY DEF Types, Left
<1>2. Status(n) = n \/ Status(n) = Left
  BY DEF Status
<1>3. QED
  BY <1>1, <1>2

LEMMA OverIs ==
  ASSUME NEW D, NEW old \in [D -> Byte], NEW new, \A k \in DOMAIN new : new[k] \in Byte
  PROVE  /\ Over(old, new) \in [D -> Byte]
         /\ \A k \in D : Over(old, new)[k] = IF k \in DOMAIN new THEN new[k] ELSE old[k]
  BY DEF Over

LEMMA SomeJunk == FreshBuffer \in [1 .. 12 -> Byte]
<1>1. \A k \in 1 .. 12 : k \in Int
  OBVIOUS
<1>2. \A k \in 1 .. 12 : Junk(k) \in Byte
  BY <1>1, BytesAre
<1>3. QED
  BY <1>2 DEF FreshBuffer

\* The place of the mask byte for place k.
LEMMA MaskPlace == \A k \in Nat \ {0} : ((k - 1) % 4) + 1 \in 1 .. 4
  OBVIOUS

LEMMA UnmaskIs ==
  ASSUME mask \in [1 .. 4 -> Byte], NEW p \in Seq(Byte)
  PROVE  /\ Unmask(p) \in Seq(Byte) /\ Len(Unmask(p)) = Len(p)
         /\ \A k \in 1 .. Len(p) : Unmask(p)[k] = Xor(p[k], mask[((k - 1) % 4) + 1])
<1> DEFINE m == Len(p)
           b(k) == Xor(p[k], mask[((k - 1) % 4) + 1])
<1>1. m \in Nat /\ DOMAIN p = 1 .. m
  OBVIOUS
<1>2. \A k \in 1 .. m : b(k) \in Byte
  <2>1. \A k \in 1 .. m : ((k - 1) % 4) + 1 \in 1 .. 4
    BY <1>1, MaskPlace
  <2>2. \A k \in 1 .. m : p[k] \in Byte /\ mask[((k - 1) % 4) + 1] \in Byte
    BY <2>1
  <2>3. QED
    BY <2>2, BytesAre
<1>3. Unmask(p) = [k \in 1 .. m |-> b(k)]
  BY <1>1 DEF Unmask
<1> HIDE DEF m, b
<1>4. Unmask(p) \in Seq(Byte) /\ Len(Unmask(p)) = m
  BY <1>1, <1>2, <1>3, IsASeq
<1>5. QED
  BY <1>3, <1>4 DEF m, b

-----------------------------------------------------------------------------
(* What each step does to the types *)

LEMMA TypesStart == HandshakeInit => Types
<1> SUFFICES ASSUME HandshakeInit
             PROVE  Types
  OBVIOUS
<1>1. /\ frames \in Streams /\ lead = 0 /\ delivered = 0 /\ ended = "no" /\ pc = "idle" /\ got = 0
      /\ head = [fin |-> FALSE, masked |-> FALSE, form |-> "short", n |-> 0]
      /\ mask = [k \in 1 .. 4 |-> Junk(k)] /\ payload = <<>> /\ message = <<>>
      /\ result = "none" /\ from = 0 /\ arrived = 0
  BY DEF HandshakeInit, Init
<1>2. EndOf(frames, lead, Len(frames)) \in Int /\ EndOf(frames, lead, Len(frames)) >= 0
  <2>1. frames \in Seq(FrameType)
    BY <1>1, SameWords
  <2>2. Len(frames) \in 0 .. Len(frames) /\ lead \in Int
    BY <1>1, <2>1
  <2>3. QED
    BY <1>1, <2>1, <2>2, EndsAre
<1>3. head \in Headers
  BY <1>1 DEF Headers, Forms
<1>4. mask \in [1 .. 4 -> Byte]
  <2>1. \A k \in 1 .. 4 : k \in Int
    OBVIOUS
  <2>2. \A k \in 1 .. 4 : Junk(k) \in Byte
    BY <2>1, BytesAre
  <2>3. QED
    BY <1>1, <2>2
<1>5. payload \in Seq(Byte) /\ message \in Seq(Byte)
  BY <1>1
<1>6. Len(Request) \in Nat
  BY RequestHasHeaders
<1>7. arrived \in 0 .. Len(Request)
  BY <1>1, <1>6
<1>8. room \in Rooms
  BY HandshakeAssumption, Zenon DEF HandshakeInit
<1>9. QED
  BY <1>1, <1>2, <1>3, <1>4, <1>5, <1>7, <1>8 DEF Types, Places

LEMMA SumIsInt ==
  ASSUME Types
  PROVE  /\ frames \in Seq(FrameType) /\ Len(frames) \in Nat
         /\ EndOf(frames, lead, Len(frames)) \in Int
<1>1. frames \in Seq(FrameType) /\ lead \in Int
  BY SameWords DEF Types
<1>2. Len(frames) \in Nat /\ Len(frames) \in 0 .. Len(frames)
  BY <1>1
<1>3. QED
  BY <1>1, <1>2, EndsAre

\* What the client and the program do outside read().
LEMMA DeliverTypes == ASSUME Types, Deliver, UNCHANGED <<at, room, arrived>> PROVE Types'
<1>1. /\ delivered < EndOf(frames, lead, Len(frames)) /\ delivered' = delivered + 1
      /\ UNCHANGED <<frames, lead, ended, pc, got, buf, head, mask, payload, message,
                     result, reads, from>>
  BY SameWords DEF Types, Deliver, frame
<1>2. EndOf(frames, lead, Len(frames)) \in Int
  BY SumIsInt
<1> DEFINE e == EndOf(frames, lead, Len(frames))
<1>3. got \in Nat /\ delivered \in Nat /\ got <= delivered /\ delivered < e /\ e \in Int
  BY <1>1, <1>2 DEF Types
<1> HIDE DEF e
<1>4. delivered' \in Nat /\ got <= delivered' /\ delivered' <= e
  BY <1>1, <1>3
<1>5. e' = e
  BY <1>1 DEF e
<1>6. delivered' <= EndOf(frames, lead, Len(frames))'
  BY <1>4, <1>5 DEF e
<1>7. QED
  BY <1>1, <1>4, <1>6 DEF Types

LEMMA EndTypes ==
  ASSUME Types, ended' \in {"closed", "reset"}, at' = "recv" => at = "recv",
         UNCHANGED <<frames, lead, delivered, pc, got, buf, head, mask, payload, message,
                     result, reads, from, room, arrived>>
  PROVE  Types'
<1>1. EndOf(frames, lead, Len(frames))' = EndOf(frames, lead, Len(frames))
  OBVIOUS
<1>2. QED
  BY <1>1 DEF Types

LEMMA StillTypes ==
  ASSUME Types, UNCHANGED <<vars, room>>, at' = "recv" => at = "recv",
         arrived' \in 0 .. Len(Request)
  PROVE  Types'
<1>1. UNCHANGED <<frames, lead, delivered, ended, pc, got, buf, head, mask, payload, message,
                  result, from>>
  BY DEF vars, stream, frame
<1>2. EndOf(frames, lead, Len(frames))' = EndOf(frames, lead, Len(frames))
  BY <1>1
<1>3. QED
  BY <1>1, <1>2 DEF Types

\* The buffer takes something, and not more than is there.
LEMMA TakenIs ==
  ASSUME delivered \in Nat, arrived \in Nat, arrived > 0, room \in Nat \ {0}
  PROVE  /\ ToTake \in Nat \ {0} /\ ToTake <= arrived + delivered /\ ToTake <= room
  BY DEF ToTake

LEMMA RecvRequestTypes == ASSUME Types, RecvRequest PROVE Types'
<1> DEFINE w == Len(Wired(frames, Len(frames)))
           r == Len(Request)
           t == ToTake
<1>1. /\ lead = 0 /\ got = 0 /\ from = 0 /\ pc = "idle" /\ at' = "parse" /\ arrived > 0
      /\ lead' = r - t /\ delivered' = arrived + delivered - t
      /\ UNCHANGED <<frames, ended, pc, got, buf, head, mask, payload, message, result, from,
                     room, arrived>>
  BY DEF Types, RecvRequest, frame
<1>2. delivered \in Nat /\ delivered <= 0 + w /\ arrived \in 0 .. r
  BY <1>1 DEF Types, EndOf
<1>3. w \in Nat /\ r \in Nat
  <2>1. Len(frames) \in 0 .. Len(frames) /\ frames \in Seq(FrameType)
    BY SumIsInt
  <2>2. Wired(frames, Len(frames)) \in Seq(Cell)
    BY <2>1, WirePieces
  <2>3. QED
    BY <2>2, RequestHasHeaders
<1>4. EndOf(frames, lead, Len(frames))' = lead' + w
  BY <1>1 DEF EndOf
<1>9. t \in Nat \ {0} /\ t <= arrived + delivered
  <2>1. room \in Nat \ {0}
    BY HandshakeAssumption DEF Types
  <2>2. arrived \in Nat /\ delivered \in Nat
    BY <1>2, <1>3
  <2>3. QED
    BY <1>1, <2>1, <2>2, TakenIs
<1> HIDE DEF w, r, t
<1>5. lead' \in Int /\ delivered' \in Nat /\ delivered' <= lead' + w
  BY <1>1, <1>2, <1>3, <1>9
<1>6. got' \in Nat /\ from' \in Nat /\ from' <= got' /\ got' <= delivered'
  BY <1>1, <1>5
<1>7. delivered' <= EndOf(frames, lead, Len(frames))'
  BY <1>4, <1>5
<1>8. QED
  BY <1>1, <1>5, <1>6, <1>7 DEF Types, r

LEMMA BeginReadTypes ==
  ASSUME Types, BeginRead, at' # "recv", UNCHANGED <<room, arrived>>
  PROVE  Types'
<1>1. /\ from' = got /\ message' = <<>> /\ result' = "none" /\ pc' = "header"
      /\ UNCHANGED <<frames, lead, delivered, ended, got, buf, head, mask, payload>>
  BY DEF BeginRead, stream, frame
<1>2. EndOf(frames, lead, Len(frames))' = EndOf(frames, lead, Len(frames))
  BY <1>1
<1>3. from' \in Nat /\ from' <= got'
  BY <1>1 DEF Types
<1>4. message' \in Seq(Byte)
  BY <1>1
<1>5. QED
  BY <1>1, <1>2, <1>3, <1>4 DEF Types, Places

-----------------------------------------------------------------------------
(* The reader *)

\* What of the types no step of the reader touches.
LEMMA ReaderTypes ==
  ASSUME Types, pc # "idle",
         UNCHANGED <<frames, lead, delivered, reads, from, at, room, arrived>>,
         got' \in Nat, got <= got', got' <= delivered,
         ended' \in {"no", "closed", "reset"},
         pc' \in Places,
         pc' \in {"extended", "length"} => buf' \in [1 .. 12 -> Byte],
         head' \in Headers,
         mask' \in [1 .. 4 -> Byte],
         payload' \in Seq(Byte),
         message' \in Seq(Byte),
         result' = "ok" => pc' = "idle"
  PROVE  Types'
<1>1. EndOf(frames, lead, Len(frames))' = EndOf(frames, lead, Len(frames))
  OBVIOUS
<1>2. from <= got'
  <2>1. from \in Nat /\ got \in Nat /\ from <= got
    BY DEF Types
  <2>2. QED
    BY <2>1
<1>3. at # "recv"
  BY DEF Types
<1>4. QED
  BY <1>1, <1>2, <1>3 DEF Types

LEMMA HeaderTypes ==
  ASSUME Types, Header, UNCHANGED handler
  PROVE  Types'
<1>1. /\ pc = "header" /\ Returns(2)
      /\ UNCHANGED <<frames, lead, delivered, mask, payload, message, reads, from, at, room, arrived>>
  BY DEF Header, handler
<1>2. mask \in [1 .. 4 -> Byte] /\ payload \in Seq(Byte) /\ message \in Seq(Byte)
      /\ got \in Nat /\ got <= got /\ got <= delivered
      /\ head \in Headers /\ ended \in {"no", "closed", "reset"}
      /\ (result = "ok" => pc = "idle")
  <2>1. got \in Nat /\ delivered \in Nat
    BY DEF Types
  <2>2. got <= got
    BY <2>1
  <2>3. QED
    BY <2>1, <2>2 DEF Types
<1>3. CASE (RecvFails \/ RecvEnds) /\ UNCHANGED <<buf, head>>
  <2>1. /\ pc' = "idle" /\ UNCHANGED <<got, head>> /\ ended' \in {"no", "closed", "reset"}
    BY <1>2, <1>3 DEF RecvFails, RecvEnds, Return
  <2>2. QED
    BY <1>1, <1>2, <2>1, ReaderTypes DEF Places
<1>4. CASE Status(2) > 0 /\ Take(2) /\ ReadHeader
  <2>1. /\ got' = got + Status(2) /\ buf' = Over(FreshBuffer, Taken(2))
        /\ head' \in HeadersOf(buf') /\ pc' = "extended" /\ UNCHANGED <<ended, result>>
    BY <1>4 DEF Take, ReadHeader
  <2>2. /\ Status(2) \in Int /\ (Status(2) >= 0 => got + Status(2) \in Nat /\ got + Status(2) <= delivered)
        /\ DOMAIN Taken(2) = 1 .. Status(2)
        /\ \A k \in 1 .. Status(2) : Taken(2)[k] \in Byte
    <3>1. 2 \in Nat
      OBVIOUS
    <3>2. QED
      BY <1>1, <3>1, RecvIs
  <2>3. buf' \in [1 .. 12 -> Byte]
    BY <2>1, <2>2, SomeJunk, OverIs
  <2>4. head' \in Headers
    BY <2>1 DEF HeadersOf
  <2>5. got' \in Nat /\ got <= got' /\ got' <= delivered
    <3>1. got \in Nat /\ Status(2) > 0
      BY <1>2, <1>4
    <3>2. QED
      BY <2>1, <2>2, <3>1
  <2>6. result' # "ok"
    BY <1>1, <1>2, <2>1
  <2>7. QED
    BY <1>1, <1>2, <2>1, <2>3, <2>4, <2>5, <2>6, ReaderTypes DEF Places
<1>5. QED
  BY <1>3, <1>4 DEF Header

LEMMA NowTypes ==
  ASSUME Types
  PROVE  /\ mask \in [1 .. 4 -> Byte] /\ payload \in Seq(Byte) /\ message \in Seq(Byte)
         /\ got \in Nat /\ got <= got /\ got <= delivered
         /\ head \in Headers /\ ended \in {"no", "closed", "reset"}
         /\ (result = "ok" => pc = "idle")
         /\ (pc \in {"extended", "length"} => buf \in [1 .. 12 -> Byte])
<1>1. got \in Nat /\ delivered \in Nat
  BY DEF Types
<1>2. got <= got
  BY <1>1
<1>3. QED
  BY <1>1, <1>2 DEF Types

\* A recv that returned something.
LEMMA TakeTypes ==
  ASSUME Types, NEW n \in Nat, Returns(n), Take(n), n = 0 \/ Status(n) >= 0
  PROVE  /\ got' \in Nat /\ got <= got' /\ got' <= delivered
         /\ \A k \in DOMAIN Taken(n) : Taken(n)[k] \in Byte
<1>1. /\ Status(n) \in Int /\ (Status(n) >= 0 => got + Status(n) \in Nat /\ got + Status(n) <= delivered)
      /\ DOMAIN Taken(n) = 1 .. Status(n)
      /\ \A k \in 1 .. Status(n) : Taken(n)[k] \in Byte
      /\ \/ Status(n) = n
         \/ ended # "no" /\ Status(n) >= 0 /\ Status(n) < n /\ got + Status(n) = delivered
         \/ ended # "no" /\ Status(n) < 0 /\ got = delivered /\ n > 0
  BY RecvIs
<1>2. Status(n) >= 0
  <2>1. CASE n = 0
    BY <1>1, <2>1
  <2>2. QED
    BY <2>1
<1>3. got' = got + Status(n) /\ got \in Nat
  BY DEF Take, Types
<1>4. got' \in Nat /\ got <= got' /\ got' <= delivered
  BY <1>1, <1>2, <1>3
<1>5. QED
  BY <1>1, <1>4, Zenon

LEMMA ExtendedTypes ==
  ASSUME Types, Extended, UNCHANGED handler
  PROVE  Types'
<1>1. /\ pc = "extended" /\ Returns(Asked)
      /\ UNCHANGED <<frames, lead, delivered, head, mask, payload, message, reads, from, at, room, arrived>>
  BY DEF Extended, handler
<1>2. Asked \in Nat
  BY HeadIs DEF Types
<1>3. CASE RecvFails \/ RecvEnds
  <2>1. pc' = "idle" /\ UNCHANGED got /\ ended' \in {"no", "closed", "reset"}
    BY <1>3, NowTypes DEF RecvFails, RecvEnds, Return
  <2>2. QED
    BY <1>1, <2>1, NowTypes, ReaderTypes DEF Places
<1>4. CASE /\ Asked = 0 \/ Status(Asked) > 0
           /\ Take(Asked)
           /\ buf' = Over(buf, Taken(Asked))
           /\ pc' = "length"
           /\ UNCHANGED <<ended, result>>
  <2>1. Status(Asked) \in Int
    BY <1>1, <1>2, RecvIs
  <2>2. Asked = 0 \/ Status(Asked) >= 0
    BY <1>4, <2>1
  <2>3. /\ got' \in Nat /\ got <= got' /\ got' <= delivered
        /\ \A k \in DOMAIN Taken(Asked) : Taken(Asked)[k] \in Byte
    BY <1>1, <1>2, <1>4, <2>2, TakeTypes
  <2>4. buf' \in [1 .. 12 -> Byte]
    <3>1. buf \in [1 .. 12 -> Byte]
      BY <1>1, NowTypes
    <3>2. QED
      BY <1>4, <2>3, <3>1, OverIs
  <2>5. result' # "ok"
    BY <1>1, <1>4, NowTypes
  <2>6. QED
    BY <1>1, <1>4, <2>3, <2>4, <2>5, NowTypes, ReaderTypes DEF Places
<1>5. QED
  BY <1>3, <1>4 DEF Extended

LEMMA LengthTypes ==
  ASSUME Types, Length, UNCHANGED handler
  PROVE  Types'
<1>1. /\ pc = "length" /\ pc' = "payload" /\ mask' = MaskIn(buf)
      /\ UNCHANGED <<frames, lead, delivered, ended, got, message, result, reads, from, at, room, arrived>>
  BY DEF Length, handler, stream
<1>2. PICK n \in LengthsIn(buf) : head' = [head EXCEPT !.n = n] /\ payload' = Resize(payload, n)
  BY DEF Length
<1>3. n \in Lengths \union {0}
  BY <1>2 DEF LengthsIn, Types, Headers
<1>4. head' \in Headers
  BY <1>2, <1>3 DEF Types, Headers
<1>5. n \in Nat
  BY <1>3, LengthsAre
<1>6. payload' \in Seq(Byte)
  <2>1. payload \in Seq(Byte)
    BY NowTypes
  <2>2. \A k \in 1 .. n : (IF k \in DOMAIN payload THEN payload[k] ELSE Zero) \in Byte
    BY <2>1, BytesAre
  <2>3. [k \in 1 .. n |-> IF k \in DOMAIN payload THEN payload[k] ELSE Zero] \in Seq(Byte)
    BY <1>5, <2>2
  <2>4. QED
    BY <1>2, <2>3 DEF Resize
<1>7. mask' \in [1 .. 4 -> Byte]
  <2>1. buf \in [1 .. 12 -> Byte] /\ ExtRead(head.form) \in {0, 2, 4}
    BY <1>1, HeadIs DEF Types
  <2>2. \A k \in 1 .. 4 : ExtRead(head.form) + k \in 1 .. 12
    BY <2>1
  <2>3. \A k \in 1 .. 4 : buf[ExtRead(head.form) + k] \in Byte
    BY <2>1, <2>2
  <2>4. QED
    BY <1>1, <2>3 DEF MaskIn
<1>8. result' # "ok"
  BY <1>1, NowTypes
<1>9. QED
  BY <1>1, <1>4, <1>6, <1>7, <1>8, NowTypes, ReaderTypes DEF Places

LEMMA LengthIsHugeTypes ==
  ASSUME Types, LengthIsHuge, UNCHANGED handler
  PROVE  Types'
<1>1. /\ pc = "length" /\ pc' = "idle"
      /\ UNCHANGED <<frames, lead, delivered, ended, got, head, mask, payload, message, reads, from,
                     at, room, arrived>>
  BY DEF LengthIsHuge, handler, stream, Return
<1>2. QED
  BY <1>1, NowTypes, ReaderTypes DEF Places

LEMMA PayloadTypes ==
  ASSUME Types, Payload, UNCHANGED handler
  PROVE  Types'
<1>1. /\ pc = "payload" /\ Returns(head.n)
      /\ UNCHANGED <<frames, lead, delivered, buf, head, mask, message, reads, from, at, room, arrived>>
  BY DEF Payload, handler
<1>2. head.n \in Nat
  BY HeadIs DEF Types
<1>3. CASE RecvFails /\ UNCHANGED payload
  <2>1. pc' = "idle" /\ UNCHANGED got /\ ended' \in {"no", "closed", "reset"}
    BY <1>3 DEF RecvFails, Return
  <2>2. QED
    BY <1>1, <1>3, <2>1, NowTypes, ReaderTypes DEF Places
<1>4. CASE /\ ~Refused
           /\ Take(head.n)
           /\ payload' = Over(payload, Taken(head.n))
           /\ pc' = "append"
           /\ UNCHANGED <<ended, result>>
  <2>1. /\ got' \in Nat /\ got <= got' /\ got' <= delivered
        /\ \A k \in DOMAIN Taken(head.n) : Taken(head.n)[k] \in Byte
    <3>1. Status(head.n) >= 0
      BY <1>2, <1>4, NotRefusedIs
    <3>2. QED
      BY <1>1, <1>2, <1>4, <3>1, TakeTypes
  <2>2. payload' \in Seq(Byte)
    <3>1. payload \in [1 .. Len(payload) -> Byte] /\ Len(payload) \in Nat
      BY NowTypes
    <3>2. payload' \in [1 .. Len(payload) -> Byte]
      BY <1>4, <2>1, <3>1, OverIs
    <3>3. QED
      BY <3>1, <3>2
  <2>3. result' # "ok"
    BY <1>1, <1>4, NowTypes
  <2>4. QED
    BY <1>1, <1>4, <2>1, <2>2, <2>3, NowTypes, ReaderTypes DEF Places
<1>5. QED
  BY <1>3, <1>4 DEF Payload

LEMMA AppendTypes ==
  ASSUME Types, AppendPayload, UNCHANGED handler
  PROVE  Types'
<1>1. /\ pc = "append" /\ payload' = Unmask(payload) /\ message' = message \o payload'
      /\ UNCHANGED <<frames, lead, delivered, ended, got, head, mask, reads, from, at, room, arrived>>
  BY DEF AppendPayload, handler, stream
<1>2. pc' = "idle" \/ (pc' = "header" /\ UNCHANGED result)
  BY DEF AppendPayload, Return
<1>3. payload' \in Seq(Byte)
  BY <1>1, NowTypes, UnmaskIs
<1>4. message' \in Seq(Byte)
  BY <1>1, <1>3, NowTypes
<1>5. result' = "ok" => pc' = "idle"
  BY <1>1, <1>2, NowTypes
<1>6. QED
  BY <1>1, <1>2, <1>3, <1>4, <1>5, NowTypes, ReaderTypes DEF Places

-----------------------------------------------------------------------------
(* Where the reader is, when i frames have been read                        *)

\* message is all of the data up to place b.
Holds(bytes, b) == Whole(frames, bytes, DataOf(frames, lead, from, b))

\* No message has ended since read() was called.
Quiet(i) == \A j \in 1 .. i : frames[j].fin => ~(from < EndOf(frames, lead, j))

\* The header is that of the frame.
HeadOf(f) ==
    /\ head.fin = f.fin /\ head.masked = f.masked /\ head.form = f.form
    /\ head.form = "short" => head.n = f.n

Between(i) ==
    /\ pc = "idle"
    /\ from <= EndOf(frames, lead, i) /\ got = EndOf(frames, lead, i)
    /\ Holds(message, got)

BeforeHeader(i) ==
    /\ pc = "header"
    /\ from <= EndOf(frames, lead, i) /\ got = EndOf(frames, lead, i)
    /\ Holds(message, got)
    /\ Quiet(i)

\* In frame i + 1, whose data is not in the message yet.
Within(i) ==
    /\ i < Len(frames)
    /\ from <= EndOf(frames, lead, i)
    /\ Quiet(i)
    /\ Holds(message, EndOf(frames, lead, i))
    /\ HeadOf(frames[i + 1])

BeforeExtended(i) ==
    /\ pc = "extended" /\ Within(i)
    /\ got = EndOf(frames, lead, i) + 2

BeforeLength(i) ==
    /\ pc = "length" /\ Within(i)
    /\ got = EndOf(frames, lead, i) + Ahead(frames[i + 1])
    /\ \A k \in 1 .. ExtSent(head.form) : buf[k] = Ext(i + 1, k)
    /\ \A k \in 1 .. Masks(frames[i + 1]) : buf[ExtSent(head.form) + k] = Mask(i + 1, k)

BeforePayload(i) ==
    /\ pc = "payload" /\ Within(i)
    /\ got = EndOf(frames, lead, i) + Ahead(frames[i + 1])
    /\ head.n = frames[i + 1].n
    /\ Len(payload) = head.n
    /\ head.masked => \A k \in 1 .. 4 : mask[k] = Mask(i + 1, k)

BeforeAppend(i) ==
    /\ pc = "append" /\ Within(i)
    /\ got = EndOf(frames, lead, i + 1)
    /\ Holds(message \o Unmask(payload), got)

InStep ==
    \E i \in 0 .. Len(frames) :
       \/ Between(i)
       \/ BeforeHeader(i)
       \/ BeforeExtended(i)
       \/ BeforeLength(i)
       \/ BeforePayload(i)
       \/ BeforeAppend(i)

\* The stream has ended within a frame, and all of it is read.
CutOff ==
    /\ ended # "no"
    /\ got = delivered
    /\ \A i \in 0 .. Len(frames) : got # EndOf(frames, lead, i)
    /\ Starts(frames, IF pc = "append" THEN message \o Unmask(payload) ELSE message,
              DataOf(frames, lead, from, got))

KeepsPlace == Framed /\ InPlace => InStep \/ CutOff

ReadInv == Types /\ KeepsPlace

-----------------------------------------------------------------------------
(* Moves within a frame and between two *)

LEMMA WithinStays ==
  ASSUME NEW i, Within(i), UNCHANGED <<frames, lead, from, message>>, HeadOf(frames[i + 1])'
  PROVE  Within(i)'
  BY DEF Within, Quiet, Holds

LEMMA WithinBegins ==
  ASSUME NEW i, i < Len(frames), from <= EndOf(frames, lead, i), Quiet(i),
         Holds(message, EndOf(frames, lead, i)),
         UNCHANGED <<frames, lead, from, message>>, HeadOf(frames[i + 1])'
  PROVE  Within(i)'
  BY DEF Within, Quiet, Holds

LEMMA HeadStays ==
  ASSUME NEW i, HeadOf(frames[i + 1]), UNCHANGED <<frames, head>>
  PROVE  HeadOf(frames[i + 1])'
  BY DEF HeadOf

\* The bytes in front of the payload carry no data.
LEMMA BareAhead ==
  ASSUME NEW f \in FrameType, NEW i \in Nat, NEW k \in 1 .. Ahead(f)
  PROVE  OnWire(i, f)[k].data = <<>>
<1> DEFINE x == ExtSent(f.form)
           m == Masks(f)
<1>1. x \in Nat /\ m \in Nat /\ Ahead(f) = 2 + x + m
  BY FrameLengths DEF Ahead
<1>2. /\ OnWire(i, f)[1].data = <<>> /\ OnWire(i, f)[2].data = <<>>
      /\ \A j \in 1 .. x : OnWire(i, f)[2 + j].data = <<>>
      /\ \A j \in 1 .. m : OnWire(i, f)[2 + x + j].data = <<>>
  <2> DEFINE o == OnWire(i, f)
  <2>1. /\ o[1] = [byte |-> First(i), data |-> <<>>]
        /\ o[2] = [byte |-> Second(i), data |-> <<>>]
        /\ \A j \in 1 .. x : o[2 + j] = [byte |-> Ext(i, j), data |-> <<>>]
        /\ \A j \in 1 .. m : o[2 + x + j] = [byte |-> Mask(i, j), data |-> <<>>]
    BY OnWireIs, Zenon
  <2> HIDE DEF o, x, m
  <2>2. \A b : [byte |-> b, data |-> <<>>].data = <<>>
    OBVIOUS
  <2>3. /\ o[1].data = <<>> /\ o[2].data = <<>>
        /\ \A j \in 1 .. x : o[2 + j].data = <<>>
        /\ \A j \in 1 .. m : o[2 + x + j].data = <<>>
    BY <2>1, <2>2, Zenon
  <2>4. QED
    BY <2>3, Zenon DEF o
<1> HIDE DEF x, m
<1>3. \/ k = 1 \/ k = 2
      \/ k - 2 \in 1 .. x /\ 2 + (k - 2) = k
      \/ k - (2 + x) \in 1 .. m /\ 2 + x + (k - (2 + x)) = k
  BY <1>1
<1>4. QED
  BY <1>2, <1>3

\* The end of a frame is not within a frame, and the bytes in front of the
\* payload have no data.
LEMMA InsideFrame ==
  ASSUME Types, NEW i \in 0 .. Len(frames), i < Len(frames),
         from <= EndOf(frames, lead, i)
  PROVE  LET f == frames[i + 1]
             e == EndOf(frames, lead, i)
         IN  /\ f \in FrameType /\ i + 1 \in DOMAIN frames /\ e \in Nat /\ lead \in Int
             /\ i + 1 \in 0 .. Len(frames)
             /\ EndOf(frames, lead, i + 1) = e + FrameLen(f)
             /\ e + FrameLen(f) <= EndOf(frames, lead, Len(frames))
             /\ \A m \in 1 .. (FrameLen(f) - 1), j \in 0 .. Len(frames) :
                   e + m # EndOf(frames, lead, j)
             /\ \A m \in 0 .. Ahead(f) :
                   DataOf(frames, lead, from, e + m) = DataOf(frames, lead, from, e)
<1> DEFINE f == frames[i + 1]
           n == Len(frames)
           E(j) == EndOf(frames, lead, j)
           e == E(i)
<1>1. frames \in Seq(FrameType) /\ n \in Nat /\ lead \in Int /\ from \in Nat
  BY SumIsInt DEF Types
<1>2. i \in Nat /\ i \in 0 .. (n - 1) /\ i + 1 \in 1 .. n /\ i + 1 \in 0 .. n /\ n \in 0 .. n
  BY <1>1
<1>3. f \in FrameType /\ i + 1 \in DOMAIN frames
  BY <1>1, <1>2
<1>4. /\ \A j \in 0 .. n : E(j) \in Int
      /\ \A j \in 0 .. n, k \in 0 .. n : j < k => E(j) + 2 <= E(k)
      /\ E(i + 1) = E(i) + FrameLen(f)
  BY <1>1, <1>2, EndsAre
<1>5. e \in Nat
  <2>1. from <= E(i) /\ E(i) \in Int
    BY <1>2, <1>4
  <2> HIDE DEF E
  <2>2. QED
    BY <1>1, <2>1
<1>6. /\ FrameLen(f) \in Nat /\ Ahead(f) \in Nat /\ Ahead(f) <= FrameLen(f)
      /\ ExtSent(f.form) \in {0, 2, 8} /\ Masks(f) \in {0, 4}
      /\ Ahead(f) = 2 + ExtSent(f.form) + Masks(f)
  <2>1. /\ FrameLen(f) \in Nat /\ Ahead(f) \in Nat /\ f.n \in Nat
        /\ ExtSent(f.form) \in {0, 2, 8} /\ Masks(f) \in {0, 4}
    BY <1>3, FrameLengths
  <2>2. FrameLen(f) = Ahead(f) + f.n
    BY DEF FrameLen
  <2>3. Ahead(f) <= FrameLen(f)
    BY <2>1, <2>2
  <2>4. QED
    BY <2>1, <2>3 DEF Ahead
<1>7. E(i + 1) <= E(n)
  <2>1. CASE i + 1 = n
    <3>1. E(n) \in Int
      BY <1>2, <1>4
    <3> HIDE DEF E
    <3>2. QED
      BY <2>1, <3>1
  <2>2. CASE i + 1 # n
    <3>1. i + 1 < n
      BY <1>2, <2>2
    <3>2. E(i + 1) + 2 <= E(n) /\ E(i + 1) \in Int /\ E(n) \in Int
      BY <1>2, <1>4, <3>1
    <3> HIDE DEF E
    <3>3. QED
      BY <3>2
  <2>3. QED
    BY <2>1, <2>2
<1>8. ASSUME NEW m \in 1 .. (FrameLen(f) - 1), NEW j \in 0 .. n
      PROVE  e + m # E(j)
  <2> DEFINE l == FrameLen(f)
  <2>1. m \in Int /\ 1 <= m /\ m < l /\ l \in Nat
    BY <1>6
  <2>2. j <= i \/ j >= i + 1
    BY <1>2
  <2>3. CASE j <= i
    <3>1. j = i \/ j < i
      BY <1>2, <2>3
    <3>2. E(j) = E(i) \/ E(j) + 2 <= E(i)
      <4>1. j \in 0 .. n /\ i \in 0 .. n
        BY <1>2
      <4>2. QED
        BY <1>4, <3>1, <4>1
    <3>3. E(j) \in Int /\ E(i) \in Int
      BY <1>2, <1>4
    <3> HIDE DEF E, l
    <3>4. QED
      BY <2>1, <3>2, <3>3
  <2>4. CASE j >= i + 1
    <3>1. j = i + 1 \/ i + 1 < j
      BY <1>2, <2>4
    <3>2. E(j) = E(i + 1) \/ E(i + 1) + 2 <= E(j)
      BY <1>2, <1>4, <3>1
    <3>3. E(j) \in Int /\ E(i) \in Int /\ E(i + 1) = E(i) + l
      BY <1>2, <1>4
    <3> HIDE DEF E, l
    <3>4. QED
      BY <2>1, <3>2, <3>3
  <2>5. QED
    BY <2>2, <2>3, <2>4
<1>9. ASSUME NEW m \in 0 .. Ahead(f)
      PROVE  DataOf(frames, lead, from, e + m) = DataOf(frames, lead, from, e)
  <2>1. m \in Nat /\ m <= Ahead(f)
    BY <1>6
  <2>2. e + m <= E(n)
    <3> DEFINE x == E(n)
               y == E(i + 1)
               l == FrameLen(f)
               a == Ahead(f)
    <3>1. y = e + l /\ y <= x /\ x \in Int /\ e \in Nat /\ l \in Nat /\ m <= a /\ a <= l /\ a \in Nat
      BY <1>2, <1>4, <1>5, <1>6, <1>7, <2>1
    <3> HIDE DEF x, y, l, a, e
    <3>2. e + m <= x
      BY <2>1, <3>1
    <3>3. QED
      BY <3>2 DEF x
  <2>3. ASSUME NEW k \in 1 .. m
        PROVE  CellAt(frames, lead, e + k).data = <<>>
    <3>1. k \in 1 .. FrameLen(f)
      BY <1>6, <2>1
    <3>2. CellAt(frames, lead, e + k) = OnWire(i + 1, f)[k]
      BY <1>1, <1>2, <3>1, CellsOfFrame
    <3>3. OnWire(i + 1, f)[k].data = <<>>
      BY <1>2, <1>3, <1>6, <2>1, BareAhead
    <3>4. QED
      BY <3>2, <3>3
  <2>4. from <= e
    OBVIOUS
  <2> HIDE DEF E, e
  <2>5. QED
    BY <1>1, <1>5, <2>1, <2>2, <2>3, <2>4, DataBare DEF E
<1>10. e + FrameLen(f) <= E(n)
  BY <1>4, <1>7
<1>11. QED
  BY <1>1, <1>2, <1>3, <1>4, <1>5, <1>8, <1>9, <1>10

-----------------------------------------------------------------------------
(* Steps of the peer and of a user, and the end of the stream *)

LEMMA StepStays ==
  ASSUME InStep,
         UNCHANGED <<frames, lead, pc, got, buf, head, mask, payload, message, from>>
  PROVE  InStep'
<1>1. PICK i \in 0 .. Len(frames) :
         \/ Between(i) \/ BeforeHeader(i) \/ BeforeExtended(i)
         \/ BeforeLength(i) \/ BeforePayload(i) \/ BeforeAppend(i)
  BY DEF InStep
<1>2. (Within(i) => Within(i)') /\ i \in 0 .. Len(frames')
  BY <1>1, HeadStays, WithinStays DEF Within
<1>3. Between(i) => Between(i)'
  BY DEF Between, Holds
<1>4. BeforeHeader(i) => BeforeHeader(i)'
  BY DEF BeforeHeader, Holds, Quiet
<1>5. BeforeExtended(i) => BeforeExtended(i)'
  BY <1>2 DEF BeforeExtended
<1>6. BeforeLength(i) => BeforeLength(i)'
  BY <1>2 DEF BeforeLength
<1>7. BeforePayload(i) => BeforePayload(i)'
  BY <1>2 DEF BeforePayload
<1>8. BeforeAppend(i) => BeforeAppend(i)'
  <2>1. Unmask(payload)' = Unmask(payload)
    BY DEF Unmask
  <2>2. QED
    BY <1>2, <2>1 DEF BeforeAppend, Holds
<1>9. QED
  BY <1>1, <1>2, <1>3, <1>4, <1>5, <1>6, <1>7, <1>8 DEF InStep

LEMMA CutStays ==
  ASSUME CutOff, ended' # "no",
         UNCHANGED <<frames, lead, delivered, pc, got, mask, payload, message, from>>
  PROVE  CutOff'
<1>1. Unmask(payload)' = Unmask(payload)
  BY DEF Unmask
<1>2. QED
  BY <1>1 DEF CutOff

\* What is between the first byte of read() and the last one taken.
LEMMA DataNow ==
  ASSUME Types
  PROVE  /\ DataOf(frames, lead, from, got) \in Seq(Byte)
         /\ DataOf(frames, lead, got, got) = <<>>
<1>1. /\ frames \in Seq(FrameType) /\ lead \in Int /\ EndOf(frames, lead, Len(frames)) \in Int
      /\ from \in Nat /\ got \in Nat /\ from <= got /\ got <= delivered /\ delivered \in Nat
      /\ delivered <= EndOf(frames, lead, Len(frames))
  BY SumIsInt DEF Types
<1>2. got <= EndOf(frames, lead, Len(frames))
  <2> DEFINE e == EndOf(frames, lead, Len(frames))
  <2>1. e \in Int /\ got \in Nat /\ got <= delivered /\ delivered \in Nat /\ delivered <= e
    BY <1>1
  <2> HIDE DEF e
  <2>2. got <= e
    BY <2>1
  <2>3. QED
    BY <2>2 DEF e
<1>3. QED
  BY <1>1, <1>2, DataIs, DataStarts

LEMMA BeginReadKeeps ==
  ASSUME Types, InStep \/ CutOff, BeginRead
  PROVE  InStep' \/ CutOff'
<1>1. /\ pc = "idle" /\ from' = got /\ message' = <<>> /\ pc' = "header"
      /\ UNCHANGED <<frames, lead, delivered, ended, got, buf, head, mask, payload>>
  BY DEF BeginRead, stream, frame
<1>2. DataOf(frames, lead, from, got)' = <<>>
  BY <1>1, DataNow
<1>3. Starts(frames, message, DataOf(frames, lead, from, got))' /\ Holds(message, got)'
  <2>1. Starts(frames, <<>>, <<>>)
    BY DEF Starts
  <2>2. Whole(frames, <<>>, <<>>)
    BY <2>1 DEF Whole
  <2>3. QED
    BY <1>1, <1>2, <2>1, <2>2 DEF Holds
<1>4. CASE InStep
  <2>1. PICK i \in 0 .. Len(frames) : Between(i)
    BY <1>1, <1>4 DEF InStep, BeforeHeader, BeforeExtended, BeforeLength, BeforePayload, BeforeAppend
  <2>2. got = EndOf(frames, lead, i) /\ got \in Nat
    BY <2>1 DEF Between, Types
  <2>3. ASSUME NEW j \in 1 .. i
        PROVE  ~(got < EndOf(frames, lead, j))
    <3>1. frames \in Seq(FrameType) /\ lead \in Int /\ j \in 0 .. Len(frames)
          /\ i \in 0 .. Len(frames) /\ (j = i \/ j < i)
      BY SumIsInt DEF Types
    <3>2. /\ EndOf(frames, lead, j) \in Int
          /\ (j < i => EndOf(frames, lead, j) + 2 <= EndOf(frames, lead, i))
      BY <3>1, EndsAre
    <3> DEFINE x == EndOf(frames, lead, j)
               y == EndOf(frames, lead, i)
    <3>3. x \in Int /\ got = y /\ (x = y \/ x + 2 <= y) /\ got \in Nat
      BY <2>2, <3>1, <3>2
    <3> HIDE DEF x, y
    <3>4. ~(got < x)
      BY <3>3
    <3>5. QED
      BY <3>4 DEF x
  <2>4. from' <= EndOf(frames, lead, i)'
    <3>1. got <= got
      BY <2>2
    <3>2. QED
      BY <1>1, <2>2, <3>1
  <2>5. Quiet(i)'
    BY <1>1, <2>3 DEF Quiet
  <2>6. BeforeHeader(i)'
    BY <1>1, <1>3, <2>2, <2>4, <2>5 DEF BeforeHeader
  <2>7. i \in (0 .. Len(frames))'
    BY <1>1
  <2>8. QED
    BY <2>6, <2>7 DEF InStep
<1>5. CASE CutOff
  <2>1. CutOff'
    BY <1>1, <1>3, <1>5 DEF CutOff
  <2>2. QED
    BY <2>1
<1>6. QED
  BY <1>4, <1>5

-----------------------------------------------------------------------------
(* The reader, when the stream was cut off *)

LEMMA CutRecv ==
  ASSUME Types, CutOff, NEW n \in Nat, Returns(n)
  PROVE  n = 0 \/ Status(n) = 0 \/ Status(n) < 0
<1>1. got \in Nat /\ got = delivered
  BY DEF Types, CutOff
<1>2. /\ Status(n) \in Int /\ (Status(n) >= 0 => got + Status(n) \in Nat /\ got + Status(n) <= delivered)
  BY RecvIs
<1>3. QED
  BY <1>1, <1>2

LEMMA CutTake ==
  ASSUME Types, CutOff, NEW n \in Nat, Returns(n), Take(n), n = 0 \/ Status(n) >= 0
  PROVE  got' = got
<1>1. got \in Nat /\ got = delivered /\ got' = got + Status(n)
  BY DEF Types, CutOff, Take
<1>2. got' \in Nat /\ got <= got' /\ got' <= delivered
  BY TakeTypes
<1>3. QED
  BY <1>1, <1>2

\* When nothing more is taken, and the message is left alone.
LEMMA CutGoesOn ==
  ASSUME CutOff, pc # "append", pc' # "append", ended' # "no",
         UNCHANGED <<frames, lead, delivered, got, message, from>>
  PROVE  CutOff'
  BY DEF CutOff

LEMMA CutKeeps ==
  ASSUME Types, CutOff, Reader
  PROVE  CutOff'
<1>0. ended # "no"
  BY DEF CutOff
<1>1. CASE Header
  <2>1. /\ pc = "header" /\ Returns(2)
        /\ UNCHANGED <<frames, lead, delivered, message, from>>
    BY <1>1 DEF Header
  <2>2. Status(2) \in Int /\ (Status(2) = 0 \/ Status(2) < 0)
    <3>1. 2 \in Nat /\ 2 # 0
      OBVIOUS
    <3>2. QED
      BY <2>1, <3>1, CutRecv, RecvIs
  <2>3. ~(Status(2) > 0)
    BY <2>2
  <2>4. RecvFails \/ RecvEnds
    BY <1>1, <2>3 DEF Header
  <2>5. pc' = "idle" /\ UNCHANGED got /\ ended' # "no"
    BY <1>0, <2>4 DEF RecvFails, RecvEnds, Return
  <2>6. QED
    BY <2>1, <2>5, CutGoesOn
<1>2. CASE Extended
  <2>1. /\ pc = "extended" /\ Returns(Asked) /\ Asked \in Nat
        /\ UNCHANGED <<frames, lead, delivered, message, from>>
    BY <1>2, HeadIs DEF Extended, Types
  <2>2. CASE RecvFails \/ RecvEnds
    <3>1. pc' = "idle" /\ UNCHANGED got /\ ended' # "no"
      BY <1>0, <2>2 DEF RecvFails, RecvEnds, Return
    <3>2. QED
      BY <2>1, <3>1, CutGoesOn
  <2>3. CASE (Asked = 0 \/ Status(Asked) > 0) /\ Take(Asked) /\ pc' = "length" /\ UNCHANGED ended
    <3>1. Status(Asked) \in Int
      BY <2>1, RecvIs
    <3>2. Asked = 0 \/ Status(Asked) >= 0
      BY <2>3, <3>1
    <3>3. got' = got
      BY <2>1, <2>3, <3>2, CutTake
    <3>4. QED
      BY <1>0, <2>1, <2>3, <3>3, CutGoesOn
  <2>4. QED
    BY <1>2, <2>2, <2>3 DEF Extended
<1>3. CASE Length \/ LengthIsHuge
  <2>1. /\ pc = "length" /\ pc' # "append" /\ ended' # "no"
        /\ UNCHANGED <<frames, lead, delivered, got, message, from>>
    BY <1>0, <1>3 DEF Length, LengthIsHuge, Return, stream
  <2>2. QED
    BY <2>1, CutGoesOn
<1>4. CASE Payload
  <2>1. /\ pc = "payload" /\ Returns(head.n) /\ head.n \in Nat
        /\ UNCHANGED <<frames, lead, delivered, mask, message, from>>
    BY <1>4, HeadIs DEF Payload, Types
  <2>2. CASE RecvFails
    <3>1. pc' = "idle" /\ UNCHANGED got /\ ended' # "no"
      BY <1>0, <2>2 DEF RecvFails, Return
    <3>2. QED
      BY <2>1, <3>1, CutGoesOn
  <2>3. CASE ~Refused /\ Take(head.n) /\ pc' = "append" /\ UNCHANGED ended
             /\ payload' = Over(payload, Taken(head.n))
    <3>6. Status(head.n) >= 0
      BY <2>1, <2>3, NotRefusedIs
    <3>1. got' = got
      BY <2>1, <2>3, <3>6, CutTake
    <3>2. Unmask(payload)' \in Seq(Byte)
      <4>1. payload' \in Seq(Byte)
        <5>1. \A k \in DOMAIN Taken(head.n) : Taken(head.n)[k] \in Byte
          BY <2>1, <2>3, <3>6, TakeTypes
        <5>2. payload \in [1 .. Len(payload) -> Byte] /\ Len(payload) \in Nat
          BY NowTypes
        <5>3. payload' \in [1 .. Len(payload) -> Byte]
          BY <2>3, <5>1, <5>2, OverIs
        <5>4. QED
          BY <5>2, <5>3
      <4>2. Unmask(payload)' = Unmask(payload')
        BY <2>1 DEF Unmask
      <4>3. QED
        BY <4>1, <4>2, NowTypes, UnmaskIs
    <3>3. Starts(frames, message, DataOf(frames, lead, from, got))
      BY <2>1 DEF CutOff
    <3>4. Starts(frames, message \o Unmask(payload)', DataOf(frames, lead, from, got))
      BY <3>2, <3>3, NowTypes, DataNow, StartsStill
    <3>5. QED
      BY <1>0, <2>1, <2>3, <3>1, <3>4 DEF CutOff
  <2>4. QED
    BY <1>4, <2>2, <2>3 DEF Payload
<1>5. CASE AppendPayload
  <2>1. /\ pc = "append" /\ message' = message \o Unmask(payload) /\ pc' # "append"
        /\ UNCHANGED <<frames, lead, delivered, ended, got, from>>
    BY <1>5 DEF AppendPayload, Return, stream
  <2>2. QED
    BY <2>1 DEF CutOff
<1>6. QED
  BY <1>1, <1>2, <1>3, <1>4, <1>5 DEF Reader

-----------------------------------------------------------------------------
(* The steps of the reader *)

\* Part of what is in front of a payload was read, and it was the last of
\* the stream.
LEMMA CutInFront ==
  ASSUME Types, NEW i \in 0 .. Len(frames), i < Len(frames), from <= EndOf(frames, lead, i),
         Holds(message, EndOf(frames, lead, i)),
         NEW m \in 1 .. Ahead(frames[i + 1]), m < FrameLen(frames[i + 1]),
         got' = EndOf(frames, lead, i) + m, got' = delivered, ended' # "no",
         pc' # "append", UNCHANGED <<frames, lead, delivered, message, from>>
  PROVE  CutOff'
<1> DEFINE f == frames[i + 1]
           e == EndOf(frames, lead, i)
<1>1. /\ f \in FrameType
      /\ \A k \in 1 .. (FrameLen(f) - 1), j \in 0 .. Len(frames) : e + k # EndOf(frames, lead, j)
      /\ \A k \in 0 .. Ahead(f) : DataOf(frames, lead, from, e + k) = DataOf(frames, lead, from, e)
  BY InsideFrame
<1>2. m \in 0 .. Ahead(f) /\ m \in 1 .. (FrameLen(f) - 1)
  <2>1. Ahead(f) \in Nat /\ FrameLen(f) \in Nat
    BY <1>1, FrameLengths
  <2> DEFINE x == Ahead(f)
             y == FrameLen(f)
  <2>2. m \in 1 .. x /\ m < y /\ x \in Nat /\ y \in Nat
    BY <2>1
  <2> HIDE DEF x, y
  <2>3. m \in 0 .. x /\ m \in 1 .. (y - 1)
    BY <2>2
  <2>4. QED
    BY <2>3 DEF x, y
<1>3. \A j \in 0 .. Len(frames) : got' # EndOf(frames, lead, j)
  BY <1>1, <1>2
<1>4. DataOf(frames, lead, from, got') = DataOf(frames, lead, from, e)
  BY <1>1, <1>2
<1>5. Starts(frames, message, DataOf(frames, lead, from, got'))
  BY <1>4 DEF Holds, Whole
<1>6. QED
  BY <1>3, <1>5 DEF CutOff

\* A frame begins where something of it has arrived.
LEMMA FrameThere ==
  ASSUME Types, NEW i \in 0 .. Len(frames), NEW m \in Nat \ {0},
         EndOf(frames, lead, i) + m <= delivered
  PROVE  i < Len(frames)
<1>1. /\ frames \in Seq(FrameType) /\ lead \in Int /\ Len(frames) \in Nat
      /\ EndOf(frames, lead, Len(frames)) \in Int
      /\ delivered <= EndOf(frames, lead, Len(frames)) /\ delivered \in Nat
  BY SumIsInt DEF Types
<1>2. SUFFICES ASSUME i = Len(frames)
               PROVE  FALSE
  BY <1>1
<1> DEFINE e == EndOf(frames, lead, Len(frames))
<1>3. e \in Int /\ delivered <= e /\ e + m <= delivered /\ delivered \in Nat
  BY <1>1, <1>2
<1> HIDE DEF e
<1>4. QED
  BY <1>3

LEMMA HeaderKeeps ==
  ASSUME Types, NEW i \in 0 .. Len(frames), BeforeHeader(i), Header
  PROVE  InStep' \/ CutOff'
<1> DEFINE e == EndOf(frames, lead, i)
           f == frames[i + 1]
<1>1. /\ from <= e /\ got = e /\ Holds(message, got) /\ Quiet(i)
      /\ Returns(2) /\ UNCHANGED <<frames, lead, delivered, mask, payload, message, from>>
  BY DEF BeforeHeader, Header
<1>2. /\ Status(2) \in Int /\ Status(2) <= 2
      /\ Status(2) >= 0 => (got + Status(2) \in Nat /\ got + Status(2) <= delivered)
      /\ DOMAIN Taken(2) = 1 .. Status(2)
      /\ \A k \in 1 .. Status(2) : /\ Taken(2)[k] \in Byte
                                   /\ Taken(2)[k] = CellAt(frames, lead, got + k).byte
      /\ \/ Status(2) = 2
         \/ ended # "no" /\ Status(2) >= 0 /\ Status(2) < 2 /\ got + Status(2) = delivered
         \/ ended # "no" /\ Status(2) < 0 /\ got = delivered /\ 2 > 0
  <2>1. 2 \in Nat
    OBVIOUS
  <2>2. QED
    BY <1>1, <2>1, RecvIs
<1>3. CASE RecvFails \/ RecvEnds
  <2>1. pc' = "idle" /\ UNCHANGED got
    BY <1>3 DEF RecvFails, RecvEnds, Return
  <2>2. Between(i)' /\ i \in 0 .. Len(frames')
    BY <1>1, <2>1 DEF Between, Holds
  <2>3. QED
    BY <2>2 DEF InStep
<1>4. CASE Status(2) > 0 /\ Take(2) /\ ReadHeader
  <2>1. /\ got' = got + Status(2) /\ buf' = Over(FreshBuffer, Taken(2))
        /\ head' \in HeadersOf(buf') /\ pc' = "extended" /\ UNCHANGED ended
    BY <1>4 DEF Take, ReadHeader
  <2>2. i < Len(frames)
    <3>1. Status(2) \in Nat \ {0} /\ e + Status(2) <= delivered
      BY <1>1, <1>2, <1>4
    <3>2. QED
      BY <3>1, FrameThere
  <2>3. /\ f \in FrameType /\ i + 1 \in DOMAIN frames /\ lead \in Int /\ e \in Nat
    BY <1>1, <2>2, InsideFrame
  <2>4. Ahead(f) \in Nat /\ Ahead(f) >= 2 /\ FrameLen(f) \in Nat /\ FrameLen(f) >= 2
    BY <2>3, FrameLengths
  <2>5. CASE Status(2) = 2
    <3>1. CellAt(frames, lead, e + 1).byte = First(i + 1) /\ CellAt(frames, lead, e + 2).byte = Second(i + 1)
      <4>1. 1 \in 1 .. FrameLen(f) /\ 2 \in 1 .. FrameLen(f)
        BY <2>4
      <4>2. frames \in Seq(FrameType) /\ i \in 0 .. (Len(frames) - 1) /\ i + 1 \in Nat
        BY <2>2, SumIsInt
      <4>3. CellAt(frames, lead, e + 1) = OnWire(i + 1, f)[1] /\ CellAt(frames, lead, e + 2) = OnWire(i + 1, f)[2]
        BY <2>3, <4>1, <4>2, CellsOfFrame
      <4>4. /\ OnWire(i + 1, f)[1] = [byte |-> First(i + 1), data |-> <<>>]
            /\ OnWire(i + 1, f)[2] = [byte |-> Second(i + 1), data |-> <<>>]
        BY <2>3, <4>2, OnWireIs
      <4>5. QED
        BY <4>3, <4>4
    <3>2. buf'[1] = First(i + 1) /\ buf'[2] = Second(i + 1)
      <4>1. 1 \in 1 .. Status(2) /\ 2 \in 1 .. Status(2)
        BY <2>5
      <4>2. Taken(2)[1] = First(i + 1) /\ Taken(2)[2] = Second(i + 1)
        BY <1>1, <1>2, <3>1, <4>1
      <4>3. \A k \in 1 .. 12 : Over(FreshBuffer, Taken(2))[k]
                 = IF k \in DOMAIN Taken(2) THEN Taken(2)[k] ELSE FreshBuffer[k]
        <5>1. \A k \in DOMAIN Taken(2) : Taken(2)[k] \in Byte
          BY <1>2
        <5>2. QED
          BY <5>1, SomeJunk, OverIs
      <4>4. 1 \in 1 .. 12 /\ 2 \in 1 .. 12
        OBVIOUS
      <4>5. QED
        BY <1>2, <2>1, <4>1, <4>2, <4>3, <4>4, Zenon
    <3>3. HeadOf(f)'
      <4>1. /\ buf'[1] = First(i + 1) => head'.fin = f.fin
            /\ buf'[2] = Second(i + 1) => /\ head'.masked = f.masked
                                          /\ head'.form = f.form
                                          /\ head'.form = "short" => head'.n = f.n
        BY <2>1, <2>3 DEF HeadersOf
      <4>2. QED
        BY <1>1, <3>2, <4>1 DEF HeadOf
    <3>4. Within(i)'
      <4>1. Holds(message, EndOf(frames, lead, i))
        BY <1>1
      <4>2. QED
        BY <1>1, <2>2, <3>3, <4>1, WithinBegins
    <3>5. BeforeExtended(i)' /\ i \in 0 .. Len(frames')
      BY <1>1, <2>1, <2>5, <3>4 DEF BeforeExtended
    <3>6. QED
      BY <3>5 DEF InStep
  <2>6. CASE Status(2) # 2
    <3>1. Status(2) = 1 /\ got' = delivered /\ ended # "no"
      BY <1>2, <1>4, <2>1, <2>6
    <3>2. 1 \in 1 .. Ahead(f) /\ 1 < FrameLen(f)
      BY <2>4
    <3>3. got' = e + 1
      BY <1>1, <2>1, <3>1
    <3>4. CutOff'
      BY <1>1, <2>1, <2>2, <3>1, <3>2, <3>3, CutInFront
    <3>5. QED
      BY <3>4
  <2>7. QED
    BY <2>5, <2>6
<1>5. QED
  BY <1>3, <1>4 DEF Header

\* In a frame the reader can read, it asks for what there is.
LEMMA AskedIs ==
  ASSUME Framed, Types, NEW i \in 0 .. Len(frames), Within(i)
  PROVE  /\ i + 1 \in DOMAIN frames /\ frames[i + 1] \in FrameType
         /\ head.form # "long" /\ ExtRead(head.form) = ExtSent(head.form)
         /\ head.form = frames[i + 1].form /\ head.masked = frames[i + 1].masked
         /\ Asked = ExtSent(head.form) + Masks(frames[i + 1])
         /\ Ahead(frames[i + 1]) = 2 + ExtSent(head.form) + Masks(frames[i + 1])
         /\ ExtSent(head.form) \in {0, 2} /\ Masks(frames[i + 1]) \in {0, 4}
         /\ Asked \in Nat /\ Ahead(frames[i + 1]) = 2 + Asked
<1> DEFINE f == frames[i + 1]
<1>1. f \in FrameType /\ i + 1 \in DOMAIN frames
  BY InsideFrame DEF Within
<1>2. head.form = f.form /\ head.masked = f.masked
  BY DEF Within, HeadOf
<1>3. head.form \in {"short", "medium"}
  <2>1. f.form # "long"
    BY <1>1 DEF Framed
  <2>2. f.form \in Forms
    BY <1>1 DEF FrameType
  <2>3. QED
    BY <1>2, <2>1, <2>2 DEF Forms
<1>4. ExtRead(head.form) = ExtSent(head.form) /\ ExtSent(head.form) \in {0, 2} /\ head.form # "long"
  BY <1>3 DEF ExtRead, ExtSent
<1>5. Masks(f) = (IF head.masked THEN 4 ELSE 0) /\ Masks(f) \in {0, 4}
  BY <1>2 DEF Masks
<1>6. Asked = ExtSent(head.form) + Masks(f)
  BY <1>4, <1>5 DEF Asked
<1>7. Ahead(f) = 2 + ExtSent(head.form) + Masks(f)
  BY <1>2 DEF Ahead
<1> HIDE DEF f
<1>8. Asked \in Nat /\ Ahead(f) = 2 + Asked
  <2> DEFINE x == ExtSent(head.form)
             m == Masks(f)
  <2>1. x \in {0, 2} /\ m \in {0, 4} /\ Asked = x + m /\ Ahead(f) = 2 + x + m
    BY <1>4, <1>5, <1>6, <1>7
  <2> HIDE DEF x, m
  <2>2. QED
    BY <2>1
<1>9. QED
  BY <1>1, <1>2, <1>4, <1>5, <1>6, <1>7, <1>8 DEF f

\* The bytes of the stream behind the first two of a frame.
LEMMA BytesOfFrame ==
  ASSUME Types, NEW i \in 0 .. Len(frames), i < Len(frames), from <= EndOf(frames, lead, i)
  PROVE  LET f == frames[i + 1]
             e == EndOf(frames, lead, i)
         IN  /\ \A k \in 1 .. ExtSent(f.form) :
                   CellAt(frames, lead, e + 2 + k).byte = Ext(i + 1, k)
             /\ \A k \in 1 .. Masks(f) :
                   CellAt(frames, lead, e + 2 + ExtSent(f.form) + k).byte = Mask(i + 1, k)
             /\ \A k \in 1 .. f.n :
                   /\ CellAt(frames, lead, e + Ahead(f) + k).byte = PayloadByte(i + 1, f, k)
                   /\ CellAt(frames, lead, e + Ahead(f) + k).data = <<Data(i + 1, k)>>
<1> DEFINE f == frames[i + 1]
           e == EndOf(frames, lead, i)
           o == OnWire(i + 1, f)
           c(k) == CellAt(frames, lead, k)
           x == ExtSent(f.form)
           m == Masks(f)
           n == f.n
           a == Ahead(f)
           l == FrameLen(f)
<1>1. f \in FrameType /\ e \in Nat
  BY InsideFrame
<1>2. x \in Nat /\ m \in Nat /\ n \in Nat /\ a = 2 + x + m /\ l = a + n
  BY <1>1, FrameLengths DEF Ahead, FrameLen
<1>3. frames \in Seq(FrameType) /\ i \in 0 .. (Len(frames) - 1) /\ i + 1 \in Nat /\ lead \in Int
  BY SumIsInt DEF Types
<1>4. \A k \in 1 .. l : c(e + k) = o[k]
  BY <1>3, CellsOfFrame
<1>5. /\ \A k \in 1 .. x : o[2 + k] = [byte |-> Ext(i + 1, k), data |-> <<>>]
      /\ \A k \in 1 .. m : o[2 + x + k] = [byte |-> Mask(i + 1, k), data |-> <<>>]
      /\ \A k \in 1 .. n : o[a + k] = [byte |-> PayloadByte(i + 1, f, k), data |-> <<Data(i + 1, k)>>]
  BY <1>1, <1>3, OnWireIs
<1> HIDE DEF e, o, c, x, m, n, a, l, f
<1>51. /\ \A k \in 1 .. x : o[2 + k].byte = Ext(i + 1, k)
       /\ \A k \in 1 .. m : o[2 + x + k].byte = Mask(i + 1, k)
       /\ \A k \in 1 .. n : /\ o[a + k].byte = PayloadByte(i + 1, f, k)
                            /\ o[a + k].data = <<Data(i + 1, k)>>
  <2>1. ASSUME NEW k \in 1 .. x
        PROVE  o[2 + k].byte = Ext(i + 1, k)
    <3>1. o[2 + k] = [byte |-> Ext(i + 1, k), data |-> <<>>]
      BY <1>5
    <3>2. QED
      BY <3>1
  <2>2. ASSUME NEW k \in 1 .. m
        PROVE  o[2 + x + k].byte = Mask(i + 1, k)
    <3>1. o[2 + x + k] = [byte |-> Mask(i + 1, k), data |-> <<>>]
      BY <1>5
    <3>2. QED
      BY <3>1
  <2>3. ASSUME NEW k \in 1 .. n
        PROVE  o[a + k].byte = PayloadByte(i + 1, f, k) /\ o[a + k].data = <<Data(i + 1, k)>>
    <3>1. o[a + k] = [byte |-> PayloadByte(i + 1, f, k), data |-> <<Data(i + 1, k)>>]
      BY <1>5
    <3>2. QED
      BY <3>1
  <2>4. QED
    BY <2>1, <2>2, <2>3
<1>6. /\ \A k \in 1 .. x : 2 + k \in 1 .. l /\ e + 2 + k = e + (2 + k)
      /\ \A k \in 1 .. m : 2 + x + k \in 1 .. l /\ e + 2 + x + k = e + (2 + x + k)
      /\ \A k \in 1 .. n : a + k \in 1 .. l /\ e + a + k = e + (a + k)
  BY <1>1, <1>2
<1>7. ASSUME NEW k \in 1 .. x
      PROVE  c(e + 2 + k).byte = Ext(i + 1, k)
  <2>1. c(e + 2 + k) = o[2 + k]
    BY <1>4, <1>6
  <2>2. QED
    BY <1>51, <2>1, Zenon
<1>8. ASSUME NEW k \in 1 .. m
      PROVE  c(e + 2 + x + k).byte = Mask(i + 1, k)
  <2>1. c(e + 2 + x + k) = o[2 + x + k]
    BY <1>4, <1>6
  <2>2. QED
    BY <1>51, <2>1, Zenon
<1>9. ASSUME NEW k \in 1 .. n
      PROVE  c(e + a + k).byte = PayloadByte(i + 1, f, k) /\ c(e + a + k).data = <<Data(i + 1, k)>>
  <2>1. c(e + a + k) = o[a + k]
    BY <1>4, <1>6
  <2>2. QED
    BY <1>51, <2>1, Zenon
<1>10. QED
  BY <1>7, <1>8, <1>9, Zenon DEF e, c, x, m, n, a, f

LEMMA ExtendedKeeps ==
  ASSUME Types, Framed, NEW i \in 0 .. Len(frames), BeforeExtended(i), Extended
  PROVE  InStep' \/ CutOff'
<1> DEFINE e == EndOf(frames, lead, i)
           f == frames[i + 1]
           n == Asked
           x == ExtSent(head.form)
           m == Masks(f)
           s == Status(n)
<1>1. /\ Within(i) /\ got = e + 2
      /\ Returns(n) /\ UNCHANGED <<frames, lead, delivered, head, mask, payload, message, from>>
  BY DEF BeforeExtended, Extended
<1>2. i < Len(frames) /\ from <= e /\ Holds(message, e) /\ HeadOf(f)
  BY <1>1 DEF Within
<1>3. /\ x \in {0, 2} /\ m \in {0, 4} /\ n = x + m /\ n \in Nat /\ Ahead(f) = 2 + n
      /\ x = ExtSent(f.form) /\ f \in FrameType /\ n <= 8
  <2>1. n <= 8
    BY HeadIs DEF Types
  <2>2. QED
    BY <1>1, <2>1, AskedIs
<1>4. /\ s \in Int /\ s <= n
      /\ DOMAIN Taken(n) = 1 .. s
      /\ \A k \in 1 .. s : /\ Taken(n)[k] \in Byte
                           /\ Taken(n)[k] = CellAt(frames, lead, got + k).byte
      /\ \/ s = n
         \/ ended # "no" /\ s >= 0 /\ s < n /\ got + s = delivered
         \/ ended # "no" /\ s < 0 /\ got = delivered /\ n > 0
  BY <1>1, <1>3, RecvIs
<1>5. FrameLen(f) \in Nat /\ FrameLen(f) >= Ahead(f) /\ e \in Nat
  <2>1. f.n \in Nat /\ Ahead(f) \in Nat /\ FrameLen(f) \in Nat
    BY <1>3, FrameLengths
  <2>2. FrameLen(f) = Ahead(f) + f.n
    BY DEF FrameLen
  <2>3. FrameLen(f) >= Ahead(f)
    BY <2>1, <2>2
  <2>4. QED
    BY <1>2, <2>1, <2>3, InsideFrame
<1>6. CASE (RecvFails \/ RecvEnds) /\ n > 0 /\ s <= 0
  <2>1. pc' = "idle" /\ got' = got /\ (RecvEnds => ended' = ended) /\ (RecvFails => ended' = "closed")
    BY <1>6 DEF RecvFails, RecvEnds, Return
  <2>2. ended # "no" /\ got = delivered
    <3>1. got \in Nat /\ s # n
      BY <1>3, <1>4, <1>6 DEF Types
    <3> HIDE DEF s, n
    <3>2. QED
      BY <1>4, <1>6, <3>1
  <2>3. 2 \in 1 .. Ahead(f) /\ 2 < FrameLen(f)
    <3> HIDE DEF n, f, s
    <3>1. QED
      BY <1>3, <1>5, <1>6
  <2>4. CutOff'
    BY <1>1, <1>2, <1>6, <2>1, <2>2, <2>3, CutInFront
  <2>5. QED
    BY <2>4
<1>7. CASE /\ n = 0 \/ s > 0
           /\ Take(n)
           /\ buf' = Over(buf, Taken(n))
           /\ pc' = "length"
           /\ UNCHANGED <<ended, result>>
  <2>1. got' = e + 2 + s
    BY <1>1, <1>7 DEF Take
  <2>2. CASE s = n
    <3>1. got' = e + Ahead(f)
      <4> HIDE DEF e, f, n, s
      <4>1. QED
        BY <1>3, <1>5, <2>1, <2>2
    <3>2. \A k \in 1 .. n : buf'[k] = CellAt(frames, lead, e + 2 + k).byte
      <4>1. buf \in [1 .. 12 -> Byte]
        BY NowTypes DEF BeforeExtended
      <4>2. \A k \in DOMAIN Taken(n) : Taken(n)[k] \in Byte
        BY <1>4
      <4>3. \A k \in 1 .. 12 : Over(buf, Taken(n))[k]
               = IF k \in DOMAIN Taken(n) THEN Taken(n)[k] ELSE buf[k]
        BY <4>1, <4>2, OverIs
      <4>4. \A k \in 1 .. n : k \in 1 .. 12
        BY <1>3
      <4>5. ASSUME NEW k \in 1 .. n
            PROVE  buf'[k] = CellAt(frames, lead, e + 2 + k).byte
        <5>1. k \in DOMAIN Taken(n) /\ k \in 1 .. 12
          BY <1>4, <2>2, <4>4
        <5>2. buf'[k] = Taken(n)[k]
          BY <1>7, <4>3, <5>1
        <5>3. Taken(n)[k] = CellAt(frames, lead, got + k).byte
          BY <1>4, <5>1
        <5>4. QED
          BY <1>1, <5>2, <5>3
      <4>6. QED
        BY <4>5
    <3>3. /\ \A k \in 1 .. x : CellAt(frames, lead, e + 2 + k).byte = Ext(i + 1, k)
          /\ \A k \in 1 .. m : CellAt(frames, lead, e + 2 + x + k).byte = Mask(i + 1, k)
      BY <1>2, <1>3, BytesOfFrame
    <3>4. \A k \in 1 .. x : buf'[k] = Ext(i + 1, k)
      <4>1. \A k \in 1 .. x : k \in 1 .. n
        <5> HIDE DEF x, m, n
        <5>1. QED
          BY <1>3
      <4>2. QED
        BY <3>2, <3>3, <4>1
    <3>5. \A k \in 1 .. m : buf'[x + k] = Mask(i + 1, k)
      <4>1. \A k \in 1 .. m : x + k \in 1 .. n /\ e + 2 + (x + k) = e + 2 + x + k
        <5>1. x \in Nat /\ m \in Nat /\ n = x + m /\ e \in Nat
          <6> HIDE DEF x, m, n, e
          <6>1. QED
            BY <1>3, <1>5
        <5> HIDE DEF x, m, n, e
        <5>2. QED
          BY <5>1
      <4>2. QED
        BY <3>2, <3>3, <4>1
    <3>6. Within(i)'
      BY <1>1, <1>2, HeadStays, WithinStays
    <3>7. BeforeLength(i)' /\ i \in 0 .. Len(frames')
      BY <1>1, <1>7, <3>1, <3>4, <3>5, <3>6 DEF BeforeLength
    <3>8. QED
      BY <3>7 DEF InStep
  <2>3. CASE s # n
    <3>1. s \in Nat /\ s > 0 /\ s < n /\ got' = delivered /\ ended # "no"
      <4>1. n \in Nat
        BY <1>3
      <4> HIDE DEF s, n, e
      <4>2. QED
        BY <1>1, <1>4, <1>7, <2>1, <2>3, <4>1
    <3> DEFINE k == 2 + s
    <3>2. k \in 1 .. Ahead(f) /\ k < FrameLen(f) /\ got' = e + k
      <4> HIDE DEF s, n, e, f
      <4>1. QED
        BY <1>3, <1>5, <2>1, <3>1
    <3> HIDE DEF k
    <3>3. CutOff'
      BY <1>1, <1>2, <1>7, <3>1, <3>2, CutInFront
    <3>4. QED
      BY <3>3
  <2>4. QED
    BY <2>2, <2>3
<1>8. QED
  <2>1. \/ n > 0 /\ s < 0 /\ RecvFails /\ buf' = <<>>
        \/ n > 0 /\ s = 0 /\ RecvEnds /\ buf' = <<>>
        \/ /\ n = 0 \/ s > 0
           /\ Take(n)
           /\ buf' = Over(buf, Taken(n))
           /\ pc' = "length"
           /\ UNCHANGED <<ended, result>>
    BY DEF Extended
  <2>2. s < 0 \/ s = 0 => s <= 0
    BY <1>4
  <2>3. QED
    BY <1>6, <1>7, <2>1, <2>2

LEMMA LengthKeeps ==
  ASSUME Types, Framed, NEW i \in 0 .. Len(frames), BeforeLength(i), Length \/ LengthIsHuge
  PROVE  InStep' \/ CutOff'
<1> DEFINE f == frames[i + 1]
<1>1. /\ Within(i) /\ HeadOf(f) /\ i < Len(frames)
      /\ got = EndOf(frames, lead, i) + Ahead(f)
      /\ \A k \in 1 .. ExtSent(head.form) : buf[k] = Ext(i + 1, k)
      /\ \A k \in 1 .. Masks(f) : buf[ExtSent(head.form) + k] = Mask(i + 1, k)
  BY DEF BeforeLength, Within
<1>2. /\ i + 1 \in DOMAIN frames /\ f \in FrameType /\ head.form # "long"
      /\ ExtRead(head.form) = ExtSent(head.form)
      /\ head.form = f.form /\ head.masked = f.masked /\ head.fin = f.fin
  BY <1>1, AskedIs DEF HeadOf
<1>3. Length
  BY <1>2 DEF LengthIsHuge
<1>4. PICK n \in LengthsIn(buf) : head' = [head EXCEPT !.n = n] /\ payload' = Resize(payload, n)
  BY <1>3 DEF Length
<1>5. /\ mask' = MaskIn(buf) /\ pc' = "payload"
      /\ UNCHANGED <<frames, lead, delivered, ended, got, message, from>>
  BY <1>3 DEF Length, stream
<1>6. n = f.n
  <2>1. CASE head.form = "short"
    BY <1>1, <1>4, <2>1 DEF LengthsIn, HeadOf
  <2>2. CASE head.form # "short"
    <3>1. \A j \in DOMAIN frames :
             /\ frames[j].form = head.form
             /\ \A k \in 1 .. ExtSent(head.form) : buf[k] = Ext(j, k)
             => n = frames[j].n
      BY <1>4, <2>2 DEF LengthsIn
    <3>2. QED
      BY <1>1, <1>2, <3>1
  <2>3. QED
    BY <2>1, <2>2
<1>7. head'.n = n /\ head'.fin = head.fin /\ head'.masked = head.masked /\ head'.form = head.form
  BY <1>4 DEF Types, Headers
<1>8. HeadOf(f)'
  BY <1>2, <1>5, <1>6, <1>7 DEF HeadOf
<1>9. Within(i)'
  BY <1>1, <1>5, <1>8, WithinStays
<1>10. Len(payload') = n
  <2>1. n \in Nat
    BY <1>2, <1>6 DEF FrameType
  <2>2. QED
    BY <1>4, <2>1 DEF Resize
<1>11. head'.masked => \A k \in 1 .. 4 : mask'[k] = Mask(i + 1, k)
  <2>1. f.masked => Masks(f) = 4
    BY DEF Masks
  <2>2. \A k \in 1 .. 4 : mask'[k] = buf[ExtRead(head.form) + k]
    BY <1>5 DEF MaskIn
  <2>3. QED
    BY <1>1, <1>2, <1>7, <2>1, <2>2
<1>12. BeforePayload(i)' /\ i \in 0 .. Len(frames')
  BY <1>1, <1>5, <1>6, <1>7, <1>9, <1>10, <1>11 DEF BeforePayload
<1>13. QED
  BY <1>12 DEF InStep

\* What the bytes of a payload are when they are unmasked.
LEMMA PayloadIs ==
  ASSUME Types, NEW i \in 0 .. Len(frames), BeforePayload(i),
         i + 1 \in DOMAIN frames, frames[i + 1] \in FrameType,
         NEW s \in Nat, s <= head.n, NEW p \in Seq(Byte), Len(p) = head.n,
         \A k \in 1 .. s : p[k] = PayloadByte(i + 1, frames[i + 1], k)
  PROVE  /\ Unmask(p) \in Seq(Byte) /\ Len(Unmask(p)) = head.n
         /\ \A k \in 1 .. s : \/ Unmask(p)[k] = Data(i + 1, k)
                              \/ Spoils(frames, Data(i + 1, k))
<1> DEFINE f == frames[i + 1]
<1>1. /\ head.n = f.n /\ head.masked = f.masked
      /\ head.masked => \A k \in 1 .. 4 : mask[k] = Mask(i + 1, k)
  BY DEF BeforePayload, Within, HeadOf
<1>2. /\ Unmask(p) \in Seq(Byte) /\ Len(Unmask(p)) = head.n
      /\ \A k \in 1 .. head.n : Unmask(p)[k] = Xor(p[k], mask[((k - 1) % 4) + 1])
  BY NowTypes, UnmaskIs
<1>3. head.n \in Nat
  BY HeadIs DEF Types
<1>4. ASSUME NEW k \in 1 .. s
      PROVE  Unmask(p)[k] = Data(i + 1, k) \/ Spoils(frames, Data(i + 1, k))
  <2> DEFINE q == ((k - 1) % 4) + 1
  <2>1. k \in 1 .. head.n /\ k \in Nat \ {0}
    BY <1>3
  <2>2. q \in 1 .. 4
    BY <2>1, MaskPlace
  <2>3. Unmask(p)[k] = Xor(p[k], mask[q])
    BY <1>2, <2>1
  <2>4. p[k] = IF f.masked THEN Xor(Data(i + 1, k), Mask(i + 1, q)) ELSE Data(i + 1, k)
    BY DEF PayloadByte
  <2> HIDE DEF q
  <2>5. CASE f.masked
    <3>1. Unmask(p)[k] = Xor(Xor(Data(i + 1, k), Mask(i + 1, q)), Mask(i + 1, q))
      BY <1>1, <2>2, <2>3, <2>4, <2>5
    <3>2. QED
      BY <3>1, XorTwice
  <2>6. CASE ~f.masked
    BY <1>1, <2>1, <2>6 DEF Spoils
  <2>7. QED
    BY <2>5, <2>6
<1>5. QED
  BY <1>2, <1>4

LEMMA PayloadKeeps ==
  ASSUME Types, Framed, NEW i \in 0 .. Len(frames), BeforePayload(i), Payload
  PROVE  InStep' \/ CutOff'
<1> DEFINE e == EndOf(frames, lead, i)
           f == frames[i + 1]
           n == head.n
           s == Status(n)
           a == Ahead(f)
<1>1. /\ Within(i) /\ got = e + a /\ n = f.n /\ Len(payload) = n
      /\ Returns(n) /\ UNCHANGED <<frames, lead, delivered, buf, head, mask, message, from>>
  BY DEF BeforePayload, Payload
<1>2. i < Len(frames) /\ from <= e /\ Holds(message, e) /\ HeadOf(f)
  BY <1>1 DEF Within
<1>3. /\ f \in FrameType /\ i + 1 \in DOMAIN frames /\ e \in Nat /\ lead \in Int
      /\ i + 1 \in 0 .. Len(frames)
      /\ EndOf(frames, lead, i + 1) = e + FrameLen(f)
      /\ e + FrameLen(f) <= EndOf(frames, lead, Len(frames))
      /\ \A m \in 1 .. (FrameLen(f) - 1), j \in 0 .. Len(frames) :
            e + m # EndOf(frames, lead, j)
      /\ \A m \in 0 .. a : DataOf(frames, lead, from, e + m) = DataOf(frames, lead, from, e)
  BY <1>2, InsideFrame
<1>4. n \in Nat /\ a \in Nat /\ a >= 2 /\ FrameLen(f) = a + n
  BY <1>1, <1>3, FrameLengths DEF FrameLen
<1>5. /\ s \in Int /\ s <= n
      /\ DOMAIN Taken(n) = 1 .. s
      /\ \A k \in 1 .. s : /\ Taken(n)[k] \in Byte
                           /\ Taken(n)[k] = CellAt(frames, lead, got + k).byte
      /\ \/ s = n
         \/ ended # "no" /\ s >= 0 /\ s < n /\ got + s = delivered
         \/ ended # "no" /\ s < 0 /\ got = delivered /\ n > 0
  BY <1>1, <1>4, RecvIs
<1>6. CASE Refused /\ RecvFails
  <2>1. pc' = "idle" /\ got' = got /\ ended' = "closed"
    BY <1>6 DEF RecvFails, Return
  <2>2. got = delivered
    BY <1>6 DEF Refused, Left, Types
  <2>3. CASE n > 0
    <3>1. a \in 1 .. a /\ a < FrameLen(f)
      <4> HIDE DEF n, s, a, f
      <4>1. QED
        BY <1>4, <2>3
    <3>2. CutOff'
      BY <1>1, <1>2, <2>1, <2>2, <3>1, CutInFront
    <3>3. QED
      BY <3>2
  <2>4. CASE ~(n > 0)
    <3>1. a \in 0 .. a /\ FrameLen(f) = a /\ from <= e + a
      <4>1. from \in Nat /\ from <= e /\ e \in Nat
        BY <1>2, <1>3 DEF Types
      <4> HIDE DEF n, s, a, f, e
      <4>2. QED
        BY <1>4, <2>4, <4>1
    <3>2. DataOf(frames, lead, from, e + a) = DataOf(frames, lead, from, e)
      BY <1>3, <3>1
    <3>3. got = EndOf(frames, lead, i + 1) /\ from <= EndOf(frames, lead, i + 1)
      BY <1>1, <1>3, <3>1
    <3>4. Holds(message, got)
      BY <1>1, <1>2, <3>2 DEF Holds
    <3>5. Between(i + 1)'
      BY <1>1, <2>1, <3>3, <3>4 DEF Between, Holds
    <3>6. i + 1 \in 0 .. Len(frames')
      BY <1>1, <1>3
    <3>7. QED
      BY <3>5, <3>6 DEF InStep
  <2>5. QED
    BY <2>3, <2>4
<1>7. CASE /\ ~Refused
           /\ Take(n)
           /\ payload' = Over(payload, Taken(n))
           /\ pc' = "append"
           /\ UNCHANGED <<ended, result>>
  <2> DEFINE D == [k \in 1 .. n |-> Data(i + 1, k)]
             p == payload'
  <2>1. got' = e + a + s
    BY <1>1, <1>7 DEF Take
  <2>2. s \in Nat /\ s <= n
    <3>1. s >= 0
      BY <1>4, <1>7, NotRefusedIs
    <3> HIDE DEF n, s
    <3>2. QED
      BY <1>4, <1>5, <3>1
  <2>3. /\ p \in Seq(Byte) /\ Len(p) = n
        /\ \A k \in 1 .. s : p[k] = PayloadByte(i + 1, f, k)
    <3>1. payload \in [1 .. n -> Byte]
      BY <1>1, NowTypes
    <3>2. \A k \in DOMAIN Taken(n) : Taken(n)[k] \in Byte
      BY <1>5
    <3>3. /\ p \in [1 .. n -> Byte]
          /\ \A k \in 1 .. n : p[k] = IF k \in DOMAIN Taken(n) THEN Taken(n)[k] ELSE payload[k]
      <4> DEFINE o == Over(payload, Taken(n))
      <4>1. /\ o \in [1 .. n -> Byte]
            /\ \A k \in 1 .. n : o[k] = IF k \in DOMAIN Taken(n) THEN Taken(n)[k] ELSE payload[k]
        <5> HIDE DEF n, p, e, f, s, a, D
        <5>1. Over(payload, Taken(n)) \in [1 .. n -> Byte]
          BY <3>1, <3>2, OverIs
        <5>2. ASSUME NEW k \in 1 .. n
              PROVE  o[k] = IF k \in DOMAIN Taken(n) THEN Taken(n)[k] ELSE payload[k]
          <6>1. k \in DOMAIN payload
            BY <3>1
          <6> HIDE DEF n
          <6>2. QED
            BY <6>1, Zenon DEF Over
        <5>3. QED
          BY <5>1, <5>2
      <4>2. p = o
        BY <1>7
      <4> HIDE DEF o, p, n
      <4>3. QED
        BY <4>1, <4>2
    <3>4. p \in Seq(Byte) /\ Len(p) = n
      <4> HIDE DEF n, p
      <4>1. QED
        BY <1>4, <3>3
    <3>5. ASSUME NEW k \in 1 .. s
          PROVE  p[k] = PayloadByte(i + 1, f, k)
      <4>1. k \in 1 .. n
        BY <1>4, <2>2
      <4>2. p[k] = Taken(n)[k]
        BY <1>5, <3>3, <4>1
      <4>3. p[k] = CellAt(frames, lead, e + a + k).byte
        BY <1>1, <1>5, <4>2
      <4>4. QED
        BY <1>1, <1>2, <4>1, <4>3, BytesOfFrame
    <3>6. QED
      BY <3>4, <3>5
  <2>4. /\ Unmask(p) \in Seq(Byte) /\ Len(Unmask(p)) = n
        /\ \A k \in 1 .. s : Unmask(p)[k] = Data(i + 1, k) \/ Spoils(frames, Data(i + 1, k))
    BY <1>3, <2>2, <2>3, PayloadIs
  <2>5. Unmask(payload)' = Unmask(p)
    BY <1>1 DEF Unmask
  <2> DEFINE d == DataOf(frames, lead, from, e)
             g == DataOf(frames, lead, from, e + a + s)
  <2>6. GoesOn(d, g, s, D)
    <3> DEFINE b == e + a
               t == EndOf(frames, lead, Len(frames))
    <3>1. b \in Nat /\ from <= b /\ b + s <= t /\ t \in Int
      <4>1. from \in Nat /\ t \in Int
        BY SumIsInt DEF Types
      <4>2. from <= e /\ e \in Nat /\ e + FrameLen(f) <= t
        BY <1>2, <1>3
      <4> HIDE DEF e, a, f, t, n, s
      <4>3. QED
        BY <1>4, <2>2, <4>1, <4>2
    <3>2. \A k \in 1 .. s : D[k] \in Byte /\ CellAt(frames, lead, b + k).data = <<D[k]>>
      <4>1. \A k \in 1 .. s : k \in 1 .. n /\ k \in Int
        BY <1>4, <2>2
      <4>2. \A k \in 1 .. n : CellAt(frames, lead, b + k).data = <<Data(i + 1, k)>>
        BY <1>1, <1>2, BytesOfFrame
      <4>3. \A k \in 1 .. s : D[k] = Data(i + 1, k)
        BY <4>1
      <4>4. \A k \in Int : Data(i + 1, k) \in Byte
        BY BytesAre
      <4>5. QED
        BY <4>1, <4>2, <4>3, <4>4
    <3>3. frames \in Seq(FrameType) /\ from \in Nat
      BY SumIsInt DEF Types
    <3>4. DataOf(frames, lead, from, b) = d
      <4>1. a \in 0 .. a
        BY <1>4
      <4>2. QED
        BY <1>3, <4>1
    <3> HIDE DEF b, D, d, t, s, e
    <3>5. GoesOn(DataOf(frames, lead, from, b), DataOf(frames, lead, from, b + s), s, D)
      BY <1>3, <2>2, <3>1, <3>2, <3>3, DataFull DEF t
    <3>6. QED
      BY <3>4, <3>5 DEF b
  <2>7. d \in Seq(Byte) /\ g \in Seq(Byte)
    <3> DEFINE t == EndOf(frames, lead, Len(frames))
    <3>1. from \in Nat /\ t \in Int /\ frames \in Seq(FrameType)
      BY SumIsInt DEF Types
    <3>2. from <= e /\ e \in Nat /\ e + FrameLen(f) <= t
      BY <1>2, <1>3
    <3>3. e <= t /\ e + a + s <= t /\ from <= e + a + s /\ e + a + s \in Nat
      <4> HIDE DEF e, a, f, t, n, s
      <4>1. QED
        BY <1>4, <2>2, <3>1, <3>2
    <3> HIDE DEF s, e, a
    <3>4. QED
      BY <1>3, <3>1, <3>2, <3>3, DataIs
  <2>8. /\ Starts(frames, message \o Unmask(p), g)
        /\ s = n => Whole(frames, message \o Unmask(p), g)
    <3>1. Whole(frames, message, d) /\ message \in Seq(Byte)
      BY <1>2, NowTypes DEF Holds
    <3>2. \A k \in 1 .. s : Unmask(p)[k] = D[k] \/ Spoils(frames, D[k])
      <4>1. \A k \in 1 .. s : k \in 1 .. n
        BY <1>4, <2>2
      <4>2. QED
        BY <2>4, <4>1
    <3> HIDE DEF d, g, D, n, s, p
    <3>3. s <= Len(Unmask(p)) /\ Unmask(p) \in Seq(Byte) /\ (s = n <=> s = Len(Unmask(p)))
      BY <2>2, <2>4
    <3>4. QED
      BY <2>2, <2>6, <2>7, <3>1, <3>2, <3>3, StartsMore
  <2>9. CASE s = n
    <3>1. got' = EndOf(frames, lead, i + 1)
      <4> HIDE DEF e, a, f, n, s
      <4>1. QED
        BY <1>3, <1>4, <2>1, <2>9
    <3>2. Within(i)'
      BY <1>1, <1>2, HeadStays, WithinStays
    <3>3. Holds(message \o Unmask(payload), got)'
      BY <1>1, <2>1, <2>5, <2>8, <2>9 DEF Holds
    <3>4. BeforeAppend(i)' /\ i \in 0 .. Len(frames')
      BY <1>1, <1>7, <3>1, <3>2, <3>3 DEF BeforeAppend
    <3>5. QED
      BY <3>4 DEF InStep
  <2>10. CASE s # n
    <3>1. ended # "no" /\ got' = delivered /\ a + s \in 1 .. (FrameLen(f) - 1) /\ got' = e + (a + s)
      <4> DEFINE b == FrameLen(f)
      <4>1. ended # "no" /\ s < n /\ got + s = delivered
        <5> HIDE DEF n, s
        <5>1. QED
          BY <1>5, <2>2, <2>10
      <4>2. got = e + a /\ e \in Nat
        BY <1>1, <1>3
      <4>3. b = a + n /\ n \in Nat /\ a \in Nat /\ a >= 2 /\ s \in Nat
        BY <1>4, <2>2
      <4> HIDE DEF e, a, f, n, s, b
      <4>4. a + s \in 1 .. (b - 1) /\ e + (a + s) = e + a + s
        BY <4>1, <4>2, <4>3
      <4>5. got' = delivered
        BY <2>1, <4>1, <4>2
      <4>6. QED
        BY <2>1, <4>1, <4>4, <4>5 DEF b
    <3>2. \A j \in 0 .. Len(frames) : got' # EndOf(frames, lead, j)
      BY <1>3, <3>1
    <3>3. CutOff'
      BY <1>1, <1>7, <2>1, <2>5, <2>8, <3>1, <3>2 DEF CutOff
    <3>4. QED
      BY <3>3
  <2>11. QED
    BY <2>9, <2>10
<1>8. QED
  BY <1>6, <1>7 DEF Payload

LEMMA AppendKeeps ==
  ASSUME Types, NEW i \in 0 .. Len(frames), BeforeAppend(i), AppendPayload
  PROVE  InStep' \/ CutOff'
<1> DEFINE e == EndOf(frames, lead, i)
           f == frames[i + 1]
           g == EndOf(frames, lead, i + 1)
<1>1. /\ Within(i) /\ got = g /\ Holds(message \o Unmask(payload), got)
      /\ message' = message \o Unmask(payload)
      /\ UNCHANGED <<frames, lead, delivered, ended, got, from>>
  BY DEF BeforeAppend, AppendPayload, stream
<1>2. i < Len(frames) /\ from <= e /\ Quiet(i) /\ HeadOf(f)
  BY <1>1 DEF Within
<1>3. /\ f \in FrameType /\ i + 1 \in 0 .. Len(frames) /\ g = e + FrameLen(f) /\ e \in Nat
  BY <1>2, InsideFrame
<1>4. from <= g /\ from \in Nat
  <2>1. FrameLen(f) \in Nat /\ from \in Nat
    BY <1>3, FrameLengths DEF Types
  <2> HIDE DEF e, f, g
  <2>2. QED
    BY <1>2, <1>3, <2>1
<1>5. Holds(message, got)'
  BY <1>1 DEF Holds
<1>6. CASE pc' = "idle"
  <2>1. Between(i + 1)'
    BY <1>1, <1>4, <1>5, <1>6 DEF Between
  <2>2. QED
    BY <1>1, <1>3, <2>1 DEF InStep
<1>7. CASE ~head.fin /\ pc' = "header"
  <2>1. ~f.fin
    BY <1>2, <1>7 DEF HeadOf
  <2>2. Quiet(i + 1)
    <3>1. \A j \in 1 .. (i + 1) : j \in 1 .. i \/ j = i + 1
      OBVIOUS
    <3>2. QED
      BY <1>2, <2>1, <3>1 DEF Quiet
  <2>3. Quiet(i + 1)'
    BY <1>1, <2>2 DEF Quiet
  <2>4. BeforeHeader(i + 1)'
    BY <1>1, <1>4, <1>5, <1>7, <2>3 DEF BeforeHeader
  <2>5. QED
    BY <1>1, <1>3, <2>4 DEF InStep
<1>8. QED
  BY <1>6, <1>7 DEF AppendPayload, Return

-----------------------------------------------------------------------------
(* The invariant *)

LEMMA SameStream ==
  ASSUME UNCHANGED <<frames, lead>>
  PROVE  (Framed' <=> Framed) /\ (InPlace' <=> InPlace)
<1>1. Framed' <=> Framed
  BY DEF Framed
<1>2. InPlace' <=> InPlace
  BY DEF InPlace, EndsAt
<1>3. QED
  BY <1>1, <1>2

\* The steps of the peer and of a user, whoever that is.
LEMMA NextTypes ==
  ASSUME Types, [HandshakeNext]_hvars
  PROVE  Types'
<1> USE DEF handler
<1>1. CASE UNCHANGED hvars
  <2>1. UNCHANGED vars /\ UNCHANGED <<at, room, arrived>>
    BY <1>1 DEF hvars
  <2>2. arrived' \in 0 .. Len(Request)
    BY <2>1 DEF Types
  <2>3. QED
    BY <2>1, <2>2, StillTypes
<1>2. ASSUME Reader, UNCHANGED handler
      PROVE  Types'
  BY <1>2, HeaderTypes, ExtendedTypes, LengthTypes, LengthIsHugeTypes, PayloadTypes, AppendTypes
     DEF Reader
<1>3. ASSUME NEW how \in {"closed", "reset"}, End(how), UNCHANGED handler
      PROVE  Types'
  BY <1>3, EndTypes DEF End, frame
<1>4. CASE Anyone
  <2>1. CASE Peer
    BY <1>3, <1>4, <2>1, DeliverTypes DEF Anyone, Peer
  <2>2. CASE BeginRead
    BY <1>4, <2>2, BeginReadTypes DEF Anyone
  <2>3. CASE Reader
    BY <1>2, <1>4, <2>3 DEF Anyone
  <2>4. QED
    BY <1>4, <2>1, <2>2, <2>3 DEF Anyone, Next
<1>5. CASE Client
  <2>1. CASE RequestArrives
    <3>1. arrived' \in 0 .. Len(Request)
      <4>1. Len(Request) \in Nat /\ Cuts \subseteq 1 .. (Len(Request) - 1)
        BY RequestHasHeaders, HandshakeAssumption
      <4>2. QED
        BY <2>1, <4>1 DEF RequestArrives
    <3>2. QED
      BY <2>1, <3>1, StillTypes DEF RequestArrives
  <2>2. CASE FramesArrive
    BY <2>2, DeliverTypes DEF FramesArrive
  <2>3. CASE StreamEnds
    BY <1>3, <2>3 DEF StreamEnds
  <2>4. CASE LateReset
    BY <2>4, EndTypes DEF LateReset, frame
  <2>5. QED
    BY <1>5, <2>1, <2>2, <2>3, <2>4 DEF Client
<1>6. CASE Handle
  <2>1. CASE RecvRequest
    BY <2>1, RecvRequestTypes
  <2>2. CASE ReadMessage
    BY <2>2, BeginReadTypes DEF ReadMessage
  <2>3. CASE RecvNothing \/ ParseFails \/ ParseRequest \/ SendAnswer \/ AnswerFails \/ Finish
    <3>1. UNCHANGED vars /\ room' = room /\ arrived' = arrived /\ at' # "recv"
      BY <2>3 DEF RecvNothing, ParseFails, ParseRequest, SendAnswer, AnswerFails, Finish
    <3>2. arrived' \in 0 .. Len(Request)
      BY <3>1 DEF Types
    <3>3. QED
      BY <3>1, <3>2, StillTypes
  <2>4. QED
    BY <1>6, <2>1, <2>2, <2>3 DEF Handle
<1>7. CASE Reads
  BY <1>2, <1>7 DEF Reads
<1>8. QED
  BY <1>1, <1>4, <1>5, <1>6, <1>7 DEF HandshakeNext

\* Nothing of the frames has been read: the reader is between two of them, or
\* the stream is not given to it where a frame starts.
LEMMA NothingRead ==
  ASSUME Types, pc = "idle", got = 0, from = 0, message = <<>>, InPlace
  PROVE  InStep
<1>1. PICK i \in 0 .. Len(frames) : EndsAt(i) = 0
  BY DEF InPlace
<1>2. EndOf(frames, lead, i) = 0
  BY <1>1, SameWords DEF Types
<1>3. DataOf(frames, lead, 0, 0) = <<>>
  BY DataNow
<1>4. Holds(message, 0)
  BY <1>3 DEF Holds, Whole, Starts
<1>5. Between(i)
  BY <1>2, <1>4 DEF Between
<1>6. QED
  BY <1>5 DEF InStep

\* The same of the state behind a step.
LEMMA NothingReadThen ==
  ASSUME Types', pc' = "idle", got' = 0, from' = 0, message' = <<>>, InPlace'
  PROVE  InStep'
<1>1. (Types /\ pc = "idle" /\ got = 0 /\ from = 0 /\ message = <<>> /\ InPlace => InStep)'
  BY NothingRead, PTL
<1>2. QED
  BY <1>1

LEMMA ReaderKeeps ==
  ASSUME Types, Framed, InStep \/ CutOff, Reader
  PROVE  InStep' \/ CutOff'
<1>1. CASE CutOff
  BY <1>1, CutKeeps
<1>2. CASE InStep
  <2>1. PICK i \in 0 .. Len(frames) :
           \/ Between(i)
           \/ BeforeHeader(i)
           \/ BeforeExtended(i)
           \/ BeforeLength(i)
           \/ BeforePayload(i)
           \/ BeforeAppend(i)
    BY <1>2 DEF InStep
  <2>2. CASE Header
    <3>1. BeforeHeader(i)
      BY <2>1, <2>2 DEF Header, Between, BeforeExtended, BeforeLength, BeforePayload, BeforeAppend
    <3>2. QED
      BY <2>2, <3>1, HeaderKeeps
  <2>3. CASE Extended
    <3>1. BeforeExtended(i)
      BY <2>1, <2>3 DEF Extended, Between, BeforeHeader, BeforeLength, BeforePayload, BeforeAppend
    <3>2. QED
      BY <2>3, <3>1, ExtendedKeeps
  <2>4. CASE Length \/ LengthIsHuge
    <3>1. pc = "length"
      BY <2>4 DEF Length, LengthIsHuge
    <3>2. BeforeLength(i)
      BY <2>1, <3>1 DEF Between, BeforeHeader, BeforeExtended, BeforePayload, BeforeAppend
    <3>3. QED
      BY <2>4, <3>2, LengthKeeps
  <2>5. CASE Payload
    <3>1. BeforePayload(i)
      BY <2>1, <2>5 DEF Payload, Between, BeforeHeader, BeforeExtended, BeforeLength, BeforeAppend
    <3>2. QED
      BY <2>5, <3>1, PayloadKeeps
  <2>6. CASE AppendPayload
    <3>1. BeforeAppend(i)
      BY <2>1, <2>6
         DEF AppendPayload, Between, BeforeHeader, BeforeExtended, BeforeLength, BeforePayload
    <3>2. QED
      BY <2>6, <3>1, AppendKeeps
  <2>7. QED
    BY <2>2, <2>3, <2>4, <2>5, <2>6 DEF Reader
<1>3. QED
  BY <1>1, <1>2

LEMMA NextKeepsPlace ==
  ASSUME ReadInv, Types', [HandshakeNext]_hvars
  PROVE  KeepsPlace'
<1> USE DEF handler, vars, stream, frame
<1>1. Types /\ KeepsPlace
  BY DEF ReadInv
<1>2. ASSUME UNCHANGED <<frames, lead>>, Framed /\ (InStep \/ CutOff) => InStep' \/ CutOff'
      PROVE  KeepsPlace'
  BY <1>1, <1>2, SameStream DEF KeepsPlace
<1>3. ASSUME UNCHANGED vars
      PROVE  KeepsPlace'
  <2>1. CutOff => CutOff'
    BY <1>3, CutStays DEF CutOff
  <2>2. InStep => InStep'
    BY <1>3, StepStays
  <2>3. QED
    BY <1>2, <1>3, <2>1, <2>2
<1>4. ASSUME ended' # "no",
             UNCHANGED <<frames, lead, delivered, pc, got, frame, message, from>>
      PROVE  KeepsPlace'
  <2>1. CutOff => CutOff'
    BY <1>4, CutStays
  <2>2. InStep => InStep'
    BY <1>4, StepStays
  <2>3. QED
    BY <1>2, <1>4, <2>1, <2>2
<1>5. ASSUME Deliver
      PROVE  KeepsPlace'
  <2>1. ~CutOff
    BY <1>5 DEF Deliver, CutOff
  <2>2. InStep => InStep'
    BY <1>5, StepStays DEF Deliver
  <2>3. QED
    BY <1>2, <1>5, <2>1, <2>2 DEF Deliver
<1>6. ASSUME NEW how \in {"closed", "reset"}, End(how)
      PROVE  KeepsPlace'
  BY <1>4, <1>6 DEF End
<1>7. ASSUME BeginRead
      PROVE  KeepsPlace'
  <2>1. UNCHANGED <<frames, lead>>
    BY <1>7 DEF BeginRead
  <2>2. QED
    BY <1>1, <1>2, <1>7, <2>1, BeginReadKeeps
<1>8. ASSUME Reader
      PROVE  KeepsPlace'
  <2>1. UNCHANGED <<frames, lead>>
    BY <1>8 DEF Reader, Header, Extended, Length, LengthIsHuge, Payload, AppendPayload
  <2>2. QED
    BY <1>1, <1>2, <1>8, <2>1, ReaderKeeps
<1>9. CASE RecvRequest
  <2>1. pc' = "idle" /\ got' = 0 /\ from' = 0 /\ message' = <<>>
    BY <1>1, <1>9 DEF Types, RecvRequest
  <2>2. InPlace' => InStep'
    BY <2>1, NothingReadThen
  <2>3. QED
    BY <2>2 DEF KeepsPlace
<1>10. CASE UNCHANGED hvars
  BY <1>3, <1>10 DEF hvars
<1>11. CASE Anyone
  BY <1>5, <1>6, <1>7, <1>8, <1>11 DEF Anyone, Next, Peer
<1>12. CASE Client
  <2>1. CASE RequestArrives
    BY <1>3, <2>1 DEF RequestArrives
  <2>2. CASE FramesArrive
    BY <1>5, <2>2 DEF FramesArrive
  <2>3. CASE StreamEnds
    BY <1>6, <2>3 DEF StreamEnds
  <2>4. CASE LateReset
    BY <1>4, <2>4 DEF LateReset
  <2>5. QED
    BY <1>12, <2>1, <2>2, <2>3, <2>4 DEF Client
<1>13. CASE Handle
  <2>1. CASE ReadMessage
    BY <1>7, <2>1 DEF ReadMessage
  <2>2. CASE RecvNothing \/ ParseFails \/ ParseRequest \/ SendAnswer \/ AnswerFails \/ Finish
    <3>1. UNCHANGED vars
      BY <2>2 DEF RecvNothing, ParseFails, ParseRequest, SendAnswer, AnswerFails, Finish
    <3>2. QED
      BY <1>3, <3>1
  <2>3. QED
    BY <1>9, <1>13, <2>1, <2>2 DEF Handle
<1>14. CASE Reads
  BY <1>8, <1>14 DEF Reads
<1>15. QED
  BY <1>10, <1>11, <1>12, <1>13, <1>14 DEF HandshakeNext

LEMMA ReadInvStarts == HandshakeInit => ReadInv
<1> SUFFICES ASSUME HandshakeInit PROVE ReadInv
  OBVIOUS
<1>1. Types
  BY TypesStart
<1>2. pc = "idle" /\ got = 0 /\ from = 0 /\ message = <<>>
  BY DEF HandshakeInit, Init
<1>3. InPlace => InStep
  BY <1>1, <1>2, NothingRead
<1>4. QED
  BY <1>1, <1>3 DEF ReadInv, KeepsPlace

\* The invariant of the reader, alone or behind the handshake.
THEOREM ReaderKeepsItsPlace == HandshakeSpec => []ReadInv
<1>1. ASSUME ReadInv, [HandshakeNext]_hvars
      PROVE  ReadInv'
  <2>1. Types'
    BY <1>1, NextTypes DEF ReadInv
  <2>2. QED
    BY <1>1, <2>1, NextKeepsPlace DEF ReadInv
<1>2. QED
  BY <1>1, ReadInvStarts, PTL DEF HandshakeSpec

-----------------------------------------------------------------------------
(* What the reader promises *)

\* Wherever the peer ends the stream, what did arrive of its data is in
\* _message, unmasked and in order: from websocket::read's first byte on,
\* but for frames without a mask, which read_frame spoils.
THEOREM ArrivedDataIsThere == HandshakeSpec => []WhatArrivedIsThere
<1>1. ASSUME ReadInv
      PROVE  WhatArrivedIsThere
  <2> SUFFICES ASSUME Framed, InPlace, pc = "idle"
               PROVE  StartsAs(message, Sent(from, got))
    BY DEF WhatArrivedIsThere
  <2>1. Types /\ (InStep \/ CutOff)
    BY <1>1 DEF ReadInv, KeepsPlace
  <2>2. Starts(frames, message, DataOf(frames, lead, from, got))
    <3>1. CASE CutOff
      BY <3>1 DEF CutOff
    <3>2. CASE InStep
      <4>1. PICK i \in 0 .. Len(frames) : Between(i)
        BY <3>2 DEF InStep, BeforeHeader, BeforeExtended, BeforeLength, BeforePayload, BeforeAppend
      <4>2. QED
        BY <4>1 DEF Between, Holds, Whole
    <3>3. QED
      BY <2>1, <3>1, <3>2
  <2>3. QED
    BY <2>1, <2>2, SameWords DEF Types
<1>2. QED
  BY <1>1, ReaderKeepsItsPlace, PTL

\* A read() that returns at the end of a frame returns all the data of the
\* frames it took and nothing else.
THEOREM MessagesAreWhole == HandshakeSpec => []MessageIsSent
<1>1. ASSUME ReadInv
      PROVE  MessageIsSent
  <2> SUFFICES ASSUME Framed, InPlace, result = "ok", NEW j \in DOMAIN frames, got = EndsAt(j)
               PROVE  StartsAs(message, Sent(from, got)) /\ Len(message) = Len(Sent(from, got))
    BY DEF MessageIsSent
  <2>1. Types /\ (InStep \/ CutOff) /\ pc = "idle"
    BY <1>1 DEF ReadInv, KeepsPlace, Types
  <2>2. j \in 0 .. Len(frames)
    <3>1. Len(frames) \in Nat /\ DOMAIN frames = 1 .. Len(frames)
      BY <2>1, SumIsInt
    <3>2. QED
      BY <3>1
  <2>3. ~CutOff
    BY <2>1, <2>2, SameWords DEF CutOff, Types
  <2>4. PICK i \in 0 .. Len(frames) : Between(i)
    BY <2>1, <2>3
       DEF InStep, BeforeHeader, BeforeExtended, BeforeLength, BeforePayload, BeforeAppend
  <2>5. Whole(frames, message, DataOf(frames, lead, from, got))
    BY <2>4 DEF Between, Holds
  <2>6. QED
    BY <2>1, <2>5, SameWords DEF Types, Whole
<1>2. QED
  BY <1>1, ReaderKeepsItsPlace, PTL

\* While the stream goes on, a read() has passed no final frame before it
\* returns: it ends with the first one.
THEOREM ReadsTakeOneMessage == HandshakeSpec => []OneMessagePerRead
<1>1. ASSUME ReadInv
      PROVE  OneMessagePerRead
  <2> SUFFICES ASSUME Framed, InPlace, ended = "no", pc # "idle",
                      NEW j \in DOMAIN frames, frames[j].fin,
                      from < EndsAt(j), EndsAt(j) < got
               PROVE  FALSE
    BY DEF OneMessagePerRead
  <2>1. Types /\ InStep
    BY <1>1 DEF ReadInv, KeepsPlace, CutOff
  <2>2. /\ frames \in Seq(FrameType) /\ Len(frames) \in Nat /\ DOMAIN frames = 1 .. Len(frames)
        /\ lead \in Int
    BY <2>1, SumIsInt DEF Types
  <2>3. j \in 0 .. Len(frames) /\ j >= 1
    BY <2>2
  <2>4. from < EndOf(frames, lead, j) /\ EndOf(frames, lead, j) < got
    BY <2>1, <2>3, SameWords DEF Types
  <2>5. ASSUME NEW i \in 0 .. Len(frames), Quiet(i)
        PROVE  ~(j <= i)
    BY <2>2, <2>3, <2>4, <2>5 DEF Quiet
  <2>6. ASSUME NEW i \in 0 .. Len(frames), got <= EndOf(frames, lead, i)
        PROVE  j < i
    <3>1. i < j => EndOf(frames, lead, i) + 2 <= EndOf(frames, lead, j)
      BY <2>2, <2>3, EndsAre
    <3>2. EndOf(frames, lead, i) \in Int /\ EndOf(frames, lead, j) \in Int /\ got \in Nat
      BY <2>1, <2>2, <2>3, EndsAre DEF Types
    <3>3. i # j
      BY <2>4, <2>6, <3>2
    <3>4. QED
      BY <2>3, <2>4, <2>6, <3>1, <3>2, <3>3
  <2>7. ASSUME NEW i \in 0 .. Len(frames), BeforeHeader(i)
        PROVE  FALSE
    <3>1. got <= EndOf(frames, lead, i) /\ Quiet(i)
      BY <2>1, <2>7 DEF BeforeHeader, Types
    <3>2. j < i /\ ~(j <= i)
      BY <2>5, <2>6, <3>1
    <3>3. QED
      BY <2>3, <3>2
  <2>8. ASSUME NEW i \in 0 .. Len(frames), Within(i), got <= EndOf(frames, lead, i) + FrameLen(frames[i + 1])
        PROVE  FALSE
    <3>1. i < Len(frames) /\ from <= EndOf(frames, lead, i) /\ Quiet(i)
      BY <2>8 DEF Within
    <3>2. /\ i + 1 \in 0 .. Len(frames)
          /\ EndOf(frames, lead, i + 1) = EndOf(frames, lead, i) + FrameLen(frames[i + 1])
      BY <2>1, <3>1, InsideFrame
    <3>3. j < i + 1 /\ ~(j <= i)
      BY <2>5, <2>6, <2>8, <3>1, <3>2
    <3>4. QED
      BY <2>3, <3>3
  <2>9. ASSUME NEW i \in 0 .. Len(frames), Within(i)
        PROVE  /\ EndOf(frames, lead, i) \in Int
               /\ Ahead(frames[i + 1]) \in Nat /\ Ahead(frames[i + 1]) >= 2
               /\ FrameLen(frames[i + 1]) \in Nat
               /\ Ahead(frames[i + 1]) <= FrameLen(frames[i + 1])
               /\ EndOf(frames, lead, i + 1) = EndOf(frames, lead, i) + FrameLen(frames[i + 1])
    <3>1. i < Len(frames) /\ from <= EndOf(frames, lead, i)
      BY <2>9 DEF Within
    <3>2. /\ frames[i + 1] \in FrameType
          /\ EndOf(frames, lead, i) \in Nat
          /\ EndOf(frames, lead, i + 1) = EndOf(frames, lead, i) + FrameLen(frames[i + 1])
      BY <2>1, <3>1, InsideFrame
    <3>3. /\ frames[i + 1].n \in Nat /\ Ahead(frames[i + 1]) \in Nat
          /\ Ahead(frames[i + 1]) >= 2 /\ FrameLen(frames[i + 1]) \in Nat
      BY <3>2, FrameLengths
    <3>4. FrameLen(frames[i + 1]) = Ahead(frames[i + 1]) + frames[i + 1].n
      BY DEF FrameLen
    <3>5. QED
      BY <3>2, <3>3, <3>4
  <2>10. PICK i \in 0 .. Len(frames) :
            BeforeHeader(i) \/ BeforeExtended(i) \/ BeforeLength(i) \/ BeforePayload(i)
              \/ BeforeAppend(i)
    BY <2>1 DEF InStep, Between
  <2>11. Within(i)
    BY <2>7, <2>10 DEF BeforeExtended, BeforeLength, BeforePayload, BeforeAppend
  <2>12. \/ got = EndOf(frames, lead, i) + 2
         \/ got = EndOf(frames, lead, i) + Ahead(frames[i + 1])
         \/ got = EndOf(frames, lead, i + 1)
    BY <2>7, <2>10 DEF BeforeExtended, BeforeLength, BeforePayload, BeforeAppend
  <2>13. got <= EndOf(frames, lead, i) + FrameLen(frames[i + 1])
    BY <2>9, <2>11, <2>12
  <2>14. QED
    BY <2>8, <2>11, <2>13
<1>2. QED
  BY <1>1, ReaderKeepsItsPlace, PTL

-----------------------------------------------------------------------------
(* The key *)

LEMMA KeyIsText == Key \in Texts
<1> DEFINE headers == Meaning(RequestHeaders)
           name == HeaderName(KeyName)
           http == [headers |-> headers]
<1>1. Stored(headers)
  BY HandshakeAssumption, HeadersAreListed, MeaningIsStored
<1>2. http.headers = headers
  OBVIOUS
<1> HIDE DEF http
<1>3. Key = IF name \in DOMAIN http.headers THEN http.headers[name] ELSE <<>>
  BY DEF Key, HeaderOf, http
<1> HIDE DEF name, headers
<1>4. name \in DOMAIN headers => headers[name] \in Texts
  BY <1>1 DEF Stored, Tight
<1>5. <<>> \in Texts
  BY EmptySeq DEF Texts
<1>6. QED
  BY <1>2, <1>3, <1>4, <1>5

\* Where the handshake is in the stream once its recv has returned: something
\* of the request was taken, and not more than the buffer holds.
RequestIsTaken ==
    /\ lead \in Int /\ room \in Nat
    /\ Held \in 1 .. Len(Request)
    /\ Len(Request) - lead <= room

\* What the parser is given then.
TextHolds(text, n, more, full) ==
    /\ Carries(text, Request, n)
    /\ more \/ ~full => Len(text) > n
    /\ ~more /\ full => Len(text) = n

LEMMA Perhaps ==
  ASSUME NEW given \in BOOLEAN, NEW word \in Token
  PROVE  LET tail == IF given THEN <<word>> ELSE <<>>
         IN  /\ tail \in Texts /\ Len(tail) = IF given THEN 1 ELSE 0
             /\ \A i \in 1 .. Len(tail) : tail[i] = word
<1> DEFINE tail == IF given THEN <<word>> ELSE <<>>
<1>1. CASE given
  <2>1. tail = <<word>>
    BY <1>1
  <2> HIDE DEF tail
  <2>2. tail \in Texts /\ Len(tail) = 1 /\ tail[1] = word
    BY <2>1, One
  <2>3. \A i \in 1 .. 1 : i = 1
    OBVIOUS
  <2>4. QED
    BY <1>1, <2>2, <2>3 DEF tail
<1>2. CASE ~given
  <2>1. tail = <<>>
    BY <1>2
  <2> HIDE DEF tail
  <2>2. tail \in Texts /\ Len(tail) = 0
    BY <2>1, EmptySeq DEF Texts
  <2>3. QED
    BY <1>2, <2>2 DEF tail
<1>3. QED
  BY <1>1, <1>2

LEMMA TextCarries ==
  ASSUME NEW n \in 0 .. Len(Request), NEW more \in BOOLEAN, NEW full \in BOOLEAN
  PROVE  TextHolds(Text(n, more, full), n, more, full)
<1> DEFINE front == SubSeq(Request, 1, n)
           next == IF more THEN <<"frames">> ELSE <<>>
           last == IF ~full THEN <<"NUL">> ELSE <<>>
           two == front \o next
           text == two \o last
           k == Len(next)
           l == Len(last)
<1>1. Request \in Texts /\ Len(Request) \in Nat
  BY RequestHasHeaders
<1>2. front \in Texts /\ Len(front) = n /\ \A i \in 1 .. n : front[i] = Request[i]
  <2>1. 0 \in Nat /\ n \in Nat /\ 0 + n <= Len(Request)
    BY <1>1
  <2>2. /\ SubSeq(Request, 0 + 1, 0 + n) \in Texts /\ Len(SubSeq(Request, 0 + 1, 0 + n)) = n
        /\ \A i \in 1 .. n : SubSeq(Request, 0 + 1, 0 + n)[i] = Request[0 + i]
    BY <1>1, <2>1, SubText
  <2>3. 0 + 1 = 1 /\ 0 + n = n /\ \A i \in 1 .. n : 0 + i = i
    BY <2>1
  <2>4. QED
    BY <2>2, <2>3
<1>3. next \in Texts /\ k = (IF more THEN 1 ELSE 0) /\ \A i \in 1 .. k : next[i] = "frames"
  <2>1. "frames" \in Token
    BY DEF Token
  <2>2. QED
    BY <2>1, Perhaps
<1>4. last \in Texts /\ l = (IF ~full THEN 1 ELSE 0) /\ \A i \in 1 .. l : last[i] = "NUL"
  <2>1. "NUL" \in Token
    BY DEF Token
  <2>2. (~full) \in BOOLEAN
    OBVIOUS
  <2>3. QED
    BY <2>1, <2>2, Perhaps
<1>5. text = Text(n, more, full)
  <2>1. last = IF full THEN <<>> ELSE <<"NUL">>
    OBVIOUS
  <2> HIDE DEF last
  <2>2. QED
    BY <2>1, Zenon DEF Text
<1> HIDE DEF front, next, last
<1>6. /\ two \in Texts /\ Len(two) = n + k
      /\ \A i \in 1 .. n : two[i] = Request[i]
      /\ \A i \in 1 .. k : two[n + i] = "frames"
  <2>1. /\ two \in Texts /\ Len(two) = Len(front) + Len(next)
        /\ \A i \in 1 .. Len(front) : two[i] = front[i]
        /\ \A i \in 1 .. Len(next) : two[Len(front) + i] = next[i]
    BY <1>2, <1>3, Concatenated
  <2> HIDE DEF two
  <2>2. QED
    BY <1>2, <1>3, <2>1
<1> HIDE DEF two
<1>7. /\ text \in Texts /\ Len(text) = (n + k) + l
      /\ \A i \in 1 .. (n + k) : text[i] = two[i]
      /\ \A i \in 1 .. l : text[(n + k) + i] = "NUL"
  <2>1. /\ text \in Texts /\ Len(text) = Len(two) + Len(last)
        /\ \A i \in 1 .. Len(two) : text[i] = two[i]
        /\ \A i \in 1 .. Len(last) : text[Len(two) + i] = last[i]
    BY <1>4, <1>6, Concatenated
  <2> HIDE DEF text
  <2>2. QED
    BY <1>4, <1>6, <2>1
<1> HIDE DEF text, k, l
<1>8. /\ n \in Nat /\ k \in Nat /\ l \in Nat /\ n <= Len(Request) /\ n <= Len(text)
      /\ more \/ ~full => Len(text) > n
      /\ ~more /\ full => Len(text) = n
  BY <1>1, <1>3, <1>4, <1>7
<1>9. \A i \in 1 .. n : text[i] = Request[i]
  <2>1. \A i \in 1 .. n : i \in 1 .. (n + k)
    BY <1>8
  <2>2. QED
    BY <1>6, <1>7, <2>1
<1>10. ASSUME NEW i \in (n + 1) .. Len(text)
       PROVE  text[i] \notin LineEnds
  <2>1. \/ i - (n + k) \in 1 .. l /\ (n + k) + (i - (n + k)) = i
        \/ i \in 1 .. (n + k) /\ i - n \in 1 .. k /\ n + (i - n) = i
    BY <1>7, <1>8
  <2>2. text[i] = "NUL" \/ text[i] = "frames"
    BY <1>6, <1>7, <2>1
  <2>3. QED
    BY <2>2 DEF LineEnds
<1>11. Carries(text, Request, n)
  BY <1>1, <1>7, <1>8, <1>9, <1>10 DEF Carries
<1>12. QED
  BY <1>5, <1>8, <1>11 DEF TextHolds

\* The key the handshake answers with.
KeyHeld == IF lead <= 0 /\ Len(Request) < room THEN Key ELSE <<>>

\* The key the handshake reads, if it reads a request.
LEMMA KeyIsRead ==
  ASSUME RequestIsTaken, Parsed.err = "NO_ERROR"
  PROVE  HeaderOf(Parsed.http, KeyName) = KeyHeld
<1> DEFINE more == lead < 0
           full == Len(Request) - lead = room
           m == Held
           text == Text(m, more, full)
           r == Parsed
           meant == Meaning(RequestHeaders)
           status == ParseStatusLine(RequestLine, EmptyHttp)
           name == HeaderName(KeyName)
           n == Len(Request)
<1>1. r = ParseHttp(text)
  BY DEF Parsed
<1>2. /\ IsMessage(Request, RequestLine, RequestHeaders, <<>>, FALSE)
      /\ n \in Nat /\ HeadersEnd(RequestLine, RequestHeaders) = n
  BY RequestHasHeaders, Zenon
<1>3. /\ lead \in Int /\ room \in Nat /\ m \in 1 .. n /\ n - lead <= room
      /\ m = IF lead > 0 THEN n - lead ELSE n
  BY DEF RequestIsTaken, Held
<1>4. /\ Carries(text, Request, m)
      /\ more \/ ~full => Len(text) > m
      /\ ~more /\ full => Len(text) = m
  <2>1. m \in 0 .. n /\ more \in BOOLEAN /\ full \in BOOLEAN
    BY <1>2, <1>3
  <2> HIDE DEF m, more, full
  <2>2. TextHolds(text, m, more, full)
    BY <2>1, TextCarries
  <2>3. QED
    BY <2>2 DEF TextHolds
<1>5. MessageRead(r, status, RequestHeaders, <<>>, FALSE, text, Request, m, n)
  <2> HIDE DEF m, text
  <2>1. MessageRead(ParseHttp(text), status, RequestHeaders, <<>>, FALSE, text, Request, m,
                    HeadersEnd(RequestLine, RequestHeaders))
    BY <1>2, <1>4, MessageIsRead, Zenon
  <2> HIDE DEF r, status, n
  <2>2. QED
    BY <1>1, <1>2, <2>1, Zenon
<1> HIDE DEF text, r, status, m
<1>6. r.err = "NO_ERROR"
  BY DEF r
<1>7. /\ r.http.headers \in {NoHeaders, meant}
      /\ r.http.headers # NoHeaders => m >= n
      /\ m >= n /\ Len(text) > m => r.http.headers = meant
      /\ m = n /\ Len(text) = m => r.http.headers = NoHeaders
  BY <1>5, <1>6, Zenon DEF MessageRead
<1>8. HeaderOf(r.http, KeyName)
        = IF name \in DOMAIN r.http.headers THEN r.http.headers[name] ELSE <<>>
  BY DEF HeaderOf
<1> HIDE DEF n
<1>9. CASE lead <= 0 /\ n < room
  <2>1. m >= n /\ (more \/ ~full)
    BY <1>2, <1>3, <1>9 DEF n
  <2>2. r.http.headers = meant
    BY <1>4, <1>7, <2>1
  <2> DEFINE http == [headers |-> meant]
  <2>3. http.headers = meant
    OBVIOUS
  <2> HIDE DEF http
  <2>4. Key = IF name \in DOMAIN http.headers THEN http.headers[name] ELSE <<>>
    BY DEF Key, HeaderOf, http
  <2>5. HeaderOf(r.http, KeyName) = Key
    BY <1>8, <2>2, <2>3, <2>4
  <2>6. QED
    BY <1>9, <2>5 DEF r, n, KeyHeld
<1>10. CASE ~(lead <= 0 /\ n < room)
  <2>1. ~(m >= n) \/ (m = n /\ ~more /\ full)
    BY <1>2, <1>3, <1>10 DEF n
  <2>2. r.http.headers = NoHeaders
    BY <1>4, <1>7, <2>1
  <2>3. name \notin DOMAIN r.http.headers
    BY <2>2 DEF NoHeaders
  <2>4. HeaderOf(r.http, KeyName) = <<>>
    BY <1>8, <2>3
  <2>5. QED
    BY <1>10, <2>4 DEF r, n, KeyHeld
<1>11. QED
  BY <1>9, <1>10

LEMMA AcceptsAre ==
  ASSUME NEW key \in Texts, NEW accept \in AcceptsOf(key)
  PROVE  accept \in {<<>>, <<"base64", "sha1">> \o key \o <<"258EAFA5">>}
<1> DEFINE S == Token \union {"base64", "sha1", "258EAFA5"}
           b == <<"base64">>
           s == <<"sha1">>
           c == <<"258EAFA5">>
           plain == key \o c
           digest == s \o plain
           bs == <<"base64", "sha1">>
<1>1. key \in Seq(S)
  <2>1. Token \subseteq S
    OBVIOUS
  <2>2. Seq(Token) \subseteq Seq(S)
    BY <2>1, SeqMonotonic
  <2>3. QED
    BY <2>2 DEF Texts
<1>2. b \in Seq(S) /\ s \in Seq(S) /\ c \in Seq(S)
  BY DEF S
<1>3. b \o s = bs
  <2>1. Len(b) = 1 /\ b[1] = "base64" /\ Len(s) = 1 /\ s[1] = "sha1"
        /\ bs \in Seq(S) /\ Len(bs) = 2 /\ bs[1] = "base64" /\ bs[2] = "sha1"
    BY DEF S
  <2> HIDE DEF S, b, s, bs
  <2> DEFINE j == b \o s
  <2>2. /\ j \in Seq(S) /\ Len(j) = Len(b) + Len(s)
        /\ \A i \in 1 .. Len(b) + Len(s) : j[i] = IF i <= Len(b) THEN b[i] ELSE s[i - Len(b)]
    BY <1>2, ConcatProperties
  <2> HIDE DEF j
  <2>3. Len(j) = 2 /\ \A i \in 1 .. 2 : j[i] = IF i <= 1 THEN b[i] ELSE s[i - 1]
    BY <2>1, <2>2
  <2>4. j[1] = b[1] /\ j[2] = s[1]
    <3>1. 1 \in 1 .. 2 /\ 2 \in 1 .. 2 /\ 1 <= 1 /\ ~(2 <= 1) /\ 2 - 1 = 1
      OBVIOUS
    <3>2. QED
      BY <2>3, <3>1
  <2>5. \A i \in 1 .. 2 : i = 1 \/ i = 2
    OBVIOUS
  <2>6. j = bs
    BY <2>1, <2>2, <2>3, <2>4, <2>5, SeqEqual
  <2>7. QED
    BY <2>6 DEF j
<1> HIDE DEF S
<1>4. plain \in Seq(S)
  BY <1>1, <1>2, ConcatProperties
<1>5. b \o (s \o plain) = (b \o s) \o plain
  <2> HIDE DEF b, s, plain
  <2>1. QED
    BY <1>2, <1>4, ConcatAssociative
<1>6. (b \o s) \o (key \o c) = ((b \o s) \o key) \o c
  <2> DEFINE z == b \o s
  <2>1. z \in Seq(S)
    BY <1>2, ConcatProperties
  <2> HIDE DEF z, c
  <2>2. z \o (key \o c) = (z \o key) \o c
    BY <1>1, <1>2, <2>1, ConcatAssociative
  <2>3. QED
    BY <2>2 DEF z
<1>7. accept \in {<<>>, b \o digest}
  <2>1. PICK d \in Digests(plain) : accept \in Encoded(d)
    BY DEF AcceptsOf
  <2>2. d \in {<<>>, digest}
    BY DEF Digests
  <2> HIDE DEF digest, b
  <2>3. CASE d = <<>>
    BY <2>1, <2>3 DEF Encoded
  <2>4. CASE d # <<>>
    <3>1. d = digest
      BY <2>2, <2>4
    <3>2. accept \in {<<>>, <<"base64">> \o d}
      BY <2>1, <2>4 DEF Encoded
    <3>3. QED
      BY <3>1, <3>2 DEF b
  <2>5. QED
    BY <2>3, <2>4
<1>8. b \o digest = (bs \o key) \o c
  BY <1>3, <1>5, <1>6
<1>9. QED
  BY <1>7, <1>8

\* Until it is sent there is no answer, and what recv has returned is known.
KeyInv ==
    /\ at \in {"free", "recv", "parse", "answer"} => answers = <<>>
    /\ at \in {"parse", "answer"} => RequestIsTaken
    /\ at = "answer" => Parsed.err = "NO_ERROR"
    /\ KeyIsWhole

\* What the types say of the request.
RequestTypes ==
    /\ delivered \in Nat /\ arrived \in 0 .. Len(Request) /\ room \in Rooms

LEMMA NoAnswerIsWhole == answers = <<>> => KeyIsWhole
  BY DEF KeyIsWhole

LEMMA SameAnswers ==
  ASSUME KeyIsWhole, UNCHANGED <<answers, lead, room>>
  PROVE  KeyIsWhole'
  BY DEF KeyIsWhole

LEMMA SameParse ==
  ASSUME UNCHANGED <<lead, room>>
  PROVE  Parsed' = Parsed /\ (RequestIsTaken' <=> RequestIsTaken)
  BY DEF Parsed, RequestIsTaken, Held

\* Steps that leave handle_connection where it is, with what it has read.
LEMMA ElsewhereKeeps ==
  ASSUME KeyInv, UNCHANGED <<at, room, answers, lead>>
  PROVE  KeyInv'
<1>1. KeyIsWhole'
  BY SameAnswers DEF KeyInv
<1>2. Parsed' = Parsed /\ (RequestIsTaken' <=> RequestIsTaken)
  BY SameParse
<1>3. at \in {"parse", "answer"} => RequestIsTaken'
  BY <1>2 DEF KeyInv
<1>4. at = "answer" => Parsed'.err = "NO_ERROR"
  BY <1>2 DEF KeyInv
<1> HIDE DEF RequestIsTaken
<1>5. at' = at /\ answers' = answers
  OBVIOUS
<1>6. QED
  BY <1>1, <1>3, <1>4, <1>5 DEF KeyInv

\* Steps of handle_connection that end it without an answer.
LEMMA LeavingKeeps ==
  ASSUME KeyInv, UNCHANGED <<answers, lead, room>>,
         at' \notin {"free", "recv", "parse", "answer"}
  PROVE  KeyInv'
<1>1. KeyIsWhole'
  BY SameAnswers DEF KeyInv
<1>2. QED
  BY <1>1 DEF KeyInv

LEMMA SendKeeps ==
  ASSUME KeyInv, SendAnswer
  PROVE  KeyInv'
<1>1. /\ at = "answer" /\ at' = "read" /\ lead' = lead /\ room' = room /\ answers = <<>>
      /\ RequestIsTaken /\ Parsed.err = "NO_ERROR"
  BY DEF KeyInv, SendAnswer, vars, stream
<1> DEFINE key == HeaderOf(Parsed.http, KeyName)
<1>2. key = KeyHeld
  BY <1>1, KeyIsRead
<1>3. key \in Texts
  <2>1. <<>> \in Texts
    BY EmptySeq DEF Texts
  <2> HIDE DEF key
  <2>2. QED
    BY <1>2, <2>1, KeyIsText DEF KeyHeld
<1>4. PICK accept \in AcceptsOf(key) : answers' = Append(answers, [key |-> key, accept |-> accept])
  BY Zenon DEF SendAnswer, Responses
<1> HIDE DEF key
<1>5. accept \in {<<>>, <<"base64", "sha1">> \o key \o <<"258EAFA5">>}
  BY <1>3, AcceptsAre
<1> DEFINE answer == [key |-> key, accept |-> accept]
<1>6. answer.key = key /\ answer.accept = accept
  OBVIOUS
<1> HIDE DEF answer
<1>7. answers' = <<answer>>
  BY <1>1, <1>4 DEF answer
<1>8. DOMAIN answers' = {1} /\ answers'[1] = answer
  BY <1>7
<1>10. KeyHeld' = KeyHeld
  BY <1>1 DEF KeyHeld
<1>9. ASSUME NEW i \in DOMAIN answers'
      PROVE  /\ answers'[i].key = KeyHeld'
             /\ answers'[i].accept \in {<<>>, <<"base64", "sha1">> \o answers'[i].key \o <<"258EAFA5">>}
  <2>1. answers'[i].key = key /\ answers'[i].accept = accept
    BY <1>6, <1>8
  <2>2. answers'[i].accept \in {<<>>, <<"base64", "sha1">> \o answers'[i].key \o <<"258EAFA5">>}
    BY <1>5, <2>1, Zenon
  <2>3. QED
    BY <1>10, <1>2, <2>1, <2>2
<1>11. KeyIsWhole'
  BY <1>9, Zenon DEF KeyIsWhole, KeyHeld
<1>12. QED
  BY <1>1, <1>11 DEF KeyInv

LEMMA RecvKeeps ==
  ASSUME KeyInv, RequestTypes, RecvRequest
  PROVE  KeyInv'
<1> DEFINE n == Len(Request)
           t == ToTake
<1>1. /\ at = "recv" /\ at' = "parse" /\ arrived > 0 /\ room' = room
      /\ lead' = n - t /\ answers' = answers /\ answers = <<>>
  BY DEF KeyInv, RecvRequest
<1>2. n \in Nat
  BY RequestHasHeaders
<1>3. room \in Nat \ {0} /\ delivered \in Nat /\ arrived \in 0 .. n
  BY HandshakeAssumption DEF RequestTypes
<1>4. t \in Nat \ {0} /\ t <= room
  <2>1. arrived \in Nat
    BY <1>2, <1>3
  <2>2. QED
    BY <1>1, <1>3, <2>1, TakenIs
<1> HIDE DEF n, t
<1>5. /\ lead' \in Int /\ room' \in Nat /\ n - lead' <= room'
      /\ (IF lead' > 0 THEN n - lead' ELSE n) \in 1 .. n
  BY <1>1, <1>2, <1>3, <1>4
<1>6. RequestIsTaken'
  BY <1>5 DEF RequestIsTaken, Held, n
<1>7. KeyIsWhole'
  BY <1>1 DEF KeyIsWhole
<1>8. QED
  BY <1>1, <1>6, <1>7 DEF KeyInv

LEMMA KeyKeeps ==
  ASSUME KeyInv, RequestTypes, [HandshakeNext]_hvars
  PROVE  KeyInv'
<1> USE DEF handler, vars, stream, frame
<1>1. ASSUME UNCHANGED <<delivered, lead, handler>>
      PROVE  KeyInv'
  BY <1>1, ElsewhereKeeps
<1>2. ASSUME Reader, UNCHANGED handler
      PROVE  KeyInv'
  <2>1. UNCHANGED <<delivered, lead>>
    BY <1>2 DEF Reader, Header, Extended, Length, LengthIsHuge, Payload, AppendPayload
  <2>2. QED
    BY <1>1, <1>2, <2>1
<1>3. CASE UNCHANGED hvars
  BY <1>1, <1>3 DEF hvars
<1>4. CASE Anyone
  <2>1. CASE Deliver
    <3>1. UNCHANGED <<at, room, answers, lead>>
      BY <1>4, <2>1 DEF Anyone, Deliver
    <3>2. QED
      BY <3>1, ElsewhereKeeps
  <2>2. CASE (\E how \in {"closed", "reset"} : End(how)) \/ BeginRead
    <3>1. UNCHANGED <<delivered, lead, handler>>
      BY <1>4, <2>2 DEF Anyone, End, BeginRead
    <3>2. QED
      BY <1>1, <3>1
  <2>3. CASE Reader
    BY <1>2, <1>4, <2>3 DEF Anyone
  <2>4. QED
    BY <1>4, <2>1, <2>2, <2>3 DEF Anyone, Next, Peer
<1>5. CASE Client
  <2>1. CASE RequestArrives
    <3>1. UNCHANGED <<at, room, answers, lead>>
      BY <2>1 DEF RequestArrives
    <3>2. QED
      BY <3>1, ElsewhereKeeps
  <2>2. CASE FramesArrive
    <3>1. UNCHANGED <<at, room, answers, lead>>
      BY <2>2 DEF FramesArrive, Deliver
    <3>2. QED
      BY <3>1, ElsewhereKeeps
  <2>3. CASE StreamEnds \/ LateReset
    <3>1. UNCHANGED <<delivered, lead, handler>>
      BY <2>3 DEF StreamEnds, End, LateReset
    <3>2. QED
      BY <1>1, <3>1
  <2>4. QED
    BY <1>5, <2>1, <2>2, <2>3 DEF Client
<1>6. CASE Handle
  <2>1. CASE RecvRequest
    BY <2>1, RecvKeeps
  <2>2. CASE ParseRequest
    <3>1. /\ at = "parse" /\ at' = "answer" /\ Parsed.err = "NO_ERROR"
          /\ UNCHANGED <<answers, lead, room>>
      BY <2>2 DEF ParseRequest
    <3>2. KeyIsWhole' /\ answers = <<>> /\ RequestIsTaken
      BY <3>1, SameAnswers DEF KeyInv
    <3>3. Parsed' = Parsed /\ (RequestIsTaken' <=> RequestIsTaken)
      BY <3>1, SameParse
    <3>4. QED
      BY <3>1, <3>2, <3>3 DEF KeyInv
  <2>3. CASE SendAnswer
    BY <2>3, SendKeeps
  <2>4. CASE RecvNothing \/ ParseFails \/ AnswerFails \/ ReadMessage \/ Finish
    <3>1. UNCHANGED <<answers, lead, room>> /\ at' \notin {"free", "recv", "parse", "answer"}
      BY <2>4 DEF RecvNothing, ParseFails, AnswerFails, ReadMessage, Finish, BeginRead
    <3>2. QED
      BY <3>1, LeavingKeeps
  <2>5. QED
    BY <1>6, <2>1, <2>2, <2>3, <2>4 DEF Handle
<1>7. CASE Reads
  BY <1>2, <1>7 DEF Reads
<1>8. QED
  BY <1>3, <1>4, <1>5, <1>6, <1>7 DEF HandshakeNext

LEMMA KeyInvStarts == HandshakeInit => KeyInv
<1> SUFFICES ASSUME HandshakeInit PROVE KeyInv
  OBVIOUS
<1>1. at \in {"free", "recv"} /\ answers = <<>> /\ delivered = 0
  BY DEF HandshakeInit, Init
<1>2. KeyIsWhole
  BY <1>1, NoAnswerIsWhole
<1>3. QED
  BY <1>1, <1>2 DEF KeyInv

\* Whatever the cuts of the request and however long it is beside the buffer of
\* handle_connection: the answer carries the client's key, whole, exactly when
\* the whole request was taken and the buffer was longer, and no key otherwise.
THEOREM KeysAreWhole == HandshakeSpec => []KeyIsWhole
<1>1. Types => RequestTypes
  BY DEF Types, RequestTypes
<1>2. ASSUME ReadInv, KeyInv, [HandshakeNext]_hvars
      PROVE  KeyInv'
  BY <1>1, <1>2, KeyKeeps DEF ReadInv
<1>3. KeyInv => KeyIsWhole
  BY DEF KeyInv
<1>4. QED
  BY <1>2, <1>3, KeyInvStarts, ReaderKeepsItsPlace, PTL DEF HandshakeSpec

=============================================================================
