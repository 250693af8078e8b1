------------------------ MODULE ClientProgramsProofs ------------------------
(***************************************************************************)
(* For every reply, buffer and number of pieces, a client has all of a     *)
(* text it received in its message, and nothing open when it has returned. *)
(*                                                                         *)
(* The first needs ReaderInv: how far the reply was received, how far it   *)
(* has arrived, and that the last byte of the buffer is a NUL, so that the *)
(* text of the buffer ends, and ends behind the piece.  That there is a    *)
(* first NUL is the least-number principle, which is WFMin of the library  *)
(* for the order of the natural numbers.                                   *)
(***************************************************************************)
EXTENDS ClientPrograms, SequenceTheorems, WellFoundedInduction, TLAPS

\* Every set of numbers with a member has a least one.
LEMMA Least ==
  ASSUME NEW T \in SUBSET Nat, T # {}
  PROVE  \E x \in T : \A y \in T : x <= y
<1>1. IsWellFoundedOn(OpToRel(<, Nat), Nat)
  BY NatLessThanWellFounded
<1> DEFINE Smaller == {p \in Nat \X Nat : p[1] < p[2]}
<1>2. OpToRel(<, Nat) = Smaller
  BY DEF OpToRel
<1>3. IsWellFoundedOn(Smaller, Nat)
  BY <1>1, <1>2
<1>4. ASSUME NEW x \in Nat, NEW y \in Nat, y < x
      PROVE  <<y, x>> \in Smaller
  <2>1. <<y, x>> \in Nat \X Nat
    OBVIOUS
  <2>2. <<y, x>>[1] < <<y, x>>[2]
    BY <1>4
  <2>3. QED
    BY <2>1, <2>2
<1> HIDE DEF Smaller
<1>5. PICK x \in T : \A y \in T : ~(<<y, x>> \in Smaller)
  BY <1>3, WFMin
<1>6. ASSUME NEW y \in T
      PROVE  x <= y
  <2>1. ~(y < x)
    BY <1>4, <1>5, Zenon
  <2>2. QED
    BY <2>1
<1>7. QED
  BY <1>6

-----------------------------------------------------------------------------
(* The text of a buffer *)

\* The text of a buffer that ends with a NUL and begins with n other bytes
\* has these bytes in front.
LEMMA TextOfBuffer ==
  ASSUME NEW m \in Nat, NEW bytes \in [1 .. m -> Nat],
         NEW n \in Nat, n < m, bytes[m] = 0,
         \A i \in 1 .. n : bytes[i] # 0
  PROVE  /\ CString(bytes) \in Seq(Nat)
         /\ n <= Len(CString(bytes))
         /\ \A i \in 1 .. n : CString(bytes)[i] = bytes[i]
<1> DEFINE Nuls == {i \in 1 .. m : bytes[i] = 0}
           IsFirst(i) == bytes[i] = 0 /\ \A j \in 1 .. (i - 1) : bytes[j] # 0
           nul == CHOOSE i \in DOMAIN bytes : IsFirst(i)
<1>1. PICK x \in Nuls : \A y \in Nuls : x <= y
  <2>1. m \in Nuls
    OBVIOUS
  <2>2. Nuls \in SUBSET Nat
    OBVIOUS
  <2>3. QED
    BY <2>1, <2>2, Least
<1>2. IsFirst(x)
  BY <1>1
<1>3. nul \in 1 .. m /\ IsFirst(nul)
  <2>1. x \in DOMAIN bytes
    BY <1>1
  <2>2. nul \in DOMAIN bytes /\ IsFirst(nul)
    BY <1>2, <2>1
  <2>3. QED
    BY <2>2
<1>4. n < nul
  BY <1>3
<1>5. bytes \in Seq(Nat) /\ Len(bytes) = m
  BY IsASeq
<1> HIDE DEF nul
<1>6. /\ SubSeq(bytes, 1, nul - 1) \in Seq(Nat)
      /\ Len(SubSeq(bytes, 1, nul - 1)) = nul - 1
      /\ \A i \in 1 .. (nul - 1) : SubSeq(bytes, 1, nul - 1)[i] = bytes[i]
  BY <1>3, <1>5, SubSeqProperties
<1>7. CString(bytes) = SubSeq(bytes, 1, nul - 1)
  BY DEF CString, nul
<1>8. QED
  BY <1>3, <1>4, <1>6, <1>7

\* Any text of a buffer whose last byte is a NUL is a sequence.
LEMMA TextIsSeq ==
  ASSUME NEW m \in Nat \ {0}, NEW bytes \in [1 .. m -> Nat], bytes[m] = 0
  PROVE  CString(bytes) \in Seq(Nat)
<1>1. 0 \in Nat /\ 0 < m /\ \A i \in 1 .. 0 : bytes[i] # 0
  OBVIOUS
<1>2. QED
  BY <1>1, TextOfBuffer

\* What is within b is, with n bytes more, within b and a text that begins
\* with these n bytes.
LEMMA WithinGrows ==
  ASSUME NEW a \in Seq(Nat), NEW b \in Seq(Nat), NEW c \in Seq(Nat),
         NEW text \in Seq(Nat), NEW n \in Nat,
         IsWithin(a, b), Len(c) = Len(a) + n, n <= Len(text),
         \A i \in 1 .. Len(a) : c[i] = a[i],
         \A i \in 1 .. n : c[Len(a) + i] = text[i]
  PROVE  IsWithin(c, b \o text)
<1>1. PICK place \in [DOMAIN a -> DOMAIN b] :
         /\ \A i \in DOMAIN a : b[place[i]] = a[i]
         /\ \A i, j \in DOMAIN a : i < j => place[i] < place[j]
  BY DEF IsWithin
<1>0. Len(a) \in Nat /\ Len(b) \in Nat /\ Len(text) \in Nat
  BY LenProperties
<1> DEFINE long == [i \in DOMAIN c |->
                      IF i <= Len(a) THEN place[i] ELSE Len(b) + (i - Len(a))]
<1>2. /\ b \o text \in Seq(Nat)
      /\ Len(b \o text) = Len(b) + Len(text)
      /\ \A i \in 1 .. (Len(b) + Len(text)) :
            (b \o text)[i] = IF i <= Len(b) THEN b[i] ELSE text[i - Len(b)]
  BY ConcatProperties
<1>3. ASSUME NEW i \in DOMAIN c, i <= Len(a)
      PROVE  /\ long[i] \in 1 .. Len(b)
             /\ (b \o text)[long[i]] = c[i]
  <2>1. i \in DOMAIN a /\ i \in 1 .. Len(a) /\ long[i] = place[i]
    BY <1>3
  <2>2. place[i] \in 1 .. Len(b) /\ b[place[i]] = a[i]
    BY <1>1, <2>1
  <2>3. QED
    BY <1>2, <2>1, <2>2
<1>4. ASSUME NEW i \in DOMAIN c, ~(i <= Len(a))
      PROVE  /\ long[i] = Len(b) + (i - Len(a))
             /\ long[i] \in (Len(b) + 1) .. (Len(b) + Len(text))
             /\ (b \o text)[long[i]] = c[i]
  <2>1. PICK k \in 1 .. n : i = Len(a) + k
    <3>1. i - Len(a) \in 1 .. n /\ i = Len(a) + (i - Len(a))
      BY <1>4
    <3>2. QED
      BY <3>1
  <2>2. long[i] = Len(b) + k
    BY <1>4, <2>1
  <2>3. (b \o text)[Len(b) + k] = text[k]
    <3> DEFINE j == Len(b) + k
    <3>1. j \in 1 .. (Len(b) + Len(text)) /\ ~(j <= Len(b)) /\ j - Len(b) = k
      BY <1>0
    <3> HIDE DEF j
    <3>2. QED
      BY <1>2, <3>1 DEF j
  <2>4. c[i] = text[k]
    BY <2>1
  <2>5. long[i] = Len(b) + (i - Len(a))
    BY <1>4
  <2>6. Len(b) + k \in (Len(b) + 1) .. (Len(b) + Len(text))
    BY <1>0
  <2>7. (b \o text)[long[i]] = c[i]
    BY <2>2, <2>3, <2>4
  <2>8. long[i] \in (Len(b) + 1) .. (Len(b) + Len(text))
    BY <2>2, <2>6, Zenon
  <2>9. QED
    BY <2>5, <2>7, <2>8
<1>5. long \in [DOMAIN c -> DOMAIN (b \o text)]
  <2>1. ASSUME NEW i \in DOMAIN c
        PROVE  long[i] \in 1 .. (Len(b) + Len(text))
    <3> DEFINE p == long[i]
    <3>1. p \in 1 .. Len(b) \/ p \in (Len(b) + 1) .. (Len(b) + Len(text))
      BY <1>3, <1>4, Zenon
    <3> HIDE DEF p
    <3>2. p \in 1 .. (Len(b) + Len(text))
      BY <1>0, <3>1
    <3>3. QED
      BY <3>2 DEF p
  <2>2. DOMAIN (b \o text) = 1 .. (Len(b) + Len(text))
    BY <1>2
  <2>3. QED
    BY <2>1, <2>2
<1>6. \A i \in DOMAIN c : (b \o text)[long[i]] = c[i]
  BY <1>3, <1>4
<1>7. ASSUME NEW i \in DOMAIN c, NEW j \in DOMAIN c, i < j
      PROVE  long[i] < long[j]
  <2>1. CASE j <= Len(a)
    <3>1. i \in DOMAIN a /\ j \in DOMAIN a /\ i <= Len(a)
      <4>1. /\ i \in Nat /\ j \in Nat /\ 1 <= i /\ i < j
            /\ DOMAIN a = 1 .. Len(a) /\ Len(a) \in Nat
        BY <1>0, <1>7
      <4>2. i \in 1 .. Len(a) /\ j \in 1 .. Len(a) /\ i <= Len(a)
        BY <2>1, <4>1
      <4>3. QED
        BY <4>1, <4>2
    <3>2. place[i] < place[j]
      BY <1>1, <1>7, <3>1
    <3>3. long[i] = place[i] /\ long[j] = place[j]
      BY <2>1, <3>1
    <3>4. QED
      BY <3>2, <3>3
  <2>2. CASE i <= Len(a) /\ ~(j <= Len(a))
    <3>1. long[i] \in 1 .. Len(b)
      BY <1>3, <2>2
    <3>2. long[j] \in (Len(b) + 1) .. (Len(b) + Len(text))
      BY <1>4, <2>2
    <3>3. \A p \in 1 .. Len(b), q \in (Len(b) + 1) .. (Len(b) + Len(text)) : p < q
      BY <1>0
    <3>4. QED
      BY <3>1, <3>2, <3>3, Zenon
  <2>3. CASE ~(i <= Len(a))
    <3>1. ~(j <= Len(a))
      BY <1>7, <2>3
    <3>2. long[i] = Len(b) + (i - Len(a)) /\ long[j] = Len(b) + (j - Len(a))
      BY <1>4, <2>3, <3>1
    <3>3. QED
      BY <1>7, <3>2
  <2>4. QED
    BY <1>7, <2>1, <2>2, <2>3
<1> HIDE DEF long
<1>8. QED
  BY <1>5, <1>6, <1>7 DEF IsWithin

-----------------------------------------------------------------------------
(* The reply *)

\* What was received is a part of what has arrived, which is a part of the
\* reply; the last byte of the buffer is a NUL.
ReaderInv ==
    /\ reply \in Seq(Nat)
    /\ got \in Nat /\ arrived \in Nat
    /\ got <= arrived /\ arrived <= Len(reply)
    /\ buf \in [1 .. (BufSize + 1) -> Nat]
    /\ buf[BufSize + 1] = 0
    /\ received \in Seq(Nat)
    /\ NothingIsMissed

LEMMA ReaderStarts == Init => ReaderInv
<1> SUFFICES ASSUME Init PROVE ReaderInv
  OBVIOUS
<1>1. /\ reply \in Seq(Nat) /\ got = 0 /\ arrived = 0 /\ received = <<>>
      /\ buf \in [1 .. (BufSize + 1) -> Nat]
  BY ClientAssumption DEF Init
<1>2. buf[BufSize + 1] = 0
  <2>1. BufSize + 1 \in 1 .. (BufSize + 1)
    BY ClientAssumption
  <2>2. buf = [k \in 1 .. (BufSize + 1) |-> 0]
    BY DEF Init
  <2>3. QED
    BY <2>1, <2>2
<1>3. Len(reply) \in Nat
  BY <1>1, LenProperties
<1>4. IsWithin(<<>>, <<>>)
  <2>1. [i \in DOMAIN << >> |-> 0] \in [DOMAIN << >> -> DOMAIN << >>] /\ DOMAIN << >> = {}
    OBVIOUS
  <2>2. QED
    BY <2>1 DEF IsWithin
<1>5. SubSeq(reply, 1, got) = <<>>
  BY <1>1, SubSeqEmpty
<1>6. NothingIsMissed
  BY <1>1, <1>4, <1>5 DEF NothingIsMissed
<1>7. <<>> \in Seq(Nat)
  OBVIOUS
<1>8. QED
  BY <1>1, <1>2, <1>3, <1>6, <1>7 DEF ReaderInv

LEMMA ReaderStays ==
  ASSUME ReaderInv, UNCHANGED <<reply, reader>>,
         arrived' \in arrived .. Len(reply)
  PROVE  ReaderInv'
<1>1. got' = got /\ buf' = buf /\ received' = received /\ reply' = reply
  BY DEF reader
<1>2. NothingIsMissed'
  BY <1>1 DEF ReaderInv, NothingIsMissed
<1>3. arrived' \in Nat /\ got <= arrived' /\ arrived' <= Len(reply)
  BY LenProperties DEF ReaderInv
<1>4. QED
  BY <1>1, <1>2, <1>3 DEF ReaderInv

\* The buffer after a recv of n bytes.
LEMMA Filling ==
  ASSUME ReaderInv, NEW n \in 1 .. BufSize, got + n <= Len(reply)
  PROVE  /\ Filled(n) \in [1 .. (BufSize + 1) -> Nat]
         /\ Filled(n)[BufSize + 1] = 0
         /\ \A i \in 1 .. n : Filled(n)[i] = reply[got + i]
<1>1. BufSize \in Nat /\ DOMAIN buf = 1 .. (BufSize + 1)
  BY ClientAssumption DEF ReaderInv
<1>2. \A i \in 1 .. n : got + i \in 1 .. Len(reply)
  BY LenProperties DEF ReaderInv
<1>3. \A i \in 1 .. n : reply[got + i] \in Nat
  BY <1>2, ElementOfSeq DEF ReaderInv
<1>4. \A i \in 1 .. (BufSize + 1) : i <= n => i \in 1 .. n
  OBVIOUS
<1>5. \A i \in 1 .. (BufSize + 1) :
         Filled(n)[i] = IF i <= n THEN reply[got + i] ELSE buf[i]
  BY <1>1 DEF Filled
<1>6. \A i \in 1 .. (BufSize + 1) : Filled(n)[i] \in Nat
  BY <1>3, <1>4, <1>5 DEF ReaderInv
<1>7. Filled(n) \in [1 .. (BufSize + 1) -> Nat]
  <2>1. Filled(n) = [i \in 1 .. (BufSize + 1) |-> Filled(n)[i]]
    BY <1>1 DEF Filled
  <2>2. QED
    BY <1>6, <2>1
<1>8. BufSize + 1 \in 1 .. (BufSize + 1) /\ ~(BufSize + 1 <= n)
  BY <1>1
<1>9. Filled(n)[BufSize + 1] = 0
  BY <1>5, <1>8 DEF ReaderInv
<1>10. \A i \in 1 .. n : i \in 1 .. (BufSize + 1) /\ i <= n
  BY <1>1
<1>11. QED
  BY <1>5, <1>7, <1>9, <1>10

LEMMA Receiving == ReaderInv /\ RecvPiece => ReaderInv'
<1> SUFFICES ASSUME ReaderInv, RecvPiece PROVE ReaderInv'
  OBVIOUS
<1> DEFINE n == AtMost(BufSize, arrived - got)
           before == SubSeq(reply, 1, got)
           after == SubSeq(reply, 1, got + n)
<1>1. /\ n \in 1 .. BufSize /\ got + n \in Nat /\ got + n <= arrived
      /\ got <= Len(reply) /\ got + n <= Len(reply)
  <2>1. BufSize \in Nat \ {0} /\ got \in Nat /\ arrived \in Nat /\ got < arrived
    <3>1. got \in Nat /\ arrived \in Nat
      BY DEF ReaderInv
    <3>2. got < arrived
      BY DEF RecvPiece
    <3>3. BufSize \in Nat \ {0}
      BY ClientAssumption
    <3>4. QED
      BY <3>1, <3>2, <3>3
  <2>2. n \in 1 .. BufSize /\ got + n \in Nat /\ got + n <= arrived
    BY <2>1 DEF AtMost
  <2>3. Len(reply) \in Nat /\ arrived <= Len(reply)
    BY LenProperties DEF ReaderInv
  <2> HIDE DEF n
  <2>4. QED
    BY <2>1, <2>2, <2>3
<1>2. /\ buf' = Filled(n) /\ got' = got + n
      /\ received' = received \o CString(buf')
      /\ reply' = reply /\ arrived' = arrived
  BY DEF RecvPiece, server, Keep
<1> HIDE DEF n
<1>3. /\ buf' \in [1 .. (BufSize + 1) -> Nat]
      /\ buf'[BufSize + 1] = 0
      /\ \A i \in 1 .. n : buf'[i] = reply[got + i]
  BY <1>1, <1>2, Filling
<1>4. CString(buf') \in Seq(Nat)
  <2>1. BufSize + 1 \in Nat \ {0}
    BY ClientAssumption
  <2>2. QED
    BY <1>3, <2>1, TextIsSeq
<1>5. received' \in Seq(Nat)
  BY <1>2, <1>4, ConcatProperties DEF ReaderInv
<1>6. /\ before \in Seq(Nat) /\ Len(before) = got
      /\ \A i \in 1 .. got : before[i] = reply[i]
  BY <1>1, SubSeqProperties DEF ReaderInv
<1>7. /\ after \in Seq(Nat) /\ Len(after) = got + n
      /\ \A i \in 1 .. (got + n) : after[i] = reply[i]
  BY <1>1, SubSeqProperties DEF ReaderInv
<1> HIDE DEF before, after
<1>8. ASSUME IsText(reply)
      PROVE  IsWithin(after, received')
  <2>1. \A i \in 1 .. n : got + i \in 1 .. Len(reply)
    BY <1>1, LenProperties DEF ReaderInv
  <2>2. \A i \in 1 .. n : buf'[i] # 0
    BY <1>3, <1>8, <2>1, LenProperties DEF IsText, ReaderInv
  <2>3. BufSize + 1 \in Nat /\ n \in Nat /\ n < BufSize + 1
    BY <1>1, ClientAssumption
  <2>4. /\ n <= Len(CString(buf'))
        /\ \A i \in 1 .. n : CString(buf')[i] = buf'[i]
    BY <1>3, <2>2, <2>3, TextOfBuffer
  <2>5. IsWithin(before, received)
    BY <1>8 DEF NothingIsMissed, ReaderInv, before
  <2>6. \A i \in 1 .. Len(before) : after[i] = before[i]
    <3>1. \A i \in 1 .. got : i \in 1 .. (got + n)
      BY <1>1 DEF ReaderInv
    <3>2. QED
      BY <1>6, <1>7, <3>1
  <2>7. \A i \in 1 .. n : after[Len(before) + i] = CString(buf')[i]
    <3>1. \A i \in 1 .. n : got + i \in 1 .. (got + n)
      BY <1>1 DEF ReaderInv
    <3>2. QED
      BY <1>3, <1>6, <1>7, <2>4, <3>1
  <2>8. received \in Seq(Nat) /\ n \in Nat /\ Len(after) = Len(before) + n
    BY <1>6, <1>7, <2>3 DEF ReaderInv
  <2>9. IsWithin(after, received \o CString(buf'))
    BY <1>4, <1>6, <1>7, <2>4, <2>5, <2>6, <2>7, <2>8, WithinGrows
  <2>10. QED
    BY <1>2, <2>9
<1>9. NothingIsMissed'
  BY <1>2, <1>8 DEF NothingIsMissed, after
<1>10. QED
  BY <1>1, <1>2, <1>3, <1>5, <1>9 DEF ReaderInv

LEMMA ReaderStep == ReaderInv /\ [Next]_vars => ReaderInv'
<1> SUFFICES ASSUME ReaderInv, [Next]_vars PROVE ReaderInv'
  OBVIOUS
<1>0. arrived \in arrived .. Len(reply)
  BY LenProperties DEF ReaderInv
<1>1. CASE RecvPiece
  BY <1>1, Receiving
<1>2. CASE ServerSends
  <2>1. arrived' \in arrived .. Len(reply) /\ UNCHANGED <<reply, reader>>
    <3>1. arrived' \in (arrived + 1) .. Len(reply) /\ arrived \in Nat /\ Len(reply) \in Nat
      BY <1>2, LenProperties DEF ServerSends, ReaderInv
    <3>2. arrived' \in arrived .. Len(reply)
      BY <3>1
    <3>3. UNCHANGED <<reply, reader>>
      BY <1>2 DEF ServerSends
    <3>4. QED
      BY <3>2, <3>3
  <2>2. QED
    BY <2>1, ReaderStays
<1>3. CASE ~RecvPiece /\ ~ServerSends
  <2>1. UNCHANGED <<reply, arrived, reader>>
    BY <1>3 DEF Next, Program, Makes, Uses, Server, Over, vars, server,
       ConstructSocket, OpenSocket, SetSocketTimeout, MakeClient,
       MakeClientThrows, AllowFamilies, ConnectSocket, LoadRequest,
       SendRequest, RecvStops, ListenFails, SendMessage, Return, ServerEnds
  <2>2. QED
    BY <1>0, <2>1, ReaderStays
<1>4. QED
  BY <1>1, <1>2, <1>3

\* However the server cuts it, all of a reply without NULs that was received
\* is in the message, in order: for every reply, buffer and iteration limit.
THEOREM PiecesAreKept == Spec => []NothingIsMissed
<1>1. Spec => []ReaderInv
  BY ReaderStarts, ReaderStep, PTL DEF Spec
<1>2. ReaderInv => NothingIsMissed
  BY DEF ReaderInv
<1>3. QED
  BY <1>1, <1>2, PTL

-----------------------------------------------------------------------------
(* The descriptor *)

\* The program has the descriptor of its one object open and no other, and
\* none before it was made and after it was destroyed.
OwnerInv ==
    /\ program \in {"request", "github", "yew"}
    /\ fd \in [Sock -> Fd \union {NoFd}]
    /\ pc \in {"construct", "threw", "returned"} => open = {}
    /\ pc \notin {"construct", "threw", "returned"} => open = {fd[Client]} \ {NoFd}
    /\ pc = "open" => fd[Client] = NoFd

LEMMA OwnerStarts == Init => OwnerInv
  BY DEF Init, HandlesInit, OwnerInv

LEMMA OneSocket == Client \in Sock /\ NoFd \notin Fd
  BY ClientAssumption, HandlesAssumption DEF Fd, NoFd

LEMMA OwnerStays ==
  ASSUME OwnerInv, UNCHANGED <<fd, open, program>>,
         pc \notin {"construct", "threw", "returned"},
         pc' \notin {"construct", "threw", "returned", "open"}
  PROVE  OwnerInv'
  BY DEF OwnerInv

LEMMA OwnerMakes == OwnerInv /\ Makes => OwnerInv'
<1> SUFFICES ASSUME OwnerInv, Makes PROVE OwnerInv'
  OBVIOUS
<1>1. CASE ConstructSocket
  BY <1>1, OneSocket DEF ConstructSocket, Construct, Blank, GoTo, kernel, OwnerInv
<1>2. CASE OpenSocket
  <2>1. /\ pc = "open" /\ fd[Client] = NoFd /\ open = {} /\ program' = program
        /\ pc' \in {"set_timeout", "aborted"}
    BY <1>2 DEF OpenSocket, GoTo, OwnerInv
  <2>2. CASE Open(Client)
    BY <2>1, <2>2, OneSocket DEF Open, OpenAs, OpenFails, kernel, OwnerInv
  <2>3. CASE UNCHANGED hvars
    BY <2>1, <2>3 DEF hvars, OwnerInv
  <2>4. QED
    BY <1>2, <2>2, <2>3 DEF OpenSocket
<1>3. CASE SetSocketTimeout
  BY <1>3, OwnerStays DEF SetSocketTimeout, SetTimeout, GoTo
<1>4. CASE MakeClient
  BY <1>4, OneSocket DEF MakeClient, NewClient, GoTo, OwnerInv
<1>5. CASE MakeClientThrows
  BY <1>5 DEF MakeClientThrows, GoTo, hvars, OwnerInv
<1>6. CASE AllowFamilies
  BY <1>6, OwnerStays DEF AllowFamilies, SetAllow, kernel, GoTo
<1>7. CASE ConnectSocket
  <2>1. pc = "connect" /\ UNCHANGED <<fd, open, program>>
    BY <1>7 DEF ConnectSocket, Connect, Lookup, kernel, GoTo
  <2>2. pc' \in {"load", "listen", "send message", "return"}
    <3>1. CASE pc' = "return"
      BY <3>1
    <3>2. CASE pc' = CASE program = "request" -> "load"
                       [] program = "github" -> "listen"
                       [] program = "yew" -> "send message"
      BY <3>2 DEF OwnerInv
    <3>3. QED
      BY <1>7, <3>1, <3>2 DEF ConnectSocket, GoTo
  <2>3. QED
    BY <2>1, <2>2, OwnerStays
<1>8. QED
  BY <1>1, <1>2, <1>3, <1>4, <1>5, <1>6, <1>7 DEF Makes

LEMMA OwnerUses == OwnerInv /\ Uses => OwnerInv'
<1> SUFFICES ASSUME OwnerInv, Uses PROVE OwnerInv'
  OBVIOUS
<1>1. CASE Return
  BY <1>1, OneSocket DEF Return, Destroy, Terminate, Close, GoTo, OwnerInv
<1>2. CASE ~Return
  <2>1. UNCHANGED <<fd, open, program>>
    BY <1>2 DEF Uses, LoadRequest, SendRequest, RecvPiece, RecvStops,
       ListenFails, SendMessage, GoTo, hvars
  <2>2. pc \in {"load", "send", "recv", "listen", "send message"}
    BY <1>2 DEF Uses, LoadRequest, SendRequest, RecvPiece, RecvStops,
       ListenFails, SendMessage
  <2>3. pc' \in {"send", "aborted", "return", "killed", "recv"}
    BY <1>2 DEF Uses, LoadRequest, SendRequest, RecvPiece, RecvStops,
       ListenFails, SendMessage, GoTo
  <2>4. QED
    BY <2>1, <2>2, <2>3, OwnerStays
<1>3. QED
  BY <1>1, <1>2

LEMMA OwnerStep == OwnerInv /\ [Next]_vars => OwnerInv'
<1> SUFFICES ASSUME OwnerInv, [Next]_vars PROVE OwnerInv'
  OBVIOUS
<1>1. CASE Program
  BY <1>1, OwnerMakes, OwnerUses DEF Program
<1>2. CASE UNCHANGED <<hvars, program, pc>>
  BY <1>2 DEF hvars, OwnerInv
<1>3. Server \/ Over \/ UNCHANGED vars => UNCHANGED <<hvars, program, pc>>
  BY DEF Server, ServerSends, ServerEnds, Over, vars
<1>4. QED
  BY <1>1, <1>2, <1>3 DEF Next

\* No client returns, or is left by an exception, with a descriptor open.
THEOREM ClientsLeaveNothingOpen == Spec => []NothingLeftOpen
<1>1. Spec => []OwnerInv
  BY OwnerStarts, OwnerStep, PTL DEF Spec
<1>2. OwnerInv => NothingLeftOpen
  BY DEF OwnerInv, NothingLeftOpen
<1>3. QED
  BY <1>1, <1>2, PTL
=============================================================================
