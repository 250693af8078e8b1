--------------------------- MODULE NetworkProofs ---------------------------
(***************************************************************************)
(* What holds of the socket objects for any number of objects, any size of *)
(* the descriptor table and any set of timeouts, whoever calls them; and   *)
(* lemmas about the kernel and the clients that the proofs of both servers *)
(* cite.                                                                   *)
(*                                                                         *)
(* Safe is inductive together with the type invariant for every action but *)
(* the move constructor, Tight (given Safe) for every action but an open() *)
(* on an object that has a descriptor.  The two action properties follow,  *)
(* and so does the invariant of the programs that avoid both.  What the    *)
(* objects know of their timeouts needs Safe too, and that a descriptor    *)
(* that is not open has no timeout.                                        *)
(***************************************************************************)
EXTENDS Network, TLAPS

LEMMA FdNotNoFd == NoFd \notin Fd
  BY HandlesAssumption DEF NoFd, Fd

\* The initial state has its type and neither holds nor leaks anything.
LEMMA InitOK == HandlesInit => HandlesTypeOK /\ Safe /\ Tight
  BY HandlesAssumption
  DEF HandlesInit, HandlesTypeOK, Safe, Tight, Exclusive, Held,
      Family, DEFAULT_FAMILY, NoFd, Fd, Forever

\* Closing descriptors preserves the types of the kernel's tables.
LEMMA CloseType ==
  ASSUME HandlesTypeOK, NEW F, Close(F)
  PROVE  /\ open' \subseteq Fd
         /\ kfam' \in [Fd -> Family]
         /\ ktmo' \in [Fd -> Int]
  BY HandlesAssumption
  DEF HandlesTypeOK, Close, Family, DEFAULT_FAMILY, Forever

\* Any number of milliseconds gives some int, and the right number of
\* microseconds if they fit.
LEMMA UsecsInt == ASSUME NEW t \in Timeouts PROVE Usecs(t) \in Int
  BY HandlesAssumption DEF Usecs

LEMMA UsecsFit ==
  ASSUME NEW t \in Timeouts, Fits(t)
  PROVE  Usecs(t) = Thousand * t /\ Usecs(t) >= 0
<1> DEFINE x == Thousand * t
<1>1. x \in Nat /\ x < IntLimit /\ IntLimit \in Nat
  BY HandlesAssumption DEF Fits
<1>2. x + IntLimit \in Nat /\ 2 * IntLimit \in Nat /\ x + IntLimit < 2 * IntLimit
  BY <1>1
<1>3. \A a, b \in Nat : a < b => a % b = a
  OBVIOUS
<1>4. (x + IntLimit) % (2 * IntLimit) = x + IntLimit
  BY <1>2, <1>3
<1>5. QED
  BY <1>1, <1>4 DEF Usecs

-----------------------------------------------------------------------------
(* Types *)

LEMMA LifetimesType == HandlesTypeOK /\ Lifetimes => HandlesTypeOK'
<1> SUFFICES ASSUME HandlesTypeOK, NEW o \in Sock,
                    \/ \E fam \in Family : Construct(o, fam)
                    \/ ConstructDefault(o)
                    \/ NewClient(o)
                    \/ Destroy(o)
                    \/ \E p \in Sock : MoveConstruct(o, p)
             PROVE  HandlesTypeOK'
  BY DEF Lifetimes
<1>1. ASSUME NEW fam \in Family, Construct(o, fam)
      PROVE  HandlesTypeOK'
  BY <1>1, HandlesAssumption DEF Construct, Blank, HandlesTypeOK, kernel
<1>2. CASE ConstructDefault(o)
  BY <1>1, <1>2 DEF ConstructDefault, Family, DEFAULT_FAMILY
<1>3. CASE NewClient(o)
  BY <1>3, HandlesAssumption
  DEF NewClient, Blank, IsLowestFree, HandlesTypeOK, Family, DEFAULT_FAMILY
<1>4. CASE Destroy(o)
  <2>1. Close({fd[o]} \ {NoFd})
    BY <1>4 DEF Destroy, Terminate
  <2>2. QED
    BY <1>4, <2>1, CloseType, HandlesAssumption
    DEF Destroy, HandlesTypeOK, Family, DEFAULT_FAMILY
<1>5. ASSUME NEW p \in Sock, MoveConstruct(o, p)
      PROVE  HandlesTypeOK'
  BY <1>5 DEF MoveConstruct, HandlesTypeOK, kernel
<1>6. QED
  BY <1>1, <1>2, <1>3, <1>4, <1>5

LEMMA TransfersType == HandlesTypeOK /\ Transfers => HandlesTypeOK'
<1> SUFFICES ASSUME HandlesTypeOK, NEW o \in Sock,
                    \/ Open(o)
                    \/ \E f \in Fd \union {NoFd} : SetFd(o, f)
                    \/ \E f \in Fd : Accept(o, f)
                    \/ \E p \in Sock : MoveAssign(o, p)
                    \/ \E p \in Sock : Swap(o, p)
             PROVE  HandlesTypeOK'
  BY DEF Transfers
<1>1. CASE Open(o)
  <2>1. ASSUME NEW f \in Fd, OpenAs(o, f)
        PROVE  HandlesTypeOK'
    BY <2>1 DEF OpenAs, HandlesTypeOK
  <2>2. CASE OpenFails(o)
    BY <2>2 DEF OpenFails, HandlesTypeOK, kernel
  <2>3. QED
    BY <1>1, <2>1, <2>2 DEF Open
<1>2. ASSUME NEW f \in Fd \union {NoFd}, SetFd(o, f)
      PROVE  HandlesTypeOK'
  <2>1. Close({fd[o]} \ {NoFd})
    BY <1>2 DEF SetFd, Terminate
  <2>2. QED
    BY <1>2, <2>1, CloseType DEF SetFd, HandlesTypeOK
<1>3. ASSUME NEW f \in Fd, Accept(o, f)
      PROVE  HandlesTypeOK'
  BY <1>3 DEF Accept, IsLowestFree, HandlesTypeOK, objects
<1>4. ASSUME NEW p \in Sock, MoveAssign(o, p)
      PROVE  HandlesTypeOK'
  <2>1. Close({fd[o]} \ {NoFd})
    BY <1>4 DEF MoveAssign, Terminate
  <2>2. QED
    BY <1>4, <2>1, CloseType DEF MoveAssign, HandlesTypeOK
<1>5. ASSUME NEW p \in Sock, Swap(o, p)
      PROVE  HandlesTypeOK'
  BY <1>5 DEF Swap, HandlesTypeOK, kernel
<1>6. QED
  BY <1>1, <1>2, <1>3, <1>4, <1>5

\* The settings also leave alone everything Safe and Tight speak of.
LEMMA SettingsType ==
  HandlesTypeOK /\ Settings
     => HandlesTypeOK' /\ UNCHANGED <<live, fd, open, pending>>
<1> SUFFICES ASSUME HandlesTypeOK, NEW o \in Sock,
                    \/ \E t \in Timeouts : SetTimeout(o, t)
                    \/ \E fam \in Family : SetFamily(o, fam)
                    \/ SwitchFamily(o)
                    \/ \E b \in BOOLEAN : SetAllow(o, b)
                    \/ \E R \in SUBSET Family : Bind(o, R) \/ Connect(o, R)
             PROVE  HandlesTypeOK' /\ UNCHANGED <<live, fd, open, pending>>
  BY DEF Settings
<1> USE DEF HandlesTypeOK
<1>1. ASSUME NEW t \in Timeouts, SetTimeout(o, t)
      PROVE  HandlesTypeOK' /\ UNCHANGED <<live, fd, open, pending>>
  BY <1>1, UsecsInt DEF SetTimeout
<1>2. ASSUME NEW fam \in Family, SetFamily(o, fam)
      PROVE  HandlesTypeOK' /\ UNCHANGED <<live, fd, open, pending>>
  BY <1>2 DEF SetFamily, kernel
<1>3. CASE SwitchFamily(o)
  BY <1>3 DEF SwitchFamily, OtherFamily, Family, kernel
<1>4. ASSUME NEW b \in BOOLEAN, SetAllow(o, b)
      PROVE  HandlesTypeOK' /\ UNCHANGED <<live, fd, open, pending>>
  BY <1>4 DEF SetAllow, kernel
<1>5. ASSUME NEW R \in SUBSET Family, Bind(o, R) \/ Connect(o, R)
      PROVE  HandlesTypeOK' /\ UNCHANGED <<live, fd, open, pending>>
  BY <1>5 DEF Bind, Connect, Lookup, OtherFamily, Family, kernel
<1>6. QED
  BY <1>1, <1>2, <1>3, <1>4, <1>5

LEMMA StepType == HandlesTypeOK /\ [HandlesNext]_hvars => HandlesTypeOK'
<1>1. HandlesTypeOK /\ UNCHANGED hvars => HandlesTypeOK'
  BY DEF HandlesTypeOK, hvars
<1>2. QED
  BY <1>1, LifetimesType, TransfersType, SettingsType DEF HandlesNext

\* The objects and the kernel's tables keep their types, whatever member
\* functions the program calls in whatever order.
THEOREM TypeCorrect == HandlesSpec => []HandlesTypeOK
<1>1. HandlesInit => HandlesTypeOK
  BY InitOK
<1>2. QED
  BY <1>1, StepType, PTL DEF HandlesSpec

-----------------------------------------------------------------------------
(* Ownership *)

\* Safe in the next state, without set algebra.
LEMMA SafeNext ==
  ASSUME \A o, p \in live' : o # p /\ fd'[o] = fd'[p] => fd'[o] = NoFd,
         \A o \in live' : fd'[o] # NoFd => fd'[o] \in open' /\ fd'[o] \notin pending',
         pending' \subseteq open'
  PROVE  Safe'
  BY DEF Safe, Exclusive, Held

\* Safe in this state, without set algebra.
LEMMA SafeHere ==
  ASSUME Safe
  PROVE  /\ \A o, p \in live : o # p /\ fd[o] = fd[p] => fd[o] = NoFd
         /\ \A o \in live : fd[o] # NoFd => fd[o] \in open /\ fd[o] \notin pending
         /\ pending \subseteq open
  BY DEF Safe, Exclusive, Held

\* A step that moves no descriptor keeps Safe and Tight.
LEMMA NothingMoves ==
  ASSUME UNCHANGED <<live, fd, open, pending>>
  PROVE  (Safe <=> Safe') /\ (Tight <=> Tight')
  BY DEF Safe, Exclusive, Held, Tight

\* A step after which no object is new does not alias, and neither does a
\* constructor that moves from nothing.
LEMMA NothingNew ==
  ASSUME live' \subseteq live
  PROVE  ~Aliasing
  BY DEF Aliasing, MoveConstruct

LEMMA ConstructDoesNotAlias ==
  ASSUME HandlesTypeOK, NEW o \in Sock, NEW fam, Construct(o, fam)
  PROVE  ~Aliasing
<1> SUFFICES ASSUME NEW n \in Sock, NEW p \in Sock,
                    MoveConstruct(n, p), fd[p] # NoFd
             PROVE  FALSE
  BY DEF Aliasing
<1>1. n \notin live /\ n \in live'
  BY DEF MoveConstruct
<1>2. live' = live \union {o}
  BY DEF Construct, Blank
<1>3. n = o
  BY <1>1, <1>2
<1>4. fd'[o] = NoFd
  BY DEF Construct, HandlesTypeOK
<1>5. fd'[n] = fd[p]
  BY DEF MoveConstruct, HandlesTypeOK
<1>6. QED
  BY <1>3, <1>4, <1>5

LEMMA LifetimesSafe ==
  ASSUME HandlesTypeOK, Safe, Lifetimes, ~Aliasing
  PROVE  Safe'
<1> USE FdNotNoFd DEF HandlesTypeOK
<1> SUFFICES ASSUME NEW o \in Sock,
                    \/ \E fam \in Family : Construct(o, fam)
                    \/ ConstructDefault(o)
                    \/ NewClient(o)
                    \/ Destroy(o)
                    \/ \E p \in Sock : MoveConstruct(o, p)
             PROVE  Safe'
  BY DEF Lifetimes
<1>1. ASSUME NEW fam, Construct(o, fam)
      PROVE  Safe'
  BY <1>1, SafeHere, SafeNext DEF Construct, Blank, kernel
<1>2. CASE ConstructDefault(o)
  BY <1>1, <1>2 DEF ConstructDefault
<1>3. CASE NewClient(o)
  BY <1>3, SafeHere, SafeNext DEF NewClient, Blank, IsLowestFree
<1>4. CASE Destroy(o)
  BY <1>4, SafeHere, SafeNext DEF Destroy, Terminate, Close
<1>5. ASSUME NEW p \in Sock, MoveConstruct(o, p)
      PROVE  Safe'
  <2>1. fd[p] = NoFd
    BY <1>5 DEF Aliasing
  <2>2. QED
    BY <1>5, <2>1, SafeHere, SafeNext DEF MoveConstruct, kernel
<1>6. QED
  BY <1>1, <1>2, <1>3, <1>4, <1>5

LEMMA TransfersSafe ==
  ASSUME HandlesTypeOK, Safe, Transfers
  PROVE  Safe'
<1> USE FdNotNoFd DEF HandlesTypeOK
<1> SUFFICES ASSUME NEW o \in Sock,
                    \/ Open(o)
                    \/ \E f \in Fd \union {NoFd} : SetFd(o, f)
                    \/ \E f \in Fd : Accept(o, f)
                    \/ \E p \in Sock : MoveAssign(o, p)
                    \/ \E p \in Sock : Swap(o, p)
             PROVE  Safe'
  BY DEF Transfers
<1>1. CASE Open(o)
  <2>1. ASSUME NEW f \in Fd, IsLowestFree(f), OpenAs(o, f)
        PROVE  Safe'
    BY <2>1, SafeHere, SafeNext DEF OpenAs, IsLowestFree
  <2>2. CASE OpenFails(o)
    BY <2>2, SafeHere, SafeNext DEF OpenFails, kernel
  <2>3. QED
    BY <1>1, <2>1, <2>2 DEF Open
<1>2. ASSUME NEW f \in Fd \union {NoFd}, SetFd(o, f)
      PROVE  Safe'
  BY <1>2, SafeHere, SafeNext DEF SetFd, Terminate, Close
<1>3. ASSUME NEW f \in Fd, Accept(o, f)
      PROVE  Safe'
  BY <1>3, SafeHere, SafeNext DEF Accept, IsLowestFree, objects
<1>4. ASSUME NEW p \in Sock, MoveAssign(o, p)
      PROVE  Safe'
  BY <1>4, SafeHere, SafeNext DEF MoveAssign, Terminate, Close
<1>5. ASSUME NEW p \in Sock, Swap(o, p)
      PROVE  Safe'
  BY <1>5, SafeHere, SafeNext DEF Swap, kernel
<1>6. QED
  BY <1>1, <1>2, <1>3, <1>4, <1>5

LEMMA StepSafe ==
  ASSUME HandlesTypeOK, Safe, [HandlesNext]_hvars, ~Aliasing
  PROVE  Safe'
<1>1. CASE Settings
  BY <1>1, SettingsType, NothingMoves
<1>2. CASE UNCHANGED hvars
  BY <1>2, NothingMoves DEF hvars
<1>3. QED
  BY <1>1, <1>2, LifetimesSafe, TransfersSafe DEF HandlesNext

-----------------------------------------------------------------------------
(* No leaks *)

\* Tight in the next state and in this one, without set algebra.
LEMMA TightNext ==
  ASSUME \A f \in open' : f \in pending' \/ \E o \in live' : fd'[o] = f /\ f # NoFd
  PROVE  Tight'
  BY DEF Tight, Held

LEMMA TightHere ==
  ASSUME Tight
  PROVE  \A f \in open : f \in pending \/ \E o \in live : fd[o] = f /\ f # NoFd
  BY DEF Tight, Held

LEMMA LifetimesTight ==
  ASSUME HandlesTypeOK, Tight, Lifetimes
  PROVE  Tight'
<1> USE FdNotNoFd DEF HandlesTypeOK
<1> SUFFICES ASSUME NEW o \in Sock,
                    \/ \E fam \in Family : Construct(o, fam)
                    \/ ConstructDefault(o)
                    \/ NewClient(o)
                    \/ Destroy(o)
                    \/ \E p \in Sock : MoveConstruct(o, p)
             PROVE  Tight'
  BY DEF Lifetimes
<1>1. ASSUME NEW fam, Construct(o, fam)
      PROVE  Tight'
  BY <1>1, TightHere, TightNext DEF Construct, Blank, kernel
<1>2. CASE ConstructDefault(o)
  BY <1>1, <1>2 DEF ConstructDefault
<1>3. CASE NewClient(o)
  BY <1>3, TightHere, TightNext DEF NewClient, Blank, IsLowestFree
<1>4. CASE Destroy(o)
  BY <1>4, TightHere, TightNext DEF Destroy, Terminate, Close
<1>5. ASSUME NEW p \in Sock, MoveConstruct(o, p)
      PROVE  Tight'
  BY <1>5, TightHere, TightNext DEF MoveConstruct, kernel
<1>6. QED
  BY <1>1, <1>2, <1>3, <1>4, <1>5

LEMMA TransfersTight ==
  ASSUME HandlesTypeOK, Tight, Transfers, ~Reopening
  PROVE  Tight'
<1> USE FdNotNoFd DEF HandlesTypeOK
<1> SUFFICES ASSUME NEW o \in Sock,
                    \/ Open(o)
                    \/ \E f \in Fd \union {NoFd} : SetFd(o, f)
                    \/ \E f \in Fd : Accept(o, f)
                    \/ \E p \in Sock : MoveAssign(o, p)
                    \/ \E p \in Sock : Swap(o, p)
             PROVE  Tight'
  BY DEF Transfers
<1>1. CASE Open(o)
  <2>0. fd[o] = NoFd
    BY <1>1 DEF Reopening
  <2>1. ASSUME NEW f \in Fd, OpenAs(o, f)
        PROVE  Tight'
    BY <2>0, <2>1, TightHere, TightNext DEF OpenAs
  <2>2. CASE OpenFails(o)
    BY <2>0, <2>2, TightHere, TightNext DEF OpenFails, kernel
  <2>3. QED
    BY <1>1, <2>1, <2>2 DEF Open
<1>2. ASSUME NEW f \in Fd \union {NoFd}, SetFd(o, f)
      PROVE  Tight'
  BY <1>2, TightHere, TightNext DEF SetFd, Terminate, Close
<1>3. ASSUME NEW f \in Fd, Accept(o, f)
      PROVE  Tight'
  BY <1>3, TightHere, TightNext DEF Accept, objects
<1>4. ASSUME NEW p \in Sock, MoveAssign(o, p)
      PROVE  Tight'
  BY <1>4, TightHere, TightNext DEF MoveAssign, Terminate, Close
<1>5. ASSUME NEW p \in Sock, Swap(o, p)
      PROVE  Tight'
  BY <1>5, TightHere, TightNext DEF Swap, kernel
<1>6. QED
  BY <1>1, <1>2, <1>3, <1>4, <1>5

LEMMA StepTight ==
  ASSUME HandlesTypeOK, Tight, [HandlesNext]_hvars, ~Reopening
  PROVE  Tight'
<1>1. CASE Settings
  BY <1>1, SettingsType, NothingMoves
<1>2. CASE UNCHANGED hvars
  BY <1>2, NothingMoves DEF hvars
<1>3. QED
  BY <1>1, <1>2, LifetimesTight, TransfersTight DEF HandlesNext

-----------------------------------------------------------------------------
(* Timeouts *)

\* A descriptor that is not open has no options.
Fresh == \A f \in Fd \ open : ktmo[f] = Forever

LEMMA CloseFresh ==
  ASSUME HandlesTypeOK, Fresh, NEW F, Close(F)
  PROVE  /\ Fresh'
         /\ \A f \in open' : f \in open /\ ktmo'[f] = ktmo[f]
  BY DEF HandlesTypeOK, Fresh, Close

LEMMA StepFresh == HandlesTypeOK /\ Fresh /\ [HandlesNext]_hvars => Fresh'
<1> SUFFICES ASSUME HandlesTypeOK, Fresh, [HandlesNext]_hvars
             PROVE  Fresh'
  OBVIOUS
<1>1. ASSUME ktmo' = ktmo, open \subseteq open'
      PROVE  Fresh'
  BY <1>1 DEF Fresh
<1>2. CASE UNCHANGED hvars
  BY <1>1, <1>2 DEF hvars
<1>3. CASE Lifetimes
  BY <1>1, <1>3, CloseFresh
  DEF Lifetimes, Construct, ConstructDefault, NewClient, Blank, Destroy,
      Terminate, MoveConstruct, kernel
<1>4. CASE Transfers
  <2>1. ASSUME NEW o \in Sock, NEW f \in Fd, Accept(o, f)
        PROVE  Fresh'
    BY <2>1 DEF Accept, IsLowestFree, Fresh, HandlesTypeOK
  <2>2. QED
    BY <1>1, <1>4, <2>1, CloseFresh
    DEF Transfers, Open, OpenAs, OpenFails, SetFd, MoveAssign, Swap, Terminate, kernel
<1>5. CASE Settings
  <2>1. ASSUME NEW o \in Sock, NEW t \in Timeouts, SetTimeout(o, t)
        PROVE  Fresh'
    BY <2>1 DEF SetTimeout, Fresh, HandlesTypeOK
  <2>2. QED
    BY <1>1, <1>5, <2>1
    DEF Settings, SetFamily, SwitchFamily, SetAllow, Bind, Connect, Lookup, kernel
<1>6. QED
  BY <1>2, <1>3, <1>4, <1>5 DEF HandlesNext

\* Informed in the next state, when every object has kept its descriptor and
\* the timeouts that go with it, or has got both from another object.
LEMMA InformedNext ==
  ASSUME Informed,
         \A o \in live' : fd'[o] \in open' =>
            \E p \in live : /\ fd'[o] = fd[p] /\ timeout'[o] = timeout[p]
                            /\ fd[p] \in open /\ ktmo'[fd[p]] = ktmo[fd[p]]
  PROVE  Informed'
<1> SUFFICES ASSUME NEW o \in live', fd'[o] \in open'
             PROVE  ktmo'[fd'[o]] = Thousand * timeout'[o]
  BY DEF Informed
<1>1. PICK p \in live : /\ fd'[o] = fd[p] /\ timeout'[o] = timeout[p]
                        /\ fd[p] \in open /\ ktmo'[fd[p]] = ktmo[fd[p]]
  OBVIOUS
<1>2. ktmo[fd[p]] = Thousand * timeout[p]
  BY <1>1 DEF Informed
<1>3. QED
  BY <1>1, <1>2

LEMMA LifetimesInformed ==
  ASSUME HandlesTypeOK, Safe, Fresh, Informed, Lifetimes
  PROVE  Informed'
<1> USE FdNotNoFd, HandlesAssumption DEF HandlesTypeOK
<1> SUFFICES ASSUME NEW o \in Sock,
                    \/ \E fam \in Family : Construct(o, fam)
                    \/ ConstructDefault(o)
                    \/ NewClient(o)
                    \/ Destroy(o)
                    \/ \E p \in Sock : MoveConstruct(o, p)
             PROVE  Informed'
  BY DEF Lifetimes
<1>1. ASSUME NEW fam, Construct(o, fam)
      PROVE  Informed'
  BY <1>1, InformedNext DEF Construct, Blank, kernel, Fresh
<1>2. CASE ConstructDefault(o)
  BY <1>1, <1>2 DEF ConstructDefault
<1>3. CASE NewClient(o)
  <2>1. PICK f \in Fd : /\ f \notin open /\ open' = open \union {f}
                        /\ fd' = [fd EXCEPT ![o] = f]
    BY <1>3 DEF NewClient, IsLowestFree
  <2>2. live' = live \union {o} /\ timeout' = [timeout EXCEPT ![o] = 0] /\ ktmo' = ktmo
    BY <1>3 DEF NewClient, Blank
  <2>3. ktmo[f] = Thousand * 0
    BY <2>1 DEF Fresh, Forever
  <2>4. \A p \in live' : fd'[p] \in open' => ktmo'[fd'[p]] = Thousand * timeout'[p]
    <3> SUFFICES ASSUME NEW p \in live', fd'[p] \in open'
                 PROVE  ktmo'[fd'[p]] = Thousand * timeout'[p]
      OBVIOUS
    <3>1. CASE p = o
      BY <2>1, <2>2, <2>3, <3>1
    <3>2. CASE p # o /\ fd[p] \in open
      BY <2>1, <2>2, <3>2 DEF Informed
    <3>3. p # o => fd[p] # f
      BY <2>1, <2>2, SafeHere
    <3>4. QED
      BY <2>1, <2>2, <3>1, <3>2, <3>3
  <2>5. QED
    BY <2>1, <2>2, <2>4 DEF Fresh, Informed
<1>4. CASE Destroy(o)
  BY <1>4, CloseFresh, InformedNext DEF Destroy, Terminate
<1>5. ASSUME NEW p \in Sock, MoveConstruct(o, p)
      PROVE  Informed'
  BY <1>5, InformedNext DEF MoveConstruct, kernel, Fresh
<1>6. QED
  BY <1>1, <1>2, <1>3, <1>4, <1>5

\* The timeouts change for one descriptor only, which nobody else has.
LEMMA SetTimeoutInformed ==
  ASSUME HandlesTypeOK, Safe, Fresh, Informed,
         NEW o \in Sock, NEW t \in Timeouts, SetTimeout(o, t), Fits(t)
  PROVE  Informed'
<1> USE FdNotNoFd DEF HandlesTypeOK, SetTimeout
<1>1. Usecs(t) = Thousand * t /\ Usecs(t) >= 0
  BY UsecsFit
<1>2. ASSUME NEW p \in live, fd[p] \in open
      PROVE  ktmo'[fd[p]] = Thousand * timeout'[p]
  <2>1. CASE p = o
    BY <1>1, <1>2, <2>1
  <2>2. CASE p # o
    <3>1. fd[p] # fd[o]
      BY <1>2, <2>2, SafeHere
    <3>2. QED
      BY <1>2, <2>2, <3>1 DEF Informed
  <2>3. QED
    BY <2>1, <2>2
<1>3. QED
  BY <1>2 DEF Informed

LEMMA SettingsInformed ==
  ASSUME HandlesTypeOK, Safe, Fresh, Informed, Settings, ~Misinforming
  PROVE  Informed'
<1> SUFFICES ASSUME NEW o \in Sock,
                    \/ \E t \in Timeouts : SetTimeout(o, t)
                    \/ \E fam \in Family : SetFamily(o, fam)
                    \/ SwitchFamily(o)
                    \/ \E b \in BOOLEAN : SetAllow(o, b)
                    \/ \E R \in SUBSET Family : Bind(o, R) \/ Connect(o, R)
             PROVE  Informed'
  BY DEF Settings
<1>1. ASSUME UNCHANGED <<live, fd, timeout, open, ktmo>>
      PROVE  Informed'
  BY <1>1 DEF Fresh, Informed
<1>2. ASSUME NEW t \in Timeouts, SetTimeout(o, t)
      PROVE  Informed'
  BY <1>2, SetTimeoutInformed DEF Misinforming
<1>3. ASSUME NEW fam \in Family, SetFamily(o, fam)
      PROVE  Informed'
  BY <1>1, <1>3 DEF SetFamily, kernel
<1>4. CASE SwitchFamily(o)
  BY <1>1, <1>4 DEF SwitchFamily, kernel
<1>5. ASSUME NEW b \in BOOLEAN, SetAllow(o, b)
      PROVE  Informed'
  BY <1>1, <1>5 DEF SetAllow, kernel
<1>6. ASSUME NEW R \in SUBSET Family, Bind(o, R) \/ Connect(o, R)
      PROVE  Informed'
  BY <1>1, <1>6 DEF Bind, Connect, Lookup, kernel
<1>7. QED
  BY <1>2, <1>3, <1>4, <1>5, <1>6

LEMMA TransfersInformed ==
  ASSUME HandlesTypeOK, Safe, Fresh, Informed, Transfers, ~Misinforming
  PROVE  Informed'
<1> USE FdNotNoFd, HandlesAssumption DEF HandlesTypeOK
<1> SUFFICES ASSUME NEW o \in Sock,
                    \/ Open(o)
                    \/ \E f \in Fd \union {NoFd} : SetFd(o, f)
                    \/ \E f \in Fd : Accept(o, f)
                    \/ \E p \in Sock : MoveAssign(o, p)
                    \/ \E p \in Sock : Swap(o, p)
             PROVE  Informed'
  BY DEF Transfers
<1>1. CASE Open(o)
  <2>0. timeout[o] = 0
    BY <1>1 DEF Misinforming
  <2>1. ASSUME NEW f \in Fd, IsLowestFree(f), OpenAs(o, f)
        PROVE  Informed'
    <3>1. ktmo[f] = Thousand * 0 /\ f \notin open
      BY <2>1 DEF Fresh, Forever, IsLowestFree
    <3>2. \A p \in live : p # o => fd[p] # f
      BY <3>1, SafeHere
    <3>3. ASSUME NEW p \in live', fd'[p] \in open'
          PROVE  ktmo'[fd'[p]] = Thousand * timeout'[p]
      BY <2>0, <2>1, <3>1, <3>2, <3>3 DEF OpenAs, Informed
    <3>4. QED
      BY <2>1, <3>3 DEF OpenAs, Fresh, Informed
  <2>2. CASE OpenFails(o)
    BY <2>2, InformedNext DEF OpenFails, kernel, Fresh
  <2>3. QED
    BY <1>1, <2>1, <2>2 DEF Open
<1>2. ASSUME NEW f \in Fd \union {NoFd}, SetFd(o, f)
      PROVE  Informed'
  <2>1. f = NoFd
    BY <1>2 DEF Misinforming
  <2>2. QED
    BY <1>2, <2>1, CloseFresh, InformedNext DEF SetFd, Terminate
<1>3. ASSUME NEW f \in Fd, Accept(o, f)
      PROVE  Informed'
  <2>1. f \notin open /\ open' = open \union {f}
    BY <1>3 DEF Accept, IsLowestFree
  <2>2. \A p \in live : fd[p] # f
    BY <2>1, SafeHere
  <2>3. QED
    BY <1>3, <2>1, <2>2 DEF Accept, objects, Fresh, Informed
<1>4. ASSUME NEW p \in Sock, MoveAssign(o, p)
      PROVE  Informed'
  BY <1>4, CloseFresh, InformedNext DEF MoveAssign, Terminate
<1>5. ASSUME NEW p \in Sock, Swap(o, p)
      PROVE  Informed'
  BY <1>5, InformedNext DEF Swap, kernel, Fresh
<1>6. QED
  BY <1>1, <1>2, <1>3, <1>4, <1>5

LEMMA StepInformed ==
  ASSUME HandlesTypeOK, Safe, Fresh, Informed, [HandlesNext]_hvars, ~Misinforming
  PROVE  Informed'
<1>1. CASE UNCHANGED hvars
  BY <1>1 DEF hvars, Informed
<1>2. QED
  BY <1>1, LifetimesInformed, TransfersInformed, SettingsInformed DEF HandlesNext

-----------------------------------------------------------------------------
(* The theorems *)

\* Whatever the program does with its objects, two of them come to own one
\* descriptor, or one comes to own a closed descriptor, only when an object
\* that has a descriptor is move-constructed from.
THEOREM AliasesComeFromMoves == HandlesSpec => OnlyMoveConstructionAliases
<1>1. HandlesTypeOK /\ [HandlesNext]_hvars => (Safe /\ ~Safe' => Aliasing)
  BY StepSafe
<1>2. QED
  BY <1>1, TypeCorrect, PTL DEF HandlesSpec, OnlyMoveConstructionAliases

\* Whatever the program does with its objects, a descriptor is lost only
\* when open() overwrites it.
THEOREM LeaksComeFromReopening == HandlesSpec => OnlyReopeningLeaks
<1>1. HandlesTypeOK /\ [HandlesNext]_hvars => (Tight /\ ~Tight' => Reopening)
  BY StepTight
<1>2. QED
  BY <1>1, TypeCorrect, PTL DEF HandlesSpec, OnlyReopeningLeaks

\* Whatever the program does with its objects, one of them comes to believe
\* in a timeout that its descriptor does not have only when it takes over a
\* connection, is opened after set_timeout, or is given a time that fits no int.
THEOREM TimeoutsStayKnown == HandlesSpec => OnlyTheseMisinform
<1>1. HandlesInit => Fresh
  BY DEF HandlesInit, Fresh
<1>2. HandlesTypeOK /\ Fresh /\ [HandlesNext]_hvars
        => (Safe /\ Informed /\ ~Informed' => Misinforming)
  BY StepInformed
<1>3. QED
  BY <1>1, <1>2, StepFresh, TypeCorrect, PTL DEF HandlesSpec, OnlyTheseMisinform

\* A program that does neither never closes a descriptor it does not own and
\* never loses one.
THEOREM DisciplineSuffices == DisciplinedSpec => []SafeAndTight
<1> DEFINE IInv == HandlesTypeOK /\ Safe /\ Tight
<1>1. HandlesInit => IInv
  BY InitOK
<1>2. IInv /\ [HandlesNext /\ Disciplined]_hvars => IInv'
  <2> SUFFICES ASSUME IInv, [HandlesNext /\ Disciplined]_hvars
               PROVE  IInv'
    OBVIOUS
  <2>1. CASE UNCHANGED hvars
    BY <2>1, StepType, NothingMoves DEF hvars
  <2>2. CASE HandlesNext /\ Disciplined
    BY <2>2, StepType, StepSafe, StepTight DEF Disciplined
  <2>3. QED
    BY <2>1, <2>2
<1>3. IInv => SafeAndTight
  BY DEF SafeAndTight
<1>4. QED
  BY <1>1, <1>2, <1>3, PTL DEF DisciplinedSpec

-----------------------------------------------------------------------------
(* The kernel and the clients: types, step by step *)

LEMMA NetworkStarts == NetworkInit => NetworkTypeOK
  BY NetworkAssumption DEF NetworkInit, NetworkTypeOK

LEMMA SameNetwork == NetworkTypeOK /\ UNCHANGED network => NetworkTypeOK'
  BY DEF NetworkTypeOK, network

\* What is taken from the queue leaves a shorter queue.
LEMMA Taking ==
  ASSUME NetworkTypeOK, queue # <<>>, queue' = Tail(queue)
  PROVE  /\ queue' \in Seq(Client) /\ Len(queue') <= Backlog
         /\ Head(queue) \in Client
<1>1. queue \in Seq(Client) /\ Len(queue) <= Backlog /\ Backlog \in Nat
  BY NetworkAssumption DEF NetworkTypeOK
<1>2. Head(queue) \in Client /\ Tail(queue) \in Seq(Client)
  BY <1>1
<1>3. Len(Tail(queue)) = Len(queue) - 1 /\ Len(queue) \in Nat
  BY <1>1
<1>4. QED
  BY <1>1, <1>2, <1>3

\* The connection that accept() makes, and no other, is the first client's.
LEMMA TakeFirstPlaces ==
  ASSUME NetworkTypeOK, NEW f \in Fd, TakeFirst(f)
  PROVE  /\ NetworkTypeOK'
         /\ peer'[f] # Nobody
         /\ \A g \in Fd : g # f => peer'[g] = peer[g]
<1>1. queue' \in Seq(Client) /\ Len(queue') <= Backlog /\ Head(queue) \in Client
  BY Taking DEF TakeFirst
<1>2. NetworkTypeOK'
  BY <1>1 DEF TakeFirst, NetworkTypeOK
<1>3. QED
  BY <1>1, <1>2, NetworkAssumption DEF TakeFirst, NetworkTypeOK

LEMMA DropFirstType == NetworkTypeOK /\ DropFirst => NetworkTypeOK'
<1> SUFFICES ASSUME NetworkTypeOK, DropFirst
             PROVE  NetworkTypeOK'
  OBVIOUS
<1>1. queue' \in Seq(Client) /\ Len(queue') <= Backlog
  BY Taking DEF DropFirst
<1>2. QED
  BY <1>1 DEF DropFirst, NetworkTypeOK

LEMMA OpenQueueType ==
  ASSUME NetworkTypeOK, NEW f \in Fd \union {NoFd}, OpenQueue(f)
  PROVE  NetworkTypeOK'
  BY DEF OpenQueue, NetworkTypeOK

LEMMA HangUpType ==
  ASSUME NetworkTypeOK, NEW f, HangUp(f)
  PROVE  NetworkTypeOK'
  BY DEF HangUp, NetworkTypeOK

\* When the program dies nobody has a connection any more.
LEMMA HangUpAllType ==
  ASSUME NetworkTypeOK, HangUpAll
  PROVE  NetworkTypeOK' /\ \A f \in Fd : peer'[f] = Nobody
<1>1. queue' \in Seq(Client) /\ Len(queue') <= Backlog
  BY NetworkAssumption DEF HangUpAll
<1>2. QED
  BY <1>1 DEF HangUpAll, NetworkTypeOK

LEMMA ClientTypes ==
  ASSUME NetworkTypeOK, ClientStep
  PROVE  NetworkTypeOK'
<1>1. PICK c \in Client :
        \/ ClientConnects(c)
        \/ ClientSends(c)
        \/ \E how \in {"closed", "reset"} : ClientLeaves(c, how)
  BY DEF ClientStep
<1>2. CASE ClientConnects(c)
  <2>1. queue \in Seq(Client) /\ Len(queue) < Backlog /\ Backlog \in Nat
    BY <1>2, NetworkAssumption DEF ClientConnects, NetworkTypeOK
  <2>2. Append(queue, c) \in Seq(Client) /\ Len(Append(queue, c)) = Len(queue) + 1
    BY <2>1
  <2>3. Len(Append(queue, c)) <= Backlog
    <3>1. Len(queue) \in Nat
      BY <2>1
    <3>2. QED
      BY <2>1, <2>2, <3>1
  <2>4. QED
    BY <1>2, <2>2, <2>3 DEF ClientConnects, NetworkTypeOK
<1>3. CASE ClientSends(c)
  BY <1>3 DEF ClientSends, NetworkTypeOK
<1>4. CASE \E how \in {"closed", "reset"} : ClientLeaves(c, how)
  BY <1>4 DEF ClientLeaves, NetworkTypeOK
<1>5. QED
  BY <1>1, <1>2, <1>3, <1>4

\* Clients change nothing but what is in the queue and what they have sent.
LEMMA ClientsChangeNoPeer == ClientStep => UNCHANGED <<peer, listening>>
  BY DEF ClientStep, ClientConnects, ClientSends, ClientLeaves
=============================================================================
