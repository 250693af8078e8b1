-------------------------- MODULE HttpServerProofs --------------------------
(***************************************************************************)
(* The server never closes a descriptor that is not its own, keeps the     *)
(* socket it listens on and reads the client it accepted, for any number   *)
(* of clients, retries and descriptors and any timeout.                    *)
(*                                                                         *)
(* The first is proved by reduction: every step of the server is a step of *)
(* SocketHandles that moves no socket object, so the step lemmas of        *)
(* NetworkProofs carry Safe.  The others need ServerInv, which says        *)
(* where the two descriptors are at each call.                             *)
(*                                                                         *)
(* It implements the sequential service step by step: what clients see of  *)
(* accept, recv and close is one client at a time, in the order they came. *)
(* That each step is also taken in the end is checked by TLC only.         *)
(***************************************************************************)
EXTENDS HttpServer, NetworkProofs, FiniteSetTheorems

\* A step of the socket objects that does not alias.
Harmless == [HandlesNext]_hvars /\ ~Aliasing

LEMMA UnchangedIsHarmless == UNCHANGED hvars => Harmless
  BY NothingNew DEF Harmless, hvars

LEMMA ConstructIsHarmless ==
  ASSUME HandlesTypeOK, NEW o \in Sock, ConstructDefault(o)
  PROVE  Harmless
<1>1. Construct(o, DEFAULT_FAMILY)
  BY DEF ConstructDefault
<1>2. ~Aliasing
  BY <1>1, ConstructDoesNotAlias
<1>3. HandlesNext
  BY DEF HandlesNext, Lifetimes
<1>4. QED
  BY <1>2, <1>3 DEF Harmless

LEMMA DestroyIsHarmless ==
  ASSUME NEW o \in Sock, Destroy(o)
  PROVE  Harmless
<1>1. live' \subseteq live
  BY DEF Destroy
<1>2. HandlesNext
  BY DEF HandlesNext, Lifetimes
<1>3. QED
  BY <1>1, <1>2, NothingNew DEF Harmless

LEMMA TransferIsHarmless ==
  ASSUME NEW o \in Sock,
         \/ Open(o)
         \/ \E f \in Fd \union {NoFd} : SetFd(o, f)
         \/ \E f \in Fd : Accept(o, f)
  PROVE  Harmless
<1>1. live' = live
  BY DEF Open, OpenAs, OpenFails, SetFd, Accept, objects
<1>2. HandlesNext
  BY DEF HandlesNext, Transfers
<1>3. QED
  BY <1>1, <1>2, NothingNew DEF Harmless

LEMMA SettingIsHarmless ==
  ASSUME NEW o \in Sock,
         \/ \E t \in Timeouts : SetTimeout(o, t)
         \/ \E R \in SUBSET Family : Bind(o, R)
  PROVE  Harmless
<1>1. live' = live
  BY DEF SetTimeout, Bind, Lookup
<1>2. HandlesNext
  BY DEF HandlesNext, Settings
<1>3. QED
  BY <1>1, <1>2, NothingNew DEF Harmless

-----------------------------------------------------------------------------

LEMMA Sockets == Listener \in Sock /\ Conn \in Sock /\ ReadTimeout \in Timeouts
  BY ServerAssumption

\* What a step leaves alone when it is not a step of the program.
LEMMA ClientsAreHarmless == Clients \/ Over => Harmless
  BY UnchangedIsHarmless DEF Clients, Over, vars

\* Beginning to serve.
LEMMA BeginIsHarmless == HandlesTypeOK /\ (Begin \/ Starts) => Harmless
<1> SUFFICES ASSUME HandlesTypeOK, Begin \/ Starts
             PROVE  Harmless
  OBVIOUS
<1> USE Sockets
<1>1. CASE ConstructServer
  BY <1>1, ConstructIsHarmless DEF ConstructServer
<1>2. CASE Serve
  BY <1>2, UnchangedIsHarmless DEF Serve
<1>3. CASE DestroyServer
  BY <1>3, DestroyIsHarmless DEF DestroyServer
<1>4. CASE OpenListener
  BY <1>4, TransferIsHarmless DEF OpenListener
<1>5. CASE BindListener
  BY <1>5, SettingIsHarmless DEF BindListener
<1>6. CASE Listen
  BY <1>6, UnchangedIsHarmless DEF Listen
<1>7. QED
  BY <1>1, <1>2, <1>3, <1>4, <1>5, <1>6 DEF Begin, Starts

\* A turn of the loop.  That accepted is a descriptor or -1 is in the guard
\* of set_fd: it is pending, and pending descriptors are descriptors.
LEMMA LoopIsHarmless ==
  HandlesTypeOK /\ (Accepts \/ Reads \/ Handles) => Harmless
<1> SUFFICES ASSUME HandlesTypeOK, Accepts \/ Reads \/ Handles
             PROVE  Harmless
  OBVIOUS
<1> USE Sockets
<1>1. CASE AcceptClient
  BY <1>1, TransferIsHarmless DEF AcceptClient
<1>2. CASE AcceptDrops \/ AcceptOverruns \/ AcceptFails
  BY <1>2, UnchangedIsHarmless DEF AcceptDrops, AcceptOverruns, AcceptFails
<1>3. CASE Reads
  BY <1>3, UnchangedIsHarmless
  DEF Reads, RecvData, RecvEnd, RecvReset, RecvTimeout, RecvNothing, Recv
<1>4. CASE ConstructConnection
  BY <1>4, ConstructIsHarmless DEF ConstructConnection
<1>5. CASE GiveDescriptor
  <2>1. SetFd(Conn, accepted)
    BY <1>5 DEF GiveDescriptor
  <2>2. accepted \in Fd \union {NoFd}
    BY <2>1 DEF SetFd, HandlesTypeOK
  <2>3. QED
    BY <2>1, <2>2, TransferIsHarmless
<1>6. CASE SetReadTimeout
  BY <1>6, SettingIsHarmless DEF SetReadTimeout
<1>7. CASE Parse
  BY <1>7, UnchangedIsHarmless DEF Parse
<1>8. CASE DestroyConnection
  BY <1>8, DestroyIsHarmless DEF DestroyConnection
<1>9. QED
  BY <1>1, <1>2, <1>3, <1>4, <1>5, <1>6, <1>7, <1>8 DEF Accepts, Handles

LEMMA NextIsHarmless == HandlesTypeOK /\ [Next]_vars => Harmless
<1>1. UNCHANGED vars => Harmless
  BY UnchangedIsHarmless DEF vars
<1>2. QED
  BY <1>1, BeginIsHarmless, LoopIsHarmless, ClientsAreHarmless
  DEF Next, Program

\* Whatever the clients do, however often serve is tried and whether or not
\* descriptors run out: what the server closes is its own.
THEOREM ServerIsSafe == Spec => []Safe
<1> DEFINE IInv == HandlesTypeOK /\ Safe
<1>1. Init => IInv
  BY InitOK DEF Init
<1>2. IInv /\ [Next]_vars => IInv'
  BY NextIsHarmless, StepType, StepSafe DEF Harmless
<1>3. QED
  BY <1>1, <1>2, PTL DEF Spec

-----------------------------------------------------------------------------
(* Where the listener and the connection are *)

\* A client is being served, and its descriptor is in the connection.
Serving == {"connection", "set_fd", "set_timeout", "recv", "parse", "destroy"}
Given   == {"set_timeout", "recv", "parse", "destroy"}

\* Once clients can queue the server is in its loop, which never touches the
\* listener.
ListenerInv ==
    /\ pc \in {"construct"} \union Ends \/ Listener \in live
    /\ listening # NoFd => pc \in LoopCalls /\ fd[Listener] = listening

\* Only the client accepted last has a connection, from accept() to the end
\* of the turn; set_fd() finds an empty object and closes nothing.
ConnInv ==
    /\ pc = "set_fd" => fd[Conn] = NoFd
    /\ pc \in Given => fd[Conn] = accepted
    /\ \A f \in Fd : peer[f] # Nobody => pc \in Serving /\ f = accepted
    /\ pc \in Serving /\ accepted # NoFd
         => accepted \in open /\ peer[accepted] # Nobody

ServerInv == TypeOK /\ Safe /\ ListenerInv /\ ConnInv

ControlTypeOK ==
    /\ pc \in Calls
    /\ attempts \in 0 .. MaxAttempts
    /\ accepted \in Fd \union {NoFd}
    /\ report \in {"nothing", "data", "Read timeout", "Failed to read",
                   "no request", "request"}

LEMMA TypeParts == TypeOK <=> HandlesTypeOK /\ NetworkTypeOK /\ ControlTypeOK
  BY DEF TypeOK, ControlTypeOK

\* Calls that only move on.
LEMMA GoToType ==
  ASSUME ControlTypeOK,
         NEW call \in Calls,
         GoTo(call)
  PROVE  ControlTypeOK'
  BY DEF ControlTypeOK, GoTo

LEMMA BeginTypes ==
  ASSUME HandlesTypeOK, NetworkTypeOK, ControlTypeOK, Begin
  PROVE  NetworkTypeOK' /\ ControlTypeOK'
<1>1. NetworkTypeOK'
  BY SameNetwork DEF Begin, ConstructServer, Serve, DestroyServer
<1>2. CASE ConstructServer \/ DestroyServer
  BY <1>1, <1>2, GoToType DEF ConstructServer, DestroyServer, Calls, Ends
<1>3. CASE Serve
  <2>1. attempts' \in 0 .. MaxAttempts
    <3>1. attempts < MaxAttempts /\ attempts' = attempts + 1
      BY <1>3 DEF Serve
    <3>2. attempts \in 0 .. MaxAttempts /\ MaxAttempts \in Nat
      BY ServerAssumption DEF ControlTypeOK
    <3>3. QED
      BY <3>1, <3>2
  <2>2. pc' = "open" /\ accepted' = accepted /\ report' = report
    BY <1>3 DEF Serve
  <2>3. QED
    BY <1>1, <2>1, <2>2 DEF ControlTypeOK, ServeCalls, Calls
<1>4. QED
  BY <1>2, <1>3 DEF Begin

LEMMA StartTypes ==
  ASSUME HandlesTypeOK, NetworkTypeOK, ControlTypeOK, Starts
  PROVE  NetworkTypeOK' /\ ControlTypeOK'
<1>1. NetworkTypeOK'
  <2>1. fd[Listener] \in Fd \union {NoFd}
    BY Sockets DEF HandlesTypeOK
  <2>2. CASE Listen
    BY <2>1, <2>2, OpenQueueType, SameNetwork DEF Listen
  <2>3. QED
    BY <2>2, SameNetwork DEF Starts, OpenListener, BindListener
<1>2. \E call \in {"idle", "bind", "listen", "accept"} : GoTo(call)
  BY DEF Starts, OpenListener, BindListener, Listen
<1>3. QED
  BY <1>1, <1>2, GoToType DEF ServeCalls, LoopCalls, Calls

LEMMA AcceptTypes ==
  ASSUME HandlesTypeOK, NetworkTypeOK, ControlTypeOK, Accepts
  PROVE  NetworkTypeOK' /\ ControlTypeOK'
<1>1. ASSUME NEW f \in Fd \union {NoFd}, AcceptReturns(f)
      PROVE  ControlTypeOK'
  BY <1>1 DEF AcceptReturns, ControlTypeOK, LoopCalls, Calls
<1>2. CASE AcceptClient
  <2>1. PICK f \in Fd : AcceptReturns(f) /\ TakeFirst(f)
    BY <1>2 DEF AcceptClient
  <2>2. QED
    BY <1>1, <2>1, TakeFirstPlaces
<1>3. CASE AcceptDrops
  BY <1>1, <1>3, DropFirstType DEF AcceptDrops
<1>4. CASE AcceptFails
  BY <1>1, <1>4, SameNetwork DEF AcceptFails, network
<1>5. CASE AcceptOverruns
  BY <1>5, HangUpAllType, GoToType DEF AcceptOverruns, Calls, Ends
<1>6. QED
  BY <1>2, <1>3, <1>4, <1>5 DEF Accepts

LEMMA TurnTypes ==
  ASSUME HandlesTypeOK, NetworkTypeOK, ControlTypeOK, Reads \/ Handles
  PROVE  NetworkTypeOK' /\ ControlTypeOK'
<1>1. CASE Reads
  <2>1. \E words \in {"data", "Read timeout", "Failed to read"} : Recv(words)
    BY <1>1 DEF Reads, RecvData, RecvEnd, RecvReset, RecvTimeout, RecvNothing
  <2>2. NetworkTypeOK'
    BY <2>1, SameNetwork DEF Recv
  <2>3. QED
    BY <2>1, <2>2 DEF Recv, ControlTypeOK, LoopCalls, Calls
<1>2. CASE ConstructConnection \/ GiveDescriptor \/ SetReadTimeout
  BY <1>2, SameNetwork, GoToType
  DEF ConstructConnection, GiveDescriptor, SetReadTimeout, LoopCalls, Calls
<1>3. CASE Parse
  BY <1>3, SameNetwork DEF Parse, ControlTypeOK, LoopCalls, Calls
<1>4. CASE DestroyConnection
  <2>1. NetworkTypeOK'
    BY <1>4, HangUpType DEF DestroyConnection
  <2>2. QED
    BY <1>4, <2>1 DEF DestroyConnection, ControlTypeOK, LoopCalls, Calls
<1>5. QED
  BY <1>1, <1>2, <1>3, <1>4 DEF Handles

LEMMA NextTypes ==
  ASSUME TypeOK, [Next]_vars
  PROVE  TypeOK'
<1>1. HandlesTypeOK /\ NetworkTypeOK /\ ControlTypeOK
  BY TypeParts
<1>2. HandlesTypeOK'
  BY <1>1, NextIsHarmless, StepType DEF Harmless
<1>3. CASE Program
  BY <1>1, <1>3, BeginTypes, StartTypes, AcceptTypes, TurnTypes, <1>2, TypeParts
  DEF Program, TypeOK, ControlTypeOK
<1>4. CASE Clients
  <2>1. NetworkTypeOK'
    BY <1>1, <1>4, ClientTypes DEF Clients
  <2>2. ControlTypeOK'
    BY <1>1, <1>4 DEF Clients, control, ControlTypeOK
  <2>3. QED
    BY <1>2, <2>1, <2>2 DEF TypeOK, ControlTypeOK
<1>5. CASE Over \/ UNCHANGED vars
  <2>1. UNCHANGED network /\ UNCHANGED control
    BY <1>5 DEF Over, vars
  <2>2. NetworkTypeOK' /\ ControlTypeOK'
    BY <1>1, <2>1, SameNetwork DEF control, ControlTypeOK
  <2>3. QED
    BY <1>2, <2>2 DEF TypeOK, ControlTypeOK
<1>6. QED
  BY <1>3, <1>4, <1>5 DEF Next

-----------------------------------------------------------------------------
(* The steps of the loop, one for each part of the invariant *)

\* What the sockets and the network are to the two invariants.
Places == <<pc, accepted, fd, live, open, peer, listening>>

LEMMA SamePlaces ==
  ASSUME ListenerInv, ConnInv, UNCHANGED Places
  PROVE  ListenerInv' /\ ConnInv'
  BY DEF ListenerInv, ConnInv, Places

LEMMA BeginPlaces ==
  ASSUME TypeOK, ListenerInv, ConnInv, Begin \/ Starts
  PROVE  ListenerInv' /\ ConnInv'
<1> USE Sockets, FdNotNoFd, ServerAssumption
    DEF ListenerInv, ConnInv, LoopCalls, Ends, Serving, Given, GoTo, network
<1>1. fd \in [Sock -> Fd \union {NoFd}]
  BY DEF TypeOK, HandlesTypeOK
<1>2. CASE ConstructServer
  BY <1>1, <1>2 DEF ConstructServer, ConstructDefault, Construct, Blank
<1>3. CASE Serve
  BY <1>3 DEF Serve, hvars
<1>4. CASE DestroyServer
  BY <1>4 DEF DestroyServer, Destroy
<1>5. CASE OpenListener
  BY <1>1, <1>5 DEF OpenListener, Open, OpenAs, OpenFails
<1>6. CASE BindListener
  BY <1>6 DEF BindListener, Bind, Lookup, kernel
<1>7. CASE Listen
  BY <1>7 DEF Listen, OpenQueue, hvars
<1>8. QED
  BY <1>2, <1>3, <1>4, <1>5, <1>6, <1>7 DEF Begin, Starts

\* Until accept() returns nobody has a connection; then the first client has.
LEMMA AcceptPlaces ==
  ASSUME TypeOK, ListenerInv, ConnInv, Accepts
  PROVE  ListenerInv' /\ ConnInv'
<1> USE FdNotNoFd
    DEF ListenerInv, ConnInv, LoopCalls, Ends, Serving, Given, AcceptReturns
<1>1. CASE AcceptClient
  <2>1. PICK f \in Fd : Accept(Listener, f) /\ AcceptReturns(f) /\ TakeFirst(f)
    BY <1>1 DEF AcceptClient
  <2>2. f \in open' /\ UNCHANGED <<fd, live, listening>>
    BY <2>1 DEF Accept, objects, TakeFirst
  <2>3. peer'[f] # Nobody /\ \A g \in Fd : g # f => peer'[g] = peer[g]
    BY <2>1, TakeFirstPlaces DEF TypeOK
  <2>4. pc = "accept" /\ pc' = "connection" /\ accepted' = f
    BY <1>1, <2>1 DEF AcceptClient
  <2>5. QED
    BY <2>2, <2>3, <2>4
<1>2. CASE AcceptDrops
  BY <1>2 DEF AcceptDrops, DropFirst, hvars
<1>3. CASE AcceptFails
  BY <1>3 DEF AcceptFails, hvars, network
<1>4. CASE AcceptOverruns
  BY <1>4 DEF AcceptOverruns, HangUpAll, GoTo, hvars
<1>5. QED
  BY <1>1, <1>2, <1>3, <1>4 DEF Accepts

LEMMA TurnPlaces ==
  ASSUME TypeOK, ListenerInv, ConnInv, Reads \/ Handles
  PROVE  ListenerInv' /\ ConnInv'
<1> USE Sockets, FdNotNoFd, ServerAssumption
    DEF ListenerInv, ConnInv, LoopCalls, Ends, Serving, Given, GoTo, network
<1>1. fd \in [Sock -> Fd \union {NoFd}]
  BY DEF TypeOK, HandlesTypeOK
<1>2. CASE Reads
  <2>1. \E words : Recv(words)
    BY <1>2 DEF Reads, RecvData, RecvEnd, RecvReset, RecvTimeout, RecvNothing
  <2>2. QED
    BY <2>1 DEF Recv, hvars
<1>3. CASE ConstructConnection
  BY <1>1, <1>3
  DEF ConstructConnection, ConstructDefault, Construct, Blank, kernel
<1>4. CASE GiveDescriptor
  <2>1. SetFd(Conn, accepted) /\ pc = "set_fd" /\ fd[Conn] = NoFd
    BY <1>4 DEF GiveDescriptor
  <2>2. open' = open
    BY <2>1 DEF SetFd, Terminate, Close
  <2>3. fd'[Conn] = accepted /\ fd'[Listener] = fd[Listener]
    BY <1>1, <2>1 DEF SetFd
  <2>4. QED
    BY <1>4, <2>1, <2>2, <2>3 DEF GiveDescriptor, SetFd
<1>5. CASE SetReadTimeout
  BY <1>5 DEF SetReadTimeout, SetTimeout
<1>6. CASE Parse
  BY <1>6 DEF Parse, hvars
<1>7. CASE DestroyConnection
  <2>1. Destroy(Conn) /\ pc = "destroy" /\ fd[Conn] = accepted
    BY <1>7 DEF DestroyConnection
  <2>2. \A f \in Fd : peer'[f] = Nobody
    BY <1>7, <2>1 DEF DestroyConnection, HangUp
  <2>3. fd'[Listener] = fd[Listener] /\ (Listener \in live => Listener \in live')
    BY <1>1, <2>1 DEF Destroy
  <2>4. QED
    BY <1>7, <2>1, <2>2, <2>3 DEF DestroyConnection, HangUp
<1>8. QED
  BY <1>2, <1>3, <1>4, <1>5, <1>6, <1>7 DEF Handles

LEMMA OtherPlaces ==
  ASSUME ListenerInv, ConnInv, Clients \/ Over \/ UNCHANGED vars
  PROVE  ListenerInv' /\ ConnInv'
<1>1. CASE Clients
  BY <1>1, ClientsChangeNoPeer, SamePlaces
  DEF Clients, hvars, control, Places
<1>2. CASE Over \/ UNCHANGED vars
  BY <1>2, SamePlaces DEF Over, vars, hvars, network, control, Places
<1>3. QED
  BY <1>1, <1>2

LEMMA ServerInvHolds == Spec => []ServerInv
<1>1. Init => ServerInv
  <2> SUFFICES ASSUME Init
               PROVE  ServerInv
    OBVIOUS
  <2>1. HandlesTypeOK /\ Safe
    BY InitOK DEF Init
  <2>2. NetworkTypeOK
    BY NetworkStarts DEF Init
  <2>3. ControlTypeOK
    BY ServerAssumption DEF Init, ControlTypeOK, Calls
  <2>4. ListenerInv /\ ConnInv
    BY DEF Init, NetworkInit, ListenerInv, ConnInv, Serving, Given
  <2>5. QED
    BY <2>1, <2>2, <2>3, <2>4, TypeParts DEF ServerInv
<1>2. ServerInv /\ [Next]_vars => ServerInv'
  <2> SUFFICES ASSUME ServerInv, [Next]_vars
               PROVE  ServerInv'
    OBVIOUS
  <2>1. TypeOK /\ Safe /\ ListenerInv /\ ConnInv /\ HandlesTypeOK
    BY DEF ServerInv, TypeOK
  <2>2. TypeOK'
    BY <2>1, NextTypes
  <2>3. Safe'
    BY <2>1, NextIsHarmless, StepSafe DEF Harmless
  <2>4. ListenerInv' /\ ConnInv'
    BY <2>1, BeginPlaces, AcceptPlaces, TurnPlaces, OtherPlaces DEF Next, Program
  <2>5. QED
    BY <2>2, <2>3, <2>4 DEF ServerInv
<1>3. QED
  BY <1>1, <1>2, PTL DEF Spec

\* Whatever is sent, refused or lost, the server's variables and what the
\* kernel keeps for it have their types: the queue never outgrows its length.
THEOREM ServerTypes == Spec => []TypeOK
<1>1. ServerInv => TypeOK
  BY DEF ServerInv
<1>2. QED
  BY <1>1, ServerInvHolds, PTL

\* While clients can connect, the socket they connect to is open and belongs
\* to the server's object and to nobody else.
THEOREM ListenerIsKept == Spec => []ListenerKept
<1>1. ServerInv => ListenerKept
  <2> SUFFICES ASSUME ServerInv, listening # NoFd
               PROVE  fd[Listener] = listening /\ listening \in open \ pending
    BY DEF ListenerKept
  <2>1. Listener \in live /\ fd[Listener] = listening
    BY DEF ServerInv, ListenerInv, LoopCalls, Ends
  <2>2. QED
    BY <2>1, SafeHere DEF ServerInv
<1>2. QED
  BY <1>1, ServerInvHolds, PTL

\* What the server reads is the connection of the client it has just
\* accepted, and no other client has a connection at that time.
THEOREM ClientIsTheRightOne == Spec => []ReadsFromItsClient
<1>1. ServerInv => ReadsFromItsClient
  BY DEF ServerInv, ConnInv, ReadsFromItsClient, IsConnection, Serving, Given
<1>2. QED
  BY <1>1, ServerInvHolds, PTL

-----------------------------------------------------------------------------
(* What retries lose *)

\* The descriptors the listener has had and that are open: what was lost, and
\* what open() would lose next.
Opened == Lost \union ({fd[Listener]} \ {NoFd})

\* Each call of serve has opened one at most, and the last of them is lost
\* only in the next call.
LeakInv ==
    /\ Cardinality(Opened) <= (IF pc = "open" THEN attempts - 1 ELSE attempts)
    /\ Lost = {} \/ Cardinality(Lost) < attempts

\* Lost without set algebra, in this state and in the next.
LEMMA LostHere ==
  ASSUME HandlesTypeOK
  PROVE  \A x : x \in Lost <=> /\ x \in open /\ x \notin pending
                              /\ \A o \in live : fd[o] # x
  BY FdNotNoFd DEF Lost, Held, HandlesTypeOK

LEMMA LostNext ==
  ASSUME HandlesTypeOK'
  PROVE  \A x : x \in Lost' <=> /\ x \in open' /\ x \notin pending'
                               /\ \A o \in live' : fd'[o] # x
  BY FdNotNoFd DEF Lost, Held, HandlesTypeOK

LEMMA OpenedFinite ==
  ASSUME HandlesTypeOK
  PROVE  /\ IsFiniteSet(Opened) /\ Cardinality(Opened) \in Nat
         /\ IsFiniteSet(Lost) /\ Cardinality(Lost) \in Nat
<1>1. IsFiniteSet(Fd)
  BY FS_Interval, HandlesAssumption DEF Fd
<1>2. Opened \subseteq Fd /\ Lost \subseteq Fd
  BY Sockets DEF Opened, Lost, HandlesTypeOK
<1>3. QED
  BY <1>1, <1>2, FS_Subset, FS_CardinalityType

\* Steps that neither open the listener nor lose anything.
LosesNothing == Lost' \subseteq Lost /\ fd'[Listener] \in {fd[Listener], NoFd}

LEMMA ConstructLosesNothing ==
  ASSUME HandlesTypeOK, HandlesTypeOK', NEW o \in Sock, ConstructDefault(o)
  PROVE  LosesNothing
<1>1. /\ o \notin live /\ live' = live \union {o}
      /\ open' = open /\ pending' = pending
      /\ fd' = [fd EXCEPT ![o] = NoFd]
  BY DEF ConstructDefault, Construct, Blank, kernel
<1>2. fd'[Listener] \in {fd[Listener], NoFd} /\ \A p \in live : fd'[p] = fd[p]
  BY <1>1, Sockets DEF HandlesTypeOK
<1>3. QED
  BY <1>1, <1>2, LostHere, LostNext DEF LosesNothing

LEMMA DestroyLosesNothing ==
  ASSUME HandlesTypeOK, HandlesTypeOK', NEW o \in Sock, Destroy(o)
  PROVE  LosesNothing
<1>1. /\ live' = live \ {o} /\ pending' = pending
      /\ open' = open \ ({fd[o]} \ {NoFd})
      /\ fd' = [fd EXCEPT ![o] = NoFd]
  BY DEF Destroy, Terminate, Close
<1>2. fd'[Listener] \in {fd[Listener], NoFd} /\ \A p \in live' : fd'[p] = fd[p]
  BY <1>1, Sockets DEF HandlesTypeOK
<1>3. ASSUME NEW x \in Lost'
      PROVE  x \in Lost
  <2>1. x \in open' /\ x \notin pending' /\ \A p \in live' : fd'[p] # x
    BY <1>3, LostNext
  <2>2. x # NoFd
    BY <2>1, FdNotNoFd DEF HandlesTypeOK
  <2>3. x \in open /\ x # fd[o] /\ x \notin pending
    BY <1>1, <2>1, <2>2
  <2>4. \A p \in live : fd[p] # x
    BY <1>1, <1>2, <2>1, <2>3
  <2>5. QED
    BY <2>3, <2>4, LostHere
<1>4. QED
  BY <1>2, <1>3 DEF LosesNothing

\* accept() hands out a descriptor that the caller holds; set_fd() takes it
\* over into an object without one.
LEMMA GivingLosesNothing ==
  ASSUME HandlesTypeOK, HandlesTypeOK',
         \/ \E f \in Fd : Accept(Listener, f)
         \/ SetFd(Conn, accepted) /\ fd[Conn] = NoFd
  PROVE  LosesNothing
<1>1. CASE \E f \in Fd : Accept(Listener, f)
  <2>1. PICK f \in Fd : Accept(Listener, f)
    BY <1>1
  <2>2. /\ open' = open \union {f} /\ pending' = pending \union {f}
        /\ UNCHANGED <<fd, live>>
    BY <2>1 DEF Accept, objects
  <2>3. QED
    BY <2>2, LostHere, LostNext DEF LosesNothing
<1>2. CASE SetFd(Conn, accepted) /\ fd[Conn] = NoFd
  <2>1. /\ open' = open /\ live' = live /\ Conn \in live
        /\ pending' = pending \ {accepted}
        /\ fd' = [fd EXCEPT ![Conn] = accepted]
    BY <1>2 DEF SetFd, Terminate, Close
  <2>2. /\ fd'[Conn] = accepted /\ fd'[Listener] = fd[Listener]
        /\ \A p \in live : p # Conn => fd'[p] = fd[p]
    BY <2>1, Sockets, ServerAssumption DEF HandlesTypeOK
  <2>3. ASSUME NEW x \in Lost'
        PROVE  x \in Lost
    <3>1. x \in open /\ x \notin pending' /\ \A p \in live : fd'[p] # x
      BY <2>1, <2>3, LostNext
    <3>2. x # accepted /\ x # NoFd
      BY <2>1, <2>2, <3>1, FdNotNoFd DEF HandlesTypeOK
    <3>3. x \notin pending /\ \A p \in live : fd[p] # x
      BY <1>2, <2>1, <2>2, <3>1, <3>2
    <3>4. QED
      BY <3>1, <3>3, LostHere
  <2>4. QED
    BY <2>2, <2>3 DEF LosesNothing
<1>3. QED
  BY <1>1, <1>2

LEMMA OthersLoseNothing ==
  ASSUME HandlesTypeOK, HandlesTypeOK', ConnInv, [Next]_vars, ~OpenListener
  PROVE  LosesNothing
<1> USE Sockets
<1>1. ASSUME UNCHANGED <<live, fd, open, pending>>
      PROVE  LosesNothing
  BY <1>1 DEF LosesNothing, Lost, Held
<1>2. CASE ConstructServer \/ ConstructConnection
  BY <1>2, ConstructLosesNothing DEF ConstructServer, ConstructConnection
<1>3. CASE DestroyServer \/ DestroyConnection
  BY <1>3, DestroyLosesNothing DEF DestroyServer, DestroyConnection
<1>4. CASE AcceptClient \/ GiveDescriptor
  BY <1>4, GivingLosesNothing DEF AcceptClient, GiveDescriptor, ConnInv
<1>5. CASE Serve \/ BindListener \/ Listen \/ AcceptDrops \/ AcceptOverruns
           \/ AcceptFails
  BY <1>1, <1>5
  DEF Serve, BindListener, Bind, Lookup, Listen, AcceptDrops, AcceptOverruns,
      AcceptFails, hvars, kernel
<1>6. CASE Reads \/ SetReadTimeout \/ Parse
  BY <1>1, <1>6
  DEF Reads, RecvData, RecvEnd, RecvReset, RecvTimeout, RecvNothing, Recv,
      SetReadTimeout, SetTimeout, Parse, hvars
<1>7. CASE Clients \/ Over \/ UNCHANGED vars
  BY <1>1, <1>7 DEF Clients, Over, vars, hvars
<1>8. QED
  BY <1>2, <1>3, <1>4, <1>5, <1>6, <1>7
  DEF Next, Program, Begin, Starts, Accepts, Handles

LEMMA AttemptsNat == ControlTypeOK => attempts \in Nat
<1>1. ControlTypeOK => attempts \in 0 .. MaxAttempts /\ MaxAttempts \in Nat
  BY ServerAssumption DEF ControlTypeOK
<1>2. QED
  BY <1>1

\* Such a step keeps the bound: calls of serve are only ever counted up.
LEMMA CountedUp ==
  ASSUME ControlTypeOK, [Next]_vars, ~OpenListener
  PROVE  /\ attempts' >= attempts
         /\ pc = "open" => pc' = "open" /\ attempts' = attempts
         /\ pc' = "open" /\ pc # "open" => attempts' = attempts + 1
<1> USE DEF GoTo, AcceptReturns
<1>1. attempts \in Nat
  BY AttemptsNat
<1>2. CASE Serve
  BY <1>1, <1>2 DEF Serve
<1>3. CASE (Begin \/ Starts) /\ ~Serve
  BY <1>1, <1>3
  DEF Begin, ConstructServer, DestroyServer, Starts, BindListener, Listen
<1>4. CASE Accepts \/ Reads \/ Handles
  <2>1. attempts' = attempts /\ pc # "open" /\ pc' # "open"
    <3>1. CASE Accepts
      BY <3>1 DEF Accepts, AcceptClient, AcceptDrops, AcceptOverruns, AcceptFails
    <3>2. CASE Reads
      BY <3>2
      DEF Reads, RecvData, RecvEnd, RecvReset, RecvTimeout, RecvNothing, Recv
    <3>3. CASE Handles
      BY <3>3
      DEF Handles, ConstructConnection, GiveDescriptor, SetReadTimeout, Parse,
          DestroyConnection
    <3>4. QED
      BY <1>4, <3>1, <3>2, <3>3
  <2>2. QED
    BY <1>1, <2>1
<1>5. CASE Clients \/ Over \/ UNCHANGED vars
  BY <1>1, <1>5 DEF Clients, Over, vars, control
<1>6. QED
  BY <1>2, <1>3, <1>4, <1>5 DEF Next, Program

LEMMA OthersBounded ==
  ASSUME HandlesTypeOK, HandlesTypeOK', ControlTypeOK, ControlTypeOK',
         ConnInv, LeakInv, [Next]_vars, ~OpenListener
  PROVE  LeakInv'
<1>1. LosesNothing
  BY OthersLoseNothing
<1>2. Lost' \subseteq Lost /\ Opened' \subseteq Opened
  BY <1>1 DEF LosesNothing, Opened
<1>3. /\ Cardinality(Opened') <= Cardinality(Opened)
      /\ Cardinality(Lost') <= Cardinality(Lost)
      /\ Cardinality(Opened) \in Nat /\ Cardinality(Opened') \in Nat
      /\ Cardinality(Lost) \in Nat /\ Cardinality(Lost') \in Nat
  BY <1>2, OpenedFinite, FS_Subset, FS_CardinalityType
<1>4. attempts \in Nat /\ attempts' \in Nat
  <2>1. attempts \in Nat
    BY AttemptsNat
  <2>2. attempts' \in 0 .. MaxAttempts /\ MaxAttempts \in Nat
    BY ServerAssumption DEF ControlTypeOK
  <2>3. QED
    BY <2>1, <2>2
<1>5. Cardinality(Opened') <= (IF pc' = "open" THEN attempts' - 1 ELSE attempts')
  BY <1>3, <1>4, CountedUp DEF LeakInv
<1>6. Lost' = {} \/ Cardinality(Lost') < attempts'
  BY <1>2, <1>3, <1>4, CountedUp DEF LeakInv
<1>7. QED
  BY <1>5, <1>6 DEF LeakInv

\* open() loses what the listener had, which was counted already, and gives
\* it one more.
LEMMA OpenBounded ==
  ASSUME HandlesTypeOK, HandlesTypeOK', ControlTypeOK, LeakInv, OpenListener
  PROVE  LeakInv'
<1> USE Sockets
<1>1. /\ pc = "open" /\ pc' # "open" /\ attempts' = attempts
      /\ attempts \in Nat
  BY AttemptsNat DEF OpenListener, GoTo
<1>2. Cardinality(Opened) <= attempts - 1
  BY <1>1 DEF LeakInv
<1>3. ASSUME NEW x \in Lost'
      PROVE  x \in Opened
  <2>1. /\ live' = live /\ pending' = pending
        /\ \A p \in live : p # Listener => fd'[p] = fd[p]
        /\ x \in open' => x \in open \/ x = fd'[Listener]
        /\ Listener \in live
    BY DEF OpenListener, Open, OpenAs, OpenFails, kernel, HandlesTypeOK
  <2>2. x \in open' /\ x \notin pending' /\ \A p \in live' : fd'[p] # x
    BY <1>3, LostNext
  <2>3. x \in open /\ x \notin pending /\ \A p \in live : p # Listener => fd[p] # x
    BY <2>1, <2>2
  <2>4. CASE fd[Listener] = x
    BY <2>3, <2>4, FdNotNoFd DEF Opened, HandlesTypeOK
  <2>5. CASE fd[Listener] # x
    <3>1. x \in Lost
      BY <2>3, <2>5, LostHere
    <3>2. QED
      BY <3>1 DEF Opened
  <2>6. QED
    BY <2>4, <2>5
<1>4. /\ IsFiniteSet(Opened) /\ Cardinality(Opened) \in Nat
      /\ Cardinality(Lost') \in Nat /\ Cardinality(Lost') <= Cardinality(Opened)
  BY <1>3, OpenedFinite, FS_Subset, FS_CardinalityType
<1>5. Cardinality(Lost') < attempts'
  BY <1>1, <1>2, <1>4
<1>6. Cardinality(Opened') <= attempts'
  <2>1. /\ IsFiniteSet(Opened \union {fd'[Listener]})
        /\ Cardinality(Opened \union {fd'[Listener]}) <= Cardinality(Opened) + 1
    BY <1>4, FS_AddElement
  <2>2. Opened' \subseteq Opened \union {fd'[Listener]}
    BY <1>3 DEF Opened
  <2>3. /\ Cardinality(Opened') <= Cardinality(Opened \union {fd'[Listener]})
        /\ Cardinality(Opened') \in Nat
        /\ Cardinality(Opened \union {fd'[Listener]}) \in Nat
    BY <2>1, <2>2, FS_Subset, FS_CardinalityType
  <2>4. QED
    BY <1>1, <1>2, <1>4, <2>1, <2>3
<1>7. QED
  BY <1>1, <1>5, <1>6 DEF LeakInv

\* However often serve is retried and whatever clients do, each retry loses
\* at most the socket of the attempt before it, and no connection is lost.
THEOREM RetriesLoseLittle == Spec => []LeaksBounded
<1>1. Init => LeakInv
  <2> SUFFICES ASSUME Init
               PROVE  LeakInv
    OBVIOUS
  <2>1. Lost = {} /\ Opened = {} /\ attempts = 0 /\ pc = "construct"
    BY Sockets DEF Init, HandlesInit, Lost, Opened
  <2>2. QED
    BY <2>1, FS_EmptySet DEF LeakInv
<1>2. LeakInv /\ ServerInv /\ ServerInv' /\ [Next]_vars => LeakInv'
  <2> SUFFICES ASSUME LeakInv, ServerInv, ServerInv', [Next]_vars
               PROVE  LeakInv'
    OBVIOUS
  <2>1. /\ HandlesTypeOK /\ ControlTypeOK /\ ConnInv
        /\ HandlesTypeOK' /\ ControlTypeOK'
    BY DEF ServerInv, TypeOK, ControlTypeOK
  <2>2. QED
    BY <2>1, OthersBounded, OpenBounded
<1>3. LeakInv => LeaksBounded
  BY DEF LeakInv, LeaksBounded
<1>4. QED
  BY <1>1, <1>2, <1>3, ServerInvHolds, PTL DEF Spec

-----------------------------------------------------------------------------
(* The refinement of SequentialService: each step of the server is a step  *)
(* of it or a stutter.                                                      *)

\* Clients can connect exactly while the server is in its loop.
UpInv ==
    /\ pc \in {"bind", "listen"} => fd[Listener] # NoFd
    /\ pc \in LoopCalls => listening # NoFd

ServiceInv == ServerInv /\ UpInv

-----------------------------------------------------------------------------
(* The invariant *)

LEMMA UpStarts == Init => UpInv
  BY DEF Init, UpInv, LoopCalls

LEMMA UpStays ==
  ASSUME ServerInv, UpInv, [Next]_vars
  PROVE  UpInv'
<1> USE Sockets, FdNotNoFd, ServerAssumption DEF UpInv, LoopCalls, GoTo
<1>1. fd \in [Sock -> Fd \union {NoFd}]
  BY DEF ServerInv, TypeOK, HandlesTypeOK
<1>2. CASE Begin
  BY <1>2 DEF Begin, ConstructServer, Serve, DestroyServer
<1>3. CASE OpenListener
  BY <1>3 DEF OpenListener
<1>4. CASE BindListener
  BY <1>4 DEF BindListener, Bind, Lookup, kernel
<1>5. CASE Listen
  BY <1>5 DEF Listen, OpenQueue, hvars
<1>6. CASE Accepts
  BY <1>6 DEF Accepts, AcceptClient, AcceptDrops, AcceptOverruns, AcceptFails,
              AcceptReturns, TakeFirst, DropFirst, network
<1>7. CASE Reads
  <2>1. \E words : Recv(words)
    BY <1>7 DEF Reads, RecvData, RecvEnd, RecvReset, RecvTimeout, RecvNothing
  <2>2. QED
    BY <2>1 DEF Recv, network
<1>8. CASE Handles
  BY <1>8 DEF Handles, ConstructConnection, GiveDescriptor, SetReadTimeout,
              Parse, DestroyConnection, HangUp, network
<1>9. CASE Clients
  BY <1>9, ClientsChangeNoPeer DEF Clients, hvars, control
<1>10. CASE Over \/ UNCHANGED vars
  BY <1>10 DEF Over, vars, hvars, network, control
<1>11. QED
  BY <1>2, <1>3, <1>4, <1>5, <1>6, <1>7, <1>8, <1>9, <1>10
  DEF Next, Program, Starts

LEMMA ServiceInvHolds == Spec => []ServiceInv
<1>1. Init => UpInv
  BY UpStarts
<1>2. ServerInv /\ UpInv /\ [Next]_vars => UpInv'
  BY UpStays
<1>3. QED
  BY <1>1, <1>2, ServerInvHolds, PTL DEF Spec, ServiceInv

-----------------------------------------------------------------------------
(* The client being served *)

LEMMA ServedOne ==
  ASSUME NEW f \in Fd, peer[f] # Nobody, \A g \in Fd : peer[g] # Nobody => g = f
  PROVE  Served = peer[f]
<1>1. (CHOOSE g \in Fd : peer[g] # Nobody) = f
  OBVIOUS
<1>2. QED
  BY <1>1 DEF Served

LEMMA ServedOneNext ==
  ASSUME NEW f \in Fd, peer'[f] # Nobody, \A g \in Fd : peer'[g] # Nobody => g = f
  PROVE  Served' = peer'[f]
<1>1. (CHOOSE g \in Fd : peer'[g] # Nobody) = f
  OBVIOUS
<1>2. QED
  BY <1>1 DEF Served

LEMMA ServedNone ==
  ASSUME \A g \in Fd : peer[g] = Nobody
  PROVE  Served = Nobody
  BY DEF Served

LEMMA ServedNoneNext ==
  ASSUME \A g \in Fd : peer'[g] = Nobody
  PROVE  Served' = Nobody
  BY DEF Served

LEMMA ServedTaken ==
  ASSUME NEW c \in Client, Served = c
  PROVE  Taken(c)
<1>1. c # Nobody
  BY NetworkAssumption
<1>2. \E f \in Fd : peer[f] # Nobody
  BY <1>1 DEF Served
<1>3. (CHOOSE f \in Fd : peer[f] # Nobody) \in Fd
  BY <1>2
<1>4. QED
  BY <1>2, <1>3 DEF Served, Taken

-----------------------------------------------------------------------------
(* Within the loop nothing is lost, and nothing that was lost is found *)

LEMMA LoopKeepsLost ==
  ASSUME ServerInv, ServerInv', pc \in LoopCalls, [Next]_vars
  PROVE  Lost' = Lost
<1> USE Sockets, ServerAssumption
<1>1. /\ HandlesTypeOK /\ HandlesTypeOK' /\ ConnInv /\ Safe
      /\ fd \in [Sock -> Fd \union {NoFd}]
  BY DEF ServerInv, TypeOK, HandlesTypeOK
<1>2. ~OpenListener
  BY DEF OpenListener, LoopCalls
<1>3. Lost' \subseteq Lost
  BY <1>1, <1>2, OthersLoseNothing DEF LosesNothing
<1>4. ASSUME NEW x \in Lost
      PROVE  x \in Lost'
  <2>1. x \in open /\ x \notin pending /\ x # NoFd /\ \A o \in live : fd[o] # x
    BY <1>1, <1>4, LostHere, FdNotNoFd DEF HandlesTypeOK
  <2>2. ASSUME UNCHANGED <<live, fd, open, pending>>
        PROVE  x \in Lost'
    BY <1>1, <2>1, <2>2, LostNext
  <2>3. CASE ConstructConnection
    <3>1. /\ live' = live \union {Conn} /\ fd' = [fd EXCEPT ![Conn] = NoFd]
          /\ open' = open /\ pending' = pending
      BY <2>3 DEF ConstructConnection, ConstructDefault, Construct, Blank, kernel
    <3>2. \A o \in live' : fd'[o] # x
      BY <1>1, <2>1, <3>1
    <3>3. QED
      BY <1>1, <2>1, <3>1, <3>2, LostNext
  <2>4. CASE DestroyConnection
    <3>1. /\ Conn \in live /\ live' = live \ {Conn} /\ fd' = [fd EXCEPT ![Conn] = NoFd]
          /\ open' = open \ ({fd[Conn]} \ {NoFd}) /\ pending' = pending
      BY <2>4 DEF DestroyConnection, Destroy, Terminate, Close
    <3>2. \A o \in live' : fd'[o] # x
      BY <1>1, <2>1, <3>1
    <3>3. QED
      BY <1>1, <2>1, <3>1, <3>2, LostNext
  <2>5. CASE AcceptClient
    <3>1. PICK f \in Fd : Accept(Listener, f)
      BY <2>5 DEF AcceptClient
    <3>2. /\ open' = open \union {f} /\ pending' = pending \union {f} /\ f \notin open
          /\ UNCHANGED <<fd, live>>
      BY <3>1 DEF Accept, objects, IsLowestFree
    <3>3. QED
      BY <1>1, <2>1, <3>2, LostNext
  <2>6. CASE GiveDescriptor
    <3>1. /\ open' = open /\ live' = live /\ accepted \in pending \union {NoFd}
          /\ pending' = pending \ {accepted} /\ fd' = [fd EXCEPT ![Conn] = accepted]
      BY <1>1, <2>6 DEF GiveDescriptor, SetFd, Terminate, Close, ConnInv
    <3>2. \A o \in live' : fd'[o] # x
      BY <1>1, <2>1, <3>1
    <3>3. QED
      BY <1>1, <2>1, <3>1, <3>2, LostNext
  <2>7. CASE AcceptDrops \/ AcceptOverruns \/ AcceptFails \/ Reads
             \/ SetReadTimeout \/ Parse
    BY <2>2, <2>7
    DEF AcceptDrops, AcceptOverruns, AcceptFails, Reads, RecvData, RecvEnd, RecvReset, RecvTimeout,
        RecvNothing, Recv, SetReadTimeout, SetTimeout, Parse, hvars
  <2>8. CASE Clients \/ Over \/ UNCHANGED vars
    BY <2>2, <2>8 DEF Clients, Over, vars, hvars
  <2>9. CASE Begin \/ Starts
    BY <2>9 DEF Begin, ConstructServer, Serve, DestroyServer,
                Starts, OpenListener, BindListener, Listen, LoopCalls
  <2>10. QED
    BY <2>3, <2>4, <2>5, <2>6, <2>7, <2>8, <2>9 DEF Next, Program, Accepts, Handles
<1>5. QED
  BY <1>3, <1>4

\* So a server that can take clients when it begins to listen always can.
LEMMA LoopKeepsMeans ==
  ASSUME ServerInv, ServerInv', pc \in LoopCalls, [Next]_vars,
         listening' = listening
  PROVE  Exhausted' <=> Exhausted
  BY LoopKeepsLost DEF Exhausted

-----------------------------------------------------------------------------
(* Each step is a step of the service, or none *)

ServiceStep == [Service!FragileNext]_(Service!svars)

LEMMA NothingSeen ==
  ASSUME UNCHANGED <<listening, queue, peer>>, Exhausted' <=> Exhausted
  PROVE  ServiceStep
<1>1. Served' = Served
  BY DEF Served
<1>2. (~Exhausted)' = ~Exhausted /\ (listening # NoFd)' = (listening # NoFd)
  BY DEF Exhausted
<1>3. UNCHANGED Service!svars
  BY <1>1, <1>2 DEF Service!svars
<1>4. QED
  BY <1>3 DEF ServiceStep

\* Without a listener it does not matter what is lost.
LEMMA BeforeListening ==
  ASSUME UNCHANGED <<queue, peer>>, listening = NoFd, listening' = NoFd
  PROVE  ServiceStep
<1>1. Exhausted' <=> Exhausted
  BY DEF Exhausted
<1>2. QED
  BY <1>1, NothingSeen

\* A descriptor that can be handed out is neither lost nor the listener's.
LEMMA FreeIsMeans ==
  ASSUME ServerInv, listening # NoFd, open # Fd
  PROVE  ~Exhausted
<1>1. HandlesTypeOK /\ ListenerInv /\ Safe
  BY DEF ServerInv, TypeOK
<1>2. PICK f \in Fd : f \notin open
  BY <1>1 DEF HandlesTypeOK
<1>3. listening \in open
  BY <1>1, SafeHere, Sockets DEF ListenerInv, LoopCalls, Ends
<1>4. f \notin Lost \union {listening}
  BY <1>2, <1>3 DEF Lost
<1>5. QED
  BY <1>2, <1>4 DEF Exhausted

LEMMA BeginServes ==
  ASSUME ServiceInv, Begin \/ OpenListener \/ BindListener
  PROVE  ServiceStep
<1>1. pc \notin LoopCalls
  BY DEF Begin, ConstructServer, Serve, DestroyServer, OpenListener, BindListener, LoopCalls
<1>2. listening = NoFd
  BY <1>1 DEF ServiceInv, ServerInv, ListenerInv
<1>3. UNCHANGED network
  BY DEF Begin, ConstructServer, Serve, DestroyServer, OpenListener, BindListener
<1>4. QED
  BY <1>2, <1>3, BeforeListening DEF network

\* The service starts with listen(), able or not.
LEMMA ListenStarts ==
  ASSUME ServiceInv, Listen
  PROVE  ServiceStep
<1>1. pc = "listen" /\ fd[Listener] # NoFd /\ listening = NoFd
  BY DEF ServiceInv, ServerInv, ListenerInv, UpInv, Listen, LoopCalls
<1>2. CASE UNCHANGED network
  BY <1>1, <1>2, BeforeListening DEF network
<1>3. CASE OpenQueue(fd[Listener])
  <2>1. listening' # NoFd /\ queue' = queue /\ peer' = peer
    BY <1>1, <1>3 DEF OpenQueue
  <2>2. Served' = Served
    BY <2>1 DEF Served
  <2>3. (~Exhausted)' \in BOOLEAN
    BY DEF Exhausted
  <2>4. Service!Start
    BY <1>1, <2>1, <2>2, <2>3 DEF Service!Start
  <2>5. QED
    BY <2>4 DEF ServiceStep, Service!FragileNext, Service!ReliableNext
<1>4. QED
  BY <1>2, <1>3 DEF Listen

\* An accept() that returns takes a client, turns one away or is not seen.
LEMMA AcceptServes ==
  ASSUME ServiceInv, ServerInv', AcceptClient \/ AcceptDrops \/ AcceptFails
  PROVE  ServiceStep
<1>1. /\ ServerInv /\ UpInv /\ NetworkTypeOK /\ ConnInv /\ ListenerInv
      /\ Safe /\ HandlesTypeOK
  BY DEF ServiceInv, ServerInv, TypeOK
<1>2. pc = "accept" /\ pc \in LoopCalls
  BY DEF AcceptClient, AcceptDrops, AcceptFails, LoopCalls
<1>3. listening # NoFd /\ listening' = listening
  BY <1>1, <1>2 DEF UpInv, AcceptClient, AcceptDrops, AcceptFails,
                    TakeFirst, DropFirst, network
<1>4. Exhausted' <=> Exhausted
  <2>1. [Next]_vars
    BY DEF Next, Program, Accepts
  <2>2. QED
    BY <1>1, <1>2, <1>3, <2>1, LoopKeepsMeans
<1>5. \A g \in Fd : peer[g] = Nobody
  BY <1>1, <1>2 DEF ConnInv, Serving
<1>6. Served = Nobody
  BY <1>5, ServedNone
<1>7. ASSUME open # Fd
      PROVE  ~Exhausted
  BY <1>1, <1>3, <1>7, FreeIsMeans
<1>8. CASE AcceptClient
  <2>1. PICK f \in Fd : Accept(Listener, f) /\ TakeFirst(f)
    BY <1>8 DEF AcceptClient
  <2>2. f \notin open
    BY <2>1 DEF Accept, IsLowestFree
  <2>3. ~Exhausted
    BY <1>7, <2>2
  <2>4. /\ peer'[f] = Head(queue) /\ peer'[f] # Nobody
        /\ \A g \in Fd : g # f => peer'[g] = peer[g]
    BY <1>1, <2>1, TakeFirstPlaces DEF TakeFirst, NetworkTypeOK
  <2>5. Served' = Head(queue)
    BY <1>5, <2>4, ServedOneNext
  <2>6. Service!Take
    BY <1>3, <1>4, <1>6, <2>1, <2>3, <2>5 DEF Service!Take, TakeFirst
  <2>7. QED
    BY <2>6 DEF ServiceStep, Service!FragileNext, Service!ReliableNext
<1>9. CASE AcceptDrops
  <2>1. Served' = Served
    BY <1>9 DEF AcceptDrops, DropFirst, Served
  <2>2. Service!TurnAway
    BY <1>3, <1>4, <1>6, <1>7, <1>9, <2>1 DEF Service!TurnAway, AcceptDrops, DropFirst
  <2>3. QED
    BY <2>2 DEF ServiceStep, Service!FragileNext, Service!ReliableNext
<1>10. CASE AcceptFails
  BY <1>4, <1>10, NothingSeen DEF AcceptFails, network
<1>11. QED
  BY <1>8, <1>9, <1>10

\* An accept() that writes over the stack is the death of the service while
\* it takes a client.
LEMMA OverrunServes ==
  ASSUME ServiceInv, AcceptOverruns
  PROVE  ServiceStep
<1>1. ServerInv /\ ConnInv /\ pc = "accept" /\ open # Fd /\ queue # <<>>
  BY DEF ServiceInv, ServerInv, AcceptOverruns
<1>2. listening # NoFd
  BY <1>1 DEF ServiceInv, UpInv, LoopCalls
<1>3. ~Exhausted
  BY <1>1, <1>2, FreeIsMeans
<1>4. Served = Nobody
  <2>1. \A g \in Fd : peer[g] = Nobody
    BY <1>1 DEF ConnInv, Serving
  <2>2. QED
    BY <2>1, ServedNone
<1>5. listening' = NoFd /\ queue' = <<>> /\ \A g \in Fd : peer'[g] = Nobody
  BY DEF AcceptOverruns, HangUpAll
<1>6. Served' = Nobody
  BY <1>5, ServedNoneNext
<1>7. ~Exhausted'
  BY <1>5 DEF Exhausted
<1>8. Service!DieTaking
  BY <1>1, <1>2, <1>3, <1>4, <1>5, <1>6, <1>7
  DEF Service!DieTaking, Service!Die
<1>9. QED
  BY <1>8 DEF ServiceStep, Service!FragileNext

LEMMA TurnServes ==
  ASSUME ServiceInv, ServerInv', Reads \/ Handles
  PROVE  ServiceStep
<1>1. ServerInv /\ UpInv /\ NetworkTypeOK /\ ConnInv
  BY DEF ServiceInv, ServerInv, TypeOK
<1>2. pc \in LoopCalls
  BY DEF Reads, RecvData, RecvEnd, RecvReset, RecvTimeout, RecvNothing, Recv,
         Handles, ConstructConnection, GiveDescriptor, SetReadTimeout, Parse,
         DestroyConnection, LoopCalls
<1>3. listening # NoFd /\ listening' = listening
  BY <1>1, <1>2 DEF UpInv, Reads, RecvData, RecvEnd, RecvReset, RecvTimeout,
         RecvNothing, Recv, Handles, ConstructConnection, GiveDescriptor,
         SetReadTimeout, Parse, DestroyConnection, HangUp, network
<1>4. Exhausted' <=> Exhausted
  <2>1. [Next]_vars
    BY DEF Next, Program
  <2>2. QED
    BY <1>1, <1>2, <1>3, <2>1, LoopKeepsMeans
<1>5. CASE Reads \/ ConstructConnection \/ GiveDescriptor \/ SetReadTimeout \/ Parse
  <2>1. UNCHANGED <<listening, queue, peer>>
    BY <1>5 DEF Reads, RecvData, RecvEnd, RecvReset, RecvTimeout, RecvNothing,
                Recv, ConstructConnection, GiveDescriptor, SetReadTimeout, Parse,
                network
  <2>2. QED
    BY <1>4, <2>1, NothingSeen
\* The destructor of the connection lets go of the client, if there is one.
<1>6. CASE DestroyConnection
  <2>1. /\ pc = "destroy" /\ fd[Conn] = accepted /\ HangUp(accepted)
        /\ queue' = queue
    BY <1>1, <1>6 DEF DestroyConnection, HangUp, ConnInv, Given
  <2>2. \A g \in Fd : peer[g] # Nobody => g = accepted
    BY <1>1 DEF ConnInv
  <2>3. \A g \in Fd : peer'[g] = Nobody
    BY <2>1, <2>2 DEF HangUp
  <2>4. Served' = Nobody
    BY <2>3, ServedNoneNext
  <2>5. CASE accepted \in Fd /\ peer[accepted] # Nobody
    <3>1. Served = peer[accepted] /\ Served # Nobody
      BY <2>2, <2>5, ServedOne
    <3>2. Service!Finish
      BY <1>3, <1>4, <2>1, <2>4, <3>1 DEF Service!Finish
    <3>3. QED
      BY <3>2 DEF ServiceStep, Service!FragileNext, Service!ReliableNext
  <2>6. CASE ~(accepted \in Fd /\ peer[accepted] # Nobody)
    <3>1. \A g \in Fd : peer[g] = Nobody
      BY <2>2, <2>6
    <3>2. Served = Nobody
      BY <3>1, ServedNone
    <3>3. (~Exhausted)' = ~Exhausted /\ (listening # NoFd)' = (listening # NoFd)
      BY <1>3, <1>4 DEF Exhausted
    <3>4. UNCHANGED Service!svars
      BY <2>1, <2>4, <3>2, <3>3 DEF Service!svars
    <3>5. QED
      BY <3>4 DEF ServiceStep
  <2>7. QED
    BY <2>5, <2>6
<1>7. QED
  BY <1>5, <1>6 DEF Handles

LEMMA ClientsServe ==
  ASSUME ServiceInv, ServerInv', Clients
  PROVE  ServiceStep
<1>1. UNCHANGED <<peer, listening, live, fd, open, pending>>
  BY ClientsChangeNoPeer DEF Clients, hvars
<1>2. Exhausted' <=> Exhausted
  BY <1>1 DEF Exhausted, Lost, Held
<1>3. CASE queue' = queue
  BY <1>1, <1>2, <1>3, NothingSeen
<1>4. ASSUME NEW c \in Client, ClientConnects(c)
      PROVE  ServiceStep
  <2>1. /\ listening # NoFd /\ Len(queue) < Backlog /\ queue' = Append(queue, c)
        /\ ~Service!Waiting(c) /\ Served # c
    BY <1>4, ServedTaken DEF ClientConnects, Joined, Queued, Service!Waiting
  <2>2. Served' = Served
    BY <1>1 DEF Served
  <2>3. Service!Arrive(c)
    BY <1>1, <1>2, <2>1, <2>2 DEF Service!Arrive
  <2>4. QED
    BY <2>3 DEF ServiceStep, Service!FragileNext, Service!ReliableNext
<1>5. QED
  BY <1>3, <1>4 DEF Clients, ClientStep, ClientSends, ClientLeaves

LEMMA NextServes ==
  ASSUME ServiceInv, ServiceInv', [Next]_vars
  PROVE  ServiceStep
<1>1. ServerInv'
  BY DEF ServiceInv
<1>2. CASE Over \/ UNCHANGED vars
  <2>1. UNCHANGED <<listening, queue, peer, live, fd, open, pending>>
    BY <1>2 DEF Over, vars, hvars, network
  <2>2. Exhausted' <=> Exhausted
    BY <2>1 DEF Exhausted, Lost, Held
  <2>3. QED
    BY <2>1, <2>2, NothingSeen
<1>3. QED
  BY <1>1, <1>2, BeginServes, ListenStarts, AcceptServes, OverrunServes,
     TurnServes, ClientsServe
  DEF Next, Program, Starts, Accepts

\* The server implements the service: it takes clients only from the head of
\* the queue, one at a time, turns away only who is at the head, and never
\* loses the means to take somebody once it listens.  If it dies it is of a
\* client it takes, never of one it serves.  Its many calls and failures are
\* steps of the service or none.
THEOREM ServerIsAService == Spec => Service!FragileSteps
<1>1. Init => Service!Init
  <2> SUFFICES ASSUME Init
               PROVE  Service!Init
    OBVIOUS
  <2>1. listening = NoFd /\ queue = <<>> /\ \A g \in Fd : peer[g] = Nobody
    BY DEF Init, NetworkInit
  <2>2. Served = Nobody /\ ~Exhausted
    BY <2>1, ServedNone DEF Exhausted
  <2>3. QED
    BY <2>1, <2>2 DEF Service!Init
<1>2. ServiceInv /\ ServiceInv' /\ [Next]_vars => [Service!FragileNext]_(Service!svars)
  BY NextServes DEF ServiceStep
<1>3. QED
  BY <1>1, <1>2, ServiceInvHolds, PTL DEF Spec, Service!FragileSteps
=============================================================================
