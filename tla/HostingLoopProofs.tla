------------------------- MODULE HostingLoopProofs -------------------------
(***************************************************************************)
(* The hosting program uses its sockets as DisciplinedSpec demands, and so *)
(* neither closes what is not its own nor loses a descriptor: for any      *)
(* clients, requests and descriptors, and however the program ends.  What  *)
(* it writes, the second time too, goes to the client it accepted last.    *)
(*                                                                         *)
(* That open() finds no descriptor to overwrite depends on where the       *)
(* program is: the invariant says which objects are empty at which call.   *)
(* The same holds of what is in the stream, who is at its other end, which *)
(* handler was called and how often it has written.                        *)
(***************************************************************************)
EXTENDS HostingLoop, NetworkProofs, SequenceTheorems

LEMMA Sockets ==
  Server \in Sock /\ Stream \in Sock /\ Server # Stream /\ ReadTimeout \in Timeouts
  BY HostingAssumption

-----------------------------------------------------------------------------
(* Steps that are no open() of an object with a descriptor *)

\* open() constructs and destroys nothing.
LEMMA OtherObjects == live' # live => ~Reopening
  BY DEF Reopening, Open, OpenAs, OpenFails

\* open() gives the object another descriptor, or none.
LEMMA SameDescriptors ==
  ASSUME HandlesTypeOK, Safe,
         \A o \in live : fd[o] # NoFd => fd'[o] = fd[o]
  PROVE  ~Reopening
<1> SUFFICES ASSUME NEW o \in Sock, Open(o), fd[o] # NoFd
             PROVE  FALSE
  BY DEF Reopening
<1>1. o \in live
  BY DEF Open, OpenAs, OpenFails
<1>2. fd[o] \in open /\ fd'[o] = fd[o]
  BY <1>1, SafeHere
<1>3. ASSUME NEW f \in Fd, IsLowestFree(f), OpenAs(o, f)
      PROVE  FALSE
  <2>1. fd'[o] = f
    BY <1>3 DEF OpenAs, HandlesTypeOK
  <2>2. f \notin open
    BY <1>3 DEF IsLowestFree
  <2>3. QED
    BY <1>2, <2>1, <2>2
<1>4. CASE OpenFails(o)
  <2>1. fd'[o] = NoFd
    BY <1>4 DEF OpenFails, HandlesTypeOK
  <2>2. QED
    BY <1>2, <2>1
<1>5. QED
  BY <1>3, <1>4 DEF Open

\* A step as DisciplinedSpec allows it.
WellUsed == [HandlesNext /\ Disciplined]_hvars

LEMMA ConstructIsWell ==
  ASSUME HandlesTypeOK, NEW o \in Sock, ConstructDefault(o)
  PROVE  WellUsed
<1>1. Construct(o, DEFAULT_FAMILY)
  BY DEF ConstructDefault
<1>2. ~Aliasing
  BY <1>1, ConstructDoesNotAlias
<1>3. live' # live
  BY <1>1 DEF Construct, Blank
<1>4. HandlesNext
  BY DEF HandlesNext, Lifetimes
<1>5. QED
  BY <1>2, <1>3, <1>4, OtherObjects DEF WellUsed, Disciplined

LEMMA DestroyIsWell ==
  ASSUME NEW o \in Sock, Destroy(o)
  PROVE  WellUsed
<1>1. live' \subseteq live /\ live' # live
  BY DEF Destroy
<1>2. HandlesNext
  BY DEF HandlesNext, Lifetimes
<1>3. QED
  BY <1>1, <1>2, NothingNew, OtherObjects DEF WellUsed, Disciplined

LEMMA TransferIsWell ==
  ASSUME HandlesTypeOK, Safe, NEW o \in Sock,
         \/ Open(o) /\ fd[o] = NoFd
         \/ \E f \in Fd \union {NoFd} : SetFd(o, f) /\ fd[o] = NoFd
         \/ \E f \in Fd : Accept(o, f)
  PROVE  WellUsed
<1>1. live' = live
  BY DEF Open, OpenAs, OpenFails, SetFd, Accept, objects
<1>2. \A p \in live : fd[p] # NoFd => fd'[p] = fd[p]
  BY DEF Open, OpenAs, OpenFails, SetFd, Accept, objects, HandlesTypeOK
<1>3. HandlesNext
  BY DEF HandlesNext, Transfers
<1>4. QED
  BY <1>1, <1>2, <1>3, NothingNew, SameDescriptors DEF WellUsed, Disciplined

LEMMA SettingIsWell ==
  ASSUME HandlesTypeOK, Safe, NEW o \in Sock,
         \/ \E t \in Timeouts : SetTimeout(o, t)
         \/ \E R \in SUBSET Family : Bind(o, R)
  PROVE  WellUsed
<1>1. live' = live /\ fd' = fd
  BY DEF SetTimeout, Bind, Lookup
<1>2. HandlesNext
  BY DEF HandlesNext, Settings
<1>3. QED
  BY <1>1, <1>2, NothingNew, SameDescriptors DEF WellUsed, Disciplined

-----------------------------------------------------------------------------
(* The steps of the program *)

\* open() and set_fd() are called on objects without a descriptor.
EmptyWhenFilled ==
    /\ pc = "open" => fd[Server] = NoFd
    /\ pc = "set_fd" => fd[Stream] = NoFd

IInv == HandlesTypeOK /\ Safe /\ EmptyWhenFilled

\* What a step that leaves the sockets alone, and does not go to open() or
\* set_fd(), does to the invariant.
Elsewhere == pc' \notin {"open", "set_fd"}

LEMMA StartIsWell == IInv /\ Start => WellUsed /\ EmptyWhenFilled'
<1> SUFFICES ASSUME IInv, Start
             PROVE  WellUsed /\ EmptyWhenFilled'
  OBVIOUS
<1> USE Sockets DEF IInv
<1>1. CASE ConstructServer
  <2>1. fd'[Server] = NoFd /\ pc' = "open"
    BY <1>1 DEF ConstructServer, ConstructDefault, Construct, GoTo, HandlesTypeOK
  <2>2. QED
    BY <1>1, <2>1, ConstructIsWell DEF ConstructServer, EmptyWhenFilled
<1>2. CASE OpenServer
  <2>1. Open(Server) /\ fd[Server] = NoFd /\ Elsewhere
    BY <1>2 DEF OpenServer, GoTo, EmptyWhenFilled, Elsewhere
  <2>2. QED
    BY <2>1, TransferIsWell DEF EmptyWhenFilled, Elsewhere
<1>3. CASE SetServerTimeout
  BY <1>3, SettingIsWell DEF SetServerTimeout, GoTo, EmptyWhenFilled
<1>4. CASE BindServer
  <2>1. Elsewhere /\ \E R \in SUBSET Family : Bind(Server, R)
    BY <1>4 DEF BindServer, GoTo, Elsewhere
  <2>2. QED
    BY <2>1, SettingIsWell DEF EmptyWhenFilled, Elsewhere
<1>5. CASE ListenServer
  BY <1>5 DEF ListenServer, GoTo, EmptyWhenFilled, WellUsed
<1>6. QED
  BY <1>1, <1>2, <1>3, <1>4, <1>5 DEF Start

LEMMA TakeIsWell == IInv /\ Take => WellUsed /\ EmptyWhenFilled'
<1> SUFFICES ASSUME IInv, Take
             PROVE  WellUsed /\ EmptyWhenFilled'
  OBVIOUS
<1> USE Sockets DEF IInv
<1>1. CASE AcceptClient
  BY <1>1, TransferIsWell DEF AcceptClient, EmptyWhenFilled
<1>2. CASE AcceptFails
  BY <1>2 DEF AcceptFails, AssertFails, Die, GoTo, EmptyWhenFilled, WellUsed
<1>3. CASE ConstructStream
  <2>1. fd'[Stream] = NoFd /\ pc' = "set_fd"
    BY <1>3 DEF ConstructStream, ConstructDefault, Construct, GoTo, HandlesTypeOK
  <2>2. QED
    BY <1>3, <2>1, ConstructIsWell DEF ConstructStream, EmptyWhenFilled
<1>4. CASE GiveDescriptor
  <2>1. SetFd(Stream, accepted) /\ fd[Stream] = NoFd /\ pc' = "read"
    BY <1>4 DEF GiveDescriptor, GoTo, EmptyWhenFilled
  <2>2. accepted \in Fd \union {NoFd}
    BY <2>1 DEF SetFd, HandlesTypeOK
  <2>3. QED
    BY <2>1, <2>2, TransferIsWell DEF EmptyWhenFilled
<1>5. QED
  BY <1>1, <1>2, <1>3, <1>4 DEF Take

\* Reading, dispatching and writing leave the sockets alone.
LEMMA AnswerIsWell ==
  Answer \/ Write \/ Sleeps => UNCHANGED hvars /\ Elsewhere
<1>1. Answer => UNCHANGED hvars /\ Elsewhere
  BY DEF Answer, ReadRequest, ReadFails, ParseRequest, MatchRequest,
         AssertFails, Die, GoTo, Elsewhere
<1>2. Write => UNCHANGED hvars /\ Elsewhere
  BY DEF Write, WriteResponse, WriteFails, AfterWrite, AssertFails, Die, GoTo,
         Elsewhere
<1>3. Sleeps => UNCHANGED hvars /\ Elsewhere
  BY DEF Sleeps, Sleep, GoTo, Elsewhere
<1>4. QED
  BY <1>1, <1>2, <1>3

LEMMA ProgramIsWell == IInv /\ Program => WellUsed /\ EmptyWhenFilled'
<1>1. ASSUME DestroyStream
      PROVE  WellUsed /\ EmptyWhenFilled'
  BY <1>1, Sockets, DestroyIsWell DEF DestroyStream, EmptyWhenFilled
<1>2. ASSUME Answer \/ Write \/ Sleeps
      PROVE  WellUsed /\ EmptyWhenFilled'
  BY <1>2, AnswerIsWell DEF WellUsed, EmptyWhenFilled, Elsewhere
<1>3. QED
  BY <1>1, <1>2, StartIsWell, TakeIsWell DEF Program

\* Clients, and the end, leave the program where it is.
LEMMA OthersAreWell ==
  IInv /\ (Clients \/ Over \/ UNCHANGED vars) => WellUsed /\ EmptyWhenFilled'
<1> SUFFICES ASSUME IInv, Clients \/ Over \/ UNCHANGED vars
             PROVE  WellUsed /\ EmptyWhenFilled'
  OBVIOUS
<1>1. UNCHANGED hvars /\ pc' = pc
  BY DEF Clients, Over, vars, program
<1>2. fd' = fd
  BY <1>1 DEF hvars
<1>3. QED
  BY <1>1, <1>2 DEF WellUsed, EmptyWhenFilled, IInv

LEMMA NextIsWell == IInv /\ [Next]_vars => WellUsed /\ EmptyWhenFilled'
  BY ProgramIsWell, OthersAreWell DEF Next

LEMMA InvariantHolds == Spec => []IInv
<1>1. Init => IInv
  BY InitOK DEF Init, IInv, EmptyWhenFilled
<1>2. IInv /\ [Next]_vars => IInv'
  <2> SUFFICES ASSUME IInv, [Next]_vars
               PROVE  IInv'
    OBVIOUS
  <2>1. WellUsed /\ EmptyWhenFilled'
    BY NextIsWell
  <2>2. [HandlesNext]_hvars
    BY <2>1 DEF WellUsed
  <2>3. Safe'
    <3>1. CASE UNCHANGED hvars
      BY <3>1, NothingMoves DEF hvars, IInv
    <3>2. CASE HandlesNext /\ Disciplined
      BY <3>2, StepSafe DEF Disciplined, IInv
    <3>3. QED
      BY <2>1, <3>1, <3>2 DEF WellUsed
  <2>4. QED
    BY <2>1, <2>2, <2>3, StepType DEF IInv
<1>3. QED
  BY <1>1, <1>2, PTL DEF Spec

-----------------------------------------------------------------------------
(* Who is at the other end of the stream *)

\* A client has been accepted in this turn; its descriptor is in the stream.
Serving == {"stream", "set_fd", "read", "parse", "match", "write", "sleep",
            "write again", "sleep 10", "destroy"}
Given   == Serving \ {"stream", "set_fd"}

\* Only that client has a connection, until the end of the turn or of the
\* program; set_fd() finds an empty object and closes nothing.
StreamInv ==
    /\ pc \in Given => fd[Stream] = accepted
    /\ \A f \in Fd : peer[f] # Nobody => pc \in Serving /\ f = accepted
    /\ pc \in Serving => accepted \in open /\ peer[accepted] # Nobody

HostInv == IInv /\ NetworkTypeOK /\ StreamInv

\* Moving on within a turn, or within the calls before the loop.
LEMMA OnwardPlaces ==
  ASSUME StreamInv, UNCHANGED <<hvars, network, accepted>>,
         \/ pc \in Given /\ pc' \in Given
         \/ pc \notin Serving /\ pc' \notin Serving
  PROVE  StreamInv'
  BY DEF StreamInv, Given, hvars, network

\* The dead serve nobody.
LEMMA DyingPlaces ==
  ASSUME NetworkTypeOK, NEW how \in {"aborted", "killed", "crashed"}, Die(how)
  PROVE  NetworkTypeOK' /\ StreamInv'
<1>1. NetworkTypeOK' /\ \A f \in Fd : peer'[f] = Nobody
  BY HangUpAllType DEF Die
<1>2. pc' \notin Serving
  BY DEF Die, GoTo, Serving
<1>3. QED
  BY <1>1, <1>2 DEF StreamInv, Given

LEMMA StartPlaces == HostInv /\ Start => NetworkTypeOK' /\ StreamInv'
<1> SUFFICES ASSUME HostInv, Start
             PROVE  NetworkTypeOK' /\ StreamInv'
  OBVIOUS
<1>1. UNCHANGED peer /\ pc \notin Serving /\ pc' \notin Serving
  BY DEF Start, ConstructServer, OpenServer, SetServerTimeout, BindServer,
         ListenServer, GoTo, network, OpenQueue, Serving
<1>2. StreamInv'
  BY <1>1 DEF HostInv, StreamInv, Given
<1>3. NetworkTypeOK'
  <2>1. CASE ListenServer
    <3>1. fd[Server] \in Fd \union {NoFd}
      BY Sockets DEF HostInv, IInv, HandlesTypeOK
    <3>2. QED
      BY <2>1, <3>1, OpenQueueType, SameNetwork DEF ListenServer, HostInv
  <2>2. QED
    BY <2>1, SameNetwork
    DEF Start, ConstructServer, OpenServer, SetServerTimeout, BindServer, HostInv
<1>4. QED
  BY <1>2, <1>3

LEMMA TakePlaces == HostInv /\ Take => NetworkTypeOK' /\ StreamInv'
<1> SUFFICES ASSUME HostInv, Take
             PROVE  NetworkTypeOK' /\ StreamInv'
  OBVIOUS
<1> USE Sockets, FdNotNoFd DEF HostInv, IInv
<1>1. CASE AcceptClient
  <2>1. PICK f \in Fd : Accept(Server, f) /\ TakeFirst(f) /\ accepted' = f
    BY <1>1 DEF AcceptClient
  <2>2. f \in open'
    BY <2>1 DEF Accept
  <2>3. NetworkTypeOK' /\ peer'[f] # Nobody /\ \A g \in Fd : g # f => peer'[g] = peer[g]
    BY <2>1, TakeFirstPlaces
  <2>4. pc = "accept" /\ pc' = "stream"
    BY <1>1 DEF AcceptClient
  <2>5. QED
    BY <2>1, <2>2, <2>3, <2>4 DEF StreamInv, Serving, Given
<1>2. CASE AcceptFails
  BY <1>2, DyingPlaces DEF AcceptFails, AssertFails
<1>3. CASE ConstructStream
  <2>1. UNCHANGED <<open, network, accepted>> /\ pc = "stream" /\ pc' = "set_fd"
    BY <1>3 DEF ConstructStream, ConstructDefault, Construct, kernel, GoTo
  <2>2. QED
    BY <2>1, SameNetwork DEF StreamInv, Serving, Given, network
<1>4. CASE GiveDescriptor
  <2>1. SetFd(Stream, accepted) /\ pc = "set_fd" /\ fd[Stream] = NoFd
    BY <1>4 DEF GiveDescriptor, EmptyWhenFilled
  <2>2. open' = open /\ fd'[Stream] = accepted
    BY <2>1 DEF SetFd, Terminate, Close, HandlesTypeOK
  <2>3. UNCHANGED <<network, accepted>> /\ pc' = "read"
    BY <1>4 DEF GiveDescriptor, GoTo
  <2>4. QED
    BY <2>1, <2>2, <2>3, SameNetwork DEF StreamInv, Serving, Given, network
<1>5. QED
  BY <1>1, <1>2, <1>3, <1>4 DEF Take

LEMMA AnswerPlaces == HostInv /\ (Answer \/ Write \/ Sleeps) => NetworkTypeOK' /\ StreamInv'
<1> SUFFICES ASSUME HostInv, Answer \/ Write \/ Sleeps
             PROVE  NetworkTypeOK' /\ StreamInv'
  OBVIOUS
<1>1. \/ /\ UNCHANGED <<hvars, network, accepted>>
         /\ pc \in Given /\ pc' \in Given
      \/ \E how \in {"aborted", "killed", "crashed"} : Die(how)
  <2> USE DEF GoTo, Serving, Given
  <2>1. CASE Answer
    BY <2>1 DEF Answer, ReadRequest, ReadFails, ParseRequest, MatchRequest, AssertFails
  <2>2. CASE Write
    BY <2>2 DEF Write, WriteResponse, WriteFails, AfterWrite, AssertFails
  <2>3. CASE Sleeps
    BY <2>3 DEF Sleeps, Sleep
  <2>4. QED
    BY <2>1, <2>2, <2>3
<1>2. QED
  BY <1>1, DyingPlaces, OnwardPlaces, SameNetwork DEF HostInv

LEMMA DestroyPlaces == HostInv /\ DestroyStream => NetworkTypeOK' /\ StreamInv'
<1> SUFFICES ASSUME HostInv, DestroyStream
             PROVE  NetworkTypeOK' /\ StreamInv'
  OBVIOUS
<1>1. HangUp(fd[Stream]) /\ fd[Stream] = accepted /\ pc' = "accept"
  BY DEF DestroyStream, HostInv, StreamInv, Serving, Given
<1>2. \A f \in Fd : peer'[f] = Nobody
  BY <1>1 DEF HangUp, HostInv, StreamInv
<1>3. NetworkTypeOK'
  BY <1>1, HangUpType DEF HostInv
<1>4. QED
  BY <1>1, <1>2, <1>3 DEF StreamInv, Serving, Given

LEMMA OtherPlaces ==
  HostInv /\ (Clients \/ Over \/ UNCHANGED vars) => NetworkTypeOK' /\ StreamInv'
<1> SUFFICES ASSUME HostInv, Clients \/ Over \/ UNCHANGED vars
             PROVE  NetworkTypeOK' /\ StreamInv'
  OBVIOUS
<1>1. UNCHANGED <<pc, accepted, fd, open, peer>>
  BY ClientsChangeNoPeer DEF Clients, Over, vars, hvars, network, program
<1>2. StreamInv'
  BY <1>1 DEF HostInv, StreamInv
<1>3. NetworkTypeOK'
  BY ClientTypes, SameNetwork DEF Clients, Over, vars, HostInv
<1>4. QED
  BY <1>2, <1>3

LEMMA HostInvHolds == Spec => []HostInv
<1>1. Init => HostInv
  <2>1. Init => IInv
    BY InitOK DEF Init, IInv, EmptyWhenFilled
  <2>2. Init => NetworkTypeOK /\ StreamInv
    BY NetworkStarts DEF Init, NetworkInit, StreamInv, Serving, Given
  <2>3. QED
    BY <2>1, <2>2 DEF HostInv
<1>2. HostInv /\ IInv' /\ [Next]_vars => HostInv'
  BY StartPlaces, TakePlaces, AnswerPlaces, DestroyPlaces, OtherPlaces
  DEF Next, Program, HostInv
<1>3. QED
  BY <1>1, <1>2, InvariantHolds, PTL DEF Spec

-----------------------------------------------------------------------------
(* What the clients see: each step is one of the service, or none *)

\* Clients can connect exactly while the program is in its loop.
UpInv ==
    /\ pc \in {"set_timeout", "bind", "listen"} => fd[Server] # NoFd
    /\ listening # NoFd <=> pc \in Turn

ServiceInv == HostInv /\ UpInv

ServiceStep == [Service!ReliableNext \/ Service!Die]_(Service!svars)

LEMMA ServedOne ==
  ASSUME NEW f \in Fd, peer[f] # Nobody, \A g \in Fd : peer[g] # Nobody => g = f
  PROVE  Served = peer[f]
<1>1. (CHOOSE g \in Fd : peer[g] # Nobody) = f
  OBVIOUS
<1>2. QED
  BY <1>1 DEF Served

LEMMA ServedOneNext ==
  ASSUME NEW f \in Fd, peer'[f] # Nobody, \A g \in Fd : peer'[g] # Nobody => g = f
  PROVE  Served' = peer'[f]
<1>1. (CHOOSE g \in Fd : peer'[g] # Nobody) = f
  OBVIOUS
<1>2. QED
  BY <1>1 DEF Served

LEMMA ServedTaken ==
  ASSUME NEW c \in Client, Served = c
  PROVE  Taken(c)
<1>1. c # Nobody
  BY NetworkAssumption
<1>2. \E f \in Fd : peer[f] # Nobody
  BY <1>1 DEF Served
<1>3. (CHOOSE f \in Fd : peer[f] # Nobody) \in Fd
  BY <1>2
<1>4. QED
  BY <1>2, <1>3 DEF Served, Taken

LEMMA NothingSeen ==
  ASSUME UpInv, UpInv', UNCHANGED <<queue, peer>>, pc \in Turn <=> pc' \in Turn
  PROVE  ServiceStep
<1>1. Served' = Served
  BY DEF Served
<1>2. (listening # NoFd)' = (listening # NoFd)
  BY DEF UpInv
<1>3. UNCHANGED Service!svars
  BY <1>1, <1>2 DEF Service!svars
<1>4. QED
  BY <1>3 DEF ServiceStep

\* The service starts with listen().
LEMMA StartServes ==
  ASSUME ServiceInv, Start
  PROVE  UpInv' /\ ServiceStep
<1> USE Sockets, FdNotNoFd DEF GoTo, Turn
<1>1. UpInv /\ fd \in [Sock -> Fd \union {NoFd}]
  BY DEF ServiceInv, HostInv, IInv, HandlesTypeOK
<1>2. CASE ListenServer /\ OpenQueue(fd[Server])
  <2>1. /\ pc = "listen" /\ fd[Server] # NoFd /\ listening = NoFd
        /\ listening' = fd[Server] /\ UNCHANGED <<queue, peer, fd>>
    BY <1>1, <1>2 DEF ListenServer, OpenQueue, UpInv, hvars
  <2>2. pc' = "accept"
    BY <1>2, <2>1 DEF ListenServer, OpenQueue, network
  <2>3. UpInv'
    BY <2>1, <2>2 DEF UpInv
  <2>4. Served' = Served
    BY <2>1 DEF Served
  <2>5. Service!Start
    BY <2>1, <2>4 DEF Service!Start
  <2>6. QED
    BY <2>3, <2>5 DEF ServiceStep, Service!ReliableNext
<1>3. CASE Start /\ UNCHANGED network /\ pc' # "accept"
  <2>1. pc \notin Turn /\ pc' \notin Turn
    BY <1>3 DEF Start, ConstructServer, OpenServer, SetServerTimeout, BindServer,
                ListenServer
  <2>2. UpInv'
    <3>1. pc' \in {"bind", "listen"} => fd'[Server] = fd[Server] /\ fd[Server] # NoFd
      BY <1>1, <1>3
      DEF Start, ConstructServer, OpenServer, SetServerTimeout, SetTimeout, BindServer,
          Bind, Lookup, kernel, ListenServer, UpInv
    <3>2. pc' = "set_timeout" => fd'[Server] # NoFd
      BY <1>3 DEF Start, ConstructServer, OpenServer, SetServerTimeout, BindServer,
                  ListenServer, NoFd
    <3>3. listening' = listening
      BY <1>3 DEF network
    <3>4. QED
      BY <1>1, <2>1, <3>1, <3>2, <3>3 DEF UpInv
  <2>3. QED
    BY <1>1, <1>3, <2>1, <2>2, NothingSeen DEF network
<1>4. QED
  BY <1>2, <1>3 DEF Start, ConstructServer, OpenServer, SetServerTimeout, BindServer,
                    ListenServer

\* An assertion, a signal or a crash ends the service for everybody.
LEMMA DyingServes ==
  ASSUME UpInv, pc \in Turn, NEW how \in {"aborted", "killed", "crashed"}, Die(how)
  PROVE  UpInv' /\ ServiceStep
<1>1. /\ listening # NoFd /\ listening' = NoFd /\ queue' = <<>>
      /\ \A f \in Fd : peer'[f] = Nobody
  BY DEF UpInv, Die, HangUpAll
<1>2. pc' = how
  BY DEF Die, GoTo
<1>3. UpInv'
  BY <1>1, <1>2 DEF UpInv, Turn
<1>4. Served' = Nobody
  BY <1>1 DEF Served
<1>5. Service!Die
  BY <1>1, <1>4 DEF Service!Die
<1>6. QED
  BY <1>3, <1>5 DEF ServiceStep

LEMMA TakeServes ==
  ASSUME ServiceInv, Take
  PROVE  UpInv' /\ ServiceStep
<1>1. UpInv /\ NetworkTypeOK /\ StreamInv
  BY DEF ServiceInv, HostInv
<1>2. CASE AcceptClient
  <2>1. PICK f \in Fd : Accept(Server, f) /\ TakeFirst(f) /\ accepted' = f
    BY <1>2 DEF AcceptClient
  <2>2. /\ pc = "accept" /\ pc' = "stream" /\ listening' = listening
        /\ listening # NoFd
    BY <1>1, <1>2, <2>1 DEF AcceptClient, TakeFirst, UpInv, Turn
  <2>3. UpInv'
    BY <2>2 DEF UpInv, Turn
  <2>4. \A g \in Fd : peer[g] = Nobody
    BY <1>1, <2>2 DEF StreamInv, Serving
  <2>5. /\ peer'[f] = Head(queue) /\ peer'[f] # Nobody
        /\ \A g \in Fd : g # f => peer'[g] = peer[g]
    BY <1>1, <2>1, TakeFirstPlaces DEF TakeFirst, NetworkTypeOK
  <2>6. Served = Nobody /\ Served' = Head(queue)
    BY <2>4, <2>5, ServedOneNext DEF Served
  <2>7. Service!Take
    BY <2>1, <2>2, <2>6 DEF Service!Take, TakeFirst
  <2>8. QED
    BY <2>3, <2>7 DEF ServiceStep, Service!ReliableNext
<1>3. CASE AcceptFails
  BY <1>1, <1>3, DyingServes DEF AcceptFails, AssertFails, Turn
<1>4. CASE ConstructStream \/ GiveDescriptor
  <2>1. UNCHANGED network /\ pc \in Turn /\ pc' \in {"set_fd", "read"}
    BY <1>4 DEF ConstructStream, GiveDescriptor, GoTo, Turn
  <2>2. UpInv'
    BY <1>1, <2>1 DEF UpInv, network, Turn
  <2>3. QED
    BY <1>1, <2>1, <2>2, NothingSeen DEF network, Turn
<1>5. QED
  BY <1>2, <1>3, <1>4 DEF Take

LEMMA AnswerServes ==
  ASSUME ServiceInv, Answer \/ Write \/ Sleeps
  PROVE  UpInv' /\ ServiceStep
<1>1. UpInv
  BY DEF ServiceInv
<1>2. pc \in Turn
  BY DEF Answer, ReadRequest, ReadFails, ParseRequest, MatchRequest,
         Write, WriteResponse, WriteFails, Sleeps, Sleep, Turn
<1>3. \/ /\ UNCHANGED <<hvars, network>>
         /\ pc' \in Turn \ {"stream", "set_fd"}
      \/ \E how \in {"aborted", "killed", "crashed"} : Die(how)
  <2> USE DEF GoTo, Turn
  <2>1. CASE Answer
    BY <2>1 DEF Answer, ReadRequest, ReadFails, ParseRequest, MatchRequest, AssertFails
  <2>2. CASE Write
    BY <2>2 DEF Write, WriteResponse, WriteFails, AfterWrite, AssertFails
  <2>3. CASE Sleeps
    BY <2>3 DEF Sleeps, Sleep
  <2>4. QED
    BY <2>1, <2>2, <2>3
<1>4. CASE UNCHANGED <<hvars, network>> /\ pc' \in Turn
  <2>1. UpInv'
    BY <1>1, <1>2, <1>4 DEF UpInv, Turn, network
  <2>2. QED
    BY <1>1, <1>2, <1>4, <2>1, NothingSeen DEF network
<1>5. QED
  BY <1>1, <1>2, <1>3, <1>4, DyingServes

\* The end of the turn lets go of the client.
LEMMA DestroyServes ==
  ASSUME ServiceInv, DestroyStream
  PROVE  UpInv' /\ ServiceStep
<1>1. UpInv /\ StreamInv
  BY DEF ServiceInv, HostInv
<1>2. /\ pc = "destroy" /\ pc' = "accept" /\ fd[Stream] = accepted /\ HangUp(accepted)
      /\ queue' = queue /\ listening' = listening /\ listening # NoFd
  BY <1>1 DEF DestroyStream, HangUp, StreamInv, Serving, Given, UpInv, Turn
<1>3. UpInv'
  BY <1>2 DEF UpInv, Turn
<1>4. /\ \A g \in Fd : peer[g] # Nobody => g = accepted
      /\ accepted \in Fd /\ peer[accepted] # Nobody
  BY <1>1, <1>2 DEF StreamInv, Serving, ServiceInv, HostInv, IInv, HandlesTypeOK
<1>5. Served # Nobody
  BY <1>4, ServedOne
<1>6. Served' = Nobody
  BY <1>2, <1>4 DEF HangUp, Served
<1>7. Service!Finish
  BY <1>2, <1>5, <1>6 DEF Service!Finish
<1>8. QED
  BY <1>3, <1>7 DEF ServiceStep, Service!ReliableNext

LEMMA OthersServe ==
  ASSUME ServiceInv, Clients \/ Over \/ UNCHANGED vars
  PROVE  UpInv' /\ ServiceStep
<1>1. UpInv
  BY DEF ServiceInv
<1>2. UNCHANGED <<pc, fd, peer, listening>>
  BY ClientsChangeNoPeer DEF Clients, Over, vars, hvars, network, program
<1>3. UpInv'
  BY <1>1, <1>2 DEF UpInv
<1>4. CASE queue' = queue
  BY <1>1, <1>2, <1>3, <1>4, NothingSeen
<1>5. ASSUME NEW c \in Client, ClientConnects(c)
      PROVE  ServiceStep
  <2>1. /\ listening # NoFd /\ Len(queue) < Backlog /\ queue' = Append(queue, c)
        /\ ~Service!Waiting(c) /\ Served # c
    BY <1>5, ServedTaken DEF ClientConnects, Joined, Queued, Service!Waiting
  <2>2. Served' = Served
    BY <1>2 DEF Served
  <2>3. Service!Arrive(c)
    BY <1>2, <2>1, <2>2 DEF Service!Arrive
  <2>4. QED
    BY <2>3 DEF ServiceStep, Service!ReliableNext
<1>6. QED
  BY <1>3, <1>4, <1>5
  DEF Clients, ClientStep, ClientSends, ClientLeaves, Over, vars, network

-----------------------------------------------------------------------------
(* What the router makes of the empty url: the functions that split a text *)
(* and walk over the items are defined by recursion, and each is worked    *)
(* out here for the few arguments it is ever given, from the last one to   *)
(* the first.                                                              *)

LEMMA OneSlash ==
  LET slash == <<"/">>
  IN  Len(slash) = 1 /\ SubSeq(slash, 1, 1) = slash
<1> DEFINE slash == <<"/">>
<1>1. slash \in Seq({"/"}) /\ Len(slash) = 1
  OBVIOUS
<1> HIDE DEF slash
<1>2. SubSeq(slash, 1, Len(slash)) = slash
  BY <1>1, SubSeqFull
<1> QED BY <1>1, <1>2 DEF slash

\* split of nothing, and of the slash, has no pieces.
LEMMA SplitEmpty == Routes!Split(<<>>, <<"/">>) = <<>>
<1> DEFINE t == <<>>
           e(f, l) == LET r == Routes!Find(t, <<"/">>, l)
                      IN IF l > Len(t) THEN <<>>
                         ELSE IF r = 0 THEN <<SubSeq(t, l, Len(t))>>
                         ELSE (IF r > l THEN <<SubSeq(t, l, r - 1)>> ELSE <<>>)
                               \o f[r + Len(<<"/">>)]
           P == CHOOSE f : f = [l \in 1 .. (Len(t) + 1) |-> e(f, l)]
<1>1. Routes!Split(t, <<"/">>) = P[1]
  BY DEF Routes!Split
<1>2. 1 .. (Len(t) + 1) = {1}
  OBVIOUS
<1>3. \A f : e(f, 1) = <<>>
  OBVIOUS
<1> DEFINE g == [l \in 1 .. (Len(t) + 1) |-> <<>>]
<1>4. g = [l \in 1 .. (Len(t) + 1) |-> e(g, l)]
  BY <1>2, <1>3
<1>5. P = [l \in 1 .. (Len(t) + 1) |-> e(P, l)]
  BY <1>4
<1> QED BY <1>1, <1>2, <1>3, <1>5

LEMMA FindSlash == Routes!Find(<<"/">>, <<"/">>, 1) = 1
<1> DEFINE at == {i \in 1 .. (Len(<<"/">>) - Len(<<"/">>) + 1) :
                  SubSeq(<<"/">>, i, i + Len(<<"/">>) - 1) = <<"/">>}
<1>3. at = {1}
  <2>1. 1 .. (Len(<<"/">>) - Len(<<"/">>) + 1) = {1}
    BY OneSlash
  <2>2. 1 + Len(<<"/">>) - 1 = 1
    BY OneSlash
  <2> QED BY OneSlash, <2>1, <2>2
<1> QED BY <1>3 DEF Routes!Find

LEMMA SplitSlash == Routes!Split(<<"/">>, <<"/">>) = <<>>
<1> DEFINE t == <<"/">>
<1>0. Len(t) = 1 /\ Routes!Find(t, t, 1) = 1
  BY OneSlash, FindSlash
<1> HIDE DEF t
<1> DEFINE e(f, l) == LET r == Routes!Find(t, t, l)
                      IN IF l > Len(t) THEN <<>>
                         ELSE IF r = 0 THEN <<SubSeq(t, l, Len(t))>>
                         ELSE (IF r > l THEN <<SubSeq(t, l, r - 1)>> ELSE <<>>)
                               \o f[r + Len(t)]
           P == CHOOSE f : f = [l \in 1 .. (Len(t) + 1) |-> e(f, l)]
<1>1. Routes!Split(t, t) = P[1]
  BY DEF Routes!Split
<1>2. 1 .. (Len(t) + 1) = {1, 2}
  BY <1>0
<1>3. \A f : e(f, 2) = <<>>
  BY <1>0
<1>4. ASSUME NEW f, f[2] = <<>> PROVE e(f, 1) = <<>>
  <2>0. ~(1 > Len(t)) /\ Routes!Find(t, t, 1) # 0
    BY <1>0
  <2>1. e(f, 1) = (IF 1 > 1 THEN <<SubSeq(t, 1, 1 - 1)>> ELSE <<>>) \o f[1 + Len(t)]
    BY <1>0, <2>0, Zenon
  <2>2. 1 + Len(t) = 2 /\ ~(1 > 1)
    BY <1>0
  <2>3. <<>> \o <<>> = <<>>
    OBVIOUS
  <2> HIDE DEF e
  <2> QED BY <1>4, <2>1, <2>2, <2>3
<1> HIDE DEF e
<1> DEFINE g == [l \in 1 .. (Len(t) + 1) |-> <<>>]
<1>5. g = [l \in 1 .. (Len(t) + 1) |-> e(g, l)]
  BY <1>2, <1>3, <1>4
<1>6. P = [l \in 1 .. (Len(t) + 1) |-> e(P, l)]
  BY <1>5
<1>7. P[2] = <<>>
  BY <1>2, <1>3, <1>6
<1> QED BY <1>1, <1>2, <1>4, <1>6, <1>7 DEF t

LEMMA ItemsOfMain ==
  /\ HostingItems[1][1] = [pattern |-> RootPattern, handler |-> RootPattern, router |-> 0]
  /\ HostingItems[1][2] = [pattern |-> ImagePattern, handler |-> ImagePattern, router |-> 0]
  /\ Len(HostingItems[1]) = 2
  /\ DOMAIN HostingItems = {1}
  BY DEF HostingItems, Item

LEMMA SlashMatches == Routes!Verdict[<<>>][RootPattern] = "yes"
<1>1. Routes!Path(RootPattern) = <<>> /\ Routes!Path(<<>>) = <<>>
  BY SplitEmpty, SplitSlash DEF Routes!Path, RootPattern
<1>2. Routes!SegmentsMatch(<<>>, <<>>) = "yes"
  <2> DEFINE C(k) == /\ k \in DOMAIN <<>> => Routes!Ends(<<>>, <<>>, k)
                     /\ \A j \in 1 .. (k - 1) : ~Routes!Ends(<<>>, <<>>, j)
  <2>1. C(1)
    OBVIOUS
  <2>2. 1 .. (Len(<<>>) + 1) = {1}
    OBVIOUS
  <2> HIDE DEF C
  <2>3. (CHOOSE k \in 1 .. (Len(<<>>) + 1) : C(k)) = 1
    BY <2>1, <2>2
  <2> DEFINE c == CHOOSE k \in 1 .. (Len(<<>>) + 1) : C(k)
             S(j) == CASE j > Len(<<>>) -> "yes"
                       [] j <= Len(<<>>) /\ <<>>[j] = Routes!Wildcard -> "yes"
                       [] j <= Len(<<>>) /\ <<>>[j] # Routes!Wildcard /\ j > Len(<<>>) -> "undefined"
                       [] j <= Len(<<>>) /\ <<>>[j] # Routes!Wildcard /\ j <= Len(<<>>) -> "no"
  <2>4. Routes!SegmentsMatch(<<>>, <<>>) = S(c)
    BY DEF C, Routes!SegmentsMatch
  <2> HIDE DEF c
  <2>5. S(1) = "yes"
    <3>1. 1 > Len(<<>>) /\ ~(1 <= Len(<<>>))
      OBVIOUS
    <3>2. QED
      BY <3>1
  <2> HIDE DEF S
  <2> QED BY <2>3, <2>4, <2>5 DEF c
<1>3. QED BY <1>1, <1>2 DEF Routes!Verdict

LEMMA MatchIsRoot == Routes!Match(<<>>) = {RootPattern}
<1> DEFINE body(f, at) ==
          IF at[2] > Len(HostingItems[at[1]]) THEN {Routes!NoMatch}
          ELSE LET item    == HostingItems[at[1]][at[2]]
                   verdict == Routes!Verdict[<<>>][item.pattern]
                   taken   == IF item.router # Routes!NoRouter THEN f[<<item.router, 1>>]
                              ELSE {item.handler}
                   further == f[<<at[1], at[2] + 1>>]
               IN  CASE verdict = "yes" -> taken
                     [] verdict = "no"  -> further
                     [] OTHER -> taken \union further \union {Routes!Crash}
           D == (DOMAIN HostingItems) \X (1 .. (2 + 1))
           from == CHOOSE f : f = [at \in D |-> body(f, at)]
<1>1. Routes!Match(<<>>) = from[<<1, 1>>]
  BY DEF Routes!Match, Routes!Root
<1>2. \A f : body(f, <<1, 1>>) = {RootPattern}
  BY ItemsOfMain, SlashMatches DEF Routes!NoRouter
<1>3. \A f : body(f, <<1, 3>>) = {Routes!NoMatch}
  <2>1. <<1, 3>>[1] = 1 /\ <<1, 3>>[2] = 3
    OBVIOUS
  <2>2. 3 > Len(HostingItems[1])
    BY ItemsOfMain
  <2> QED BY <2>1, <2>2, Zenon
<1>4. \A f, g : f[<<1, 3>>] = g[<<1, 3>>] => body(f, <<1, 2>>) = body(g, <<1, 2>>)
  <2>1. <<1, 2>>[1] = 1 /\ <<1, 2>>[2] = 2 /\ 2 + 1 = 3
    OBVIOUS
  <2>2. HostingItems[1][2].router = Routes!NoRouter
    BY ItemsOfMain DEF Routes!NoRouter
  <2> DEFINE K(x) == IF 2 > Len(HostingItems[1]) THEN {Routes!NoMatch}
          ELSE LET item    == HostingItems[1][2]
                   verdict == Routes!Verdict[<<>>][item.pattern]
                   taken   == {item.handler}
               IN  CASE verdict = "yes" -> taken
                     [] verdict = "no"  -> x
                     [] OTHER -> taken \union x \union {Routes!Crash}
  <2>3. ASSUME NEW f PROVE body(f, <<1, 2>>) = K(f[<<1, 3>>])
    BY <2>1, <2>2
  <2> HIDE DEF K, body
  <2> QED BY <2>3
<1> HIDE DEF body
<1> DEFINE f3 == [at \in D |-> {Routes!NoMatch}]
           g  == [at \in D |->
                    IF at[2] = 1 THEN {RootPattern}
                    ELSE IF at[2] = 2 THEN body(f3, <<1, 2>>) ELSE {Routes!NoMatch}]
<1>5. D = {<<1, 1>>, <<1, 2>>, <<1, 3>>}
  BY ItemsOfMain
<1>6. g[<<1, 3>>] = f3[<<1, 3>>]
  BY <1>5
<1>7. g = [at \in D |-> body(g, at)]
  <2>1. \A at \in D : g[at] = body(g, at)
    <3>1. g[<<1, 1>>] = body(g, <<1, 1>>)
      BY <1>2, <1>5
    <3>2. g[<<1, 2>>] = body(g, <<1, 2>>)
      <4>1. g[<<1, 2>>] = body(f3, <<1, 2>>)
        BY <1>5
      <4> HIDE DEF g, f3
      <4> QED BY <1>4, <1>6, <4>1
    <3>3. g[<<1, 3>>] = body(g, <<1, 3>>)
      BY <1>3, <1>5
    <3> HIDE DEF g
    <3> QED BY <1>5, <3>1, <3>2, <3>3
  <2> HIDE DEF g
  <2> QED BY <2>1 DEF g
<1>8. from = [at \in D |-> body(from, at)]
  BY <1>7
<1>9. from[<<1, 1>>] = body(from, <<1, 1>>)
  BY <1>5, <1>8
<1>10. QED BY <1>1, <1>2, <1>9

-----------------------------------------------------------------------------
(* Which handler answers, and how much it has written *)

\* What has been called and written at which call.
AnswerInv ==
    /\ pc \in Setup \union {"accept", "stream", "set_fd", "read", "parse", "match"}
         => called = <<>> /\ copies = 0
    /\ pc = "match" => req.url = <<>>
    /\ pc \in {"write", "sleep", "write again", "sleep 10", "destroy"}
         => called = RootPattern
    /\ pc = "write" => copies = 0
    /\ pc \in {"sleep", "write again"} => copies = 1
    /\ pc \in {"sleep 10", "destroy"} => copies = 2
    /\ called \in {<<>>, RootPattern}

LEMMA NothingIsParsed == ParseHttp(Text).http.url = <<>>
<1> DEFINE at == {i \in 1 .. (Len(Text) - Len(CRLF) + 1) :
                    SubSeq(Text, i, i + Len(CRLF) - 1) = CRLF}
<1>1. Len(Text) = 0 /\ Len(CRLF) = 2
  BY DEF Text, CRLF
<1>2. at = {}
  BY <1>1
<1>3. Find(Text, CRLF, 1) = 0
  BY <1>2 DEF Find
<1>4. ParseHttp(Text) = Result("MALFORMED_HTTP", EmptyHttp)
  BY <1>3 DEF ParseHttp
<1>5. QED BY <1>4 DEF Result, EmptyHttp

LEMMA Counting == 0 + 1 = 1 /\ 1 + 1 = 2
  OBVIOUS

LEMMA AnswerStarts == Init => AnswerInv
  BY DEF Init, AnswerInv, Setup

LEMMA AnswerStays ==
  ASSUME AnswerInv, [Next]_vars
  PROVE  AnswerInv'
<1> USE DEF AnswerInv, Setup, GoTo
<1>1. CASE Start
  BY <1>1 DEF Start, ConstructServer, OpenServer, SetServerTimeout, BindServer, ListenServer
<1>2. CASE Take
  BY <1>2 DEF Take, AcceptClient, AcceptFails, ConstructStream, GiveDescriptor, AssertFails, Die
<1>3. CASE ReadRequest \/ ReadFails
  BY <1>3 DEF ReadRequest, ReadFails, AssertFails, Die
<1>4. CASE ParseRequest
  <2>1. req'.url = <<>>
    BY <1>4, NothingIsParsed DEF ParseRequest
  <2>2. QED
    BY <1>4, <2>1 DEF ParseRequest
<1>5. CASE MatchRequest
  <2>1. pc = "match" /\ req.url = <<>> /\ copies = 0
    BY <1>5 DEF MatchRequest
  <2>2. RootPattern # Routes!Crash /\ RootPattern # Routes!NoMatch
    BY DEF RootPattern, Routes!Crash, Routes!NoMatch
  <2>3. called' = RootPattern /\ pc' = "write" /\ copies' = 0
    BY <1>5, <2>1, <2>2, MatchIsRoot DEF MatchRequest
  <2>4. QED
    BY <2>3
<1>6. CASE Write
  <2>1. ASSUME NEW call \in {"write", "write again"}, WriteResponse(call)
        PROVE  AnswerInv'
    <3>1. called' = RootPattern /\ called = RootPattern
      BY <2>1 DEF WriteResponse
    <3>2. \/ copies' = 0 + 1 /\ pc' = "sleep"
          \/ copies' = 1 + 1 /\ pc' = "sleep 10"
      BY <2>1, <3>1 DEF WriteResponse, AfterWrite
    <3>3. 0 + 1 = 1 /\ 1 + 1 = 2
      BY Counting
    <3>4. \/ copies' = 1 /\ pc' = "sleep"
          \/ copies' = 2 /\ pc' = "sleep 10"
      BY <3>2, <3>3
    <3>5. QED
      BY <3>1, <3>4
  <2>2. ASSUME NEW call \in {"write", "write again"}, WriteFails(call)
        PROVE  AnswerInv'
    BY <2>2 DEF WriteFails, AssertFails, Die
  <2>3. QED
    BY <1>6, <2>1, <2>2 DEF Write
<1>7. CASE Sleeps
  BY <1>7 DEF Sleeps, Sleep
<1>8. CASE DestroyStream
  BY <1>8 DEF DestroyStream
<1>9. CASE Clients \/ Over \/ UNCHANGED vars
  BY <1>9 DEF Clients, Over, vars, program
<1>10. QED
  BY <1>1, <1>2, <1>3, <1>4, <1>5, <1>6, <1>7, <1>8, <1>9 DEF Next, Program, Answer

\* The only step that lets go of a client ...
LEMMA LettingGo ==
  ASSUME HostInv, AnswerInv, [Next]_vars, Served # Nobody, Served' = Nobody
  PROVE  Dead' \/ copies = 2
<1>1. CASE UNCHANGED peer
  BY <1>1 DEF Served
<1>2. CASE AcceptClient
  <2>1. \A f \in Fd : peer[f] = Nobody
    BY <1>2 DEF AcceptClient, HostInv, StreamInv, Serving
  <2>2. QED
    BY <2>1 DEF Served
<1>3. ASSUME NEW how \in {"aborted", "killed", "crashed"}, Die(how)
      PROVE  Dead'
  BY <1>3 DEF Die, GoTo, Dead
<1>4. CASE DestroyStream
  BY <1>4 DEF DestroyStream, AnswerInv
<1>5. CASE Start
  BY <1>1, <1>5
  DEF Start, ConstructServer, OpenServer, SetServerTimeout, BindServer, ListenServer,
      OpenQueue, network
<1>6. CASE Take
  BY <1>1, <1>2, <1>3, <1>6
  DEF Take, AcceptFails, ConstructStream, GiveDescriptor, AssertFails, network
<1>7. CASE Answer
  BY <1>1, <1>3, <1>7
  DEF Answer, ReadRequest, ReadFails, ParseRequest, MatchRequest, AssertFails, network
<1>8. CASE Write \/ Sleeps
  BY <1>1, <1>3, <1>8
  DEF Write, WriteResponse, WriteFails, Sleeps, Sleep, AssertFails, network
<1>9. CASE Clients \/ Over \/ UNCHANGED vars
  <2>1. UNCHANGED peer
    BY <1>9, ClientsChangeNoPeer DEF Clients, Over, vars, network
  <2>2. QED
    BY <1>1, <2>1
<1>10. QED
  BY <1>4, <1>5, <1>6, <1>7, <1>8, <1>9 DEF Next, Program

-----------------------------------------------------------------------------
(* The theorems *)

\* main.cpp never move-constructs a socket that has a descriptor and never
\* opens one over a descriptor: it is a program as DisciplinedSpec has them.
THEOREM HostingIsDisciplined == Spec => UsesSocketsWell
<1>1. Init => HandlesInit
  BY DEF Init
<1>2. IInv /\ [Next]_vars => [HandlesNext /\ Disciplined]_hvars
  BY NextIsWell DEF WellUsed
<1>3. QED
  BY <1>1, <1>2, InvariantHolds, PTL DEF Spec, UsesSocketsWell, DisciplinedSpec

\* So every descriptor it has is closed by exactly one owner.
THEOREM HostingIsSafeAndTight == Spec => []SafeAndTight
  BY HostingIsDisciplined, DisciplineSuffices, PTL DEF UsesSocketsWell

\* Both responses are written to the client whose connection was accepted
\* last, while nobody else has a connection.
THEOREM RightClientIsAnswered == Spec => []WritesToItsClient
<1>1. HostInv => WritesToItsClient
  BY DEF HostInv, StreamInv, WritesToItsClient, IsConnection, Serving, Given
<1>2. QED
  BY <1>1, HostInvHolds, PTL

\* What the clients see of main.cpp is the sequential service: it takes who
\* came first, one at a time, and when it dies it lets go of everybody.
THEOREM HostingIsAService == Spec => Service!MortalSteps
<1>1. Init => Service!Init /\ UpInv
  <2> SUFFICES ASSUME Init
               PROVE  Service!Init /\ UpInv
    OBVIOUS
  <2>1. /\ listening = NoFd /\ queue = <<>> /\ pc = "construct"
        /\ \A g \in Fd : peer[g] = Nobody
    BY DEF Init, NetworkInit
  <2>2. Served = Nobody
    BY <2>1 DEF Served
  <2>3. QED
    BY <2>1, <2>2 DEF Service!Init, UpInv, Turn
<1>2. HostInv /\ UpInv /\ [Next]_vars
        => UpInv' /\ [Service!ReliableNext \/ Service!Die]_(Service!svars)
  BY StartServes, TakeServes, AnswerServes, DestroyServes, OthersServe
  DEF Next, Program, ServiceInv, ServiceStep
<1>3. QED
  BY <1>1, <1>2, HostInvHolds, PTL DEF Spec, Service!MortalSteps

\* Whatever a client asks for, the handler for "/" answers.
THEOREM RootAnswersEverybody == Spec => []OnlyRootAnswers
<1>1. AnswerInv => OnlyRootAnswers
  BY DEF AnswerInv, OnlyRootAnswers
<1>2. QED
  BY <1>1, AnswerStarts, AnswerStays, PTL DEF Spec

\* A client that is let go of while the program lives has been written the
\* response twice: main.cpp closes no connection between the two writes.
THEOREM ResponseIsWrittenTwice == Spec => NobodyIsCutOff
<1>1. HostInv /\ AnswerInv /\ [Next]_vars
        => [ Served # Nobody /\ Served' = Nobody /\ ~Dead' => copies = 2 ]_vars
  BY LettingGo
<1>2. QED
  BY <1>1, HostInvHolds, AnswerStarts, AnswerStays, PTL DEF Spec, NobodyIsCutOff
=============================================================================
