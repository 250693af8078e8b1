--------------------------- MODULE SocketHandles ---------------------------
(***************************************************************************)
(* The socket objects of dser (class socket and its subclass inet_socket)  *)
(* and the descriptors of the process they own.                            *)
(*                                                                         *)
(* An object owns the descriptor stored in its _fd and closes it in        *)
(* terminate(), which the destructor, set_fd and move assignment call.     *)
(* accept() returns a bare int: until some object is given that int with   *)
(* set_fd the descriptor is held by a local variable of the caller, here   *)
(* the set `pending'.  Descriptors are small integers the kernel reuses,   *)
(* so a close of a descriptor the caller no longer owns may hit the        *)
(* connection of somebody else: this is what Safe excludes.                *)
(*                                                                         *)
(* Each action is one complete member function call.  The kernel side      *)
(* (::socket, ::close, ::setsockopt, ::accept, getaddrinfo) is external    *)
(* and may fail whenever the manual pages let it.                          *)
(***************************************************************************)
EXTENDS Integers, FiniteSets

CONSTANTS
    Sock,       \* places where a socket object can be constructed
    FirstFd,    \* lowest descriptor the program did not inherit: 3, or 0
    FdLimit,    \* size of the descriptor table of the process
    Timeouts,   \* the values, in milliseconds, passed to set_timeout
    Thousand,   \* microseconds in a millisecond, and milliseconds in a second
    IntLimit    \* the lowest number above those of an int: 2^31

ASSUME HandlesAssumption ==
    /\ FirstFd \in Nat
    /\ FdLimit \in Nat
    /\ Timeouts \subseteq Nat
    /\ 0 \in Timeouts
    /\ Thousand \in Nat \ {0}
    /\ IntLimit \in Nat \ {0}

Fd     == FirstFd .. (FdLimit - 1)
NoFd   == -1
Family == {"inet", "inet6"}

DEFAULT_FAMILY == "inet6"

\* The timeout of the kernel with which calls wait without end.
Forever == 0

VARIABLES
    live,     \* the objects constructed and not yet destroyed
    fd,       \* _fd of each object
    timeout,  \* _timeout of each object
    family,   \* _family of each object
    allow,    \* _allow_change_family of each object
    open,     \* kernel: the open descriptors of the process
    kfam,     \* kernel: the address family a descriptor was created with
    ktmo,     \* kernel: SO_RCVTIMEO and SO_SNDTIMEO of a descriptor, in
              \* microseconds
    pending   \* descriptors returned by accept() and held by no object

objects == <<live, fd, timeout, family, allow>>
kernel  == <<open, kfam, ktmo>>
hvars   == <<live, fd, timeout, family, allow, open, kfam, ktmo, pending>>

HandlesInit ==
    /\ live = {}
    /\ fd = [o \in Sock |-> NoFd]
    /\ timeout = [o \in Sock |-> 0]
    /\ family = [o \in Sock |-> DEFAULT_FAMILY]
    /\ allow = [o \in Sock |-> FALSE]
    /\ open = {}
    /\ kfam = [f \in Fd |-> DEFAULT_FAMILY]
    /\ ktmo = [f \in Fd |-> Forever]
    /\ pending = {}

-----------------------------------------------------------------------------
(* The kernel *)

\* A new descriptor is the lowest one that is not open.
IsLowestFree(f) ==
    /\ f \in Fd \ open
    /\ \A g \in Fd \ open : f <= g

\* ::close forgets the options of the descriptor with it.  Closing a number
\* that is not open fails with EBADF and changes nothing.
Close(F) ==
    /\ open' = open \ F
    /\ kfam' = [f \in Fd |-> IF f \in F THEN DEFAULT_FAMILY ELSE kfam[f]]
    /\ ktmo' = [f \in Fd |-> IF f \in F THEN Forever ELSE ktmo[f]]

\* The variant that takes descriptor 0 for no descriptor.
TerminatePositive(o) == Close({fd[o]} \ {NoFd, 0})

\* terminate(): closes _fd when it is not negative; the callers below
\* overwrite _fd in the same step.
Terminate(o) == Close({fd[o]} \ {NoFd})

-----------------------------------------------------------------------------
(* Construction and destruction *)

\* The fields start from the initializers of their declarations.
Blank(o) ==
    /\ o \notin live
    /\ live' = live \union {o}
    /\ timeout' = [timeout EXCEPT ![o] = 0]
    /\ allow' = [allow EXCEPT ![o] = FALSE]

Construct(o, fam) ==
    /\ Blank(o)
    /\ fd' = [fd EXCEPT ![o] = NoFd]
    /\ family' = [family EXCEPT ![o] = fam]
    /\ UNCHANGED <<kernel, pending>>

ConstructDefault(o) == Construct(o, DEFAULT_FAMILY)

\* A destructor that does not close the descriptor.
DestroyWithoutClose(o) ==
    /\ o \in live
    /\ live' = live \ {o}
    /\ fd' = [fd EXCEPT ![o] = NoFd]
    /\ timeout' = [timeout EXCEPT ![o] = 0]
    /\ family' = [family EXCEPT ![o] = DEFAULT_FAMILY]
    /\ allow' = [allow EXCEPT ![o] = FALSE]
    /\ UNCHANGED <<kernel, pending>>

\* The memory of a destroyed object keeps nothing of it.
Destroy(o) ==
    /\ o \in live
    /\ Terminate(o)
    /\ live' = live \ {o}
    /\ fd' = [fd EXCEPT ![o] = NoFd]
    /\ timeout' = [timeout EXCEPT ![o] = 0]
    /\ family' = [family EXCEPT ![o] = DEFAULT_FAMILY]
    /\ allow' = [allow EXCEPT ![o] = FALSE]
    /\ UNCHANGED pending

\* The move constructor copies _fd, _timeout and _family and leaves the
\* source as it is; _allow_change_family keeps its default.
MoveConstruct(n, o) ==
    /\ n \notin live
    /\ o \in live
    /\ live' = live \union {n}
    /\ fd' = [fd EXCEPT ![n] = fd[o]]
    /\ timeout' = [timeout EXCEPT ![n] = timeout[o]]
    /\ family' = [family EXCEPT ![n] = family[o]]
    /\ allow' = [allow EXCEPT ![n] = FALSE]
    /\ UNCHANGED <<kernel, pending>>

-----------------------------------------------------------------------------
(* Moving descriptors between objects *)

\* The object's old descriptor is overwritten, not closed.
OpenAs(o, f) ==
    /\ o \in live
    /\ fd' = [fd EXCEPT ![o] = f]
    /\ open' = open \union {f}
    /\ kfam' = [kfam EXCEPT ![f] = family[o]]
    /\ UNCHANGED <<live, timeout, family, allow, ktmo, pending>>

OpenFails(o) ==
    /\ o \in live
    /\ fd' = [fd EXCEPT ![o] = NoFd]
    /\ UNCHANGED <<live, timeout, family, allow, kernel, pending>>

Open(o) ==
    \/ \E f \in Fd : IsLowestFree(f) /\ OpenAs(o, f)
    \/ OpenFails(o)

\* The variant of the swap below that forgets _timeout.
SwapDescriptors(o, p) ==
    /\ {o, p} \subseteq live
    /\ fd' = [fd EXCEPT ![o] = fd[p], ![p] = fd[o]]
    /\ UNCHANGED <<live, timeout, family, allow, kernel, pending>>

\* The variant that calls terminate() after the assignment.
SetFdClosesNew(o, f) ==
    /\ o \in live
    /\ f \in pending \union {NoFd}
    /\ Close({f} \ {NoFd})
    /\ fd' = [fd EXCEPT ![o] = NoFd]
    /\ pending' = pending \ {f}
    /\ UNCHANGED <<live, timeout, family, allow>>

\* set_fd is called with what accept() returned: a pending descriptor or -1.
SetFd(o, f) ==
    /\ o \in live
    /\ f \in pending \union {NoFd}
    /\ Terminate(o)
    /\ fd' = [fd EXCEPT ![o] = f]
    /\ pending' = pending \ {f}
    /\ UNCHANGED <<live, timeout, family, allow>>

\* The variant that copies the fields and forgets to reset the source.
MoveAssignKeepsSource(o, p) ==
    /\ {o, p} \subseteq live
    /\ Terminate(o)
    /\ fd' = [fd EXCEPT ![o] = fd[p]]
    /\ timeout' = [timeout EXCEPT ![o] = timeout[p]]
    /\ family' = [family EXCEPT ![o] = family[p]]
    /\ UNCHANGED <<live, allow, pending>>

\* inet_socket::operator=: swap(*this, other), other.terminate(), then
\* _family.  Assigning an object to itself closes its descriptor.
MoveAssign(o, p) ==
    /\ {o, p} \subseteq live
    /\ Terminate(o)
    /\ fd' = [fd EXCEPT ![o] = fd[p], ![p] = NoFd]
    /\ timeout' = [timeout EXCEPT ![o] = timeout[p], ![p] = timeout[o]]
    /\ family' = [family EXCEPT ![o] = family[p]]
    /\ UNCHANGED <<live, allow, pending>>

Swap(o, p) ==
    /\ {o, p} \subseteq live
    /\ fd' = [fd EXCEPT ![o] = fd[p], ![p] = fd[o]]
    /\ timeout' = [timeout EXCEPT ![o] = timeout[p], ![p] = timeout[o]]
    /\ UNCHANGED <<live, family, allow, kernel, pending>>

-----------------------------------------------------------------------------
(* Settings *)

\* `1000 * t' in an int, as it wraps around.
Usecs(t) == ((Thousand * t + IntLimit) % (2 * IntLimit)) - IntLimit

\* _timeout is assigned first, and stays when setsockopt fails, as it does
\* when the time is negative.
SetTimeout(o, t) ==
    /\ o \in live
    /\ timeout' = [timeout EXCEPT ![o] = t]
    /\ ktmo' = IF fd[o] \in open /\ Usecs(t) >= 0
                  THEN [ktmo EXCEPT ![fd[o]] = Usecs(t)] ELSE ktmo
    /\ UNCHANGED <<live, fd, family, allow, open, kfam, pending>>

\* The variant that falls back to AF_UNSPEC.
OtherFamilyUnspec(fam) == IF fam = "inet" THEN "inet6" ELSE "unspec"

OtherFamily(fam) == IF fam = "inet" THEN "inet6" ELSE "inet"

\* Throws, and changes nothing, unless the change is allowed.
SetFamily(o, fam) ==
    /\ o \in live
    /\ allow[o]
    /\ family' = [family EXCEPT ![o] = fam]
    /\ UNCHANGED <<live, fd, timeout, allow, kernel, pending>>

SwitchFamily(o) ==
    /\ o \in live
    /\ family' = [family EXCEPT ![o] = OtherFamily(@)]
    /\ UNCHANGED <<live, fd, timeout, allow, kernel, pending>>

SetAllow(o, b) ==
    /\ o \in live
    /\ allow' = [allow EXCEPT ![o] = b]
    /\ UNCHANGED <<live, fd, timeout, family, kernel, pending>>

\* get_address_info: R is the set of families in which getaddrinfo finds an
\* address.  A lookup that fails is repeated in the other family if allowed;
\* the switch stays, whether or not the second lookup succeeds.
Switches(o, R) == family[o] \notin R /\ allow[o]

Lookup(o, R) ==
    /\ family' = [family EXCEPT ![o] =
                    IF Switches(o, R) THEN OtherFamily(@) ELSE @]
    /\ UNCHANGED <<live, fd, timeout, allow, kernel, pending>>

\* What ::bind and ::connect then do to the descriptor is not modelled.
Bind(o, R) ==
    /\ o \in live
    /\ Lookup(o, R)

Connect(o, R) ==
    /\ o \in live
    /\ fd[o] # NoFd
    /\ Lookup(o, R)

\* The descriptor of a connection inherits the options of the listener.  An
\* accept() that fails changes nothing here: it is a stuttering step.
Accept(o, f) ==
    /\ o \in live
    /\ fd[o] \in open
    /\ IsLowestFree(f)
    /\ open' = open \union {f}
    /\ kfam' = [kfam EXCEPT ![f] = kfam[fd[o]]]
    /\ ktmo' = [ktmo EXCEPT ![f] = ktmo[fd[o]]]
    /\ pending' = pending \union {f}
    /\ UNCHANGED objects

\* new_client: a local object is opened, bound and returned in place (the
\* copy is elided); when open or bind fails the local is destroyed and an
\* exception leaves, which changes nothing.
NewClient(o) ==
    /\ Blank(o)
    /\ family' = [family EXCEPT ![o] = DEFAULT_FAMILY]
    /\ \E f \in Fd :
         /\ IsLowestFree(f)
         /\ fd' = [fd EXCEPT ![o] = f]
         /\ open' = open \union {f}
         /\ kfam' = [kfam EXCEPT ![f] = DEFAULT_FAMILY]
    /\ UNCHANGED <<ktmo, pending>>

-----------------------------------------------------------------------------

Lifetimes ==
    \E o \in Sock :
       \/ \E fam \in Family : Construct(o, fam)
       \/ ConstructDefault(o)
       \/ NewClient(o)
       \/ Destroy(o)
       \/ \E p \in Sock : MoveConstruct(o, p)

Transfers ==
    \E o \in Sock :
       \/ Open(o)
       \/ \E f \in Fd \union {NoFd} : SetFd(o, f)
       \/ \E f \in Fd : Accept(o, f)
       \/ \E p \in Sock : MoveAssign(o, p)
       \/ \E p \in Sock : Swap(o, p)

Settings ==
    \E o \in Sock :
       \/ \E t \in Timeouts : SetTimeout(o, t)
       \/ \E fam \in Family : SetFamily(o, fam)
       \/ SwitchFamily(o)
       \/ \E b \in BOOLEAN : SetAllow(o, b)
       \/ \E R \in SUBSET Family : Bind(o, R) \/ Connect(o, R)

HandlesNext == Lifetimes \/ Transfers \/ Settings

HandlesSpec == HandlesInit /\ [][HandlesNext]_hvars

-----------------------------------------------------------------------------
(* Properties *)

\* Every variable holds a value of its type; the descriptor table and the
\* fields of the objects are total functions.
HandlesTypeOK ==
    /\ live \subseteq Sock
    /\ fd \in [Sock -> Fd \union {NoFd}]
    /\ timeout \in [Sock -> Timeouts]
    /\ family \in [Sock -> Family]
    /\ allow \in [Sock -> BOOLEAN]
    /\ open \subseteq Fd
    /\ kfam \in [Fd -> Family]
    /\ ktmo \in [Fd -> Int]
    /\ pending \subseteq Fd

\* The descriptors some object will close.
Held == {fd[o] : o \in live} \ {NoFd}

\* No two objects hold the same descriptor.
Exclusive ==
    \A o, p \in live : o # p /\ fd[o] = fd[p] => fd[o] = NoFd

\* Safe: a descriptor is closed by exactly one owner, so no terminate()
\* closes a descriptor a second time or one that was given to another
\* connection in the meantime.
Safe ==
    /\ Exclusive
    /\ Held \intersect pending = {}
    /\ Held \union pending \subseteq open

\* Tight: every open descriptor has somebody who will close it.
Tight == open \subseteq Held \union pending

\* Moves that leave two objects with one descriptor, and opens of an object
\* that has a descriptor already.
Aliasing  == \E n, o \in Sock : MoveConstruct(n, o) /\ fd[o] # NoFd
Reopening == \E o \in Sock : Open(o) /\ fd[o] # NoFd

\* No member function but the move constructor ever makes two owners, or an
\* owner of a descriptor that is closed, out of a state without them
\* (set_fd, both swaps, move assignment also of an object to itself).
OnlyMoveConstructionAliases == [][Safe /\ ~Safe' => Aliasing]_hvars

\* No member function but open() on an object that has a descriptor ever
\* loses a descriptor that nobody can close any more.
OnlyReopeningLeaks == [][Tight /\ ~Tight' => Reopening]_hvars

\* The _timeout of an object with a descriptor is the timeout in force.
Informed ==
    \A o \in live : fd[o] \in open => ktmo[fd[o]] = Thousand * timeout[o]

\* Milliseconds whose microseconds an int holds.
Fits(t) == Thousand * t < IntLimit

\* Calls that make them differ: taking over a connection, which has the
\* timeout of its listener; open() after set_timeout; a timeout that fits no
\* int.
Misinforming ==
    \E o \in Sock :
       \/ \E f \in Fd : SetFd(o, f)
       \/ Open(o) /\ timeout[o] # 0
       \/ \E t \in Timeouts : SetTimeout(o, t) /\ ~Fits(t)

\* No other call, moves and swaps included, makes an object believe in a
\* timeout that its descriptor does not have.
OnlyTheseMisinform == [][Safe /\ Informed /\ ~Informed' => Misinforming]_hvars

\* How the servers use the objects: they never move-construct one, and call
\* open() on an object without a descriptor.
Disciplined == ~Aliasing /\ ~Reopening

DisciplinedSpec == HandlesInit /\ [][HandlesNext /\ Disciplined]_hvars

\* Objects used in this way neither close what is not theirs nor leak.
SafeAndTight == Safe /\ Tight

-----------------------------------------------------------------------------
(* What comments and messages of the source say of the objects *)

\* inet_socket.cpp:111 says that set_allow_change_family(true) enables the
\* socket to change the version of IP.  A socket that changed it while
\* looking an address up must then be able to bind or connect to it.
SwitchReachesDescriptor ==
    [][\A o \in Sock, R \in SUBSET Family :
          (Bind(o, R) \/ Connect(o, R)) /\ Switches(o, R) /\ family'[o] \in R /\ fd[o] \in open
             => kfam'[fd[o]] = family'[o]]_hvars
=============================================================================
