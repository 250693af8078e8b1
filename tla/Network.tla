------------------------------ MODULE Network ------------------------------
(***************************************************************************)
(* The clients of a server of this library, and what the kernel keeps for  *)
(* the server: the queue of established connections of its listener, and   *)
(* for every descriptor of a connection what can be read from it.          *)
(*                                                                         *)
(* None of this is code of the repository.  It is what ::listen, ::accept, *)
(* ::recv, ::write and ::close are used for there, and the modules of the  *)
(* two servers extend it.                                                  *)
(***************************************************************************)
EXTENDS SocketHandles, Sequences

CONSTANTS
    Client,   \* clients; one may connect again when it was let go of
    Nobody,   \* no client
    Backlog   \* clients that fit into the queue: the 128 of inet_socket::listen

ASSUME NetworkAssumption ==
    /\ Nobody \notin Client
    /\ Backlog \in Nat \ {0}

VARIABLES
    listening,  \* the descriptor whose queue clients join, if there is one
    queue,      \* clients connected and not accepted yet
    peer,       \* the client at the other end of a descriptor
    sent,       \* the client has sent something
    left        \* the client has closed, or reset, its end

network == <<listening, queue, peer, sent, left>>

NetworkInit ==
    /\ listening = NoFd
    /\ queue = <<>>
    /\ peer = [f \in Fd |-> Nobody]
    /\ sent = [c \in Client |-> FALSE]
    /\ left = [c \in Client |-> "no"]

NetworkTypeOK ==
    /\ listening \in Fd \union {NoFd}
    /\ queue \in Seq(Client) /\ Len(queue) <= Backlog
    /\ peer \in [Fd -> Client \union {Nobody}]
    /\ sent \in [Client -> BOOLEAN]
    /\ left \in [Client -> {"no", "closed", "reset"}]

Queued(c) == \E i \in DOMAIN queue : queue[i] = c
Taken(c)  == \E f \in Fd : peer[f] = c
Joined(c) == Queued(c) \/ Taken(c)

-----------------------------------------------------------------------------
(* The clients.  They use no variable of the program. *)

ClientConnects(c) ==
    /\ listening # NoFd
    /\ Len(queue) < Backlog
    /\ ~Joined(c)
    /\ queue' = Append(queue, c)
    /\ sent' = [sent EXCEPT ![c] = FALSE]
    /\ left' = [left EXCEPT ![c] = "no"]
    /\ UNCHANGED <<listening, peer>>

ClientSends(c) ==
    /\ Joined(c)
    /\ left[c] = "no"
    /\ sent' = [sent EXCEPT ![c] = TRUE]
    /\ UNCHANGED <<listening, queue, peer, left>>

\* After closing its end a client may still answer what it is sent with a
\* reset.
ClientLeaves(c, how) ==
    /\ Joined(c)
    /\ left[c] = "no" \/ (left[c] = "closed" /\ how = "reset")
    /\ left' = [left EXCEPT ![c] = how]
    /\ UNCHANGED <<listening, queue, peer, sent>>

ClientStep ==
    \E c \in Client :
       \/ ClientConnects(c)
       \/ ClientSends(c)
       \/ \E how \in {"closed", "reset"} : ClientLeaves(c, how)

-----------------------------------------------------------------------------
(* The kernel, for the server *)

\* ::listen opens the queue of descriptor f.
OpenQueue(f) ==
    /\ listening' = f
    /\ UNCHANGED <<queue, peer, sent, left>>

\* ::accept takes the first client and gives its connection descriptor f, ...
TakeFirst(f) ==
    /\ queue # <<>>
    /\ queue' = Tail(queue)
    /\ peer' = [peer EXCEPT ![f] = Head(queue)]
    /\ UNCHANGED <<listening, sent, left>>

\* ... or, when it cannot copy out the client's address, closes it.
DropFirst ==
    /\ queue # <<>>
    /\ queue' = Tail(queue)
    /\ UNCHANGED <<listening, peer, sent, left>>

\* ::close of f ends the connection.
HangUp(f) ==
    /\ peer' = [g \in Fd |-> IF g = f THEN Nobody ELSE peer[g]]
    /\ UNCHANGED <<listening, queue, sent, left>>

\* The process is gone: so are its queue and its connections.
HangUpAll ==
    /\ listening' = NoFd
    /\ queue' = <<>>
    /\ peer' = [f \in Fd |-> Nobody]
    /\ UNCHANGED <<sent, left>>

\* What ::recv and ::read on descriptor f find: data that has arrived is
\* read even if the client has closed its end since, a reset discards it.
IsConnection(f) == f \in open /\ peer[f] # Nobody

HasReset(f) == IsConnection(f) /\ left[peer[f]] = "reset"
HasData(f)  == IsConnection(f) /\ left[peer[f]] # "reset" /\ sent[peer[f]]
HasEnded(f) == IsConnection(f) /\ left[peer[f]] = "closed" /\ ~sent[peer[f]]
IsSilent(f) == IsConnection(f) /\ left[peer[f]] = "no" /\ ~sent[peer[f]]

\* The call gives up on a silent client when the descriptor has a timeout.
TimesOut(f) == IsSilent(f) /\ ktmo[f] # Forever

-----------------------------------------------------------------------------
(* Properties of any server *)

\* Every client that connected is let go of in the end, also when it never
\* sends anything and never leaves.
EveryClientLeaves == \A c \in Client : Joined(c) ~> ~Joined(c)

\* The client being served, for the abstract service.
Served ==
    IF \E f \in Fd : peer[f] # Nobody
       THEN peer[CHOOSE f \in Fd : peer[f] # Nobody] ELSE Nobody
=============================================================================
