----------------------------- MODULE HttpServer -----------------------------
(***************************************************************************)
(* http::server::serve and the http_connection it makes for each client,   *)
(* with the clients at the other end.                                      *)
(*                                                                         *)
(* The program is one thread; pc is the call it is about to make.  Its two *)
(* sockets are objects of SocketHandles and every step on them is one of   *)
(* the actions there.  The clients and the queue of established            *)
(* connections belong to the kernel.  What a request says is HttpParser's  *)
(* concern: here data arrives or it does not.                              *)
(***************************************************************************)
EXTENDS Network

CONSTANTS
    Listener,     \* server::_socket
    Conn,         \* http_connection::_sock, one object at a time
    ReadTimeout,  \* read_timeout of read_http
    MaxAttempts   \* bound: calls of serve

ASSUME ServerAssumption ==
    /\ Sock = {Listener, Conn} /\ Listener # Conn
    /\ ReadTimeout \in Timeouts \ {0}
    /\ MaxAttempts \in Nat

VARIABLES
    pc,         \* the next call of the program
    attempts,   \* calls of serve so far
    accepted,   \* serve's fd: what accept returned
    report      \* what read_http and serve have said of this connection

control == <<pc, attempts, accepted, report>>
vars    == <<hvars, network, control>>

ServeCalls == {"open", "bind", "listen"}
LoopCalls  == {"accept", "connection", "set_fd", "set_timeout", "recv",
               "parse", "destroy"}
Ends       == {"end", "crashed"}
Calls      == {"construct", "idle"} \union ServeCalls \union LoopCalls \union Ends

Init ==
    /\ HandlesInit
    /\ NetworkInit
    /\ pc = "construct"
    /\ attempts = 0
    /\ accepted = NoFd
    /\ report = "nothing"

-----------------------------------------------------------------------------
(* Starting to serve *)

GoTo(call) ==
    /\ pc' = call
    /\ UNCHANGED <<attempts, accepted, report>>

ConstructServer ==
    /\ pc = "construct"
    /\ ConstructDefault(Listener)
    /\ GoTo("idle")
    /\ UNCHANGED network

\* The caller of serve may call it again when it has failed.
Serve ==
    /\ pc = "idle"
    /\ attempts < MaxAttempts
    /\ attempts' = attempts + 1
    /\ pc' = "open"
    /\ UNCHANGED <<hvars, accepted, report, network>>

DestroyServer ==
    /\ pc = "idle"
    /\ Destroy(Listener)
    /\ GoTo("end")
    /\ UNCHANGED network

OpenListener ==
    /\ pc = "open"
    /\ Open(Listener)
    /\ GoTo(IF fd'[Listener] = NoFd THEN "idle" ELSE "bind")
    /\ UNCHANGED network

\* The lookup or every ::bind may fail: the port is taken, say.  serve then
\* returns with the socket still open.
BindListener ==
    /\ pc = "bind"
    /\ \E R \in SUBSET Family :
         /\ Bind(Listener, R)
         /\ (family'[Listener] \in R /\ GoTo("listen")) \/ GoTo("idle")
    /\ UNCHANGED network

Listen ==
    /\ pc = "listen"
    /\ \/ GoTo("accept") /\ OpenQueue(fd[Listener])
       \/ GoTo("idle") /\ UNCHANGED network
    /\ UNCHANGED hvars

-----------------------------------------------------------------------------
(* One turn of the loop *)

AcceptReturns(f) ==
    /\ accepted' = f
    /\ pc' = "connection"
    /\ UNCHANGED <<attempts, report>>

AcceptClient ==
    /\ pc = "accept"
    /\ \E f \in Fd :
         /\ Accept(Listener, f)
         /\ AcceptReturns(f)
         /\ TakeFirst(f)

\* conn_len is not initialized.  When its value is negative, the kernel takes
\* the connection from the queue, closes it and fails with EINVAL.
AcceptDrops ==
    /\ pc = "accept"
    /\ open # Fd
    /\ DropFirst
    /\ AcceptReturns(NoFd)
    /\ UNCHANGED hvars

\* When it is more than the 16 bytes of conn_sock, the 28 bytes of a peer of
\* the newer family are written over the stack.  Whatever else was there, the
\* process may not survive the return.
AcceptOverruns ==
    /\ pc = "accept"
    /\ open # Fd
    /\ kfam[fd[Listener]] = "inet6"
    /\ queue # <<>>
    /\ HangUpAll
    /\ GoTo("crashed")
    /\ UNCHANGED hvars

\* Without a free descriptor accept fails and the client stays in the queue.
AcceptFails ==
    /\ pc = "accept"
    /\ open = Fd
    /\ AcceptReturns(NoFd)
    /\ UNCHANGED <<hvars, network>>

ConstructConnection ==
    /\ pc = "connection"
    /\ ConstructDefault(Conn)
    /\ GoTo("set_fd")
    /\ UNCHANGED network

\* The variant that gives the descriptor to the server's own socket.
GiveDescriptorToListener ==
    /\ pc = "set_fd"
    /\ SetFd(Listener, accepted)
    /\ GoTo("set_timeout")
    /\ UNCHANGED network

GiveDescriptor ==
    /\ pc = "set_fd"
    /\ SetFd(Conn, accepted)
    /\ GoTo("set_timeout")
    /\ UNCHANGED network

\* The variant that ignores the timeout.
SetReadTimeoutIgnored ==
    /\ pc = "set_timeout"
    /\ GoTo("recv")
    /\ UNCHANGED <<hvars, network>>

\* That it fails on descriptor -1 is only printed.
SetReadTimeout ==
    /\ pc = "set_timeout"
    /\ SetTimeout(Conn, ReadTimeout)
    /\ GoTo("recv")
    /\ UNCHANGED network

Recv(words) ==
    /\ pc = "recv"
    /\ report' = words
    /\ pc' = "parse"
    /\ UNCHANGED <<hvars, attempts, accepted, network>>

RecvData    == HasData(fd[Conn]) /\ Recv("data")
RecvEnd     == HasEnded(fd[Conn]) /\ Recv("Read timeout")
RecvReset   == HasReset(fd[Conn]) /\ Recv("Failed to read")
RecvTimeout == TimesOut(fd[Conn]) /\ Recv("Failed to read")
RecvNothing == fd[Conn] \notin open /\ Recv("Failed to read")

\* Variants: serve closes the descriptor it accepted as well, or does not
\* catch the exception of the parser.
ParseAndClose ==
    /\ pc = "parse"
    /\ report' = "request"
    /\ pc' = "destroy"
    /\ Close({accepted} \ {NoFd})
    /\ UNCHANGED <<objects, pending, attempts, accepted, network>>

ParseUncaught ==
    /\ pc = "parse"
    /\ \/ report' = "no request" /\ pc' = "crashed" /\ HangUpAll
       \/ report = "data" /\ report' = "request" /\ pc' = "destroy" /\ UNCHANGED network
    /\ UNCHANGED <<hvars, attempts, accepted>>

\* A buffer with nothing in it is no request; one with data may be.  The
\* exception of the parser is caught in serve.
Parse ==
    /\ pc = "parse"
    /\ \/ report' = "no request"
       \/ report = "data" /\ report' = "request"
    /\ pc' = "destroy"
    /\ UNCHANGED <<hvars, attempts, accepted, network>>

DestroyConnection ==
    /\ pc = "destroy"
    /\ Destroy(Conn)
    /\ pc' = "accept"
    /\ accepted' = NoFd
    /\ report' = "nothing"
    /\ HangUp(fd[Conn])
    /\ UNCHANGED attempts

-----------------------------------------------------------------------------

Begin   == ConstructServer \/ Serve \/ DestroyServer
Starts  == OpenListener \/ BindListener \/ Listen
Accepts == AcceptClient \/ AcceptDrops \/ AcceptOverruns \/ AcceptFails
Reads   == RecvData \/ RecvEnd \/ RecvReset \/ RecvTimeout \/ RecvNothing
Handles == ConstructConnection \/ GiveDescriptor \/ SetReadTimeout
             \/ Parse \/ DestroyConnection

Program == Begin \/ Starts \/ Accepts \/ Reads \/ Handles

Clients == ClientStep /\ UNCHANGED <<hvars, control>>

\* The program is over.
Over == pc \in Ends /\ UNCHANGED vars

Next == Program \/ Clients \/ Over

\* The thread of the program runs whenever the call it is in can return.
Spec == Init /\ [][Next]_vars /\ WF_vars(Program)

-----------------------------------------------------------------------------
(* Properties *)

TypeOK ==
    /\ HandlesTypeOK
    /\ NetworkTypeOK
    /\ pc \in Calls
    /\ attempts \in 0 .. MaxAttempts
    /\ accepted \in Fd \union {NoFd}
    /\ report \in {"nothing", "data", "Read timeout", "Failed to read",
                   "no request", "request"}

\* Descriptors nobody will close any more.
Lost == open \ (Held \union pending)

\* However often serve is retried and whatever clients do, each retry loses
\* at most the socket of the attempt before it, and no connection is lost.
LeaksBounded == Lost = {} \/ Cardinality(Lost) < attempts

\* The socket clients connect to stays open, and stays the server's, as long
\* as clients can be in its queue.
ListenerKept ==
    listening # NoFd
      => fd[Listener] = listening /\ listening \in open \ pending

\* The connection that is read is the one of the client just accepted, and
\* of no other: descriptors of clients that are gone are never read.
ReadsFromItsClient ==
    pc \in {"recv", "parse", "destroy"}
      => /\ fd[Conn] = accepted
         /\ accepted # NoFd => IsConnection(accepted)
         /\ \A f \in Fd : peer[f] # Nobody => f = accepted

\* Retries have used up the descriptors: accept can only fail.
Exhausted == listening # NoFd /\ Fd \subseteq Lost \union {listening}

\* Every client that connected is let go of in the end, also when it never
\* sends anything and never leaves, unless the server began to listen with
\* the last descriptor.
EveryClientLeavesUnlessExhausted ==
    \A c \in Client : Joined(c) ~> (~Joined(c) \/ Exhausted)

\* The server is a sequential service that dies only of taking a client: a
\* client it has taken is served to the end.
Service == INSTANCE SequentialService WITH
    up      <- listening # NoFd,
    able    <- ~Exhausted,
    queue   <- queue,
    serving <- Served

IsService == Service!FragileSpec
=============================================================================
