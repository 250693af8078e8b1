---------------------------- MODULE HostingLoop ----------------------------
(***************************************************************************)
(* hosting_test, the program main() runs: a listener, a router with two    *)
(* handlers, and a loop that accepts a client, reads, parses, dispatches.  *)
(*                                                                         *)
(* Each result is checked with assert_perr, which aborts the program, and  *)
(* responses are written with ::write, so a write to a connection that is  *)
(* reset raises SIGPIPE.  Either way the program is dead, with every       *)
(* connection it had.                                                      *)
(***************************************************************************)
EXTENDS Network, HttpParser

CONSTANTS
    Server,      \* the listener
    Stream,      \* the inet_socket made in each turn of the loop
    ReadTimeout, \* the timeout set on the listener
    Requests     \* what clients send: the texts of their requests

ASSUME HostingAssumption ==
    /\ Sock = {Server, Stream} /\ Server # Stream
    /\ ReadTimeout \in Timeouts \ {0}

VARIABLES
    pc,        \* the next call of the program
    accepted,  \* fd of the loop: what accept returned
    asks,      \* the request a client sends
    req,       \* the request as parsed in this turn
    called,    \* the handler called in this turn, <<>> before the call
    copies     \* responses written to the client in this turn

program == <<pc, accepted, asks, req, called, copies>>
vars    == <<hvars, network, program>>

Setup == {"construct", "open", "set_timeout", "bind", "listen"}
Turn  == {"accept", "stream", "set_fd", "read", "parse", "match",
          "write", "sleep", "write again", "sleep 10", "destroy"}

RootPattern  == <<"/">>
ImagePattern == <<"/", "image">>

\* The two items of the router, in the order they are registered; a handler
\* is named by its pattern.
Item(pattern) == [pattern |-> pattern, handler |-> pattern, router |-> 0]

\* The variant that registers "/image" first.
HostingItemsImageFirst ==
    << <<Item(ImagePattern), Item(RootPattern)>> >>

HostingItems ==
    << <<Item(RootPattern), Item(ImagePattern)>> >>

Routes == INSTANCE Router WITH
    Patterns   <- {RootPattern, ImagePattern},
    Urls       <- {<<>>},
    MaxRouters <- 1,
    MaxItems   <- 2,
    items      <- HostingItems,
    building   <- <<>>

Init ==
    /\ HandlesInit
    /\ NetworkInit
    /\ pc = "construct"
    /\ accepted = NoFd
    /\ asks \in [Client -> Requests]
    /\ req = EmptyHttp
    /\ called = <<>>
    /\ copies = 0

-----------------------------------------------------------------------------
(* Dying and going on *)

GoTo(call) ==
    /\ pc' = call
    /\ UNCHANGED <<accepted, asks, req, called, copies>>

\* The sockets are not destroyed; the kernel hangs up on everybody.
Die(how) ==
    /\ GoTo(how)
    /\ HangUpAll
    /\ UNCHANGED hvars

AssertFails == Die("aborted")

-----------------------------------------------------------------------------
(* Setting up *)

ConstructServer ==
    /\ pc = "construct"
    /\ ConstructDefault(Server)
    /\ GoTo("open")
    /\ UNCHANGED network

\* Descriptor 0 is refused too.
OpenServer ==
    /\ pc = "open"
    /\ Open(Server)
    /\ GoTo(IF fd'[Server] > 0 THEN "set_timeout" ELSE "aborted")
    /\ UNCHANGED network

\* The variant that leaves the listener without a timeout.
SetServerTimeoutNever ==
    /\ pc = "set_timeout"
    /\ GoTo("bind")
    /\ UNCHANGED <<hvars, network>>

SetServerTimeout ==
    /\ pc = "set_timeout"
    /\ SetTimeout(Server, ReadTimeout)
    /\ GoTo("bind")
    /\ UNCHANGED network

BindServer ==
    /\ pc = "bind"
    /\ \E R \in SUBSET Family :
         /\ Bind(Server, R)
         /\ (family'[Server] \in R /\ GoTo("listen")) \/ GoTo("aborted")
    /\ UNCHANGED network

ListenServer ==
    /\ pc = "listen"
    /\ \/ GoTo("accept") /\ OpenQueue(fd[Server])
       \/ GoTo("aborted") /\ UNCHANGED network
    /\ UNCHANGED hvars

-----------------------------------------------------------------------------
(* One turn of the loop *)

AcceptClient ==
    /\ pc = "accept"
    /\ \E f \in Fd :
         /\ Accept(Server, f)
         /\ TakeFirst(f)
         /\ accepted' = f
    /\ pc' = "stream"
    /\ UNCHANGED <<asks, req, called, copies>>

\* accept returns -1 when nobody has connected for the timeout of the
\* listener, when the address of the client cannot be copied out (conn_len
\* is not initialized), and when there is no descriptor left.  That the
\* address is written over the stack ends the process as the assertion does.
AcceptFails ==
    /\ pc = "accept"
    /\ \/ queue = <<>> /\ ktmo[fd[Server]] # Forever
       \/ queue # <<>>
       \/ open = Fd
    /\ AssertFails

\* The variant that makes the stream out of the listener.
ConstructStreamFromServer ==
    /\ pc = "stream"
    /\ MoveConstruct(Stream, Server)
    /\ GoTo("set_fd")
    /\ UNCHANGED network

ConstructStream ==
    /\ pc = "stream"
    /\ ConstructDefault(Stream)
    /\ GoTo("set_fd")
    /\ UNCHANGED network

\* The variant that gives the descriptor to the listener.
GiveDescriptorToServer ==
    /\ pc = "set_fd"
    /\ SetFd(Server, accepted)
    /\ GoTo("read")
    /\ UNCHANGED network

GiveDescriptor ==
    /\ pc = "set_fd"
    /\ SetFd(Stream, accepted)
    /\ GoTo("read")
    /\ UNCHANGED network

ReadRequest ==
    /\ pc = "read"
    /\ HasData(accepted) \/ HasEnded(accepted)
    /\ GoTo("parse")
    /\ UNCHANGED <<hvars, network>>

ReadFails ==
    /\ pc = "read"
    /\ HasReset(accepted) \/ TimesOut(accepted) \/ accepted \notin open
    /\ AssertFails

\* The bytes went into the capacity that buf.reserve made: buf.size() is 0,
\* and the text that is parsed is empty whatever was read.
Text == <<>>

\* The error parse_http_string returns is not looked at.
ParseRequest ==
    /\ pc = "parse"
    /\ req' = ParseHttp(Text).http
    /\ pc' = "match"
    /\ UNCHANGED <<hvars, network, accepted, asks, called, copies>>

\* The handler the router calls, or the end of the program if it reads the
\* segments of the url past their end.
MatchRequest ==
    /\ pc = "match"
    /\ \E outcome \in Routes!Match(req.url) :
         IF outcome = Routes!Crash THEN Die("crashed")
         ELSE /\ called' = outcome
              /\ pc' = IF outcome = Routes!NoMatch THEN "sleep 10" ELSE "write"
              /\ UNCHANGED <<hvars, network, accepted, asks, req, copies>>

\* The variant in which the handler for "/" writes once.
AfterWriteOnce(call) == "sleep 10"

\* Both handlers start by writing their response; "/" sleeps and writes a
\* second time from the string it built before it set the body to "End".
AfterWrite(call) ==
    IF call = "write" /\ called = RootPattern THEN "sleep" ELSE "sleep 10"

WriteResponse(call) ==
    /\ pc = call
    /\ ~HasReset(fd[Stream])
    /\ pc' = AfterWrite(call)
    /\ copies' = copies + 1
    /\ UNCHANGED <<hvars, network, accepted, asks, req, called>>

\* ECONNRESET fails the assertion, EPIPE raises SIGPIPE first.
WriteFails(call) ==
    /\ pc = call
    /\ HasReset(fd[Stream])
    /\ AssertFails \/ Die("killed")

Sleep(call, next) ==
    /\ pc = call
    /\ GoTo(next)
    /\ UNCHANGED <<hvars, network>>

DestroyStream ==
    /\ pc = "destroy"
    /\ Destroy(Stream)
    /\ HangUp(fd[Stream])
    /\ pc' = "accept"
    /\ accepted' = NoFd
    /\ req' = EmptyHttp
    /\ called' = <<>>
    /\ copies' = 0
    /\ UNCHANGED asks

-----------------------------------------------------------------------------

Start  == ConstructServer \/ OpenServer \/ SetServerTimeout \/ BindServer
            \/ ListenServer
Take   == AcceptClient \/ AcceptFails \/ ConstructStream \/ GiveDescriptor
Answer == ReadRequest \/ ReadFails \/ ParseRequest \/ MatchRequest
Write  == \E call \in {"write", "write again"} :
             WriteResponse(call) \/ WriteFails(call)
Sleeps == Sleep("sleep", "write again") \/ Sleep("sleep 10", "destroy")

Program == Start \/ Take \/ Answer \/ Write \/ Sleeps \/ DestroyStream

Dead == pc \in {"aborted", "killed", "crashed"}

Clients == ClientStep /\ ~Dead /\ UNCHANGED <<hvars, program>>

Over == Dead /\ UNCHANGED vars

Next == Program \/ Clients \/ Over

\* One thread; a call that can return does.
Spec == Init /\ [][Next]_vars /\ WF_vars(Program)

-----------------------------------------------------------------------------
(* Properties *)

\* The program uses its sockets as DisciplinedSpec demands: it never closes
\* what is not its own and, dead or alive, never loses a descriptor.
UsesSocketsWell == DisciplinedSpec

\* What is written goes to the client whose connection was accepted last,
\* and to it alone.
WritesToItsClient ==
    pc \in {"read", "parse", "match", "write", "sleep", "write again"}
      => /\ fd[Stream] = accepted
         /\ IsConnection(accepted)
         /\ \A f \in Fd : peer[f] # Nobody => f = accepted

\* A client that is let go of while the program lives has been written the
\* response twice, as the handler for "/" does: none is cut off between the
\* two.  What is written the second time is the first response again.
NobodyIsCutOff ==
    [][ Served # Nobody /\ Served' = Nobody /\ ~Dead'
           => copies = 2 ]_vars

\* Every request, whatever its target, is answered by the handler for "/".
OnlyRootAnswers == called \in {<<>>, RootPattern}

\* While it lives the program is a sequential service, and it may die.
Service == INSTANCE SequentialService WITH
    up      <- listening # NoFd,
    able    <- TRUE,
    queue   <- queue,
    serving <- Served

IsMortalService == Service!MortalSpec

\* The assertion of main.cpp:196 says that the request can be read; it is to
\* hold at least for a client that is still connected.
ReadSucceeds ==
    [][pc = "read" /\ left[peer[accepted]] = "no" => ~Dead']_vars

\* main.cpp:198 says that the message is parsed into req.
RequestIsParsed ==
    pc = "match" /\ HasData(accepted)
      => req = ParseHttp(asks[peer[accepted]]).http
=============================================================================
