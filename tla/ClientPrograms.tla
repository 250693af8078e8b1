--------------------------- MODULE ClientPrograms ---------------------------
(***************************************************************************)
(* The programs that are clients: pdf_request and google_request of        *)
(* examples.h, which differ in what they ask for, github_test and          *)
(* yew_test_test.  Each makes one socket, connects it, and                 *)
(*   "request" sends a request and reads the reply with a buffer,          *)
(*   "github"  listens, which a connected socket refuses, and gives up,    *)
(*   "yew"     sends a message.                                            *)
(*                                                                         *)
(* The server sends a reply in pieces of any size, or a part of it, and    *)
(* may be silent for ever.  A byte is a number; 0 is NUL.                  *)
(***************************************************************************)
EXTENDS SocketHandles, Sequences

CONSTANTS
    Client,         \* the socket object
    Replies,        \* what a server may send
    BufSize,        \* recv_buf_size: 512
    MaxIterations,  \* 1000
    ReadTimeout     \* the timeout of the requests: 5000

ASSUME ClientAssumption ==
    /\ Sock = {Client}
    /\ Replies \subseteq Seq(Nat)
    /\ BufSize \in Nat \ {0}
    /\ MaxIterations \in Nat
    /\ ReadTimeout \in Timeouts \ {0}

VARIABLES
    program,     \* which of them
    asserts,     \* built with assertions: assert() evaluates its argument
    pc,          \* the next call of the program
    reply,       \* what the server sends
    arrived,     \* bytes of it that have arrived
    ended,       \* how the server ended the connection, "no" while it is open
    got,         \* bytes of it that were received
    buf,         \* recv_buf
    received,    \* received_message
    iterations

server == <<reply, arrived, ended>>
reader == <<got, buf, received, iterations>>
vars   == <<hvars, program, asserts, pc, server, reader>>

Ended == {"returned", "aborted", "killed", "threw"}

Init ==
    /\ HandlesInit
    /\ program \in {"request", "github", "yew"}
    /\ asserts \in BOOLEAN
    /\ pc = "construct"
    /\ reply \in Replies
    /\ arrived = 0
    /\ ended = "no"
    /\ got = 0
    /\ buf = [k \in 1 .. (BufSize + 1) |-> 0]
    /\ received = <<>>
    /\ iterations = 0

GoTo(call) == pc' = call /\ UNCHANGED <<program, asserts>>

-----------------------------------------------------------------------------
(* The server, once it is connected *)

Connected == pc \in {"load", "send", "recv", "listen", "send message"}

ServerSends ==
    /\ Connected
    /\ ended = "no"
    /\ arrived < Len(reply)
    /\ arrived' \in (arrived + 1) .. Len(reply)
    /\ UNCHANGED <<hvars, program, asserts, pc, reply, ended, reader>>

ServerEnds ==
    /\ Connected
    /\ ended = "no"
    /\ ended' \in {"closed", "reset"}
    /\ UNCHANGED <<hvars, program, asserts, pc, reply, arrived, reader>>

Server == ServerSends \/ ServerEnds

-----------------------------------------------------------------------------
(* Making the socket *)

ConstructSocket ==
    /\ pc = "construct"
    /\ program = "request"
    /\ Construct(Client, "inet")
    /\ GoTo("open")
    /\ UNCHANGED <<server, reader>>

\* open() is called in an assertion: not at all without assertions, and with
\* them descriptor 0 is refused.
OpenSocket ==
    /\ pc = "open"
    /\ \/ asserts /\ Open(Client) /\ GoTo(IF fd'[Client] > 0 THEN "set_timeout" ELSE "aborted")
       \/ ~asserts /\ GoTo("set_timeout") /\ UNCHANGED hvars
    /\ UNCHANGED <<server, reader>>

\* The variant that leaves the socket without a timeout.
SetSocketTimeoutNever ==
    /\ pc = "set_timeout"
    /\ GoTo(IF fd[Client] \in open THEN "connect" ELSE "aborted")
    /\ UNCHANGED <<hvars, server, reader>>

\* assert_perr, which is a function, ends the program that has no socket.
SetSocketTimeout ==
    /\ pc = "set_timeout"
    /\ SetTimeout(Client, ReadTimeout)
    /\ GoTo(IF fd[Client] \in open THEN "connect" ELSE "aborted")
    /\ UNCHANGED <<server, reader>>

MakeClient ==
    /\ pc = "construct"
    /\ program # "request"
    /\ NewClient(Client)
    /\ GoTo("allow")
    /\ UNCHANGED <<server, reader>>

\* Nobody catches the exception of new_client.
MakeClientThrows ==
    /\ pc = "construct"
    /\ program # "request"
    /\ GoTo("threw")
    /\ UNCHANGED <<hvars, server, reader>>

AllowFamilies ==
    /\ pc = "allow"
    /\ SetAllow(Client, TRUE)
    /\ GoTo("connect")
    /\ UNCHANGED <<server, reader>>

\* An address is of use to a descriptor of its family only.  No host, or
\* nobody there, or a switch of the family that the descriptor does not
\* follow: the program returns.
ConnectSocket ==
    /\ pc = "connect"
    /\ \E R \in SUBSET Family :
         /\ Connect(Client, R)
         /\ \/ /\ family'[Client] \in R
               /\ kfam[fd[Client]] = family'[Client]
               /\ GoTo(CASE program = "request" -> "load"
                         [] program = "github" -> "listen"
                         [] program = "yew" -> "send message")
            \/ GoTo("return")
    /\ UNCHANGED <<server, reader>>

-----------------------------------------------------------------------------
(* Using it *)

\* The file with the request is opened in an assertion too.
LoadRequest ==
    /\ pc = "load"
    /\ GoTo("send") \/ GoTo("aborted")
    /\ UNCHANGED <<hvars, server, reader>>

\* ::send without MSG_NOSIGNAL.  The program returns when nothing was sent: an
\* empty file, or one that could not be mapped, which open() does not notice.
SendRequest ==
    /\ pc = "send"
    /\ \/ GoTo("return")
       \/ ended = "reset" /\ GoTo("killed")
       \/ ended # "reset" /\ GoTo("recv")
    /\ UNCHANGED <<hvars, server, reader>>

\* recv of the next k bytes of the reply into the buffer.
Filled(k) == [i \in DOMAIN buf |-> IF i <= k THEN reply[got + i] ELSE buf[i]]

\* The text of a buffer, up to its first NUL.
CString(bytes) ==
    LET nul == CHOOSE i \in DOMAIN bytes : bytes[i] = 0 /\ \A j \in 1 .. (i - 1) : bytes[j] # 0
    IN  SubSeq(bytes, 1, nul - 1)

AtMost(n, m) == IF n < m THEN n ELSE m

\* The variant that keeps the last piece only.
KeepLast(text) == text

Keep(text) == received \o text

\* One recv takes what has arrived and fits.  Behind it the buffer has what
\* longer pieces left there; its last byte is never written.
RecvPiece ==
    /\ pc = "recv"
    /\ got < arrived
    /\ LET n == AtMost(BufSize, arrived - got)
       IN  /\ buf' = Filled(n)
           /\ got' = got + n
    /\ received' = Keep(CString(buf'))
    /\ iterations' = iterations + 1
    /\ GoTo(IF iterations < MaxIterations THEN "recv" ELSE "return")
    /\ UNCHANGED <<hvars, server>>

\* The end of the stream, its error, or the timeout.
RecvStops ==
    /\ pc = "recv"
    /\ got = arrived
    /\ ended # "no" \/ ktmo[fd[Client]] # Forever
    /\ GoTo("return")
    /\ UNCHANGED <<hvars, server, reader>>

\* A socket that is connected cannot listen; the rest of github_test is not
\* reached.
ListenFails ==
    /\ pc = "listen"
    /\ GoTo("return")
    /\ UNCHANGED <<hvars, server, reader>>

SendMessage ==
    /\ pc = "send message"
    /\ IF ended = "reset" THEN GoTo("aborted") ELSE GoTo("return")
    /\ UNCHANGED <<hvars, server, reader>>

Return ==
    /\ pc = "return"
    /\ Destroy(Client)
    /\ GoTo("returned")
    /\ UNCHANGED <<server, reader>>

-----------------------------------------------------------------------------

Makes == ConstructSocket \/ OpenSocket \/ SetSocketTimeout \/ MakeClient
           \/ MakeClientThrows \/ AllowFamilies \/ ConnectSocket
Uses  == LoadRequest \/ SendRequest \/ RecvPiece \/ RecvStops \/ ListenFails
           \/ SendMessage \/ Return

Program == Makes \/ Uses

Over == pc \in Ended /\ UNCHANGED vars

Next == Program \/ Server \/ Over

\* The program makes its next call when it can; the server does what it
\* likes.
Spec == Init /\ [][Next]_vars /\ WF_vars(Program)

-----------------------------------------------------------------------------
(* Properties *)

\* a is what is left of b when bytes are taken out.
IsWithin(a, b) ==
    \E place \in [DOMAIN a -> DOMAIN b] :
       /\ \A i \in DOMAIN a : b[place[i]] = a[i]
       /\ \A i, j \in DOMAIN a : i < j => place[i] < place[j]

IsText(bytes) == \A i \in DOMAIN bytes : bytes[i] # 0

\* However the server cuts it, all of a reply without NULs that was received
\* is in the message, in order.  The message may be longer: behind a piece
\* it repeats what the buffer has of a longer one before.
NothingIsMissed ==
    IsText(reply) => IsWithin(SubSeq(reply, 1, got), received)

\* A client that returned, or whose socket could not be made, has nothing
\* left open.
NothingLeftOpen == pc \in {"returned", "threw"} => open = {}

\* Every client comes to its end, however silent its server is, and nothing
\* is left open when it has returned.
EndsWithNothingOpen == <>(pc \in Ended /\ NothingLeftOpen)
=============================================================================
