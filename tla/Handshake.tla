----------------------------- MODULE Handshake -----------------------------
(***************************************************************************)
(* handle_connection: the request that asks for a websocket, its answer,   *)
(* and the websocket that reads the rest of the connection.                *)
(*                                                                         *)
(* The request and the frames arrive on one stream.  One recv takes what   *)
(* has arrived and fits into its buffer, which may be less than the        *)
(* request and, if the client does not wait for the answer, more: the      *)
(* websocket goes on where that recv has stopped, be it a frame's first    *)
(* byte or not.                                                            *)
(*                                                                         *)
(* In "free" the class websocket has any other user, who calls read() when *)
(* it pleases on a stream that starts with a frame.                        *)
(***************************************************************************)
EXTENDS WebSocketReader, HttpMessages

CONSTANTS
    RequestLine,     \* the first line of the client's request
    RequestHeaders,  \* its headers, each <<key, value>>
    Cuts,            \* lengths of the request that a recv may find
    Rooms,           \* sizes of the buffer, counted as the request is: it is
                     \* the request that varies beside a buffer of 1024 bytes
    Sends            \* the streams its client may send behind it

KeyName == <<"Sec-WebSocket-Key">>

Request == MessageText(RequestLine, RequestHeaders, <<>>, FALSE)
Key     == HeaderOf([headers |-> Meaning(RequestHeaders)], KeyName)

ASSUME HandshakeAssumption ==
    /\ IsLine(RequestLine)
    /\ IsHeaderList(RequestHeaders)
    /\ Cuts \subseteq 1 .. (Len(Request) - 1)
    /\ Rooms # {} /\ Rooms \subseteq Nat \ {0}
    /\ Key # <<>>
    /\ Sends \subseteq Streams

VARIABLES
    at,        \* where handle_connection is; "free" when it is not the user
    room,      \* the size of the buffer
    arrived,   \* tokens of the request that have arrived
    answers    \* the answers sent: the key and the accept value

handler == <<at, room, arrived, answers>>
hvars   == <<vars, handler>>

HandshakeInit ==
    /\ Init
    /\ \/ at = "free" /\ room = CHOOSE size \in Rooms : TRUE
       \/ at = "recv" /\ room \in Rooms /\ frames \in Sends
    /\ arrived = 0
    /\ answers = <<>>

-----------------------------------------------------------------------------
(* The client: the bytes of a frame come behind the whole request.  A close *)
(* that was answered turns into a reset.                                    *)

RequestArrives ==
    /\ at = "recv"
    /\ ended = "no"
    /\ arrived' \in {n \in Cuts \union {Len(Request)} : n > arrived}
    /\ UNCHANGED <<vars, at, room, answers>>

FramesArrive ==
    /\ at = "recv" => arrived = Len(Request)
    /\ Deliver
    /\ UNCHANGED handler

StreamEnds == \E how \in {"closed", "reset"} : End(how) /\ UNCHANGED handler

LateReset ==
    /\ at \in {"read", "reading"}
    /\ ended = "closed"
    /\ ended' = "reset"
    /\ UNCHANGED <<frames, lead, delivered, pc, got, frame, message, result, reads, from, handler>>

-----------------------------------------------------------------------------
(* handle_connection *)

\* What has arrived, or what fits of it.
ToTake == IF arrived + delivered <= room THEN arrived + delivered ELSE room

\* What is left of the request is in front of the frames; what was taken of
\* the frames is missing.
RecvRequest ==
    /\ at = "recv"
    /\ arrived > 0
    /\ lead' = Len(Request) - ToTake
    /\ delivered' = arrived + delivered - ToTake
    /\ at' = "parse"
    /\ UNCHANGED <<frames, ended, pc, got, frame, message, result, reads, from,
                   room, arrived, answers>>

\* It returns, and the descriptor stays open.
RecvNothing ==
    /\ at = "recv"
    /\ arrived = 0
    /\ ended # "no"
    /\ at' = "done"
    /\ UNCHANGED <<vars, room, arrived, answers>>

\* buf: what was taken of the request, perhaps bytes of frames, and zeros in
\* what is left of it.
Held == IF lead > 0 THEN Len(Request) - lead ELSE Len(Request)

Text(n, more, full) ==
    SubSeq(Request, 1, n) \o (IF more THEN <<"frames">> ELSE <<>>)
      \o (IF full THEN <<>> ELSE <<"NUL">>)

Parsed == ParseHttp(Text(Held, lead < 0, Len(Request) - lead = room))

ParseFails ==
    /\ at = "parse"
    /\ Parsed.err # "NO_ERROR"
    /\ at' = "done"
    /\ UNCHANGED <<vars, room, arrived, answers>>

ParseRequest ==
    /\ at = "parse"
    /\ Parsed.err = "NO_ERROR"
    /\ at' = "answer"
    /\ UNCHANGED <<vars, room, arrived, answers>>

\* sha1 and base64_encode: different texts have different digests; each may
\* fail, and what it returns is then empty.
Digests(plain) == {<<>>, <<"sha1">> \o plain}
Encoded(plain) == IF plain = <<>> THEN {<<>>} ELSE {<<>>, <<"base64">> \o plain}

AcceptsOf(key) == UNION {Encoded(digest) : digest \in Digests(key \o <<"258EAFA5">>)}

\* create_websocket_handshake_response
Responses(http) ==
    LET key == HeaderOf(http, KeyName)
    IN  {[key |-> key, accept |-> accept] : accept \in AcceptsOf(key)}

SendAnswer ==
    /\ at = "answer"
    /\ ended # "reset"
    /\ \E response \in Responses(Parsed.http) : answers' = Append(answers, response)
    /\ at' = "read"
    /\ UNCHANGED <<vars, room, arrived>>

\* The assertion that the answer was sent, or the signal of send.
AnswerFails ==
    /\ at = "answer"
    /\ ended = "reset"
    /\ at' = "dead"
    /\ UNCHANGED <<vars, room, arrived, answers>>

ReadMessage ==
    /\ at = "read"
    /\ BeginRead
    /\ at' = "reading"
    /\ UNCHANGED <<room, arrived, answers>>

\* Only a socket_exception is caught.
Finish ==
    /\ at = "reading"
    /\ pc = "idle"
    /\ at' = IF result = "too long" THEN "dead" ELSE "done"
    /\ UNCHANGED <<vars, room, arrived, answers>>

Handle == RecvRequest \/ RecvNothing \/ ParseFails \/ ParseRequest
            \/ SendAnswer \/ AnswerFails \/ ReadMessage \/ Finish

-----------------------------------------------------------------------------

Reads  == Reader /\ UNCHANGED handler
Anyone == at = "free" /\ Next /\ UNCHANGED handler
Client == at # "free" /\ (RequestArrives \/ FramesArrive \/ StreamEnds \/ LateReset)

HandshakeNext == Anyone \/ Client \/ Handle \/ Reads

\* handle_connection has no step of its own: it has returned, its recv or
\* read() has not, or somebody else is the user.
Waits ==
    \/ at \in {"free", "done", "dead"}
    \/ at = "recv" /\ arrived = 0 /\ ended = "no"
    \/ at = "reading" /\ pc # "idle"

\* The thread runs whenever its recv can return; the client may be silent
\* for ever.  The second line is WF_hvars(Handle) with ~Waits for what
\* enables Handle, since that takes TLC a parse of the request per state.
HandshakeSpec ==
    /\ HandshakeInit /\ [][HandshakeNext]_hvars
    /\ []<>Waits \/ []<><<Handle>>_hvars
    /\ WF_hvars(Reads)

-----------------------------------------------------------------------------
(* Properties *)

\* However TCP or the buffer cuts the request, what is answered is the
\* client's key, whole and with the accept value made from it, or no key.  It
\* is the key exactly when the whole request was taken and the buffer is
\* longer: of a request that fills it to its last byte the parser trims the
\* line ends away, and the headers are lost though the websocket finds nothing
\* of the request in its stream.
KeyIsWhole ==
    \A i \in DOMAIN answers : LET answer == answers[i] IN
        /\ answer.key = IF lead <= 0 /\ Len(Request) < room THEN Key ELSE <<>>
        /\ answer.accept \in {<<>>, <<"base64", "sha1">> \o answer.key \o <<"258EAFA5">>}

\* Once the stream has ended, whoever waits on it returns: neither
\* handle_connection nor read() waits for the rest of a request or a frame,
\* or takes what is in its memory for ever new frames.
Busy == pc # "idle" \/ at \notin {"free", "done", "dead"}

EndIsNoticed == (Busy /\ ended # "no") ~> ~Busy
=============================================================================
