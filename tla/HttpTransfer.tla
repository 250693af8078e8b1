---------------------------- MODULE HttpTransfer ----------------------------
(***************************************************************************)
(* One HTTP message on its way into the fixed buffer it is parsed from.    *)
(*                                                                         *)
(* read_http calls recv once and then parses the whole buffer, whatever    *)
(* part of the message has arrived; what has not arrived is NUL.  TCP      *)
(* chooses the part, so what is said here is said of every prefix.         *)
(***************************************************************************)
EXTENDS HttpMessages, SequencesExt

CONSTANTS
    StatusLines,    \* first lines of requests
    Statuses,       \* what follows the code on the first line of a response
    HeaderLists,    \* sequences of <<key, value>>, as written by the peer
    Bodies,         \* bodies without an empty line in or at the end of them
    Capacities      \* sizes of the receive buffer

ASSUME TransferAssumption ==
    /\ \A line \in StatusLines \union Statuses : IsLine(line)
    /\ \A list \in HeaderLists : IsHeaderList(list)
    /\ \A body \in Bodies : IsBody(body)
    /\ Capacities \subseteq Nat

VARIABLES
    sent,       \* the message: its text, and its headers and its body
    capacity,   \* size of the buffer
    received    \* tokens received so far

transfer == <<sent, capacity, received>>

-----------------------------------------------------------------------------
(* Messages *)

RequestOf(line, list, body, closed) ==
    [text    |-> MessageText(line, list, body, closed),
     headers |-> Meaning(list),
     body    |-> IF closed THEN body ELSE <<>>,
     sound   |-> SoundLine(line) /\ SoundList(list)]

\* The headers of a response: with a body comes its length, whatever the
\* program has set.
ContentLength == <<"Content-Length">>

WithLength(headers) ==
    [name \in DOMAIN headers \union {ContentLength} |->
        IF name = ContentLength THEN <<"length">> ELSE headers[name]]

\* The status is one word, or none.
OneWord(status) == \A i \in DOMAIN status : status[i] # "SP"

\* A response as the program itself writes it, its headers in some order.
ResponsesOf(status, list, body) ==
    LET headers == Meaning(list)
        http    == [EmptyHttp EXCEPT !.headers = headers, !.body = body]
    IN  {[text    |-> Stringify(http, "200", status, order),
          headers |-> IF body = <<>> THEN headers ELSE WithLength(headers),
          body    |-> body,
          sound   |-> OneWord(status) /\ <<>> \notin DOMAIN headers]
            : order \in SetToSeqs(DOMAIN headers)}

TransferInit ==
    /\ capacity \in Capacities
    /\ received = 0
    /\ \E list \in HeaderLists, body \in Bodies :
          \/ \E line \in StatusLines, closed \in BOOLEAN :
                sent = RequestOf(line, list, body, closed)
          \/ \E status \in Statuses : sent \in ResponsesOf(status, list, body)

\* One more token of the message is in the buffer when recv returns.
TokenArrives ==
    /\ received < Len(sent.text)
    /\ received < capacity
    /\ received' = received + 1
    /\ UNCHANGED <<sent, capacity>>

TransferNext == TokenArrives

TransferSpec == TransferInit /\ [][TransferNext]_transfer

-----------------------------------------------------------------------------
(* What the parser makes of the buffer *)

\* byte_buffer::string returns all of the buffer, also what is still zero.
Buffer(n) == [i \in 1 .. capacity |-> IF i <= n THEN sent.text[i] ELSE "NUL"]

Outcome == ParseHttp(Buffer(received))
View    == Outcome.http

Accepted == Outcome.err = "NO_ERROR"
Complete == received = Len(sent.text) /\ received < capacity
HasHeaders == DOMAIN sent.headers # {}

\* A message that has headers is accepted with all of them or with none, and
\* with all of its body or none: no cut by TCP or by the end of the buffer
\* makes the parser see some.
AllOrNothing ==
    HasHeaders /\ Accepted => /\ View.headers \in {NoHeaders, sent.headers}
                              /\ View.body \in {<<>>, sent.body}

\* A message that has headers and leaves room in the buffer for one NUL is
\* accepted and understood when it is there, if its lines are sound.  So does
\* the parser read what stringify writes, with a status of one word at most:
\* another one, such as the "Switching Protocols" of the handshake, makes a
\* first line the parser rejects.
CompleteIsUnderstood ==
    Complete /\ HasHeaders /\ sent.sound
       => Accepted /\ View.headers = sent.headers /\ View.body = sent.body

\* Everything the parser made of a shorter part of the message is still
\* there; a target, a header or a body once seen stays the same.
Extends(less, more) ==
    less.err = "NO_ERROR" /\ more.err = "NO_ERROR"
      => /\ more.http.url = less.http.url
         /\ more.http.method = less.http.method
         /\ less.http.headers # NoHeaders => more.http.headers = less.http.headers
         /\ less.http.body # <<>> => more.http.body = less.http.body

\* While the buffer has room, one more token of the message never takes back
\* what the parser saw without it.
NothingIsRetracted ==
    HasHeaders /\ 0 < received /\ received < capacity
      => Extends(ParseHttp(Buffer(received - 1)), Outcome)
=============================================================================
