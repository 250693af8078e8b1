---------------------------- MODULE HttpMessages ----------------------------
(***************************************************************************)
(* The messages a peer sends: their text, and what their headers mean.     *)
(***************************************************************************)
EXTENDS HttpParser

LineEnds == {"CR", "LF"}

IsLine(text) == text \in Seq(STRING) /\ \A i \in DOMAIN text : text[i] \notin LineEnds

\* Headers are <<key, value>>; of the two only a value may have a colon.
IsHeader(header) ==
    /\ IsLine(header[1]) /\ \A i \in DOMAIN header[1] : header[1][i] # "COLON"
    /\ IsLine(header[2])

IsHeaderList(list) ==
    /\ list \in Seq(Seq(STRING) \X Seq(STRING))
    /\ \A n \in DOMAIN list : IsHeader(list[n])

\* A body has no empty line in it or at its end.
IsBody(body) ==
    /\ body \in Seq(STRING)
    /\ Find(body \o CRLF \o CRLF, CRLF \o CRLF, 1) = Len(body) + 1

\* Peers differ in whether an empty line follows the body.
MessageText(line, list, body, closed) ==
    line \o CRLF \o HeaderBlock(list) \o CRLF \o body
      \o IF closed THEN CRLF \o CRLF ELSE <<>>

Trimmed(text) == TrimAny(text, {"SP"})

Names(list) == {HeaderName(Trimmed(list[n][1])) : n \in DOMAIN list}

\* The headers of a list: of two with one name, the later one counts.
Meaning(list) ==
    [name \in Names(list) |->
        LET last == CHOOSE n \in DOMAIN list :
                      /\ HeaderName(Trimmed(list[n][1])) = name
                      /\ \A k \in (n + 1) .. Len(list) :
                            HeaderName(Trimmed(list[k][1])) # name
        IN  Trimmed(list[last][2])]

\* No header has an empty name or an empty value: a blank one is trimmed to
\* an empty one later, and accepted.
SoundList(list) == \A n \in DOMAIN list : list[n][1] # <<>> /\ list[n][2] # <<>>

\* A first line of a request with a method, a target and a word for the protocol.
SoundLine(line) ==
    /\ Len(line) = 5 /\ line[1] \in Methods
    /\ {i \in DOMAIN line : line[i] = "SP"} = {2, 4}
=============================================================================
