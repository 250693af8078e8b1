----------------------------- MODULE HttpParser -----------------------------
(***************************************************************************)
(* http_parser and the message object http: parsing a buffer and writing a *)
(* message out.                                                            *)
(*                                                                         *)
(* A text is a sequence of tokens.  The delimiters the code looks for (CR, *)
(* LF, space, colon, and the NUL a buffer is filled up with) are tokens of *)
(* their own; every other token is a word without delimiters.              *)
(***************************************************************************)
EXTENDS Naturals, Sequences, FiniteSets, TextUtils

CRLF == <<"CR", "LF">>

Methods   == {"GET", "PUT", "POST", "DELETE", "UPDATE"}
Protocols == {"HTTP/1.0", "HTTP/1.1", "HTTP/2.0"}

\* Words that start like a protocol and name no known version.
BadProtocols == {"HTTP/9"}

\* Header names are compared in lower case.
Lower(word) == IF word = "Host" THEN "host"
               ELSE IF word = "Sec-WebSocket-Key" THEN "sec-websocket-key"
               ELSE word

HeaderName(text) == [i \in DOMAIN text |-> Lower(text[i])]

\* The variant that keeps the first value of a header.
SetHeaderOnce(headers, key, value) ==
    [name \in DOMAIN headers \union {HeaderName(key)} |->
        IF name \in DOMAIN headers THEN headers[name] ELSE value]

\* set_header
SetHeader(headers, key, value) ==
    [name \in DOMAIN headers \union {HeaderName(key)} |->
        IF name = HeaderName(key) THEN value ELSE headers[name]]

\* header: the empty value when there is no such header.
HeaderOf(http, key) ==
    LET name == HeaderName(key)
    IN  IF name \in DOMAIN http.headers THEN http.headers[name] ELSE <<>>

NoHeaders == [key \in {} |-> <<>>]

\* A default constructed http.
EmptyHttp == [method |-> "GET", url |-> <<>>, protocol |-> "HTTP/1.1",
              headers |-> NoHeaders, body |-> <<>>]

-----------------------------------------------------------------------------
(* Parsing.  A result is the error and the message filled in so far. *)

Result(err, http) == [err |-> err, http |-> http]

StartsWith(text, words) == text # <<>> /\ text[1] \in words

\* parse_protocol_and_version on the word it is given.
ParseProtocol(text, http) ==
    IF Len(text) = 1 /\ text[1] \in Protocols
       THEN Result("NO_ERROR", [http EXCEPT !.protocol = text[1]])
       ELSE Result("INVALID_PROTOCOL_VERSION", http)

\* parse_status_line: three pieces, which may be empty, between two spaces.
\* A response ends after its protocol; what is wrong with the protocol of a
\* request is ignored.
ParseStatusLine(line, http) ==
    LET spaces == {i \in DOMAIN line : line[i] = "SP"}
        first  == Find(line, <<"SP">>, 1)
        second == Find(line, <<"SP">>, first + 1)
        head   == SubSeq(line, 1, first - 1)
        asked  == [http EXCEPT !.method = head[1],
                               !.url = SubSeq(line, first + 1, second - 1)]
    IN  IF Cardinality(spaces) # 2
           THEN Result("MALFORMED_STATUS_LINE", http)
        ELSE IF StartsWith(head, Protocols \union BadProtocols)
           THEN ParseProtocol(head, http)
        ELSE IF ~StartsWith(head, Methods)
           THEN Result("INVALID_METHOD", http)
        ELSE Result("NO_ERROR",
                    ParseProtocol(SubSeq(line, second + 1, Len(line)), asked).http)

\* One line of parse_headers; the lines after an error are not read.
ParseHeaderLine(before, line) ==
    LET parts == SplitFirst(line, "COLON")
        key   == TrimAny(parts[1], {"SP"})
        value == TrimAny(parts[2], {"SP"})
    IN  IF before.err # "NO_ERROR" THEN before
        ELSE IF parts[1] = <<>> THEN Result("EMPTY_HEADER_KEY", before.http)
        ELSE IF parts[2] = <<>> THEN Result("EMPTY_HEADER_VALUE", before.http)
        ELSE Result("NO_ERROR",
                    [before.http EXCEPT !.headers = SetHeader(@, key, value)])

ParseHeaders(text, http) ==
    LET lines == Split(text, CRLF)
        after[n \in 0 .. Len(lines)] ==
          IF n = 0 THEN Result("NO_ERROR", http)
          ELSE ParseHeaderLine(after[n - 1], lines[n])
    IN  after[Len(lines)]

\* The text after the status line, without the line ends around it, is cut at
\* the empty lines: the first piece is the headers, the second the body, if
\* there is a piece after each of them.
Pieces(rest) == Split(TrimAny(rest, {"CR", "LF"}), CRLF \o CRLF)

\* Variants: reads headers before their end has arrived, or takes for the
\* body what no empty line ends.
ParseRestEarly(rest, http) ==
    LET parts  == Pieces(rest)
        header == ParseHeaders(parts[1], http)
    IN  IF Len(parts) < 1 THEN Result("NO_ERROR", http)
        ELSE IF header.err # "NO_ERROR" \/ Len(parts) < 3 THEN header
        ELSE [header EXCEPT !.http.body = parts[2]]

ParseRestOpenBody(rest, http) ==
    LET parts  == Pieces(rest)
        header == ParseHeaders(parts[1], http)
    IN  IF Len(parts) < 2 THEN Result("NO_ERROR", http)
        ELSE IF header.err # "NO_ERROR" THEN header
        ELSE [header EXCEPT !.http.body = parts[2]]

ParseRest(rest, http) ==
    LET parts  == Pieces(rest)
        header == ParseHeaders(parts[1], http)
    IN  IF Len(parts) < 2 THEN Result("NO_ERROR", http)
        ELSE IF header.err # "NO_ERROR" \/ Len(parts) < 3 THEN header
        ELSE [header EXCEPT !.http.body = parts[2]]

\* parse_http_string
ParseHttp(text) ==
    LET end    == Find(text, CRLF, 1)
        status == ParseStatusLine(SubSeq(text, 1, end - 1), EmptyHttp)
    IN  IF end = 0 THEN Result("MALFORMED_HTTP", EmptyHttp)
        ELSE IF status.err # "NO_ERROR" THEN status
        ELSE ParseRest(SubSeq(text, end, Len(text)), status.http)

-----------------------------------------------------------------------------
(* Writing *)

\* Headers, each <<key, value>>, on lines of their own.
HeaderBlock(list) ==
    LET block[n \in 0 .. Len(list)] ==
          IF n = 0 THEN <<>>
          ELSE block[n - 1] \o list[n][1] \o <<"COLON">> \o list[n][2] \o CRLF
    IN  block[Len(list)]

\* stringify writes a response.  The headers come out of a hash table, so
\* their order is any order: `order' lists the keys.
Stringify(http, code, status, order) ==
    <<http.protocol, "SP", code, "SP">> \o status \o CRLF
      \o HeaderBlock([i \in DOMAIN order |->
                        <<order[i], <<"SP">> \o http.headers[order[i]]>>])
      \o IF http.body = <<>> THEN CRLF
         ELSE <<"Content-Length", "COLON", "length">> \o CRLF \o CRLF
                \o http.body \o CRLF \o CRLF
=============================================================================
