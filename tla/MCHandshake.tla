---------------------------- MODULE MCHandshake ----------------------------
(* Streams for TLC: up to two frames of both forms the reader reads right,  *)
(* one with a payload longer than the mask, and an unmasked one; and        *)
(* streams that end with a frame of the form it loses its place in.  A      *)
(* request cut in its first line, in its key, and within the empty line.    *)
EXTENDS Handshake

MCFrame(fin, masked, form, n) ==
    [fin |-> fin, masked |-> masked, form |-> form, n |-> n]

MCKept ==
    {MCFrame(FALSE, TRUE,  "short",  2),
     MCFrame(TRUE,  TRUE,  "medium", 5),
     MCFrame(TRUE,  TRUE,  "short",  0),
     MCFrame(TRUE,  FALSE, "short",  2)}

MCLong ==
    {MCFrame(FALSE, TRUE, "long", 2), MCFrame(TRUE, FALSE, "long", 2)}

MCStreams ==
    BoundedSeq(MCKept, 2)
      \union {<<f>> : f \in MCLong}
      \union {<<MCFrame(FALSE, TRUE, "short", 2), f>> : f \in MCLong}

MCSends == {<<MCFrame(FALSE, TRUE, "short", 2)>>, <<MCFrame(TRUE, TRUE, "short", 0)>>}

MCRequestLine == <<"GET", "SP", "url", "SP", "HTTP/1.1">>

MCRequestHeaders == << << <<"Sec-WebSocket-Key">>, <<"k1", "k2">> >> >>

\* Buffers that end within the key, with the request, with the header of the
\* frame behind it, and behind all that is sent.
MCRooms == {10, 15, 17, 40}

\* "GET url", and all but the last "\n".
MCCuts == {3, 14}
=============================================================================
