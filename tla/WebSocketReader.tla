-------------------------- MODULE WebSocketReader --------------------------
(***************************************************************************)
(* websocket::read and read_frame on a stream that ends anywhere.          *)
(*                                                                         *)
(* The peer sends frames and ends the stream, after them or within one.    *)
(* The reader asks for two bytes, then for the extended length and the     *)
(* mask in one recv, then for the payload; a recv with MSG_WAITALL returns *)
(* fewer bytes than it was asked for only when the stream ends.            *)
(*                                                                         *)
(* A byte is a set of symbols and the exclusive or of two bytes is their   *)
(* symmetric difference: {} is zero, and a payload byte under a mask is a  *)
(* set of two symbols until the same mask byte is applied again.           *)
(***************************************************************************)
EXTENDS Integers, Sequences, SequencesExt

CONSTANTS
    Streams,   \* the sequences of frames a peer may send
    MaxReads   \* bound: calls of read()

\* Two bytes of a header announce `form': whether the length is in them or
\* in 2 or 8 further bytes.  Lengths are scaled down: any of them comes in
\* any form.
Forms == {"short", "medium", "long"}

ASSUME ReaderAssumption ==
    /\ Streams \subseteq Seq([fin : BOOLEAN, masked : BOOLEAN, form : Forms, n : Nat])
    /\ MaxReads \in Nat

VARIABLES
    frames,     \* the frames sent
    lead,       \* bytes in front of them that were left unread for the reader;
                \* negative, the number of their first bytes already read
    delivered,  \* bytes of all these that have arrived
    ended,      \* how the stream ended, "no" while it is open
    pc,         \* the next step of read(), "idle" when it is not running
    got,        \* bytes taken from the stream
    buf,        \* the local buffer of read_frame, while it is in use
    head,       \* what read_frame took for the header
    mask,       \* _frame.mask
    payload,    \* _frame.payload
    message,    \* _message
    result,     \* what the last read() came to
    reads,      \* calls of read()
    from        \* bytes taken before the last call of read()

stream == <<frames, lead, delivered, ended>>
frame  == <<buf, head, mask, payload>>
vars   == <<stream, pc, got, frame, message, result, reads, from>>

Lengths == UNION {{fs[i].n : i \in DOMAIN fs} : fs \in Streams}

\* A header as read_frame has it; the length is 0 until it is known.
Headers == [fin : BOOLEAN, masked : BOOLEAN, form : Forms, n : Lengths \union {0}]

-----------------------------------------------------------------------------
(* Bytes *)

Zero      == {}
Xor(a, b) == (a \ b) \union (b \ a)

\* Bytes of memory nobody has written to.
Junk(k) == {<<"junk", k>>}

Lead(k)    == {<<"lead", k>>}
First(i)   == {<<"first", i>>}
Second(i)  == {<<"second", i>>}
Ext(i, k)  == {<<"length", i, k>>}
Mask(i, k) == {<<"mask", i, k>>}
Data(i, k) == {<<"data", i, k>>}

IsText(byte) == \E k \in 1 .. lead : byte = Lead(k)

\* Bytes of the extended length as it is sent, and as read_frame counts it.
ExtSent(form) == CASE form = "short" -> 0 [] form = "medium" -> 2 [] form = "long" -> 8
ExtRead(form) == CASE form = "short" -> 0 [] form = "medium" -> 2 [] form = "long" -> 4

\* A frame on the wire: its bytes, and next to each the data it carries.
OnWire(i, f) ==
    LET byte(k) == IF f.masked THEN Xor(Data(i, k), Mask(i, ((k - 1) % 4) + 1))
                   ELSE Data(i, k)
        bare(b) == [byte |-> b, data |-> <<>>]
    IN  << bare(First(i)), bare(Second(i)) >>
          \o [k \in 1 .. ExtSent(f.form) |-> bare(Ext(i, k))]
          \o [k \in 1 .. (IF f.masked THEN 4 ELSE 0) |-> bare(Mask(i, k))]
          \o [k \in 1 .. f.n |-> [byte |-> byte(k), data |-> <<Data(i, k)>>]]

\* For every stream what its first i frames are on the wire, a function for
\* TLC to compute once.
WireOf == [fs \in Streams |-> [i \in 0 .. Len(fs) |->
             FlattenSeq([j \in 1 .. i |-> OnWire(j, fs[j])])]]

\* The stream: its length, and a place of it.
Sum       == lead + Len(WireOf[frames][Len(frames)])
Wire(k)   == IF k <= lead THEN [byte |-> Lead(k), data |-> <<>>]
             ELSE WireOf[frames][Len(frames)][k - lead]
EndsAt(i) == lead + Len(WireOf[frames][i])

\* The reader is given the stream where a frame starts.
InPlace == \E i \in 0 .. Len(frames) : EndsAt(i) = 0

Init ==
    /\ frames \in Streams
    /\ lead = 0
    /\ delivered = 0
    /\ ended = "no"
    /\ pc = "idle"
    /\ got = 0
    /\ buf = <<>>
    /\ head = [fin |-> FALSE, masked |-> FALSE, form |-> "short", n |-> 0]
    /\ mask = [k \in 1 .. 4 |-> Junk(k)]
    /\ payload = <<>>
    /\ message = <<>>
    /\ result = "none"
    /\ reads = 0
    /\ from = 0

-----------------------------------------------------------------------------
(* The peer *)

Deliver ==
    /\ ended = "no"
    /\ delivered < Sum
    /\ delivered' = delivered + 1
    /\ UNCHANGED <<frames, lead, ended, pc, got, frame, message, result, reads, from>>

End(how) ==
    /\ ended = "no"
    /\ ended' = how
    /\ UNCHANGED <<frames, lead, delivered, pc, got, frame, message, result, reads, from>>

-----------------------------------------------------------------------------
(* recv of n bytes with MSG_WAITALL: all of them, or what there is before    *)
(* the end; nothing after the end, or the error if the stream was reset.     *)

Left       == delivered - got
Refused    == Left = 0 /\ ended = "reset"
Returns(n) == Left >= n \/ ended # "no"
Status(n)  == IF Left >= n THEN n
              ELSE IF Refused THEN -1
              ELSE Left

Taken(n) == [k \in 1 .. Status(n) |-> Wire(got + k).byte]

Take(n) == got' = got + Status(n)

\* The bytes of `new' over the first ones of `old'.
Over(old, new) == [k \in DOMAIN old |-> IF k \in DOMAIN new THEN new[k] ELSE old[k]]

-----------------------------------------------------------------------------
(* read() *)

\* The variant that appends to the message of the call before.
BeginReadAppends ==
    /\ pc = "idle"
    /\ reads < MaxReads
    /\ reads' = reads + 1
    /\ from' = got
    /\ result' = "none"
    /\ pc' = "header"
    /\ UNCHANGED <<stream, got, frame, message>>

BeginRead ==
    /\ pc = "idle"
    /\ reads < MaxReads
    /\ reads' = reads + 1
    /\ from' = got
    /\ message' = <<>>
    /\ result' = "none"
    /\ pc' = "header"
    /\ UNCHANGED <<stream, got, frame>>

Return(r) ==
    /\ pc' = "idle"
    /\ result' = r

\* What becomes of a read whose recv is refused or finds the end.  The error
\* of a reset is told once.
RecvFails == Return("threw") /\ ended' = "closed" /\ UNCHANGED got
RecvEnds  == Return("failed") /\ UNCHANGED <<ended, got>>

\* What read_frame may take two bytes for: the header they are, and anything
\* when they are bytes of something else or nobody's.  The bytes in front of
\* the frames are text, ASCII above NUL and below DEL.
HeadersOf(bytes) ==
    {h \in Headers :
        /\ h.form # "short" => h.n = 0
        /\ h.form = "short" => h.n \in Lengths
        /\ IsText(bytes[1]) => ~h.fin
        /\ IsText(bytes[2]) => ~h.masked /\ h.form # "long" /\ (h.form = "short" => h.n > 0)
        /\ \A i \in DOMAIN frames :
            /\ bytes[1] = First(i) => h.fin = frames[i].fin
            /\ bytes[2] = Second(i) => /\ h.masked = frames[i].masked
                                       /\ h.form = frames[i].form
                                       /\ h.form = "short" => h.n = frames[i].n}

FreshBuffer == [k \in 1 .. 12 |-> Junk(k)]

\* recv has put what it returned into the buffer.
ReadHeader ==
    /\ buf' = Over(FreshBuffer, Taken(2))
    /\ head' \in HeadersOf(buf')
    /\ pc' = "extended"
    /\ UNCHANGED <<ended, result>>

\* The variant that does not look for the end of the stream.
HeaderUnchecked ==
    /\ pc = "header"
    /\ Returns(2)
    /\ \/ Status(2) < 0 /\ RecvFails /\ UNCHANGED <<buf, head>>
       \/ Status(2) >= 0 /\ Take(2) /\ ReadHeader
    /\ UNCHANGED <<frames, lead, delivered, mask, payload, message, reads, from>>

Header ==
    /\ pc = "header"
    /\ Returns(2)
    /\ \/ Status(2) < 0 /\ RecvFails /\ UNCHANGED <<buf, head>>
       \/ Status(2) = 0 /\ RecvEnds /\ UNCHANGED <<buf, head>>
       \/ Status(2) > 0 /\ Take(2) /\ ReadHeader
    /\ UNCHANGED <<frames, lead, delivered, mask, payload, message, reads, from>>

\* The extended length and the mask, if there is either.
Asked == ExtRead(head.form) + (IF head.masked THEN 4 ELSE 0)

Extended ==
    /\ pc = "extended"
    /\ Returns(Asked)
    /\ \/ Asked > 0 /\ Status(Asked) < 0 /\ RecvFails /\ buf' = <<>>
       \/ Asked > 0 /\ Status(Asked) = 0 /\ RecvEnds /\ buf' = <<>>
       \/ /\ Asked = 0 \/ Status(Asked) > 0
          /\ Take(Asked)
          /\ buf' = Over(buf, Taken(Asked))
          /\ pc' = "length"
          /\ UNCHANGED <<ended, result>>
    /\ UNCHANGED <<frames, lead, delivered, head, mask, payload, message, reads, from>>

\* The length of a longer frame is read from the first 2 or 8 bytes of the
\* buffer, the mask from behind the bytes that were counted as its length.
LengthsIn(b) ==
    IF head.form = "short" THEN {head.n}
    ELSE {n \in Lengths : \A i \in DOMAIN frames :
            /\ frames[i].form = head.form
            /\ \A k \in 1 .. ExtSent(head.form) : b[k] = Ext(i, k)
            => n = frames[i].n}

MaskIn(b) == [k \in 1 .. 4 |-> b[ExtRead(head.form) + k]]

\* payload.resize keeps the bytes of the frame before.
Resize(p, n) == [k \in 1 .. n |-> IF k \in DOMAIN p THEN p[k] ELSE Zero]

Length ==
    /\ pc = "length"
    /\ \E n \in LengthsIn(buf) :
         /\ head' = [head EXCEPT !.n = n]
         /\ payload' = Resize(payload, n)
    /\ mask' = MaskIn(buf)
    /\ buf' = <<>>
    /\ pc' = "payload"
    /\ UNCHANGED <<stream, got, message, result, reads, from>>

\* A long frame whose length was not all read may seem to have any length,
\* and resize throws.
LengthIsHuge ==
    /\ pc = "length"
    /\ head.form = "long"
    /\ \A i \in DOMAIN frames : \E k \in 1 .. 8 : buf[k] # Ext(i, k)
    /\ Return("too long")
    /\ buf' = <<>>
    /\ UNCHANGED <<stream, got, head, mask, payload, message, reads, from>>

\* That the stream ended before or within the payload goes unnoticed.  The
\* recv of a payload of no bytes waits and fails like any other.
Payload ==
    /\ pc = "payload"
    /\ Returns(head.n)
    /\ Left > 0 \/ ended # "no"
    /\ \/ Refused /\ RecvFails /\ UNCHANGED payload
       \/ /\ ~Refused
          /\ Take(head.n)
          /\ payload' = Over(payload, Taken(head.n))
          /\ pc' = "append"
          /\ UNCHANGED <<ended, result>>
    /\ UNCHANGED <<frames, lead, delivered, buf, head, mask, message, reads, from>>

\* The variant that starts with the second byte of the mask.
UnmaskShifted(p) == [k \in DOMAIN p |-> Xor(p[k], mask[(k % 4) + 1])]

\* apply_xormask
Unmask(p) == [k \in DOMAIN p |-> Xor(p[k], mask[((k - 1) % 4) + 1])]

\* The variant that goes on after the final frame.
AppendOn ==
    /\ pc = "append"
    /\ payload' = Unmask(payload)
    /\ message' = message \o payload'
    /\ pc' = "header"
    /\ UNCHANGED <<stream, got, buf, head, mask, result, reads, from>>

AppendPayload ==
    /\ pc = "append"
    /\ payload' = Unmask(payload)
    /\ message' = message \o payload'
    /\ IF head.fin THEN Return("ok") ELSE pc' = "header" /\ UNCHANGED result
    /\ UNCHANGED <<stream, got, buf, head, mask, reads, from>>

-----------------------------------------------------------------------------

Peer   == Deliver \/ \E how \in {"closed", "reset"} : End(how)
Reader == Header \/ Extended \/ Length \/ LengthIsHuge \/ Payload \/ AppendPayload

Next == Peer \/ BeginRead \/ Reader

-----------------------------------------------------------------------------
(* Properties *)

\* Frames of a form whose end the reader finds.
Framed == \A i \in DOMAIN frames : frames[i].form # "long"

\* The data between two places of the stream.
Sent(a, b) == FlattenSeq([k \in 1 .. (b - a) |-> Wire(a + k).data])

\* The first bytes of a message are this data, but for what a frame that was
\* not masked has suffered from the bytes taken for its mask.
Spoilt(byte) == \E i \in DOMAIN frames : \E k \in 1 .. frames[i].n :
                   byte = Data(i, k) /\ ~frames[i].masked

StartsAs(bytes, data) ==
    /\ Len(data) <= Len(bytes)
    /\ \A k \in DOMAIN data : bytes[k] = data[k] \/ Spoilt(data[k])

\* Wherever the stream ends, the data that did arrive is there, unmasked and
\* in order; what is behind it is not data of the peer.  The mask that an
\* unmasked frame is given spoils that frame and no other.
WhatArrivedIsThere ==
    Framed /\ InPlace /\ pc = "idle" => StartsAs(message, Sent(from, got))

\* A read that succeeds at the end of a frame has got exactly the message:
\* all frames up to the final one, none of the next message, nothing left of
\* the message of the call before.
MessageIsSent ==
    Framed /\ InPlace /\ result = "ok" /\ (\E i \in DOMAIN frames : got = EndsAt(i))
      => StartsAs(message, Sent(from, got)) /\ Len(message) = Len(Sent(from, got))

\* While the stream goes on, each successful read takes the frames of one
\* message: it stops behind a final frame, and behind the first one.
OneMessagePerRead ==
    Framed /\ InPlace /\ ended = "no" /\ pc # "idle"
      => \A i \in DOMAIN frames : frames[i].fin => ~(from < EndsAt(i) /\ EndsAt(i) < got)
=============================================================================
