--------------------------- MODULE WebSocketClient ---------------------------
(***************************************************************************)
(* The add-on's WebSocket client: the opening handshake and the receipt of   *)
(* text messages.  The stream is a sequence of units of two bytes.  A unit's *)
(* reading as a frame header is all that is kept of it: the client knows a   *)
(* header from a payload only by its place in the stream.  The server never  *)
(* masks.  A 64-bit length is read as a 16-bit one is, in four units.        *)
(***************************************************************************)
EXTENDS Integers, SequencesExt

CONSTANTS
    Bodies,     \* bound: the payloads of the text frames the server sends
    Controls,   \* bound: the other frames it sends, [op, body]
    Short,      \* the longest payload whose length fits in the header (125)
    MaxPayload, \* kMaxFramePayload
    MaxFrames   \* bound: the frames sent on all connections

Wide == 126

Unit == [fin : BOOLEAN, op : {"text", "cont", "ping", "pong", "close", "other"},
         len : Nat]

ASSUME BodiesAssumption == Bodies \subseteq Seq(Unit)
ASSUME ControlsAssumption ==
    Controls \subseteq [op : {"ping", "pong", "close", "other"}, body : Seq(Unit)]
ASSUME ShortAssumption == Short \in 0..(Wide - 1)
ASSUME BoundAssumption == MaxPayload \in Nat /\ MaxFrames \in Nat

VARIABLES
    link,      \* the TCP connection: "none", "up", "closed" by the peer
    wire,      \* what was sent and not yet received
    recv, pos, \* m_recvBuffer, m_recvPos
    pc,        \* where Connect or ReceiveTextMessage is
    head,      \* the header of the frame being read
    assembled, \* the fragments of the message being read
    result,    \* what ReceiveTextMessage returned
    message,   \* ... and the message, if it is 1
    open, partial, \* the server is between the fragments of a message, and those
    frames,        \* how many frames were sent
    sent, stream,  \* history: the messages and the units sent on this connection
    framed,        \* history: its frames, and where in these each one was sent
    taken,         \* history: how many units ReadExact has consumed
    torn           \* history: a call timed out having consumed part of a message

peer   == <<open, partial, frames, sent, stream, framed>>
buffer == <<recv, pos>>
call   == <<head, assembled, result, message>>
wsvars == <<link, wire, buffer, pc, call, peer, taken, torn>>

-----------------------------------------------------------------------------
(* The server.                                                             *)

NoUnit == [fin |-> FALSE, op |-> "other", len |-> 0]

\* the end of the HTTP response's headers
Blank == [fin |-> FALSE, op |-> "other", len |-> 13]

Header(fin, op, len) == [fin |-> fin, op |-> op, len |-> len]

Frame(fin, op, body) ==
    IF Len(body) <= Short
      THEN <<Header(fin, op, Len(body))>> \o body
      ELSE <<Header(fin, op, Wide), Header(FALSE, "other", Len(body))>> \o body

\* a frame, the units and messages before it and the fragments it goes on with
Sending(fin, op, body) ==
    [fin |-> fin, op |-> op, body |-> body,
     off |-> Len(stream), count |-> Len(sent), before |-> partial]

Emit(fin, op, body) ==
    /\ link = "up"
    /\ frames < MaxFrames
    /\ frames' = frames + 1
    /\ wire' = wire \o Frame(fin, op, body)
    /\ stream' = stream \o Frame(fin, op, body)
    /\ framed' = Append(framed, Sending(fin, op, body))
    /\ UNCHANGED <<link, buffer, pc, call, taken, torn>>

\* a message in one frame or in fragments
SendData(fin, body) ==
    /\ Emit(fin, IF open THEN "cont" ELSE "text", body)
    /\ open' = ~fin
    /\ partial' = IF fin THEN << >> ELSE partial \o body
    /\ sent' = IF fin THEN Append(sent, partial \o body) ELSE sent

\* control frames may come between the fragments of a message
SendControl(c) ==
    /\ Emit(TRUE, c.op, c.body)
    /\ UNCHANGED <<open, partial, sent>>

\* the connection ends, in order or not: what is in flight may be lost
PeerCloses ==
    /\ link = "up"
    /\ link' = "closed"
    /\ wire' \in {wire, << >>}
    /\ UNCHANGED <<buffer, pc, call, peer, taken, torn>>

Peer ==
    \/ \E body \in Bodies, fin \in BOOLEAN : SendData(fin, body)
    \/ \E c \in Controls : SendControl(c)
    \/ PeerCloses

-----------------------------------------------------------------------------
(* The buffer.                                                             *)

Available == Len(recv) - pos

\* what the step at pc waits for, in units
Wanted ==
    CASE pc \in {"hello", "header", "length"} -> 1
      [] pc = "payload" -> head.len
      [] OTHER -> 0

Waiting == Available < Wanted

\* Mutant of Rest: the position is not reset by the compaction.
Rest_KeepsPos(n) ==
    IF 2 * (pos + n) > Len(recv)
      THEN [recv |-> SubSeq(recv, pos + n + 1, Len(recv)), pos |-> pos + n]
      ELSE [recv |-> recv, pos |-> pos + n]

\* what n consumed units leave; the buffer is compacted once they dominate it
Rest(n) ==
    IF 2 * (pos + n) > Len(recv)
      THEN [recv |-> SubSeq(recv, pos + n + 1, Len(recv)), pos |-> 0]
      ELSE [recv |-> recv, pos |-> pos + n]

ReadExact(n) ==
    /\ ~Waiting
    /\ recv' = Rest(n).recv
    /\ pos' = Rest(n).pos
    /\ taken' = taken + n

\* ReceiveTextMessage returns r; Connect, having succeeded, returns 0
Return(r, m) ==
    /\ pc' = "returned"
    /\ result' = r
    /\ message' = m
    /\ head' = NoUnit
    /\ assembled' = << >>

\* Close
Disconnected ==
    /\ link' = "none"
    /\ wire' = << >> /\ recv' = << >> /\ pos' = 0
    /\ pc' = "closed"
    /\ head' = NoUnit /\ assembled' = << >> /\ result' = 0 /\ message' = << >>
    /\ open' = FALSE /\ partial' = << >> /\ UNCHANGED frames
    /\ sent' = << >> /\ stream' = << >> /\ framed' = << >>
    /\ taken' = 0 /\ torn' = FALSE

\* a socket that is readable gives any part of what has arrived
FillBuffer ==
    /\ Waiting
    /\ \E n \in 1..Len(wire) :
          /\ recv' = recv \o SubSeq(wire, 1, n)
          /\ wire' = SubSeq(wire, n + 1, Len(wire))
    /\ UNCHANGED <<link, pos, pc, call, peer, taken, torn>>

\* nothing more to come
FillFails ==
    /\ Waiting
    /\ link = "closed"
    /\ wire = << >>
    /\ IF pc = "hello"
         THEN Disconnected
         ELSE Return(-1, << >>) /\ UNCHANGED <<link, wire, buffer, peer, taken, torn>>

\* Mutant of TimedOut: the wait starts again.
TimedOut_Again == UNCHANGED wsvars

\* nothing has come for timeoutSeconds, whatever is on its way
TimedOut ==
    /\ Waiting
    /\ IF pc = "hello"
         THEN Disconnected
         ELSE /\ Return(0, << >>)
              /\ torn' = (torn \/ pc # "header" \/ assembled # << >>)
              /\ UNCHANGED <<link, wire, buffer, peer, taken>>

-----------------------------------------------------------------------------
(* Connect and ReceiveTextMessage.                                         *)

\* the TCP connection and the request; the server's answer is on its way
Connect ==
    /\ pc = "closed"
    /\ pc' = "hello"
    /\ link' = "up"
    /\ wire' = <<Blank>> /\ stream' = <<Blank>>
    /\ UNCHANGED <<buffer, call, open, partial, frames, sent, framed, taken, torn>>

\* Mutant of AfterHello: what came with the response is thrown away.
AfterHello_Dropped == Len(recv)

AfterHello == pos + 1

\* the headers are complete; the upgrade is accepted or not
Hello ==
    /\ pc = "hello"
    /\ ~Waiting
    /\ \/ /\ pos' = AfterHello
          /\ taken' = taken + 1
          /\ Return(0, << >>)
          /\ UNCHANGED <<link, wire, recv, peer, torn>>
       \/ Disconnected

TooLong(len) == len > MaxPayload \/ Len(assembled) + len > MaxPayload

\* the length is known: the frame is refused or its payload read
Sized(h) ==
    IF TooLong(h.len)
      THEN Return(-1, << >>)
      ELSE pc' = "payload" /\ head' = h /\ UNCHANGED <<assembled, result, message>>

ReadHeader ==
    /\ pc = "header"
    /\ ReadExact(1)
    /\ LET h == recv[pos + 1]
       IN  IF h.len = Wide
             THEN pc' = "length" /\ head' = h /\ UNCHANGED <<assembled, result, message>>
             ELSE Sized(h)
    /\ UNCHANGED <<link, wire, peer, torn>>

ReadLength ==
    /\ pc = "length"
    /\ ReadExact(1)
    /\ Sized(Header(head.fin, head.op, recv[pos + 1].len))
    /\ UNCHANGED <<link, wire, peer, torn>>

\* Mutant of Complete: a text frame is a message, FIN or not.
Complete_TextFrame(h) == h.fin \/ h.op = "text"

Complete(h) == h.fin

NextFrame ==
    /\ pc' = "header"
    /\ head' = NoUnit
    /\ UNCHANGED <<result, message>>

\* a control frame never touches what is assembled
Dispatch(body) ==
    CASE head.op = "ping" ->
            \/ NextFrame /\ UNCHANGED assembled
            \/ Return(-1, << >>)                     \* SendPong fails
      [] head.op = "close" -> Return(-1, << >>)
      [] head.op \in {"text", "cont"} ->
            IF Complete(head)
              THEN Return(1, assembled \o body)
              ELSE NextFrame /\ assembled' = assembled \o body
      [] OTHER -> NextFrame /\ UNCHANGED assembled

ReadPayload ==
    /\ pc = "payload"
    /\ ReadExact(head.len)
    /\ Dispatch(SubSeq(recv, pos + 1, pos + head.len))
    /\ UNCHANGED <<link, wire, peer, torn>>

\* the steps inside a call that need no more bytes
Parse == Hello \/ ReadHeader \/ ReadLength \/ ReadPayload

InitWs ==
    /\ link = "none" /\ wire = << >> /\ recv = << >> /\ pos = 0
    /\ pc = "closed"
    /\ head = NoUnit /\ assembled = << >> /\ result = 0 /\ message = << >>
    /\ open = FALSE /\ partial = << >> /\ frames = 0
    /\ sent = << >> /\ stream = << >> /\ framed = << >>
    /\ taken = 0 /\ torn = FALSE

=============================================================================
