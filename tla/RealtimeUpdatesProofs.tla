----------------------- MODULE RealtimeUpdatesProofs -----------------------
(***************************************************************************)
(* What the WebSocket client receives, for any payloads, any frames between  *)
(* them, any limits and any way the network cuts the stream up.             *)
(***************************************************************************)
EXTENDS RealtimeUpdates, SequenceTheorems, TLAPS

Ops == {"text", "cont", "ping", "pong", "close", "other"}

(* Frame i of the connection, and where the one after the last would begin: at *)
(* which unit, after which fragments of a message and after how many messages. *)
Places == 1..(Len(framed) + 1)

Off    == [i \in Places |-> IF i <= Len(framed) THEN framed[i].off ELSE Len(stream)]
Before == [i \in Places |-> IF i <= Len(framed) THEN framed[i].before ELSE partial]
Count  == [i \in Places |-> IF i <= Len(framed) THEN framed[i].count ELSE Len(sent)]

\* how many units the header of a frame takes
HeadLen(f) == IF Len(f.body) <= Short THEN 1 ELSE 2

\* where the thread is and where its calls are; a closed client holds nothing
Phases ==
    /\ thread \in {"token", "wait", "ended"} => pc = "closed"
    /\ thread = "connect" => pc \in {"closed", "hello", "returned"}
    /\ thread = "receive" => pc \in {"header", "length", "payload", "returned"}
    /\ thread # "receive" => got = << >> /\ ~torn
    /\ link = "none" <=> pc = "closed"
    /\ pc = "closed" => /\ stream = << >> /\ framed = << >> /\ sent = << >> /\ partial = << >>
                        /\ recv = << >> /\ pos = 0 /\ taken = 0
    /\ pc \in {"closed", "hello"} => taken = 0 /\ result = 0
    /\ pc \in {"closed", "hello", "returned"} => assembled = << >>
    /\ thread = "connect" => result = 0

\* the unread part of the buffer, then what is in flight, are what the server has sent
\* next, up to the last unit unless the connection has ended
InTransit ==
    link # "none" =>
        /\ taken + Available + Len(wire) <= Len(stream)
        /\ \A i \in 1..Available : recv[pos + i] = stream[taken + i]
        /\ \A i \in 1..Len(wire) : wire[i] = stream[taken + Available + i]
        /\ link = "up" => taken + Available + Len(wire) = Len(stream)

\* a frame's units are its header, its length if that is long, and its payload, and
\* they end at the address end
Lies(f, end, units) ==
    /\ end = f.off + HeadLen(f) + Len(f.body)
    /\ end <= Len(units)
    /\ units[f.off + 1] = Header(f.fin, f.op, IF HeadLen(f) = 1 THEN Len(f.body) ELSE Wide)
    /\ HeadLen(f) = 2 => units[f.off + 2].len = Len(f.body)
    /\ \A j \in 1..Len(f.body) : units[f.off + HeadLen(f) + j] = f.body[j]

Layout == \A i \in 1..Len(framed) : Lies(framed[i], Off[i + 1], stream)

\* a frame of data goes on with the message or ends it, another one lets it be: so many
\* messages are sent after it, and these fragments
Tells(f, before, count, messages) ==
    IF f.op \notin {"text", "cont"} THEN before = f.before /\ count = f.count
    ELSE IF f.fin THEN /\ before = << >>
                       /\ count = f.count + 1
                       /\ messages[count] = f.before \o f.body
    ELSE before = f.before \o f.body /\ count = f.count

Story ==
    /\ \A i \in Places : Count[i] <= Len(sent)
    /\ \A i \in 1..Len(framed) : Tells(framed[i], Before[i + 1], Count[i + 1], sent)

Beginning == link # "none" => Off[1] = 1 /\ Before[1] = << >> /\ Count[1] = 0

\* every message before frame i has been handled, and the fragments of the next are held
Upto(i) == assembled = Before[i] /\ got = SubSeq(sent, 1, Count[i])

\* the client is at frame i, in its header, its length or its payload, or it is
\* between two calls
At(i) ==
    CASE pc = "header"  -> taken = Off[i] /\ Upto(i)
      [] pc = "length"  -> /\ i <= Len(framed)
                           /\ HeadLen(framed[i]) = 2
                           /\ taken = Off[i] + 1
                           /\ head.fin = framed[i].fin /\ head.op = framed[i].op
                           /\ Upto(i)
      [] pc = "payload" -> /\ i <= Len(framed)
                           /\ taken = Off[i] + HeadLen(framed[i])
                           /\ head = Header(framed[i].fin, framed[i].op, Len(framed[i].body))
                           /\ Upto(i)
      [] pc = "returned" ->
            CASE result = 0 -> taken = Off[i] /\ Upto(i)
              [] result = 1 -> /\ taken = Off[i] /\ assembled = Before[i]
                               /\ Count[i] > 0
                               /\ got = SubSeq(sent, 1, Count[i] - 1)
                               /\ message = sent[Count[i]]
              [] OTHER -> got = SubSeq(sent, 1, Count[i])
      [] OTHER -> TRUE

InPlace == ~torn => \E i \in Places : At(i)

IInv == TypeOK /\ Phases /\ InTransit /\ Layout /\ Story /\ Beginning /\ InPlace

-----------------------------------------------------------------------------
(* Sequences.                                                              *)

LEMMA Appended ==
    ASSUME NEW S, NEW s \in Seq(S), NEW e \in S
    PROVE  /\ Append(s, e) \in Seq(S)
           /\ Len(Append(s, e)) = Len(s) + 1
           /\ \A k \in 1..Len(s) : Append(s, e)[k] = s[k]
           /\ Append(s, e)[Len(s) + 1] = e
           /\ \A n \in 0..Len(s) : SubSeq(Append(s, e), 1, n) = SubSeq(s, 1, n)
  OBVIOUS

LEMMA Catenated ==
    ASSUME NEW S, NEW a \in Seq(S), NEW b \in Seq(S)
    PROVE  /\ a \o b \in Seq(S)
           /\ Len(a \o b) = Len(a) + Len(b) /\ Len(a) \in Nat /\ Len(b) \in Nat
           /\ \A i \in 1..Len(a) : (a \o b)[i] = a[i]
           /\ \A i \in 1..Len(b) : (a \o b)[Len(a) + i] = b[i]
<1>1. a \o b \in Seq(S) /\ Len(a \o b) = Len(a) + Len(b) /\ Len(a) \in Nat /\ Len(b) \in Nat
  BY ConcatProperties
<1>2. \A i \in 1..Len(a) : (a \o b)[i] = a[i]
  BY <1>1, ConcatProperties
<1>3. ASSUME NEW i \in 1..Len(b) PROVE (a \o b)[Len(a) + i] = b[i]
  <2>1. Len(a) + i \in 1..(Len(a) + Len(b)) /\ ~(Len(a) + i <= Len(a)) /\ (Len(a) + i) - Len(a) = i
    BY <1>1
  <2>2. (a \o b)[Len(a) + i] = b[(Len(a) + i) - Len(a)]
    BY <2>1, ConcatProperties
  <2>3. QED
    BY <2>1, <2>2
<1>4. QED
  BY <1>1, <1>2, <1>3

\* What is left of a sequence.
LEMMA Rests ==
    ASSUME NEW S, NEW s \in Seq(S), NEW n \in 0..Len(s)
    PROVE  /\ SubSeq(s, n + 1, Len(s)) \in Seq(S)
           /\ Len(SubSeq(s, n + 1, Len(s))) = Len(s) - n
           /\ \A i \in 1..(Len(s) - n) : SubSeq(s, n + 1, Len(s))[i] = s[n + i]
<1>1. n \in Nat /\ Len(s) \in Nat /\ n <= Len(s)
  OBVIOUS
<1>2. QED
  BY <1>1

\* A part of a sequence.
LEMMA Part ==
    ASSUME NEW S, NEW s \in Seq(S), NEW m \in Nat, NEW n \in Nat, m + n <= Len(s)
    PROVE  /\ SubSeq(s, m + 1, m + n) \in Seq(S)
           /\ Len(SubSeq(s, m + 1, m + n)) = n
           /\ \A i \in 1..n : SubSeq(s, m + 1, m + n)[i] = s[m + i]
<1>1. Len(s) \in Nat
  OBVIOUS
<1>2. \A i \in (m + 1)..(m + n) : s[i] \in S
  BY <1>1
<1>3. QED
  BY <1>1, <1>2

LEMMA Empty ==
    ASSUME NEW S
    PROVE  /\ << >> \in Seq(S) /\ Len(<< >>) = 0
           /\ \A s \in Seq(S) : << >> \o s = s /\ s \o << >> = s
           /\ \A s \in Seq(S) : SubSeq(s, 1, 0) = << >> /\ SubSeq(s, 1, Len(s)) = s
  OBVIOUS

LEMMA PrefixOf ==
    ASSUME NEW S, NEW s \in Seq(S), NEW n \in 0..Len(s)
    PROVE  IsPrefix(SubSeq(s, 1, n), s)
<1>. DEFINE p == SubSeq(s, 1, n)
<1>1. p \in Seq(S) /\ Len(p) = n /\ n <= Len(s)
  OBVIOUS
<1>2. \A q \in Seq(S) : SubSeq(q, 1, Len(q)) = q
  OBVIOUS
<1>3. p = SubSeq(s, 1, n)
  OBVIOUS
<1>. HIDE DEF p
<1>4. SubSeq(p, 1, Len(p)) = p
  BY <1>1, <1>2
<1>5. IsPrefix(p, s)
  BY <1>1, <1>3, <1>4 DEF IsPrefix
<1>6. QED
  BY <1>5 DEF p

\* A message more.
LEMMA Longer ==
    ASSUME NEW S, NEW s \in Seq(S), NEW n \in 1..Len(s)
    PROVE  Append(SubSeq(s, 1, n - 1), s[n]) = SubSeq(s, 1, n)
<1>1. n - 1 \in Nat /\ n \in Nat /\ n <= Len(s) /\ Len(s) \in Nat /\ s[n] \in S
  OBVIOUS
<1>2. /\ SubSeq(s, 1, n - 1) \in Seq(S) /\ Len(SubSeq(s, 1, n - 1)) = n - 1
      /\ \A i \in 1..(n - 1) : SubSeq(s, 1, n - 1)[i] = s[i]
  BY <1>1
<1>3. /\ SubSeq(s, 1, n) \in Seq(S) /\ Len(SubSeq(s, 1, n)) = n
      /\ \A i \in 1..n : SubSeq(s, 1, n)[i] = s[i]
  BY <1>1
<1>4. DEFINE a == SubSeq(s, 1, n - 1)
             t == Append(a, s[n])
<1>. HIDE DEF a
<1>5. a \in Seq(S) /\ Len(a) = n - 1 /\ \A i \in 1..(n - 1) : a[i] = s[i]
  BY <1>2 DEF a
<1>6. t \in Seq(S) /\ Len(t) = n /\ t[n] = s[n] /\ \A i \in 1..(n - 1) : t[i] = a[i]
  BY <1>1, <1>5
<1>7. \A i \in 1..n : t[i] = SubSeq(s, 1, n)[i]
  BY <1>1, <1>3, <1>5, <1>6
<1>8. t = SubSeq(s, 1, n)
  BY <1>3, <1>6, <1>7, SeqEqual
<1>9. QED
  BY <1>8 DEF a

\* Two sequences of the same elements.
LEMMA Same ==
    ASSUME NEW S, NEW a \in Seq(S), NEW b \in Seq(S), Len(a) = Len(b),
           \A i \in 1..Len(a) : a[i] = b[i]
    PROVE  a = b
  BY SeqEqual

-----------------------------------------------------------------------------
(* Frames and the buffer.                                                  *)

LEMMA HeaderType ==
    ASSUME NEW fin \in BOOLEAN, NEW op \in Ops, NEW len \in Nat
    PROVE  /\ Header(fin, op, len) \in Unit
           /\ Header(fin, op, len).fin = fin /\ Header(fin, op, len).op = op
           /\ Header(fin, op, len).len = len
  BY DEF Header, Unit, Ops

LEMMA FrameShape ==
    ASSUME NEW fin \in BOOLEAN, NEW op \in Ops, NEW body \in Seq(Unit)
    PROVE  LET n == IF Len(body) <= Short THEN 1 ELSE 2
               f == Frame(fin, op, body)
           IN  /\ f \in Seq(Unit) /\ Len(f) = n + Len(body)
               /\ f[1] = Header(fin, op, IF n = 1 THEN Len(body) ELSE Wide)
               /\ n = 2 => f[2].len = Len(body)
               /\ \A j \in 1..Len(body) : f[n + j] = body[j]
<1>1. Len(body) \in Nat /\ Wide \in Nat /\ Short \in Nat
  BY ShortAssumption DEF Wide
<1>2. CASE Len(body) <= Short
  <2>1. DEFINE h == Header(fin, op, Len(body))
               a == <<h>>
  <2>2. h \in Unit
    BY <1>1, HeaderType
  <2>. HIDE DEF h
  <2>3. a \in Seq(Unit) /\ Len(a) = 1 /\ a[1] = h
    BY <2>2
  <2>. HIDE DEF a
  <2>4. Frame(fin, op, body) = a \o body
    BY <1>2 DEF Frame, a, h
  <2>8. a \in Seq(Unit)
    BY <2>3
  <2>5. /\ a \o body \in Seq(Unit) /\ Len(a \o body) = Len(a) + Len(body)
        /\ \A i \in 1..Len(a) : (a \o body)[i] = a[i]
        /\ \A i \in 1..Len(body) : (a \o body)[Len(a) + i] = body[i]
    BY <2>8, Catenated
  <2>6. (a \o body)[1] = h
    BY <2>3, <2>5
  <2>7. QED
    BY <1>2, <2>3, <2>4, <2>5, <2>6 DEF h
<1>3. CASE ~(Len(body) <= Short)
  <2>1. DEFINE g == Header(fin, op, Wide)
               h == Header(FALSE, "other", Len(body))
               a == <<g, h>>
  <2>2. g \in Unit /\ h \in Unit /\ h.len = Len(body)
    <3>1. g \in Unit
      BY <1>1, HeaderType
    <3>2. h \in Unit /\ h.len = Len(body)
      BY <1>1 DEF Header, Unit
    <3>3. QED
      BY <3>1, <3>2
  <2>. HIDE DEF g, h
  <2>3. a \in Seq(Unit) /\ Len(a) = 2 /\ a[1] = g /\ a[2] = h
    BY <2>2
  <2>. HIDE DEF a
  <2>4. Frame(fin, op, body) = a \o body
    BY <1>3 DEF Frame, a, g, h
  <2>8. a \in Seq(Unit)
    BY <2>3
  <2>5. /\ a \o body \in Seq(Unit) /\ Len(a \o body) = Len(a) + Len(body)
        /\ \A i \in 1..Len(a) : (a \o body)[i] = a[i]
        /\ \A i \in 1..Len(body) : (a \o body)[Len(a) + i] = body[i]
    BY <2>8, Catenated
  <2>6. (a \o body)[1] = g /\ (a \o body)[2] = h
    BY <2>3, <2>5
  <2>7. QED
    BY <1>3, <2>2, <2>3, <2>4, <2>5, <2>6 DEF g
<1>4. QED
  BY <1>2, <1>3

\* Compaction loses nothing.
LEMMA RestShape ==
    ASSUME recv \in Seq(Unit), pos \in 0..Len(recv), NEW n \in 0..Available
    PROVE  /\ Rest(n).recv \in Seq(Unit) /\ Rest(n).pos \in 0..Len(Rest(n).recv)
           /\ Len(Rest(n).recv) - Rest(n).pos = Available - n
           /\ \A i \in 1..(Available - n) : Rest(n).recv[Rest(n).pos + i] = recv[pos + n + i]
<1>1. pos \in Nat /\ n \in Nat /\ Len(recv) \in Nat /\ pos + n \in 0..Len(recv)
      /\ Available = Len(recv) - pos
  BY DEF Available
<1>2. CASE 2 * (pos + n) > Len(recv)
  <2>1. /\ SubSeq(recv, (pos + n) + 1, Len(recv)) \in Seq(Unit)
        /\ Len(SubSeq(recv, (pos + n) + 1, Len(recv))) = Len(recv) - (pos + n)
        /\ \A i \in 1..(Len(recv) - (pos + n)) :
              SubSeq(recv, (pos + n) + 1, Len(recv))[i] = recv[(pos + n) + i]
    BY <1>1, Rests
  <2>2. DEFINE r == SubSeq(recv, (pos + n) + 1, Len(recv))
  <2>3. Rest(n).recv = r /\ Rest(n).pos = 0
    BY <1>2 DEF Rest
  <2>4. Len(r) = Available - n
    BY <1>1, <2>1
  <2>. HIDE DEF r
  <2>5. ASSUME NEW i \in 1..(Available - n) PROVE r[0 + i] = recv[pos + n + i]
    BY <1>1, <2>1 DEF r
  <2>6. r \in Seq(Unit)
    BY <2>1 DEF r
  <2>7. QED
    BY <1>1, <2>3, <2>4, <2>5, <2>6
<1>3. CASE ~(2 * (pos + n) > Len(recv))
  <2>1. Rest(n).recv = recv /\ Rest(n).pos = pos + n
    BY <1>3 DEF Rest
  <2>2. QED
    BY <1>1, <2>1
<1>4. QED
  BY <1>2, <1>3

-----------------------------------------------------------------------------
(* What the server sends.                                                  *)

LEMMA Marks ==
    ASSUME TypeOK
    PROVE  /\ Len(framed) \in Nat /\ Len(stream) \in Nat /\ Len(sent) \in Nat
           /\ \A i \in 1..Len(framed) : framed[i] \in Sent
           /\ \A i \in Places : Off[i] \in Nat /\ Before[i] \in Seq(Unit) /\ Count[i] \in Nat
<1>1. framed \in Seq(Sent) /\ stream \in Seq(Unit) /\ sent \in Seq(Seq(Unit)) /\ partial \in Seq(Unit)
  BY DEF TypeOK
<1>2. Len(framed) \in Nat /\ Len(stream) \in Nat /\ Len(sent) \in Nat
      /\ \A i \in 1..Len(framed) : framed[i] \in Sent
  BY <1>1
<1>3. \A i \in Places : i <= Len(framed) => i \in 1..Len(framed)
  BY <1>2 DEF Places
<1>4. \A i \in 1..Len(framed) : framed[i].off \in Nat /\ framed[i].before \in Seq(Unit)
                                /\ framed[i].count \in Nat
  BY <1>2 DEF Sent
<1>5. QED
  BY <1>1, <1>2, <1>3, <1>4 DEF Off, Before, Count

\* The history of the connection is the same.
LEMMA HistorySame ==
    ASSUME UNCHANGED <<stream, framed, sent, partial>>
    PROVE  /\ Places' = Places /\ Off' = Off /\ Before' = Before /\ Count' = Count
           /\ Layout => Layout'
           /\ Story => Story'
           /\ Beginning /\ (link' # "none" => link # "none") => Beginning'
<1>1. stream' = stream /\ framed' = framed /\ sent' = sent /\ partial' = partial
  OBVIOUS
<1>2. Places' = Places /\ Off' = Off /\ Before' = Before /\ Count' = Count
  BY <1>1 DEF Places, Off, Before, Count
<1>3. Layout => Layout'
  BY <1>1, <1>2 DEF Layout
<1>4. Story => Story'
  BY <1>1, <1>2 DEF Story
<1>5. Beginning /\ (link' # "none" => link # "none") => Beginning'
  BY <1>2 DEF Beginning
<1>6. QED
  BY <1>2, <1>3, <1>4, <1>5

\* A frame is put at the end of the stream and of what is in flight.
LEMMA EmitEffect ==
    ASSUME TypeOK, NEW fin \in BOOLEAN, NEW op \in Ops, NEW body \in Seq(Unit),
           Emit(fin, op, body)
    PROVE  /\ UNCHANGED <<link, recv, pos, pc, head, assembled, result, message, taken, torn>>
           /\ link = "up" /\ frames' \in 0..MaxFrames
           /\ framed' \in Seq(Sent) /\ Len(framed') = Len(framed) + 1
           /\ \A i \in 1..Len(framed) : framed'[i] = framed[i]
           /\ framed'[Len(framed) + 1] = Sending(fin, op, body)
           /\ \E f \in Seq(Unit) :
                 /\ f = Frame(fin, op, body)
                 /\ stream' = stream \o f /\ stream' \in Seq(Unit)
                 /\ Len(stream') = Len(stream) + Len(f)
                 /\ \A i \in 1..Len(stream) : stream'[i] = stream[i]
                 /\ \A i \in 1..Len(f) : stream'[Len(stream) + i] = f[i]
                 /\ wire' = wire \o f /\ wire' \in Seq(Unit)
                 /\ Len(wire') = Len(wire) + Len(f)
                 /\ \A i \in 1..Len(wire) : wire'[i] = wire[i]
                 /\ \A i \in 1..Len(f) : wire'[Len(wire) + i] = f[i]
<1>1. UNCHANGED <<link, recv, pos, pc, head, assembled, result, message, taken, torn>>
      /\ link = "up" /\ frames' \in 0..MaxFrames
  BY BoundAssumption DEF Emit, buffer, call, TypeOK
<1>2. Sending(fin, op, body) \in Sent
  BY Marks DEF Sending, Sent, Ops, TypeOK
<1>3. framed \in Seq(Sent) /\ stream \in Seq(Unit) /\ wire \in Seq(Unit)
  BY DEF TypeOK
<1>4. framed' = Append(framed, Sending(fin, op, body))
  BY DEF Emit
<1>5. /\ framed' \in Seq(Sent) /\ Len(framed') = Len(framed) + 1
      /\ \A i \in 1..Len(framed) : framed'[i] = framed[i]
      /\ framed'[Len(framed) + 1] = Sending(fin, op, body)
  BY <1>2, <1>3, <1>4, Appended
<1>6. PICK f \in Seq(Unit) : f = Frame(fin, op, body)
  BY FrameShape
<1>7. stream' = stream \o f /\ wire' = wire \o f
  BY <1>6 DEF Emit
<1>8. /\ stream \o f \in Seq(Unit) /\ Len(stream \o f) = Len(stream) + Len(f)
      /\ \A i \in 1..Len(stream) : (stream \o f)[i] = stream[i]
      /\ \A i \in 1..Len(f) : (stream \o f)[Len(stream) + i] = f[i]
  BY <1>3, Catenated
<1>9. /\ wire \o f \in Seq(Unit) /\ Len(wire \o f) = Len(wire) + Len(f)
      /\ \A i \in 1..Len(wire) : (wire \o f)[i] = wire[i]
      /\ \A i \in 1..Len(f) : (wire \o f)[Len(wire) + i] = f[i]
  BY <1>3, Catenated
<1>10. QED
  BY <1>1, <1>5, <1>6, <1>7, <1>8, <1>9

\* The frames before keep their places; the new one is where the end was.
LEMMA EmitMarks ==
    ASSUME TypeOK, NEW fin \in BOOLEAN, NEW op \in Ops, NEW body \in Seq(Unit),
           Emit(fin, op, body), NEW n \in Nat, n = Len(framed)
    PROVE  /\ Places = 1..(n + 1) /\ Places' = 1..(n + 2)
           /\ \A i \in 1..(n + 1) :
                 Off'[i] = Off[i] /\ Before'[i] = Before[i] /\ Count'[i] = Count[i]
           /\ Off'[n + 2] = Len(stream') /\ Before'[n + 2] = partial' /\ Count'[n + 2] = Len(sent')
<1>1. /\ framed' \in Seq(Sent) /\ Len(framed') = n + 1
      /\ \A i \in 1..n : framed'[i] = framed[i]
      /\ framed'[n + 1] = Sending(fin, op, body)
  BY EmitEffect
<1>2. Places = 1..(n + 1) /\ Places' = 1..(n + 2)
  BY <1>1 DEF Places
<1>3. ASSUME NEW i \in 1..(n + 1)
      PROVE  Off'[i] = Off[i] /\ Before'[i] = Before[i] /\ Count'[i] = Count[i]
  <2>1. i \in Places /\ i \in Places'
    BY <1>2
  <2>2. CASE i <= n
    <3>1. i <= Len(framed') /\ framed'[i] = framed[i]
      BY <1>1, <2>2
    <3>2. QED
      BY <2>1, <2>2, <3>1 DEF Off, Before, Count
  <2>3. CASE ~(i <= n)
    <3>1. i <= Len(framed') /\ i = n + 1
      BY <1>1, <2>3
    <3>2. framed'[i] = Sending(fin, op, body)
      BY <1>1, <3>1
    <3>3. QED
      BY <2>1, <2>3, <3>1, <3>2 DEF Off, Before, Count, Sending
  <2>4. QED
    BY <2>2, <2>3
<1>4. n + 2 \in Places' /\ ~(n + 2 <= Len(framed'))
  BY <1>1, <1>2
<1>5. Off'[n + 2] = Len(stream') /\ Before'[n + 2] = partial' /\ Count'[n + 2] = Len(sent')
  BY <1>4 DEF Off, Before, Count
<1>6. QED
  BY <1>2, <1>3, <1>5

\* A frame stays where it is when the stream gets longer.
LEMMA LiesOn ==
    ASSUME NEW f \in Sent, NEW end, NEW s \in Seq(Unit), NEW t \in Seq(Unit),
           Lies(f, end, s), Len(s) <= Len(t), \A i \in 1..Len(s) : t[i] = s[i]
    PROVE  Lies(f, end, t)
<1>1. PICK off \in Nat, h \in {1, 2}, n \in Nat : f.off = off /\ HeadLen(f) = h /\ Len(f.body) = n
  BY DEF Sent, HeadLen
<1>2. /\ end = off + h + n /\ end <= Len(s)
      /\ s[off + 1] = Header(f.fin, f.op, IF h = 1 THEN n ELSE Wide)
      /\ h = 2 => s[off + 2].len = n
      /\ \A j \in 1..n : s[off + h + j] = f.body[j]
  BY <1>1 DEF Lies
<1>3. Len(s) \in Nat /\ Len(t) \in Nat
  OBVIOUS
<1>4. off + 1 \in 1..Len(s) /\ (h = 2 => off + 2 \in 1..Len(s))
  BY <1>1, <1>2, <1>3
<1>5. \A j \in 1..n : off + h + j \in 1..Len(s)
  BY <1>1, <1>2, <1>3
<1>6. /\ t[off + 1] = s[off + 1] /\ (h = 2 => t[off + 2] = s[off + 2])
      /\ \A j \in 1..n : t[off + h + j] = s[off + h + j]
  BY <1>4, <1>5
<1>7. end <= Len(t)
  BY <1>1, <1>2, <1>3
<1>8. QED
  BY <1>1, <1>2, <1>6, <1>7 DEF Lies

\* And it lies at the end when its units have just been put there.
LEMMA LiesNew ==
    ASSUME NEW f \in Sent, NEW s \in Seq(Unit), NEW t \in Seq(Unit), NEW u \in Seq(Unit),
           u = Frame(f.fin, f.op, f.body), f.off = Len(s), Len(t) = Len(s) + Len(u),
           \A i \in 1..Len(u) : t[Len(s) + i] = u[i]
    PROVE  Lies(f, Len(t), t)
<1>1. PICK off \in Nat, h \in {1, 2}, n \in Nat : f.off = off /\ HeadLen(f) = h /\ Len(f.body) = n
  BY DEF Sent, HeadLen
<1>2. f.fin \in BOOLEAN /\ f.op \in Ops /\ f.body \in Seq(Unit)
  BY DEF Sent, Ops
<1>3. h = IF Len(f.body) <= Short THEN 1 ELSE 2
  BY <1>1 DEF HeadLen
<1>4. /\ Len(u) = h + n
      /\ u[1] = Header(f.fin, f.op, IF h = 1 THEN n ELSE Wide)
      /\ h = 2 => u[2].len = n
      /\ \A j \in 1..n : u[h + j] = f.body[j]
  <2>1. PICK body \in Seq(Unit), fin \in BOOLEAN, op \in Ops :
             body = f.body /\ fin = f.fin /\ op = f.op
    BY <1>2
  <2>2. h = (IF Len(body) <= Short THEN 1 ELSE 2) /\ Len(body) = n /\ u = Frame(fin, op, body)
    BY <1>1, <1>3, <2>1
  <2>3. LET k == IF Len(body) <= Short THEN 1 ELSE 2
            g == Frame(fin, op, body)
        IN  /\ Len(g) = k + Len(body)
            /\ g[1] = Header(fin, op, IF k = 1 THEN Len(body) ELSE Wide)
            /\ k = 2 => g[2].len = Len(body)
            /\ \A j \in 1..Len(body) : g[k + j] = body[j]
    BY FrameShape
  <2>4. QED
    BY <2>1, <2>2, <2>3
<1>5. 1 \in 1..Len(u) /\ (h = 2 => 2 \in 1..Len(u)) /\ \A j \in 1..n : h + j \in 1..Len(u)
  BY <1>1, <1>4
<1>6. /\ t[off + 1] = u[1] /\ (h = 2 => t[off + 2] = u[2])
      /\ \A j \in 1..n : t[off + (h + j)] = u[h + j]
  BY <1>1, <1>5
<1>7. \A j \in 1..n : off + (h + j) = off + h + j
  BY <1>1
<1>8. Len(t) = off + h + n /\ Len(t) <= Len(t)
  BY <1>1, <1>4
<1>9. QED
  BY <1>1, <1>4, <1>6, <1>7, <1>8 DEF Lies

LEMMA EmitLayout ==
    ASSUME TypeOK, Layout, NEW fin \in BOOLEAN, NEW op \in Ops, NEW body \in Seq(Unit),
           Emit(fin, op, body)
    PROVE  Layout'
<1>1. PICK n \in Nat : n = Len(framed)
  BY Marks
<1>2. stream \in Seq(Unit) /\ Len(stream) \in Nat
  BY DEF TypeOK
<1>3. /\ framed' \in Seq(Sent) /\ Len(framed') = n + 1
      /\ \A i \in 1..n : framed'[i] = framed[i]
      /\ framed'[n + 1] = Sending(fin, op, body)
  <2>1. /\ framed' \in Seq(Sent) /\ Len(framed') = Len(framed) + 1
        /\ \A i \in 1..Len(framed) : framed'[i] = framed[i]
        /\ framed'[Len(framed) + 1] = Sending(fin, op, body)
    BY EmitEffect, SMTT(40)
  <2>2. QED
    BY <1>1, <2>1
<1>4. PICK u \in Seq(Unit) : /\ u = Frame(fin, op, body)
                             /\ stream' \in Seq(Unit)
                             /\ Len(stream') = Len(stream) + Len(u)
                             /\ \A i \in 1..Len(stream) : stream'[i] = stream[i]
                             /\ \A i \in 1..Len(u) : stream'[Len(stream) + i] = u[i]
  <2>1. PICK f \in Seq(Unit) :
                 /\ f = Frame(fin, op, body)
                 /\ stream' = stream \o f /\ stream' \in Seq(Unit)
                 /\ Len(stream') = Len(stream) + Len(f)
                 /\ \A i \in 1..Len(stream) : stream'[i] = stream[i]
                 /\ \A i \in 1..Len(f) : stream'[Len(stream) + i] = f[i]
                 /\ wire' = wire \o f /\ wire' \in Seq(Unit)
                 /\ Len(wire') = Len(wire) + Len(f)
                 /\ \A i \in 1..Len(wire) : wire'[i] = wire[i]
                 /\ \A i \in 1..Len(f) : wire'[Len(wire) + i] = f[i]
    BY EmitEffect, ZenonT(30)
  <2>2. QED
    BY <2>1, ZenonT(30)
<1>5. (\A i \in 1..(n + 1) : Off'[i] = Off[i]) /\ Off'[n + 2] = Len(stream')
  BY <1>1, EmitMarks
<1>6. Len(stream) <= Len(stream')
  BY <1>2, <1>4
<1>7. ASSUME NEW i \in 1..n PROVE Lies(framed'[i], Off'[i + 1], stream')
  <2>1. Lies(framed[i], Off[i + 1], stream) /\ framed[i] \in Sent
    BY <1>1, Marks DEF Layout
  <2>2. Off'[i + 1] = Off[i + 1] /\ framed'[i] = framed[i]
    BY <1>3, <1>5
  <2>3. Lies(framed[i], Off[i + 1], stream')
    BY <1>2, <1>4, <1>6, <2>1, LiesOn
  <2>4. QED
    BY <2>2, <2>3
<1>8. Lies(framed'[n + 1], Off'[(n + 1) + 1], stream')
  <2>1. PICK g \in Sent : g = framed'[n + 1]
    BY <1>3
  <2>2. g.fin = fin /\ g.op = op /\ g.body = body /\ g.off = Len(stream)
    BY <1>3, <2>1 DEF Sending
  <2>3. Lies(g, Len(stream'), stream')
    <3>1. u = Frame(g.fin, g.op, g.body)
      BY <1>4, <2>2
    <3>2. QED
      BY <1>2, <1>4, <2>2, <3>1, LiesNew
  <2>4. Off'[(n + 1) + 1] = Len(stream')
    BY <1>5
  <2>5. QED
    BY <2>1, <2>3, <2>4
<1>9. \A i \in 1..Len(framed') : i \in 1..n \/ i = n + 1
  BY <1>3
<1>10. QED
  BY <1>7, <1>8, <1>9 DEF Layout

\* What a message more, or a fragment more, means for the ones before.
Told(fin, op, body) ==
    /\ sent' \in Seq(Seq(Unit)) /\ partial' \in Seq(Unit) /\ open' \in BOOLEAN
    /\ Len(sent) <= Len(sent')
    /\ \A k \in 1..Len(sent) : sent'[k] = sent[k]
    /\ \A k \in 0..Len(sent) : SubSeq(sent', 1, k) = SubSeq(sent, 1, k)
    /\ IF op \notin {"text", "cont"} THEN partial' = partial /\ Len(sent') = Len(sent)
       ELSE IF fin THEN /\ partial' = << >> /\ Len(sent') = Len(sent) + 1
                        /\ sent'[Len(sent) + 1] = partial \o body
       ELSE partial' = partial \o body /\ Len(sent') = Len(sent)

LEMMA TellsOn ==
    ASSUME NEW f \in Sent, NEW before, NEW count \in Nat,
           NEW s \in Seq(Seq(Unit)), NEW t \in Seq(Seq(Unit)),
           Tells(f, before, count, s), count <= Len(s), \A k \in 1..Len(s) : t[k] = s[k]
    PROVE  Tells(f, before, count, t)
<1>1. f.count \in Nat
  BY DEF Sent
<1>2. count = f.count + 1 => count \in 1..Len(s)
  BY <1>1
<1>3. count = f.count + 1 => t[count] = s[count]
  BY <1>2
<1>4. QED
  BY <1>3 DEF Tells

LEMMA EmitStory ==
    ASSUME TypeOK, Story, NEW fin \in BOOLEAN, NEW op \in Ops, NEW body \in Seq(Unit),
           Emit(fin, op, body), Told(fin, op, body)
    PROVE  Story'
<1>1. PICK n \in Nat : n = Len(framed)
  BY Marks
<1>2. /\ framed' \in Seq(Sent) /\ Len(framed') = n + 1
      /\ \A i \in 1..n : framed'[i] = framed[i]
      /\ framed'[n + 1] = Sending(fin, op, body)
  BY <1>1, EmitEffect
<1>3. /\ Places = 1..(n + 1) /\ Places' = 1..(n + 2)
      /\ \A i \in 1..(n + 1) : Before'[i] = Before[i] /\ Count'[i] = Count[i]
      /\ Before'[n + 2] = partial' /\ Count'[n + 2] = Len(sent')
  BY <1>1, EmitMarks
<1>4. /\ sent \in Seq(Seq(Unit)) /\ sent' \in Seq(Seq(Unit)) /\ Len(sent) \in Nat /\ Len(sent') \in Nat
      /\ Len(sent) <= Len(sent') /\ \A k \in 1..Len(sent) : sent'[k] = sent[k]
  <2>1. sent \in Seq(Seq(Unit)) /\ Len(sent) \in Nat
    BY DEF TypeOK
  <2>2. /\ sent' \in Seq(Seq(Unit)) /\ Len(sent) <= Len(sent')
        /\ \A k \in 1..Len(sent) : sent'[k] = sent[k]
    BY DEF Told
  <2>3. Len(sent') \in Nat
    BY <2>2
  <2>4. QED
    BY <2>1, <2>2, <2>3
<1>5. \A i \in 1..(n + 1) : Count[i] \in Nat /\ Count[i] <= Len(sent)
  BY <1>3, Marks DEF Story
<1>6. ASSUME NEW i \in Places' PROVE Count'[i] <= Len(sent')
  <2>1. CASE i \in 1..(n + 1)
    <3>1. Count[i] \in Nat /\ Count[i] <= Len(sent) /\ Count'[i] = Count[i]
      BY <1>3, <1>5, <2>1
    <3>2. QED
      BY <1>4, <3>1
  <2>2. CASE i = n + 2
    BY <1>3, <1>4, <2>2
  <2>3. QED
    BY <1>3, <2>1, <2>2
<1>7. ASSUME NEW i \in 1..n PROVE Tells(framed'[i], Before'[i + 1], Count'[i + 1], sent')
  <2>1. Tells(framed[i], Before[i + 1], Count[i + 1], sent) /\ framed[i] \in Sent
    BY <1>1, Marks DEF Story
  <2>2. Count[i + 1] \in Nat /\ Count[i + 1] <= Len(sent)
    BY <1>5
  <2>3. Tells(framed[i], Before[i + 1], Count[i + 1], sent')
    BY <1>4, <2>1, <2>2, TellsOn
  <2>4. Before'[i + 1] = Before[i + 1] /\ Count'[i + 1] = Count[i + 1] /\ framed'[i] = framed[i]
    BY <1>2, <1>3
  <2>5. QED
    BY <2>3, <2>4
<1>8. Tells(framed'[n + 1], Before'[(n + 1) + 1], Count'[(n + 1) + 1], sent')
  <2>1. Before'[(n + 1) + 1] = partial' /\ Count'[(n + 1) + 1] = Len(sent')
    BY <1>3
  <2>2. PICK f : /\ f = framed'[n + 1] /\ f.op = op /\ f.fin = fin /\ f.body = body
                 /\ f.before = partial /\ f.count = Len(sent)
    BY <1>2 DEF Sending
  <2>3. QED
    BY <2>1, <2>2 DEF Told, Tells
<1>9. \A i \in 1..Len(framed') : i \in 1..n \/ i = n + 1
  BY <1>2
<1>10. QED
  BY <1>6, <1>7, <1>8, <1>9 DEF Story

LEMMA EmitTransit ==
    ASSUME TypeOK, InTransit, NEW fin \in BOOLEAN, NEW op \in Ops, NEW body \in Seq(Unit),
           Emit(fin, op, body)
    PROVE  InTransit'
<1>1. UNCHANGED <<link, recv, pos, taken>> /\ link = "up"
  BY EmitEffect
<1>2. PICK a \in Nat, k \in Nat, w \in Nat, l \in Nat :
           a = Available /\ k = taken /\ w = Len(wire) /\ l = Len(stream)
  <2>1. Available \in Nat
    BY DEF TypeOK, Available
  <2>2. taken \in Nat /\ Len(wire) \in Nat /\ Len(stream) \in Nat
    BY DEF TypeOK
  <2>3. QED
    BY <2>1, <2>2
<1>3. /\ k + a + w = l
      /\ \A i \in 1..a : recv[pos + i] = stream[k + i]
      /\ \A i \in 1..w : wire[i] = stream[k + a + i]
  BY <1>1, <1>2 DEF InTransit
<1>4. PICK u \in Seq(Unit) : /\ Len(stream') = l + Len(u)
                             /\ \A i \in 1..l : stream'[i] = stream[i]
                             /\ \A i \in 1..Len(u) : stream'[l + i] = u[i]
                             /\ Len(wire') = w + Len(u)
                             /\ \A i \in 1..w : wire'[i] = wire[i]
                             /\ \A i \in 1..Len(u) : wire'[w + i] = u[i]
  <2>1. PICK u \in Seq(Unit) : /\ Len(stream') = Len(stream) + Len(u)
                               /\ \A i \in 1..Len(stream) : stream'[i] = stream[i]
                               /\ \A i \in 1..Len(u) : stream'[Len(stream) + i] = u[i]
                               /\ Len(wire') = Len(wire) + Len(u)
                               /\ \A i \in 1..Len(wire) : wire'[i] = wire[i]
                               /\ \A i \in 1..Len(u) : wire'[Len(wire) + i] = u[i]
    BY EmitEffect, ZenonT(30)
  <2>2. Len(wire) = w /\ Len(stream) = l
    BY <1>2
  <2>3. QED
    BY <2>1, <2>2
<1>5. PICK m \in Nat : m = Len(u)
  OBVIOUS
<1>6. Available' = a /\ taken' = k
  BY <1>1, <1>2 DEF Available
<1>7. k + a + Len(wire') = Len(stream')
  <2>1. Len(wire') = w + m /\ Len(stream') = l + m
    BY <1>4, <1>5
  <2>2. QED
    BY <1>3, <2>1
<1>8. \A i \in 1..a : recv'[pos' + i] = stream'[k + i]
  <2>1. TAKE i \in 1..a
  <2>2. k + i \in 1..l
    BY <1>3
  <2>3. QED
    BY <1>1, <1>3, <1>4, <2>2
<1>9. \A i \in 1..(w + m) : wire'[i] = stream'[k + a + i]
  <2>1. TAKE i \in 1..(w + m)
  <2>2. CASE i <= w
    <3>1. k + a + i \in 1..l /\ i \in 1..w
      BY <1>3, <2>2
    <3>2. QED
      BY <1>3, <1>4, <3>1
  <2>3. CASE i > w
    <3>1. i - w \in 1..Len(u) /\ i = w + (i - w) /\ k + a + i = l + (i - w)
      BY <1>3, <1>5, <2>3
    <3>2. wire'[w + (i - w)] = u[i - w] /\ stream'[l + (i - w)] = u[i - w]
      BY <1>4, <3>1
    <3>3. QED
      BY <3>1, <3>2
  <2>4. QED
    BY <2>2, <2>3
<1>10. QED
  <2>1. Len(wire') = w + m /\ Len(stream') = k + a + Len(wire') /\ Len(wire') \in Nat
    BY <1>4, <1>5, <1>7
  <2>2. taken' + Available' + Len(wire') = Len(stream') /\ Len(stream') <= Len(stream')
    BY <1>6, <2>1
  <2>3. QED
    BY <1>6, <1>8, <1>9, <2>1, <2>2 DEF InTransit

\* The client stays at its frame.
LEMMA EmitPlace ==
    ASSUME TypeOK, Story, InPlace, NEW fin \in BOOLEAN, NEW op \in Ops, NEW body \in Seq(Unit),
           Emit(fin, op, body), Told(fin, op, body), UNCHANGED own
    PROVE  InPlace'
<1>1. SUFFICES ASSUME ~torn' PROVE (\E i \in Places : At(i))'
  BY DEF InPlace
<1>2. UNCHANGED <<pc, head, assembled, result, message, taken, torn, got>>
  BY EmitEffect DEF own
<1>3. PICK i \in Places : At(i)
  BY <1>1, <1>2 DEF InPlace
<1>4. PICK n \in Nat : n = Len(framed)
  BY Marks
<1>5. /\ Len(framed') = n + 1 /\ \A k \in 1..n : framed'[k] = framed[k]
      /\ i \in 1..(n + 1) /\ i \in Places'
      /\ Off'[i] = Off[i] /\ Before'[i] = Before[i] /\ Count'[i] = Count[i]
  <2>1. Len(framed') = n + 1 /\ \A k \in 1..n : framed'[k] = framed[k]
    BY <1>4, EmitEffect
  <2>2. /\ Places = 1..(n + 1) /\ Places' = 1..(n + 2)
        /\ \A k \in 1..(n + 1) :
              Off'[k] = Off[k] /\ Before'[k] = Before[k] /\ Count'[k] = Count[k]
    BY <1>4, EmitMarks
  <2>3. QED
    BY <2>1, <2>2
<1>6. i <= Len(framed) => i <= Len(framed') /\ framed'[i] = framed[i]
  BY <1>4, <1>5
<1>7. PICK c \in Nat : c = Count[i] /\ c <= Len(sent)
  BY Marks DEF Story
<1>8. /\ SubSeq(sent', 1, c) = SubSeq(sent, 1, c)
      /\ c > 0 => SubSeq(sent', 1, c - 1) = SubSeq(sent, 1, c - 1) /\ sent'[c] = sent[c]
  <2>1. Len(sent) \in Nat /\ c \in 0..Len(sent)
        /\ (c > 0 => c - 1 \in 0..Len(sent) /\ c \in 1..Len(sent))
    BY <1>7, Marks
  <2>2. QED
    BY <2>1 DEF Told
<1>9. At(i)'
  BY <1>2, <1>3, <1>5, <1>6, <1>7, <1>8 DEF At, Upto
<1>10. QED
  BY <1>5, <1>9

\* A frame keeps the invariant.
LEMMA EmitStep ==
    ASSUME IInv, NEW fin \in BOOLEAN, NEW op \in Ops, NEW body \in Seq(Unit),
           Emit(fin, op, body), Told(fin, op, body), UNCHANGED own, Lasting
    PROVE  IInv'
<1>1. UNCHANGED <<link, recv, pos, pc, head, assembled, result, message, taken, torn>>
      /\ UNCHANGED <<thread, backoff, stop, got, connects>>
      /\ link = "up" /\ frames' \in 0..MaxFrames
      /\ framed' \in Seq(Sent) /\ stream' \in Seq(Unit) /\ wire' \in Seq(Unit)
      /\ Len(stream) <= Len(stream')
  <2>1. PICK u \in Seq(Unit) : Len(stream') = Len(stream) + Len(u)
                               /\ stream' \in Seq(Unit) /\ wire' \in Seq(Unit)
    BY EmitEffect DEF IInv
  <2>2. stream \in Seq(Unit)
    BY DEF IInv, TypeOK
  <2>3. Len(stream) \in Nat /\ Len(u) \in Nat
    BY <2>2
  <2>4. QED
    BY <2>1, <2>3, EmitEffect DEF IInv, own
<1>2. taken' \in 0..Len(stream')
  BY <1>1 DEF IInv, TypeOK
<1>3. TypeOK'
  BY <1>1, <1>2 DEF IInv, TypeOK, Told, Lasting
<1>4. Phases'
  BY <1>1 DEF IInv, Phases
<1>5. Beginning'
  <2>1. PICK n \in Nat : n = Len(framed)
    BY Marks DEF IInv
  <2>2. \A k \in 1..(n + 1) :
           Off'[k] = Off[k] /\ Before'[k] = Before[k] /\ Count'[k] = Count[k]
    BY <2>1, EmitMarks DEF IInv
  <2>3. 1 \in 1..(n + 1)
    BY <2>1
  <2>4. Off'[1] = Off[1] /\ Before'[1] = Before[1] /\ Count'[1] = Count[1]
    BY <2>2, <2>3
  <2>5. Beginning /\ link' = link
    BY <1>1 DEF IInv
  <2>6. QED
    BY <2>4, <2>5 DEF Beginning
<1>6. QED
  BY <1>3, <1>4, <1>5, EmitTransit, EmitLayout, EmitStory, EmitPlace DEF IInv

LEMMA SendDataStep ==
    ASSUME IInv, NEW fin \in BOOLEAN, NEW body \in Bodies, SendData(fin, body), UNCHANGED own, Lasting
    PROVE  IInv'
<1>1. PICK op \in Ops : op \in {"text", "cont"} /\ Emit(fin, op, body)
  BY DEF SendData, Ops
<1>2. body \in Seq(Unit) /\ partial \in Seq(Unit) /\ sent \in Seq(Seq(Unit)) /\ Len(sent) \in Nat
  BY BodiesAssumption DEF IInv, TypeOK
<1>3. PICK m \in Seq(Unit) : m = partial \o body
  BY <1>2, Catenated
<1>4. /\ Append(sent, m) \in Seq(Seq(Unit)) /\ Len(Append(sent, m)) = Len(sent) + 1
      /\ \A k \in 1..Len(sent) : Append(sent, m)[k] = sent[k]
      /\ Append(sent, m)[Len(sent) + 1] = m
      /\ \A k \in 0..Len(sent) : SubSeq(Append(sent, m), 1, k) = SubSeq(sent, 1, k)
  BY <1>2, Appended
<1>5. << >> \in Seq(Unit)
  OBVIOUS
<1>6. open' \in BOOLEAN
  BY DEF SendData
<1>7. CASE fin
  <2>1. sent' = Append(sent, m) /\ partial' = << >>
    BY <1>3, <1>7 DEF SendData
  <2>2. Told(fin, op, body)
    BY <1>1, <1>2, <1>3, <1>4, <1>5, <1>6, <1>7, <2>1 DEF Told
  <2>3. QED
    BY <1>1, <1>2, <2>2, EmitStep
<1>8. CASE ~fin
  <2>1. sent' = sent /\ partial' = m
    BY <1>3, <1>8 DEF SendData
  <2>2. Told(fin, op, body)
    BY <1>1, <1>2, <1>3, <1>6, <1>8, <2>1 DEF Told
  <2>3. QED
    BY <1>1, <1>2, <2>2, EmitStep
<1>9. QED
  BY <1>7, <1>8

LEMMA SendControlStep ==
    ASSUME IInv, NEW c \in Controls, SendControl(c), UNCHANGED own, Lasting
    PROVE  IInv'
<1>1. PICK op \in Ops, body \in Seq(Unit) :
           op \notin {"text", "cont"} /\ op = c.op /\ body = c.body
  BY ControlsAssumption DEF Ops
<1>2. Emit(TRUE, op, body) /\ UNCHANGED <<open, partial, sent>>
  BY <1>1 DEF SendControl
<1>3. sent \in Seq(Seq(Unit)) /\ Len(sent) \in Nat
  BY DEF IInv, TypeOK
<1>4. Told(TRUE, op, body)
  BY <1>1, <1>2, <1>3 DEF Told, IInv, TypeOK
<1>5. QED
  BY <1>2, <1>4, EmitStep

-----------------------------------------------------------------------------
(* What the client does with it.                                           *)

ServerTypes ==
    /\ open \in BOOLEAN /\ partial \in Seq(Unit) /\ frames \in 0..MaxFrames
    /\ sent \in Seq(Seq(Unit)) /\ stream \in Seq(Unit) /\ framed \in Seq(Sent)

LinkTypes ==
    /\ link \in {"none", "up", "closed"}
    /\ wire \in Seq(Unit) /\ recv \in Seq(Unit) /\ pos \in 0..Len(recv)
    /\ taken \in 0..Len(stream)

CallTypes ==
    /\ pc \in {"closed", "hello", "header", "length", "payload", "returned"}
    /\ head \in Unit /\ assembled \in Seq(Unit)
    /\ result \in -1..1 /\ message \in Seq(Unit) /\ torn \in BOOLEAN

ThreadTypes ==
    /\ thread \in {"token", "connect", "receive", "wait", "ended"}
    /\ backoff \in InitialBackoff..MaxBackoff
    /\ stop \in BOOLEAN
    /\ got \in Seq(Seq(Unit)) /\ connects \in 0..MaxConnects
    /\ busy \in BOOLEAN

LEMMA Types == TypeOK <=> ServerTypes /\ LinkTypes /\ CallTypes /\ ThreadTypes
  BY DEF TypeOK, ServerTypes, LinkTypes, CallTypes, ThreadTypes

LEMMA TypesNext == ServerTypes' /\ LinkTypes' /\ CallTypes' /\ ThreadTypes' => TypeOK'
  BY DEF TypeOK, ServerTypes, LinkTypes, CallTypes, ThreadTypes

LEMMA PeerSame == ASSUME TypeOK, UNCHANGED peer PROVE ServerTypes' /\ UNCHANGED <<stream, framed, sent, partial>>
  BY DEF TypeOK, ServerTypes, peer

LEMMA OwnSame ==
    ASSUME TypeOK, UNCHANGED own, Lasting
    PROVE  ThreadTypes' /\ UNCHANGED <<thread, got>>
  BY DEF TypeOK, ThreadTypes, own, Lasting

\* n units go from the buffer to the client.
LEMMA Consumed ==
    ASSUME TypeOK, InTransit, link # "none", NEW n \in 0..Available,
           taken' = taken + n, UNCHANGED <<link, wire, stream>>,
           recv' \in Seq(Unit), pos' \in 0..Len(recv'), Len(recv') - pos' = Available - n,
           \A i \in 1..(Available - n) : recv'[pos' + i] = recv[pos + n + i]
    PROVE  /\ InTransit' /\ LinkTypes'
           /\ taken + n <= Len(stream)
           /\ \A i \in 1..n : recv[pos + i] = stream[taken + i]
<1>1. PICK a \in Nat, k \in Nat, w \in Nat, l \in Nat, p \in Nat :
           a = Available /\ k = taken /\ w = Len(wire) /\ l = Len(stream) /\ p = pos
  <2>1. Available \in Nat
    BY DEF TypeOK, Available
  <2>2. taken \in Nat /\ Len(wire) \in Nat /\ Len(stream) \in Nat /\ pos \in Nat
    <3>1. /\ wire \in Seq(Unit) /\ stream \in Seq(Unit) /\ recv \in Seq(Unit)
          /\ taken \in 0..Len(stream) /\ pos \in 0..Len(recv)
      BY DEF TypeOK
    <3>2. QED
      BY <3>1
  <2>3. QED
    BY <2>1, <2>2
<1>2. /\ k + a + w <= l
      /\ \A i \in 1..a : recv[p + i] = stream[k + i]
      /\ \A i \in 1..w : wire[i] = stream[k + a + i]
      /\ link = "up" => k + a + w = l
  BY <1>1 DEF InTransit
<1>3. n \in Nat /\ n <= a
  BY <1>1
<1>4. Available' = a - n /\ taken' = k + n
  BY <1>1 DEF Available
<1>5. \A i \in 1..(a - n) : recv'[pos' + i] = stream[(k + n) + i]
  <2>1. TAKE i \in 1..(a - n)
  <2>2. n + i \in 1..a /\ p + (n + i) = p + n + i /\ k + (n + i) = (k + n) + i
    BY <1>1, <1>3
  <2>3. recv[p + (n + i)] = stream[k + (n + i)]
    BY <1>2, <2>2
  <2>4. recv'[pos' + i] = recv[p + n + i]
    BY <1>1
  <2>5. QED
    BY <2>2, <2>3, <2>4
<1>6. \A i \in 1..w : wire[i] = stream[(k + n) + (a - n) + i]
  <2>1. TAKE i \in 1..w
  <2>2. (k + n) + (a - n) + i = k + a + i
    BY <1>3
  <2>3. QED
    BY <1>2, <2>2
<1>7. (k + n) + (a - n) + w = k + a + w
  BY <1>1, <1>3
<1>8. InTransit'
  <2>1. Available' = a - n /\ taken' = k + n /\ wire' = wire /\ stream' = stream /\ link' = link
    BY <1>4
  <2>2. taken' + Available' + Len(wire') = k + a + w /\ Len(stream') = l
    BY <1>1, <1>7, <2>1
  <2>3. \A i \in 1..Available' : recv'[pos' + i] = stream'[taken' + i]
    BY <1>5, <2>1
  <2>4. \A i \in 1..Len(wire') : wire'[i] = stream'[taken' + Available' + i]
    BY <1>1, <1>6, <2>1
  <2>5. /\ taken' + Available' + Len(wire') <= Len(stream')
        /\ link' = "up" => taken' + Available' + Len(wire') = Len(stream')
    BY <1>2, <2>1, <2>2
  <2>6. QED
    BY <2>3, <2>4, <2>5 DEF InTransit
<1>9. k + n <= l /\ k + n \in 0..l
  BY <1>1, <1>2, <1>3
<1>10. LinkTypes'
  BY <1>1, <1>4, <1>9 DEF TypeOK, LinkTypes
<1>11. \A i \in 1..n : recv[p + i] = stream[k + i]
  BY <1>1, <1>2, <1>3
<1>12. QED
  BY <1>1, <1>8, <1>9, <1>10, <1>11

LEMMA ReadConsumes ==
    ASSUME TypeOK, InTransit, link # "none", NEW n \in Nat, n = Wanted, ReadExact(n),
           UNCHANGED <<link, wire, stream>>
    PROVE  /\ InTransit' /\ LinkTypes'
           /\ n <= Available /\ taken' = taken + n /\ taken + n <= Len(stream)
           /\ \A i \in 1..n : recv[pos + i] = stream[taken + i]
<1>1. Available \in Nat /\ recv \in Seq(Unit) /\ pos \in 0..Len(recv)
  BY DEF TypeOK, Available
<1>2. n \in 0..Available
  BY <1>1 DEF ReadExact, Waiting
<1>3. /\ recv' \in Seq(Unit) /\ pos' \in 0..Len(recv')
      /\ Len(recv') - pos' = Available - n
      /\ \A i \in 1..(Available - n) : recv'[pos' + i] = recv[pos + n + i]
  <2>1. recv' = Rest(n).recv /\ pos' = Rest(n).pos
    BY DEF ReadExact
  <2>2. /\ Rest(n).recv \in Seq(Unit) /\ Rest(n).pos \in 0..Len(Rest(n).recv)
        /\ Len(Rest(n).recv) - Rest(n).pos = Available - n
        /\ \A i \in 1..(Available - n) : Rest(n).recv[Rest(n).pos + i] = recv[pos + n + i]
    BY <1>1, <1>2, RestShape
  <2>3. QED
    BY <2>1, <2>2
<1>4. taken' = taken + n
  BY DEF ReadExact
<1>5. QED
  BY <1>2, <1>3, <1>4, Consumed, SMTT(30)

\* Bytes arrive.
LEMMA FillStep ==
    ASSUME IInv, FillBuffer, UNCHANGED own, Lasting
    PROVE  IInv'
<1>1. PICK n \in 1..Len(wire) : /\ recv' = recv \o SubSeq(wire, 1, n)
                                /\ wire' = SubSeq(wire, n + 1, Len(wire))
  BY DEF FillBuffer
<1>2. UNCHANGED <<link, pos, pc, head, assembled, result, message, peer, taken, torn>>
  BY DEF FillBuffer, call
<1>3. PICK a \in Nat, k \in Nat, w \in Nat, p \in Nat, r \in Nat :
           a = Available /\ k = taken /\ w = Len(wire) /\ p = pos /\ r = Len(recv)
  <2>1. Available \in Nat
    BY DEF IInv, TypeOK, Available
  <2>2. taken \in Nat /\ Len(wire) \in Nat /\ pos \in Nat /\ Len(recv) \in Nat
    BY DEF IInv, TypeOK
  <2>3. QED
    BY <2>1, <2>2
<1>4. recv \in Seq(Unit) /\ wire \in Seq(Unit) /\ p <= r /\ a = r - p /\ n \in Nat /\ n <= w /\ n > 0
  BY <1>3 DEF IInv, TypeOK, Available
<1>5. PICK u \in Seq(Unit) : u = SubSeq(wire, 1, n) /\ Len(u) = n /\ \A i \in 1..n : u[i] = wire[i]
  <2>1. 0 \in Nat /\ 0 + n <= Len(wire) /\ 0 + 1 = 1 /\ 0 + n = n
    BY <1>3, <1>4
  <2>2. /\ SubSeq(wire, 0 + 1, 0 + n) \in Seq(Unit) /\ Len(SubSeq(wire, 0 + 1, 0 + n)) = n
        /\ \A i \in 1..n : SubSeq(wire, 0 + 1, 0 + n)[i] = wire[0 + i]
    BY <1>4, <2>1, Part
  <2>3. \A i \in 1..n : 0 + i = i
    OBVIOUS
  <2>4. QED
    BY <2>1, <2>2, <2>3
<1>6. /\ recv' \in Seq(Unit) /\ Len(recv') = r + n
      /\ \A i \in 1..r : recv'[i] = recv[i]
      /\ \A i \in 1..n : recv'[r + i] = wire[i]
  <2>1. /\ recv \o u \in Seq(Unit) /\ Len(recv \o u) = Len(recv) + Len(u)
        /\ \A i \in 1..Len(recv) : (recv \o u)[i] = recv[i]
        /\ \A i \in 1..Len(u) : (recv \o u)[Len(recv) + i] = u[i]
    BY <1>4, Catenated
  <2>2. QED
    BY <1>1, <1>3, <1>5, <2>1
<1>7. /\ wire' \in Seq(Unit) /\ Len(wire') = w - n
      /\ \A i \in 1..(w - n) : wire'[i] = wire[n + i]
  <2>1. n \in 0..Len(wire)
    BY <1>3, <1>4
  <2>2. QED
    BY <1>1, <1>3, <1>4, <2>1, Rests
<1>8. link # "none"
  <2>1. SUFFICES ASSUME pc = "closed" PROVE FALSE
    BY DEF IInv, Phases
  <2>2. ~Waiting
    BY <1>3, <2>1 DEF Waiting, Wanted
  <2>3. QED
    BY <2>2 DEF FillBuffer
<1>9. Available' = a + n
  BY <1>2, <1>3, <1>4, <1>6 DEF Available
<1>10. PICK l \in Nat : /\ l = Len(stream) /\ k + a + w <= l
                        /\ \A i \in 1..a : recv[p + i] = stream[k + i]
                        /\ \A i \in 1..w : wire[i] = stream[k + a + i]
                        /\ link = "up" => k + a + w = l
  <2>1. Len(stream) \in Nat
    BY DEF IInv, TypeOK
  <2>2. QED
    BY <1>3, <1>8, <2>1 DEF IInv, InTransit
<1>11. \A i \in 1..(a + n) : recv'[p + i] = stream[k + i]
  <2>1. TAKE i \in 1..(a + n)
  <2>2. CASE i <= a
    <3>1. p + i \in 1..r /\ i \in 1..a
      BY <1>3, <1>4, <2>2
    <3>2. QED
      BY <1>6, <1>10, <3>1
  <2>3. CASE i > a
    <3>1. i - a \in 1..n /\ i - a \in 1..w /\ p + i = r + (i - a) /\ k + i = k + a + (i - a)
      BY <1>3, <1>4, <2>3
    <3>2. recv'[r + (i - a)] = wire[i - a] /\ wire[i - a] = stream[k + a + (i - a)]
      BY <1>6, <1>10, <3>1
    <3>3. QED
      BY <3>1, <3>2
  <2>4. QED
    BY <1>3, <1>4, <2>2, <2>3
<1>12. \A i \in 1..(w - n) : wire'[i] = stream[k + (a + n) + i]
  <2>1. TAKE i \in 1..(w - n)
  <2>2. n + i \in 1..w /\ k + a + (n + i) = k + (a + n) + i
    BY <1>3, <1>4
  <2>3. wire[n + i] = stream[k + a + (n + i)]
    BY <1>10, <2>2
  <2>4. QED
    BY <1>7, <2>2, <2>3
<1>13. k + (a + n) + (w - n) = k + a + w
  BY <1>3, <1>4
<1>14. stream' = stream
  BY <1>2 DEF peer
<1>15. InTransit'
  BY <1>2, <1>3, <1>6, <1>7, <1>9, <1>10, <1>11, <1>12, <1>13, <1>14 DEF InTransit
<1>16. pos' \in 0..Len(recv')
  BY <1>2, <1>3, <1>4, <1>6
<1>17. TypeOK'
  <2>1. LinkTypes'
    BY <1>2, <1>6, <1>7, <1>14, <1>16 DEF IInv, TypeOK, LinkTypes
  <2>2. CallTypes'
    BY <1>2 DEF IInv, TypeOK, CallTypes
  <2>3. QED
    BY <1>2, <2>1, <2>2, PeerSame, OwnSame, TypesNext DEF IInv
<1>18. UNCHANGED <<stream, framed, sent, partial>> /\ UNCHANGED <<thread, got>>
  BY <1>2, PeerSame, OwnSame DEF IInv
<1>19. pc # "closed"
  BY <1>8 DEF IInv, Phases
<1>20. Phases'
  BY <1>2, <1>18, <1>19 DEF IInv, Phases
<1>21. InPlace'
  BY <1>2, <1>18, HistorySame DEF IInv, InPlace, At, Upto
<1>22. QED
  BY <1>2, <1>15, <1>17, <1>18, <1>20, <1>21, HistorySame DEF IInv


\* A step of the client on a connection that stays.
LEMMA ClientStep ==
    ASSUME IInv, UNCHANGED <<link, peer>>, LinkTypes', CallTypes', ThreadTypes',
           Phases', InTransit', InPlace'
    PROVE  IInv'
<1>1. ServerTypes' /\ UNCHANGED <<stream, framed, sent, partial>>
  BY PeerSame DEF IInv
<1>2. TypeOK'
  BY <1>1, TypesNext
<1>3. Layout' /\ Story' /\ Beginning'
  BY <1>1, HistorySame DEF IInv
<1>4. QED
  BY <1>2, <1>3 DEF IInv

\* Close: nothing is left of the connection.
LEMMA DisconnectedStep ==
    ASSUME IInv, Disconnected, ThreadTypes', thread' \in {"wait", "connect"}, got' = << >>
    PROVE  IInv'
<1>1. /\ link' = "none" /\ wire' = << >> /\ recv' = << >> /\ pos' = 0 /\ pc' = "closed"
      /\ head' = NoUnit /\ assembled' = << >> /\ result' = 0 /\ message' = << >>
      /\ open' = FALSE /\ partial' = << >> /\ frames' = frames
      /\ sent' = << >> /\ stream' = << >> /\ framed' = << >> /\ taken' = 0 /\ ~torn'
      /\ torn' \in BOOLEAN
  BY DEF Disconnected
<1>2. NoUnit \in Unit
  BY DEF NoUnit, Unit
<1>3. ServerTypes' /\ LinkTypes' /\ CallTypes'
  <2>1. /\ << >> \in Seq(Unit) /\ << >> \in Seq(Seq(Unit)) /\ << >> \in Seq(Sent)
        /\ Len(<< >>) = 0
    BY Empty
  <2>2. open' \in BOOLEAN
    BY <1>1
  <2>3. frames' \in 0..MaxFrames
    BY <1>1 DEF IInv, TypeOK
  <2>4. ServerTypes'
    BY <1>1, <2>1, <2>2, <2>3 DEF ServerTypes
  <2>5. LinkTypes'
    BY <1>1, <2>1 DEF LinkTypes
  <2>6. CallTypes'
    BY <1>1, <1>2, <2>1 DEF CallTypes
  <2>7. QED
    BY <2>4, <2>5, <2>6
<1>4. TypeOK'
  BY <1>3, TypesNext
<1>5. Phases'
  BY <1>1 DEF Phases
<1>6. InTransit' /\ Beginning'
  BY <1>1 DEF InTransit, Beginning
<1>7. Len(framed') = 0 /\ Len(sent') = 0 /\ Places' = {1}
  BY <1>1 DEF Places
<1>8. Layout'
  BY <1>7 DEF Layout
<1>9. Story'
  <2>1. Count'[1] = Len(sent')
    BY <1>7 DEF Count
  <2>2. QED
    BY <1>7, <2>1 DEF Story
<1>10. InPlace'
  BY <1>1, <1>7 DEF InPlace, At
<1>11. QED
  BY <1>4, <1>5, <1>6, <1>8, <1>9, <1>10 DEF IInv

\* A call of ReceiveTextMessage is the thread's.
LEMMA InReceive ==
    ASSUME Phases, TypeOK, pc \in {"header", "length", "payload"}
    PROVE  thread = "receive" /\ link # "none"
  BY DEF Phases, TypeOK

\* A frame is refused, or the connection has ended: the call fails.
LEMMA Fails ==
    ASSUME IInv, pc \in {"header", "length", "payload"}, Return(-1, << >>),
           UNCHANGED <<link, peer, torn, own>>, Lasting, LinkTypes', InTransit'
    PROVE  IInv'
<1>1. thread = "receive" /\ link # "none"
  BY InReceive DEF IInv
<1>2. ThreadTypes' /\ UNCHANGED <<thread, got>>
  BY OwnSame DEF IInv
<1>3. /\ pc' = "returned" /\ result' = -1 /\ message' = << >> /\ head' = NoUnit
      /\ assembled' = << >> /\ torn' = torn /\ link' = link
  BY DEF Return
<1>4. CallTypes'
  <2>1. NoUnit \in Unit /\ << >> \in Seq(Unit)
    BY DEF NoUnit, Unit
  <2>2. torn' \in BOOLEAN
    BY <1>3 DEF IInv, TypeOK
  <2>3. QED
    BY <1>3, <2>1, <2>2 DEF CallTypes
<1>5. Phases'
  BY <1>1, <1>2, <1>3 DEF Phases, IInv
<1>6. InPlace'
  <2>1. UNCHANGED <<stream, framed, sent, partial>>
    BY DEF peer
  <2>2. Places' = Places /\ Count' = Count /\ sent' = sent
    BY <2>1, HistorySame
  <2>3. SUFFICES ASSUME ~torn PROVE \E i \in Places' : At(i)'
    BY <1>3 DEF InPlace
  <2>4. PICK i \in Places : At(i)
    BY <2>3 DEF IInv, InPlace
  <2>5. got = SubSeq(sent, 1, Count[i])
    BY <2>4 DEF At, Upto
  <2>6. At(i)'
    BY <1>2, <1>3, <2>2, <2>5 DEF At
  <2>7. QED
    BY <2>2, <2>4, <2>6
<1>7. QED
  BY <1>2, <1>4, <1>5, <1>6, ClientStep

\* The connection has ended and all that came of it is read.
LEMMA FillFailsStep ==
    ASSUME IInv, FillFails, UNCHANGED own, Lasting
    PROVE  IInv'
<1>1. Waiting /\ pc \notin {"closed", "returned"}
  <2>1. Available \in Nat
    BY DEF IInv, TypeOK, Available
  <2>2. Waiting
    BY DEF FillFails
  <2>3. QED
    BY <2>1, <2>2 DEF Waiting, Wanted
<1>2. CASE pc = "hello"
  <2>1. thread = "connect" /\ got = << >> /\ UNCHANGED <<thread, got>>
    BY <1>2, OwnSame DEF IInv, TypeOK, Phases
  <2>2. Disconnected
    BY <1>2 DEF FillFails
  <2>3. QED
    BY <2>1, <2>2, OwnSame, DisconnectedStep DEF IInv
<1>3. CASE pc # "hello"
  <2>1. Return(-1, << >>) /\ UNCHANGED <<link, wire, buffer, peer, taken, torn>>
    BY <1>3 DEF FillFails
  <2>2. UNCHANGED <<link, wire, recv, pos, peer, taken, torn, stream>>
    BY <2>1 DEF buffer, peer
  <2>3. LinkTypes'
    BY <2>2 DEF IInv, TypeOK, LinkTypes
  <2>4. InTransit'
    BY <2>2 DEF IInv, InTransit, Available
  <2>5. pc \in {"header", "length", "payload"}
    BY <1>1, <1>3 DEF IInv, TypeOK
  <2>6. QED
    BY <2>1, <2>2, <2>3, <2>4, <2>5, Fails
<1>4. QED
  BY <1>2, <1>3

\* Nothing has come for long enough: the next call is at the same frame, unless this
\* one has dropped a part of a message.
LEMMA TimedOutStep ==
    ASSUME IInv, TimedOut, UNCHANGED own, Lasting
    PROVE  IInv'
<1>1. Waiting /\ pc \notin {"closed", "returned"}
  <2>1. Available \in Nat
    BY DEF IInv, TypeOK, Available
  <2>2. Waiting
    BY DEF TimedOut
  <2>3. QED
    BY <2>1, <2>2 DEF Waiting, Wanted
<1>2. CASE pc = "hello"
  <2>1. thread = "connect" /\ got = << >> /\ UNCHANGED <<thread, got>>
    BY <1>2, OwnSame DEF IInv, TypeOK, Phases
  <2>2. Disconnected
    BY <1>2 DEF TimedOut
  <2>3. QED
    BY <2>1, <2>2, OwnSame, DisconnectedStep DEF IInv
<1>3. CASE pc # "hello"
  <2>1. pc \in {"header", "length", "payload"}
    BY <1>1, <1>3 DEF IInv, TypeOK
  <2>2. thread = "receive" /\ link # "none"
    BY <2>1, InReceive DEF IInv
  <2>3. Return(0, << >>) /\ UNCHANGED <<link, wire, buffer, peer, taken>>
        /\ torn' = (torn \/ pc # "header" \/ assembled # << >>)
    BY <1>3 DEF TimedOut
  <2>4. UNCHANGED <<link, wire, recv, pos, peer, taken, stream, framed, sent, partial>>
    BY <2>3 DEF buffer, peer
  <2>5. /\ pc' = "returned" /\ result' = 0 /\ message' = << >> /\ head' = NoUnit
        /\ assembled' = << >>
    BY <2>3 DEF Return
  <2>6. ThreadTypes' /\ UNCHANGED <<thread, got>>
    BY OwnSame DEF IInv
  <2>7. LinkTypes'
    BY <2>4 DEF IInv, TypeOK, LinkTypes
  <2>8. InTransit'
    BY <2>4 DEF IInv, InTransit, Available
  <2>9. CallTypes'
    <3>1. NoUnit \in Unit /\ << >> \in Seq(Unit)
      BY DEF NoUnit, Unit
    <3>2. torn' \in BOOLEAN
      BY <2>3
    <3>3. QED
      BY <2>5, <3>1, <3>2 DEF CallTypes
  <2>10. Phases'
    BY <2>2, <2>4, <2>5, <2>6 DEF IInv, Phases
  <2>11. InPlace'
    <3>1. SUFFICES ASSUME ~torn' PROVE \E i \in Places' : At(i)'
      BY DEF InPlace
    <3>2. ~torn /\ pc = "header" /\ assembled = << >>
      BY <2>3, <3>1
    <3>3. PICK i \in Places : At(i)
      BY <3>2 DEF IInv, InPlace
    <3>4. taken = Off[i] /\ Upto(i)
      BY <3>2, <3>3 DEF At
    <3>5. Places' = Places /\ Off' = Off /\ Before' = Before /\ Count' = Count
      BY <2>4, HistorySame
    <3>6. Upto(i)'
      BY <2>4, <2>5, <2>6, <3>2, <3>4, <3>5 DEF Upto
    <3>7. At(i)'
      BY <2>4, <2>5, <3>4, <3>5, <3>6 DEF At
    <3>8. QED
      BY <3>3, <3>5, <3>7
  <2>12. UNCHANGED <<link, peer>>
    BY <2>4
  <2>13. QED
    BY <2>6, <2>7, <2>8, <2>9, <2>10, <2>11, <2>12, ClientStep
<1>4. QED
  BY <1>2, <1>3

\* The connection ends: what has not come may never come.
LEMMA PeerClosesStep ==
    ASSUME IInv, PeerCloses, UNCHANGED own, Lasting
    PROVE  IInv'
<1>1. /\ link = "up" /\ link' = "closed" /\ wire' \in {wire, << >>}
      /\ UNCHANGED <<recv, pos, pc, head, assembled, result, message, taken, torn, peer>>
  BY DEF PeerCloses, buffer, call
<1>2. ServerTypes' /\ UNCHANGED <<stream, framed, sent, partial>>
  BY <1>1, PeerSame DEF IInv
<1>3. ThreadTypes' /\ UNCHANGED <<thread, got>>
  BY OwnSame DEF IInv
<1>4. Layout' /\ Story' /\ Beginning' /\ Places' = Places /\ Off' = Off
      /\ Before' = Before /\ Count' = Count
  BY <1>1, <1>2, HistorySame DEF IInv
<1>5. LinkTypes'
  <2>1. wire' \in Seq(Unit)
    <3>1. << >> \in Seq(Unit)
      BY Empty
    <3>2. wire \in Seq(Unit)
      BY DEF IInv, TypeOK
    <3>3. QED
      BY <1>1, <3>1, <3>2
  <2>2. QED
    BY <1>1, <1>2, <2>1 DEF IInv, TypeOK, LinkTypes
<1>6. CallTypes'
  BY <1>1 DEF IInv, TypeOK, CallTypes
<1>7. Phases'
  BY <1>1, <1>2, <1>3 DEF IInv, Phases
<1>8. InTransit'
  <2>1. PICK a \in Nat, k \in Nat, w \in Nat, l \in Nat :
             a = Available /\ k = taken /\ w = Len(wire) /\ l = Len(stream)
    <3>1. Available \in Nat
      BY DEF IInv, TypeOK, Available
    <3>2. taken \in Nat /\ Len(wire) \in Nat /\ Len(stream) \in Nat
      BY DEF IInv, TypeOK
    <3>3. QED
      BY <3>1, <3>2
  <2>2. /\ k + a + w <= l
        /\ \A i \in 1..a : recv[pos + i] = stream[k + i]
        /\ \A i \in 1..w : wire[i] = stream[k + a + i]
    BY <1>1, <2>1 DEF IInv, InTransit
  <2>3. Available' = a /\ taken' = k /\ stream' = stream /\ recv' = recv /\ pos' = pos
    BY <1>1, <1>2, <2>1 DEF Available
  <2>4. \A i \in 1..Available' : recv'[pos' + i] = stream'[taken' + i]
    BY <2>2, <2>3
  <2>5. Len(wire') \in {w, 0} /\ \A i \in 1..Len(wire') : wire'[i] = stream[k + a + i]
    BY <1>1, <2>1, <2>2
  <2>6. k + a + Len(wire') <= l
    BY <2>1, <2>2, <2>5
  <2>7. QED
    BY <1>1, <2>1, <2>3, <2>4, <2>5, <2>6 DEF InTransit
<1>9. InPlace'
  BY <1>1, <1>2, <1>3, <1>4 DEF IInv, InPlace, At, Upto
<1>10. QED
  BY <1>2, <1>3, <1>4, <1>5, <1>6, <1>7, <1>8, <1>9, TypesNext DEF IInv

\* The upgrade is accepted; what came with the answer stays.
LEMMA HelloStep ==
    ASSUME IInv, Hello, UNCHANGED own, Lasting
    PROVE  IInv'
<1>1. pc = "hello" /\ thread = "connect" /\ got = << >> /\ ~torn /\ taken = 0 /\ link # "none"
  BY DEF IInv, TypeOK, Phases, Hello
<1>2. ThreadTypes' /\ UNCHANGED <<thread, got>>
  BY OwnSame DEF IInv
<1>3. CASE Disconnected
  BY <1>1, <1>2, <1>3, DisconnectedStep
<1>4. CASE /\ pos' = AfterHello /\ taken' = taken + 1 /\ Return(0, << >>)
           /\ UNCHANGED <<link, wire, recv, peer, torn>>
  <2>1. /\ pc' = "returned" /\ result' = 0 /\ message' = << >> /\ head' = NoUnit
        /\ assembled' = << >> /\ pos' = pos + 1 /\ taken' = 1
        /\ UNCHANGED <<stream, framed, sent, partial>>
    BY <1>1, <1>4 DEF Return, AfterHello, peer
  <2>2. InTransit' /\ LinkTypes'
    <3>1. /\ Available \in Nat /\ Available = Len(recv) - pos /\ pos \in Nat /\ Len(recv) \in Nat
          /\ recv \in Seq(Unit)
      BY DEF IInv, TypeOK, Available
    <3>2. Available >= 1
      BY <1>1, <3>1 DEF Hello, Waiting, Wanted
    <3>3. PICK n : n = 1
      OBVIOUS
    <3>4. n \in 0..Available /\ taken' = taken + n /\ recv' = recv
      BY <1>4, <3>1, <3>2, <3>3
    <3>5. recv' \in Seq(Unit) /\ pos' \in 0..Len(recv') /\ Len(recv') - pos' = Available - n
      BY <2>1, <3>1, <3>2, <3>3, <3>4
    <3>6. \A i \in 1..(Available - n) : recv'[pos' + i] = recv[pos + n + i]
      BY <2>1, <3>1, <3>3, <3>4
    <3>7. QED
      BY <1>1, <1>4, <2>1, <3>4, <3>5, <3>6, Consumed DEF IInv
  <2>3. CallTypes'
    <3>1. NoUnit \in Unit /\ << >> \in Seq(Unit)
      BY DEF NoUnit, Unit
    <3>2. torn' \in BOOLEAN
      BY <1>4 DEF IInv, TypeOK
    <3>3. QED
      BY <2>1, <3>1, <3>2 DEF CallTypes
  <2>4. Phases'
    BY <1>1, <1>2, <1>4, <2>1 DEF IInv, Phases
  <2>5. InPlace'
    <3>1. Places' = Places /\ Off' = Off /\ Before' = Before /\ Count' = Count
      BY <2>1, HistorySame
    <3>2. Off[1] = 1 /\ Before[1] = << >> /\ Count[1] = 0
      BY <1>1 DEF IInv, Beginning
    <3>3. got' = SubSeq(sent', 1, Count'[1])
      <4>1. sent' \in Seq(Seq(Unit))
        BY <2>1 DEF IInv, TypeOK
      <4>2. SubSeq(sent', 1, 0) = << >>
        BY <4>1, Empty
      <4>3. QED
        BY <1>1, <1>2, <3>1, <3>2, <4>2
    <3>4. Upto(1)'
      BY <2>1, <3>1, <3>2, <3>3 DEF Upto
    <3>5. At(1)'
      BY <2>1, <3>1, <3>2, <3>4 DEF At
    <3>6. 1 \in Places
      BY Marks DEF IInv, Places
    <3>7. QED
      BY <3>1, <3>5, <3>6 DEF InPlace
  <2>6. QED
    BY <1>2, <1>4, <2>2, <2>3, <2>4, <2>5, ClientStep
<1>5. QED
  BY <1>3, <1>4 DEF Hello

\* The length of frame i is known.
LEMMA SizedStep ==
    ASSUME IInv, pc \in {"header", "length"}, NEW h \in Unit, Sized(h),
           UNCHANGED <<link, wire, peer, torn, own>>, Lasting, LinkTypes', InTransit',
           ~torn => \E i \in Places :
                       /\ i <= Len(framed) /\ Upto(i)
                       /\ taken' = Off[i] + HeadLen(framed[i])
                       /\ h = Header(framed[i].fin, framed[i].op, Len(framed[i].body))
    PROVE  IInv'
<1>1. CASE TooLong(h.len)
  <2>1. Return(-1, << >>)
    BY <1>1 DEF Sized
  <2>2. QED
    BY <2>1, Fails
<1>2. CASE ~TooLong(h.len)
  <2>1. pc' = "payload" /\ head' = h /\ UNCHANGED <<assembled, result, message>>
    BY <1>2 DEF Sized
  <2>2. thread = "receive" /\ link # "none"
    BY InReceive DEF IInv
  <2>3. ThreadTypes' /\ UNCHANGED <<thread, got>> /\ UNCHANGED <<stream, framed, sent, partial>>
    BY OwnSame, PeerSame DEF IInv
  <2>4. CallTypes'
    BY <2>1 DEF IInv, TypeOK, CallTypes
  <2>5. Phases'
    BY <2>1, <2>2, <2>3 DEF IInv, Phases
  <2>6. InPlace'
    <3>1. SUFFICES ASSUME ~torn' PROVE \E i \in Places' : At(i)'
      BY DEF InPlace
    <3>2. PICK i \in Places :
             /\ i <= Len(framed) /\ Upto(i)
             /\ taken' = Off[i] + HeadLen(framed[i])
             /\ h = Header(framed[i].fin, framed[i].op, Len(framed[i].body))
      BY <3>1
    <3>3. Places' = Places /\ Off' = Off /\ Before' = Before /\ Count' = Count
      BY <2>3, HistorySame
    <3>4. Upto(i)'
      BY <2>1, <2>3, <3>2, <3>3 DEF Upto
    <3>5. HeadLen(framed[i])' = HeadLen(framed[i])
      BY <2>3 DEF HeadLen
    <3>6. At(i)'
      BY <2>1, <2>3, <3>2, <3>3, <3>4, <3>5 DEF At
    <3>7. QED
      BY <3>2, <3>3, <3>6
  <2>7. UNCHANGED <<link, peer>>
    OBVIOUS
  <2>8. QED
    BY <2>3, <2>4, <2>5, <2>6, <2>7, ClientStep
<1>3. QED
  BY <1>1, <1>2

\* Where frame i lies in the stream.
LEMMA FrameAt ==
    ASSUME TypeOK, Layout, NEW i \in Places, i <= Len(framed)
    PROVE  /\ i + 1 \in Places
           /\ framed[i] \in Sent /\ Off[i] \in Nat /\ Off[i] = framed[i].off
           /\ Before[i] = framed[i].before /\ Count[i] = framed[i].count
           /\ Lies(framed[i], Off[i + 1], stream)
           /\ Len(framed[i].body) \in Nat /\ HeadLen(framed[i]) \in {1, 2}
<1>1. Len(framed) \in Nat /\ i \in 1..Len(framed) /\ i + 1 \in Places
  BY Marks DEF Places
<1>2. framed[i] \in Sent /\ Off[i] \in Nat
  BY <1>1, Marks
<1>3. Off[i] = framed[i].off /\ Before[i] = framed[i].before /\ Count[i] = framed[i].count
  BY DEF Off, Before, Count
<1>4. Lies(framed[i], Off[i + 1], stream)
  BY <1>1 DEF Layout
<1>5. Len(framed[i].body) \in Nat
  BY <1>2 DEF Sent
<1>6. HeadLen(framed[i]) \in {1, 2}
  BY DEF HeadLen
<1>7. QED
  BY <1>1, <1>2, <1>3, <1>4, <1>5, <1>6

LEMMA ReadHeaderStep ==
    ASSUME IInv, ReadHeader, UNCHANGED own, Lasting
    PROVE  IInv'
<1>1. /\ pc = "header" /\ ReadExact(1) /\ UNCHANGED <<link, wire, peer, torn>>
      /\ thread = "receive" /\ link # "none"
  BY InReceive DEF IInv, ReadHeader
<1>2. UNCHANGED <<stream, framed, sent, partial>> /\ ThreadTypes' /\ UNCHANGED <<thread, got>>
  BY <1>1, PeerSame, OwnSame DEF IInv
<1>3. /\ InTransit' /\ LinkTypes' /\ 1 <= Available /\ taken' = taken + 1
      /\ taken + 1 <= Len(stream)
      /\ recv[pos + 1] = stream[taken + 1]
  <2>1. PICK n \in Nat : n = 1
    OBVIOUS
  <2>2. n = Wanted /\ ReadExact(n)
    BY <1>1, <2>1 DEF Wanted
  <2>3. /\ InTransit' /\ LinkTypes' /\ n <= Available /\ taken' = taken + n
        /\ taken + n <= Len(stream)
        /\ \A i \in 1..n : recv[pos + i] = stream[taken + i]
    BY <1>1, <1>2, <2>2, ReadConsumes DEF IInv
  <2>4. 1 \in 1..n
    BY <2>1
  <2>5. QED
    BY <2>1, <2>3, <2>4
<1>4. PICK h \in Unit : h = recv[pos + 1]
  <2>1. recv \in Seq(Unit) /\ pos \in Nat /\ Len(recv) \in Nat /\ Available = Len(recv) - pos
    <3>1. recv \in Seq(Unit) /\ pos \in 0..Len(recv)
      BY DEF IInv, TypeOK
    <3>2. QED
      BY <3>1 DEF Available
  <2>2. pos + 1 \in 1..Len(recv)
    BY <1>3, <2>1
  <2>3. QED
    BY <2>1, <2>2
<1>5. ASSUME ~torn
      PROVE  \E i \in Places :
                /\ i <= Len(framed) /\ Upto(i) /\ taken = Off[i]
                /\ h = Header(framed[i].fin, framed[i].op,
                              IF HeadLen(framed[i]) = 1 THEN Len(framed[i].body) ELSE Wide)
  <2>1. PICK i \in Places : At(i)
    BY <1>5 DEF IInv, InPlace
  <2>2. taken = Off[i] /\ Upto(i)
    BY <1>1, <2>1 DEF At
  <2>3. i <= Len(framed)
    <3>1. ~(i <= Len(framed)) => Off[i] = Len(stream)
      BY DEF Off
    <3>2. taken \in Nat /\ Len(stream) \in Nat
      BY DEF IInv, TypeOK
    <3>3. ~(taken = Len(stream))
      BY <1>3, <3>2
    <3>4. QED
      BY <2>2, <3>1, <3>3
  <2>4. Off[i] = framed[i].off /\ Lies(framed[i], Off[i + 1], stream)
    BY <2>3, FrameAt DEF IInv
  <2>5. h = Header(framed[i].fin, framed[i].op,
                   IF HeadLen(framed[i]) = 1 THEN Len(framed[i].body) ELSE Wide)
    BY <1>3, <1>4, <2>2, <2>4 DEF Lies
  <2>6. QED
    BY <2>2, <2>3, <2>5
\* a length that fits in the header is not the mark of a longer one
<1>6. ASSUME NEW i \in Places, i <= Len(framed),
             h = Header(framed[i].fin, framed[i].op,
                        IF HeadLen(framed[i]) = 1 THEN Len(framed[i].body) ELSE Wide)
      PROVE  HeadLen(framed[i]) = IF h.len = Wide THEN 2 ELSE 1
  <2>1. h.len = IF HeadLen(framed[i]) = 1 THEN Len(framed[i].body) ELSE Wide
    BY <1>6 DEF Header
  <2>2. Len(framed[i].body) \in Nat /\ HeadLen(framed[i]) \in {1, 2}
    BY <1>6, FrameAt DEF IInv
  <2>3. HeadLen(framed[i]) = 1 => Len(framed[i].body) <= Short
    BY DEF HeadLen
  <2>4. Short < Wide /\ Short \in Nat /\ Wide \in Nat
    BY ShortAssumption DEF Wide
  <2>5. HeadLen(framed[i]) = 1 => h.len # Wide
    BY <2>1, <2>2, <2>3, <2>4
  <2>6. QED
    BY <2>1, <2>2, <2>5
<1>7. CASE h.len = Wide
  <2>1. pc' = "length" /\ head' = h /\ UNCHANGED <<assembled, result, message>>
    BY <1>4, <1>7 DEF ReadHeader
  <2>2. CallTypes'
    BY <1>1, <2>1 DEF IInv, TypeOK, CallTypes
  <2>3. Phases'
    BY <1>1, <1>2, <2>1 DEF IInv, Phases
  <2>4. InPlace'
    <3>1. SUFFICES ASSUME ~torn' PROVE \E i \in Places' : At(i)'
      BY DEF InPlace
    <3>2. PICK i \in Places :
             /\ i <= Len(framed) /\ Upto(i) /\ taken = Off[i]
             /\ h = Header(framed[i].fin, framed[i].op,
                           IF HeadLen(framed[i]) = 1 THEN Len(framed[i].body) ELSE Wide)
      BY <1>1, <1>5, <3>1
    <3>3. Places' = Places /\ Off' = Off /\ Before' = Before /\ Count' = Count
      BY <1>2, HistorySame
    <3>4. Upto(i)'
      BY <1>2, <2>1, <3>2, <3>3 DEF Upto
    <3>5. HeadLen(framed[i]) = 2 /\ HeadLen(framed[i])' = HeadLen(framed[i])
      <4>1. HeadLen(framed[i]) = 2
        BY <1>6, <1>7, <3>2
      <4>2. HeadLen(framed[i])' = HeadLen(framed[i])
        BY <1>2 DEF HeadLen
      <4>3. QED
        BY <4>1, <4>2
    <3>6. head'.fin = framed[i].fin /\ head'.op = framed[i].op
      BY <2>1, <3>2 DEF Header
    <3>7. At(i)'
      BY <1>2, <1>3, <2>1, <3>2, <3>3, <3>4, <3>5, <3>6 DEF At
    <3>8. QED
      BY <3>2, <3>3, <3>7
  <2>5. QED
    BY <1>1, <1>2, <1>3, <2>2, <2>3, <2>4, ClientStep
<1>8. CASE h.len # Wide
  <2>1. Sized(h)
    BY <1>4, <1>8 DEF ReadHeader
  <2>2. ~torn => \E i \in Places :
                    /\ i <= Len(framed) /\ Upto(i)
                    /\ taken' = Off[i] + HeadLen(framed[i])
                    /\ h = Header(framed[i].fin, framed[i].op, Len(framed[i].body))
    <3>1. SUFFICES ASSUME ~torn
                   PROVE  \E i \in Places :
                             /\ i <= Len(framed) /\ Upto(i)
                             /\ taken' = Off[i] + HeadLen(framed[i])
                             /\ h = Header(framed[i].fin, framed[i].op, Len(framed[i].body))
      OBVIOUS
    <3>2. PICK i \in Places :
             /\ i <= Len(framed) /\ Upto(i) /\ taken = Off[i]
             /\ h = Header(framed[i].fin, framed[i].op,
                           IF HeadLen(framed[i]) = 1 THEN Len(framed[i].body) ELSE Wide)
      BY <1>5, <3>1
    <3>3. HeadLen(framed[i]) = 1
      BY <1>6, <1>8, <3>2
    <3>4. QED
      BY <1>3, <3>2, <3>3
  <2>3. QED
    BY <1>1, <1>3, <2>1, <2>2, SizedStep
<1>9. QED
  BY <1>7, <1>8

LEMMA ReadLengthStep ==
    ASSUME IInv, ReadLength, UNCHANGED own, Lasting
    PROVE  IInv'
<1>1. /\ pc = "length" /\ ReadExact(1) /\ UNCHANGED <<link, wire, peer, torn>>
      /\ thread = "receive" /\ link # "none"
  BY InReceive DEF IInv, ReadLength
<1>2. UNCHANGED <<stream, framed, sent, partial>>
  BY <1>1, PeerSame DEF IInv
<1>3. /\ InTransit' /\ LinkTypes' /\ 1 <= Available /\ taken' = taken + 1
      /\ recv[pos + 1] = stream[taken + 1]
  <2>1. PICK n \in Nat : n = 1
    OBVIOUS
  <2>2. n = Wanted /\ ReadExact(n)
    BY <1>1, <2>1 DEF Wanted
  <2>3. /\ InTransit' /\ LinkTypes' /\ n <= Available /\ taken' = taken + n
        /\ \A i \in 1..n : recv[pos + i] = stream[taken + i]
    BY <1>1, <1>2, <2>2, ReadConsumes DEF IInv
  <2>4. 1 \in 1..n
    BY <2>1
  <2>5. QED
    BY <2>1, <2>3, <2>4
<1>4. recv[pos + 1] \in Unit
  <2>1. recv \in Seq(Unit) /\ pos \in Nat /\ Len(recv) \in Nat /\ Available = Len(recv) - pos
    <3>1. recv \in Seq(Unit) /\ pos \in 0..Len(recv)
      BY DEF IInv, TypeOK
    <3>2. QED
      BY <3>1 DEF Available
  <2>2. pos + 1 \in 1..Len(recv)
    BY <1>3, <2>1
  <2>3. QED
    BY <2>1, <2>2
<1>5. PICK h \in Unit : h = Header(head.fin, head.op, recv[pos + 1].len)
  <2>1. head.fin \in BOOLEAN /\ head.op \in Ops /\ recv[pos + 1].len \in Nat
    BY <1>4 DEF IInv, TypeOK, Unit, Ops
  <2>2. QED
    BY <2>1, HeaderType
<1>6. ~torn => \E i \in Places :
                  /\ i <= Len(framed) /\ Upto(i)
                  /\ taken' = Off[i] + HeadLen(framed[i])
                  /\ h = Header(framed[i].fin, framed[i].op, Len(framed[i].body))
  <2>1. SUFFICES ASSUME ~torn
                 PROVE  \E i \in Places :
                           /\ i <= Len(framed) /\ Upto(i)
                           /\ taken' = Off[i] + HeadLen(framed[i])
                           /\ h = Header(framed[i].fin, framed[i].op, Len(framed[i].body))
    OBVIOUS
  <2>2. PICK i \in Places : At(i)
    BY <2>1 DEF IInv, InPlace
  <2>3. /\ i <= Len(framed) /\ HeadLen(framed[i]) = 2 /\ taken = Off[i] + 1 /\ Upto(i)
        /\ head.fin = framed[i].fin /\ head.op = framed[i].op
    BY <1>1, <2>2 DEF At
  <2>4. Off[i] \in Nat /\ Off[i] = framed[i].off /\ Lies(framed[i], Off[i + 1], stream)
    BY <2>3, FrameAt DEF IInv
  <2>5. taken + 1 = Off[i] + 2
    BY <2>3, <2>4
  <2>6. recv[pos + 1].len = Len(framed[i].body)
    BY <1>3, <2>3, <2>4, <2>5 DEF Lies
  <2>7. taken' = Off[i] + HeadLen(framed[i])
    BY <1>3, <2>3, <2>5
  <2>8. QED
    BY <1>5, <2>3, <2>6, <2>7
<1>7. Sized(h)
  BY <1>5 DEF ReadLength
<1>8. QED
  BY <1>1, <1>3, <1>6, <1>7, SizedStep

\* Frame i has been read: the client is at the next one, and what the server has
\* told with it is told.
LEMMA Onward ==
    ASSUME IInv, NEW i \in Places, i <= Len(framed), Upto(i),
           NEW body \in Seq(Unit), body = framed[i].body
    PROVE  /\ i + 1 \in Places
           /\ Off[i + 1] = Off[i] + HeadLen(framed[i]) + Len(body)
           /\ Count[i] \in Nat /\ Count[i + 1] \in Nat /\ Count[i + 1] <= Len(sent)
           /\ got = SubSeq(sent, 1, Count[i])
           /\ IF framed[i].op \notin {"text", "cont"}
                THEN Before[i + 1] = assembled /\ Count[i + 1] = Count[i]
              ELSE IF framed[i].fin
                THEN /\ Before[i + 1] = << >>
                     /\ Count[i + 1] = Count[i] + 1
                     /\ sent[Count[i + 1]] = assembled \o body
              ELSE Before[i + 1] = assembled \o body /\ Count[i + 1] = Count[i]
<1>1. /\ i + 1 \in Places /\ Off[i] = framed[i].off
      /\ Before[i] = framed[i].before /\ Count[i] = framed[i].count
      /\ Lies(framed[i], Off[i + 1], stream)
  BY FrameAt DEF IInv
<1>2. i \in 1..Len(framed)
  BY Marks DEF IInv, Places
<1>3. Tells(framed[i], Before[i + 1], Count[i + 1], sent) /\ Count[i + 1] <= Len(sent)
  BY <1>1, <1>2 DEF IInv, Story
<1>4. assembled = framed[i].before /\ got = SubSeq(sent, 1, Count[i])
  BY <1>1 DEF Upto
<1>5. Off[i + 1] = Off[i] + HeadLen(framed[i]) + Len(body)
  BY <1>1 DEF Lies
<1>6. Count[i] \in Nat /\ Count[i + 1] \in Nat
  BY <1>1, Marks DEF IInv
<1>7. IF framed[i].op \notin {"text", "cont"}
        THEN Before[i + 1] = assembled /\ Count[i + 1] = Count[i]
      ELSE IF framed[i].fin
                THEN /\ Before[i + 1] = << >>
                     /\ Count[i + 1] = Count[i] + 1
                     /\ sent[Count[i + 1]] = assembled \o body
      ELSE Before[i + 1] = assembled \o body /\ Count[i + 1] = Count[i]
  BY <1>1, <1>3, <1>4 DEF Tells
<1>8. QED
  BY <1>1, <1>3, <1>4, <1>5, <1>6, <1>7

\* The next frame is read, and what is assembled is what came before it.
LEMMA NextFrameStep ==
    ASSUME IInv, pc = "payload", NextFrame, assembled' \in Seq(Unit),
           UNCHANGED <<link, wire, peer, torn, own>>, Lasting, LinkTypes', InTransit',
           ~torn => \E i \in Places : /\ taken' = Off[i] /\ assembled' = Before[i]
                                      /\ got = SubSeq(sent, 1, Count[i])
    PROVE  IInv'
<1>1. pc' = "header" /\ head' = NoUnit /\ UNCHANGED <<result, message>>
  BY DEF NextFrame
<1>2. thread = "receive" /\ link # "none"
  BY InReceive DEF IInv
<1>3. ThreadTypes' /\ UNCHANGED <<thread, got>> /\ UNCHANGED <<stream, framed, sent, partial>>
  BY OwnSame, PeerSame DEF IInv
<1>4. CallTypes'
  <2>1. NoUnit \in Unit
    BY DEF NoUnit, Unit
  <2>2. QED
    BY <1>1, <2>1 DEF IInv, TypeOK, CallTypes
<1>5. Phases'
  BY <1>1, <1>2, <1>3 DEF IInv, Phases
<1>6. InPlace'
  <2>1. SUFFICES ASSUME ~torn PROVE \E i \in Places' : At(i)'
    BY DEF InPlace
  <2>2. PICK i \in Places : /\ taken' = Off[i] /\ assembled' = Before[i]
                            /\ got = SubSeq(sent, 1, Count[i])
    BY <2>1
  <2>3. Places' = Places /\ Off' = Off /\ Before' = Before /\ Count' = Count
    BY <1>3, HistorySame
  <2>4. At(i)'
    BY <1>1, <1>3, <2>2, <2>3 DEF At, Upto
  <2>5. QED
    BY <2>2, <2>3, <2>4
<1>7. QED
  BY <1>3, <1>4, <1>5, <1>6, ClientStep

\* A message is complete.
LEMMA MessageStep ==
    ASSUME IInv, pc = "payload", NEW m \in Seq(Unit), Return(1, m),
           UNCHANGED <<link, wire, peer, torn, own>>, Lasting, LinkTypes', InTransit',
           ~torn => \E i \in Places : /\ taken' = Off[i] /\ Before[i] = << >> /\ Count[i] > 0
                                      /\ got = SubSeq(sent, 1, Count[i] - 1)
                                      /\ m = sent[Count[i]]
    PROVE  IInv'
<1>1. pc' = "returned" /\ result' = 1 /\ message' = m /\ head' = NoUnit /\ assembled' = << >>
  BY DEF Return
<1>2. thread = "receive" /\ link # "none"
  BY InReceive DEF IInv
<1>3. ThreadTypes' /\ UNCHANGED <<thread, got>> /\ UNCHANGED <<stream, framed, sent, partial>>
  BY OwnSame, PeerSame DEF IInv
<1>4. CallTypes'
  <2>1. NoUnit \in Unit /\ << >> \in Seq(Unit)
    BY DEF NoUnit, Unit
  <2>2. torn' \in BOOLEAN
    BY DEF IInv, TypeOK
  <2>3. QED
    BY <1>1, <2>1, <2>2 DEF CallTypes
<1>5. Phases'
  BY <1>1, <1>2, <1>3 DEF IInv, Phases
<1>6. InPlace'
  <2>1. SUFFICES ASSUME ~torn PROVE \E i \in Places' : At(i)'
    BY DEF InPlace
  <2>2. PICK i \in Places : /\ taken' = Off[i] /\ Before[i] = << >> /\ Count[i] > 0
                            /\ got = SubSeq(sent, 1, Count[i] - 1)
                            /\ m = sent[Count[i]]
    BY <2>1
  <2>3. Places' = Places /\ Off' = Off /\ Before' = Before /\ Count' = Count
    BY <1>3, HistorySame
  <2>4. At(i)'
    BY <1>1, <1>3, <2>2, <2>3 DEF At
  <2>5. QED
    BY <2>2, <2>3, <2>4
<1>7. QED
  BY <1>3, <1>4, <1>5, <1>6, ClientStep

\* The payload of frame i.
LEMMA PayloadRead ==
    ASSUME IInv, ReadPayload
    PROVE  /\ UNCHANGED <<link, wire, peer, torn>> /\ pc = "payload"
           /\ InTransit' /\ LinkTypes' /\ assembled \in Seq(Unit)
           /\ head.fin \in BOOLEAN /\ head.op \in Ops
           /\ \E body \in Seq(Unit) :
                 /\ body = SubSeq(recv, pos + 1, pos + head.len)
                 /\ ~torn => \E i \in Places :
                                /\ i <= Len(framed) /\ Upto(i) /\ body = framed[i].body
                                /\ head.fin = framed[i].fin /\ head.op = framed[i].op
                                /\ taken' = Off[i] + HeadLen(framed[i]) + Len(body)
<1>1. pc = "payload" /\ ReadExact(head.len) /\ UNCHANGED <<link, wire, peer, torn>> /\ link # "none"
  BY InReceive DEF IInv, ReadPayload
<1>2. UNCHANGED <<stream, framed, sent, partial>>
  BY <1>1, PeerSame DEF IInv
<1>3. head.fin \in BOOLEAN /\ head.op \in Ops /\ head.len \in Nat /\ assembled \in Seq(Unit)
  BY DEF IInv, TypeOK, Unit, Ops
<1>4. PICK n \in Nat : n = head.len
  BY <1>3
<1>5. /\ InTransit' /\ LinkTypes' /\ n <= Available /\ taken' = taken + n
      /\ \A j \in 1..n : recv[pos + j] = stream[taken + j]
  <2>1. n = Wanted /\ ReadExact(n)
    BY <1>1, <1>4 DEF Wanted
  <2>2. QED
    BY <1>1, <1>2, <2>1, ReadConsumes DEF IInv
<1>6. PICK body \in Seq(Unit) : /\ body = SubSeq(recv, pos + 1, pos + n) /\ Len(body) = n
                                /\ \A j \in 1..n : body[j] = recv[pos + j]
  <2>1. recv \in Seq(Unit) /\ pos \in Nat /\ Len(recv) \in Nat /\ Available = Len(recv) - pos
    <3>1. recv \in Seq(Unit) /\ pos \in 0..Len(recv)
      BY DEF IInv, TypeOK
    <3>2. QED
      BY <3>1 DEF Available
  <2>2. pos + n <= Len(recv)
    BY <1>5, <2>1
  <2>3. /\ SubSeq(recv, pos + 1, pos + n) \in Seq(Unit) /\ Len(SubSeq(recv, pos + 1, pos + n)) = n
        /\ \A j \in 1..n : SubSeq(recv, pos + 1, pos + n)[j] = recv[pos + j]
    <3>1. recv \in Seq(Unit) /\ pos \in Nat /\ n \in Nat /\ pos + n <= Len(recv)
      BY <2>1, <2>2
    <3>2. QED
      BY <3>1, Part
  <2>4. QED
    BY <2>3
<1>7. ASSUME ~torn
      PROVE  \E i \in Places :
                /\ i <= Len(framed) /\ Upto(i) /\ body = framed[i].body
                /\ head.fin = framed[i].fin /\ head.op = framed[i].op
                /\ taken' = Off[i] + HeadLen(framed[i]) + Len(body)
  <2>1. PICK i \in Places : At(i)
    BY <1>7 DEF IInv, InPlace
  <2>2. /\ i <= Len(framed) /\ Upto(i) /\ taken = Off[i] + HeadLen(framed[i])
        /\ head = Header(framed[i].fin, framed[i].op, Len(framed[i].body))
    BY <1>1, <2>1 DEF At
  <2>3. /\ framed[i] \in Sent /\ Off[i] = framed[i].off
        /\ Lies(framed[i], Off[i + 1], stream)
    BY <2>2, FrameAt DEF IInv
  <2>4. head.fin = framed[i].fin /\ head.op = framed[i].op /\ n = Len(framed[i].body)
    BY <1>4, <2>2 DEF Header
  <2>5. framed[i].body \in Seq(Unit)
    BY <2>3 DEF Sent
  <2>6. \A j \in 1..n : stream[taken + j] = framed[i].body[j]
    BY <2>2, <2>3, <2>4 DEF Lies
  <2>7. Len(body) = Len(framed[i].body) /\ \A j \in 1..Len(body) : body[j] = framed[i].body[j]
    <3>1. \A j \in 1..n : body[j] = framed[i].body[j]
      BY <1>5, <1>6, <2>6
    <3>2. QED
      BY <1>6, <2>4, <3>1
  <2>8. body = framed[i].body
    BY <2>5, <2>7, Same
  <2>9. taken' = Off[i] + HeadLen(framed[i]) + Len(body)
    BY <1>5, <1>6, <2>2
  <2>10. QED
    BY <2>2, <2>4, <2>8, <2>9
<1>8. QED
  BY <1>1, <1>3, <1>4, <1>5, <1>6, <1>7

LEMMA ReadPayloadStep ==
    ASSUME IInv, ReadPayload, UNCHANGED own, Lasting
    PROVE  IInv'
<1>1. /\ UNCHANGED <<link, wire, peer, torn>> /\ pc = "payload"
      /\ InTransit' /\ LinkTypes' /\ assembled \in Seq(Unit)
      /\ head.fin \in BOOLEAN /\ head.op \in Ops
  BY PayloadRead
<1>2. PICK body \in Seq(Unit) :
           /\ body = SubSeq(recv, pos + 1, pos + head.len)
           /\ ~torn => \E i \in Places :
                          /\ i <= Len(framed) /\ Upto(i) /\ body = framed[i].body
                          /\ head.fin = framed[i].fin /\ head.op = framed[i].op
                          /\ taken' = Off[i] + HeadLen(framed[i]) + Len(body)
  BY PayloadRead
<1>3. PICK op \in Ops, fin \in BOOLEAN : op = head.op /\ fin = head.fin
  BY <1>1
<1>4. Dispatch(body)
  BY <1>2 DEF ReadPayload
<1>5. assembled \o body \in Seq(Unit)
  BY <1>1, Catenated
\* where the client is after this frame, and what it holds
<1>6. ~torn => \E k \in Places :
                  /\ taken' = Off[k] /\ Count[k] \in Nat
                  /\ op \notin {"text", "cont"} => /\ Before[k] = assembled
                                                   /\ got = SubSeq(sent, 1, Count[k])
                  /\ op \in {"text", "cont"} /\ fin =>
                        /\ Before[k] = << >> /\ Count[k] > 0
                        /\ got = SubSeq(sent, 1, Count[k] - 1)
                        /\ sent[Count[k]] = assembled \o body
                  /\ op \in {"text", "cont"} /\ ~fin => /\ Before[k] = assembled \o body
                                                        /\ got = SubSeq(sent, 1, Count[k])
  <2>1. SUFFICES ASSUME ~torn
        PROVE  \E k \in Places :
                  /\ taken' = Off[k] /\ Count[k] \in Nat
                  /\ op \notin {"text", "cont"} => /\ Before[k] = assembled
                                                   /\ got = SubSeq(sent, 1, Count[k])
                  /\ op \in {"text", "cont"} /\ fin =>
                        /\ Before[k] = << >> /\ Count[k] > 0
                        /\ got = SubSeq(sent, 1, Count[k] - 1)
                        /\ sent[Count[k]] = assembled \o body
                  /\ op \in {"text", "cont"} /\ ~fin => /\ Before[k] = assembled \o body
                                                        /\ got = SubSeq(sent, 1, Count[k])
    OBVIOUS
  <2>2. PICK i \in Places :
             /\ i <= Len(framed) /\ Upto(i) /\ body = framed[i].body
             /\ fin = framed[i].fin /\ op = framed[i].op
             /\ taken' = Off[i] + HeadLen(framed[i]) + Len(body)
    BY <1>2, <1>3, <2>1
  <2>3. /\ i + 1 \in Places
        /\ Off[i + 1] = Off[i] + HeadLen(framed[i]) + Len(body)
        /\ Count[i] \in Nat /\ Count[i + 1] \in Nat
        /\ got = SubSeq(sent, 1, Count[i])
        /\ IF framed[i].op \notin {"text", "cont"}
             THEN Before[i + 1] = assembled /\ Count[i + 1] = Count[i]
           ELSE IF framed[i].fin
             THEN /\ Before[i + 1] = << >>
                  /\ Count[i + 1] = Count[i] + 1
                  /\ sent[Count[i + 1]] = assembled \o body
           ELSE Before[i + 1] = assembled \o body /\ Count[i + 1] = Count[i]
    BY <2>2, Onward
  <2>4. PICK k \in Places : k = i + 1
    BY <2>3
  <2>5. taken' = Off[k] /\ Count[k] \in Nat
    BY <2>2, <2>3, <2>4
  <2>6. op \notin {"text", "cont"} => Before[k] = assembled /\ got = SubSeq(sent, 1, Count[k])
    BY <2>2, <2>3, <2>4
  <2>7. op \in {"text", "cont"} /\ fin =>
           /\ Before[k] = << >> /\ Count[k] > 0 /\ got = SubSeq(sent, 1, Count[k] - 1)
           /\ sent[Count[k]] = assembled \o body
    <3>1. SUFFICES ASSUME op \in {"text", "cont"}, fin
          PROVE  /\ Before[k] = << >> /\ Count[k] > 0 /\ got = SubSeq(sent, 1, Count[k] - 1)
                 /\ sent[Count[k]] = assembled \o body
      OBVIOUS
    <3>2. Before[k] = << >> /\ Count[k] = Count[i] + 1 /\ sent[Count[k]] = assembled \o body
      BY <2>2, <2>3, <2>4, <3>1
    <3>3. Count[k] > 0 /\ Count[k] - 1 = Count[i]
      BY <2>3, <3>2
    <3>4. QED
      BY <2>3, <3>2, <3>3
  <2>8. op \in {"text", "cont"} /\ ~fin =>
           Before[k] = assembled \o body /\ got = SubSeq(sent, 1, Count[k])
    BY <2>2, <2>3, <2>4
  <2>9. QED
    BY <2>5, <2>6, <2>7, <2>8
<1>7. CASE op \notin {"text", "cont"}
  <2>1. Return(-1, << >>) \/ (NextFrame /\ UNCHANGED assembled)
    BY <1>3, <1>4, <1>7 DEF Dispatch
  <2>2. CASE Return(-1, << >>)
    BY <1>1, <2>2, Fails
  <2>3. CASE NextFrame /\ UNCHANGED assembled
    <3>1. ~torn => \E k \in Places : /\ taken' = Off[k] /\ assembled' = Before[k]
                                     /\ got = SubSeq(sent, 1, Count[k])
      BY <1>6, <1>7, <2>3
    <3>2. assembled' \in Seq(Unit)
      BY <1>1, <2>3
    <3>3. QED
      BY <1>1, <2>3, <3>1, <3>2, NextFrameStep
  <2>4. QED
    BY <2>1, <2>2, <2>3
<1>8. CASE op \in {"text", "cont"} /\ fin
  <2>1. Return(1, assembled \o body)
    BY <1>3, <1>4, <1>8 DEF Dispatch, Complete
  <2>2. PICK m \in Seq(Unit) : m = assembled \o body
    BY <1>5
  <2>3. ~torn => \E k \in Places : /\ taken' = Off[k] /\ Before[k] = << >> /\ Count[k] > 0
                                   /\ got = SubSeq(sent, 1, Count[k] - 1)
                                   /\ m = sent[Count[k]]
    BY <1>6, <1>8, <2>2
  <2>4. QED
    BY <1>1, <2>1, <2>2, <2>3, MessageStep
<1>9. CASE op \in {"text", "cont"} /\ ~fin
  <2>1. NextFrame /\ assembled' = assembled \o body
    BY <1>3, <1>4, <1>9 DEF Dispatch, Complete
  <2>2. ~torn => \E k \in Places : /\ taken' = Off[k] /\ assembled' = Before[k]
                                   /\ got = SubSeq(sent, 1, Count[k])
    BY <1>6, <1>9, <2>1
  <2>3. QED
    BY <1>1, <1>5, <2>1, <2>2, NextFrameStep
<1>10. QED
  BY <1>7, <1>8, <1>9

\* A token, and the connection it is for.
LEMMA TokenStep ==
    ASSUME IInv, Token
    PROVE  IInv'
<1>1. thread = "token" /\ pc = "closed" /\ UNCHANGED <<backoff, stop, got>> /\ Lasting
  BY DEF IInv, Phases, Token
<1>2. CASE thread' \in {"ended", "wait"} /\ UNCHANGED <<wsvars, connects>>
  <2>1. ThreadTypes'
    BY <1>1, <1>2 DEF IInv, TypeOK, ThreadTypes, Lasting
  <2>2. UNCHANGED <<link, wire, recv, pos, pc, head, assembled, result, message, peer, taken,
                    torn, stream, framed, sent, partial>>
    BY <1>2 DEF wsvars, buffer, call, peer
  <2>3. LinkTypes' /\ CallTypes'
    BY <2>2 DEF IInv, TypeOK, LinkTypes, CallTypes
  <2>4. Phases'
    BY <1>1, <1>2, <2>2 DEF IInv, Phases
  <2>5. InTransit'
    BY <2>2 DEF IInv, InTransit, Available
  <2>6. InPlace'
    BY <1>1, <2>2, HistorySame DEF IInv, InPlace, At, Upto
  <2>7. QED
    BY <2>1, <2>2, <2>3, <2>4, <2>5, <2>6, ClientStep
<1>3. CASE connects < MaxConnects /\ connects' = connects + 1 /\ thread' = "connect" /\ Connect
  <2>1. ThreadTypes'
    BY <1>1, <1>3, ConnectAssumption DEF IInv, TypeOK, ThreadTypes, Lasting
  <2>2. /\ pc' = "hello" /\ link' = "up" /\ wire' = <<Blank>> /\ stream' = <<Blank>>
        /\ UNCHANGED <<recv, pos, head, assembled, result, message, open, partial, frames, sent,
                       framed, taken, torn>>
    BY <1>3 DEF Connect, buffer, call
  <2>3. /\ framed = << >> /\ sent = << >> /\ partial = << >> /\ recv = << >> /\ pos = 0
        /\ taken = 0 /\ assembled = << >> /\ got = << >> /\ ~torn
    BY <1>1 DEF IInv, Phases
  <2>4. /\ <<Blank>> \in Seq(Unit) /\ Len(<<Blank>>) = 1
    <3>1. Blank \in Unit
      BY DEF Blank, Unit
    <3>2. QED
      BY <3>1
  <2>5. ServerTypes'
    BY <2>2, <2>4 DEF IInv, TypeOK, ServerTypes
  <2>6. LinkTypes'
    BY <2>2, <2>3, <2>4 DEF IInv, TypeOK, LinkTypes
  <2>7. CallTypes'
    BY <2>2 DEF IInv, TypeOK, CallTypes
  <2>8. Phases'
    <3>1. thread' = "connect" /\ result' = result /\ got' = got
      BY <1>1, <1>3, <2>2
    <3>2. result = 0
      BY <1>1 DEF IInv, Phases
    <3>3. QED
      BY <2>2, <2>3, <3>1, <3>2 DEF Phases
  <2>9. InTransit'
    <3>1. Available' = 0 /\ taken' = 0 /\ wire' = stream' /\ Len(wire') = 1
      BY <2>2, <2>3, <2>4 DEF Available
    <3>2. taken' + Available' + Len(wire') = Len(stream') /\ Len(stream') <= Len(stream')
      BY <3>1
    <3>3. \A i \in 1..Len(wire') : taken' + Available' + i = i
      BY <3>1
    <3>4. QED
      BY <3>1, <3>2, <3>3 DEF InTransit
  <2>10. Len(framed') = 0 /\ Len(sent') = 0 /\ Places' = {1}
    BY <2>2, <2>3 DEF Places
  <2>11. Off'[1] = 1 /\ Before'[1] = << >> /\ Count'[1] = 0
    BY <2>2, <2>3, <2>4, <2>10 DEF Off, Before, Count
  <2>12. Layout'
    BY <2>10 DEF Layout
  <2>13. Story' /\ Beginning'
    BY <2>10, <2>11 DEF Story, Beginning
  <2>14. InPlace'
    BY <2>2, <2>10 DEF InPlace, At
  <2>15. QED
    BY <2>1, <2>5, <2>6, <2>7, <2>8, <2>9, <2>12, <2>13, <2>14, TypesNext DEF IInv
<1>4. QED
  BY <1>2, <1>3 DEF Token

\* Another call of ReceiveTextMessage, at the frame the last one came to.
LEMMA ReceiveStep ==
    ASSUME IInv, pc = "returned", NEW handled \in Seq(Seq(Unit)), Receive(handled),
           backoff' \in InitialBackoff..MaxBackoff, UNCHANGED <<stop, connects>>, Lasting,
           ~torn => \E i \in Places : /\ taken = Off[i] /\ assembled = Before[i]
                                      /\ handled = SubSeq(sent, 1, Count[i])
    PROVE  IInv'
<1>1. CASE /\ pc' = "header" /\ result' = 0 /\ message' = << >> /\ thread' = "receive"
           /\ got' = handled
           /\ UNCHANGED <<link, wire, buffer, head, assembled, peer, taken, torn>>
  <2>1. ThreadTypes'
    BY <1>1 DEF IInv, TypeOK, ThreadTypes, Lasting
  <2>2. UNCHANGED <<link, wire, recv, pos, head, assembled, peer, taken, torn,
                    stream, framed, sent, partial>>
    BY <1>1 DEF buffer, peer
  <2>3. LinkTypes'
    BY <2>2 DEF IInv, TypeOK, LinkTypes
  <2>4. CallTypes'
    <3>1. << >> \in Seq(Unit)
      BY Empty
    <3>2. QED
      BY <1>1, <2>2, <3>1 DEF IInv, TypeOK, CallTypes
  <2>5. Phases'
    BY <1>1, <2>2 DEF IInv, Phases
  <2>6. InTransit'
    BY <2>2 DEF IInv, InTransit, Available
  <2>7. InPlace'
    <3>1. SUFFICES ASSUME ~torn PROVE \E i \in Places' : At(i)'
      BY <2>2 DEF InPlace
    <3>2. PICK i \in Places : /\ taken = Off[i] /\ assembled = Before[i]
                              /\ handled = SubSeq(sent, 1, Count[i])
      BY <3>1
    <3>3. Places' = Places /\ Off' = Off /\ Before' = Before /\ Count' = Count
      BY <2>2, HistorySame
    <3>4. At(i)'
      BY <1>1, <2>2, <3>2, <3>3 DEF At, Upto
    <3>5. QED
      BY <3>2, <3>3, <3>4
  <2>8. QED
    BY <2>1, <2>2, <2>3, <2>4, <2>5, <2>6, <2>7, ClientStep
<1>2. CASE Disconnected /\ thread' = "wait" /\ got' = << >>
  <2>1. ThreadTypes'
    <3>1. << >> \in Seq(Seq(Unit))
      BY Empty
    <3>2. QED
      BY <1>2, <3>1 DEF IInv, TypeOK, ThreadTypes, Lasting
  <2>2. QED
    BY <1>2, <2>1, DisconnectedStep
<1>3. QED
  BY <1>1, <1>2 DEF Receive

LEMMA ConnectedStep ==
    ASSUME IInv, Connected
    PROVE  IInv'
<1>1. thread = "connect" /\ result = 0 /\ got = << >> /\ ~torn /\ UNCHANGED <<stop, connects>> /\ Lasting
  BY DEF IInv, Phases, Connected
<1>2. CASE pc = "returned" /\ Receive(got) /\ backoff' = InitialBackoff
  <2>1. backoff' \in InitialBackoff..MaxBackoff
    BY <1>2, BackoffAssumption
  <2>2. PICK i \in Places : At(i)
    BY <1>1 DEF IInv, InPlace
  <2>3. taken = Off[i] /\ assembled = Before[i] /\ got = SubSeq(sent, 1, Count[i])
    BY <1>1, <1>2, <2>2 DEF At, Upto
  <2>4. got \in Seq(Seq(Unit))
    BY DEF IInv, TypeOK
  <2>5. QED
    BY <1>1, <1>2, <2>1, <2>3, <2>4, ReceiveStep
<1>3. CASE pc = "closed" /\ thread' = "wait" /\ UNCHANGED <<wsvars, backoff, got>>
  <2>1. ThreadTypes'
    BY <1>1, <1>3 DEF IInv, TypeOK, ThreadTypes, Lasting
  <2>2. UNCHANGED <<link, wire, recv, pos, pc, head, assembled, result, message, peer, taken,
                    torn, stream, framed, sent, partial>>
    BY <1>3 DEF wsvars, buffer, call, peer
  <2>3. LinkTypes' /\ CallTypes'
    BY <2>2 DEF IInv, TypeOK, LinkTypes, CallTypes
  <2>4. Phases'
    BY <1>1, <1>3, <2>2 DEF IInv, Phases
  <2>5. InTransit'
    BY <2>2 DEF IInv, InTransit, Available
  <2>6. InPlace'
    BY <1>3, <2>2, HistorySame DEF IInv, InPlace, At, Upto
  <2>7. QED
    BY <2>1, <2>2, <2>3, <2>4, <2>5, <2>6, ClientStep
<1>4. QED
  BY <1>2, <1>3 DEF Connected

\* A message is handled: it is the one after those handled before.
LEMMA HandleStep ==
    ASSUME IInv, Handle
    PROVE  IInv'
<1>1. thread = "receive" /\ pc = "returned" /\ assembled = << >> /\ UNCHANGED <<backoff, stop, connects>> /\ Lasting
  BY DEF IInv, Phases, Handle
<1>2. /\ result \in -1..1 /\ message \in Seq(Unit) /\ got \in Seq(Seq(Unit))
      /\ sent \in Seq(Seq(Unit)) /\ Len(sent) \in Nat /\ backoff \in InitialBackoff..MaxBackoff
  BY DEF IInv, TypeOK
<1>3. CASE result < 0
  <2>1. Disconnected /\ thread' = "wait" /\ got' = << >>
    BY <1>2, <1>3 DEF Handle
  <2>2. ThreadTypes'
    <3>1. << >> \in Seq(Seq(Unit))
      BY Empty
    <3>2. QED
      BY <1>1, <2>1, <3>1 DEF IInv, TypeOK, ThreadTypes, Lasting
  <2>3. QED
    BY <2>1, <2>2, DisconnectedStep
<1>4. CASE result = 0
  <2>1. Receive(got)
    BY <1>4 DEF Handle
  <2>2. ~torn => \E i \in Places : /\ taken = Off[i] /\ assembled = Before[i]
                                   /\ got = SubSeq(sent, 1, Count[i])
    BY <1>1, <1>4 DEF IInv, InPlace, At, Upto
  <2>3. backoff' \in InitialBackoff..MaxBackoff
    BY <1>1, <1>2
  <2>4. QED
    BY <1>1, <1>2, <2>1, <2>2, <2>3, ReceiveStep
<1>5. CASE result = 1
  <2>1. Receive(Append(got, message))
    BY <1>5 DEF Handle
  <2>2. Append(got, message) \in Seq(Seq(Unit))
    BY <1>2, Appended
  <2>3. ~torn => \E i \in Places : /\ taken = Off[i] /\ assembled = Before[i]
                                   /\ Append(got, message) = SubSeq(sent, 1, Count[i])
    <3>1. SUFFICES ASSUME ~torn
                   PROVE  \E i \in Places : /\ taken = Off[i] /\ assembled = Before[i]
                                            /\ Append(got, message) = SubSeq(sent, 1, Count[i])
      OBVIOUS
    <3>2. PICK i \in Places : At(i)
      BY <3>1 DEF IInv, InPlace
    <3>3. /\ taken = Off[i] /\ assembled = Before[i] /\ Count[i] > 0
          /\ got = SubSeq(sent, 1, Count[i] - 1) /\ message = sent[Count[i]]
      BY <1>1, <1>5, <3>2 DEF At
    <3>4. PICK c \in Nat : c = Count[i] /\ c <= Len(sent)
      BY Marks DEF IInv, Story
    <3>5. c \in 1..Len(sent)
      BY <1>2, <3>3, <3>4
    <3>6. Append(SubSeq(sent, 1, c - 1), sent[c]) = SubSeq(sent, 1, c)
      BY <1>2, <3>5, Longer
    <3>7. QED
      BY <3>3, <3>4, <3>6
  <2>4. backoff' \in InitialBackoff..MaxBackoff
    BY <1>1, <1>2
  <2>5. QED
    BY <1>1, <2>1, <2>2, <2>3, <2>4, ReceiveStep
<1>6. QED
  BY <1>2, <1>3, <1>4, <1>5

\* A step of the thread that leaves the client alone.
LEMMA ElsewhereStep ==
    ASSUME IInv, UNCHANGED <<wsvars, got>>, ThreadTypes',
           thread' # thread => thread = "wait" /\ thread' \in {"token", "ended"}
    PROVE  IInv'
<1>1. UNCHANGED <<link, wire, recv, pos, pc, head, assembled, result, message, peer, taken,
                  torn, stream, framed, sent, partial, got>>
  BY DEF wsvars, buffer, call, peer
<1>2. LinkTypes' /\ CallTypes'
  BY <1>1 DEF IInv, TypeOK, LinkTypes, CallTypes
<1>3. Phases'
  BY <1>1 DEF IInv, Phases
<1>4. InTransit'
  BY <1>1 DEF IInv, InTransit, Available
<1>5. InPlace'
  BY <1>1, HistorySame DEF IInv, InPlace, At, Upto
<1>6. QED
  BY <1>1, <1>2, <1>3, <1>4, <1>5, ClientStep

LEMMA WaitStep ==
    ASSUME IInv, Wait
    PROVE  IInv'
<1>1. thread = "wait" /\ thread' \in {"token", "ended"} /\ UNCHANGED <<wsvars, stop, got, connects, busy>>
  BY DEF Wait
<1>2. backoff' \in InitialBackoff..MaxBackoff
  <2>1. /\ backoff \in InitialBackoff..MaxBackoff
        /\ InitialBackoff \in Nat /\ MaxBackoff \in Nat /\ InitialBackoff <= MaxBackoff
    BY BackoffAssumption DEF IInv, TypeOK
  <2>2. \/ backoff' = backoff \/ backoff' = InitialBackoff
        \/ backoff' = IF 2 * backoff < MaxBackoff THEN 2 * backoff ELSE MaxBackoff
    BY DEF Wait
  <2>3. QED
    BY <2>1, <2>2
<1>3. ThreadTypes'
  BY <1>1, <1>2 DEF IInv, TypeOK, ThreadTypes, Lasting
<1>4. QED
  BY <1>1, <1>3, ElsewhereStep

LEMMA StopStep ==
    ASSUME IInv, Stop
    PROVE  IInv'
<1>1. stop' = TRUE /\ UNCHANGED <<wsvars, thread, backoff, got, connects, busy>>
  BY DEF Stop
<1>2. ThreadTypes'
  BY <1>1 DEF IInv, TypeOK, ThreadTypes, Lasting
<1>3. UNCHANGED <<wsvars, got>> /\ thread' = thread
  BY <1>1
<1>4. QED
  BY <1>2, <1>3, ElsewhereStep

LEMMA ChatterStep ==
    ASSUME IInv, Chatter
    PROVE  IInv'
<1>1. busy' = TRUE /\ UNCHANGED <<wsvars, thread, backoff, stop, got, connects>>
  BY DEF Chatter, own
<1>2. ThreadTypes'
  BY <1>1 DEF IInv, TypeOK, ThreadTypes
<1>3. UNCHANGED <<wsvars, got>> /\ thread' = thread
  BY <1>1
<1>4. QED
  BY <1>2, <1>3, ElsewhereStep

LEMMA StutterStep ==
    ASSUME IInv, UNCHANGED vars
    PROVE  IInv'
<1>1. UNCHANGED <<wsvars, thread, backoff, stop, got, connects, busy>>
  BY DEF vars, own
<1>2. ThreadTypes'
  BY <1>1 DEF IInv, TypeOK, ThreadTypes, Lasting
<1>3. UNCHANGED <<wsvars, got>> /\ thread' = thread
  BY <1>1
<1>4. QED
  BY <1>2, <1>3, ElsewhereStep

-----------------------------------------------------------------------------
(* The invariant.                                                          *)

LEMMA IInvInit == Init => IInv
<1>. SUFFICES ASSUME Init PROVE IInv
  OBVIOUS
<1>1. /\ link = "none" /\ wire = << >> /\ recv = << >> /\ pos = 0 /\ pc = "closed"
      /\ head = NoUnit /\ assembled = << >> /\ result = 0 /\ message = << >>
      /\ open = FALSE /\ partial = << >> /\ frames = 0
      /\ sent = << >> /\ stream = << >> /\ framed = << >> /\ taken = 0 /\ torn = FALSE
      /\ thread = "token" /\ backoff = InitialBackoff /\ stop = FALSE /\ got = << >>
      /\ connects = 0 /\ busy = FALSE
  BY DEF Init, InitWs
<1>2. /\ << >> \in Seq(Unit) /\ << >> \in Seq(Seq(Unit)) /\ << >> \in Seq(Sent)
      /\ Len(<< >>) = 0
  BY Empty
<1>3. NoUnit \in Unit
  BY DEF NoUnit, Unit
<1>4. open \in BOOLEAN /\ torn \in BOOLEAN /\ stop \in BOOLEAN /\ busy \in BOOLEAN
  BY <1>1
<1>5. ServerTypes /\ LinkTypes /\ CallTypes
  BY <1>1, <1>2, <1>3, <1>4, BoundAssumption DEF ServerTypes, LinkTypes, CallTypes
<1>6. ThreadTypes
  BY <1>1, <1>2, <1>4, BackoffAssumption, ConnectAssumption DEF ThreadTypes
<1>7. TypeOK
  BY <1>5, <1>6, Types
<1>8. Phases
  BY <1>1 DEF Phases
<1>9. Len(framed) = 0 /\ Len(sent) = 0 /\ Places = {1}
  BY <1>1, <1>2 DEF Places
<1>10. InTransit /\ Layout /\ Beginning
  BY <1>1, <1>9 DEF InTransit, Layout, Beginning
<1>11. Story
  <2>1. Count[1] = Len(sent)
    BY <1>9 DEF Count
  <2>2. QED
    BY <1>9, <2>1 DEF Story
<1>12. InPlace
  BY <1>1, <1>9 DEF InPlace, At
<1>13. QED
  BY <1>7, <1>8, <1>10, <1>11, <1>12 DEF IInv

LEMMA IInvNext == IInv /\ [Next]_vars => IInv'
<1>. SUFFICES ASSUME IInv, [Next]_vars PROVE IInv'
  OBVIOUS
<1>1. CASE Thread
  BY <1>1, TokenStep, ConnectedStep, HandleStep, WaitStep DEF Thread
<1>2. CASE InCall
  BY <1>2, HelloStep, ReadHeaderStep, ReadLengthStep, ReadPayloadStep DEF InCall, Parse
<1>3. CASE Fill
  BY <1>3, FillStep, FillFailsStep DEF Fill
<1>4. CASE Late
  BY <1>4, TimedOutStep DEF Late
<1>5. CASE Server
  BY <1>5, SendDataStep, SendControlStep, PeerClosesStep DEF Server, Peer
<1>6. CASE Stop
  BY <1>6, StopStep
<1>7. CASE UNCHANGED vars
  BY <1>7, StutterStep
<1>8. CASE Chatter
  BY <1>8, ChatterStep
<1>9. QED
  BY <1>1, <1>2, <1>3, <1>4, <1>5, <1>6, <1>7, <1>8 DEF Next

LEMMA Invariance == Spec => []IInv
  BY IInvInit, IInvNext, PTL DEF Spec

\* Every state of the client, the server and the thread is of the types declared for it.
THEOREM TypeCorrect == Spec => []TypeOK
<1>1. IInv => TypeOK
  BY DEF IInv
<1>2. QED
  BY <1>1, Invariance, PTL

\* FillBuffer, ReadExact and the compaction lose no unit and repeat none, whatever the
\* limits, the payloads and the way they arrive.
THEOREM ConservedHolds == Spec => []Conserved
<1>1. IInv => Conserved
  <2>1. SUFFICES ASSUME IInv, link = "up"
                 PROVE  SubSeq(recv, pos + 1, Len(recv)) \o wire
                          = SubSeq(stream, taken + 1, Len(stream))
    BY DEF Conserved
  <2>2. /\ recv \in Seq(Unit) /\ wire \in Seq(Unit) /\ stream \in Seq(Unit)
        /\ pos \in 0..Len(recv) /\ taken \in 0..Len(stream)
    BY <2>1 DEF IInv, TypeOK
  <2>3. PICK a \in Nat, k \in Nat, w \in Nat, l \in Nat :
             a = Available /\ a = Len(recv) - pos /\ k = taken /\ w = Len(wire) /\ l = Len(stream)
    <3>1. Available \in Nat /\ Available = Len(recv) - pos
      BY <2>2 DEF Available
    <3>2. taken \in Nat /\ Len(wire) \in Nat /\ Len(stream) \in Nat
      BY <2>2
    <3>3. QED
      BY <3>1, <3>2
  <2>4. /\ k + a + w = l
        /\ \A i \in 1..a : recv[pos + i] = stream[k + i]
        /\ \A i \in 1..w : wire[i] = stream[k + a + i]
    BY <2>1, <2>3 DEF IInv, InTransit
  <2>5. PICK u \in Seq(Unit) : /\ u = SubSeq(recv, pos + 1, Len(recv)) /\ Len(u) = a
                               /\ \A i \in 1..a : u[i] = recv[pos + i]
    <3>1. /\ SubSeq(recv, pos + 1, Len(recv)) \in Seq(Unit)
          /\ Len(SubSeq(recv, pos + 1, Len(recv))) = Len(recv) - pos
          /\ \A i \in 1..(Len(recv) - pos) : SubSeq(recv, pos + 1, Len(recv))[i] = recv[pos + i]
      BY <2>2, Rests
    <3>2. QED
      BY <2>3, <3>1
  <2>6. PICK v \in Seq(Unit) : /\ v = SubSeq(stream, taken + 1, Len(stream)) /\ Len(v) = l - k
                               /\ \A i \in 1..(l - k) : v[i] = stream[k + i]
    <3>1. /\ SubSeq(stream, taken + 1, Len(stream)) \in Seq(Unit)
          /\ Len(SubSeq(stream, taken + 1, Len(stream))) = Len(stream) - taken
          /\ \A i \in 1..(Len(stream) - taken) :
                SubSeq(stream, taken + 1, Len(stream))[i] = stream[taken + i]
      BY <2>2, Rests
    <3>2. QED
      BY <2>3, <3>1
  <2>7. /\ u \o wire \in Seq(Unit) /\ Len(u \o wire) = Len(u) + Len(wire)
        /\ \A i \in 1..Len(u) : (u \o wire)[i] = u[i]
        /\ \A i \in 1..Len(wire) : (u \o wire)[Len(u) + i] = wire[i]
    BY <2>2, Catenated
  <2>8. PICK c \in Seq(Unit) : /\ c = u \o wire /\ Len(c) = a + w
                               /\ \A i \in 1..a : c[i] = u[i]
                               /\ \A i \in 1..w : c[a + i] = wire[i]
    <3>1. PICK c \in Seq(Unit) : c = u \o wire
      BY <2>7
    <3>2. Len(c) = a + w /\ (\A i \in 1..a : c[i] = u[i]) /\ \A i \in 1..w : c[a + i] = wire[i]
      BY <2>3, <2>5, <2>7, <3>1
    <3>3. QED
      BY <3>1, <3>2
  <2>9. Len(c) = Len(v) /\ Len(c) = a + w /\ l - k = a + w
    <3>1. l - k = a + w
      BY <2>4
    <3>2. Len(c) = a + w /\ Len(v) = l - k
      BY <2>6, <2>8
    <3>3. QED
      BY <3>1, <3>2
  <2>10. ASSUME NEW i \in 1..(a + w) PROVE c[i] = v[i]
    <3>1. v[i] = stream[k + i]
      BY <2>6, <2>9
    <3>2. CASE i <= a
      <4>1. i \in 1..a
        BY <3>2
      <4>2. QED
        BY <2>4, <2>5, <2>8, <3>1, <4>1
    <3>3. CASE i > a
      <4>1. i - a \in 1..w /\ a + (i - a) = i /\ k + a + (i - a) = k + i
        BY <3>3
      <4>2. c[a + (i - a)] = wire[i - a] /\ wire[i - a] = stream[k + a + (i - a)]
        BY <2>4, <2>8, <4>1
      <4>3. QED
        BY <3>1, <4>1, <4>2
    <3>4. QED
      BY <3>2, <3>3
  <2>11. c = v
    BY <2>9, <2>10, Same
  <2>12. QED
    BY <2>5, <2>6, <2>8, <2>11
<1>2. QED
  BY <1>1, Invariance, PTL

\* On a connection where no call has timed out inside a message, what is handled is what
\* the server has sent: whole messages, each once and in order, however they are
\* fragmented, mixed with control frames and cut up by the network.
THEOREM WholeUnlessTornHolds == Spec => []WholeUnlessTorn
<1>1. IInv => WholeUnlessTorn
  <2>1. SUFFICES ASSUME IInv, ~torn PROVE IsPrefix(got, sent)
    BY DEF WholeUnlessTorn, Whole
  <2>2. sent \in Seq(Seq(Unit)) /\ Len(sent) \in Nat
    BY <2>1 DEF IInv, TypeOK
  <2>3. \E n \in 0..Len(sent) : got = SubSeq(sent, 1, n)
    <3>1. CASE pc \in {"closed", "hello"}
      <4>1. got = << >>
        BY <2>1, <3>1 DEF IInv, TypeOK, Phases
      <4>2. got = SubSeq(sent, 1, 0)
        BY <2>2, <4>1, Empty
      <4>3. QED
        BY <2>2, <4>2
    <3>2. CASE pc \notin {"closed", "hello"}
      <4>1. pc \in {"header", "length", "payload", "returned"}
        BY <2>1, <3>2 DEF IInv, TypeOK
      <4>2. PICK i \in Places : At(i)
        BY <2>1 DEF IInv, InPlace
      <4>3. PICK n \in Nat : n = Count[i] /\ n <= Len(sent)
        BY <2>1, Marks DEF IInv, Story
      <4>4. got = SubSeq(sent, 1, n) \/ (n > 0 /\ got = SubSeq(sent, 1, n - 1))
        BY <4>1, <4>2, <4>3 DEF At, Upto
      <4>5. n \in 0..Len(sent) /\ (n > 0 => n - 1 \in 0..Len(sent))
        BY <2>2, <4>3
      <4>6. QED
        BY <4>4, <4>5
    <3>3. QED
      BY <3>1, <3>2
  <2>4. PICK n \in 0..Len(sent) : got = SubSeq(sent, 1, n)
    BY <2>3
  <2>5. QED
    BY <2>2, <2>4, PrefixOf
<1>2. QED
  BY <1>1, Invariance, PTL

=============================================================================
