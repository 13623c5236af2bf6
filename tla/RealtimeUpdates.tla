--------------------------- MODULE RealtimeUpdates ---------------------------
(***************************************************************************)
(* The thread that keeps a WebSocket connection to the server's "updates"    *)
(* channel: a token, a connection, messages until it fails, a wait that      *)
(* doubles, until the add-on stops it.                                       *)
(***************************************************************************)
EXTENDS WebSocketClient

CONSTANTS
    InitialBackoff, MaxBackoff, \* kInitialBackoffSeconds, kMaxBackoffSeconds
    MaxConnects                 \* bound: connections made

ASSUME BackoffAssumption ==
    InitialBackoff \in Nat \ {0} /\ MaxBackoff \in Nat /\ InitialBackoff <= MaxBackoff
ASSUME ConnectAssumption == MaxConnects \in Nat

VARIABLES
    thread,   \* "token", "connect", "receive", "wait", "ended"
    backoff,  \* backoffSeconds
    stop,     \* m_stopRealtimeUpdateThread
    got,      \* history: the messages handled on this connection
    connects, \* how often Connect was called
    busy      \* from now on the server never keeps the client waiting for
              \* kMessageReadTimeoutSeconds, with frames that end no message

own == <<thread, backoff, stop, got, connects>>
vars == <<wsvars, own, busy>>

Init ==
    /\ InitWs
    /\ thread = "token"
    /\ backoff = InitialBackoff
    /\ stop = FALSE
    /\ got = << >>
    /\ connects = 0
    /\ busy = FALSE

\* only the end of the connection ends that
Lasting == busy' = (busy /\ link' = "up")

-----------------------------------------------------------------------------
(* The rest of the add-on.                                                 *)

\* StopWorkerThread; its join is the thread's end
Stop ==
    /\ ~stop
    /\ stop' = TRUE
    /\ UNCHANGED <<wsvars, thread, backoff, got, connects, busy>>

-----------------------------------------------------------------------------
(* The thread.                                                             *)

\* the outer loop's test, GetAccessToken and the call of Connect
Token ==
    /\ thread = "token"
    /\ \/ stop /\ thread' = "ended" /\ UNCHANGED <<wsvars, connects>>
       \/ ~stop /\ thread' = "wait" /\ UNCHANGED <<wsvars, connects>>
       \/ /\ ~stop
          /\ connects < MaxConnects
          /\ connects' = connects + 1
          /\ thread' = "connect"
          /\ Connect
    /\ UNCHANGED <<backoff, stop, got>>
    /\ Lasting

\* the inner loop's test: another call of ReceiveTextMessage, or Close
Receive(handled) ==
    \/ /\ ~stop
       /\ pc' = "header"
       /\ result' = 0
       /\ message' = << >>
       /\ thread' = "receive"
       /\ got' = handled
       /\ UNCHANGED <<link, wire, buffer, head, assembled, peer, taken, torn>>
    \/ stop /\ Disconnected /\ thread' = "wait" /\ got' = << >>

\* Connect has returned
Connected ==
    /\ thread = "connect"
    /\ \/ pc = "returned" /\ Receive(got) /\ backoff' = InitialBackoff
       \/ pc = "closed" /\ thread' = "wait" /\ UNCHANGED <<wsvars, backoff, got>>
    /\ UNCHANGED <<stop, connects>>
    /\ Lasting

\* 1: HandleRealtimeUpdateMessage; 0: once more; -1: Close and reconnect
Handle ==
    /\ thread = "receive"
    /\ pc = "returned"
    /\ \/ result >= 0 /\ Receive(IF result = 1 THEN Append(got, message) ELSE got)
       \/ result < 0 /\ Disconnected /\ thread' = "wait" /\ got' = << >>
    /\ UNCHANGED <<backoff, stop, connects>>
    /\ Lasting

\* stopped, cut short by an OnSystemWake at some time since the last wait (the
\* flag stays set until a wait sees it), or the whole wait
Wait ==
    /\ thread = "wait"
    /\ \/ stop /\ thread' = "ended" /\ UNCHANGED backoff
       \/ ~stop /\ thread' = "token" /\ backoff' = InitialBackoff
       \/ /\ ~stop
          /\ thread' = "token"
          /\ backoff' = IF 2 * backoff < MaxBackoff THEN 2 * backoff ELSE MaxBackoff
    /\ UNCHANGED <<wsvars, stop, got, connects, busy>>

Thread == Token \/ Connected \/ Handle \/ Wait

\* Pings, pongs and empty fragments without end, each read and dropped between
\* two frames by ReceiveTextMessage's own loop.  (Some of them, and then silence,
\* is a timeout that has not come yet.)
Chatter ==
    /\ link = "up"
    /\ ~busy
    /\ busy' = TRUE
    /\ UNCHANGED <<wsvars, own>>

\* the next frame never takes as long as the timeout
HeldUp == busy /\ pc = "header" /\ ~torn

InCall == Parse /\ UNCHANGED own /\ Lasting
Fill   == (FillBuffer \/ FillFails) /\ UNCHANGED own /\ Lasting
Late   == ~HeldUp /\ TimedOut /\ UNCHANGED own /\ Lasting
Server == Peer /\ UNCHANGED own /\ Lasting

Next == Thread \/ InCall \/ Fill \/ Late \/ Server \/ Chatter \/ Stop

Spec == Init /\ [][Next]_vars

\* The thread runs, TCP delivers what is in flight, or the end of the connection,
\* to a client that keeps asking for it, and a wait for bytes that do not come ends.
LiveSpec == Spec /\ WF_vars(Thread) /\ WF_vars(InCall) /\ SF_vars(Fill) /\ WF_vars(Late)

-----------------------------------------------------------------------------
(* Properties.                                                             *)

Sent == [fin : BOOLEAN, op : {"text", "cont", "ping", "pong", "close", "other"},
         body : Seq(Unit), off : Nat, count : Nat, before : Seq(Unit)]

TypeOK ==
    /\ link \in {"none", "up", "closed"}
    /\ wire \in Seq(Unit) /\ recv \in Seq(Unit) /\ pos \in 0..Len(recv)
    /\ pc \in {"closed", "hello", "header", "length", "payload", "returned"}
    /\ head \in Unit /\ assembled \in Seq(Unit)
    /\ result \in -1..1 /\ message \in Seq(Unit)
    /\ open \in BOOLEAN /\ partial \in Seq(Unit) /\ frames \in 0..MaxFrames
    /\ sent \in Seq(Seq(Unit)) /\ stream \in Seq(Unit) /\ framed \in Seq(Sent)
    /\ taken \in 0..Len(stream) /\ torn \in BOOLEAN
    /\ thread \in {"token", "connect", "receive", "wait", "ended"}
    /\ backoff \in InitialBackoff..MaxBackoff
    /\ stop \in BOOLEAN
    /\ got \in Seq(Seq(Unit)) /\ connects \in 0..MaxConnects
    /\ busy \in BOOLEAN

\* Refilling, consuming and compacting the receive buffer neither lose nor repeat
\* a byte: the unread part of the buffer and what is in flight are always the end
\* of what the server has sent, as long as the connection stands.
Conserved ==
    link = "up" => SubSeq(recv, pos + 1, Len(recv)) \o wire
                     = SubSeq(stream, taken + 1, Len(stream))

\* "1 -- `message` contains a complete text frame's payload": what is handled is
\* what was sent, whole and in order, however messages are fragmented, mixed with
\* control frames and cut up by the network.
Whole == IsPrefix(got, sent)

\* The same for a connection on which no call has timed out inside a message.
WholeUnlessTorn == torn \/ Whole

\* A client that lags behind the server catches up: what was sent on a connection
\* that stays up is handled, unless the thread is being stopped or a call has timed
\* out inside a message.  (The server sends a bounded number of frames.)
Delivered ==
    (thread = "receive" /\ Len(got) < Len(sent))
        ~> (Len(got) = Len(sent) \/ thread # "receive" \/ torn \/ stop)

\* The destructor's join returns: a stop is noticed wherever the thread is, in a
\* wait, in a handshake or in the middle of a frame that never ends, unless the
\* server is busy, which holds the join for as long as the connection lasts.
Stopped == stop ~> (thread = "ended" \/ busy)

\* "bounds how quickly a stop request is noticed", of kMessageReadTimeoutSeconds:
\* the stop flag is read between the calls of ReceiveTextMessage only, and a call
\* goes on for as long as frames come that end no message.
StopNoticed == stop ~> (thread = "ended")

=============================================================================
