----------------------------- MODULE LiveStream -----------------------------
(***************************************************************************)
(* The player's side of a buffered channel.  A live stream has an address   *)
(* space of its own: every refresh of the manifest appends the segments it   *)
(* does not know yet to a table, and a read turns a position into a range of  *)
(* one segment's file.  Kodi calls Open, Read, Seek, Length and Close one     *)
(* after the other; what moves meanwhile is the buffer: ffmpeg closes        *)
(* segments, writes over old file names, exits, and the buffer may be torn   *)
(* down and started again by others.                                         *)
(***************************************************************************)
EXTENDS Integers, Sequences

CONSTANTS
    SizeOf,    \* bound: the sizes of the segments of each buffer instance
    Visible,   \* segments a manifest lists at most; file names wrap at twice that
    Margin,    \* kLiveEdgeMarginSegments, kLiveEdgeSeekBackoffSegments
    MaxWant,   \* the largest read
    ColdTries, \* kColdStartMaxAttempts
    FullTries, \* what ComputeCatchUpAttempts returns for an ordinary read
    Lag        \* whether stat() may see a closed segment short of its last bytes

ASSUME SizeAssumption == SizeOf \in Seq(Seq(Nat \ {0}))
ASSUME VisibleAssumption == Visible \in Nat \ {0}
ASSUME MarginAssumption == Margin \in Nat \ {0}
ASSUME WantAssumption == MaxWant \in Nat \ {0}
ASSUME TriesAssumption == ColdTries \in Nat \ {0} /\ FullTries \in Nat \ {0}
ASSUME LagAssumption == Lag \in BOOLEAN

VARIABLES
    srv,       \* the channel's buffer: instance, state, segments closed so far,
               \* and whether stat() misses the end of the newest of them
    made,      \* instances made so far
    pc,        \* where the current call is; "closed" and "idle" between calls
    back,      \* where RefreshLiveManifest returns to
    tries,     \* attempts a waiting loop has left
    want,      \* the size a read asks for
    short,     \* likelySeekProbe of the current read
    token,     \* accessToken, which names the instance
    segments, total, position,
    fatal,
    shortAt,   \* lastShortGiveUpPosition
    probing,   \* less than kSeekProbeWindow since the last seek
    incoming,  \* the entries of a manifest that are still to be merged
    known,     \* lastKnownSequence
    out        \* what the last read since the last seek delivered: bytes of
               \* segment seq, where the table names segment of, and the size
               \* its file had by then

server == <<srv, made>>
table  == <<segments, total>>
loop   == <<back, incoming, known>>
locals == <<tries, want, short>>
vars == <<server, pc, loop, locals, token, table, position, fatal, shortAt, probing, out>>

-----------------------------------------------------------------------------
(* The buffer.                                                             *)

State(i, st, n, lag) == [inst |-> i, st |-> st, edge |-> n, lag |-> lag]
Gone == State(0, "none", 0, FALSE)
Nothing == [inst |-> 0, of |-> 0, seq |-> 0, off |-> 0, len |-> 0, size |-> 0]

Size(i, n) == SizeOf[i][n + 1]

Smaller(a, b) == IF a < b THEN a ELSE b
Larger(a, b) == IF a > b THEN a ELSE b

\* segment "edge" is the one being written, so its file is in use already
Wrap == 2 * Visible
Holder(n) == n + Wrap * ((srv.edge - n) \div Wrap)

\* the sizes stat() may report of a segment's file when it is read
FileSizes(m) ==
    IF m = srv.edge - 1 /\ srv.lag THEN {Size(srv.inst, m) - 1}
    ELSE IF m < srv.edge THEN {Size(srv.inst, m)}
    ELSE IF m < Len(SizeOf[srv.inst]) THEN 0..Size(srv.inst, m)
    ELSE {0}

FirstListed == Larger(0, srv.edge - Visible)

\* get_live_manifest's answer.  The newest entry is short when its file still
\* is; a worker's cache may hold an early size of any of them (see LiveManifest).
Manifests ==
    LET listed == 1..(srv.edge - FirstListed)
        entry(k, lack) == [seq |-> FirstListed + k - 1,
                           size |-> Size(srv.inst, FirstListed + k - 1) - lack]
        newest == srv.edge - FirstListed
    IN  {[k \in listed |-> entry(k, IF k \in early THEN 1 ELSE 0)] :
            early \in IF Lag THEN {e \in SUBSET listed : srv.lag => newest \in e} ELSE {{}}}

Fresh == State(made + 1, "running", 0, FALSE)

\* another viewer starts the buffer again
Restart ==
    /\ srv.st # "running"
    /\ made < Len(SizeOf)
    /\ srv' = Fresh
    /\ made' = made + 1

\* ffmpeg lists a segment whose last bytes stat() may not see yet
CloseSegment ==
    /\ srv.st = "running"
    /\ ~srv.lag
    /\ srv.edge < Len(SizeOf[srv.inst])
    /\ srv' = State(srv.inst, "running", srv.edge + 1, Lag)
    /\ UNCHANGED made

\* now it does
Flush ==
    /\ srv.lag
    /\ srv' = [srv EXCEPT !.lag = FALSE]
    /\ UNCHANGED made

FfmpegExits ==
    /\ srv.st = "running"
    /\ srv' = State(srv.inst, "exited", srv.edge, srv.lag)
    /\ UNCHANGED made

\* a teardown kills the process and removes the files, then forgets the state
RemoveFiles ==
    /\ srv.st \in {"running", "exited"}
    /\ srv' = State(srv.inst, "removed", srv.edge, FALSE)
    /\ UNCHANGED made

Forget ==
    /\ srv.st = "removed"
    /\ srv' = Gone
    /\ UNCHANGED made

Buffer ==
    /\ Restart \/ CloseSegment \/ Flush \/ FfmpegExits \/ RemoveFiles \/ Forget
    /\ UNCHANGED <<pc, loop, locals, token, table, position, fatal, shortAt, probing, out>>

Clock ==
    /\ probing
    /\ probing' = FALSE
    /\ UNCHANGED <<server, pc, loop, locals, token, table, position, fatal, shortAt, out>>

-----------------------------------------------------------------------------
(* RefreshLiveManifest.                                                    *)

Init ==
    /\ srv = Gone
    /\ made = 0
    /\ pc = "closed"
    /\ back = "idle"
    /\ tries = 0
    /\ want = 0
    /\ short = FALSE
    /\ token = 0
    /\ segments = << >>
    /\ total = 0
    /\ position = 0
    /\ fatal = FALSE
    /\ shortAt = -1
    /\ probing = FALSE
    /\ incoming = << >>
    /\ known = -1
    /\ out = Nothing

LastSequence == IF segments = << >> THEN -1 ELSE segments[Len(segments)].seq

\* the manifest arrives: lastKnownSequence is fixed before the merge
Fetched(ret) ==
    /\ srv.st \in {"running", "exited"}
    /\ srv.edge > 0
    /\ incoming' \in Manifests
    /\ known' = LastSequence
    /\ back' = ret
    /\ pc' = "merge"
    /\ UNCHANGED srv

\* the plugin confirms that there will be no segment, and cleans up
Doomed ==
    /\ srv.st = "removed" \/ (srv.st = "exited" /\ srv.edge = 0)
    /\ srv' = Gone

\* Mutant of Taken: an entry without a size is taken too.
Taken_Empty(e) == e.seq > known

\* a known or malformed entry is passed over
Taken(e) == e.seq > known /\ e.size > 0

\* Mutant of Placed: the entry keeps an offset relative to its own manifest.
Placed_Relative(e) == [seq |-> e.seq, off |-> (e.seq - FirstListed) * e.size, size |-> e.size]

\* an entry is given the next addresses of the stream
Placed(e) == [seq |-> e.seq, off |-> total, size |-> e.size]

\* Mutant of Extended: the table keeps no more than a window of segments.
Extended_Window(e) ==
    IF Len(segments) < Visible THEN Append(segments, Placed(e))
    ELSE Append(Tail(segments), Placed(e))

\* the table with the entry at its end
Extended(e) == Append(segments, Placed(e))

\* one round of the merge loop
Merge ==
    /\ pc = "merge"
    /\ incoming # << >>
    /\ incoming' = Tail(incoming)
    /\ IF Taken(Head(incoming))
       THEN /\ segments' = Extended(Head(incoming))
            /\ total' = total + Head(incoming).size
       ELSE UNCHANGED table
    /\ UNCHANGED <<server, pc, back, known, locals, token, position, fatal, shortAt, probing, out>>

Merged ==
    /\ pc = "merge"
    /\ incoming = << >>
    /\ pc' = back
    /\ back' = "idle"
    /\ known' = -1
    /\ UNCHANGED <<server, incoming, locals, token, table, position, fatal, shortAt, probing, out>>

-----------------------------------------------------------------------------
(* OpenLiveTimeshiftStream, CloseLiveTimeshiftStream.                      *)

\* m_liveTimeshiftStream = LiveTimeshiftStreamState()
Reset ==
    /\ token' = 0
    /\ segments' = << >>
    /\ total' = 0
    /\ position' = 0
    /\ fatal' = FALSE
    /\ shortAt' = -1
    /\ probing' = FALSE
    /\ out' = Nothing
    /\ back' = "idle"
    /\ incoming' = << >>
    /\ known' = -1
    /\ want' = 0
    /\ short' = FALSE

\* start_buffer joins a running buffer or starts one
Open ==
    /\ pc = "closed"
    /\ \/ srv.st = "running" /\ UNCHANGED server
       \/ Restart
    /\ token' = srv'.inst
    /\ pc' = "cold"
    /\ tries' = ColdTries
    /\ UNCHANGED <<loop, want, short, table, position, fatal, shortAt, probing, out>>

\* one attempt of the cold-start loop, which forces the refresh
ColdFetched ==
    /\ pc = "cold"
    /\ Fetched("trim")
    /\ UNCHANGED <<made, locals, token, table, position, fatal, shortAt, probing, out>>

ColdDoomed ==
    /\ pc = "cold"
    /\ Doomed
    /\ Reset
    /\ tries' = 0
    /\ pc' = "closed"
    /\ UNCHANGED made

ColdFails ==
    /\ pc = "cold"
    /\ \/ /\ tries > 1
          /\ tries' = tries - 1
          /\ UNCHANGED <<pc, loop, want, short, token, table, position, fatal, shortAt, probing, out>>
       \/ /\ tries = 1
          /\ Reset
          /\ tries' = 0
          /\ pc' = "closed"
    /\ UNCHANGED server

Last(n) == Smaller(n, Len(segments))
Dropped == Len(segments) - Last(Margin)

\* the address that becomes byte 0
Base == segments[Dropped + 1].off

Rebased(s) == [seq |-> s.seq, off |-> s.off - Base, size |-> s.size]

\* keep the last segments only, and start at the first of them
Trim ==
    /\ pc = "trim"
    /\ IF Dropped > 0
       THEN /\ segments' = [k \in 1..Margin |-> Rebased(segments[Dropped + k])]
            /\ total' = total - Base
       ELSE UNCHANGED table
    /\ position' = IF segments' = << >> THEN total' ELSE segments'[1].off
    /\ pc' = "idle"
    /\ tries' = 0
    /\ UNCHANGED <<server, loop, want, short, token, fatal, shortAt, probing, out>>

\* stop_buffer takes the buffer down unless another viewer is left
Close ==
    /\ pc = "idle"
    /\ srv' \in {srv, Gone}
    /\ Reset
    /\ tries' = 0
    /\ pc' = "closed"
    /\ UNCHANGED made

-----------------------------------------------------------------------------
(* ReadLiveTimeshiftStream.                                                *)

LikelyProbe == position # shortAt /\ probing

Return ==
    /\ pc' = "idle"
    /\ tries' = 0
    /\ want' = 0
    /\ short' = FALSE

Read(n) ==
    /\ pc = "idle"
    /\ ~fatal
    /\ want' = n
    /\ IF position >= total
       THEN /\ pc' = "tail"
            /\ short' = LikelyProbe
            /\ tries' = IF LikelyProbe THEN 1 ELSE FullTries
       ELSE /\ pc' = "get"
            /\ UNCHANGED <<short, tries>>
    /\ UNCHANGED <<server, loop, token, table, position, fatal, shortAt, probing, out>>

\* one attempt of the catch-up loop
TailFetched ==
    /\ pc = "tail"
    /\ Fetched("tailed")
    /\ UNCHANGED <<made, locals, token, table, position, fatal, shortAt, probing, out>>

TailDoomed ==
    /\ pc = "tail"
    /\ Doomed
    /\ fatal' = TRUE
    /\ Return
    /\ UNCHANGED <<made, loop, token, table, position, shortAt, probing, out>>

TailFails ==
    /\ pc = "tail"
    /\ pc' = "tailed"
    /\ UNCHANGED <<server, loop, locals, token, table, position, fatal, shortAt, probing, out>>

\* grown, try again, or give up; a long wait outlasts the seek's window
Tailed ==
    /\ pc = "tailed"
    /\ \/ /\ position < total
          /\ pc' = "get"
          /\ tries' = 0
          /\ short' = FALSE
          /\ shortAt' = -1
          /\ UNCHANGED <<want, probing>>
       \/ /\ position >= total
          /\ tries > 1
          /\ pc' = "tail"
          /\ tries' = tries - 1
          /\ UNCHANGED <<want, short, shortAt, probing>>
       \/ /\ position >= total
          /\ tries = 1
          /\ Return
          /\ shortAt' = IF short THEN position ELSE -1
          /\ probing' = (short /\ probing)
    /\ UNCHANGED <<server, loop, token, table, position, fatal, out>>

Covers(s, p) == s.off <= p /\ p < s.off + s.size

\* Mutant of Authorized: the file server asks for no token.
Authorized_Anyone == srv.st # "none"

\* _check_access_token
Authorized == srv.st # "none" /\ srv.inst = token

\* Mutant of Agrees: the size in Content-Range is not looked at.
Agrees_Ignored(s, size) == TRUE

\* the file is as long as the manifest had said
Agrees(s, size) == size = s.size

\* the range request: 416 past the end, otherwise the bytes and the file's size
Get(s) ==
    LET m == Holder(s.seq)
        off == position - s.off
        len == Smaller(want, s.size - off)
    IN  /\ Authorized
        /\ srv.st # "removed"
        /\ \E size \in FileSizes(m) :
              /\ off < size
              /\ IF Agrees(s, size)
                 THEN /\ position' = position + len
                      /\ out' = [inst |-> srv.inst, of |-> s.seq, seq |-> m,
                                 off |-> off, len |-> len, size |-> size]
                      /\ UNCHANGED fatal
                 ELSE fatal' = TRUE /\ UNCHANGED <<position, out>>

\* the transport fails, or 403, 404, 416, or a position nothing covers
GetFails == UNCHANGED <<position, out, fatal>>

GetSegment ==
    /\ pc = "get"
    /\ \/ \E k \in 1..Len(segments) : Covers(segments[k], position) /\ Get(segments[k])
       \/ GetFails
    /\ Return
    /\ UNCHANGED <<server, loop, token, table, shortAt, probing>>

-----------------------------------------------------------------------------
(* SeekLiveTimeshiftStream, and the length and duration queries.           *)

\* SEEK_SET and SEEK_CUR use what is known, SEEK_END refreshes first
SeekCall ==
    /\ pc = "idle"
    /\ ~fatal
    /\ probing' = TRUE
    /\ \/ pc' = "seek" /\ UNCHANGED <<srv, loop>>
       \/ Fetched("seek")
       \/ Doomed /\ pc' = "seek" /\ UNCHANGED loop
    /\ UNCHANGED <<made, locals, token, table, position, fatal, shortAt, out>>

\* the last segments' bytes are kept ahead of the position: total less their
\* sizes is the offset of the first of them
TailTarget ==
    IF segments = << >> THEN 0 ELSE segments[Len(segments) - Last(Margin) + 1].off

SeekTo(p) ==
    /\ pc = "seek"
    /\ pc' = "idle"
    /\ IF p < 0
       THEN UNCHANGED <<position, out>>
       ELSE position' = Smaller(p, TailTarget) /\ out' = Nothing
    /\ UNCHANGED <<server, loop, locals, token, table, fatal, shortAt, probing>>

\* Length when not fatal, Duration always.  A query within
\* kMinRefreshInterval of the last manifest is a stuttering step.
Poll ==
    /\ pc = "idle"
    /\ \/ Fetched("idle")
       \/ Doomed /\ UNCHANGED <<pc, loop>>
    /\ UNCHANGED <<made, locals, token, table, position, fatal, shortAt, probing, out>>

-----------------------------------------------------------------------------
Client ==
    \/ Merge \/ Merged
    \/ ColdFetched \/ ColdDoomed \/ ColdFails \/ Trim
    \/ TailFetched \/ TailDoomed \/ TailFails \/ Tailed
    \/ GetSegment
    \/ \E p \in -1..(total + 1) : SeekTo(p)

Calls ==
    \/ Open \/ Close \/ SeekCall \/ Poll
    \/ \E n \in 1..MaxWant : Read(n)

Next == Buffer \/ Clock \/ Client \/ Calls

Spec == Init /\ [][Next]_vars

\* A viewer that watches without seeking: Kodi keeps reading the stream it has
\* open, calls return, and not every request of a reader fails.
Watching == Buffer \/ Clock \/ Client \/ Open \/ Close \/ Poll \/ \E n \in 1..MaxWant : Read(n)

LiveSpec ==
    /\ Init /\ [][Watching]_vars
    /\ WF_vars(Client)
    /\ SF_vars(\E n \in 1..MaxWant : Read(n))
    /\ SF_vars(TailFetched \/ TailDoomed)
    /\ SF_vars(GetSegment /\ position' # position)

-----------------------------------------------------------------------------
(* Properties.                                                             *)

Info == [seq : Nat, off : Nat, size : Nat \ {0}]

TypeOK ==
    /\ srv \in [inst : Nat, st : {"none", "running", "exited", "removed"}, edge : Nat,
               lag : BOOLEAN]
    /\ made \in Nat
    /\ pc \in {"closed", "cold", "trim", "idle", "merge", "tail", "tailed", "get", "seek"}
    /\ back \in {"trim", "idle", "tailed", "seek"}
    /\ tries \in Nat /\ want \in 0..MaxWant /\ short \in BOOLEAN
    /\ token \in Nat
    /\ segments \in Seq(Info) /\ total \in Nat /\ position \in Nat
    /\ fatal \in BOOLEAN /\ shortAt \in Int
    /\ probing \in BOOLEAN
    /\ incoming \in Seq([seq : Nat, size : Nat]) /\ known \in Int
    /\ out \in [inst : Nat, of : Nat, seq : Int, off : Nat, len : Nat, size : Nat]

\* Every address below the stream's length belongs to one segment, and to one
\* only: a position the player holds is never in a gap and never ambiguous,
\* through merges, the trim at open and seeks.
OneSegmentPerByte ==
    \A p \in 0..(total - 1) :
        \E k \in 1..Len(segments) :
            /\ Covers(segments[k], p)
            /\ \A j \in 1..Len(segments) : Covers(segments[j], p) => j = k

Opened == pc \notin {"closed", "cold", "trim"} /\ ~(pc = "merge" /\ back = "trim")

\* While a stream is open an address keeps its meaning: the table only grows at
\* its end, whatever the buffer's window does.
AddressStable ==
    [][Opened /\ Opened' => /\ SubSeq(segments', 1, Len(segments)) = segments
                            /\ total' >= total]_vars

\* No read delivers bytes of a buffer instance the stream was not opened on.
OwnInstance == out # Nothing => out.inst = token

\* o takes up where the delivery before left off: in the same row of the table,
\* or at the start of the next row once all that its file then had was delivered
Resumes(b, o) ==
    \/ o.of = b.of /\ o.off = b.off + b.len
    \/ /\ o.off = 0
       /\ b.off + b.len = b.size
       /\ \E k \in 1..(Len(segments) - 1) :
             segments[k].seq = b.of /\ segments[k + 1].seq = o.of

\* Reads that follow each other without a seek go through each file of the table
\* without a gap and without a repetition, and leave it only when they have all
\* the bytes the file server said it had, even when a manifest had told another
\* size.  Two things it does not say, and TLC refutes both: a file served before
\* stat() sees its last bytes loses these (NothingLeftOut), and a reused file
\* name of the same length passes for the segment (OwnSegment).
NoSplice ==
    [][out # Nothing /\ out' # Nothing /\ out' # out => Resumes(out, out')]_vars

\* What the size check of a segment request looks made for and does not give:
\* a segment is left only at its real end, and its bytes are its own.
NothingLeftOut ==
    [][out # Nothing /\ out' # Nothing /\ out'.of # out.of
          => out.off + out.len = Size(out.inst, out.of)]_vars

OwnSegment == out # Nothing => out.seq = out.of

\* A stream whose ffmpeg has exited is found to be dead.
DeadBufferNoticed ==
    (pc # "closed" /\ srv.st = "exited") ~> (fatal \/ pc = "closed" \/ srv.st # "exited")

=============================================================================
