------------------------- MODULE InProgressRecording -------------------------
(***************************************************************************)
(* Playback of a recording that is still being made.  The server lists the   *)
(* recording's segments in a playlist that only grows; the add-on sizes the  *)
(* ones it does not know yet with a probe each, and gives them the next      *)
(* addresses of the stream.  What was probed is kept for the next Open in a  *)
(* cache that outlives the stream.  Kodi's calls come one after the other;   *)
(* between the requests of one call the recording goes on, and any request   *)
(* may fail.  Durations follow the sizes entry by entry and are left out.    *)
(***************************************************************************)
EXTENDS Integers, SequencesExt

CONSTANTS
    SizeOf,    \* bound: the sizes of the recording's segments
    MaxWant,   \* the largest read
    ColdTries, \* kColdStartMaxAttempts
    FullTries, \* what ComputeCatchUpAttempts returns for an ordinary read
    Faults     \* which of "playlist", "probe", "status" requests can fail

ASSUME SizeAssumption == SizeOf \in Seq(Nat \ {0})
ASSUME WantAssumption == MaxWant \in Nat \ {0}
ASSUME TriesAssumption == ColdTries \in Nat \ {0} /\ FullTries \in Nat \ {0}
ASSUME FaultAssumption == Faults \subseteq {"playlist", "probe", "status"}

VARIABLES
    listed,    \* how many segments index.m3u8 lists
    live,      \* status == "recording"
    hls,       \* the recording's HLS directory is still there
    pc, back,  \* as in LiveStream: where the call is, where a refresh returns to
    tries, want, short,
    segments, total, position, finished,
    shortAt,   \* lastShortGiveUpPosition
    probing,   \* less than kSeekProbeWindow since the last seek
    cachedAt,  \* cachedSegmentByteOffset
    next, last, \* the playlist's entries still to be merged
    fresh,     \* newSegmentsProbed of the current refresh
    cache,     \* m_inProgressSegmentCache of this recording
    skipped    \* history: a probe has failed

server == <<listed, live, hls>>
merge  == <<next, last, fresh>>
call   == <<back, tries, want, short, merge>>
table  == <<segments, total>>
vars == <<server, pc, call, table, position, finished, shortAt, probing,
          cachedAt, cache, skipped>>

-----------------------------------------------------------------------------
Smaller(a, b) == IF a < b THEN a ELSE b

NoCache == [segments |-> << >>, total |-> 0]

Init ==
    /\ listed = 0 /\ live = TRUE /\ hls = TRUE
    /\ pc = "closed" /\ back = "idle"
    /\ tries = 0 /\ want = 0 /\ short = FALSE
    /\ next = 0 /\ last = 0 /\ fresh = 0
    /\ segments = << >> /\ total = 0 /\ position = 0
    /\ finished = FALSE /\ shortAt = -1 /\ probing = FALSE /\ cachedAt = -1
    /\ cache = NoCache
    /\ skipped = FALSE

-----------------------------------------------------------------------------
(* The server.  The status says "no longer recording" before the recorder's  *)
(* process has listed its last segment.                                     *)

Untouched == UNCHANGED <<pc, call, table, position, finished, shortAt, cachedAt, cache, skipped>>

ListSegment ==
    /\ hls
    /\ listed < Len(SizeOf)
    /\ listed' = listed + 1
    /\ UNCHANGED <<live, hls>>

RecordingEnds ==
    /\ live
    /\ live' = FALSE
    /\ UNCHANGED <<listed, hls>>

\* the segments have been joined into one file and the directory is removed
Concatenated ==
    /\ ~live
    /\ hls
    /\ hls' = FALSE
    /\ UNCHANGED <<listed, live>>

Server ==
    /\ ListSegment \/ RecordingEnds \/ Concatenated
    /\ Untouched
    /\ UNCHANGED probing

Clock ==
    /\ probing
    /\ probing' = FALSE
    /\ Untouched
    /\ UNCHANGED server

-----------------------------------------------------------------------------
(* RefreshInProgressRecordingManifest.                                     *)

\* Mutant of FirstNew: segmentIndex > alreadyKnown.
FirstNew_OffByOne == Len(segments) + 2

\* the first of the entries past the number of segments that are known
FirstNew == Len(segments) + 1

\* the playlist is fetched: what is new in it will be probed and merged
Listing(ret) ==
    /\ hls
    /\ next' = FirstNew
    /\ last' = listed
    /\ back' = ret
    /\ pc' = "merge"

NoPlaylist == "playlist" \in Faults \/ ~hls

\* Mutant of Placed: the offset does not count what this refresh has added.
Placed_OldEnd(n) == [n |-> n, off |-> cache.total, size |-> SizeOf[n]]

\* an entry is given the next addresses of the stream
Placed(n) == [n |-> n, off |-> total, size |-> SizeOf[n]]

\* one round of the merge loop: the entry's probe has answered or it has not
Merge ==
    /\ pc = "merge"
    /\ next <= last
    /\ next' = next + 1
    /\ \/ /\ segments' = Append(segments, Placed(next))
          /\ total' = total + SizeOf[next]
          /\ fresh' = fresh + 1
          /\ UNCHANGED skipped
       \/ "probe" \in Faults /\ skipped' = TRUE /\ UNCHANGED <<table, fresh>>
    /\ UNCHANGED <<server, pc, back, tries, want, short, last, position, finished,
                   shortAt, probing, cachedAt, cache>>

Newest == SubSeq(segments, Len(segments) - fresh + 1, Len(segments))

\* Mutant of CachedNow: the whole table is appended, not its new end.
CachedNow_Whole == [segments |-> cache.segments \o segments, total |-> total]

\* Mutant of CachedNow: the entry is overwritten, as if it held every segment.
CachedNow_Overwritten == [segments |-> Newest, total |-> total]

\* the cache entry, created if there is none, gets what this refresh found
CachedNow == [segments |-> cache.segments \o Newest, total |-> total]

\* GetRecordingById; an error counts as the end of the recording
Check ==
    /\ pc = "merge"
    /\ next > last
    /\ \E failed \in {FALSE, "status" \in Faults} : finished' = (failed \/ ~live)
    /\ cache' = IF finished' THEN NoCache
                ELSE IF fresh > 0 THEN CachedNow ELSE cache
    /\ next' = 0 /\ last' = 0 /\ fresh' = 0
    /\ pc' = back
    /\ back' = "idle"
    /\ UNCHANGED <<server, tries, want, short, table, position, shortAt, probing, cachedAt, skipped>>

-----------------------------------------------------------------------------
(* Open and Close.                                                         *)

\* m_inProgressRecordingStream = InProgressRecordingStreamState()
Reset ==
    /\ pc' = "closed" /\ back' = "idle"
    /\ tries' = 0 /\ want' = 0 /\ short' = FALSE
    /\ next' = 0 /\ last' = 0 /\ fresh' = 0
    /\ segments' = << >> /\ total' = 0 /\ position' = 0
    /\ finished' = FALSE /\ shortAt' = -1 /\ probing' = FALSE /\ cachedAt' = -1

\* OpenRecordedStream comes here for these two states only
Open ==
    /\ pc = "closed"
    /\ live \/ hls
    /\ segments' = cache.segments
    /\ total' = cache.total
    /\ pc' = "cold"
    /\ tries' = ColdTries
    /\ UNCHANGED <<server, back, want, short, merge, position, finished, shortAt, probing,
                   cachedAt, cache, skipped>>

\* one attempt of the cold-start loop; a refresh that fails ends it
Cold ==
    /\ pc = "cold"
    /\ \/ /\ Listing("colder")
          /\ UNCHANGED <<fresh, tries, want, short, table, position, finished, shortAt,
                         probing, cachedAt>>
       \/ NoPlaylist /\ Reset
    /\ UNCHANGED <<server, cache, skipped>>

Colder ==
    /\ pc = "colder"
    /\ \/ /\ segments # << >> \/ finished
          /\ pc' = "idle"
          /\ tries' = 0
          /\ UNCHANGED <<back, want, short, merge, table, position, finished, shortAt,
                         probing, cachedAt>>
       \/ /\ segments = << >> /\ ~finished
          /\ tries > 1
          /\ pc' = "cold"
          /\ tries' = tries - 1
          /\ UNCHANGED <<back, want, short, merge, table, position, finished, shortAt,
                         probing, cachedAt>>
       \/ segments = << >> /\ ~finished /\ tries = 1 /\ Reset
    /\ UNCHANGED <<server, cache, skipped>>

Close ==
    /\ pc = "idle"
    /\ Reset
    /\ UNCHANGED <<server, cache, skipped>>

-----------------------------------------------------------------------------
(* Read.                                                                   *)

LikelyProbe == position # shortAt /\ probing

Return == pc' = "idle" /\ tries' = 0 /\ want' = 0 /\ short' = FALSE

\* at the tail of a finished recording a read answers 0 and changes nothing
Read(n) ==
    /\ pc = "idle"
    /\ want' = n
    /\ \/ /\ position >= total
          /\ ~finished
          /\ pc' = "tail"
          /\ short' = LikelyProbe
          /\ tries' = IF LikelyProbe THEN 1 ELSE FullTries
       \/ /\ position < total
          /\ pc' = "get"
          /\ UNCHANGED <<short, tries>>
    /\ UNCHANGED <<server, back, merge, table, position, finished, shortAt, probing,
                   cachedAt, cache, skipped>>

\* one attempt of the catch-up loop
CatchUp ==
    /\ pc = "tail"
    /\ \/ Listing("tailed")
       \/ /\ NoPlaylist
          /\ pc' = "tailed"
          /\ UNCHANGED <<back, next, last>>
    /\ UNCHANGED <<server, fresh, tries, want, short, table, position, finished, shortAt,
                   probing, cachedAt, cache, skipped>>

\* grown, try again, or give up; only a long wait outlasts the seek's window
Tailed ==
    /\ pc = "tailed"
    /\ \/ /\ position < total
          /\ pc' = "get"
          /\ tries' = 0
          /\ short' = FALSE
          /\ shortAt' = -1
          /\ UNCHANGED <<want, probing>>
       \/ /\ position >= total /\ ~finished /\ tries > 1
          /\ pc' = "tail"
          /\ tries' = tries - 1
          /\ UNCHANGED <<want, short, shortAt, probing>>
       \/ /\ position >= total /\ (finished \/ tries = 1)
          /\ Return
          /\ shortAt' = IF short THEN position ELSE -1
          /\ probing' = (probing /\ (short \/ finished))
    /\ UNCHANGED <<server, back, merge, table, position, finished, cachedAt, cache, skipped>>

Covers(s, p) == s.off <= p /\ p < s.off + s.size

\* the segment's whole body is fetched unless it is the one in memory
Get ==
    /\ pc = "get"
    /\ \/ \E k \in 1..Len(segments) :
             LET s == segments[k]
             IN  /\ Covers(s, position)
                 /\ cachedAt = s.off \/ hls
                 /\ cachedAt' = s.off
                 /\ position' = position + Smaller(want, s.size - (position - s.off))
       \/ UNCHANGED <<cachedAt, position>>   \* no segment, or the fetch fails
    /\ Return
    /\ UNCHANGED <<server, back, merge, table, finished, shortAt, probing, cache, skipped>>

-----------------------------------------------------------------------------
(* Seek, length and duration.                                              *)

\* SEEK_END refreshes first, SEEK_SET and SEEK_CUR use what is known
SeekCall ==
    /\ pc = "idle"
    /\ probing' = TRUE
    /\ \/ Listing("seek")
       \/ pc' = "seek" /\ UNCHANGED <<back, next, last>>
    /\ UNCHANGED <<server, fresh, tries, want, short, table, position, finished, shortAt,
                   cachedAt, cache, skipped>>

Refused(p) == p < 0

\* the last segment's bytes are kept ahead of the position
TailTarget == IF segments = << >> THEN total ELSE total - segments[Len(segments)].size

SeekTo(p) ==
    /\ pc = "seek"
    /\ pc' = "idle"
    /\ position' = IF Refused(p) THEN position ELSE Smaller(p, TailTarget)
    /\ UNCHANGED <<server, call, table, finished, shortAt, probing, cachedAt, cache, skipped>>

\* a query within kMinRefreshInterval of the last refresh is a stuttering step
Poll ==
    /\ pc = "idle"
    /\ Listing("idle")
    /\ UNCHANGED <<server, fresh, tries, want, short, table, position, finished, shortAt,
                   probing, cachedAt, cache, skipped>>

-----------------------------------------------------------------------------
Client ==
    \/ Merge \/ Check \/ Cold \/ Colder \/ CatchUp \/ Tailed \/ Get
    \/ \E p \in -1..(total + 1) : SeekTo(p)

Calls ==
    \/ Open \/ Close \/ SeekCall \/ Poll
    \/ \E n \in 1..MaxWant : Read(n)

Next == Server \/ Clock \/ Client \/ Calls

Spec == Init /\ [][Next]_vars

-----------------------------------------------------------------------------
(* Properties.                                                             *)

Info == [n : Nat \ {0}, off : Nat, size : Nat \ {0}]

TypeOK ==
    /\ listed \in 0..Len(SizeOf) /\ live \in BOOLEAN /\ hls \in BOOLEAN
    /\ pc \in {"closed", "cold", "colder", "idle", "merge", "tail", "tailed", "get", "seek"}
    /\ back \in {"colder", "idle", "tailed", "seek"}
    /\ tries \in Nat /\ want \in 0..MaxWant /\ short \in BOOLEAN
    /\ next \in Nat /\ last \in 0..Len(SizeOf) /\ fresh \in Nat
    /\ segments \in Seq(Info) /\ total \in Nat /\ position \in Nat
    /\ finished \in BOOLEAN /\ shortAt \in Int /\ probing \in BOOLEAN /\ cachedAt \in Int
    /\ cache \in [segments : Seq(Info), total : Nat]
    /\ skipped \in BOOLEAN

\* Every address below the stream's length belongs to exactly one segment: a
\* read never meets the gap that it answers with 0 for ever, whatever the
\* stream was seeded with.
OneSegmentPerByte ==
    \A p \in 0..(total - 1) :
        \E k \in 1..Len(segments) :
            /\ Covers(segments[k], p)
            /\ \A j \in 1..Len(segments) : Covers(segments[j], p) => j = k

\* The cache that grows by what each refresh has found and the table of the open
\* stream, seeded from it, stay the same: the next Open finds what this one had.
CacheInStep ==
    (pc \notin {"closed", "merge"} /\ ~finished)
        => cache = [segments |-> segments, total |-> total]

\* "A segment probed on one open is still valid, at the same byte offset, on the
\* next": while it is kept, the cache only grows at its end, over any number of
\* opens, and so does the table of an open stream.
AddressStable ==
    [][/\ cache # NoCache /\ cache' # NoCache => IsPrefix(cache.segments, cache'.segments)
       /\ pc # "closed" /\ pc' # "closed" => IsPrefix(segments, segments')]_vars

\* Unless a probe has failed, the stream is the recording from its start, every
\* segment once and in order, over any number of opens.
InOrder == ~skipped => \A k \in 1..Len(segments) : segments[k].n = k

=============================================================================
