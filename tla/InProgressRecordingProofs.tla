---------------------- MODULE InProgressRecordingProofs ----------------------
(***************************************************************************)
(* The addresses of a recording that is still being made, for any sizes of  *)
(* its segments, any reads and any number of attempts and of opens.         *)
(***************************************************************************)
EXTENDS InProgressRecording, SequenceTheorems, TLAPS

(* A table of segments s that ends at the address end: they follow each other *)
(* without overlap, end within it and leave nothing out.                     *)
Ordered(s, end) ==
    /\ \A j, k \in 1..Len(s) : j < k => s[j].off + s[j].size <= s[k].off
    /\ \A k \in 1..Len(s) : s[k].off + s[k].size <= end

Covered(s, end) == \A p \in 0..(end - 1) : \E k \in 1..Len(s) : Covers(s[k], p)

WellFormed(s, end) == Ordered(s, end) /\ Covered(s, end)

Numbered(s) == \A k \in 1..Len(s) : s[k].n = k

\* the stream's own table and the one a later Open starts from
Tables == WellFormed(segments, total) /\ WellFormed(cache.segments, cache.total)

\* what a closed stream keeps, and what only a refresh has
CallState ==
    /\ pc = "closed" => segments = << >> /\ total = 0 /\ ~finished
    /\ pc # "merge" => fresh = 0
    /\ pc = "merge" => next > 0 /\ fresh <= Len(segments)

\* the cache lacks what the current refresh has found; it is dropped for good with
\* the end of the recording
InStep ==
    pc # "closed" =>
        IF finished THEN ~live /\ cache = NoCache
        ELSE /\ cache.segments = SubSeq(segments, 1, Len(segments) - fresh)
             /\ fresh = 0 => cache.total = total

\* nothing was skipped: entry n of the playlist is segment n of the table
Counted ==
    ~skipped => /\ Numbered(segments)
                /\ Numbered(cache.segments)
                /\ pc = "merge" => next = Len(segments) + 1

IInv == TypeOK /\ Tables /\ CallState /\ InStep /\ Counted

-----------------------------------------------------------------------------
(* Sequences of segments.                                                  *)

\* What an Append changes.
LEMMA Appended ==
    ASSUME NEW S, NEW s \in Seq(S), NEW e \in S
    PROVE  /\ Append(s, e) \in Seq(S)
           /\ Len(Append(s, e)) = Len(s) + 1
           /\ \A k \in 1..Len(s) : Append(s, e)[k] = s[k]
           /\ Append(s, e)[Len(s) + 1] = e
           /\ \A n \in 0..Len(s) : SubSeq(Append(s, e), 1, n) = SubSeq(s, 1, n)
           /\ IsPrefix(s, Append(s, e))
  BY DEF IsPrefix

LEMMA Joined ==
    ASSUME NEW S, NEW s \in Seq(S), NEW a \in Seq(S), NEW b \in Seq(S),
           Len(s) = Len(a) + Len(b),
           \A i \in 1..Len(a) : a[i] = s[i],
           \A i \in 1..Len(b) : b[i] = s[Len(a) + i]
    PROVE  a \o b = s
<1>1. a \o b \in Seq(S) /\ Len(a \o b) = Len(s) /\ Len(a) \in Nat /\ Len(b) \in Nat
  BY ConcatProperties
<1>2. ASSUME NEW i \in 1..Len(s) PROVE (a \o b)[i] = s[i]
  <2>1. CASE i <= Len(a)
    BY <1>1, <2>1, ConcatProperties
  <2>2. CASE i > Len(a)
    <3>1. i - Len(a) \in 1..Len(b) /\ Len(a) + (i - Len(a)) = i
      BY <1>1, <2>2
    <3>2. b[i - Len(a)] = s[i]
      BY <3>1
    <3>3. (a \o b)[i] = b[i - Len(a)]
      BY <1>1, <2>2, ConcatProperties
    <3>4. QED
      BY <3>2, <3>3
  <2>3. QED
    BY <1>1, <2>1, <2>2
<1>3. QED
  BY <1>1, <1>2, SeqEqual

\* A sequence is its two parts, one after the other.
LEMMA Halves ==
    ASSUME NEW S, NEW s \in Seq(S), NEW n \in 0..Len(s)
    PROVE  /\ SubSeq(s, 1, n) \in Seq(S) /\ Len(SubSeq(s, 1, n)) = n
           /\ SubSeq(s, n + 1, Len(s)) \in Seq(S)
           /\ SubSeq(s, 1, n) \o SubSeq(s, n + 1, Len(s)) = s
           /\ IsPrefix(SubSeq(s, 1, n), s)
<1>1. Len(s) \in Nat /\ n \in Nat /\ n <= Len(s)
  OBVIOUS
<1>2. SubSeq(s, 1, n) \in Seq(S) /\ Len(SubSeq(s, 1, n)) = n
      /\ \A i \in 1..n : SubSeq(s, 1, n)[i] = s[i]
  BY <1>1
<1>3. SubSeq(s, n + 1, Len(s)) \in Seq(S) /\ Len(SubSeq(s, n + 1, Len(s))) = Len(s) - n
      /\ \A i \in 1..(Len(s) - n) : SubSeq(s, n + 1, Len(s))[i] = s[n + i]
  BY <1>1
<1>4. DEFINE a == SubSeq(s, 1, n)
             b == SubSeq(s, n + 1, Len(s))
<1>5. a \o b = s
  <2>1. a \in Seq(S) /\ b \in Seq(S) /\ Len(a) = n /\ Len(b) = Len(s) - n
        /\ (\A i \in 1..n : a[i] = s[i]) /\ (\A i \in 1..(Len(s) - n) : b[i] = s[n + i])
    BY <1>2, <1>3
  <2>. HIDE DEF a, b
  <2>2. Len(s) = Len(a) + Len(b)
    BY <1>1, <2>1
  <2>3. \A i \in 1..Len(a) : a[i] = s[i]
    BY <2>1
  <2>4. \A i \in 1..Len(b) : b[i] = s[Len(a) + i]
    BY <2>1
  <2>5. QED
    BY <2>1, <2>2, <2>3, <2>4, Joined
<1>6. IsPrefix(a, s)
  BY <1>1, <1>2 DEF IsPrefix
<1>7. QED
  BY <1>2, <1>3, <1>5, <1>6

LEMMA EmptyWellFormed ==
    /\ << >> \in Seq(Info) /\ Len(<< >>) = 0
    /\ WellFormed(<< >>, 0) /\ Numbered(<< >>)
    /\ SubSeq(<< >>, 1, 0) = << >>
  BY DEF WellFormed, Ordered, Covered, Numbered

\* A segment put at the end keeps a table well formed.
LEMMA AddedWellFormed ==
    ASSUME NEW s \in Seq(Info), NEW end \in Nat, WellFormed(s, end),
           NEW e \in Info, e.off = end
    PROVE  WellFormed(Append(s, e), end + e.size)
<1>1. DEFINE t == Append(s, e)
             longer == end + e.size
<1>2. /\ Len(s) \in Nat /\ Len(t) = Len(s) + 1 /\ t[Len(s) + 1] = e
      /\ \A k \in 1..Len(s) : t[k] = s[k] /\ s[k] \in Info
  BY Appended
<1>3. e.size \in Nat /\ e.size > 0 /\ e.off \in Nat
  BY DEF Info
<1>4. \A k \in 1..Len(s) : s[k].off \in Nat /\ s[k].size \in Nat
  BY <1>2 DEF Info
<1>. HIDE DEF t
<1>5. Ordered(t, end + e.size)
  <2>1. ASSUME NEW j \in 1..Len(t), NEW k \in 1..Len(t), j < k
        PROVE  t[j].off + t[j].size <= t[k].off
    <3>1. j \in 1..Len(s) /\ t[j] = s[j]
      BY <1>2, <2>1
    <3>2. CASE k \in 1..Len(s)
      BY <1>2, <2>1, <3>1, <3>2 DEF WellFormed, Ordered
    <3>3. CASE k = Len(s) + 1
      BY <1>2, <3>1, <3>3 DEF WellFormed, Ordered
    <3>4. QED
      BY <1>2, <3>2, <3>3
  <2>2. ASSUME NEW k \in 1..Len(t) PROVE t[k].off + t[k].size <= end + e.size
    <3>1. CASE k \in 1..Len(s)
      <4>1. s[k].off + s[k].size <= end
        BY <3>1 DEF WellFormed, Ordered
      <4>2. QED
        BY <1>2, <1>3, <1>4, <3>1, <4>1
    <3>2. CASE k = Len(s) + 1
      BY <1>2, <1>3, <3>2
    <3>3. QED
      BY <1>2, <3>1, <3>2
  <2>3. QED
    BY <2>1, <2>2 DEF Ordered
<1>6. Covered(t, longer)
  <2>. HIDE DEF longer
  <2>1. SUFFICES ASSUME NEW p \in 0..(longer - 1)
                 PROVE  \E k \in 1..Len(t) : Covers(t[k], p)
    BY DEF Covered
  <2>. USE DEF longer
  <2>2. CASE p < end
    <3>1. p \in 0..(end - 1)
      BY <1>3, <2>2
    <3>2. PICK k \in 1..Len(s) : Covers(s[k], p)
      BY <3>1 DEF WellFormed, Covered
    <3>3. k \in 1..Len(t) /\ t[k] = s[k]
      BY <1>2
    <3>4. QED
      BY <3>2, <3>3
  <2>3. CASE p >= end
    <3>1. Covers(t[Len(s) + 1], p)
      BY <1>2, <1>3, <2>3 DEF Covers
    <3>2. QED
      BY <1>2, <3>1
  <2>4. QED
    BY <2>2, <2>3
<1>7. QED
  BY <1>5, <1>6 DEF WellFormed, t, longer

LEMMA SizeType == \A n \in 1..Len(SizeOf) : SizeOf[n] \in Nat \ {0}
  BY SizeAssumption

-----------------------------------------------------------------------------
(* What the actions do to the tables.                                      *)

LEMMA IInvInit == Init => IInv
<1>1. SUFFICES ASSUME Init PROVE IInv
  OBVIOUS
<1>2. segments = << >> /\ total = 0 /\ cache = NoCache /\ pc = "closed" /\ fresh = 0 /\ ~finished
  BY <1>1 DEF Init
<1>3. TypeOK
  <2>1. shortAt \in Int /\ cachedAt \in Int /\ want \in 0..MaxWant /\ listed \in 0..Len(SizeOf)
        /\ last \in 0..Len(SizeOf)
    BY <1>1, WantAssumption, SizeAssumption DEF Init
  <2>2. cache \in [segments : Seq(Info), total : Nat] /\ segments \in Seq(Info)
    BY <1>2, EmptyWellFormed DEF NoCache
  <2>3. QED
    BY <1>1, <2>1, <2>2 DEF Init, TypeOK
<1>4. Tables /\ CallState /\ InStep /\ Counted
  BY <1>2, EmptyWellFormed DEF Tables, CallState, InStep, Counted, NoCache
<1>5. QED
  BY <1>3, <1>4 DEF IInv

\* Every action but Merge, Check, Open and Reset's leaves the tables alone.
Quiet ==
    /\ UNCHANGED <<table, cache, skipped, fresh, finished>>
    /\ live' => live
    /\ pc' = "closed" <=> pc = "closed"
    /\ pc = "merge" => pc' = "merge" /\ next' = next
    /\ pc # "merge" /\ pc' = "merge" => next' = Len(segments) + 1

LEMMA QuietStep ==
    ASSUME IInv, Quiet
    PROVE  Tables' /\ CallState' /\ InStep' /\ Counted'
<1>1. /\ segments' = segments /\ total' = total /\ cache' = cache /\ skipped' = skipped
      /\ fresh' = fresh /\ finished' = finished
  BY DEF Quiet, table
<1>2. Len(segments) \in Nat
  BY DEF IInv, TypeOK
<1>3. Tables'
  BY <1>1 DEF IInv, Tables, WellFormed, Ordered, Covered, Covers
<1>4. CallState'
  BY <1>1, <1>2 DEF IInv, CallState, Quiet
<1>5. InStep'
  BY <1>1 DEF IInv, InStep, Quiet
<1>6. Counted'
  BY <1>1 DEF IInv, Counted, Numbered, Quiet
<1>7. QED
  BY <1>3, <1>4, <1>5, <1>6

\* a call that ends with the stream closed
LEMMA ResetStep ==
    ASSUME IInv, Reset, UNCHANGED <<cache, skipped>>
    PROVE  Tables' /\ CallState' /\ InStep' /\ Counted'
<1>1. /\ segments' = << >> /\ total' = 0 /\ cache' = cache /\ skipped' = skipped
      /\ fresh' = 0 /\ finished' = FALSE /\ pc' = "closed"
  BY DEF Reset
<1>2. Tables'
  BY <1>1, EmptyWellFormed DEF IInv, Tables, WellFormed, Ordered, Covered, Covers
<1>3. CallState' /\ InStep'
  BY <1>1 DEF CallState, InStep
<1>4. Counted'
  BY <1>1, EmptyWellFormed DEF IInv, Counted, Numbered
<1>5. QED
  BY <1>2, <1>3, <1>4

LEMMA OpenStep ==
    ASSUME IInv, Open
    PROVE  Tables' /\ CallState' /\ InStep' /\ Counted'
<1>1. /\ segments' = cache.segments /\ total' = cache.total /\ cache' = cache /\ skipped' = skipped
      /\ fresh' = fresh /\ finished' = finished /\ pc' = "cold" /\ pc = "closed"
  BY DEF Open, merge
<1>2. fresh = 0 /\ ~finished /\ cache.segments \in Seq(Info)
  BY <1>1 DEF IInv, CallState, TypeOK
<1>3. Tables'
  BY <1>1 DEF IInv, Tables, WellFormed, Ordered, Covered, Covers
<1>4. CallState'
  BY <1>1, <1>2 DEF CallState
<1>5. SubSeq(cache.segments, 1, Len(cache.segments) - 0) = cache.segments
  BY <1>2
<1>6. InStep'
  BY <1>1, <1>2, <1>5 DEF InStep
<1>7. Counted'
  BY <1>1 DEF IInv, Counted, Numbered
<1>8. QED
  BY <1>3, <1>4, <1>6, <1>7

LEMMA MergeEffect ==
    ASSUME TypeOK, CallState, Merge, segments' # segments \/ total' # total \/ fresh' # fresh
    PROVE  /\ Placed(next) \in Info
           /\ Placed(next).off = total /\ Placed(next).n = next
           /\ total' = total + Placed(next).size
           /\ segments' = Append(segments, Placed(next))
           /\ fresh' = fresh + 1
           /\ skipped' = skipped
<1>1. next \in 1..Len(SizeOf) /\ total \in Nat
  BY SizeAssumption DEF TypeOK, CallState, Merge
<1>2. SizeOf[next] \in Nat \ {0}
  BY <1>1, SizeType
<1>3. Placed(next) \in Info /\ Placed(next).off = total /\ Placed(next).n = next
      /\ Placed(next).size = SizeOf[next]
  BY <1>1, <1>2 DEF Placed, Info
<1>4. QED
  BY <1>3 DEF Merge, table

LEMMA MergeStep ==
    ASSUME IInv, Merge
    PROVE  Tables' /\ CallState' /\ InStep' /\ Counted'
<1>1. /\ pc = "merge" /\ pc' = "merge" /\ cache' = cache /\ finished' = finished /\ live' = live
      /\ next' = next + 1
  BY DEF Merge, server
<1>2. /\ segments \in Seq(Info) /\ Len(segments) \in Nat /\ next \in Nat /\ total \in Nat
      /\ fresh \in Nat /\ fresh <= Len(segments)
  BY <1>1 DEF IInv, TypeOK, CallState
<1>3. CASE segments' = segments /\ total' = total /\ fresh' = fresh
  <2>1. skipped'
    <3>1. ~(fresh' = fresh + 1)
      BY <1>2, <1>3
    <3>2. QED
      BY <3>1 DEF Merge
  <2>2. Tables'
    BY <1>1, <1>3 DEF IInv, Tables, WellFormed, Ordered, Covered, Covers
  <2>3. CallState'
    BY <1>1, <1>2, <1>3 DEF CallState
  <2>4. InStep'
    BY <1>1, <1>3 DEF IInv, InStep
  <2>5. Counted'
    BY <2>1 DEF Counted
  <2>6. QED
    BY <2>2, <2>3, <2>4, <2>5
<1>4. CASE segments' # segments \/ total' # total \/ fresh' # fresh
  <2>1. PICK e \in Info : /\ e.off = total /\ e.n = next
                          /\ total' = total + e.size
                          /\ segments' = Append(segments, e)
                          /\ fresh' = fresh + 1
                          /\ skipped' = skipped
    BY <1>4, MergeEffect DEF IInv
  <2>2. WellFormed(segments', total')
    <3>1. WellFormed(segments, total)
      BY DEF IInv, Tables
    <3>2. WellFormed(Append(segments, e), total + e.size)
      BY <1>2, <2>1, <3>1, AddedWellFormed
    <3>3. QED
      BY <2>1, <3>2
  <2>3. Tables'
    <3>1. WellFormed(segments, total)'
      BY <2>2 DEF WellFormed, Ordered, Covered, Covers
    <3>2. WellFormed(cache.segments, cache.total)'
      BY <1>1 DEF IInv, Tables, WellFormed, Ordered, Covered, Covers
    <3>3. QED
      BY <3>1, <3>2 DEF Tables
  <2>4. /\ Len(segments') = Len(segments) + 1 /\ segments'[Len(segments) + 1] = e
        /\ \A k \in 1..Len(segments) : segments'[k] = segments[k]
        /\ \A n \in 0..Len(segments) : SubSeq(segments', 1, n) = SubSeq(segments, 1, n)
    BY <1>2, <2>1, Appended
  <2>5. CallState'
    BY <1>1, <1>2, <2>1, <2>4 DEF CallState
  <2>6. InStep'
    <3>1. Len(segments') - fresh' = Len(segments) - fresh /\ Len(segments) - fresh \in 0..Len(segments)
          /\ fresh' # 0
      BY <1>2, <2>1, <2>4
    <3>2. SubSeq(segments', 1, Len(segments') - fresh') = SubSeq(segments, 1, Len(segments) - fresh)
      BY <2>4, <3>1
    <3>3. QED
      BY <1>1, <3>1, <3>2 DEF IInv, InStep
  <2>7. Counted'
    <3>1. SUFFICES ASSUME ~skipped' PROVE /\ Numbered(segments)' /\ Numbered(cache.segments)'
                                          /\ next' = Len(segments') + 1
      BY DEF Counted
    <3>2. Numbered(segments) /\ Numbered(cache.segments) /\ next = Len(segments) + 1
      BY <1>1, <2>1, <3>1 DEF IInv, Counted
    <3>3. Numbered(segments)'
      BY <1>2, <2>1, <2>4, <3>2 DEF Numbered
    <3>4. Numbered(cache.segments)'
      BY <1>1, <3>2 DEF Numbered
    <3>5. QED
      BY <1>1, <1>2, <2>4, <3>2, <3>3, <3>4
  <2>8. QED
    BY <2>3, <2>5, <2>6, <2>7
<1>5. QED
  BY <1>3, <1>4

-----------------------------------------------------------------------------
(* Types.                                                                  *)

\* The values a call's own steps give to its variables.
Small ==
    /\ pc \in {"closed", "cold", "colder", "idle", "merge", "tail", "tailed", "get", "seek"}
    /\ back \in {"colder", "idle", "tailed", "seek"}
    /\ tries \in Nat /\ want \in 0..MaxWant /\ short \in BOOLEAN
    /\ next \in Nat /\ last \in 0..Len(SizeOf) /\ fresh \in Nat
    /\ finished \in BOOLEAN /\ shortAt \in Int /\ probing \in BOOLEAN /\ cachedAt \in Int
    /\ skipped \in BOOLEAN

Large ==
    /\ listed \in 0..Len(SizeOf) /\ live \in BOOLEAN /\ hls \in BOOLEAN
    /\ segments \in Seq(Info) /\ total \in Nat /\ position \in Nat
    /\ cache \in [segments : Seq(Info), total : Nat]

LEMMA Split == TypeOK <=> Small /\ Large
  BY DEF TypeOK, Small, Large

LEMMA SplitNext == Small' /\ Large' => TypeOK'
  BY DEF TypeOK, Small, Large

LEMMA ServerTypes ==
    ASSUME TypeOK, CallState, Server \/ Clock
    PROVE  TypeOK' /\ CallState'
<1>1. Small'
  <2>1. probing' \in BOOLEAN
    BY DEF TypeOK, Server, Clock
  <2>2. UNCHANGED <<pc, back, tries, want, short, next, last, fresh, finished, shortAt,
                    cachedAt, skipped>>
    BY DEF Server, Clock, Untouched, call, merge
  <2>3. QED
    BY <2>1, <2>2 DEF TypeOK, Small
<1>2. Large'
  <2>1. listed' \in 0..Len(SizeOf)
    BY SizeAssumption DEF TypeOK, Server, Clock, server, ListSegment, RecordingEnds, Concatenated
  <2>2. live' \in BOOLEAN /\ hls' \in BOOLEAN
    BY Zenon DEF TypeOK, Server, Clock, server, ListSegment, RecordingEnds, Concatenated
  <2>3. UNCHANGED <<segments, total, position, cache>>
    BY DEF Server, Clock, Untouched, table
  <2>4. QED
    BY <2>1, <2>2, <2>3 DEF TypeOK, Large
<1>3. CallState'
  BY DEF CallState, Server, Clock, Untouched, table, call, merge
<1>4. QED
  BY <1>1, <1>2, <1>3, SplitNext

\* The playlist's fetch.
LEMMA ListingTypes ==
    ASSUME TypeOK, NEW ret \in {"colder", "idle", "tailed", "seek"}, Listing(ret)
    PROVE  /\ next' \in Nat /\ next' > 0 /\ last' \in 0..Len(SizeOf)
           /\ back' \in {"colder", "idle", "tailed", "seek"} /\ pc' = "merge"
  BY DEF TypeOK, Listing, FirstNew

LEMMA ResetTypes ==
    ASSUME TypeOK, Reset, UNCHANGED <<server, cache, skipped>>
    PROVE  TypeOK' /\ CallState'
<1>1. Small'
  <2>1. 0 \in 0..Len(SizeOf) /\ 0 \in 0..MaxWant /\ -1 \in Int
    BY SizeAssumption, WantAssumption
  <2>2. skipped' \in BOOLEAN
    BY DEF TypeOK
  <2>3. QED
    BY <2>1, <2>2 DEF Small, Reset
<1>2. Large'
  BY EmptyWellFormed DEF TypeOK, Large, Reset, server
<1>3. CallState'
  BY DEF CallState, Reset
<1>4. QED
  BY <1>1, <1>2, <1>3, SplitNext

LEMMA MergeTypes ==
    ASSUME TypeOK, CallState, Merge
    PROVE  TypeOK' /\ CallState'
<1>1. Small'
  <2>1. skipped' \in BOOLEAN
    BY Zenon DEF TypeOK, Merge
  <2>2. next' \in Nat /\ fresh' \in Nat
    BY DEF TypeOK, Merge, table
  <2>3. QED
    BY <2>1, <2>2 DEF TypeOK, Small, Merge
<1>2. UNCHANGED <<listed, live, hls, position, cache>> /\ pc = "merge" /\ pc' = "merge"
      /\ next' = next + 1 /\ next \in Nat /\ fresh \in Nat /\ Len(segments) \in Nat
      /\ fresh <= Len(segments)
  BY DEF TypeOK, CallState, Merge, server
<1>3. CASE segments' = segments /\ total' = total /\ fresh' = fresh
  <2>1. Large'
    BY <1>2, <1>3 DEF TypeOK, Large
  <2>2. CallState'
    BY <1>2, <1>3 DEF CallState
  <2>3. QED
    BY <1>1, <2>1, <2>2, SplitNext
<1>4. CASE segments' # segments \/ total' # total \/ fresh' # fresh
  <2>1. PICK e \in Info : /\ total' = total + e.size
                          /\ segments' = Append(segments, e)
                          /\ fresh' = fresh + 1
    BY <1>4, MergeEffect
  <2>2. segments' \in Seq(Info) /\ Len(segments') = Len(segments) + 1
    BY <2>1, Appended DEF TypeOK
  <2>3. total' \in Nat
    BY <2>1 DEF TypeOK, Info
  <2>4. Large'
    BY <1>2, <2>2, <2>3 DEF TypeOK, Large
  <2>5. CallState'
    BY <1>2, <2>1, <2>2 DEF CallState
  <2>6. QED
    BY <1>1, <2>4, <2>5, SplitNext
<1>5. QED
  BY <1>3, <1>4

LEMMA CheckTypes ==
    ASSUME TypeOK, CallState, Check
    PROVE  TypeOK' /\ CallState'
<1>1. pc = "merge" /\ pc' = back /\ back' = "idle" /\ next' = 0 /\ last' = 0 /\ fresh' = 0
      /\ UNCHANGED <<server, tries, want, short, table, position, shortAt, probing, cachedAt, skipped>>
  BY DEF Check
<1>2. finished' \in BOOLEAN
  <2>1. PICK failed \in {FALSE, "status" \in Faults} : finished' = (failed \/ ~live)
    BY DEF Check
  <2>2. QED
    BY <2>1
<1>3. Small'
  BY <1>1, <1>2, SizeAssumption DEF TypeOK, Small
<1>4. cache' \in [segments : Seq(Info), total : Nat]
  <2>1. CASE cache' = NoCache
    BY <2>1, EmptyWellFormed DEF NoCache
  <2>2. CASE cache' = cache
    BY <2>2 DEF TypeOK
  <2>3. CASE cache' = CachedNow
    <3>1. segments \in Seq(Info) /\ cache.segments \in Seq(Info) /\ total \in Nat
          /\ fresh \in 0..Len(segments)
      BY <1>1 DEF TypeOK, CallState
    <3>2. Newest \in Seq(Info)
      <4>1. Len(segments) \in Nat /\ Len(segments) - fresh \in 0..Len(segments)
        BY <3>1
      <4>2. QED
        BY <3>1, <4>1, Halves DEF Newest
    <3>3. cache.segments \o Newest \in Seq(Info)
      BY <3>1, <3>2, ConcatProperties
    <3>4. QED
      BY <2>3, <3>1, <3>3 DEF CachedNow
  <2>4. QED
    BY <2>1, <2>2, <2>3 DEF Check
<1>5. Large'
  BY <1>1, <1>4 DEF TypeOK, Large, server, table
<1>6. CallState'
  BY <1>1 DEF TypeOK, CallState, table
<1>7. QED
  BY <1>3, <1>5, <1>6, SplitNext

LEMMA OpenTypes ==
    ASSUME TypeOK, CallState, Open
    PROVE  TypeOK' /\ CallState'
<1>1. Small'
  BY TriesAssumption DEF TypeOK, Small, Open, merge
<1>2. Large'
  BY DEF TypeOK, Large, Open, server
<1>3. CallState'
  BY DEF CallState, Open, merge
<1>4. QED
  BY <1>1, <1>2, <1>3, SplitNext

LEMMA ColdTypes ==
    ASSUME TypeOK, CallState, Cold \/ Colder \/ Close
    PROVE  TypeOK' /\ CallState'
<1>1. CASE Reset
  BY <1>1, ResetTypes DEF Cold, Colder, Close
<1>2. CASE Cold /\ ~Reset
  <2>1. Listing("colder") /\ UNCHANGED <<server, fresh, tries, want, short, table, position,
                                         finished, shortAt, probing, cachedAt, cache, skipped>>
        /\ pc = "cold"
    BY <1>2 DEF Cold
  <2>2. next' \in Nat /\ next' > 0 /\ last' \in 0..Len(SizeOf)
        /\ back' \in {"colder", "idle", "tailed", "seek"} /\ pc' = "merge"
    BY <2>1, ListingTypes
  <2>3. Small' /\ Large'
    BY <2>1, <2>2 DEF TypeOK, Small, Large, server, table
  <2>4. CallState'
    BY <2>1, <2>2 DEF CallState, TypeOK, table
  <2>5. QED
    BY <2>3, <2>4, SplitNext
<1>3. CASE Colder /\ ~Reset
  <2>1. UNCHANGED <<back, want, short, merge, table, position, finished, shortAt, probing, cachedAt>>
        /\ UNCHANGED <<server, cache, skipped>> /\ pc = "colder" /\ pc' \in {"cold", "idle"}
        /\ tries' \in Nat
    BY <1>3 DEF Colder, TypeOK
  <2>2. Small' /\ Large'
    BY <2>1 DEF TypeOK, Small, Large, server, table, merge
  <2>3. CallState'
    BY <2>1 DEF CallState, table, merge
  <2>4. QED
    BY <2>2, <2>3, SplitNext
<1>4. QED
  BY <1>1, <1>2, <1>3 DEF Close

LEMMA PollTypes ==
    ASSUME TypeOK, CallState, CatchUp \/ SeekCall \/ Poll
    PROVE  TypeOK' /\ CallState'
<1>1. UNCHANGED <<server, fresh, tries, want, short, table, position, finished, shortAt,
                  cachedAt, cache, skipped>>
      /\ pc \in {"tail", "idle"} /\ probing' \in BOOLEAN
  BY DEF CatchUp, SeekCall, Poll, TypeOK
<1>2. \/ UNCHANGED <<back, next, last>> /\ pc' \in {"tailed", "seek"}
      \/ Listing("tailed") \/ Listing("seek") \/ Listing("idle")
  BY DEF CatchUp, SeekCall, Poll
<1>3. /\ next' \in Nat /\ last' \in 0..Len(SizeOf)
      /\ back' \in {"colder", "idle", "tailed", "seek"} /\ pc' \in {"tailed", "seek", "merge"}
      /\ pc' = "merge" => next' > 0
  BY <1>2, ListingTypes DEF TypeOK
<1>4. Small' /\ Large'
  BY <1>1, <1>3 DEF TypeOK, Small, Large, server, table
<1>5. CallState'
  BY <1>1, <1>3 DEF CallState, TypeOK, table
<1>6. QED
  BY <1>4, <1>5, SplitNext

LEMMA ReadTypes ==
    ASSUME TypeOK, CallState, Tailed \/ Get \/ \E n \in 1..MaxWant : Read(n)
    PROVE  TypeOK' /\ CallState'
<1>1. UNCHANGED <<server, back, merge, table, finished, cache, skipped>>
      /\ pc \in {"tailed", "get", "idle"} /\ pc' \in {"tail", "get", "idle"}
  BY DEF Tailed, Get, Read, Return
<1>2. want' \in 0..MaxWant
  BY WantAssumption DEF TypeOK, Tailed, Get, Read, Return
<1>3. tries' \in Nat /\ short' \in BOOLEAN /\ probing' \in BOOLEAN /\ shortAt' \in Int
  <2>1. CASE Tailed
    <3>1. tries' \in Nat
      BY <2>1 DEF TypeOK, Tailed, Return
    <3>2. short' \in BOOLEAN /\ probing' \in BOOLEAN
      BY <2>1, Zenon DEF TypeOK, Tailed, Return
    <3>3. shortAt' \in {shortAt, position, -1}
      BY <2>1, Zenon DEF Tailed
    <3>4. QED
      BY <3>1, <3>2, <3>3 DEF TypeOK
  <2>2. CASE Get
    BY <2>2 DEF TypeOK, Get, Return
  <2>3. CASE \E n \in 1..MaxWant : Read(n)
    BY <2>3, TriesAssumption DEF TypeOK, Read, LikelyProbe
  <2>4. QED
    BY <2>1, <2>2, <2>3
<1>4. position' \in Nat /\ cachedAt' \in Int
  <2>1. CASE UNCHANGED <<position, cachedAt>>
    BY <2>1 DEF TypeOK
  <2>2. CASE Get /\ ~UNCHANGED <<position, cachedAt>>
    <3>1. PICK k \in 1..Len(segments) :
               /\ Covers(segments[k], position)
               /\ cachedAt' = segments[k].off
               /\ position' = position + Smaller(want, segments[k].size - (position - segments[k].off))
      BY <2>2 DEF Get
    <3>2. segments[k].off \in Nat /\ segments[k].size \in Nat
      <4>1. segments \in Seq(Info)
        BY DEF TypeOK
      <4>2. segments[k] \in Info
        BY <4>1
      <4>3. QED
        BY <4>2 DEF Info
    <3>3. position \in Nat /\ want \in Nat
      BY WantAssumption DEF TypeOK
    <3>4. segments[k].size - (position - segments[k].off) \in Nat
      BY <3>1, <3>2, <3>3 DEF Covers
    <3>5. Smaller(want, segments[k].size - (position - segments[k].off)) \in Nat
      BY <3>3, <3>4 DEF Smaller
    <3>6. QED
      BY <3>1, <3>2, <3>3, <3>5
  <2>3. QED
    BY <2>1, <2>2 DEF Tailed, Read
<1>5. Small' /\ Large'
  BY <1>1, <1>2, <1>3, <1>4 DEF TypeOK, Small, Large, server, table, merge
<1>6. CallState'
  BY <1>1 DEF CallState, table, merge
<1>7. QED
  BY <1>5, <1>6, SplitNext

\* The target of a seek is an address of the stream.
LEMMA SeekTypes ==
    ASSUME Tables, TypeOK, CallState, NEW p \in Int, SeekTo(p)
    PROVE  TypeOK' /\ CallState'
<1>1. TailTarget \in Nat
  <2>1. CASE segments = << >>
    BY <2>1 DEF TailTarget, TypeOK
  <2>2. CASE segments # << >>
    <3>1. Len(segments) \in 1..Len(segments) /\ segments[Len(segments)] \in Info
      BY <2>2 DEF TypeOK
    <3>2. segments[Len(segments)].off + segments[Len(segments)].size <= total
      BY <3>1 DEF Tables, WellFormed, Ordered
    <3>3. segments[Len(segments)].off \in Nat /\ segments[Len(segments)].size \in Nat
      BY <3>1 DEF Info
    <3>4. total \in Nat /\ TailTarget = total - segments[Len(segments)].size
      BY <2>2 DEF TailTarget, TypeOK
    <3>5. QED
      BY <3>2, <3>3, <3>4
  <2>3. QED
    BY <2>1, <2>2
<1>2. position' \in Nat
  BY <1>1 DEF TypeOK, SeekTo, Refused, Smaller
<1>3. Small' /\ Large'
  BY <1>2 DEF TypeOK, Small, Large, SeekTo, server, table, call, merge
<1>4. CallState'
  BY DEF CallState, SeekTo, table, call, merge
<1>5. QED
  BY <1>3, <1>4, SplitNext

-----------------------------------------------------------------------------
(* The steps.                                                              *)

\* What a refresh does to the cache in the end, if the server answers.
LEMMA CheckEffect ==
    ASSUME IInv, Check, "status" \notin Faults
    PROVE  \/ cache' = NoCache /\ finished' /\ ~live'
           \/ ~finished' /\ ~finished /\ cache' = [segments |-> segments, total |-> total]
<1>1. pc = "merge" /\ live' = live /\ finished' = ~live
  BY DEF Check, server
<1>2. CASE ~live
  BY <1>1, <1>2 DEF Check
<1>3. CASE live
  <2>1. ~finished' /\ ~finished
    BY <1>1, <1>3 DEF IInv, InStep
  <2>2. /\ cache.segments = SubSeq(segments, 1, Len(segments) - fresh)
        /\ fresh = 0 => cache.total = total
    BY <1>1, <2>1 DEF IInv, InStep
  <2>3. segments \in Seq(Info) /\ Len(segments) \in Nat /\ Len(segments) - fresh \in 0..Len(segments)
    BY <1>1 DEF IInv, TypeOK, CallState
  <2>4. CASE fresh > 0
    <3>1. cache' = CachedNow
      BY <2>1, <2>4 DEF Check
    <3>2. cache.segments \o Newest = segments
      BY <2>2, <2>3, Halves DEF Newest
    <3>3. QED
      BY <2>1, <3>1, <3>2 DEF CachedNow
  <2>5. CASE ~(fresh > 0)
    <3>1. cache' = cache /\ fresh = 0
      BY <2>1, <2>5 DEF Check, IInv, TypeOK
    <3>2. cache.segments = segments /\ cache.total = total
      BY <2>2, <2>3, <3>1
    <3>3. cache = [segments |-> cache.segments, total |-> cache.total]
      BY DEF IInv, TypeOK
    <3>4. QED
      BY <2>1, <3>1, <3>2, <3>3
  <2>6. QED
    BY <2>4, <2>5
<1>4. QED
  BY <1>2, <1>3 DEF IInv, TypeOK

LEMMA CheckStep ==
    ASSUME IInv, Check, "status" \notin Faults
    PROVE  Tables' /\ CallState' /\ InStep' /\ Counted'
<1>1. /\ segments' = segments /\ total' = total /\ skipped' = skipped /\ fresh' = 0
      /\ pc' = back /\ pc' \notin {"closed", "merge"} /\ live' = live
  BY DEF Check, table, server, IInv, TypeOK
<1>2. CallState'
  BY <1>1 DEF CallState
<1>3. CASE cache' = NoCache /\ finished' /\ ~live'
  <2>1. cache'.segments = << >> /\ cache'.total = 0
    BY <1>3 DEF NoCache
  <2>2. Tables'
    BY <1>1, <2>1, EmptyWellFormed DEF IInv, Tables, WellFormed, Ordered, Covered, Covers
  <2>3. InStep'
    BY <1>3 DEF InStep, NoCache
  <2>4. Counted'
    BY <1>1, <2>1, EmptyWellFormed DEF IInv, Counted, Numbered
  <2>5. QED
    BY <1>2, <2>2, <2>3, <2>4
<1>4. CASE ~finished' /\ ~finished /\ cache' = [segments |-> segments, total |-> total]
  <2>1. cache'.segments = segments /\ cache'.total = total
    BY <1>4
  <2>2. Tables'
    BY <1>1, <2>1 DEF IInv, Tables, WellFormed, Ordered, Covered, Covers
  <2>3. SubSeq(segments', 1, Len(segments') - fresh') = segments
    BY <1>1 DEF IInv, TypeOK
  <2>4. InStep'
    BY <1>1, <1>4, <2>1, <2>3 DEF InStep
  <2>5. Counted'
    BY <1>1, <2>1 DEF IInv, Counted, Numbered
  <2>6. QED
    BY <1>2, <2>2, <2>4, <2>5
<1>5. QED
  BY <1>3, <1>4, CheckEffect

LEMMA Listed ==
    ASSUME NEW ret, Listing(ret)
    PROVE  pc' = "merge" /\ next' = Len(segments) + 1
  BY DEF Listing, FirstNew

LEMMA Step ==
    ASSUME IInv, [Next]_vars, "status" \notin Faults
    PROVE  IInv'
<1>0. TypeOK /\ CallState /\ Tables
  BY DEF IInv
<1>1. CASE Server \/ Clock
  <2>1. Quiet
    BY <1>1 DEF Quiet, Server, Clock, Untouched, server, call, merge, ListSegment,
                RecordingEnds, Concatenated
  <2>2. QED
    BY <1>0, <1>1, <2>1, ServerTypes, QuietStep DEF IInv
<1>2. CASE Merge
  BY <1>0, <1>2, MergeTypes, MergeStep DEF IInv
<1>3. CASE Check
  BY <1>0, <1>3, CheckTypes, CheckStep DEF IInv
<1>4. CASE Cold \/ Colder \/ Close
  <2>1. CASE Reset
    <3>1. UNCHANGED <<cache, skipped>>
      BY <1>4 DEF Cold, Colder, Close
    <3>2. QED
      BY <1>0, <1>4, <2>1, <3>1, ColdTypes, ResetStep DEF IInv
  <2>2. CASE ~Reset
    <3>1. Quiet
      BY <1>4, <2>2, Listed DEF Quiet, Cold, Colder, Close, server, merge
    <3>2. QED
      BY <1>0, <1>4, <3>1, ColdTypes, QuietStep DEF IInv
  <2>3. QED
    BY <2>1, <2>2
<1>5. CASE CatchUp \/ SeekCall \/ Poll
  <2>1. Quiet
    BY <1>5, Listed DEF Quiet, CatchUp, SeekCall, Poll, server
  <2>2. QED
    BY <1>0, <1>5, <2>1, PollTypes, QuietStep DEF IInv
<1>6. CASE Tailed \/ Get \/ \E n \in 1..MaxWant : Read(n)
  <2>1. Quiet
    BY <1>6 DEF Quiet, Tailed, Get, Read, Return, server, merge
  <2>2. QED
    BY <1>0, <1>6, <2>1, ReadTypes, QuietStep DEF IInv
<1>7. CASE \E p \in -1..(total + 1) : SeekTo(p)
  <2>1. PICK p \in Int : SeekTo(p)
    BY <1>7 DEF IInv, TypeOK
  <2>2. Quiet
    BY <2>1 DEF Quiet, SeekTo, server, call, merge
  <2>3. QED
    BY <1>0, <2>1, <2>2, SeekTypes, QuietStep DEF IInv
<1>8. CASE Open
  BY <1>0, <1>8, OpenTypes, OpenStep DEF IInv
<1>9. CASE UNCHANGED vars
  <2>1. Quiet
    BY <1>9 DEF Quiet, vars, server, call, merge
  <2>2. TypeOK'
    BY <1>0, <1>9 DEF TypeOK, vars, server, call, merge, table
  <2>3. QED
    BY <2>1, <2>2, QuietStep DEF IInv
<1>10. QED
  BY <1>1, <1>2, <1>3, <1>4, <1>5, <1>6, <1>7, <1>8, <1>9 DEF Next, Client, Calls

LEMMA Invariance == "status" \notin Faults => (Spec => []IInv)
<1>1. SUFFICES ASSUME "status" \notin Faults PROVE Spec => []IInv
  OBVIOUS
<1>2. IInv /\ [Next]_vars => IInv'
  BY <1>1, Step
<1>3. QED
  BY IInvInit, <1>2, PTL DEF Spec

\* What IInv says of the properties.
LEMMA Consequences == IInv => OneSegmentPerByte /\ CacheInStep /\ InOrder
<1>1. SUFFICES ASSUME IInv PROVE OneSegmentPerByte /\ CacheInStep /\ InOrder
  OBVIOUS
<1>2. segments \in Seq(Info) /\ Len(segments) \in Nat /\ total \in Nat
  BY <1>1 DEF IInv, TypeOK
<1>3. \A k \in 1..Len(segments) : segments[k].off \in Nat /\ segments[k].size \in Nat
  <2>1. \A k \in 1..Len(segments) : segments[k] \in Info
    BY <1>2
  <2>2. QED
    BY <2>1 DEF Info
<1>4. OneSegmentPerByte
  <2>1. SUFFICES ASSUME NEW p \in 0..(total - 1)
                 PROVE  \E k \in 1..Len(segments) :
                           /\ Covers(segments[k], p)
                           /\ \A j \in 1..Len(segments) : Covers(segments[j], p) => j = k
    BY DEF OneSegmentPerByte
  <2>2. PICK k \in 1..Len(segments) : Covers(segments[k], p)
    BY <1>1 DEF IInv, Tables, WellFormed, Covered
  <2>3. ASSUME NEW j \in 1..Len(segments), Covers(segments[j], p) PROVE j = k
    <3>1. /\ j < k => segments[j].off + segments[j].size <= segments[k].off
          /\ k < j => segments[k].off + segments[k].size <= segments[j].off
      BY <1>1 DEF IInv, Tables, WellFormed, Ordered
    <3>2. p \in Int /\ segments[j].off <= p /\ p < segments[j].off + segments[j].size
          /\ segments[k].off <= p /\ p < segments[k].off + segments[k].size
      BY <2>2, <2>3, <1>2 DEF Covers
    <3>3. /\ segments[j].off \in Nat /\ segments[j].size \in Nat
          /\ segments[k].off \in Nat /\ segments[k].size \in Nat
      BY <1>3
    <3>4. ~(j < k)
      BY <3>1, <3>2, <3>3
    <3>5. ~(k < j)
      BY <3>1, <3>2, <3>3
    <3>6. QED
      BY <1>2, <3>4, <3>5
  <2>4. QED
    BY <2>2, <2>3
<1>5. CacheInStep
  <2>1. SUFFICES ASSUME pc \notin {"closed", "merge"}, ~finished
                 PROVE  cache = [segments |-> segments, total |-> total]
    BY DEF CacheInStep
  <2>2. fresh = 0
    BY <1>1, <2>1 DEF IInv, CallState
  <2>3. cache.segments = SubSeq(segments, 1, Len(segments) - 0) /\ cache.total = total
    BY <1>1, <2>1, <2>2 DEF IInv, InStep
  <2>4. cache.segments = segments
    BY <1>2, <2>3
  <2>5. cache = [segments |-> cache.segments, total |-> cache.total]
    BY <1>1 DEF IInv, TypeOK
  <2>6. QED
    BY <2>3, <2>4, <2>5
<1>6. InOrder
  BY <1>1 DEF IInv, Counted, Numbered, InOrder
<1>7. QED
  BY <1>4, <1>5, <1>6

LEMMA PrefixReflexive == ASSUME NEW S, NEW s \in Seq(S) PROVE IsPrefix(s, s)
  BY DEF IsPrefix

\* The cache and the table of an open stream grow at their ends only.
LEMMA StableStep ==
    ASSUME IInv, [Next]_vars, "status" \notin Faults
    PROVE  /\ cache # NoCache /\ cache' # NoCache => IsPrefix(cache.segments, cache'.segments)
           /\ pc # "closed" /\ pc' # "closed" => IsPrefix(segments, segments')
<1>1. segments \in Seq(Info) /\ Len(segments) \in Nat /\ cache.segments \in Seq(Info)
  BY DEF IInv, TypeOK
<1>2. cache # NoCache /\ cache' # NoCache => IsPrefix(cache.segments, cache'.segments)
  <2>1. CASE Check
    <3>1. SUFFICES ASSUME cache' # NoCache PROVE IsPrefix(cache.segments, cache'.segments)
      OBVIOUS
    <3>2. ~finished /\ cache'.segments = segments
      BY <2>1, <3>1, CheckEffect
    <3>3. cache.segments = SubSeq(segments, 1, Len(segments) - fresh)
          /\ Len(segments) - fresh \in 0..Len(segments)
      BY <1>1, <2>1, <3>2 DEF IInv, InStep, Check, CallState, TypeOK
    <3>4. IsPrefix(SubSeq(segments, 1, Len(segments) - fresh), segments)
      BY <1>1, <3>3, Halves
    <3>5. QED
      BY <3>2, <3>3, <3>4
  <2>2. CASE cache' = cache
    BY <1>1, <2>2, PrefixReflexive
  <2>3. Check \/ cache' = cache
    BY DEF Next, Client, Calls, Server, Clock, Untouched, Merge, Cold, Colder, CatchUp,
           Tailed, Get, SeekTo, Open, Close, SeekCall, Poll, Read, vars
  <2>4. QED
    BY <2>1, <2>2, <2>3
<1>3. pc # "closed" /\ pc' # "closed" => IsPrefix(segments, segments')
  <2>1. SUFFICES ASSUME pc # "closed", pc' # "closed" PROVE IsPrefix(segments, segments')
    OBVIOUS
  <2>2. CASE segments' = segments
    BY <1>1, <2>2, PrefixReflexive
  <2>3. CASE Merge /\ segments' # segments
    <3>1. PICK e \in Info : segments' = Append(segments, e)
      BY <2>3, MergeEffect DEF IInv
    <3>2. QED
      BY <1>1, <3>1, Appended
  <2>4. segments' = segments \/ Merge
    BY <2>1 DEF Next, Client, Calls, Server, Clock, Untouched, Check, Cold, Colder, CatchUp,
                Tailed, Get, SeekTo, Open, Close, SeekCall, Poll, Read, Reset, vars, table
  <2>5. QED
    BY <2>2, <2>3, <2>4
<1>4. QED
  BY <1>2, <1>3

-----------------------------------------------------------------------------
(* The theorems.  They need the status request: one that fails is taken for *)
(* the end of the recording and drops the cache entry, and the next one that *)
(* succeeds makes an entry that lacks the segments before it.                *)

\* Every reachable state of a stream and of the cache is well formed: no address, size or
\* position is ever negative.
THEOREM TypeCorrect == "status" \notin Faults => (Spec => []TypeOK)
<1>1. IInv => TypeOK
  BY DEF IInv
<1>2. QED
  BY <1>1, Invariance, PTL

\* Every address below the stream's length belongs to exactly one segment, over any number
\* of opens and whichever playlist and probe requests fail.
THEOREM OneSegmentPerByteHolds == "status" \notin Faults => (Spec => []OneSegmentPerByte)
  BY Consequences, Invariance, PTL

\* Between refreshes the cache is the table of the open stream.
THEOREM CacheInStepHolds == "status" \notin Faults => (Spec => []CacheInStep)
  BY Consequences, Invariance, PTL

\* Unless a probe has failed the stream is the recording from its start, in order.
THEOREM InOrderHolds == "status" \notin Faults => (Spec => []InOrder)
  BY Consequences, Invariance, PTL

\* The cache and the table of an open stream never change the meaning of an address.
THEOREM AddressStableHolds == "status" \notin Faults => (Spec => AddressStable)
<1>1. SUFFICES ASSUME "status" \notin Faults PROVE Spec => AddressStable
  OBVIOUS
<1>2. ASSUME IInv, [Next]_vars
      PROVE  [/\ cache # NoCache /\ cache' # NoCache => IsPrefix(cache.segments, cache'.segments)
              /\ pc # "closed" /\ pc' # "closed" => IsPrefix(segments, segments')]_vars
  BY <1>1, <1>2, StableStep
<1>3. Spec => []IInv
  BY <1>1, Invariance
<1>4. QED
  BY <1>2, <1>3, PTL DEF Spec, AddressStable

=============================================================================
