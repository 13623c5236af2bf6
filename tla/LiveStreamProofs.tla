-------------------------- MODULE LiveStreamProofs --------------------------
(* Theorems about LiveStream, for any buffer instances and segment sizes,   *)
(* window, margin and number of attempts.                                   *)
EXTENDS LiveStream, TLAPS

-----------------------------------------------------------------------------
(* The inductive invariant.                                                *)

\* the tracked instance is one of SizeOf, and has closed no more than it can
BufferOK ==
    /\ made <= Len(SizeOf)
    /\ srv.st # "none" => /\ srv.inst \in 1..made
                          /\ srv.edge <= Len(SizeOf[srv.inst])

\* segments follow each other without overlap, and end within the stream
Ordered ==
    /\ \A j, k \in 1..Len(segments) :
          j < k => segments[j].off + segments[j].size <= segments[k].off
    /\ \A k \in 1..Len(segments) : segments[k].off + segments[k].size <= total

\* and leave nothing out
Covered == \A p \in 0..(total - 1) : \E k \in 1..Len(segments) : Covers(segments[k], p)

IInv == TypeOK /\ BufferOK /\ Ordered /\ Covered

\* manifest entries, and what a read delivers
Entries == Seq([seq : Nat, size : Nat])
Delivery == [inst : Nat, of : Nat, seq : Int, off : Nat, len : Nat, size : Nat]

-----------------------------------------------------------------------------
LEMMA InitIInv == Init => IInv
<1>1. SUFFICES ASSUME Init PROVE IInv
  OBVIOUS
<1>2. segments = << >> /\ Len(segments) = 0 /\ segments \in Seq(Info)
  BY <1>1 DEF Init
<1>3. TypeOK
  <2>1. incoming \in Seq([seq : Nat, size : Nat])
    BY <1>1 DEF Init
  <2>2. shortAt \in Int /\ known \in Int /\ want \in 0..MaxWant
    BY <1>1, WantAssumption DEF Init
  <2>3. out \in [inst : Nat, of : Nat, seq : Int, off : Nat, len : Nat, size : Nat]
    BY <1>1 DEF Init, Nothing
  <2>4. QED
    BY <1>1, <1>2, <2>1, <2>2, <2>3 DEF Init, TypeOK, Gone, State
<1>4. BufferOK
  BY <1>1, SizeAssumption DEF Init, BufferOK, Gone, State
<1>5. Ordered /\ Covered
  BY <1>1, <1>2 DEF Init, Ordered, Covered
<1>6. QED
  BY <1>3, <1>4, <1>5 DEF IInv

\* What the buffer's own steps keep.
LEMMA BufferStep ==
    ASSUME IInv, Restart \/ CloseSegment \/ Flush \/ FfmpegExits \/ RemoveFiles \/ Forget
    PROVE  /\ BufferOK'
           /\ srv' \in [inst : Nat, st : {"none", "running", "exited", "removed"}, edge : Nat, lag : BOOLEAN]
           /\ made' \in Nat
<1>1. CASE Restart
  <2>1. made \in Nat /\ made < Len(SizeOf) /\ Len(SizeOf) \in Nat /\ made' = made + 1
    BY <1>1, SizeAssumption DEF IInv, TypeOK, Restart
  <2>2. srv' = [inst |-> made + 1, st |-> "running", edge |-> 0, lag |-> FALSE]
    BY <1>1 DEF Restart, Fresh, State
  <2>3. made + 1 \in 1..Len(SizeOf) /\ made + 1 \in Nat
    BY <2>1
  <2>4. 0 <= Len(SizeOf[made + 1])
    BY <2>3, SizeAssumption
  <2>5. srv'.inst = made + 1 /\ srv'.edge = 0 /\ srv'.st = "running"
    BY <2>2
  <2>6. BufferOK'
    BY <2>1, <2>3, <2>4, <2>5 DEF BufferOK
  <2>7. QED
    BY <2>1, <2>2, <2>6
<1>2. CASE CloseSegment
  <2>1. srv.inst \in 1..made /\ made \in Nat /\ made <= Len(SizeOf) /\ Len(SizeOf) \in Nat
    BY <1>2, SizeAssumption DEF IInv, TypeOK, BufferOK, CloseSegment
  <2>2. SizeOf[srv.inst] \in Seq(Nat \ {0})
    BY <2>1, SizeAssumption
  <2>3. Len(SizeOf[srv.inst]) \in Nat
    BY <2>2
  <2>4. srv.edge \in Nat /\ srv' = State(srv.inst, "running", srv.edge + 1, Lag) /\ made' = made
        /\ srv.edge < Len(SizeOf[srv.inst])
    BY <1>2 DEF IInv, TypeOK, CloseSegment
  <2>5. srv'.inst = srv.inst /\ srv'.edge = srv.edge + 1
    BY <2>4 DEF State
  <2>6. BufferOK'
    BY <2>1, <2>3, <2>4, <2>5 DEF BufferOK
  <2>7. QED
    BY <2>1, <2>4, <2>6, LagAssumption DEF State
<1>3. CASE FfmpegExits
  BY <1>3 DEF IInv, TypeOK, BufferOK, FfmpegExits, State
<1>4. CASE RemoveFiles
  BY <1>4 DEF IInv, TypeOK, BufferOK, RemoveFiles, State
<1>5. CASE Forget
  BY <1>5 DEF IInv, TypeOK, BufferOK, Forget, Gone, State
<1>6. CASE Flush
  BY <1>6 DEF IInv, TypeOK, BufferOK, Flush
<1>7. QED
  BY <1>1, <1>2, <1>3, <1>4, <1>5, <1>6

\* A manifest is a sequence of entries with sizes.
LEMMA ManifestType ==
    ASSUME IInv, srv.st # "none"
    PROVE  Manifests \subseteq Entries
<1>1. srv.inst \in 1..Len(SizeOf) /\ srv.edge \in Nat /\ srv.edge <= Len(SizeOf[srv.inst])
  BY SizeAssumption DEF IInv, TypeOK, BufferOK
<1>2. SizeOf[srv.inst] \in Seq(Nat \ {0})
  BY <1>1, SizeAssumption
<1>3. FirstListed \in Nat /\ FirstListed <= srv.edge
  BY <1>1, VisibleAssumption DEF FirstListed, Larger
<1>4. \A n \in Nat : n < srv.edge => Size(srv.inst, n) \in Nat \ {0}
  BY <1>1, <1>2 DEF Size
<1>5. DEFINE count == srv.edge - FirstListed
             entry(k, lack) == [seq |-> FirstListed + k - 1,
                                size |-> Size(srv.inst, FirstListed + k - 1) - lack]
             sequence(early) == [k \in 1..count |-> entry(k, IF k \in early THEN 1 ELSE 0)]
<1>6. count \in Nat
  BY <1>1, <1>3
<1>7. \A k \in 1..count : \A lack \in {0, 1} : entry(k, lack) \in [seq : Nat, size : Nat]
  <2>1. SUFFICES ASSUME NEW k \in 1..count, NEW lack \in {0, 1}
                 PROVE  entry(k, lack) \in [seq : Nat, size : Nat]
    OBVIOUS
  <2>2. FirstListed + k - 1 \in Nat /\ FirstListed + k - 1 < srv.edge
    BY <1>1, <1>3
  <2>3. Size(srv.inst, FirstListed + k - 1) - lack \in Nat
    BY <1>4, <2>2
  <2>4. QED
    BY <2>2, <2>3
<1>8. ASSUME NEW early PROVE sequence(early) \in Entries
  <2>1. \A k \in 1..count :
           entry(k, IF k \in early THEN 1 ELSE 0) \in [seq : Nat, size : Nat]
    BY <1>7
  <2>2. sequence(early) \in [1..count -> [seq : Nat, size : Nat]]
    BY <2>1
  <2>3. \A S : \A n \in Nat : \A f \in [1..n -> S] : f \in Seq(S)
    OBVIOUS
  <2>4. QED
    BY <1>6, <2>2, <2>3 DEF Entries
<1>9. QED
  BY <1>8 DEF Manifests

\* A forced or polled refresh keeps the types and the buffer's bounds.
LEMMA FetchedStep ==
    ASSUME IInv, NEW ret \in {"trim", "idle", "tailed", "seek"}, Fetched(ret)
    PROVE  /\ incoming' \in Entries
           /\ known' \in Int
           /\ back' = ret
           /\ pc' = "merge"
           /\ srv' = srv
<1>1. Manifests \subseteq Entries
  BY ManifestType DEF Fetched
<1>2. LastSequence \in Int
  <2>1. segments \in Seq(Info)
    BY DEF IInv, TypeOK
  <2>2. segments # << >> => segments[Len(segments)] \in Info
    BY <2>1
  <2>3. QED
    BY <2>2 DEF LastSequence, Info
<1>3. QED
  BY <1>1, <1>2 DEF Fetched

LEMMA DoomedStep ==
    ASSUME IInv, Doomed, made' = made
    PROVE  /\ BufferOK'
           /\ srv' \in [inst : Nat, st : {"none", "running", "exited", "removed"}, edge : Nat, lag : BOOLEAN]
  BY DEF IInv, TypeOK, BufferOK, Doomed, Gone, State


-----------------------------------------------------------------------------
(* The table.                                                              *)

LEMMA SegmentType ==
    ASSUME NEW s \in Seq(Info), NEW k \in 1..Len(s)
    PROVE  s[k].seq \in Nat /\ s[k].off \in Nat /\ s[k].size \in Nat /\ s[k].size > 0
<1>1. s[k] \in Info
  OBVIOUS
<1>2. QED
  BY <1>1 DEF Info

LEMMA HeadType == \A S : \A q \in Seq(S) : q # << >> => Head(q) \in S /\ Tail(q) \in Seq(S)
  OBVIOUS

\* Arithmetic, apart from the state.
LEMMA Below == \A n \in Nat : \A p \in 0..(n - 1) : p \in Nat /\ p < n
  OBVIOUS

LEMMA Shift ==
    \A a, b, c \in Nat :
        a <= b => /\ b - a \in Nat
                  /\ c < b - a => c + a \in 0..(b - 1)
                  /\ c <= b => c - a <= b - a
  OBVIOUS

LEMMA Later == \A a, b, c \in Nat : a <= b => a <= b + c
  OBVIOUS

\* One round of the merge loop: the new segment begins where the table ended.
LEMMA MergeTable ==
    ASSUME IInv, Merge
    PROVE  /\ segments' \in Seq(Info) /\ total' \in Nat
           /\ incoming' \in Entries
           /\ Ordered' /\ Covered'
           /\ total' >= total
           /\ SubSeq(segments', 1, Len(segments)) = segments
<1>1. /\ segments \in Seq(Info) /\ total \in Nat
      /\ incoming \in Seq([seq : Nat, size : Nat]) /\ incoming # << >>
      /\ Ordered /\ Covered
  BY DEF IInv, TypeOK, Merge
<1>2. incoming' \in Entries
  BY <1>1 DEF Merge, Entries
<1>3. CASE ~Taken(Head(incoming))
  <2>1. segments' = segments /\ total' = total
    BY <1>3 DEF Merge, table
  <2>2. SubSeq(segments, 1, Len(segments)) = segments
    BY <1>1
  <2>3. QED
    BY <1>1, <1>2, <2>1, <2>2 DEF Ordered, Covered, Covers
<1>4. CASE Taken(Head(incoming))
  <2>1. Head(incoming) \in [seq : Nat, size : Nat]
    BY <1>1, HeadType
  <2> DEFINE e == Placed(Head(incoming))
  <2>2. e \in Info /\ e.off = total /\ e.size = Head(incoming).size
    BY <1>1, <1>4, <2>1 DEF Placed, Taken, Info
  <2>3. segments' = Append(segments, e) /\ total' = total + e.size
    BY <1>4, <2>2 DEF Merge, Extended
  <2> HIDE DEF e
  <2>4. /\ segments' \in Seq(Info) /\ total' \in Nat /\ total' >= total
        /\ Len(segments') = Len(segments) + 1
        /\ segments'[Len(segments) + 1] = e
        /\ \A k \in 1..Len(segments) : segments'[k] = segments[k]
        /\ Len(segments) \in Nat
    BY <1>1, <2>2, <2>3 DEF Info
  <2>5. \A k \in 1..Len(segments) :
           segments[k].off \in Nat /\ segments[k].size \in Nat
    BY <1>1, SegmentType
  <2>5a. e.size \in Nat /\ e.size > 0 /\ e.off = total
    BY <2>2 DEF Info
  <2>6. Ordered'
    <3>1. ASSUME NEW j \in 1..Len(segments'), NEW k \in 1..Len(segments'), j < k
          PROVE  segments'[j].off + segments'[j].size <= segments'[k].off
      <4>1. j \in 1..Len(segments) /\ segments'[j] = segments[j]
        BY <2>4, <3>1
      <4>2. CASE k \in 1..Len(segments)
        BY <1>1, <2>4, <3>1, <4>1, <4>2 DEF Ordered
      <4>3. CASE k = Len(segments) + 1
        BY <1>1, <2>4, <2>5a, <4>1, <4>3 DEF Ordered
      <4>4. QED
        BY <2>4, <4>2, <4>3
    <3>2. ASSUME NEW k \in 1..Len(segments')
          PROVE  segments'[k].off + segments'[k].size <= total'
      <4>1. CASE k \in 1..Len(segments)
        <5>1. segments[k].off + segments[k].size <= total /\ segments'[k] = segments[k]
          BY <1>1, <2>4, <4>1 DEF Ordered
        <5>2. segments[k].off + segments[k].size \in Nat
          BY <2>5, <4>1
        <5>3. segments[k].off + segments[k].size <= total + e.size
          BY <1>1, <2>5a, <5>1, <5>2, Later
        <5>4. QED
          BY <2>3, <5>1, <5>3
      <4>2. CASE k = Len(segments) + 1
        BY <1>1, <2>3, <2>4, <2>5a, <4>2
      <4>3. QED
        BY <2>4, <4>1, <4>2
    <3>3. QED
      BY <3>1, <3>2 DEF Ordered
  <2>7. Covered'
    <3>1. SUFFICES ASSUME NEW p \in 0..(total' - 1)
                   PROVE  \E k \in 1..Len(segments') : Covers(segments'[k], p)
      BY DEF Covered, Covers
    <3>2. CASE p < total
      BY <1>1, <2>4, <3>2 DEF Covered
    <3>3. CASE ~(p < total)
      <4>1. Covers(segments'[Len(segments) + 1], p)
        <5>1. p \in Nat /\ total <= p /\ p < total + e.size
          BY <1>1, <2>3, <2>5a, <3>3
        <5>2. QED
          BY <2>4, <2>5a, <5>1 DEF Covers
      <4>2. QED
        BY <2>4, <4>1
    <3>4. QED
      BY <3>2, <3>3
  <2>8. SubSeq(segments', 1, Len(segments)) = segments
    BY <1>1, <2>4
  <2>9. QED
    BY <1>2, <2>4, <2>6, <2>7, <2>8
<1>5. QED
  BY <1>3, <1>4

\* The trim moves the kept segments down by the first one's offset.
LEMMA TrimTable ==
    ASSUME IInv, Trim
    PROVE  /\ segments' \in Seq(Info) /\ total' \in Nat /\ position' \in Nat
           /\ Ordered' /\ Covered'
<1>1. segments \in Seq(Info) /\ total \in Nat /\ Ordered /\ Covered /\ Margin \in Nat \ {0}
  BY MarginAssumption DEF IInv, TypeOK
<1>2. \A k \in 1..Len(segments) : /\ segments[k].seq \in Nat
                                  /\ segments[k].off \in Nat
                                  /\ segments[k].size \in Nat
                                  /\ segments[k].size > 0
  BY <1>1, SegmentType
<1>3. CASE ~(Dropped > 0)
  <2>1. segments' = segments /\ total' = total
    BY <1>3 DEF Trim, table
  <2>2. position' \in Nat
    BY <1>1, <1>2, <2>1 DEF Trim
  <2>3. QED
    BY <1>1, <2>1, <2>2 DEF Ordered, Covered, Covers
<1>4. CASE Dropped > 0
  <2>1. Dropped = Len(segments) - Margin /\ Dropped \in Nat \ {0}
    BY <1>1, <1>4 DEF Dropped, Last, Smaller
  <2>2. /\ segments' = [k \in 1..Margin |-> Rebased(segments[Dropped + k])]
        /\ total' = total - Base
    BY <1>4 DEF Trim
  <2>3. \A k \in 1..Margin : Dropped + k \in 1..Len(segments)
    BY <1>1, <2>1
  <2>4. Base \in Nat /\ Base <= total /\ Base = segments[Dropped + 1].off
    BY <1>1, <1>2, <2>3 DEF Base, Ordered
  <2>5. ASSUME NEW k \in 1..Margin
        PROVE  /\ segments'[k] \in Info
               /\ segments'[k].off = segments[Dropped + k].off - Base
               /\ segments'[k].size = segments[Dropped + k].size
    <3>1. segments[Dropped + k].off >= Base
      <4>1. CASE k = 1
        BY <1>2, <2>3, <2>4, <4>1
      <4>2. CASE k > 1
        <5>1. Dropped + 1 < Dropped + k /\ 1 \in 1..Margin
          BY <1>1, <2>1, <4>2
        <5>2. segments[Dropped + 1].off + segments[Dropped + 1].size <= segments[Dropped + k].off
          BY <1>1, <2>3, <5>1 DEF Ordered
        <5>3. QED
          BY <1>2, <2>3, <2>4, <5>1, <5>2
      <4>3. QED
        BY <4>1, <4>2
    <3>2. segments'[k] = Rebased(segments[Dropped + k])
      BY <2>2
    <3>3. QED
      BY <1>2, <2>3, <2>4, <3>1, <3>2 DEF Rebased, Info
  <2>6. segments' \in Seq(Info) /\ Len(segments') = Margin
    <3>1. segments' \in [1..Margin -> Info]
      BY <2>2, <2>5
    <3>2. \A S : \A n \in Nat : \A f \in [1..n -> S] : f \in Seq(S) /\ Len(f) = n
      OBVIOUS
    <3>3. QED
      BY <1>1, <3>1, <3>2
  <2>7. total' \in Nat
    BY <1>1, <2>2, <2>4
  <2>8. Ordered'
    <3>1. ASSUME NEW j \in 1..Margin, NEW k \in 1..Margin, j < k
          PROVE  segments'[j].off + segments'[j].size <= segments'[k].off
      <4>1. segments[Dropped + j].off + segments[Dropped + j].size <= segments[Dropped + k].off
        BY <1>1, <2>1, <2>3, <3>1 DEF Ordered
      <4>2. /\ segments[Dropped + j].off \in Nat /\ segments[Dropped + j].size \in Nat
            /\ segments[Dropped + k].off \in Nat
        BY <1>2, <2>3
      <4>3. /\ segments'[j].off = segments[Dropped + j].off - Base
            /\ segments'[j].size = segments[Dropped + j].size
            /\ segments'[k].off = segments[Dropped + k].off - Base
        BY <2>5
      <4>4. QED
        BY <2>4, <4>1, <4>2, <4>3
    <3>2. ASSUME NEW k \in 1..Margin
          PROVE  segments'[k].off + segments'[k].size <= total'
      <4>1. segments[Dropped + k].off + segments[Dropped + k].size <= total
        BY <1>1, <2>3 DEF Ordered
      <4>2. segments[Dropped + k].off \in Nat /\ segments[Dropped + k].size \in Nat
        BY <1>2, <2>3
      <4>3. /\ segments'[k].off = segments[Dropped + k].off - Base
            /\ segments'[k].size = segments[Dropped + k].size
        BY <2>5
      <4>4. (segments[Dropped + k].off - Base) + segments[Dropped + k].size <= total - Base
        <5>1. \A o, z, b, n \in Nat : o + z <= n => (o - b) + z <= n - b
          OBVIOUS
        <5>2. QED
          BY <1>1, <2>4, <4>1, <4>2, <5>1
      <4>5. QED
        BY <2>2, <4>3, <4>4
    <3>3. QED
      BY <2>6, <3>1, <3>2 DEF Ordered
  <2>9. Covered'
    <3>1. SUFFICES ASSUME NEW p \in 0..(total' - 1)
                   PROVE  \E k \in 1..Margin : Covers(segments'[k], p)
      BY <2>6 DEF Covered, Covers
    <3>2. PICK i \in 1..Len(segments) : Covers(segments[i], p + Base)
      <4>1. p \in Nat /\ p < total'
        BY <2>7, Below
      <4>2. p + Base \in 0..(total - 1)
        BY <1>1, <2>2, <2>4, <4>1, Shift
      <4>3. QED
        BY <1>1, <4>2 DEF Covered
    <3>2a. /\ segments[i].off \in Nat /\ segments[i].size \in Nat
           /\ segments[i].off <= p + Base /\ p + Base < segments[i].off + segments[i].size
           /\ p \in Nat
      BY <1>2, <2>7, <3>2 DEF Covers
    <3>3. i > Dropped
      <4>1. SUFFICES ASSUME i <= Dropped PROVE FALSE
        BY <1>1, <2>1
      <4>2. segments[i].off + segments[i].size <= Base
        BY <1>1, <2>1, <2>3, <2>4, <4>1 DEF Ordered
      <4>3. QED
        BY <2>4, <3>2a, <4>2, SMTT(30)
    <3>4. i - Dropped \in 1..Margin /\ Dropped + (i - Dropped) = i
      BY <1>1, <2>1, <3>3
    <3>5. Covers(segments'[i - Dropped], p)
      <4>1. /\ segments'[i - Dropped].off = segments[i].off - Base
            /\ segments'[i - Dropped].size = segments[i].size
        BY <2>5, <3>4
      <4>2. \A o, z, b, n \in Nat : o <= n + b /\ n + b < o + z => o - b <= n /\ n < (o - b) + z
        OBVIOUS
      <4>3. /\ segments[i].off - Base <= p
            /\ p < (segments[i].off - Base) + segments[i].size
        BY <2>4, <3>2a, <4>2
      <4>4. QED
        BY <4>1, <4>3 DEF Covers
    <3>6. QED
      BY <3>4, <3>5
  <2>10. position' \in Nat
    <3>1. segments' # << >> /\ 1 \in 1..Margin
      BY <1>1, <2>6
    <3>2. position' = segments'[1].off
      BY <3>1 DEF Trim
    <3>3. QED
      BY <2>5, <3>1, <3>2 DEF Info
  <2>11. QED
    BY <2>6, <2>7, <2>8, <2>9, <2>10
<1>5. QED
  BY <1>3, <1>4


-----------------------------------------------------------------------------
(* The other steps.                                                        *)

SrvType == [inst : Nat, st : {"none", "running", "exited", "removed"}, edge : Nat, lag : BOOLEAN]

\* A step that leaves table and buffer alone keeps what is said about them.
LEMMA TableKept ==
    ASSUME Ordered, Covered, UNCHANGED table
    PROVE  Ordered' /\ Covered'
  BY DEF Ordered, Covered, Covers, table

LEMMA ServerKept ==
    ASSUME BufferOK, UNCHANGED server
    PROVE  BufferOK'
  BY DEF BufferOK, server

\* A reset table is empty.
LEMMA ResetTable ==
    ASSUME Reset
    PROVE  Ordered' /\ Covered' /\ segments' \in Seq(Info)
<1>1. segments' = << >> /\ total' = 0 /\ Len(segments') = 0 /\ segments' \in Seq(Info)
  BY DEF Reset
<1>2. Ordered'
  BY <1>1 DEF Ordered
<1>3. Covered'
  BY <1>1 DEF Covered
<1>4. QED
  BY <1>1, <1>2, <1>3

\* What a reset leaves of the types.
LEMMA ResetType ==
    ASSUME Reset, TypeOK, pc' = "closed", tries' = 0, srv' \in SrvType, made' \in Nat
    PROVE  TypeOK'
<1>1. segments' \in Seq(Info)
  BY ResetTable
<1>2. incoming' \in Seq([seq : Nat, size : Nat])
  BY DEF Reset
<1>3. out' \in Delivery
  BY DEF Reset, Nothing, Delivery
<1>4. want' \in 0..MaxWant /\ shortAt' \in Int /\ known' \in Int
  BY WantAssumption DEF Reset
<1>5. QED
  BY <1>1, <1>2, <1>3, <1>4 DEF TypeOK, SrvType, Delivery, Reset

\* What a read delivers is well formed.
LEMMA GetType ==
    ASSUME TypeOK, NEW k \in 1..Len(segments), Covers(segments[k], position), Get(segments[k])
    PROVE  position' \in Nat /\ fatal' \in BOOLEAN /\ out' \in Delivery
<1>1. segments \in Seq(Info) /\ position \in Nat /\ want \in Nat /\ srv.inst \in Nat
      /\ srv.edge \in Nat /\ out \in Delivery /\ fatal \in BOOLEAN
  BY WantAssumption DEF TypeOK, Delivery
<1>2. /\ segments[k].seq \in Nat /\ segments[k].off \in Nat /\ segments[k].size \in Nat
  BY <1>1, SegmentType
<1> DEFINE s == segments[k]
           off == position - s.off
           len == Smaller(want, s.size - off)
<1>3. off \in Nat /\ len \in Nat
  <2>1. s.off <= position /\ position < s.off + s.size
    BY DEF Covers
  <2>2. off \in Nat /\ s.size - off \in Nat
    BY <1>1, <1>2, <2>1, SMTT(30)
  <2> HIDE DEF off
  <2>3. QED
    BY <1>1, <2>2 DEF Smaller
<1>4. Holder(s.seq) \in Int
  <2>1. Wrap \in Nat \ {0}
    BY VisibleAssumption DEF Wrap
  <2>2. \A a \in Int : \A b \in Nat \ {0} : a \div b \in Int
    OBVIOUS
  <2>3. \A a, b \in Int : a * b \in Int
    OBVIOUS
  <2>4. (srv.edge - s.seq) \div Wrap \in Int
    BY <1>1, <1>2, <2>1, <2>2
  <2>5. Wrap * ((srv.edge - s.seq) \div Wrap) \in Int
    BY <2>1, <2>3, <2>4
  <2>6. QED
    BY <1>2, <2>5 DEF Holder
<1>5. \/ /\ position' = position + len
         /\ out' = [inst |-> srv.inst, of |-> s.seq, seq |-> Holder(s.seq), off |-> off, len |-> len,
                     size |-> s.size]
         /\ fatal' = fatal
      \/ fatal' = TRUE /\ position' = position /\ out' = out
  BY DEF Get, Agrees
<1>6. [inst |-> srv.inst, of |-> s.seq, seq |-> Holder(s.seq), off |-> off, len |-> len,
       size |-> s.size] \in Delivery
  BY <1>1, <1>2, <1>3, <1>4 DEF Delivery
<1>7. position + len \in Nat
  BY <1>1, <1>3
<1> HIDE DEF off, len
<1>8. QED
  BY <1>1, <1>5, <1>6, <1>7

\* A seek lands within the stream.
LEMMA TailTargetType == TypeOK => TailTarget \in Nat
<1>1. SUFFICES ASSUME TypeOK PROVE TailTarget \in Nat
  OBVIOUS
<1>2. segments \in Seq(Info)
  BY <1>1 DEF TypeOK
<1>3. CASE segments = << >>
  BY <1>3 DEF TailTarget
<1>4. CASE segments # << >>
  <2>1. Len(segments) - Last(Margin) + 1 \in 1..Len(segments)
    BY <1>2, <1>4, MarginAssumption DEF Last, Smaller
  <2>2. QED
    BY <1>2, <1>4, <2>1, SegmentType DEF TailTarget
<1>5. QED
  BY <1>3, <1>4

LEMMA NoWant == 0 \in 0..MaxWant
  BY WantAssumption

LEMMA StepIInv == IInv /\ [Next]_vars => IInv'
<1> SUFFICES ASSUME IInv, [Next]_vars PROVE IInv'
  OBVIOUS
<1> USE DEF Entries, SrvType
<1>1. TypeOK /\ BufferOK /\ Ordered /\ Covered
  BY DEF IInv
<1>2. CASE Buffer
  <2>1. BufferOK' /\ srv' \in SrvType /\ made' \in Nat
    BY <1>2, BufferStep DEF Buffer
  <2>2. TypeOK'
    BY <1>1, <1>2, <2>1 DEF Buffer, TypeOK, loop, locals, table
  <2>3. QED
    BY <1>1, <1>2, <2>1, <2>2, TableKept DEF Buffer, IInv
<1>3. CASE Clock
  <2>0. /\ UNCHANGED <<srv, made, pc, back, incoming, known, tries, want, short>>
        /\ UNCHANGED <<token, segments, total, position, fatal, shortAt, out>>
        /\ probing' \in BOOLEAN
    BY <1>3 DEF server, loop, locals, table, Clock
  <2>1. TypeOK'
    BY <1>1, <2>0 DEF TypeOK
  <2>2. QED
    BY <1>1, <1>3, <2>1, TableKept, ServerKept DEF IInv, Clock
<1>4. CASE Merge
  <2>1. segments' \in Seq(Info) /\ total' \in Nat /\ incoming' \in Entries /\ Ordered' /\ Covered'
    BY <1>4, MergeTable
  <2>2. TypeOK'
    BY <1>1, <1>4, <2>1 DEF TypeOK, Merge, server, locals
  <2>3. QED
    BY <1>1, <1>4, <2>1, <2>2, ServerKept DEF IInv, Merge
<1>5. CASE Merged
  <2>1. TypeOK'
    BY <1>1, <1>5 DEF TypeOK, server, loop, locals, table, Merged
  <2>2. QED
    BY <1>1, <1>5, <2>1, TableKept, ServerKept DEF IInv, Merged
<1>6. CASE ColdFetched
  <2>1. incoming' \in Entries /\ known' \in Int /\ back' = "trim" /\ pc' = "merge" /\ srv' = srv
    BY <1>6, FetchedStep DEF ColdFetched
  <2>2. TypeOK'
    BY <1>1, <1>6, <2>1 DEF TypeOK, ColdFetched, locals, table
  <2>3. QED
    BY <1>1, <1>6, <2>1, <2>2, TableKept, ServerKept DEF IInv, ColdFetched, server
<1>7. CASE ColdDoomed
  <2>1. BufferOK' /\ srv' \in SrvType /\ made' \in Nat
    BY <1>1, <1>7, DoomedStep DEF ColdDoomed, TypeOK
  <2>2. TypeOK'
    BY <1>1, <1>7, <2>1, ResetType DEF ColdDoomed
  <2>3. QED
    BY <1>7, <2>1, <2>2, ResetTable DEF ColdDoomed, IInv
<1>8. CASE ColdFails
  <2>1. CASE tries > 1 /\ tries' = tries - 1
             /\ UNCHANGED <<pc, loop, want, short, token, table, position, fatal, shortAt, probing, out>>
    <3>1. TypeOK'
      BY <1>1, <1>8, <2>1 DEF TypeOK, ColdFails, server, loop, table
    <3>2. QED
      BY <1>1, <1>8, <2>1, <3>1, TableKept, ServerKept DEF ColdFails, IInv
  <2>2. CASE Reset /\ tries' = 0 /\ pc' = "closed"
    <3>1. TypeOK'
      BY <1>1, <1>8, <2>2, ResetType DEF TypeOK, ColdFails, server
    <3>2. QED
      BY <1>1, <1>8, <2>2, <3>1, ResetTable, ServerKept DEF ColdFails, IInv
  <2>3. QED
    BY <1>8, <2>1, <2>2 DEF ColdFails
<1>9. CASE Trim
  <2>1. segments' \in Seq(Info) /\ total' \in Nat /\ position' \in Nat /\ Ordered' /\ Covered'
    BY <1>9, TrimTable
  <2>2. TypeOK'
    BY <1>1, <1>9, <2>1 DEF TypeOK, Trim, server, loop
  <2>3. QED
    BY <1>1, <1>9, <2>1, <2>2, ServerKept DEF IInv, Trim
<1>10. CASE TailFetched
  <2>1. incoming' \in Entries /\ known' \in Int /\ back' = "tailed" /\ pc' = "merge" /\ srv' = srv
    BY <1>10, FetchedStep DEF TailFetched
  <2>2. TypeOK'
    BY <1>1, <1>10, <2>1 DEF TypeOK, TailFetched, locals, table
  <2>3. QED
    BY <1>1, <1>10, <2>1, <2>2, TableKept, ServerKept DEF IInv, TailFetched, server
<1>11. CASE TailDoomed
  <2>1. BufferOK' /\ srv' \in SrvType
    BY <1>11, DoomedStep DEF TailDoomed
  <2>2. TypeOK'
    BY <1>1, <1>11, <2>1, NoWant DEF TypeOK, TailDoomed, Return, loop, table
  <2>3. QED
    BY <1>1, <1>11, <2>1, <2>2, TableKept DEF IInv, TailDoomed
<1>12. CASE TailFails
  <2>1. TypeOK'
    BY <1>1, <1>12, TriesAssumption DEF TypeOK, server, loop, locals, table, TailFails
  <2>2. QED
    BY <1>1, <1>12, <2>1, TableKept, ServerKept DEF IInv, TailFails
<1>13. CASE Tailed
  <2>0. short' \in BOOLEAN /\ probing' \in BOOLEAN
    BY <1>1, <1>13, Zenon DEF TypeOK, Tailed, Return
  <2>1. tries' \in Nat /\ want' \in 0..MaxWant
    <3>1. tries \in Nat /\ want \in 0..MaxWant
      BY <1>1 DEF TypeOK
    <3>2. \/ tries' = 0 /\ want' \in {want, 0}
          \/ tries > 1 /\ tries' = tries - 1 /\ want' = want
      BY <1>13 DEF Tailed, Return
    <3>3. QED
      BY <3>1, <3>2, NoWant
  <2>2. shortAt' \in Int /\ pc' \in {"get", "tail", "idle"}
    BY <1>1, <1>13 DEF TypeOK, Tailed, Return
  <2>3. TypeOK'
    BY <1>1, <1>13, <2>0, <2>1, <2>2 DEF TypeOK, Tailed, server, loop, table
  <2>4. QED
    BY <1>1, <1>13, <2>3, TableKept, ServerKept DEF IInv, Tailed
<1>14. CASE GetSegment
  <2>1. position' \in Nat /\ fatal' \in BOOLEAN /\ out' \in Delivery
    BY <1>1, <1>14, GetType DEF GetSegment, GetFails, TypeOK, Delivery
  <2>2. TypeOK'
    BY <1>1, <1>14, <2>1, NoWant DEF TypeOK, Delivery, GetSegment, Return, server, loop, table
  <2>3. QED
    BY <1>1, <1>14, <2>2, TableKept, ServerKept DEF IInv, GetSegment
<1>15. CASE \E p \in -1..(total + 1) : SeekTo(p)
  <2>1. PICK p \in -1..(total + 1) : SeekTo(p)
    BY <1>15
  <2>2. position' \in Nat
    BY <1>1, <2>1, TailTargetType DEF SeekTo, Smaller, TypeOK
  <2>3. out' \in Delivery
    BY <1>1, <2>1 DEF SeekTo, Nothing, TypeOK, Delivery
  <2>4. TypeOK'
    BY <1>1, <2>1, <2>2, <2>3 DEF TypeOK, Delivery, SeekTo, server, loop, locals, table
  <2>5. QED
    BY <1>1, <2>1, <2>4, TableKept, ServerKept DEF IInv, SeekTo
<1>16. CASE Open
  <2>1. BufferOK' /\ srv' \in SrvType /\ made' \in Nat
    BY <1>1, <1>16, BufferStep, ServerKept DEF Open, TypeOK, server
  <2>2. TypeOK'
    <3>1. token' \in Nat /\ tries' \in Nat /\ pc' = "cold"
      BY <1>16, <2>1, TriesAssumption DEF Open
    <3>2. UNCHANGED <<loop, want, short, table, position, fatal, shortAt, probing, out>>
      BY <1>16 DEF Open
    <3>3. QED
      BY <1>1, <2>1, <3>1, <3>2 DEF TypeOK, loop, table
  <2>3. QED
    BY <1>1, <1>16, <2>1, <2>2, TableKept DEF IInv, Open
<1>17. CASE Close
  <2>1. BufferOK' /\ srv' \in SrvType /\ made' \in Nat
    <3>1. (srv' = srv \/ srv' = Gone) /\ made' = made
      BY <1>17 DEF Close
    <3>2. CASE srv' = srv
      BY <1>1, <3>1, <3>2, ServerKept DEF TypeOK, server
    <3>3. CASE srv' = Gone
      BY <1>1, <3>1, <3>3 DEF TypeOK, BufferOK, Gone, State
    <3>4. QED
      BY <3>1, <3>2, <3>3
  <2>2. TypeOK'
    BY <1>1, <1>17, <2>1, ResetType DEF Close
  <2>3. QED
    BY <1>17, <2>1, <2>2, ResetTable DEF Close, IInv
<1>18. CASE SeekCall
  <2>1. CASE Fetched("seek")
    <3>1. incoming' \in Entries /\ known' \in Int /\ back' = "seek" /\ pc' = "merge" /\ srv' = srv
      BY <2>1, FetchedStep
    <3>2. TypeOK'
      BY <1>1, <1>18, <3>1 DEF TypeOK, SeekCall, locals, table
    <3>3. QED
      BY <1>1, <1>18, <3>1, <3>2, TableKept, ServerKept DEF IInv, SeekCall, server
  <2>2. CASE (Doomed \/ UNCHANGED srv) /\ pc' \in {"seek", pc} /\ UNCHANGED loop
    <3>1. BufferOK' /\ srv' \in SrvType
      BY <1>1, <1>18, <2>2, DoomedStep, ServerKept DEF SeekCall, TypeOK, server
    <3>2. TypeOK'
      BY <1>1, <1>18, <2>2, <3>1 DEF TypeOK, SeekCall, locals, loop, table
    <3>3. QED
      BY <1>1, <1>18, <3>1, <3>2, TableKept DEF IInv, SeekCall
  <2>3. QED
    BY <1>18, <2>1, <2>2 DEF SeekCall
<1>19. CASE Poll
  <2>1. CASE Fetched("idle")
    <3>1. incoming' \in Entries /\ known' \in Int /\ back' = "idle" /\ pc' = "merge" /\ srv' = srv
      BY <2>1, FetchedStep
    <3>2. TypeOK'
      BY <1>1, <1>19, <3>1 DEF TypeOK, Poll, locals, table
    <3>3. QED
      BY <1>1, <1>19, <3>1, <3>2, TableKept, ServerKept DEF IInv, Poll, server
  <2>2. CASE (Doomed \/ UNCHANGED srv) /\ pc' \in {"seek", pc} /\ UNCHANGED loop
    <3>1. BufferOK' /\ srv' \in SrvType
      BY <1>1, <1>19, <2>2, DoomedStep, ServerKept DEF Poll, TypeOK, server
    <3>2. TypeOK'
      BY <1>1, <1>19, <2>2, <3>1 DEF TypeOK, Poll, locals, loop, table
    <3>3. QED
      BY <1>1, <1>19, <3>1, <3>2, TableKept DEF IInv, Poll
  <2>3. QED
    BY <1>19, <2>1, <2>2 DEF Poll
<1>20. CASE \E n \in 1..MaxWant : Read(n)
  <2>1. PICK n \in 1..MaxWant : Read(n)
    BY <1>20
  <2>2. tries' \in Nat /\ short' \in BOOLEAN /\ want' \in 0..MaxWant /\ pc' \in {"tail", "get"}
    BY <1>1, <2>1, TriesAssumption, WantAssumption DEF TypeOK, Read, LikelyProbe
  <2>3. TypeOK'
    BY <1>1, <2>1, <2>2 DEF TypeOK, Read, server, loop, table
  <2>4. QED
    BY <1>1, <2>1, <2>3, TableKept, ServerKept DEF IInv, Read
<1>21. CASE UNCHANGED vars
  <2>1. TypeOK'
    BY <1>1, <1>21 DEF TypeOK, vars, server, loop, locals, table
  <2>2. QED
    BY <1>1, <1>21, <2>1, TableKept, ServerKept DEF IInv, vars
<1>22. QED
  BY <1>2, <1>3, <1>4, <1>5, <1>6, <1>7, <1>8, <1>9, <1>10, <1>11, <1>12, <1>13, <1>14, <1>15, <1>16, <1>17, <1>18, <1>19, <1>20, <1>21 DEF Next, Client, Calls

-----------------------------------------------------------------------------
(* The theorems.                                                           *)

LEMMA Invariance == Spec => []IInv
<1>1. Init => IInv
  BY InitIInv
<1>2. IInv /\ [Next]_vars => IInv'
  BY StepIInv
<1>3. QED
  BY <1>1, <1>2, PTL DEF Spec

\* Every reachable state of a live stream is well formed: no offset, size or
\* position leaves the natural numbers, whatever manifests arrive.
THEOREM TypeCorrect == Spec => []TypeOK
<1>1. IInv => TypeOK
  BY DEF IInv
<1>2. QED
  BY <1>1, Invariance, PTL

\* Ordered segments that leave nothing out give each address to exactly one.
LEMMA OneSegment == IInv => OneSegmentPerByte
<1>1. SUFFICES ASSUME IInv, NEW p \in 0..(total - 1)
               PROVE  \E k \in 1..Len(segments) :
                         /\ Covers(segments[k], p)
                         /\ \A j \in 1..Len(segments) : Covers(segments[j], p) => j = k
  BY DEF OneSegmentPerByte
<1>2. segments \in Seq(Info) /\ total \in Nat /\ Ordered /\ Covered
  BY <1>1 DEF IInv, TypeOK
<1>3. PICK k \in 1..Len(segments) : Covers(segments[k], p)
  BY <1>2 DEF Covered
<1>4. ASSUME NEW j \in 1..Len(segments), Covers(segments[j], p)
      PROVE  j = k
  <2>1. /\ segments[j].off \in Nat /\ segments[j].size \in Nat
        /\ segments[k].off \in Nat /\ segments[k].size \in Nat
    BY <1>2, SegmentType
  <2>2. p \in Nat
    BY <1>2
  <2>3. ASSUME NEW i \in 1..Len(segments), NEW l \in 1..Len(segments),
               Covers(segments[i], p), Covers(segments[l], p),
               segments[i].off \in Nat, segments[i].size \in Nat, segments[l].off \in Nat
        PROVE  ~(i < l)
    <3>1. SUFFICES ASSUME i < l PROVE FALSE
      OBVIOUS
    <3>2. segments[i].off + segments[i].size <= segments[l].off
      BY <1>2, <3>1 DEF Ordered
    <3>3. p < segments[i].off + segments[i].size /\ segments[l].off <= p
      BY <2>3 DEF Covers
    <3>4. QED
      BY <2>2, <2>3, <3>2, <3>3
  <2>4. ~(j < k) /\ ~(k < j)
    BY <1>3, <1>4, <2>1, <2>3
  <2>5. QED
    BY <1>2, <2>4
<1>5. QED
  BY <1>3, <1>4

\* A position below the length is always in exactly one segment, so the branch
\* of ReadLiveTimeshiftStream for a position in a gap is never taken.
THEOREM OneSegmentPerByteHolds == Spec => []OneSegmentPerByte
  BY Invariance, OneSegment, PTL

\* One step of an open stream only extends the table.
LEMMA StableStep ==
    ASSUME IInv, [Next]_vars, Opened, Opened'
    PROVE  SubSeq(segments', 1, Len(segments)) = segments /\ total' >= total
<1>1. segments \in Seq(Info) /\ total \in Nat
  BY DEF IInv, TypeOK
<1>2. CASE UNCHANGED table
  <2>1. segments' = segments /\ total' = total
    BY <1>2 DEF table
  <2>2. SubSeq(segments, 1, Len(segments)) = segments
    BY <1>1
  <2>3. QED
    BY <1>1, <2>1, <2>2
<1>3. CASE Merge
  BY <1>3, MergeTable
<1>4. UNCHANGED table \/ Merge
  BY DEF Opened, Next, Buffer, Clock, Client, Calls, Merged, ColdFetched, ColdDoomed, ColdFails,
         Trim, TailFetched, TailDoomed, TailFails, Tailed, GetSegment, SeekTo, Open, Close,
         SeekCall, Poll, Read, vars
<1>5. QED
  BY <1>2, <1>3, <1>4

\* While a stream is open, no refresh moves an address that Kodi may hold.
THEOREM AddressStableHolds == Spec => AddressStable
<1>1. ASSUME IInv, [Next]_vars
      PROVE  [Opened /\ Opened' => /\ SubSeq(segments', 1, Len(segments)) = segments
                                   /\ total' >= total]_vars
  BY <1>1, StableStep
<1>2. QED
  BY <1>1, Invariance, PTL DEF Spec, AddressStable

-----------------------------------------------------------------------------
(* What the last read delivered.  The proof that reads do not splice needs    *)
(* to know which row of the table the bytes came from, that the position is   *)
(* just behind them, and that the file server's size was the one in the row.  *)

\* o ends at the position, within row k of the table
EndsIn(o, k) ==
    /\ segments[k].seq = o.of
    /\ position = segments[k].off + o.off + o.len
    /\ o.off + o.len <= segments[k].size
    /\ segments[k].size = o.size

LastRead ==
    out # Nothing =>
        /\ Opened
        /\ out.inst = token
        /\ \E k \in 1..Len(segments) : EndsIn(out, k)

RInv == IInv /\ LastRead

\* A step that delivers nothing and moves neither the position nor a row.
LEMMA LastReadKept ==
    ASSUME RInv, [Next]_vars, UNCHANGED <<out, token, position>>, Opened => Opened',
           Opened => \A k \in 1..Len(segments) : k \in 1..Len(segments') /\ segments'[k] = segments[k]
    PROVE  LastRead'
<1>1. CASE out = Nothing
  BY <1>1 DEF LastRead, Nothing
<1>2. CASE out # Nothing
  <2>1. Opened /\ out.inst = token
    BY <1>2 DEF RInv, LastRead
  <2>2. PICK k \in 1..Len(segments) : EndsIn(out, k)
    BY <1>2 DEF RInv, LastRead
  <2>3. k \in 1..Len(segments') /\ segments'[k] = segments[k]
    BY <2>1
  <2>4. EndsIn(out, k)'
    BY <2>2, <2>3 DEF EndsIn
  <2>5. QED
    BY <2>1, <2>3, <2>4 DEF LastRead
<1>3. QED
  BY <1>1, <1>2

\* A read that delivers ends in the row it was answered from.
LEMMA Delivered ==
    ASSUME RInv, NEW k \in 1..Len(segments), Covers(segments[k], position), Get(segments[k]),
           UNCHANGED <<token, table>>
    PROVE  \/ UNCHANGED <<out, position>>
           \/ /\ out'.inst = token /\ out'.of = segments[k].seq
              /\ out'.off = position - segments[k].off
              /\ EndsIn(out, k)'
<1>1. /\ segments \in Seq(Info) /\ position \in Nat /\ want \in Nat
  BY WantAssumption DEF RInv, IInv, TypeOK
<1>2. segments[k].off \in Nat /\ segments[k].size \in Nat
  BY <1>1, SegmentType
<1> DEFINE s == segments[k]
           off == position - s.off
           len == Smaller(want, s.size - off)
           m == Holder(s.seq)
<1>3. off \in Nat /\ len \in Nat /\ off + len <= s.size
  <2>1. s.off <= position /\ position < s.off + s.size
    BY DEF Covers
  <2>2. off \in Nat /\ s.size - off \in Nat
    BY <1>1, <1>2, <2>1
  <2> HIDE DEF off
  <2>3. QED
    BY <1>1, <1>2, <2>2 DEF Smaller
<1>4. PICK size \in FileSizes(m) :
         IF Agrees(s, size)
         THEN /\ position' = position + len
              /\ out' = [inst |-> srv.inst, of |-> s.seq, seq |-> m, off |-> off, len |-> len,
                         size |-> size]
         ELSE UNCHANGED <<position, out>>
  BY DEF Get
<1>5. CASE ~Agrees(s, size)
  BY <1>4, <1>5
<1>6. CASE Agrees(s, size)
  <2>1. Authorized /\ srv.inst = token
    BY DEF Get, Authorized
  <2>2. /\ out'.inst = token /\ out'.of = s.seq /\ out'.size = size
        /\ out'.off = off /\ out'.len = len /\ position' = position + len
    BY <1>4, <1>6, <2>1
  <2>3. s.size = size
    BY <1>6 DEF Agrees
  <2>4. segments' = segments
    BY DEF table
  <2>5. position' = s.off + off + len
    <3> HIDE DEF len
    <3>1. QED
      BY <1>1, <1>2, <1>3, <2>2
  <2> HIDE DEF off, len, m
  <2>6. EndsIn(out, k)'
    BY <1>3, <2>2, <2>3, <2>4, <2>5 DEF EndsIn
  <2>7. QED
    BY <2>2, <2>6 DEF off
<1>7. QED
  BY <1>5, <1>6

LEMMA LastReadStep == RInv /\ [Next]_vars => LastRead'
<1> SUFFICES ASSUME RInv, [Next]_vars PROVE LastRead'
  OBVIOUS
<1>1. /\ segments \in Seq(Info) /\ Len(segments) \in Nat
      /\ back \in {"trim", "idle", "tailed", "seek"}
  BY DEF RInv, IInv, TypeOK
<1>2. CASE out' = Nothing
  BY <1>2 DEF LastRead, Nothing
<1>3. CASE UNCHANGED <<out, token, position, table>> /\ (Opened => Opened')
  BY <1>3, LastReadKept DEF table
<1>4. CASE Merge
  <2>1. UNCHANGED <<out, token, position>> /\ (Opened => Opened')
    BY <1>4 DEF Merge, locals, Opened
  <2>2. segments' = segments \/ segments' = Append(segments, Placed(Head(incoming)))
    BY <1>4 DEF Merge, table, Extended
  <2>3. \A S : \A q \in Seq(S) : \A e : \A k \in 1..Len(q) :
           k \in 1..Len(Append(q, e)) /\ Append(q, e)[k] = q[k]
    OBVIOUS
  <2>4. \A k \in 1..Len(segments) : k \in 1..Len(segments') /\ segments'[k] = segments[k]
    BY <1>1, <2>2, <2>3
  <2>5. QED
    BY <2>1, <2>4, LastReadKept
<1>5. CASE GetSegment
  <2>1. pc = "get" /\ pc' = "idle" /\ UNCHANGED <<token, table, segments>> /\ Opened'
    BY <1>5 DEF GetSegment, Return, table, Opened
  <2>2. CASE UNCHANGED <<out, position>>
    BY <1>3, <2>1, <2>2
  <2>3. CASE ~UNCHANGED <<out, position>>
    <3>1. PICK k \in 1..Len(segments) : Covers(segments[k], position) /\ Get(segments[k])
      BY <1>5, <2>3 DEF GetSegment, GetFails
    <3>2. out'.inst = token /\ EndsIn(out, k)'
      BY <2>1, <2>3, <3>1, Delivered
    <3>3. QED
      BY <2>1, <3>2 DEF LastRead
  <2>4. QED
    BY <2>2, <2>3
<1>6. CASE ColdFetched \/ Trim \/ Open
  <2>1. ~Opened
    BY <1>6 DEF ColdFetched, Trim, Open, Opened
  <2>2. out = Nothing /\ out' = out
    BY <1>6, <2>1 DEF RInv, LastRead, ColdFetched, Trim, Open
  <2>3. QED
    BY <1>2, <2>2
<1>7. \/ out' = Nothing
      \/ UNCHANGED <<out, token, position, table>> /\ (Opened => Opened')
      \/ Merge \/ GetSegment \/ ColdFetched \/ Trim \/ Open
  <2>1. CASE Buffer \/ Clock \/ UNCHANGED vars
    BY <2>1 DEF Buffer, Clock, vars, locals, loop, table, Opened
  <2>2. CASE Merged \/ TailFetched \/ TailDoomed \/ TailFails \/ Tailed
    BY <1>1, <2>2 DEF Merged, TailFetched, TailDoomed, TailFails, Tailed, Fetched, Return,
                      locals, loop, table, Opened
  <2>3. CASE ColdDoomed \/ ColdFails \/ Close
    BY <2>3 DEF ColdDoomed, ColdFails, Close, Reset, loop, table, Opened
  <2>4. CASE SeekCall \/ Poll
    BY <2>4 DEF SeekCall, Poll, Fetched, locals, loop, table, Opened
  <2>5. CASE \E p \in -1..(total + 1) : SeekTo(p)
    BY <2>5 DEF SeekTo, locals, loop, table, Opened
  <2>6. CASE \E n \in 1..MaxWant : Read(n)
    BY <2>6 DEF Read, loop, table, Opened
  <2>7. QED
    BY <2>1, <2>2, <2>3, <2>4, <2>5, <2>6 DEF Next, Client, Calls
<1>8. QED
  BY <1>2, <1>3, <1>4, <1>5, <1>6, <1>7

LEMMA RInvariance == Spec => []RInv
<1>1. Init => RInv
  <2>1. SUFFICES ASSUME Init PROVE RInv
    OBVIOUS
  <2>2. IInv
    BY <2>1, InitIInv
  <2>3. LastRead
    BY <2>1 DEF Init, LastRead
  <2>4. QED
    BY <2>2, <2>3 DEF RInv
<1>2. RInv /\ [Next]_vars => RInv'
  BY StepIInv, LastReadStep DEF RInv
<1>3. QED
  BY <1>1, <1>2, PTL DEF Spec

\* A delivery comes from the buffer instance the stream was opened on: the
\* token is checked by every range request, whatever instance took its place.
THEOREM OwnInstanceHolds == Spec => []OwnInstance
<1>1. RInv => OwnInstance
  BY DEF RInv, LastRead, OwnInstance
<1>2. QED
  BY <1>1, RInvariance, PTL

\* Arithmetic of two rows (a, m) before (b, n) and the position a + x.
LEMMA Behind == \A a, m, b, n, x \in Nat : b + n <= a => ~(a + x < b + n)
  OBVIOUS

LEMMA AtEnd ==
    \A a, m, b, x, y \in Nat :
        a + m <= b /\ b <= a + x + y /\ x + y <= m => x + y = m /\ b = a + m /\ a + x + y - b = 0
  OBVIOUS

\* The next delivery takes up at the position: in the row of the last one, or
\* at the start of the row behind it.
LEMMA ResumesStep ==
    ASSUME RInv, [Next]_vars, out # Nothing, out' # Nothing, out' # out
    PROVE  Resumes(out, out')
<1>1. out # Nothing /\ out' # Nothing
  OBVIOUS
<1>2. GetSegment
  BY <1>1 DEF Next, Buffer, Clock, Client, Calls, Merge, Merged, ColdFetched, ColdDoomed, ColdFails,
              Trim, TailFetched, TailDoomed, TailFails, Tailed, SeekTo, Open, Close, Reset,
              SeekCall, Poll, Read, vars
<1>3. PICK j \in 1..Len(segments) : Covers(segments[j], position) /\ Get(segments[j])
  BY <1>2 DEF GetSegment, GetFails
<1>4. UNCHANGED <<token, table>>
  BY <1>2 DEF GetSegment
<1>5. out'.of = segments[j].seq /\ out'.off = position - segments[j].off
  BY <1>3, <1>4, Delivered
<1>6. PICK k \in 1..Len(segments) : EndsIn(out, k)
  BY <1>1 DEF RInv, LastRead
<1>7. segments \in Seq(Info) /\ position \in Nat /\ out.off \in Nat /\ out.len \in Nat
      /\ Ordered /\ Len(segments) \in Nat
  BY DEF RInv, IInv, TypeOK
<1>8. \A i \in 1..Len(segments) :
         segments[i].off \in Nat /\ segments[i].size \in Nat /\ segments[i].size > 0
  BY <1>7, SegmentType
<1>9. ~(j < k)
  <2>1. SUFFICES ASSUME j < k PROVE FALSE
    OBVIOUS
  <2>2. segments[j].off + segments[j].size <= segments[k].off
    BY <1>7, <2>1 DEF Ordered
  <2>3. position = segments[k].off + (out.off + out.len) /\ out.off + out.len \in Nat
    BY <1>6, <1>7, <1>8 DEF EndsIn
  <2>4. position < segments[j].off + segments[j].size
    BY <1>3 DEF Covers
  <2>5. QED
    BY <1>7, <1>8, <2>2, <2>3, <2>4, Behind
<1>10. CASE j = k
  BY <1>1, <1>5, <1>6, <1>7, <1>8, <1>10 DEF EndsIn, Resumes
<1>11. CASE j > k
  <2>1. /\ segments[k].off + segments[k].size <= segments[j].off
        /\ segments[j].off <= position
        /\ position = segments[k].off + out.off + out.len
        /\ out.off + out.len <= segments[k].size
    BY <1>3, <1>6, <1>11 DEF Ordered, Covers, EndsIn, RInv, IInv
  <2>2. out.off + out.len = segments[k].size /\ out'.off = 0
        /\ segments[j].off = segments[k].off + segments[k].size
    <3>1. /\ segments[k].off \in Nat /\ segments[k].size \in Nat /\ segments[j].off \in Nat
          /\ out.off \in Nat /\ out.len \in Nat
      BY <1>7, <1>8
    <3>2. PICK a, m, b, x, y \in Nat :
             /\ a = segments[k].off /\ m = segments[k].size /\ b = segments[j].off
             /\ x = out.off /\ y = out.len
      BY <3>1
    <3>3. a + m <= b /\ b <= a + x + y /\ x + y <= m /\ position = a + x + y
      BY <2>1, <3>2
    <3>4. x + y = m /\ b = a + m /\ position - b = 0
      BY <3>3, AtEnd
    <3>5. out'.off = 0
      BY <1>5, <3>2, <3>4
    <3>6. QED
      BY <3>2, <3>4, <3>5
  <2>3. j = k + 1
    <3>1. SUFFICES ASSUME j > k + 1 PROVE FALSE
      BY <1>11
    <3>2. k + 1 \in 1..Len(segments) /\ k < k + 1
      BY <1>7, <3>1
    <3>3. /\ segments[k].off + segments[k].size <= segments[k + 1].off
          /\ segments[k + 1].off + segments[k + 1].size <= segments[j].off
      BY <1>7, <3>1, <3>2 DEF Ordered
    <3>4. QED
      BY <1>8, <2>2, <3>2, <3>3
  <2>4. k \in 1..(Len(segments) - 1)
    BY <1>7, <2>3
  <2>5. /\ segments[k].seq = out.of /\ segments[k + 1].seq = out'.of
        /\ segments[k].size = out.size
    BY <1>1, <1>5, <1>6, <2>3 DEF EndsIn
  <2>6. QED
    BY <2>2, <2>4, <2>5 DEF Resumes
<1>12. QED
  BY <1>9, <1>10, <1>11

\* Without a seek in between, two deliveries meet: the second goes on in the file
\* of the first, or begins the next row's when the first had all that its file
\* held, whatever sizes the manifests reported and however segments were merged.
THEOREM NoSpliceHolds == Spec => NoSplice
<1>1. ASSUME RInv, [Next]_vars
      PROVE  [out # Nothing /\ out' # Nothing /\ out' # out => Resumes(out, out')]_vars
  BY <1>1, ResumesStep
<1>2. QED
  BY <1>1, RInvariance, PTL DEF Spec, NoSplice

=============================================================================
