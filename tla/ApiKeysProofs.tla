--------------------------- MODULE ApiKeysProofs ---------------------------
(***************************************************************************)
(* Proofs about ApiKeys, for any number of installations and every bound.   *)
(***************************************************************************)
EXTENDS ApiKeys, TLAPS

(* What the helpers do to the variables of a call.                         *)

CallTyped ==
    /\ call \in [Install -> Calls]
    /\ stream \in [Install -> Streams]
    /\ refused \in [Install -> BOOLEAN]
    /\ unsaved \in [Install -> BOOLEAN]

\* however a call ends, it leaves the call of another installation alone
LEMMA EndTyped ==
  ASSUME TypeOK, NEW i \in Install, NEW how, End(i, how)
  PROVE  /\ call' \in [Install -> Calls]
         /\ refused' \in [Install -> BOOLEAN]
         /\ unsaved' \in [Install -> BOOLEAN]
<1>1. call' \in [Install -> Calls]
  BY BoundAssumption DEF TypeOK, End, NoCall, Calls, Goes
<1>2. refused' \in [Install -> BOOLEAN]
  BY DEF TypeOK, End
<1>3. unsaved' \in [Install -> BOOLEAN]
  BY DEF TypeOK, End
<1>4. QED  BY <1>1, <1>2, <1>3

LEMMA FailTyped ==
  ASSUME TypeOK, NEW i \in Install, NEW how, Fail(i, how)
  PROVE  CallTyped'
<1>1. stream' \in [Install -> Streams]
  BY DEF TypeOK, Fail
<1>2. QED  BY <1>1, EndTyped DEF Fail, CallTyped

LEMMA HealTyped ==
  ASSUME TypeOK, NEW i \in Install, Heal(i)
  PROVE  CallTyped'
<1>1. call' \in [Install -> Calls]
  BY DEF TypeOK, Heal, Calls, Heals, Goes
<1>2. QED  BY <1>1 DEF TypeOK, Heal, CallTyped

LEMMA ProceedsTyped ==
  ASSUME TypeOK, NEW i \in Install, NEW attempt \in 0..1,
         NEW at \in {"none", "file", "playlist", "probe", "segment", "range", "changed", "save"},
         Proceeds(i, at, attempt)
  PROVE  CallTyped'
<1>1. call' \in [Install -> Calls]
  BY DEF TypeOK, Proceeds, Calls, Goes
<1>2. QED  BY <1>1 DEF TypeOK, Proceeds, CallTyped

LEMMA AgainTyped ==
  ASSUME TypeOK, NEW i \in Install, Again(i)
  PROVE  CallTyped'
BY ProceedsTyped DEF Again

LEMMA FailedTyped ==
  ASSUME TypeOK, NEW i \in Install, NEW how, Failed(i, how)
  PROVE  CallTyped'
BY FailTyped, AgainTyped DEF Failed

LEMMA RefusedTyped ==
  ASSUME TypeOK, NEW i \in Install, Refused(i)
  PROVE  CallTyped'
BY FailedTyped, HealTyped DEF Refused

LEMMA ZeroPosition == 0 \in 0..(Length + 1)
<1>1. Length \in Nat  BY BoundAssumption
<1>2. QED  BY <1>1

LEMMA RefreshedTyped ==
  ASSUME TypeOK, NEW i \in Install, Refreshed(i)
  PROVE  CallTyped'
<1>1. CASE Again(i)
  BY <1>1, AgainTyped
<1>2. CASE stream' = [stream EXCEPT ![i] = Stream("growing", 0)] /\ End(i, "ok")
  <2>1. stream' \in [Install -> Streams]
    BY <1>2, ZeroPosition DEF TypeOK, Streams, Stream
  <2>2. QED  BY <1>2, <2>1, EndTyped DEF CallTyped
<1>3. CASE Fail(i, "failed") \/ Fail(i, "ok")
  BY <1>3, FailTyped
<1>4. CASE Proceeds(i, "segment", call[i].attempt)
  <2>1. call[i].attempt \in 0..1  BY DEF TypeOK, Calls
  <2>2. QED  BY <1>4, <2>1, ProceedsTyped
<1>5. QED  BY <1>1, <1>2, <1>3, <1>4 DEF Refreshed

LEMMA ConstructedTyped ==
  ASSUME TypeOK, NEW i \in Install, Constructed(i)
  PROVE  CallTyped' /\ up' \in [Install -> BOOLEAN]
<1>1. call' \in [Install -> Calls]
  BY BoundAssumption DEF TypeOK, Constructed, Calls, NoCall
<1>2. QED  BY <1>1 DEF TypeOK, Constructed, CallTyped

LEMMA GeneratedTyped ==
  ASSUME TypeOK, NEW i \in Install, NEW made \in BOOLEAN, Generated(i, made)
  PROVE  CallTyped' /\ up' \in [Install -> BOOLEAN]
<1>1. CASE call[i].at = "start"
  BY <1>1, ConstructedTyped DEF Generated
<1>2. CASE call[i].at = "probe"
  BY <1>2, RefreshedTyped DEF Generated, TypeOK
<1>3. CASE call[i].at \notin {"start", "probe"} /\ made
  <2>1. Proceeds(i, call[i].at, 1) /\ UNCHANGED up
    BY <1>3 DEF Generated
  <2>2. call[i].at \in
          {"none", "file", "playlist", "probe", "segment", "range", "changed", "save"}
    BY <1>3 DEF TypeOK, Calls
  <2>3. CallTyped'  BY <2>1, <2>2, ProceedsTyped
  <2>4. QED  BY <2>1, <2>3 DEF TypeOK
<1>4. CASE call[i].at \notin {"start", "probe"} /\ ~made
  BY <1>4, FailedTyped DEF Generated, TypeOK
<1>5. QED  BY <1>1, <1>2, <1>3, <1>4

LEMMA WrittenTyped ==
  ASSUME TypeOK, NEW i \in Install
  PROVE  stream[i].position + Written(i) \in 0..(Length + 1)
<1>1. Length \in Nat /\ Size \in Nat  BY BoundAssumption
<1>2. stream[i] \in Streams /\ call[i] \in Calls  BY DEF TypeOK
<1>3. stream[i].position \in 0..(Length + 1)  BY <1>2 DEF Streams
<1>4. call[i].size \in {0, Size}  BY <1>2 DEF Calls
<1>5. call[i].size \in Nat  BY <1>1, <1>4
<1>6. QED  BY <1>1, <1>3, <1>5 DEF Written

LEMMA StreamTyped ==
  ASSUME TypeOK, NEW i \in Install,
         stream' = [stream EXCEPT ![i] = Stream("file", @.position + Written(i))]
  PROVE  stream' \in [Install -> Streams]
BY WrittenTyped DEF TypeOK, Streams, Stream

LEMMA LostTyped ==
  ASSUME TypeOK, NEW i \in Install, Lost(i)
  PROVE  faults' \in 0..MaxFaults /\ disturbed' \in [Install -> BOOLEAN]
<1>1. MaxFaults \in Nat  BY BoundAssumption
<1>2. faults' \in 0..MaxFaults  BY <1>1 DEF TypeOK, Lost
<1>3. QED  BY <1>2 DEF TypeOK, Lost

LEMMA QuietTyped ==
  ASSUME TypeOK, Quiet
  PROVE  faults' \in 0..MaxFaults /\ disturbed' \in [Install -> BOOLEAN]
BY DEF TypeOK, Quiet

LEMMA KeptTyped ==
  ASSUME TypeOK, Kept, CallTyped', faults' \in 0..MaxFaults,
         disturbed' \in [Install -> BOOLEAN]
  PROVE  TypeOK'
BY DEF TypeOK, Kept, CallTyped

-----------------------------------------------------------------------------
(* Type correctness, one lemma for each kind of step.                      *)

LEMMA RequestsTyped ==
  ASSUME TypeOK, NEW i \in Install,
         OpenFile(i) \/ Playlist(i) \/ Probe(i) \/ Segment(i) \/ ReadRange(i)
  PROVE  TypeOK'
<1>1. CASE Refused(i) /\ Quiet /\ Kept
  BY <1>1, RefusedTyped, QuietTyped, KeptTyped
<1>2. ASSUME NEW how, Lost(i), Fail(i, how), Kept  PROVE TypeOK'
  BY <1>2, FailTyped, LostTyped, KeptTyped
<1>3. ASSUME NEW how, Quiet, Fail(i, how), Kept  PROVE TypeOK'
  BY <1>3, FailTyped, QuietTyped, KeptTyped
<1>4. CASE OpenFile(i)
  <2>1. CASE /\ Quiet /\ Kept /\ End(i, "ok")
             /\ stream' = [stream EXCEPT ![i] = Stream("file", 0)]
    <3>1. stream' \in [Install -> Streams]
      BY <2>1, ZeroPosition DEF TypeOK, Streams, Stream
    <3>2. CallTyped'  BY <2>1, <3>1, EndTyped DEF CallTyped
    <3>3. QED  BY <2>1, <3>2, QuietTyped, KeptTyped
  <2>2. QED  BY <1>1, <1>2, <1>3, <1>4, <2>1 DEF OpenFile
<1>5. CASE Playlist(i)
  <2>1. CASE Quiet /\ Kept /\ Proceeds(i, "probe", 0)
    BY <2>1, ProceedsTyped, QuietTyped, KeptTyped
  <2>2. CASE Lost(i) /\ Kept /\ Failed(i, "failed")
    BY <2>2, FailedTyped, LostTyped, KeptTyped
  <2>3. QED  BY <1>1, <1>5, <2>1, <2>2 DEF Playlist
<1>6. CASE Probe(i)
  <2>1. Kept /\ (Quiet \/ Lost(i)) /\ (Heal(i) \/ Refreshed(i))
    BY <1>6 DEF Probe
  <2>2. CallTyped'  BY <2>1, HealTyped, RefreshedTyped
  <2>3. QED  BY <2>1, <2>2, QuietTyped, LostTyped, KeptTyped
<1>7. CASE Segment(i)
  BY <1>1, <1>2, <1>3, <1>7 DEF Segment
<1>8. CASE ReadRange(i)
  <2>1. CASE /\ Quiet /\ Kept /\ End(i, "ok")
             /\ stream' = [stream EXCEPT ![i] = Stream("file", @.position + Written(i))]
    <3>1. CallTyped'  BY <2>1, StreamTyped, EndTyped DEF CallTyped
    <3>2. QED  BY <2>1, <3>1, QuietTyped, KeptTyped
  <2>2. QED  BY <1>1, <1>2, <1>8, <2>1 DEF ReadRange
<1>9. QED  BY <1>4, <1>5, <1>6, <1>7, <1>8

\* whatever GenerateApiKey does with the token, a token it stays
LEMMA TokenTyped ==
  ASSUME NEW t \in Tokens
  PROVE  EnsureAuthenticated(t) \in Tokens /\ Reauthenticated(t) \in Tokens
BY DEF Tokens, EnsureAuthenticated, Reauthenticated, Refresh, Login, Token

LEMMA ReasonTyped ==
  ASSUME TypeOK, NEW i \in Install, NEW made \in BOOLEAN, Generated(i, made)
  PROVE  reason' \in [Install -> SUBSET {"constructor", "midway", "edited"}]
<1>1. \/ UNCHANGED reason
      \/ reason' = [reason EXCEPT ![i] = @ \union {"constructor"}]
  BY DEF Generated
<1>2. QED  BY <1>1 DEF TypeOK

LEMMA SettingTyped ==
  ASSUME TypeOK, NEW i \in Install, NEW made \in BOOLEAN, Generated(i, made)
  PROVE  \/ setting' = setting
         \/ setting' = [setting EXCEPT ![i] = key'[i]]
BY DEF Generated

\* a key that was made stays made
LEMMA MadeStays ==
  ASSUME NEW n \in Nat, NEW f \in [Install -> 0..n]
  PROVE  f \in [Install -> 0..(n + 1)]
<1>1. \A j \in Install : f[j] \in 0..(n + 1)
  <2>1. TAKE j \in Install
  <2>2. f[j] \in 0..n  OBVIOUS
  <2>3. QED  BY <2>2
<1>2. QED  BY <1>1

LEMMA UnpostedTyped ==
  ASSUME TypeOK, NEW i \in Install, Generated(i, FALSE),
         UNCHANGED <<serverKey, growing, applied, restart, key>>,
         token' \in [Install -> Tokens], faults' \in 0..MaxFaults,
         disturbed' \in [Install -> BOOLEAN]
  PROVE  TypeOK'
<1>1. CallTyped' /\ up' \in [Install -> BOOLEAN]  BY GeneratedTyped
<1>2. reason' \in [Install -> SUBSET {"constructor", "midway", "edited"}]  BY ReasonTyped
<1>3. setting' \in [Install -> 0..serverKey']
  <2>1. setting' = setting \/ setting' = [setting EXCEPT ![i] = key[i]]
    BY SettingTyped
  <2>2. setting' \in [Install -> 0..serverKey]  BY <2>1 DEF TypeOK
  <2>3. QED  BY <2>2
<1>4. QED  BY <1>1, <1>2, <1>3 DEF TypeOK, CallTyped

LEMMA HealsTyped ==
  ASSUME TypeOK, NEW i \in Install, NEW gen \in {"ensure", "post", "reauth", "again"},
         call' = [call EXCEPT ![i] = Heals(@, gen)]
  PROVE  call' \in [Install -> Calls]
BY DEF TypeOK, Calls, Heals, Goes

LEMMA PostTyped ==
  ASSUME TypeOK, NEW i \in Install, Post(i)
  PROVE  TypeOK'
<1> DEFINE n == serverKey
<1>1. n \in Nat /\ n + 1 \in 0..MaxKeys /\ serverKey' = n + 1
  BY BoundAssumption DEF TypeOK, Post
<1>2. /\ setting \in [Install -> 0..(n + 1)]
      /\ applied \in [Install -> 0..(n + 1)]
      /\ key \in [Install -> 0..(n + 1)]
  BY <1>1, MadeStays DEF TypeOK
<1>3. n + 1 \in 0..(n + 1)  BY <1>1
<1>4. PICK made \in BOOLEAN : Generated(i, made)  BY DEF Post
<1>5. key' \in [Install -> 0..(n + 1)]
  <2>1. key' = key \/ key' = [key EXCEPT ![i] = n + 1]  BY <1>1 DEF Post
  <2>2. QED  BY <1>2, <1>3, <2>1
<1>6. setting' \in [Install -> 0..(n + 1)]
  BY <1>2, <1>4, <1>5, SettingTyped
<1>7. applied' \in [Install -> 0..(n + 1)]  BY <1>2 DEF Post
<1>8. faults' \in 0..MaxFaults
  <2>1. MaxFaults \in Nat /\ faults \in 0..MaxFaults  BY BoundAssumption DEF TypeOK
  <2>2. UNCHANGED faults \/ (faults < MaxFaults /\ faults' = faults + 1)  BY DEF Post
  <2>3. QED  BY <2>1, <2>2
<1>9. disturbed' \in [Install -> BOOLEAN]
  <2>1. CASE disturbed' = [j \in Install |-> disturbed[j] \/ (j # i /\ call[j] # NoCall)]
    BY <2>1 DEF TypeOK
  <2>2. CASE disturbed' = [j \in Install |-> disturbed[j] \/ call[j] # NoCall]
    BY <2>2 DEF TypeOK
  <2>3. QED  BY <2>1, <2>2 DEF Post
<1>10. CallTyped' /\ up' \in [Install -> BOOLEAN]  BY <1>4, GeneratedTyped
<1>11. reason' \in [Install -> SUBSET {"constructor", "midway", "edited"}]
  BY <1>4, ReasonTyped
<1>12. growing' \in BOOLEAN /\ restart' \in [Install -> BOOLEAN]
       /\ token' \in [Install -> Tokens]
  BY DEF TypeOK, Post
<1> HIDE DEF n
<1>13. QED
  BY <1>1, <1>5, <1>6, <1>7, <1>8, <1>9, <1>10, <1>11, <1>12 DEF TypeOK, CallTyped

LEMMA GenerateTyped ==
  ASSUME TypeOK, NEW i \in Install, GenerateApiKey(i)
  PROVE  TypeOK'
<1>1. CASE Ensure(i)
  <2>1. CASE Lost(i) /\ UNCHANGED <<key, token>> /\ Generated(i, FALSE)
    <3>1. token' \in [Install -> Tokens]  BY <2>1 DEF TypeOK
    <3>2. QED  BY <1>1, <2>1, <3>1, LostTyped, UnpostedTyped DEF Ensure
  <2>2. CASE /\ token' = [token EXCEPT ![i] = EnsureAuthenticated(@)]
             /\ call' = [call EXCEPT ![i] = Heals(@, "post")]
             /\ UNCHANGED <<key, up, setting, stream, reason, refused, unsaved>> /\ Quiet
    <3>1. token[i] \in Tokens  BY DEF TypeOK
    <3>2. token' \in [Install -> Tokens]  BY <2>2, <3>1, TokenTyped DEF TypeOK
    <3>3. call' \in [Install -> Calls]  BY <2>2, HealsTyped
    <3>4. QED  BY <1>1, <2>2, <3>2, <3>3 DEF Ensure, TypeOK, Quiet
  <2>3. QED  BY <1>1, <2>1, <2>2 DEF Ensure
<1>2. CASE Post(i)  BY <1>2, PostTyped
<1>3. CASE PostRefused(i)
  <2>1. CASE call[i].gen = "again"
    <3>1. token' \in [Install -> Tokens]  BY <1>3 DEF PostRefused, TypeOK
    <3>2. QED  BY <1>3, <2>1, <3>1, QuietTyped, UnpostedTyped DEF PostRefused
  <2>2. CASE call[i].gen # "again"
    <3>1. call' \in [Install -> Calls]  BY <1>3, <2>2, HealsTyped DEF PostRefused
    <3>2. QED  BY <1>3, <2>2, <3>1 DEF PostRefused, TypeOK, Quiet
  <2>3. QED  BY <2>1, <2>2
<1>4. CASE Reauth(i)
  <2>1. CASE Lost(i) /\ UNCHANGED <<key, token>> /\ Generated(i, FALSE)
    <3>1. token' \in [Install -> Tokens]  BY <2>1 DEF TypeOK
    <3>2. QED  BY <1>4, <2>1, <3>1, LostTyped, UnpostedTyped DEF Reauth
  <2>2. CASE /\ token' = [token EXCEPT ![i] = Reauthenticated(@)]
             /\ call' = [call EXCEPT ![i] = Heals(@, "again")]
             /\ UNCHANGED <<key, up, setting, stream, reason, refused, unsaved>> /\ Quiet
    <3>1. token[i] \in Tokens  BY DEF TypeOK
    <3>2. token' \in [Install -> Tokens]  BY <2>2, <3>1, TokenTyped DEF TypeOK
    <3>3. call' \in [Install -> Calls]  BY <2>2, HealsTyped
    <3>4. QED  BY <1>4, <2>2, <3>2, <3>3 DEF Reauth, TypeOK, Quiet
  <2>3. QED  BY <1>4, <2>1, <2>2 DEF Reauth
<1>5. QED  BY <1>1, <1>2, <1>3, <1>4 DEF GenerateApiKey

LEMMA KeyBound ==
  ASSUME TypeOK, NEW i \in Install
  PROVE  key[i] \in 0..MaxKeys /\ 0 \in 0..serverKey /\ 0 \in 0..MaxKeys
<1>1. MaxKeys \in Nat /\ serverKey \in 0..MaxKeys /\ key[i] \in 0..serverKey
  BY BoundAssumption DEF TypeOK
<1>2. QED  BY <1>1

LEMMA BeginTyped ==
  ASSUME TypeOK, NEW i \in Install, NEW op \in {"open", "read", "query"},
         NEW at \in {"file", "playlist", "segment", "range"}, NEW size \in {0, Size},
         Begin(i, op, at, size), UNCHANGED stream
  PROVE  TypeOK'
<1>1. call' \in [Install -> Calls]
  BY KeyBound DEF TypeOK, Calls, Begin
<1>2. QED  BY <1>1 DEF TypeOK, Begin

LEMMA KodiTyped ==
  ASSUME TypeOK, NEW i \in Install, Kodi(i)
  PROVE  TypeOK'
<1>1. CASE CreateInstance(i)
  <2>1. call' \in [Install -> Calls]
    BY <1>1, KeyBound DEF TypeOK, Calls, CreateInstance, StartCall
  <2>2. key' \in [Install -> 0..serverKey] /\ applied' \in [Install -> 0..serverKey]
    BY <1>1 DEF TypeOK, CreateInstance
  <2>3. unsaved' \in [Install -> BOOLEAN]
        /\ reason' \in [Install -> SUBSET {"constructor", "midway", "edited"}]
    BY <1>1 DEF TypeOK, CreateInstance
  <2>4. QED  BY <1>1, <2>1, <2>2, <2>3 DEF TypeOK, CreateInstance
<1>2. CASE DestroyInstance(i)
  <2>1. key' \in [Install -> 0..serverKey] /\ applied' \in [Install -> 0..serverKey]
    BY <1>2, KeyBound DEF TypeOK, DestroyInstance
  <2>2. stream' \in [Install -> Streams]
    BY <1>2, ZeroPosition DEF TypeOK, DestroyInstance, Streams, NoStream, Stream
  <2>3. token' \in [Install -> Tokens]
    BY <1>2 DEF TypeOK, DestroyInstance, Tokens, NoToken
  <2>4. up' \in [Install -> BOOLEAN] /\ restart' \in [Install -> BOOLEAN]
        /\ refused' \in [Install -> BOOLEAN] /\ disturbed' \in [Install -> BOOLEAN]
    BY <1>2 DEF TypeOK, DestroyInstance
  <2>5. QED  BY <1>2, <2>1, <2>2, <2>3, <2>4 DEF TypeOK, DestroyInstance
<1>3. CASE SetSetting(i)
  <2>1. applied' \in [Install -> 0..serverKey] /\ restart' \in [Install -> BOOLEAN]
    BY <1>3 DEF TypeOK, SetSetting
  <2>2. reason' \in [Install -> SUBSET {"constructor", "midway", "edited"}]
    BY <1>3 DEF TypeOK, SetSetting
  <2>3. QED  BY <1>3, <2>1, <2>2 DEF TypeOK, SetSetting
<1>4. CASE EditKey(i)
  <2>1. setting' \in [Install -> 0..serverKey]
    BY <1>4, KeyBound DEF TypeOK, EditKey
  <2>2. reason' \in [Install -> SUBSET {"constructor", "midway", "edited"}]
    BY <1>4 DEF TypeOK, EditKey
  <2>3. faults' \in 0..MaxFaults
    <3>1. MaxFaults \in Nat /\ faults \in 0..MaxFaults  BY BoundAssumption DEF TypeOK
    <3>2. faults < MaxFaults /\ faults' = faults + 1  BY <1>4 DEF EditKey
    <3>3. QED  BY <3>1, <3>2
  <2>4. QED  BY <1>4, <2>1, <2>2, <2>3 DEF TypeOK, EditKey
<1>5. CASE OpenRecordedStream(i)
  BY <1>5, BeginTyped DEF OpenRecordedStream
<1>6. CASE ReadRecordedStream(i)
  BY <1>6, BeginTyped DEF ReadRecordedStream
<1>7. CASE SeekRecordedStream(i)
  <2>1. stream' \in [Install -> Streams]
    BY <1>7 DEF TypeOK, SeekRecordedStream, Streams, Stream
  <2>2. QED  BY <1>7, <2>1 DEF TypeOK, SeekRecordedStream, history
<1>8. CASE CloseRecordedStream(i)
  <2>1. stream' \in [Install -> Streams]
    BY <1>8, ZeroPosition DEF TypeOK, CloseRecordedStream, Streams, NoStream, Stream
  <2>2. QED  BY <1>8, <2>1 DEF TypeOK, CloseRecordedStream, history
<1>9. CASE QueryRecordedStream(i)
  BY <1>9, BeginTyped DEF QueryRecordedStream
<1>10. QED  BY <1>1, <1>2, <1>3, <1>4, <1>5, <1>6, <1>7, <1>8, <1>9 DEF Kodi

LEMMA ConstructTyped ==
  ASSUME TypeOK, NEW i \in Install, Construct(i)
  PROVE  TypeOK'
<1>1. token' \in [Install -> Tokens]
  <2>1. token[i] \in Tokens  BY DEF TypeOK
  <2>2. QED  BY <2>1, TokenTyped DEF TypeOK, Construct
<1>2. CallTyped' /\ up' \in [Install -> BOOLEAN]
  BY HealTyped, ConstructedTyped DEF Construct, TypeOK
<1>3. faults' \in 0..MaxFaults /\ disturbed' \in [Install -> BOOLEAN]
  BY QuietTyped, LostTyped DEF Construct
<1>4. QED  BY <1>1, <1>2, <1>3 DEF Construct, TypeOK, CallTyped

LEMMA PersistTyped ==
  ASSUME TypeOK, NEW i \in Install, PersistApiKey(i) \/ SetSettingString(i)
  PROVE  TypeOK'
<1>1. CASE PersistApiKey(i)
  <2>1. call' \in [Install -> Calls]
    <3>1. NoCall \in Calls  BY KeyBound DEF Calls, NoCall
    <3>2. Goes(call[i], "save", call[i].attempt, "no") \in Calls
      BY DEF TypeOK, Calls, Goes
    <3>3. \/ call' = [call EXCEPT ![i] = NoCall]
          \/ call' = [call EXCEPT ![i] = Goes(@, "save", @.attempt, "no")]
      BY <1>1 DEF PersistApiKey
    <3>4. QED  BY <3>1, <3>2, <3>3 DEF TypeOK
  <2>2. applied' \in [Install -> 0..serverKey]
    BY <1>1 DEF TypeOK, PersistApiKey, Snapshot
  <2>3. QED  BY <1>1, <2>1, <2>2 DEF TypeOK, PersistApiKey, history
<1>2. CASE SetSettingString(i)
  <2>1. call' \in [Install -> Calls]
    BY <1>2, KeyBound DEF TypeOK, Calls, SetSettingString, NoCall
  <2>2. setting' \in [Install -> 0..serverKey] /\ unsaved' \in [Install -> BOOLEAN]
    BY <1>2 DEF TypeOK, SetSettingString
  <2>3. QED  BY <1>2, <2>1, <2>2 DEF TypeOK, SetSettingString
<1>3. QED  BY <1>1, <1>2

LEMMA TokenDiesTyped ==
  ASSUME TypeOK, NEW i \in Install, TokenDies(i)
  PROVE  TypeOK'
<1>1. token' \in [Install -> Tokens]
  <2>1. /\ Token("dead", FALSE, token[i].refresh) \in Tokens
        /\ Token("dead", token[i].current, "dead") \in Tokens
    BY DEF TypeOK, Tokens, Token
  <2>2. \/ token' = [token EXCEPT ![i] = Token("dead", FALSE, token[i].refresh)]
        \/ token' = [token EXCEPT ![i] = Token("dead", token[i].current, "dead")]
    BY DEF TokenDies, TypeOK
  <2>3. QED  BY <2>1, <2>2 DEF TypeOK
<1>2. disturbed' \in [Install -> BOOLEAN]
  BY DEF TypeOK, TokenDies, Quiet
<1>3. faults' \in 0..MaxFaults
  <2>1. MaxFaults \in Nat /\ faults \in 0..MaxFaults  BY BoundAssumption DEF TypeOK
  <2>2. UNCHANGED faults \/ (faults < MaxFaults /\ faults' = faults + 1)
    BY DEF TokenDies, Quiet
  <2>3. QED  BY <2>1, <2>2
<1>4. QED  BY <1>1, <1>2, <1>3 DEF TypeOK, TokenDies

LEMMA InitTyped == Init => TypeOK
<1>1. SUFFICES ASSUME Init PROVE TypeOK  OBVIOUS
<1>2. serverKey \in 0..MaxKeys /\ 0 \in 0..serverKey /\ 0 \in 0..MaxKeys
      /\ faults \in 0..MaxFaults
  BY <1>1, BoundAssumption DEF Init
<1>3. call \in [Install -> Calls]
  BY <1>1, <1>2 DEF Init, NoCall, Calls
<1>4. stream \in [Install -> Streams]
  BY <1>1, ZeroPosition DEF Init, NoStream, Streams, Stream
<1>5. token \in [Install -> Tokens]
  BY <1>1 DEF Init, NoToken, Tokens
<1>6. QED  BY <1>1, <1>2, <1>3, <1>4, <1>5 DEF Init, TypeOK

LEMMA NextTyped == TypeOK /\ [Next]_vars => TypeOK'
<1>1. SUFFICES ASSUME TypeOK, [Next]_vars PROVE TypeOK'  OBVIOUS
<1>2. CASE Finished
  BY <1>1, <1>2 DEF Finished, TypeOK, client, history
<1>3. ASSUME NEW i \in Install, Kodi(i) PROVE TypeOK'
  BY <1>1, <1>3, KodiTyped
<1>4. ASSUME NEW i \in Install, Step(i) PROVE TypeOK'
  BY <1>1, <1>4, ConstructTyped, RequestsTyped, GenerateTyped, PersistTyped DEF Step
<1>5. ASSUME NEW i \in Install, TokenDies(i) PROVE TypeOK'
  BY <1>1, <1>5, TokenDiesTyped
<1>6. CASE UNCHANGED vars
  BY <1>1, <1>6 DEF vars, client, history, TypeOK
<1>7. QED  BY <1>1, <1>2, <1>3, <1>4, <1>5, <1>6 DEF Next

\* Whatever the installations do, every key in use was made by the server and no read
\* goes beyond the end of the recording.
THEOREM TypeCorrect == Spec => []TypeOK
<1>1. Init => TypeOK  BY InitTyped
<1>2. TypeOK /\ [Next]_vars => TypeOK'  BY NextTyped
<1>3. QED  BY <1>1, <1>2, PTL DEF Spec

-----------------------------------------------------------------------------
(* SelfHeals.  The second refusal of a call must have a cause: the key of a  *)
(* second attempt is the server's, and the token of a second request for a  *)
(* key lives, unless someone interfered.                                    *)

Healing(i) ==
    /\ call[i].gen = "again" => token[i].access = "live" \/ disturbed[i]
    /\ call[i].attempt = 1 => disturbed[i] \/ (key[i] = serverKey /\ key[i] # 0)
    /\ refused[i] => disturbed[i]

Healings == \A i \in Install : Healing(i)

\* the call of i ends or goes on without a token: how that concerns Healing
Ends(i, why) ==
    /\ \A j \in Install \ {i} : call'[j] = call[j] /\ refused'[j] = refused[j]
    /\ call'[i].gen # "again"
    /\ call'[i].attempt = 1 => call[i].attempt = 1
    /\ refused'[i] => refused[i] \/ why

LEMMA EndEnds ==
  ASSUME TypeOK, NEW i \in Install, NEW how, End(i, how)
  PROVE  Ends(i, how = "refused")
BY DEF TypeOK, End, Ends, Goes, NoCall

LEMMA HealEnds ==
  ASSUME TypeOK, NEW i \in Install, Heal(i)
  PROVE  Ends(i, FALSE)
BY DEF TypeOK, Heal, Ends, Heals, Goes

LEMMA ProceedsEnds ==
  ASSUME TypeOK, NEW i \in Install, NEW at, NEW attempt, Proceeds(i, at, attempt),
         attempt = 1 => call[i].attempt = 1
  PROVE  Ends(i, FALSE)
BY DEF TypeOK, Proceeds, Ends, Goes

LEMMA AgainEnds ==
  ASSUME TypeOK, NEW i \in Install, Again(i)
  PROVE  Ends(i, FALSE)
<1>1. Proceeds(i, "playlist", 0)  BY DEF Again
<1>2. 0 = 1 => call[i].attempt = 1  OBVIOUS
<1>3. QED  BY <1>1, <1>2, ProceedsEnds

LEMMA RefreshedEnds ==
  ASSUME TypeOK, NEW i \in Install, Refreshed(i)
  PROVE  Ends(i, FALSE)
<1>1. CASE Again(i)
  BY <1>1, AgainEnds
<1>2. CASE Proceeds(i, "segment", call[i].attempt)
  BY <1>2, ProceedsEnds
<1>3. ASSUME NEW how, how # "refused", End(i, how)  PROVE Ends(i, FALSE)
  BY <1>3, EndEnds DEF Ends
<1>4. QED  BY <1>1, <1>2, <1>3 DEF Refreshed, Fail

LEMMA FailedEnds ==
  ASSUME TypeOK, NEW i \in Install, NEW how, Failed(i, how)
  PROVE  Ends(i, how = "refused")
<1>1. CASE Fail(i, how)
  BY <1>1, EndEnds DEF Fail
<1>2. CASE Again(i)
  BY <1>2, AgainEnds DEF Ends
<1>3. QED  BY <1>1, <1>2 DEF Failed

LEMMA ConstructedEnds ==
  ASSUME TypeOK, NEW i \in Install, Constructed(i)
  PROVE  Ends(i, FALSE)
BY DEF TypeOK, Constructed, Ends, NoCall

LEMMA UngeneratedEnds ==
  ASSUME TypeOK, NEW i \in Install, Generated(i, FALSE)
  PROVE  Ends(i, TRUE)
<1>1. CASE Constructed(i)
  BY <1>1, ConstructedEnds DEF Ends
<1>2. CASE Refreshed(i)
  BY <1>2, RefreshedEnds DEF Ends
<1>3. CASE Failed(i, "refused")
  BY <1>3, FailedEnds DEF Ends
<1>4. QED  BY <1>1, <1>2, <1>3 DEF Generated

LEMMA GeneratedEnds ==
  ASSUME TypeOK, NEW i \in Install, Generated(i, TRUE)
  PROVE  /\ \A j \in Install \ {i} : call'[j] = call[j] /\ refused'[j] = refused[j]
         /\ call'[i].gen # "again"
         /\ refused'[i] => refused[i]
<1>1. CASE Constructed(i)
  BY <1>1, ConstructedEnds DEF Ends
<1>2. CASE Refreshed(i)
  BY <1>2, RefreshedEnds DEF Ends
<1>3. CASE Proceeds(i, call[i].at, 1)
  BY <1>3 DEF TypeOK, Proceeds, Goes
<1>4. QED  BY <1>1, <1>2, <1>3 DEF Generated

\* a call that ends without a refusal, or with one that has a cause
LEMMA EndsHealing ==
  ASSUME TypeOK, Healings, NEW i \in Install, NEW why \in BOOLEAN, Ends(i, why),
         UNCHANGED <<key, serverKey, token>>,
         why => disturbed'[i],
         \A j \in Install : disturbed[j] => disturbed'[j]
  PROVE  Healings'
<1>1. ASSUME NEW j \in Install \ {i}  PROVE Healing(j)'
  <2>1. call'[j] = call[j] /\ refused'[j] = refused[j]  BY <1>1 DEF Ends
  <2>2. Healing(j)  BY <1>1 DEF Healings
  <2>3. QED  BY <1>1, <2>1, <2>2 DEF Healing
<1>2. Healing(i)'
  <2>1. Healing(i)  BY DEF Healings
  <2>2. QED  BY <2>1 DEF Healing, Ends
<1>3. QED  BY <1>1, <1>2 DEF Healings

LEMMA RefusedEnds ==
  ASSUME TypeOK, Healings, NEW i \in Install, Refused(i)
  PROVE  Ends(i, FALSE) \/ (Ends(i, TRUE) /\ disturbed[i])
<1>1. CASE Heal(i)
  BY <1>1, HealEnds
<1>2. CASE call[i].attempt # 0 /\ Failed(i, "refused")
  <2>1. call[i].attempt = 1
    <3>1. call[i].attempt \in 0..1  BY DEF TypeOK, Calls
    <3>2. QED  BY <1>2, <3>1
  <2>2. disturbed[i]
    BY <2>1 DEF Healings, Healing, Refused, Valid, Sent
  <2>3. Ends(i, TRUE)  BY <1>2, FailedEnds DEF Ends
  <2>4. QED  BY <2>2, <2>3
<1>3. QED  BY <1>1, <1>2 DEF Refused

LEMMA RequestsHealing ==
  ASSUME TypeOK, Healings, NEW i \in Install,
         OpenFile(i) \/ Playlist(i) \/ Probe(i) \/ Segment(i) \/ ReadRange(i)
  PROVE  Healings'
<1> DEFINE Mild == Kept /\ (Quiet \/ Lost(i))
<1>1. ASSUME Mild  PROVE UNCHANGED <<key, serverKey, token>>
  BY <1>1 DEF Kept
<1>2. ASSUME Mild  PROVE \A j \in Install : disturbed[j] => disturbed'[j]
  BY <1>2 DEF Quiet, Lost, TypeOK
<1>3. CASE Mild /\ Refused(i)
  <2>1. CASE Ends(i, FALSE)
    BY <1>1, <1>2, <1>3, <2>1, EndsHealing
  <2>2. CASE Ends(i, TRUE) /\ disturbed[i]
    <3>1. disturbed'[i]  BY <1>2, <1>3, <2>2
    <3>2. QED  BY <1>1, <1>2, <1>3, <2>2, <3>1, EndsHealing
  <2>3. QED  BY <1>3, <2>1, <2>2, RefusedEnds
<1>4. ASSUME NEW how, how # "refused", Mild, End(i, how)  PROVE Healings'
  <2>1. Ends(i, FALSE)  BY <1>4, EndEnds DEF Ends
  <2>2. QED  BY <1>1, <1>2, <1>4, <2>1, EndsHealing
<1>5. CASE OpenFile(i)
  BY <1>3, <1>4, <1>5 DEF OpenFile, Fail
<1>6. CASE Playlist(i)
  <2>1. CASE Mild /\ (Proceeds(i, "probe", 0) \/ Failed(i, "failed"))
    <3>1. Ends(i, FALSE)  BY <2>1, ProceedsEnds, FailedEnds DEF Ends
    <3>2. QED  BY <1>1, <1>2, <2>1, <3>1, EndsHealing
  <2>2. QED  BY <1>3, <1>6, <2>1 DEF Playlist
<1>7. CASE Probe(i)
  <2>1. Mild /\ (Heal(i) \/ Refreshed(i))
    BY <1>7 DEF Probe
  <2>2. Ends(i, FALSE)  BY <2>1, HealEnds, RefreshedEnds
  <2>3. QED  BY <1>1, <1>2, <2>1, <2>2, EndsHealing
<1>8. CASE Segment(i)
  BY <1>3, <1>4, <1>8 DEF Segment, Fail
<1>9. CASE ReadRange(i)
  BY <1>3, <1>4, <1>9 DEF ReadRange, Fail
<1>10. QED  BY <1>5, <1>6, <1>7, <1>8, <1>9

LEMMA LostHealing ==
  ASSUME TypeOK, Healings, NEW i \in Install, Lost(i), Generated(i, FALSE),
         UNCHANGED <<serverKey, key, token>>
  PROVE  Healings'
<1>1. Ends(i, TRUE)  BY UngeneratedEnds
<1>2. disturbed'[i]  BY DEF Lost, TypeOK
<1>3. \A j \in Install : disturbed[j] => disturbed'[j]  BY DEF Lost, TypeOK
<1>4. QED  BY <1>1, <1>2, <1>3, EndsHealing

\* the call of i goes on with another step of GenerateApiKey
LEMMA HealsHealing ==
  ASSUME TypeOK, Healings, NEW i \in Install, NEW gen \in {"post", "reauth", "again"},
         call' = [call EXCEPT ![i] = Heals(@, gen)],
         UNCHANGED <<key, serverKey, refused, disturbed>>,
         gen = "again" => token'[i].access = "live",
         \A j \in Install \ {i} : token'[j] = token[j]
  PROVE  Healings'
<1>1. ASSUME NEW j \in Install \ {i}  PROVE Healing(j)'
  <2>1. call'[j] = call[j] /\ token'[j] = token[j]  BY <1>1 DEF TypeOK
  <2>2. Healing(j)  BY <1>1 DEF Healings
  <2>3. QED  BY <1>1, <2>1, <2>2 DEF Healing
<1>2. Healing(i)'
  <2>1. call'[i].gen = gen /\ call'[i].attempt = call[i].attempt
    BY DEF TypeOK, Heals, Goes
  <2>2. Healing(i)  BY DEF Healings
  <2>3. QED  BY <2>1, <2>2 DEF Healing
<1>3. QED  BY <1>1, <1>2 DEF Healings

LEMMA PostHealing ==
  ASSUME TypeOK, Healings, NEW i \in Install, Post(i)
  PROVE  Healings'
<1>1. CASE /\ key' = [key EXCEPT ![i] = serverKey']
           /\ disturbed' = [j \in Install |-> disturbed[j] \/ (j # i /\ call[j] # NoCall)]
           /\ Generated(i, TRUE)
  <2>1. ASSUME NEW j \in Install \ {i}  PROVE Healing(j)'
    <3>1. call'[j] = call[j] /\ refused'[j] = refused[j]
      BY <1>1, <2>1, GeneratedEnds
    <3>2. token'[j] = token[j] /\ (disturbed'[j] <=> disturbed[j] \/ call[j] # NoCall)
      BY <1>1, <2>1 DEF Post
    <3>3. call[j] = NoCall => call[j].attempt = 0 /\ call[j].gen = "no"
      BY DEF NoCall
    <3>4. Healing(j)  BY <2>1 DEF Healings
    <3>5. QED  BY <3>1, <3>2, <3>3, <3>4 DEF Healing
  <2>2. Healing(i)'
    <3>1. call'[i].gen # "again" /\ (refused'[i] => refused[i])
      BY <1>1, GeneratedEnds
    <3>2. key'[i] = serverKey' /\ disturbed'[i] = disturbed[i]
      BY <1>1 DEF TypeOK
    <3>3. serverKey' # 0
      <4>1. serverKey \in Nat /\ serverKey' = serverKey + 1
        BY BoundAssumption DEF TypeOK, Post
      <4>2. QED  BY <4>1
    <3>4. Healing(i)  BY DEF Healings
    <3>5. QED  BY <3>1, <3>2, <3>3, <3>4 DEF Healing
  <2>3. QED  BY <2>1, <2>2 DEF Healings
<1>2. CASE /\ disturbed' = [j \in Install |-> disturbed[j] \/ call[j] # NoCall]
           /\ UNCHANGED key
           /\ Generated(i, FALSE)
  <2>1. ASSUME NEW j \in Install \ {i}  PROVE Healing(j)'
    <3>1. call'[j] = call[j] /\ refused'[j] = refused[j]
      BY <1>2, <2>1, UngeneratedEnds DEF Ends
    <3>2. token'[j] = token[j] /\ (disturbed'[j] <=> disturbed[j] \/ call[j] # NoCall)
      BY <1>2, <2>1 DEF Post
    <3>3. call[j] = NoCall => call[j].attempt = 0 /\ call[j].gen = "no"
      BY DEF NoCall
    <3>4. Healing(j)  BY <2>1 DEF Healings
    <3>5. QED  BY <3>1, <3>2, <3>3, <3>4 DEF Healing
  <2>2. Healing(i)'
    <3>1. call[i] # NoCall  BY DEF Post, NoCall
    <3>2. disturbed'[i]  BY <1>2, <3>1
    <3>3. call'[i].gen # "again"  BY <1>2, UngeneratedEnds DEF Ends
    <3>4. QED  BY <3>2, <3>3 DEF Healing
  <2>3. QED  BY <2>1, <2>2 DEF Healings
<1>3. QED  BY <1>1, <1>2 DEF Post

LEMMA GenerateHealing ==
  ASSUME TypeOK, Healings, NEW i \in Install, GenerateApiKey(i)
  PROVE  Healings'
<1>1. CASE Ensure(i)
  <2>1. CASE Lost(i) /\ UNCHANGED <<key, token>> /\ Generated(i, FALSE)
    BY <1>1, <2>1, LostHealing DEF Ensure
  <2>2. CASE /\ token' = [token EXCEPT ![i] = EnsureAuthenticated(@)]
             /\ call' = [call EXCEPT ![i] = Heals(@, "post")]
             /\ UNCHANGED <<key, refused>> /\ Quiet
    <3>1. \A j \in Install \ {i} : token'[j] = token[j]  BY <2>2 DEF TypeOK
    <3>2. UNCHANGED <<key, serverKey, refused, disturbed>>
      BY <1>1, <2>2 DEF Ensure, Quiet
    <3>3. QED  BY <2>2, <3>1, <3>2, HealsHealing
  <2>3. QED  BY <1>1, <2>1, <2>2 DEF Ensure
<1>2. CASE Post(i)  BY <1>2, PostHealing
<1>3. CASE PostRefused(i)
  <2>1. CASE call[i].gen = "again"
    <3>1. Ends(i, TRUE)  BY <1>3, <2>1, UngeneratedEnds DEF PostRefused
    <3>2. disturbed[i]
      BY <1>3, <2>1 DEF PostRefused, Healings, Healing
    <3>3. UNCHANGED <<key, serverKey, token, disturbed>>
      BY <1>3 DEF PostRefused, Quiet
    <3>4. QED  BY <3>1, <3>2, <3>3, EndsHealing
  <2>2. CASE call[i].gen # "again"
    <3>1. /\ UNCHANGED <<key, serverKey, token, refused, disturbed>>
          /\ call' = [call EXCEPT ![i] = Heals(@, "reauth")]
      BY <1>3, <2>2 DEF PostRefused, Quiet
    <3>2. QED  BY <3>1, HealsHealing
  <2>3. QED  BY <2>1, <2>2
<1>4. CASE Reauth(i)
  <2>1. CASE Lost(i) /\ UNCHANGED <<key, token>> /\ Generated(i, FALSE)
    BY <1>4, <2>1, LostHealing DEF Reauth
  <2>2. CASE /\ token' = [token EXCEPT ![i] = Reauthenticated(@)]
             /\ call' = [call EXCEPT ![i] = Heals(@, "again")]
             /\ UNCHANGED <<key, refused>> /\ Quiet
    <3>1. \A j \in Install \ {i} : token'[j] = token[j]  BY <2>2 DEF TypeOK
    <3>2. token'[i].access = "live"
      BY <2>2 DEF TypeOK, Reauthenticated, Refresh, Login, Token
    <3>3. UNCHANGED <<key, serverKey, refused, disturbed>>
      BY <1>4, <2>2 DEF Reauth, Quiet
    <3>4. QED  BY <2>2, <3>1, <3>2, <3>3, HealsHealing
  <2>3. QED  BY <1>4, <2>1, <2>2 DEF Reauth
<1>5. QED  BY <1>1, <1>2, <1>3, <1>4 DEF GenerateApiKey

LEMMA InstanceHealing ==
  ASSUME TypeOK, Healings, NEW i \in Install,
         CreateInstance(i) \/ DestroyInstance(i) \/ Construct(i)
  PROVE  Healings'
<1>1. CASE CreateInstance(i)
  <2>1. ASSUME NEW j \in Install  PROVE Healing(j)'
    <3>1. Healing(j)  BY <2>1 DEF Healings
    <3>2. CASE j = i
      <4>1. call'[i].attempt = 0 /\ call'[i].gen = "no"
        BY <1>1 DEF CreateInstance, StartCall, TypeOK
      <4>2. QED  BY <1>1, <3>1, <3>2, <4>1 DEF CreateInstance, Healing
    <3>3. CASE j # i
      BY <1>1, <3>1, <3>3 DEF CreateInstance, Healing, TypeOK
    <3>4. QED  BY <3>2, <3>3
  <2>2. QED  BY <2>1 DEF Healings
<1>2. CASE DestroyInstance(i)
  <2>1. ASSUME NEW j \in Install  PROVE Healing(j)'
    <3>1. Healing(j)  BY <2>1 DEF Healings
    <3>2. CASE j = i
      <4>1. call'[i].attempt = 0 /\ call'[i].gen = "no"
        BY <1>2 DEF DestroyInstance, NoCall, TypeOK
      <4>2. ~refused'[i]  BY <1>2 DEF DestroyInstance, TypeOK
      <4>3. QED  BY <3>2, <4>1, <4>2 DEF Healing
    <3>3. CASE j # i
      BY <1>2, <3>1, <3>3 DEF DestroyInstance, Healing, TypeOK
    <3>4. QED  BY <3>2, <3>3
  <2>2. QED  BY <2>1 DEF Healings
<1>3. CASE Construct(i)
  <2>1. Ends(i, FALSE)
    BY <1>3, HealEnds, ConstructedEnds DEF Construct
  <2>2. UNCHANGED <<key, serverKey>> /\ \A j \in Install \ {i} : token'[j] = token[j]
    BY <1>3 DEF Construct, TypeOK
  <2>3. \A j \in Install : disturbed[j] => disturbed'[j]
    BY <1>3 DEF Construct, Quiet, Lost, TypeOK
  <2>4. ASSUME NEW j \in Install  PROVE Healing(j)'
    <3>1. Healing(j)  BY <2>4 DEF Healings
    <3>2. CASE j = i  BY <2>1, <2>2, <2>3, <3>1, <3>2 DEF Healing, Ends
    <3>3. CASE j # i  BY <2>1, <2>2, <2>3, <2>4, <3>1, <3>3 DEF Healing, Ends
    <3>4. QED  BY <3>2, <3>3
  <2>5. QED  BY <2>4 DEF Healings
<1>4. QED  BY <1>1, <1>2, <1>3

LEMMA BeginHealing ==
  ASSUME TypeOK, Healings, NEW i \in Install, NEW op, NEW at, NEW size,
         Begin(i, op, at, size)
  PROVE  Healings'
<1>1. ASSUME NEW j \in Install  PROVE Healing(j)'
  <2>1. Healing(j)  BY <1>1 DEF Healings
  <2>2. CASE j = i
    <3>1. call'[i].attempt = 0 /\ call'[i].gen = "no" /\ ~refused'[i]
      BY DEF Begin, TypeOK
    <3>2. QED  BY <2>2, <3>1 DEF Healing
  <2>3. CASE j # i  BY <2>1, <2>3 DEF Begin, Healing, TypeOK
  <2>4. QED  BY <2>2, <2>3
<1>2. QED  BY <1>1 DEF Healings

\* the steps that leave both attempts and tokens alone
LEMMA QuietHealing ==
  ASSUME TypeOK, Healings, NEW i \in Install,
         SetSetting(i) \/ EditKey(i) \/ SeekRecordedStream(i) \/ CloseRecordedStream(i)
           \/ PersistApiKey(i) \/ SetSettingString(i)
  PROVE  Healings'
<1>1. UNCHANGED <<key, serverKey, token, refused, disturbed>>
  BY DEF SetSetting, EditKey, SeekRecordedStream, CloseRecordedStream, PersistApiKey,
         SetSettingString, history
<1>2. ASSUME NEW j \in Install
      PROVE  call'[j].gen \in {call[j].gen, "no"} /\ call'[j].attempt \in {call[j].attempt, 0}
  <2>1. CASE PersistApiKey(i)
    BY <1>2, <2>1 DEF PersistApiKey, Goes, NoCall, TypeOK
  <2>2. CASE SetSettingString(i)
    BY <1>2, <2>2 DEF SetSettingString, NoCall, TypeOK
  <2>3. CASE UNCHANGED call  BY <2>3
  <2>4. QED
    BY <2>1, <2>2, <2>3 DEF SetSetting, EditKey, SeekRecordedStream, CloseRecordedStream
<1>3. QED  BY <1>1, <1>2 DEF Healings, Healing

LEMMA TokenDiesHealing ==
  ASSUME TypeOK, Healings, NEW i \in Install, TokenDies(i)
  PROVE  Healings'
<1>1. UNCHANGED <<key, serverKey, refused, call>>  BY DEF TokenDies
<1>2. ASSUME NEW j \in Install  PROVE Healing(j)'
  <2>1. Healing(j)  BY <1>2 DEF Healings
  <2>2. \A k \in Install : disturbed[k] => disturbed'[k]
    BY DEF TokenDies, Quiet, TypeOK
  <2>3. CASE j = i
    <3>1. call[i].gen = "again" => disturbed'[i]
      <4>1. NoCall.gen # "again"  BY DEF NoCall
      <4>2. CASE call[i] = NoCall  BY <4>1, <4>2
      <4>3. CASE call[i] # NoCall
        <5>1. disturbed' = [disturbed EXCEPT ![i] = @ \/ call[i].gen = "again"]
          BY <4>3 DEF TokenDies
        <5>2. disturbed'[i] = (disturbed[i] \/ call[i].gen = "again")
          BY <5>1, Zenon DEF TypeOK
        <5>3. QED  BY <5>2
      <4>4. QED  BY <4>2, <4>3
    <3>2. QED  BY <1>1, <1>2, <2>1, <2>2, <2>3, <3>1 DEF Healing
  <2>4. CASE j # i
    <3>1. token'[j] = token[j]  BY <1>2, <2>4 DEF TokenDies, TypeOK
    <3>2. QED  BY <1>1, <1>2, <2>1, <2>2, <3>1 DEF Healing
  <2>5. QED  BY <2>3, <2>4
<1>3. QED  BY <1>2 DEF Healings

LEMMA NextHealing == TypeOK /\ Healings /\ [Next]_vars => Healings'
<1>1. SUFFICES ASSUME TypeOK, Healings, [Next]_vars PROVE Healings'  OBVIOUS
<1>2. CASE UNCHANGED vars \/ Finished
  BY <1>1, <1>2 DEF vars, client, history, Finished, Healings, Healing
<1>3. ASSUME NEW i \in Install, Kodi(i) PROVE Healings'
  BY <1>1, <1>3, InstanceHealing, BeginHealing, QuietHealing
     DEF Kodi, OpenRecordedStream, ReadRecordedStream, QueryRecordedStream
<1>4. ASSUME NEW i \in Install, Step(i) PROVE Healings'
  BY <1>1, <1>4, InstanceHealing, RequestsHealing, GenerateHealing, QuietHealing DEF Step
<1>5. ASSUME NEW i \in Install, TokenDies(i) PROVE Healings'
  BY <1>1, <1>5, TokenDiesHealing
<1>6. QED  BY <1>1, <1>2, <1>3, <1>4, <1>5 DEF Next

\* No call is refused in the end unless another installation took the key during it, or a
\* request was lost: the second attempt and the second token are enough.
THEOREM SelfHealsHolds == Spec => []SelfHeals
<1>1. Init => TypeOK /\ Healings
  <2>1. ASSUME Init, NEW i \in Install  PROVE Healing(i)
    <3>1. call[i].gen = "no" /\ call[i].attempt = 0  BY <2>1 DEF Init, NoCall
    <3>2. ~refused[i]  BY <2>1, Zenon DEF Init
    <3>3. QED  BY <3>1, <3>2 DEF Healing
  <2>2. QED  BY <2>1, InitTyped DEF Healings
<1>2. TypeOK /\ Healings /\ [Next]_vars => (TypeOK /\ Healings)'
  BY NextTyped, NextHealing
<1>3. Healings => SelfHeals  BY DEF Healings, Healing, SelfHeals
<1>4. QED  BY <1>1, <1>2, <1>3, PTL DEF Spec

-----------------------------------------------------------------------------
(* OnlyStaleReplaced.  A key found stale stays so until it is replaced.     *)

Stale(i) == call[i].gen # "no" => key[i] = 0 \/ key[i] # serverKey

Stales == \A i \in Install : Stale(i)

\* no call starts to ask for a key that did not already
Unasked ==
    \A j \in Install : call'[j].gen # "no" => call[j].gen # "no"

LEMMA UnaskedStale ==
  ASSUME Stales, Unasked, UNCHANGED <<key, serverKey>>
  PROVE  Stales'
BY DEF Stales, Stale, Unasked

LEMMA EndUnasked ==
  ASSUME TypeOK, NEW i \in Install, NEW how, End(i, how)
  PROVE  Unasked /\ call'[i].gen = "no"
BY DEF TypeOK, End, Unasked, Goes, NoCall

LEMMA ProceedsUnasked ==
  ASSUME TypeOK, NEW i \in Install, NEW at, NEW attempt, Proceeds(i, at, attempt)
  PROVE  Unasked /\ call'[i].gen = "no"
BY DEF TypeOK, Proceeds, Unasked, Goes

LEMMA RefreshedUnasked ==
  ASSUME TypeOK, NEW i \in Install, Refreshed(i)
  PROVE  Unasked /\ call'[i].gen = "no"
<1>1. ASSUME NEW how, End(i, how)  PROVE Unasked /\ call'[i].gen = "no"
  BY <1>1, EndUnasked
<1>2. ASSUME NEW at, NEW attempt, Proceeds(i, at, attempt)
      PROVE  Unasked /\ call'[i].gen = "no"
  BY <1>2, ProceedsUnasked
<1>3. QED  BY <1>1, <1>2 DEF Refreshed, Fail, Again

LEMMA FailedUnasked ==
  ASSUME TypeOK, NEW i \in Install, NEW how, Failed(i, how)
  PROVE  Unasked /\ call'[i].gen = "no"
BY EndUnasked, ProceedsUnasked DEF Failed, Fail, Again

LEMMA ConstructedUnasked ==
  ASSUME TypeOK, NEW i \in Install, Constructed(i)
  PROVE  Unasked /\ call'[i].gen = "no"
BY DEF TypeOK, Constructed, Unasked, NoCall

LEMMA GeneratedUnasked ==
  ASSUME TypeOK, NEW i \in Install, NEW made \in BOOLEAN, Generated(i, made)
  PROVE  Unasked /\ call'[i].gen = "no"
<1>1. CASE Constructed(i)  BY <1>1, ConstructedUnasked
<1>2. CASE Refreshed(i)  BY <1>2, RefreshedUnasked
<1>3. CASE Failed(i, "refused")  BY <1>3, FailedUnasked
<1>4. CASE Proceeds(i, call[i].at, 1)  BY <1>4, ProceedsUnasked
<1>5. QED  BY <1>1, <1>2, <1>3, <1>4 DEF Generated

LEMMA HealStale ==
  ASSUME TypeOK, Stales, NEW i \in Install, Heal(i), ~Valid(i),
         UNCHANGED <<key, serverKey>>
  PROVE  Stales'
<1>1. \A j \in Install \ {i} : call'[j] = call[j]  BY DEF Heal, TypeOK
<1>2. QED  BY <1>1 DEF Stales, Stale, Valid, Sent

LEMMA RequestsStale ==
  ASSUME TypeOK, Stales, NEW i \in Install,
         OpenFile(i) \/ Playlist(i) \/ Probe(i) \/ Segment(i) \/ ReadRange(i)
  PROVE  Stales'
<1>1. UNCHANGED <<key, serverKey>>
  BY DEF OpenFile, Playlist, Probe, Segment, ReadRange, Kept
<1>2. CASE Refused(i)
  BY <1>1, <1>2, HealStale, FailedUnasked, UnaskedStale DEF Refused
<1>3. ASSUME NEW how, End(i, how)  PROVE Stales'
  BY <1>1, <1>3, EndUnasked, UnaskedStale
<1>4. CASE OpenFile(i)  BY <1>2, <1>3, <1>4 DEF OpenFile, Fail
<1>5. CASE Playlist(i)
  <2>1. CASE Proceeds(i, "probe", 0) \/ Failed(i, "failed")
    <3>1. Unasked  BY <2>1, ProceedsUnasked, FailedUnasked
    <3>2. QED  BY <1>1, <3>1, UnaskedStale
  <2>2. QED  BY <1>2, <1>5, <2>1 DEF Playlist
<1>6. CASE Probe(i)
  <2>1. CASE Heal(i) /\ ~Valid(i)  BY <1>1, <2>1, HealStale
  <2>2. CASE Refreshed(i)  BY <1>1, <2>2, RefreshedUnasked, UnaskedStale
  <2>3. QED  BY <1>6, <2>1, <2>2 DEF Probe, IsApiKeyValidFor
<1>7. CASE Segment(i)  BY <1>2, <1>3, <1>7 DEF Segment, Fail
<1>8. CASE ReadRange(i)  BY <1>2, <1>3, <1>8 DEF ReadRange, Fail
<1>9. QED  BY <1>4, <1>5, <1>6, <1>7, <1>8

LEMMA PostStale ==
  ASSUME TypeOK, Stales, NEW i \in Install, Post(i)
  PROVE  Stales'
<1>1. PICK made \in BOOLEAN : Generated(i, made)  BY DEF Post
<1>2. Unasked /\ call'[i].gen = "no"  BY <1>1, GeneratedUnasked
<1>3. ASSUME NEW j \in Install \ {i}  PROVE key'[j] # serverKey'
  <2>1. key'[j] = key[j]  BY <1>3 DEF Post, TypeOK
  <2>2. serverKey \in Nat /\ serverKey' = serverKey + 1 /\ key[j] \in 0..serverKey
    BY <1>3, BoundAssumption DEF Post, TypeOK
  <2>3. QED  BY <2>1, <2>2
<1>4. QED  BY <1>2, <1>3 DEF Stales, Stale

LEMMA GenerateStale ==
  ASSUME TypeOK, Stales, NEW i \in Install, GenerateApiKey(i)
  PROVE  Stales'
<1>1. CASE Post(i)  BY <1>1, PostStale
<1>2. CASE Ensure(i) \/ PostRefused(i) \/ Reauth(i)
  <2>1. UNCHANGED <<key, serverKey>>
    BY <1>2 DEF Ensure, PostRefused, Reauth
  <2>2. call[i].gen # "no"
    BY <1>2 DEF Ensure, PostRefused, Reauth
  <2>3. CASE Generated(i, FALSE)
    BY <2>1, <2>3, GeneratedUnasked, UnaskedStale
  <2>4. ASSUME NEW gen, call' = [call EXCEPT ![i] = Heals(@, gen)]  PROVE Stales'
    <3>1. Unasked  BY <2>2, <2>4 DEF Unasked, TypeOK
    <3>2. QED  BY <2>1, <3>1, UnaskedStale
  <2>5. QED  BY <1>2, <2>3, <2>4 DEF Ensure, PostRefused, Reauth
<1>3. QED  BY <1>1, <1>2 DEF GenerateApiKey

LEMMA InstanceStale ==
  ASSUME TypeOK, Stales, NEW i \in Install,
         CreateInstance(i) \/ DestroyInstance(i) \/ Construct(i)
  PROVE  Stales'
<1>1. CASE CreateInstance(i)
  <2>1. call'[i].gen = "no" /\ serverKey' = serverKey
    BY <1>1 DEF CreateInstance, StartCall, TypeOK
  <2>2. \A j \in Install \ {i} : call'[j] = call[j] /\ key'[j] = key[j]
    BY <1>1 DEF CreateInstance, TypeOK
  <2>3. QED  BY <2>1, <2>2 DEF Stales, Stale
<1>2. CASE DestroyInstance(i)
  <2>1. key'[i] = 0 /\ serverKey' = serverKey
    BY <1>2 DEF DestroyInstance, TypeOK
  <2>2. \A j \in Install \ {i} : call'[j] = call[j] /\ key'[j] = key[j]
    BY <1>2 DEF DestroyInstance, TypeOK
  <2>3. QED  BY <2>1, <2>2 DEF Stales, Stale
<1>3. CASE Construct(i)
  <2>1. UNCHANGED <<key, serverKey>>  BY <1>3 DEF Construct
  <2>2. CASE Constructed(i)
    BY <2>1, <2>2, ConstructedUnasked, UnaskedStale
  <2>3. CASE Heal(i) /\ key[i] = 0
    BY <2>1, <2>3, HealStale DEF Valid, Sent
  <2>4. QED  BY <1>3, <2>2, <2>3 DEF Construct
<1>4. QED  BY <1>1, <1>2, <1>3

LEMMA OthersStale ==
  ASSUME TypeOK, Stales, NEW i \in Install,
         \/ SetSetting(i) \/ EditKey(i) \/ SeekRecordedStream(i) \/ CloseRecordedStream(i)
         \/ OpenRecordedStream(i) \/ ReadRecordedStream(i) \/ QueryRecordedStream(i)
         \/ PersistApiKey(i) \/ SetSettingString(i) \/ TokenDies(i)
  PROVE  Stales'
<1>1. UNCHANGED <<key, serverKey>>
  BY DEF SetSetting, EditKey, SeekRecordedStream, CloseRecordedStream, OpenRecordedStream,
         ReadRecordedStream, QueryRecordedStream, Begin, PersistApiKey, SetSettingString, TokenDies
<1>2. Unasked
  <2>1. CASE PersistApiKey(i)
    BY <2>1 DEF PersistApiKey, Goes, NoCall, TypeOK, Unasked
  <2>2. CASE SetSettingString(i)
    BY <2>2 DEF SetSettingString, NoCall, TypeOK, Unasked
  <2>3. ASSUME NEW op, NEW at, NEW size, Begin(i, op, at, size)  PROVE Unasked
    BY <2>3 DEF Begin, TypeOK, Unasked
  <2>4. CASE UNCHANGED call  BY <2>4 DEF Unasked
  <2>5. QED
    BY <2>1, <2>2, <2>3, <2>4 DEF SetSetting, EditKey, SeekRecordedStream,
       CloseRecordedStream, OpenRecordedStream, ReadRecordedStream, QueryRecordedStream,
       TokenDies
<1>3. QED  BY <1>1, <1>2, UnaskedStale

LEMMA NextStale == TypeOK /\ Stales /\ [Next]_vars => Stales'
<1>1. SUFFICES ASSUME TypeOK, Stales, [Next]_vars PROVE Stales'  OBVIOUS
<1>2. CASE UNCHANGED vars \/ Finished
  BY <1>1, <1>2 DEF vars, client, history, Finished, Stales, Stale
<1>3. ASSUME NEW i \in Install, Kodi(i) PROVE Stales'
  BY <1>1, <1>3, InstanceStale, OthersStale DEF Kodi
<1>4. ASSUME NEW i \in Install, Step(i) PROVE Stales'
  BY <1>1, <1>4, InstanceStale, RequestsStale, GenerateStale, OthersStale DEF Step
<1>5. ASSUME NEW i \in Install, TokenDies(i) PROVE Stales'
  BY <1>1, <1>5, OthersStale
<1>6. QED  BY <1>1, <1>2, <1>3, <1>4, <1>5 DEF Next

\* A new key is made only when the one in use was refused, or there is none: a key that is
\* good is never taken from the other installations.
THEOREM OnlyStaleReplacedHolds == Spec => OnlyStaleReplaced
<1>1. Init => TypeOK /\ Stales
  <2>1. Init => Stales  BY DEF Init, Stales, Stale, NoCall
  <2>2. QED  BY <2>1, InitTyped
<1>2. TypeOK /\ Stales /\ [Next]_vars => (TypeOK /\ Stales)'
  BY NextTyped, NextStale
<1>3. Stales =>
        \A i \in Install :
           call[i].gen \in {"post", "again"} /\ serverKey' # serverKey /\ call'[i] # call[i]
             => key[i] = 0 \/ key[i] # serverKey
  BY DEF Stales, Stale
<1>4. QED  BY <1>1, <1>2, <1>3, PTL DEF Spec, OnlyStaleReplaced

-----------------------------------------------------------------------------
(* OwnWriteKept.  The setting and the snapshot differ only while the add-on *)
(* is about to save the key, or for one of the reasons.                     *)

Own(i) ==
    /\ up[i] \/ call[i].op = "start" =>
         setting[i] = applied[i] \/ reason[i] # {} \/ call[i].at = "save"
    /\ call[i].at = "save" => call[i].gen = "no" /\ (applied[i] = key[i] \/ reason[i] # {})
    /\ call[i].at = "start" => call[i].op = "start"
    /\ restart[i] => up[i] /\ reason[i] # {}

Owns == \A i \in Install : Own(i)

\* the call of i goes on, but not to save the key
Moves(i) ==
    /\ \A j \in Install \ {i} : call'[j] = call[j]
    /\ call'[i].at # "save"
    /\ call'[i].at = "start" => call'[i].op = "start"
    /\ call'[i].op = "start" => call[i].op = "start"

LEMMA MovesOwn ==
  ASSUME TypeOK, Owns, NEW i \in Install, Moves(i), call[i].at # "save",
         UNCHANGED <<up, setting, applied, restart, reason>>,
         \A j \in Install \ {i} : key'[j] = key[j]
  PROVE  Owns'
<1>1. ASSUME NEW j \in Install \ {i}  PROVE Own(j)'
  <2>1. Own(j)  BY <1>1 DEF Owns
  <2>2. QED  BY <1>1, <2>1 DEF Own, Moves
<1>2. Own(i)'
  <2>1. Own(i)  BY DEF Owns
  <2>2. QED  BY <2>1 DEF Own, Moves
<1>3. QED  BY <1>1, <1>2 DEF Owns

LEMMA EndMoves ==
  ASSUME TypeOK, NEW i \in Install, NEW how, End(i, how)
  PROVE  Moves(i)
BY DEF TypeOK, End, Moves, Goes, NoCall

LEMMA ProceedsMoves ==
  ASSUME TypeOK, NEW i \in Install, NEW at, NEW attempt, Proceeds(i, at, attempt),
         at \notin {"save", "start"}
  PROVE  Moves(i)
BY DEF TypeOK, Proceeds, Moves, Goes

LEMMA AgainMoves ==
  ASSUME TypeOK, NEW i \in Install, Again(i)
  PROVE  Moves(i)
BY ProceedsMoves DEF Again

LEMMA RefreshedMoves ==
  ASSUME TypeOK, NEW i \in Install, Refreshed(i)
  PROVE  Moves(i)
<1>1. CASE Again(i)  BY <1>1, AgainMoves
<1>2. CASE Proceeds(i, "segment", call[i].attempt)  BY <1>2, ProceedsMoves
<1>3. ASSUME NEW how, End(i, how)  PROVE Moves(i)  BY <1>3, EndMoves
<1>4. QED  BY <1>1, <1>2, <1>3 DEF Refreshed, Fail

LEMMA FailedMoves ==
  ASSUME TypeOK, NEW i \in Install, NEW how, Failed(i, how)
  PROVE  Moves(i)
BY EndMoves, AgainMoves DEF Failed, Fail

LEMMA HealsMoves ==
  ASSUME TypeOK, Owns, NEW i \in Install, NEW gen, call[i].at # "save",
         call' = [call EXCEPT ![i] = Heals(@, gen)]
  PROVE  Moves(i)
<1>1. call'[i].at = call[i].at /\ call'[i].op = call[i].op
  BY DEF TypeOK, Heals, Goes
<1>2. \A j \in Install \ {i} : call'[j] = call[j]  BY DEF TypeOK
<1>3. Own(i)  BY DEF Owns
<1>4. QED  BY <1>1, <1>2, <1>3 DEF Own, Moves

LEMMA RequestsOwn ==
  ASSUME TypeOK, Owns, NEW i \in Install,
         OpenFile(i) \/ Playlist(i) \/ Probe(i) \/ Segment(i) \/ ReadRange(i)
  PROVE  Owns'
<1>1. Kept /\ call[i].at # "save"
  BY DEF OpenFile, Playlist, Probe, Segment, ReadRange, At
<1>2. Moves(i)
  <2>1. CASE Heal(i)  BY <1>1, <2>1, HealsMoves DEF Heal
  <2>2. CASE Refreshed(i)  BY <2>2, RefreshedMoves
  <2>3. ASSUME NEW how, End(i, how)  PROVE Moves(i)  BY <2>3, EndMoves
  <2>4. CASE Refused(i)  BY <2>1, <2>4, FailedMoves DEF Refused
  <2>5. CASE OpenFile(i)  BY <2>3, <2>4, <2>5 DEF OpenFile, Fail
  <2>6. CASE Playlist(i)
    BY <2>4, <2>6, ProceedsMoves, FailedMoves DEF Playlist
  <2>7. CASE Probe(i)  BY <2>1, <2>2, <2>7 DEF Probe
  <2>8. CASE Segment(i)  BY <2>3, <2>4, <2>8 DEF Segment, Fail
  <2>9. CASE ReadRange(i)  BY <2>3, <2>4, <2>9 DEF ReadRange, Fail
  <2>10. QED  BY <2>5, <2>6, <2>7, <2>8, <2>9
<1>3. QED  BY <1>1, <1>2, MovesOwn DEF Kept

\* the constructor that made a key has saved it, which is a reason
LEMMA ConstructedOwn ==
  ASSUME TypeOK, Owns, NEW i \in Install, call[i].at = "start", Constructed(i),
         UNCHANGED <<applied, restart>>,
         \A j \in Install \ {i} :
            key'[j] = key[j] /\ setting'[j] = setting[j] /\ reason'[j] = reason[j],
         reason'[i] # {} \/ UNCHANGED <<setting, reason>>,
         reason[i] \subseteq reason'[i]
  PROVE  Owns'
<1>1. ASSUME NEW j \in Install \ {i}  PROVE Own(j)'
  <2>1. Own(j)  BY <1>1 DEF Owns
  <2>2. call'[j] = call[j] /\ up'[j] = up[j]  BY <1>1 DEF Constructed, TypeOK
  <2>3. QED  BY <1>1, <2>1, <2>2 DEF Own
<1>2. Own(i)'
  <2>1. Own(i)  BY DEF Owns
  <2>2. up'[i] = TRUE /\ call'[i] = NoCall  BY DEF Constructed, TypeOK
  <2>3. NoCall.at = "none"  BY DEF NoCall
  <2>4. reason[i] # {} => reason'[i] # {}  OBVIOUS
  <2>5. setting'[i] = applied'[i] \/ reason'[i] # {}
    BY <2>1, <2>4 DEF Own
  <2>6. restart'[i] => reason'[i] # {}  BY <2>1, <2>4 DEF Own
  <2>7. QED  BY <2>2, <2>3, <2>5, <2>6 DEF Own
<1>3. QED  BY <1>1, <1>2 DEF Owns

LEMMA GeneratedOwn ==
  ASSUME TypeOK, Owns, NEW i \in Install, NEW made \in BOOLEAN, Generated(i, made),
         call[i].gen # "no", UNCHANGED <<applied, restart>>,
         \A j \in Install \ {i} : key'[j] = key[j]
  PROVE  Owns'
<1>1. call[i].at # "save"  BY DEF Owns, Own
<1>2. CASE call[i].at = "start"
  <2>1. CASE made
    <3>1. /\ setting' = [setting EXCEPT ![i] = key'[i]]
          /\ reason' = [reason EXCEPT ![i] = @ \union {"constructor"}]
      BY <1>2, <2>1 DEF Generated
    <3>2. \A j \in Install \ {i} : setting'[j] = setting[j] /\ reason'[j] = reason[j]
      BY <3>1 DEF TypeOK
    <3>3. reason'[i] = reason[i] \union {"constructor"}  BY <3>1 DEF TypeOK
    <3>4. QED  BY <1>2, <3>2, <3>3, ConstructedOwn DEF Generated
  <2>2. CASE ~made
    BY <1>2, <2>2, ConstructedOwn DEF Generated
  <2>3. QED  BY <2>1, <2>2
<1>3. CASE call[i].at = "probe"
  BY <1>1, <1>3, RefreshedMoves, MovesOwn DEF Generated
<1>4. CASE call[i].at \notin {"start", "probe"}
  <2>1. UNCHANGED <<up, setting, reason>>  BY <1>4 DEF Generated
  <2>2. CASE Proceeds(i, call[i].at, 1)
    BY <1>1, <1>4, <2>1, <2>2, ProceedsMoves, MovesOwn
  <2>3. CASE Failed(i, "refused")
    BY <1>1, <2>1, <2>3, FailedMoves, MovesOwn
  <2>4. QED  BY <1>4, <2>2, <2>3 DEF Generated
<1>5. QED  BY <1>2, <1>3, <1>4

LEMMA GenerateOwn ==
  ASSUME TypeOK, Owns, NEW i \in Install, GenerateApiKey(i)
  PROVE  Owns'
<1>1. call[i].gen # "no" /\ UNCHANGED <<applied, restart>>
  BY DEF GenerateApiKey, Ensure, Post, PostRefused, Reauth
<1>2. call[i].at # "save"  BY <1>1 DEF Owns, Own
<1>3. \A j \in Install \ {i} : key'[j] = key[j]
  BY DEF GenerateApiKey, Ensure, Post, PostRefused, Reauth, TypeOK
<1>4. CASE \E made \in BOOLEAN : Generated(i, made)
  BY <1>1, <1>3, <1>4, GeneratedOwn
<1>5. ASSUME NEW gen, call' = [call EXCEPT ![i] = Heals(@, gen)],
             UNCHANGED <<up, setting, reason>>
      PROVE  Owns'
  BY <1>1, <1>2, <1>3, <1>5, HealsMoves, MovesOwn
<1>6. QED  BY <1>4, <1>5 DEF GenerateApiKey, Ensure, Post, PostRefused, Reauth

LEMMA BeginOwn ==
  ASSUME TypeOK, Owns, NEW i \in Install, NEW op \in {"open", "read", "query"},
         NEW at \in {"file", "playlist", "segment", "range"}, NEW size,
         Begin(i, op, at, size)
  PROVE  Owns'
<1>1. call[i].at # "save"  BY DEF Begin, NoCall
<1>2. Moves(i)  BY DEF Begin, Moves, TypeOK
<1>3. QED  BY <1>1, <1>2, MovesOwn DEF Begin

LEMMA KodiOwn ==
  ASSUME TypeOK, Owns, NEW i \in Install, Kodi(i)
  PROVE  Owns'
<1>1. ASSUME NEW j \in Install  PROVE Own(j)  BY <1>1 DEF Owns
<1>2. CASE CreateInstance(i)
  <2>1. call'[i].at = "start" /\ call'[i].op = "start" /\ applied'[i] = setting'[i]
        /\ ~up[i] /\ ~restart'[i]
    BY <1>1, <1>2 DEF CreateInstance, StartCall, TypeOK, Own
  <2>2. \A j \in Install \ {i} : call'[j] = call[j] /\ applied'[j] = applied[j]
          /\ key'[j] = key[j] /\ reason'[j] = reason[j]
    BY <1>2 DEF CreateInstance, TypeOK
  <2>3. UNCHANGED <<up, setting, restart>>  BY <1>2 DEF CreateInstance
  <2>4. Own(i)'  BY <2>1 DEF Own
  <2>5. ASSUME NEW j \in Install \ {i}  PROVE Own(j)'
    BY <1>1, <2>2, <2>3, <2>5 DEF Own
  <2>6. QED  BY <2>4, <2>5 DEF Owns
<1>3. CASE DestroyInstance(i)
  <2>1. call'[i] = NoCall /\ ~up'[i] /\ ~restart'[i]
    BY <1>3 DEF DestroyInstance, TypeOK
  <2>2. \A j \in Install \ {i} : call'[j] = call[j] /\ applied'[j] = applied[j]
          /\ key'[j] = key[j] /\ up'[j] = up[j] /\ restart'[j] = restart[j]
    BY <1>3 DEF DestroyInstance, TypeOK
  <2>3. UNCHANGED <<setting, reason>>  BY <1>3 DEF DestroyInstance
  <2>4. Own(i)'  BY <2>1 DEF Own, NoCall
  <2>5. ASSUME NEW j \in Install \ {i}  PROVE Own(j)'
    BY <1>1, <2>2, <2>3, <2>5 DEF Own
  <2>6. QED  BY <2>4, <2>5 DEF Owns
<1>4. CASE SetSetting(i)
  <2>1. \A j \in Install \ {i} : applied'[j] = applied[j] /\ restart'[j] = restart[j]
          /\ reason'[j] = reason[j]
    BY <1>4 DEF SetSetting, TypeOK
  <2>2. UNCHANGED <<up, setting, key, call>>  BY <1>4 DEF SetSetting
  <2>3. applied'[i] = setting[i] /\ up[i] /\ setting[i] # applied[i]
    BY <1>4 DEF SetSetting, TypeOK
  <2>4. reason'[i] # {}
    <3>1. CASE At(i, "save")
      BY <1>4, <3>1 DEF SetSetting, TypeOK
    <3>2. CASE ~At(i, "save")
      <4>1. reason' = reason  BY <1>4, <3>2 DEF SetSetting
      <4>2. reason[i] # {}  BY <1>1, <2>3, <3>2 DEF Own, At
      <4>3. QED  BY <4>1, <4>2
    <3>3. QED  BY <3>1, <3>2
  <2>5. Own(i)'  BY <1>1, <2>2, <2>3, <2>4 DEF Own
  <2>6. ASSUME NEW j \in Install \ {i}  PROVE Own(j)'
    BY <1>1, <2>1, <2>2, <2>6 DEF Own
  <2>7. QED  BY <2>5, <2>6 DEF Owns
<1>5. CASE EditKey(i)
  <2>1. \A j \in Install \ {i} : setting'[j] = setting[j] /\ reason'[j] = reason[j]
    BY <1>5 DEF EditKey, TypeOK
  <2>2. reason'[i] # {}  BY <1>5 DEF EditKey, TypeOK
  <2>3. UNCHANGED <<up, applied, key, call, restart>>  BY <1>5 DEF EditKey
  <2>4. Own(i)'  BY <1>1, <2>2, <2>3 DEF Own
  <2>5. ASSUME NEW j \in Install \ {i}  PROVE Own(j)'
    BY <1>1, <2>1, <2>3, <2>5 DEF Own
  <2>6. QED  BY <2>4, <2>5 DEF Owns
<1>6. CASE OpenRecordedStream(i)  BY <1>6, BeginOwn DEF OpenRecordedStream
<1>7. CASE ReadRecordedStream(i)  BY <1>7, BeginOwn DEF ReadRecordedStream
<1>8. CASE SeekRecordedStream(i) \/ CloseRecordedStream(i)
  BY <1>1, <1>8 DEF SeekRecordedStream, CloseRecordedStream, history, Owns, Own
<1>9. CASE QueryRecordedStream(i)  BY <1>9, BeginOwn DEF QueryRecordedStream
<1>10. QED  BY <1>2, <1>3, <1>4, <1>5, <1>6, <1>7, <1>8, <1>9 DEF Kodi

LEMMA ConstructOwn ==
  ASSUME TypeOK, Owns, NEW i \in Install, Construct(i)
  PROVE  Owns'
<1>1. call[i].at = "start"  BY DEF Construct, At
<1>2. CASE Constructed(i)
  BY <1>1, <1>2, ConstructedOwn DEF Construct
<1>3. CASE Heal(i) /\ UNCHANGED up
  BY <1>1, <1>3, HealsMoves, MovesOwn DEF Construct, Heal
<1>4. QED  BY <1>2, <1>3 DEF Construct

LEMMA PersistOwn ==
  ASSUME TypeOK, Owns, NEW i \in Install, PersistApiKey(i) \/ SetSettingString(i)
  PROVE  Owns'
<1>1. ASSUME NEW j \in Install  PROVE Own(j)  BY <1>1 DEF Owns
<1>2. CASE PersistApiKey(i) /\ key[i] = call[i].before
  <2>1. call' = [call EXCEPT ![i] = NoCall]  BY <1>2 DEF PersistApiKey
  <2>2. Moves(i)  BY <2>1 DEF Moves, NoCall, TypeOK
  <2>3. UNCHANGED <<up, setting, applied, restart, reason, key>> /\ call[i].at # "save"
    BY <1>2 DEF PersistApiKey, At, history
  <2>4. QED  BY <2>2, <2>3, MovesOwn
<1>3. CASE PersistApiKey(i) /\ key[i] # call[i].before
  <2>1. /\ call' = [call EXCEPT ![i] = Goes(@, "save", @.attempt, "no")]
        /\ applied' = [applied EXCEPT ![i] = key[i]]
        /\ UNCHANGED <<up, setting, key, restart, reason>>
    BY <1>3 DEF PersistApiKey, Snapshot, history
  <2>2. \A j \in Install \ {i} : call'[j] = call[j] /\ applied'[j] = applied[j]
    BY <2>1 DEF TypeOK
  <2>3. call'[i].at = "save" /\ call'[i].gen = "no" /\ applied'[i] = key[i]
    BY <2>1 DEF TypeOK, Goes
  <2>4. Own(i)'  BY <1>1, <2>1, <2>3 DEF Own
  <2>5. ASSUME NEW j \in Install \ {i}  PROVE Own(j)'
    BY <1>1, <2>1, <2>2, <2>5 DEF Own
  <2>6. QED  BY <2>4, <2>5 DEF Owns
<1>4. CASE SetSettingString(i)
  <2>1. /\ setting' = [setting EXCEPT ![i] = key[i]]
        /\ call' = [call EXCEPT ![i] = NoCall]
        /\ UNCHANGED <<up, applied, key, restart, reason>>
    BY <1>4 DEF SetSettingString
  <2>2. \A j \in Install \ {i} : call'[j] = call[j] /\ setting'[j] = setting[j]
    BY <2>1 DEF TypeOK
  <2>3. call'[i].at = "none" /\ call'[i].op = "none" /\ setting'[i] = key[i]
    BY <2>1 DEF TypeOK, NoCall
  <2>4. applied[i] = key[i] \/ reason[i] # {}
    BY <1>1, <1>4 DEF SetSettingString, At, Own
  <2>5. Own(i)'  BY <1>1, <2>1, <2>3, <2>4 DEF Own
  <2>6. ASSUME NEW j \in Install \ {i}  PROVE Own(j)'
    BY <1>1, <2>1, <2>2, <2>6 DEF Own
  <2>7. QED  BY <2>5, <2>6 DEF Owns
<1>5. QED  BY <1>2, <1>3, <1>4

LEMMA NextOwn == TypeOK /\ Owns /\ [Next]_vars => Owns'
<1>1. SUFFICES ASSUME TypeOK, Owns, [Next]_vars PROVE Owns'  OBVIOUS
<1>2. CASE UNCHANGED vars \/ Finished
  BY <1>1, <1>2 DEF vars, client, history, Finished, Owns, Own
<1>3. ASSUME NEW i \in Install, Kodi(i) PROVE Owns'
  BY <1>1, <1>3, KodiOwn
<1>4. ASSUME NEW i \in Install, Step(i) PROVE Owns'
  BY <1>1, <1>4, ConstructOwn, RequestsOwn, GenerateOwn, PersistOwn DEF Step
<1>5. ASSUME NEW i \in Install, TokenDies(i) PROVE Owns'
  BY <1>1, <1>5 DEF TokenDies, Owns, Own
<1>6. QED  BY <1>1, <1>2, <1>3, <1>4, <1>5 DEF Next

\* Kodi is asked to restart an installation only for a key the user has edited, the
\* constructor has made, or a notice between the snapshot and the setting.
THEOREM OwnWriteKeptHolds == Spec => []OwnWriteKept
<1>1. Init => TypeOK /\ Owns
  <2>1. ASSUME Init, NEW i \in Install  PROVE Own(i)
    <3>1. call[i].at = "none" /\ call[i].op = "none"  BY <2>1 DEF Init, NoCall
    <3>2. ~up[i] /\ ~restart[i]  BY <2>1, Zenon DEF Init
    <3>3. QED  BY <3>1, <3>2 DEF Own
  <2>2. QED  BY <2>1, InitTyped DEF Owns
<1>2. TypeOK /\ Owns /\ [Next]_vars => (TypeOK /\ Owns)'
  BY NextTyped, NextOwn
<1>3. Owns => OwnWriteKept  BY DEF Owns, Own, OwnWriteKept
<1>4. QED  BY <1>1, <1>2, <1>3, PTL DEF Spec

-----------------------------------------------------------------------------
(* SavedUnlessDropped.  The settings hold the key a call began with until   *)
(* the call saves another, or drops it.                                     *)

Clean(i, k) == setting[i] = k \/ unsaved[i] \/ "edited" \in reason[i]

Settled(i) ==
    /\ up[i] /\ call[i].op = "none" => Clean(i, key[i])
    /\ call[i].op = "start" => Clean(i, key[i]) /\ call[i].at = "start"
    /\ call[i].op \in {"open", "read", "query"} =>
         Clean(i, call[i].before) /\ call[i].at # "start"
    /\ call[i].op = "none" => call[i].at = "none" /\ call[i].gen = "no"
    /\ call[i].op = "read" => stream[i].kind \in {"file", "growing"}
    /\ call[i].op = "query" => stream[i].kind = "growing"

Settleds == \A i \in Install : Settled(i)

\* what another installation keeps
Alone(i) ==
    \A j \in Install \ {i} :
        /\ up'[j] = up[j] /\ setting'[j] = setting[j] /\ key'[j] = key[j]
        /\ stream'[j] = stream[j] /\ call'[j] = call[j]
        /\ unsaved'[j] = unsaved[j] /\ reason'[j] = reason[j]

LEMMA AloneSettled ==
  ASSUME Settleds, NEW i \in Install, Alone(i), Settled(i)'
  PROVE  Settleds'
<1>1. ASSUME NEW j \in Install \ {i}  PROVE Settled(j)'
  <2>1. Settled(j)  BY <1>1 DEF Settleds
  <2>2. QED  BY <1>1, <2>1 DEF Alone, Settled, Clean
<1>2. QED  BY <1>1 DEF Settleds

\* a call that ends keeps what it began with, and a key it made is saved or dropped
LEMMA EndSettled ==
  ASSUME TypeOK, Settleds, NEW i \in Install, NEW how, End(i, how),
         call[i].op \in {"open", "read", "query"},
         UNCHANGED <<up, setting, reason>>,
         \A j \in Install \ {i} : key'[j] = key[j] /\ stream'[j] = stream[j],
         stream' = stream \/ stream'[i].kind \in {"file", "growing"}
  PROVE  Settleds'
<1>1. Settled(i)  BY DEF Settleds
<1>2. unsaved'[i] = (unsaved[i] \/ (Drops(i, how) /\ key'[i] # call[i].before))
  BY Zenon DEF TypeOK, End
<1>3. Settled(i)'
  <2>1. CASE Saves(i, how)
    <3>1. /\ call'[i].op = call[i].op /\ call'[i].before = call[i].before
          /\ call'[i].at = "changed"
      BY <2>1 DEF TypeOK, End, Goes
    <3>2. QED  BY <1>1, <1>2, <2>1, <3>1 DEF Saves, Settled, Clean
  <2>2. CASE ~Saves(i, how)
    <3>1. call'[i] = NoCall  BY <2>2 DEF TypeOK, End
    <3>2. Drops(i, how)  BY <1>1, <2>2 DEF Saves, Drops, Settled
    <3>3. Clean(i, key[i])'  BY <1>1, <1>2, <3>2 DEF Settled, Clean
    <3>4. QED  BY <3>1, <3>3 DEF Settled, NoCall
  <2>3. QED  BY <2>1, <2>2
<1>4. Alone(i)
  BY DEF Alone, End, TypeOK
<1>5. QED  BY <1>3, <1>4, AloneSettled

\* the call of i goes on
Resumes(i) ==
    /\ \A j \in Install \ {i} : call'[j] = call[j]
    /\ call'[i].op = call[i].op /\ call'[i].before = call[i].before
    /\ call'[i].at # "start" \/ call'[i].at = call[i].at
    /\ call[i].op = "start" => call'[i].at = call[i].at

LEMMA ResumesSettled ==
  ASSUME TypeOK, Settleds, NEW i \in Install, Resumes(i), call[i].op # "none",
         UNCHANGED <<up, setting, reason, stream, unsaved>>,
         call[i].op = "start" => key'[i] = key[i],
         \A j \in Install \ {i} : key'[j] = key[j]
  PROVE  Settleds'
<1>1. Settled(i)  BY DEF Settleds
<1>2. Settled(i)'  BY <1>1 DEF Resumes, Settled, Clean
<1>3. Alone(i)  BY DEF Alone, Resumes
<1>4. QED  BY <1>2, <1>3, AloneSettled

LEMMA HealsResumes ==
  ASSUME TypeOK, NEW i \in Install, NEW gen, call' = [call EXCEPT ![i] = Heals(@, gen)]
  PROVE  Resumes(i)
BY DEF TypeOK, Resumes, Heals, Goes

LEMMA GoesResumes ==
  ASSUME TypeOK, NEW i \in Install, NEW at, NEW attempt,
         call' = [call EXCEPT ![i] = Goes(@, at, attempt, "no")],
         at # "start", call[i].op # "start"
  PROVE  Resumes(i)
BY DEF TypeOK, Resumes, Goes

\* a call that is somewhere is a call of Kodi's or the constructor
LEMMA Placed ==
  ASSUME TypeOK, Settleds, NEW i \in Install
  PROVE  /\ call[i].at \notin {"none", "start"} => call[i].op \in {"open", "read", "query"}
         /\ call[i].at = "start" => call[i].op = "start"
         /\ call[i].gen # "no" => call[i].op # "none"
<1>1. Settled(i) /\ call[i].op \in {"none", "start", "open", "read", "query"}
  BY DEF Settleds, TypeOK, Calls
<1>2. QED  BY <1>1 DEF Settled

LEMMA ProceedsSettled ==
  ASSUME TypeOK, Settleds, NEW i \in Install, NEW at, NEW attempt,
         Proceeds(i, at, attempt), at # "start",
         call[i].op \in {"open", "read", "query"},
         UNCHANGED <<up, setting, reason>>,
         \A j \in Install \ {i} : key'[j] = key[j]
  PROVE  Settleds'
<1>1. Resumes(i)  BY GoesResumes DEF Proceeds
<1>2. QED  BY <1>1, ResumesSettled DEF Proceeds

LEMMA FailedSettled ==
  ASSUME TypeOK, Settleds, NEW i \in Install, NEW how, Failed(i, how),
         call[i].op \in {"open", "read", "query"},
         UNCHANGED <<up, setting, reason>>,
         \A j \in Install \ {i} : key'[j] = key[j]
  PROVE  Settleds'
<1>1. CASE Fail(i, how)
  BY <1>1, EndSettled DEF Fail
<1>2. CASE Again(i)
  BY <1>2, ProceedsSettled DEF Again
<1>3. QED  BY <1>1, <1>2 DEF Failed

LEMMA RefreshedSettled ==
  ASSUME TypeOK, Settleds, NEW i \in Install, Refreshed(i),
         call[i].op \in {"open", "read", "query"},
         UNCHANGED <<up, setting, reason>>,
         \A j \in Install \ {i} : key'[j] = key[j]
  PROVE  Settleds'
<1>1. ASSUME NEW at, NEW attempt, at # "start", Proceeds(i, at, attempt)
      PROVE  Settleds'
  BY <1>1, ProceedsSettled
<1>2. ASSUME NEW how, Fail(i, how)  PROVE Settleds'
  BY <1>2, EndSettled DEF Fail
<1>3. CASE stream' = [stream EXCEPT ![i] = Stream("growing", 0)] /\ End(i, "ok")
  <2>1. /\ stream'[i].kind = "growing"
        /\ \A j \in Install \ {i} : stream'[j] = stream[j]
    BY <1>3 DEF TypeOK, Stream
  <2>2. QED  BY <1>3, <2>1, EndSettled
<1>4. QED  BY <1>1, <1>2, <1>3 DEF Refreshed, Again

LEMMA RequestsSettled ==
  ASSUME TypeOK, Settleds, NEW i \in Install,
         OpenFile(i) \/ Playlist(i) \/ Probe(i) \/ Segment(i) \/ ReadRange(i)
  PROVE  Settleds'
<1>1. UNCHANGED <<up, setting, reason, key>>
  BY DEF OpenFile, Playlist, Probe, Segment, ReadRange, Kept
<1>2. call[i].op \in {"open", "read", "query"}
  BY Placed DEF OpenFile, Playlist, Probe, Segment, ReadRange, At
<1>3. CASE Heal(i) \/ Refused(i)
  <2>1. CASE Heal(i)
    BY <1>1, <1>2, <2>1, HealsResumes, ResumesSettled DEF Heal
  <2>2. CASE Failed(i, "refused")
    BY <1>1, <1>2, <2>2, FailedSettled
  <2>3. QED  BY <1>3, <2>1, <2>2 DEF Refused
<1>4. ASSUME NEW how, Fail(i, how)  PROVE Settleds'
  BY <1>1, <1>2, <1>4, EndSettled DEF Fail
<1>5. CASE OpenFile(i)
  <2>1. CASE End(i, "ok") /\ stream' = [stream EXCEPT ![i] = Stream("file", 0)]
    <3>1. stream'[i].kind = "file" /\ \A j \in Install \ {i} : stream'[j] = stream[j]
      BY <2>1 DEF TypeOK, Stream
    <3>2. QED  BY <1>1, <1>2, <2>1, <3>1, EndSettled
  <2>2. QED  BY <1>3, <1>4, <1>5, <2>1 DEF OpenFile
<1>6. CASE Playlist(i)
  <2>1. CASE Proceeds(i, "probe", 0) \/ Failed(i, "failed")
    BY <1>1, <1>2, <2>1, ProceedsSettled, FailedSettled
  <2>2. QED  BY <1>3, <1>6, <2>1 DEF Playlist
<1>7. CASE Probe(i)
  BY <1>1, <1>2, <1>3, <1>7, RefreshedSettled DEF Probe
<1>8. CASE Segment(i)  BY <1>3, <1>4, <1>8 DEF Segment
<1>9. CASE ReadRange(i)
  <2>1. CASE /\ End(i, "ok")
             /\ stream' = [stream EXCEPT ![i] = Stream("file", @.position + Written(i))]
    <3>1. stream'[i].kind = "file" /\ \A j \in Install \ {i} : stream'[j] = stream[j]
      BY <2>1 DEF TypeOK, Stream
    <3>2. QED  BY <1>1, <1>2, <2>1, <3>1, EndSettled
  <2>2. QED  BY <1>3, <1>4, <1>9, <2>1 DEF ReadRange
<1>10. QED  BY <1>5, <1>6, <1>7, <1>8, <1>9

\* the constructor is done with the key of the settings, or with one that it has saved
LEMMA ConstructedSettled ==
  ASSUME TypeOK, Settleds, NEW i \in Install, Constructed(i),
         \A j \in Install \ {i} :
            key'[j] = key[j] /\ setting'[j] = setting[j] /\ reason'[j] = reason[j],
         setting'[i] = key'[i] \/ (call[i].op = "start" /\ UNCHANGED <<setting, key, reason>>)
  PROVE  Settleds'
<1>1. Settled(i)  BY DEF Settleds
<1>2. call'[i] = NoCall /\ unsaved' = unsaved  BY DEF Constructed, TypeOK
<1>3. Settled(i)'
  <2>1. Clean(i, key[i])'  BY <1>1, <1>2 DEF Settled, Clean
  <2>2. QED  BY <1>2, <2>1 DEF Settled, NoCall
<1>4. Alone(i)  BY DEF Alone, Constructed, TypeOK
<1>5. QED  BY <1>3, <1>4, AloneSettled

LEMMA GeneratedSettled ==
  ASSUME TypeOK, Settleds, NEW i \in Install, NEW made \in BOOLEAN, Generated(i, made),
         call[i].gen # "no",
         ~made => key'[i] = key[i],
         \A j \in Install \ {i} : key'[j] = key[j]
  PROVE  Settleds'
<1>1. CASE call[i].at = "start"
  <2>1. call[i].op = "start"  BY <1>1, Placed
  <2>2. CASE made
    <3>1. /\ setting' = [setting EXCEPT ![i] = key'[i]]
          /\ reason' = [reason EXCEPT ![i] = @ \union {"constructor"}]
      BY <1>1, <2>2 DEF Generated
    <3>2. \A j \in Install \ {i} : setting'[j] = setting[j] /\ reason'[j] = reason[j]
      BY <3>1 DEF TypeOK
    <3>3. setting'[i] = key'[i]  BY <3>1 DEF TypeOK
    <3>4. QED  BY <1>1, <3>2, <3>3, ConstructedSettled DEF Generated
  <2>3. CASE ~made
    <3>1. UNCHANGED <<setting, reason>> /\ Constructed(i)  BY <1>1, <2>3 DEF Generated
    <3>2. Settled(i)  BY DEF Settleds
    <3>3. call'[i] = NoCall /\ unsaved' = unsaved  BY <3>1 DEF Constructed, TypeOK
    <3>4. Clean(i, key[i])'  BY <2>1, <2>3, <3>1, <3>2, <3>3 DEF Settled, Clean
    <3>5. Settled(i)'  BY <3>3, <3>4 DEF Settled, NoCall
    <3>6. Alone(i)  BY <3>1 DEF Alone, Constructed, TypeOK
    <3>7. QED  BY <3>5, <3>6, AloneSettled
  <2>4. QED  BY <2>2, <2>3
<1>2. CASE call[i].at # "start"
  <2>1. call[i].op \in {"open", "read", "query"}
    <3>1. Settled(i) /\ call[i].op \in {"none", "start", "open", "read", "query"}
      BY DEF Settleds, TypeOK, Calls
    <3>2. QED  BY <1>2, <3>1 DEF Settled
  <2>2. UNCHANGED <<up, setting, reason>>  BY <1>2 DEF Generated
  <2>3. CASE Refreshed(i)  BY <2>1, <2>2, <2>3, RefreshedSettled
  <2>4. CASE Proceeds(i, call[i].at, 1)
    BY <1>2, <2>1, <2>2, <2>4, ProceedsSettled
  <2>5. CASE Failed(i, "refused")
    BY <2>1, <2>2, <2>5, FailedSettled
  <2>6. QED  BY <1>2, <2>3, <2>4, <2>5 DEF Generated
<1>3. QED  BY <1>1, <1>2

LEMMA GenerateSettled ==
  ASSUME TypeOK, Settleds, NEW i \in Install, GenerateApiKey(i)
  PROVE  Settleds'
<1>1. call[i].gen # "no"
  BY DEF GenerateApiKey, Ensure, Post, PostRefused, Reauth
<1>2. call[i].op # "none"  BY <1>1, Placed
<1>3. \A j \in Install \ {i} : key'[j] = key[j]
  BY DEF GenerateApiKey, Ensure, Post, PostRefused, Reauth, TypeOK
<1>4. ASSUME Generated(i, TRUE)  PROVE Settleds'
  BY <1>1, <1>3, <1>4, GeneratedSettled
<1>5. ASSUME Generated(i, FALSE), UNCHANGED key  PROVE Settleds'
  BY <1>1, <1>3, <1>5, GeneratedSettled
<1>6. ASSUME NEW gen, call' = [call EXCEPT ![i] = Heals(@, gen)],
             UNCHANGED <<key, up, setting, stream, reason, unsaved>>
      PROVE  Settleds'
  BY <1>2, <1>6, HealsResumes, ResumesSettled
<1>7. QED  BY <1>4, <1>5, <1>6 DEF GenerateApiKey, Ensure, Post, PostRefused, Reauth

LEMMA InstanceSettled ==
  ASSUME TypeOK, Settleds, NEW i \in Install,
         CreateInstance(i) \/ DestroyInstance(i) \/ Construct(i)
  PROVE  Settleds'
<1>1. CASE CreateInstance(i)
  <2>1. Alone(i)  BY <1>1 DEF Alone, CreateInstance, TypeOK
  <2>2. call'[i].op = "start" /\ call'[i].at = "start" /\ key'[i] = setting'[i]
    BY <1>1 DEF CreateInstance, StartCall, TypeOK
  <2>3. Settled(i)'  BY <2>2 DEF Settled, Clean
  <2>4. QED  BY <2>1, <2>3, AloneSettled
<1>2. CASE DestroyInstance(i)
  <2>1. Alone(i)  BY <1>2 DEF Alone, DestroyInstance, TypeOK
  <2>2. call'[i] = NoCall /\ ~up'[i]
    BY <1>2 DEF DestroyInstance, TypeOK
  <2>3. Settled(i)'  BY <2>2 DEF Settled, NoCall
  <2>4. QED  BY <2>1, <2>3, AloneSettled
<1>3. CASE Construct(i)
  <2>1. call[i].op = "start"  BY <1>3, Placed DEF Construct, At
  <2>2. UNCHANGED <<setting, key, reason>>  BY <1>3 DEF Construct
  <2>3. CASE Constructed(i)  BY <2>1, <2>2, <2>3, ConstructedSettled
  <2>4. CASE Heal(i) /\ UNCHANGED up
    BY <2>1, <2>2, <2>4, HealsResumes, ResumesSettled DEF Heal
  <2>5. QED  BY <1>3, <2>3, <2>4 DEF Construct
<1>4. QED  BY <1>1, <1>2, <1>3

LEMMA BeginSettled ==
  ASSUME TypeOK, Settleds, NEW i \in Install, NEW op \in {"open", "read", "query"},
         NEW at \in {"file", "playlist", "segment", "range"}, NEW size,
         Begin(i, op, at, size), UNCHANGED stream,
         op = "read" => stream[i].kind \in {"file", "growing"},
         op = "query" => stream[i].kind = "growing"
  PROVE  Settleds'
<1>1. Settled(i)  BY DEF Settleds
<1>2. Alone(i)  BY DEF Begin, Alone, TypeOK
<1>3. /\ call'[i].op = op /\ call'[i].at = at /\ call'[i].before = key[i]
      /\ UNCHANGED <<setting, unsaved, reason>> /\ up[i] /\ call[i].op = "none"
  BY DEF Begin, TypeOK, NoCall
<1>4. Settled(i)'  BY <1>1, <1>3 DEF Settled, Clean
<1>5. QED  BY <1>2, <1>4, AloneSettled

LEMMA OthersSettled ==
  ASSUME TypeOK, Settleds, NEW i \in Install,
         \/ SetSetting(i) \/ EditKey(i) \/ SeekRecordedStream(i) \/ CloseRecordedStream(i)
         \/ TokenDies(i)
  PROVE  Settleds'
<1>1. Settled(i)  BY DEF Settleds
<1>2. UNCHANGED <<up, key, call, unsaved>>
  BY DEF SetSetting, EditKey, SeekRecordedStream, CloseRecordedStream, TokenDies, history
<1>3. Alone(i)
  BY DEF Alone, SetSetting, EditKey, SeekRecordedStream, CloseRecordedStream, TokenDies,
         history, TypeOK
<1>4. CASE SetSetting(i)
  <2>1. setting' = setting /\ stream' = stream /\ reason[i] \subseteq reason'[i]
    BY <1>4 DEF SetSetting, TypeOK
  <2>2. Settled(i)'  BY <1>1, <1>2, <2>1 DEF Settled, Clean
  <2>3. QED  BY <1>3, <2>2, AloneSettled
<1>5. CASE EditKey(i)
  <2>1. stream' = stream /\ "edited" \in reason'[i]
    BY <1>5 DEF EditKey, TypeOK
  <2>2. Settled(i)'  BY <1>1, <1>2, <2>1 DEF Settled, Clean
  <2>3. QED  BY <1>3, <2>2, AloneSettled
<1>6. CASE SeekRecordedStream(i) \/ CloseRecordedStream(i)
  <2>1. UNCHANGED <<setting, reason>> /\ call[i].op = "none"
    BY <1>6 DEF SeekRecordedStream, CloseRecordedStream, history, NoCall
  <2>2. Settled(i)'  BY <1>1, <1>2, <2>1 DEF Settled, Clean
  <2>3. QED  BY <1>3, <2>2, AloneSettled
<1>7. CASE TokenDies(i)
  <2>1. UNCHANGED <<setting, reason, stream>>  BY <1>7 DEF TokenDies
  <2>2. Settled(i)'  BY <1>1, <1>2, <2>1 DEF Settled, Clean
  <2>3. QED  BY <1>3, <2>2, AloneSettled
<1>8. QED  BY <1>4, <1>5, <1>6, <1>7

LEMMA PersistSettled ==
  ASSUME TypeOK, Settleds, NEW i \in Install, PersistApiKey(i) \/ SetSettingString(i)
  PROVE  Settleds'
<1>1. Settled(i)  BY DEF Settleds
<1>2. call[i].op \in {"open", "read", "query"}
  BY Placed DEF PersistApiKey, SetSettingString, At
<1>3. CASE PersistApiKey(i)
  <2>1. UNCHANGED <<up, setting, key, stream, reason, unsaved>>
    BY <1>3 DEF PersistApiKey, history
  <2>2. CASE key[i] = call[i].before
    <3>1. call'[i] = NoCall  BY <1>3, <2>2 DEF PersistApiKey, TypeOK
    <3>2. Settled(i)'  BY <1>1, <1>2, <2>1, <2>2, <3>1 DEF Settled, Clean, NoCall
    <3>3. Alone(i)  BY <1>3, <2>1, <2>2 DEF Alone, PersistApiKey, TypeOK
    <3>4. QED  BY <3>2, <3>3, AloneSettled
  <2>3. CASE key[i] # call[i].before
    <3>1. Resumes(i)  BY <1>2, <1>3, <2>3, GoesResumes DEF PersistApiKey
    <3>2. QED  BY <1>2, <2>1, <3>1, ResumesSettled
  <2>4. QED  BY <2>2, <2>3
<1>4. CASE SetSettingString(i)
  <2>1. /\ call'[i] = NoCall /\ setting'[i] = key'[i]
    BY <1>4 DEF SetSettingString, TypeOK
  <2>2. Settled(i)'  BY <2>1 DEF Settled, Clean, NoCall
  <2>3. Alone(i)  BY <1>4 DEF Alone, SetSettingString, TypeOK
  <2>4. QED  BY <2>2, <2>3, AloneSettled
<1>5. QED  BY <1>3, <1>4

LEMMA NextSettled == TypeOK /\ Settleds /\ [Next]_vars => Settleds'
<1>1. SUFFICES ASSUME TypeOK, Settleds, [Next]_vars PROVE Settleds'  OBVIOUS
<1>2. CASE UNCHANGED vars \/ Finished
  BY <1>1, <1>2 DEF vars, client, history, Finished, Settleds, Settled, Clean
<1>3. ASSUME NEW i \in Install, Kodi(i) PROVE Settleds'
  BY <1>1, <1>3, InstanceSettled, BeginSettled, OthersSettled
     DEF Kodi, OpenRecordedStream, ReadRecordedStream, QueryRecordedStream
<1>4. ASSUME NEW i \in Install, Step(i) PROVE Settleds'
  BY <1>1, <1>4, InstanceSettled, RequestsSettled, GenerateSettled, PersistSettled DEF Step
<1>5. ASSUME NEW i \in Install, TokenDies(i) PROVE Settleds'
  BY <1>1, <1>5, OthersSettled
<1>6. QED  BY <1>1, <1>2, <1>3, <1>4, <1>5 DEF Next

\* Between calls the settings hold the key in use, unless an open that failed has made it,
\* or a read, the length, the stream times or a seek from the end of a growing recording,
\* or the user has edited it.
THEOREM SavedUnlessDroppedHolds == Spec => []SavedUnlessDropped
<1>1. Init => TypeOK /\ Settleds
  <2>1. ASSUME Init, NEW i \in Install  PROVE Settled(i)
    <3>1. call[i].at = "none" /\ call[i].op = "none" /\ call[i].gen = "no"
      BY <2>1 DEF Init, NoCall
    <3>2. ~up[i]  BY <2>1, Zenon DEF Init
    <3>3. QED  BY <3>1, <3>2 DEF Settled
  <2>2. QED  BY <2>1, InitTyped DEF Settleds
<1>2. TypeOK /\ Settleds /\ [Next]_vars => (TypeOK /\ Settleds)'
  BY NextTyped, NextSettled
<1>3. Settleds => SavedUnlessDropped
  BY DEF Settleds, Settled, Clean, SavedUnlessDropped, NoCall
<1>4. QED  BY <1>1, <1>2, <1>3, PTL DEF Spec
=============================================================================
