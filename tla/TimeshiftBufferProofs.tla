----------------------- MODULE TimeshiftBufferProofs -----------------------
(* Theorems about TimeshiftBuffer, for any number of channels, viewers,     *)
(* threads and processes.                                                  *)
EXTENDS TimeshiftBuffer, FiniteSetTheorems, TLAPS

-----------------------------------------------------------------------------
(* The helpers return tracked states.                                      *)

\* r is a tracked state, of the same process as s
SameProcess(r, s) == r \in State /\ r.inst = s.inst

LEMMA NoStateType == NoState \in State /\ NoState.inst = NoOne
  BY DEF NoState, State, Age

LEMMA OlderType == \A s \in State : SameProcess(OlderState(s), s)
<1>1. \A a \in Age : Older(a) \in Age
  BY DEF Age, Older, Stale
<1>2. SUFFICES ASSUME NEW s \in State PROVE SameProcess(OlderState(s), s)
  OBVIOUS
<1>3. s.last \in Age /\ s.viewers \in SUBSET Viewer /\ s.seen \in [Viewer -> Age]
  BY DEF State
<1>4. [v \in Viewer |-> IF v \in s.viewers THEN Older(s.seen[v]) ELSE 0] \in [Viewer -> Age]
  <2>1. \A v \in Viewer : Older(s.seen[v]) \in Age
    BY <1>1, <1>3
  <2>2. 0 \in Age
    BY DEF Age
  <2>3. QED
    BY <2>1, <2>2
<1>5. QED
  BY <1>1, <1>3, <1>4 DEF SameProcess, OlderState, State

LEMMA RegisteredType ==
    \A s \in State, v \in Viewer \cup {NoOne} : SameProcess(Registered(s, v), s)
<1>1. SUFFICES ASSUME NEW s \in State, NEW v \in Viewer \cup {NoOne}
               PROVE  SameProcess(Registered(s, v), s)
  OBVIOUS
<1>2. 0 \in Age
  BY DEF Age
<1>3. CASE v = NoOne
  BY <1>2, <1>3 DEF SameProcess, Registered, State
<1>4. CASE v # NoOne
  <2>1. [s.seen EXCEPT ![v] = 0] \in [Viewer -> Age] /\ s.viewers \cup {v} \in SUBSET Viewer
    BY <1>2, <1>4 DEF State
  <2>2. QED
    BY <1>2, <1>4, <2>1 DEF SameProcess, Registered, State
<1>5. QED
  BY <1>3, <1>4

LEMMA DeregisteredType == \A s \in State, v \in Viewer : SameProcess(Deregistered(s, v), s)
<1>1. SUFFICES ASSUME NEW s \in State, NEW v \in Viewer PROVE SameProcess(Deregistered(s, v), s)
  OBVIOUS
<1>2. [s.seen EXCEPT ![v] = 0] \in [Viewer -> Age]
  BY DEF State, Age
<1>3. QED
  BY <1>2 DEF SameProcess, Deregistered, State

LEMMA PrunedType == \A s \in State : SameProcess(Pruned(s), s)
<1>1. SUFFICES ASSUME NEW s \in State PROVE SameProcess(Pruned(s), s)
  OBVIOUS
<1>2. DEFINE fresh == {v \in s.viewers : s.seen[v] # Stale}
<1>3. [v \in Viewer |-> IF v \in fresh THEN s.seen[v] ELSE 0] \in [Viewer -> Age]
  BY DEF State, Age
<1>4. fresh \in SUBSET Viewer
  BY DEF State
<1>5. QED
  BY <1>3, <1>4 DEF SameProcess, Pruned, State

LEMMA BeatenType == \A s \in State, v \in Viewer : SameProcess(Beaten(s, v), s)
<1>1. SUFFICES ASSUME NEW s \in State, NEW v \in Viewer PROVE SameProcess(Beaten(s, v), s)
  OBVIOUS
<1>2. [s.seen EXCEPT ![v] = 0] \in [Viewer -> Age] /\ 0 \in Age
  BY DEF State, Age
<1>3. QED
  BY <1>2 DEF SameProcess, Beaten, State

LEMMA NewStateType ==
    \A i \in Instance, v \in Viewer \cup {NoOne} : NewState(i, v) \in State /\ NewState(i, v).inst = i
<1>1. SUFFICES ASSUME NEW i \in Instance, NEW v \in Viewer \cup {NoOne}
               PROVE  NewState(i, v) \in State /\ NewState(i, v).inst = i
  OBVIOUS
<1>2. [u \in Viewer |-> 0] \in [Viewer -> Age] /\ 0 \in Age
  BY DEF Age
<1>3. (IF v = NoOne THEN {} ELSE {v}) \in SUBSET Viewer
  OBVIOUS
<1>4. QED
  BY <1>2, <1>3 DEF NewState, State

LEMMA FreshType == \A s \in State : SameProcess([s EXCEPT !.last = 0], s)
  BY DEF SameProcess, State, Age

-----------------------------------------------------------------------------
(* The invariant: types, where handlers and viewers are, and ChannelBound.  *)

IInv == TypeOK /\ Located /\ ChannelBound

LEMMA InvInit == Init => IInv
<1>1. SUFFICES ASSUME Init PROVE IInv
  OBVIOUS
<1>2. TypeOK
  BY <1>1, NoStateType, CrashAssumption DEF Init, TypeOK, Dir, PC, Op, VStatus
<1>3. Located
  BY <1>1 DEF Init, Located
<1>4. ChannelBound
  BY <1>1, NoStateType DEF Init, ChannelBound, Present
<1>5. QED
  BY <1>2, <1>3, <1>4 DEF IInv

LEMMA LeaveType ==
    ASSUME TypeOK, NEW t \in Thread, Leave(t)
    PROVE  /\ pc' \in [Thread -> PC]
           /\ op' \in [Thread -> Op]
           /\ chan' \in [Thread -> Channel \cup {NoOne}]
           /\ who' \in [Thread -> Viewer \cup {NoOne}]
           /\ held' \in [Thread -> State]
           /\ todo' \in [Thread -> SUBSET Channel]
  BY NoStateType DEF TypeOK, Leave, Goto, Hold, PC, Op

LEMMA AnswerType ==
    ASSUME TypeOK, NEW v \in Viewer \cup {NoOne}, NEW from, NEW to \in VStatus \ {"new"},
           Answer(v, from, to)
    PROVE  vst' \in [Viewer -> VStatus]
  BY DEF TypeOK, Answer

LEMMA InvNext == IInv /\ [Next]_vars => IInv'
<1>0. SUFFICES ASSUME IInv, [Next]_vars PROVE IInv'
  OBVIOUS
<1>  USE <1>0, NoOneAssumption
     DEF IInv, TypeOK, Located, ChannelBound, Present, PC, Op, SweepOps, VStatus, Dir, SameProcess,
         redisVars, systemVars, threadVars, viewerVars
<1>1. ASSUME NEW t \in Thread, NEW c \in Channel, NEW v \in Viewer \cup {NoOne}, StartCall(t, c, v) PROVE IInv'
  BY <1>1
  DEF StartCall, Enter, Goto, Hold
<1>2. ASSUME NEW t \in Thread, NEW v \in Viewer, StopCall(t, v) PROVE IInv'
  <2>1. DEFINE c == vchan[v]
               left == Pruned(Deregistered(redis[c], v))
  <2>2. c \in Channel /\ vst[v] # "new"
    BY <1>2 DEF StopCall
  <2>3. SameProcess(left, redis[c])
    BY <2>2, PrunedType, DeregisteredType
  <2>4. CASE Present(redis[c])
    <3>1. PICK l \in {"stop_set", "kill"} :
            Enter(t, "stop", c, v, left, l) /\ vst' = [vst EXCEPT ![v] = "closing"]
            /\ UNCHANGED <<redisVars, systemVars, vchan, vinst, beat, crashes>>
      BY <1>2, <2>4 DEF StopCall
    <3> HIDE DEF left, c
    <3>2. TypeOK'
      BY <2>2, <2>3, <3>1 DEF Enter, Goto, Hold
    <3>3. Located'
      BY <2>2, <2>3, <3>1 DEF Enter, Goto, Hold
    <3>4. ChannelBound'
      BY <2>2, <2>3, <3>1 DEF Enter, Goto, Hold
    <3>5. QED
      BY <3>2, <3>3, <3>4
  <2>5. CASE ~Present(redis[c])
    BY <1>2, <2>2, <2>5 DEF StopCall
  <2>6. QED
    BY <2>4, <2>5
<1>3. ASSUME NEW t \in Thread, NEW v \in Viewer, HeartbeatCall(t, v) PROVE IInv'
  <2>1. TypeOK'
    BY <1>3, BeatenType DEF HeartbeatCall, Enter, Goto, Hold
  <2>2. Located'
    BY <1>3, BeatenType DEF HeartbeatCall, Enter, Goto, Hold
  <2>3. ChannelBound'
    BY <1>3, BeatenType DEF HeartbeatCall, Enter, Goto, Hold
  <2>4. QED
    BY <2>1, <2>2, <2>3
<1>4. ASSUME NEW t \in Thread, NEW v \in Viewer, FetchCall(t, v) PROVE IInv'
  BY <1>4, NoStateType
  DEF FetchCall, Enter, Goto, Hold
<1>5. ASSUME NEW t \in Thread, NEW v \in Viewer, ManifestCall(t, v) PROVE IInv'
  BY <1>5
  DEF ManifestCall, Enter, Goto, Hold
<1>6. ASSUME NEW t \in Thread, NEW c \in Channel, StopCallNoId(t, c) PROVE IInv'
  BY <1>6
  DEF StopCallNoId, Enter, Goto, Hold
<1>7. ASSUME NEW t \in Thread, StopAllCall(t) PROVE IInv'
  BY <1>7
  DEF StopAllCall, Sweep, Goto, Tracked
<1>8. ASSUME NEW t \in Thread, ScrubCall(t) PROVE IInv'
  BY <1>8
  DEF ScrubCall, Sweep, Goto, Orphans
<1>9. ASSUME NEW t \in Thread, ReapBegin(t) PROVE IInv'
  BY <1>9
  DEF ReapBegin, Sweep, Goto, Tracked
<1>10. ASSUME NEW t \in Thread, StartCheck(t) PROVE IInv'
  <2>1. CASE held[t].inst \in running
    <3>1. SameProcess(Registered(held[t], who[t]), held[t])
      BY RegisteredType
    <3>2. Hold(t, Registered(held[t], who[t])) /\ Goto(t, "start_set") /\ chan[t] \in Channel
          /\ UNCHANGED <<op, chan, who, todo, redisVars, systemVars, viewerVars, crashes>>
      BY <1>10, <2>1 DEF StartCheck, KeepLocals
    <3>3. TypeOK'
      BY <3>1, <3>2 DEF Goto, Hold
    <3>4. Located'
      BY <3>2 DEF Goto, Hold
    <3>5. ChannelBound'
      BY <3>1, <3>2 DEF Goto, Hold
    <3>6. QED
      BY <3>3, <3>4, <3>5
  <2>2. CASE held[t].inst \notin running
    BY <1>10, <2>2 DEF StartCheck, Goto, KeepLocals
  <2>3. QED
    BY <2>1, <2>2
<1>11. ASSUME NEW t \in Thread, DeadFiles(t) PROVE IInv'
  BY <1>11
  DEF DeadFiles, Goto, Hold, KeepLocals, RemoveDir
<1>12. ASSUME NEW t \in Thread, DeadDel(t) PROVE IInv'
  BY <1>12, NoStateType
  DEF DeadDel, Goto, Hold, KeepLocals
<1>13. ASSUME NEW t \in Thread, StartCount(t) PROVE IInv'
  <2>1. CASE Leave(t) /\ Answer(who[t], "opening", "closed")
    <3>1. TypeOK'
      BY <1>13, <2>1, LeaveType, AnswerType DEF StartCount
    <3>2. Located'
      BY <1>13, <2>1 DEF StartCount, Leave, Goto, Answer
    <3>3. ChannelBound'
      BY <1>13, <2>1, NoStateType DEF StartCount, Leave, Hold
    <3>4. QED
      BY <3>1, <3>2, <3>3
  <2>2. CASE Goto(t, "launch") /\ KeepLocals /\ UNCHANGED <<held, vst>>
    BY <1>13, <2>2 DEF StartCount, Goto, KeepLocals
  <2>3. QED
    BY <1>13, <2>1, <2>2 DEF StartCount
<1>14. ASSUME NEW t \in Thread, Launch(t) PROVE IInv'
  <2>1. PICK i \in Instance :
          /\ chanOf[i] = NoOne
          /\ chanOf' = [chanOf EXCEPT ![i] = chan[t]]
          /\ running' = running \cup {i}
          /\ cwd' = cwd \cup {i}
          /\ Hold(t, NewState(i, who[t]))
    BY <1>14 DEF Launch
  <2>2. NewState(i, who[t]) \in State /\ NewState(i, who[t]).inst = i
    BY NewStateType
  <2>3. chan[t] \in Channel /\ MakeDir(chan[t]) /\ Goto(t, "start_set")
        /\ UNCHANGED <<op, chan, who, todo, redisVars, dirOld, viewerVars, crashes>>
    BY <1>14 DEF Launch, KeepLocals
  <2>4. TypeOK'
    BY <2>1, <2>2, <2>3 DEF Goto, Hold, MakeDir
  <2>5. Located'
    BY <2>3 DEF Goto
  <2>6. ChannelBound'
    <3>1. \A c \in Channel : Present(redis'[c]) => chanOf'[redis'[c].inst] = c
      BY <2>1, <2>3
    <3>2. \A u \in Thread : u # t /\ Present(held'[u])
            => chan'[u] # NoOne /\ chanOf'[held'[u].inst] = chan'[u]
      <4>1. SUFFICES ASSUME NEW u \in Thread, u # t, Present(held[u])
                     PROVE  chan[u] # NoOne /\ chanOf'[held[u].inst] = chan[u]
        BY <2>1, <2>3 DEF Hold
      <4>2. held[u].inst \in Instance /\ chan[u] # NoOne /\ chanOf[held[u].inst] = chan[u]
        BY <4>1 DEF State
      <4>3. CASE held[u].inst # i
        BY <2>1, <4>2, <4>3
      <4>4. held[u].inst # i
        BY <2>1, <4>1, <4>2
      <4>5. QED
        BY <4>3, <4>4
    <3>3. Present(held'[t]) => chan'[t] # NoOne /\ chanOf'[held'[t].inst] = chan'[t]
      BY <2>1, <2>2, <2>3 DEF Hold
    <3>4. QED
      BY <3>1, <3>2, <3>3
  <2>7. QED
    BY <2>4, <2>5, <2>6
<1>15. ASSUME NEW t \in Thread, LaunchFails(t) PROVE IInv'
  BY <1>15, NoStateType
  DEF LaunchFails, Goto, Hold, KeepLocals, MakeDir, Leave, Answer
<1>16. ASSUME NEW t \in Thread, StartSet(t) PROVE IInv'
  <2>1. chan[t] \in Channel /\ Leave(t) /\ redis' = [redis EXCEPT ![chan[t]] = held[t]]
        /\ UNCHANGED <<leader, systemVars, vchan, crashes>>
    BY <1>16 DEF StartSet
  <2>2. vst' \in [Viewer -> VStatus] /\ vinst' \in [Viewer -> Instance \cup {NoOne}]
        /\ beat' \subseteq Viewer /\ \A v \in Viewer : vst'[v] # "new" => vst[v] # "new"
    <3>1. CASE who[t] # NoOne /\ vst[who[t]] = "opening"
      <4>1. who[t] \in Viewer /\ held[t].inst \in Instance \cup {NoOne}
        BY <3>1 DEF State
      <4>2. QED
        BY <1>16, <3>1, <4>1 DEF StartSet
    <3>2. CASE ~(who[t] # NoOne /\ vst[who[t]] = "opening")
      BY <1>16, <3>2 DEF StartSet
    <3>3. QED
      BY <3>1, <3>2
  <2>3. TypeOK'
    BY <2>1, <2>2, LeaveType
  <2>4. Located'
    BY <2>1, <2>2 DEF Leave, Goto
  <2>5. ChannelBound'
    BY <2>1, NoStateType DEF Leave, Hold
  <2>6. QED
    BY <2>3, <2>4, <2>5
<1>17. ASSUME NEW t \in Thread, StopSet(t) PROVE IInv'
  BY <1>17, NoStateType
  DEF StopSet, Goto, Hold, KeepLocals, Leave, Answer
<1>18. ASSUME NEW t \in Thread, Kill(t) PROVE IInv'
  BY <1>18
  DEF Kill, Goto, Hold, KeepLocals
<1>19. ASSUME NEW t \in Thread, Files(t) PROVE IInv'
  BY <1>19
  DEF Files, Goto, Hold, KeepLocals, RemoveDir
<1>20. ASSUME NEW t \in Thread, Del(t) PROVE IInv'
  <2>1. chan[t] \in Channel /\ redis' = [redis EXCEPT ![chan[t]] = NoState]
        /\ UNCHANGED <<leader, systemVars, vchan, vinst, beat, crashes>>
    BY <1>20 DEF Del
  <2>2. CASE op[t] \in SweepOps
    <3>1. Goto(t, "next") /\ Hold(t, NoState) /\ KeepLocals /\ UNCHANGED vst
      BY <1>20, <2>2 DEF Del
    <3>2. QED
      BY <2>1, <3>1, NoStateType DEF Goto, Hold, KeepLocals
  <2>3. CASE op[t] \notin SweepOps
    <3>1. Leave(t)
      BY <1>20, <2>3 DEF Del
    <3>2. PICK from \in {"closing", "open"}, to \in {"closed", "failed"} : Answer(who[t], from, to)
      BY <1>20, <2>3 DEF Del
    <3>3. vst' \in [Viewer -> VStatus]
      BY <3>2, AnswerType
    <3>4. TypeOK'
      BY <2>1, <3>1, <3>3, LeaveType, NoStateType
    <3>5. Located'
      BY <2>1, <3>1, <3>2 DEF Leave, Goto, Answer
    <3>6. ChannelBound'
      BY <2>1, <3>1, NoStateType DEF Leave, Hold
    <3>7. QED
      BY <3>4, <3>5, <3>6
  <2>4. QED
    BY <2>2, <2>3
<1>21. ASSUME NEW t \in Thread, FetchGet(t) PROVE IInv'
  <2>1. chan[t] \in Channel /\ UNCHANGED <<redisVars, systemVars, viewerVars, crashes>>
    BY <1>21 DEF FetchGet
  <2>2. CASE Present(redis[chan[t]])
    <3>1. PICK r \in State : SameProcess(r, redis[chan[t]]) /\ Hold(t, r)
      BY <1>21, <2>1, <2>2, FreshType DEF FetchGet
    <3>2. Goto(t, "beat_set") /\ KeepLocals
      BY <1>21, <2>2 DEF FetchGet
    <3>3. QED
      BY <2>1, <3>1, <3>2 DEF Goto, Hold, KeepLocals
  <2>3. CASE Leave(t)
    BY <2>1, <2>3, LeaveType, NoStateType DEF Leave, Goto, Hold
  <2>4. QED
    BY <1>21, <2>2, <2>3 DEF FetchGet
<1>22. ASSUME NEW t \in Thread, ManifestBuild(t) PROVE IInv'
  <2>1. chan[t] \in Channel /\ UNCHANGED <<redisVars, systemVars, viewerVars, crashes>>
    BY <1>22 DEF ManifestBuild
  <2>2. CASE dir[chan[t]] = "playlist"
    <3>1. PICK r \in State : SameProcess(r, held[t]) /\ Hold(t, r)
      BY <1>22, <2>2, FreshType DEF ManifestBuild
    <3>2. Goto(t, "beat_set") /\ KeepLocals
      BY <1>22, <2>2 DEF ManifestBuild
    <3>3. QED
      BY <2>1, <3>1, <3>2 DEF Goto, Hold, KeepLocals
  <2>3. CASE Leave(t)
    BY <2>1, <2>3, LeaveType, NoStateType DEF Leave, Goto, Hold
  <2>4. CASE Goto(t, "kill") /\ KeepLocals /\ UNCHANGED held
    BY <2>1, <2>4 DEF Goto, KeepLocals
  <2>5. QED
    BY <1>22, <2>2, <2>3, <2>4 DEF ManifestBuild
<1>23. ASSUME NEW t \in Thread, BeatSet(t) PROVE IInv'
  <2>1. TypeOK'
    BY <1>23, NoStateType DEF BeatSet, Goto, Hold, KeepLocals, Leave
  <2>2. Located'
    BY <1>23, NoStateType DEF BeatSet, Goto, Hold, KeepLocals, Leave
  <2>3. ChannelBound'
    BY <1>23, NoStateType DEF BeatSet, Goto, Hold, KeepLocals, Leave
  <2>4. QED
    BY <2>1, <2>2, <2>3
<1>24. ASSUME NEW t \in Thread, NextBuffer(t) PROVE IInv'
  <2>1. TypeOK'
    BY <1>24, NoStateType, PrunedType DEF NextBuffer, Goto, Hold, KeepLocals
  <2>2. Located'
    BY <1>24, NoStateType, PrunedType DEF NextBuffer, Goto, Hold, KeepLocals
  <2>3. ChannelBound'
    BY <1>24, NoStateType, PrunedType DEF NextBuffer, Goto, Hold, KeepLocals
  <2>4. QED
    BY <2>1, <2>2, <2>3
<1>25. ASSUME NEW t \in Thread, ReapSet(t) PROVE IInv'
  <2>1. TypeOK'
    BY <1>25, NoStateType DEF ReapSet, Goto, Hold, KeepLocals
  <2>2. Located'
    BY <1>25, NoStateType DEF ReapSet, Goto, Hold, KeepLocals
  <2>3. ChannelBound'
    BY <1>25, NoStateType DEF ReapSet, Goto, Hold, KeepLocals
  <2>4. QED
    BY <2>1, <2>2, <2>3
<1>26. ASSUME NEW t \in Thread, SweepEnd(t) PROVE IInv'
  <2>1. TypeOK'
    BY <1>26, NoStateType DEF SweepEnd, Goto, Hold, KeepLocals, Leave, Orphans
  <2>2. Located'
    BY <1>26, NoStateType DEF SweepEnd, Goto, Hold, KeepLocals, Leave, Orphans
  <2>3. ChannelBound'
    BY <1>26, NoStateType DEF SweepEnd, Goto, Hold, KeepLocals, Leave, Orphans
  <2>4. QED
    BY <2>1, <2>2, <2>3
<1>27. ASSUME NEW t \in Thread, ScrubRemove(t) PROVE IInv'
  <2>1. PICK c \in todo[t] :
          /\ RemoveDir(c)
          /\ \/ Leave(t)
             \/ /\ todo' = [todo EXCEPT ![t] = @ \ {c}]
                /\ UNCHANGED <<pc, op, chan, who, held>>
    BY <1>27 DEF ScrubRemove
  <2>2. UNCHANGED <<redisVars, running, chanOf, viewerVars, crashes>>
    BY <1>27 DEF ScrubRemove
  <2>3. dir' \in [Channel -> Dir] /\ dirOld' \subseteq Channel /\ cwd' \subseteq Instance
    BY <2>1 DEF RemoveDir
  <2>4. CASE Leave(t)
    BY <2>2, <2>3, <2>4, LeaveType, NoStateType DEF Leave, Goto, Hold
  <2>5. CASE todo' = [todo EXCEPT ![t] = @ \ {c}] /\ UNCHANGED <<pc, op, chan, who, held>>
    <3>1. todo' \in [Thread -> SUBSET Channel]
      BY <2>5
    <3>2. QED
      BY <2>2, <2>3, <2>5, <3>1
  <2>6. QED
    BY <2>1, <2>4, <2>5
<1>28. ASSUME NEW t \in Thread, GiveUp(t) PROVE IInv'
  BY <1>28
  DEF GiveUp
<1>29. ASSUME NEW t \in Thread, Crash(t) PROVE IInv'
  BY <1>29, NoStateType, CrashAssumption
  DEF Crash, Leave, Goto, Hold
<1>30. ASSUME NEW i \in Instance, Segment(i) PROVE IInv'
  BY <1>30
  DEF Segment
<1>31. ASSUME NEW i \in Instance, ProcExit(i) PROVE IInv'
  BY <1>31
  DEF ProcExit
<1>32. ASSUME NEW v \in Viewer, Vanish(v) PROVE IInv'
  BY <1>32
  DEF Vanish
<1>33. ASSUME NEW c \in Channel, Expire(c) PROVE IInv'
  BY <1>33, NoStateType
  DEF Expire
<1>34. ASSUME NEW c \in Channel, DirAge(c) PROVE IInv'
  BY <1>34
  DEF DirAge
<1>35. ASSUME LeaderExpire PROVE IInv'
  BY <1>35
  DEF LeaderExpire
<1>36. ASSUME Tick PROVE IInv'
  <2>1. TypeOK'
    BY <1>36, OlderType DEF Tick
  <2>2. Located'
    BY <1>36, OlderType DEF Tick
  <2>3. ChannelBound'
    BY <1>36, OlderType DEF Tick
  <2>4. QED
    BY <2>1, <2>2, <2>3
<1>37. CASE UNCHANGED vars
  BY <1>37
  DEF vars
<1>38. QED
  <2>  HIDE DEF IInv, TypeOK, Located, ChannelBound
  <2>1. QED
    BY <1>1, <1>2, <1>3, <1>4, <1>5, <1>6, <1>7, <1>8, <1>9, <1>10, <1>11, <1>12, <1>13, <1>14, <1>15, <1>16, <1>17, <1>18, <1>19, <1>20, <1>21, <1>22, <1>23, <1>24, <1>25, <1>26, <1>27, <1>28, <1>29, <1>30, <1>31, <1>32, <1>33, <1>34, <1>35, <1>36, <1>37
    DEF Next, ThreadStep, ViewerCall, AdminCall, HandlerStep, Environment

\* Every variable keeps its type, whatever the handlers' interleaving and the
\* faults.
THEOREM TypeCorrect == Spec => []TypeOK
<1>1. IInv => TypeOK
  BY DEF IInv
<1>2. QED
  BY <1>1, InvInit, InvNext, PTL DEF Spec

\* No interleaving of the plugin's unsynchronised read-compute-write handlers,
\* no crash and no expiry ever puts the state of one channel's process under
\* another channel's key, nor leaves it in the hand of a handler of another.
THEOREM ChannelBoundHolds == Spec => []ChannelBound
<1>1. IInv => ChannelBound
  BY DEF IInv
<1>2. QED
  BY <1>1, InvInit, InvNext, PTL DEF Spec

-----------------------------------------------------------------------------
(* What the plugin promises when no two handlers overlap, no worker dies and  *)
(* no state outlives its TTL; TimeshiftTwoStarts shows what becomes of it when *)
(* two do.                                                                   *)

OneAtATime ==
    /\ \A t, u \in Thread : t = u
    /\ MaxCrashes = 0
    /\ "ttl" \notin Faults

\* what a handler holds is about the process that Redis names for its channel, except
\* while it starts another; a process it has found or made dead stays dead
Hands ==
    \A t \in Thread :
        /\ pc[t] \in {"start_check", "dead_files", "dead_del", "start_count", "launch", "start_set"}
              => op[t] = "start"
        /\ pc[t] = "fetch_get" => op[t] = "fetch"
        /\ pc[t] \in {"next", "reap_set"} => op[t] \in {"reap", "stop_all", "disable"}
        /\ pc[t] = "manifest_build" => op[t] = "manifest"
        /\ pc[t] \in {"idle", "next", "scrub_rm", "start_count", "launch", "fetch_get"}
              => ~Present(held[t])
        /\ pc[t] \in {"start_check", "dead_files", "dead_del", "stop_set", "kill", "files", "del",
                      "beat_set", "manifest_build", "reap_set"}
              => Present(held[t]) /\ held[t].inst = redis[chan[t]].inst
        /\ pc[t] = "start_set"
              => Present(held[t]) /\ redis[chan[t]].inst \in {held[t].inst, NoOne}
        /\ pc[t] \in {"start_count", "launch"} => ~Present(redis[chan[t]])
        /\ pc[t] \in {"dead_files", "dead_del", "files", "del"} => held[t].inst \notin running
        /\ pc[t] = "scrub_rm" => \A c \in todo[t] : ~Present(redis[c])

\* what a handler will write changes the viewers only as its call says
Lists ==
    \A t \in Thread :
        /\ pc[t] = "start_set"
              => held[t].viewers =
                   (IF Present(redis[chan[t]]) THEN redis[chan[t]].viewers ELSE {})
                      \cup ({who[t]} \cap Viewer)
        /\ pc[t] \in {"stop_set", "reap_set"} => held[t].viewers \subseteq redis[chan[t]].viewers
        /\ pc[t] \in {"start_check", "beat_set", "manifest_build"}
              => held[t].viewers = redis[chan[t]].viewers

\* every process has its directory, and Redis names it or its launch is not over
Housed ==
    /\ running \subseteq cwd
    /\ \A i \in running : chanOf[i] \in Channel
    /\ \A i \in running :
          \/ redis[chanOf[i]].inst = i
          \/ \E t \in Thread : pc[t] = "start_set" /\ held[t].inst = i

\* a viewer's process, and the handler of its call, are those of the viewer's channel
Placed ==
    /\ \A v \in Viewer :
          /\ vst[v] = "new" => vinst[v] = NoOne
          /\ vinst[v] # NoOne => vchan[v] \in Channel /\ chanOf[vinst[v]] = vchan[v]
    /\ \A t \in Thread, v \in Viewer :
          (op[t] \in {"start", "heartbeat"} /\ who[t] = v) => vchan[v] = chan[t] /\ vst[v] # "new"

\* v is counted in s, and has beaten since the last Tick if its beat was accepted
Counted(s, v) ==
    v \in s.viewers /\ s.seen[v] # Stale /\ (v \in beat => s.seen[v] = 0)

\* the beating viewers of a process that lives are counted by Redis and by the handlers
Watched ==
    /\ \A v \in Prompt :
          (vst[v] = "open" /\ vinst[v] \in running)
             => redis[vchan[v]].inst = vinst[v] /\ Counted(redis[vchan[v]], v)
    /\ \A t \in Thread, v \in Prompt :
          (/\ pc[t] \in {"start_check", "start_set", "stop_set", "beat_set", "manifest_build",
                         "reap_set"}
           /\ vst[v] = "open" /\ vinst[v] \in running /\ vchan[v] = chan[t])
             => Counted(held[t], v)
    /\ \A t \in Thread :
          who[t] # NoOne =>
             /\ pc[t] = "start_set" => who[t] \in held[t].viewers /\ held[t].seen[who[t]] = 0
             /\ (pc[t] = "beat_set" /\ op[t] = "heartbeat" /\ who[t] \in held[t].viewers)
                   => held[t].seen[who[t]] = 0

\* the channels with a buffer, or with one that is being launched
Taken == Tracked \cup {chan[t] : t \in {u \in Thread : pc[u] = "start_set"}}

Room ==
    /\ IsFiniteSet(Taken) /\ Cardinality(Taken) <= MaxConcurrent
    /\ \A t \in Thread : pc[t] = "launch" => Cardinality(Tracked) < MaxConcurrent

Serial == Hands /\ Lists /\ Housed /\ Placed /\ Watched /\ Room

SInv == IInv /\ Serial

-----------------------------------------------------------------------------
(* What the helpers do to the list of viewers.                             *)

LEMMA RegisteredLists ==
    ASSUME NEW s \in State, NEW v \in Viewer \cup {NoOne}
    PROVE  /\ Registered(s, v).viewers = s.viewers \cup ({v} \cap Viewer)
           /\ v # NoOne => v \in Registered(s, v).viewers /\ Registered(s, v).seen[v] = 0
           /\ \A u \in Viewer : Counted(s, u) => Counted(Registered(s, v), u)
<1>. PICK i, w, n, l : /\ s = [inst |-> i, viewers |-> w, seen |-> n, last |-> l]
                       /\ w \in SUBSET Viewer /\ n \in [Viewer -> Age]
  BY DEF State
<1>1. CASE v = NoOne
  <2>1. {v} \cap Viewer = {} /\ Registered(s, v).viewers = w /\ Registered(s, v).seen = n
    BY <1>1, NoOneAssumption DEF Registered
  <2>2. QED
    BY <1>1, <2>1 DEF Counted
<1>2. CASE v # NoOne
  <2>1. /\ v \in Viewer /\ {v} \cap Viewer = {v}
        /\ Registered(s, v).viewers = w \cup {v} /\ Registered(s, v).seen = [n EXCEPT ![v] = 0]
    BY <1>2 DEF Registered
  <2>2. Registered(s, v).seen[v] = 0 /\ \A u \in Viewer : u # v => Registered(s, v).seen[u] = n[u]
    BY <2>1
  <2>3. QED
    BY <1>2, <2>1, <2>2 DEF Counted, Stale
<1>3. QED
  BY <1>1, <1>2

LEMMA DeregisteredLists ==
    ASSUME NEW s \in State, NEW v \in Viewer
    PROVE  /\ Deregistered(s, v).viewers \subseteq s.viewers
           /\ \A u \in Viewer \ {v} : Counted(s, u) => Counted(Deregistered(s, v), u)
<1>. PICK i, w, n, l : /\ s = [inst |-> i, viewers |-> w, seen |-> n, last |-> l]
                       /\ w \in SUBSET Viewer /\ n \in [Viewer -> Age]
  BY DEF State
<1>1. Deregistered(s, v).viewers = w \ {v} /\ Deregistered(s, v).seen = [n EXCEPT ![v] = 0]
  BY DEF Deregistered
<1>2. \A u \in Viewer \ {v} : Deregistered(s, v).seen[u] = n[u]
  BY <1>1
<1>3. QED
  BY <1>1, <1>2 DEF Counted

LEMMA PrunedLists ==
    ASSUME NEW s \in State
    PROVE  /\ Pruned(s).viewers \subseteq s.viewers
           /\ \A u \in Viewer : Counted(s, u) => Counted(Pruned(s), u)
<1>. DEFINE fresh == {v \in s.viewers : s.seen[v] # Stale}
<1>1. Pruned(s).viewers = fresh /\ Pruned(s).seen = [v \in Viewer |-> IF v \in fresh THEN s.seen[v] ELSE 0]
  BY DEF Pruned
<1>2. fresh \subseteq s.viewers
  OBVIOUS
<1>3. \A u \in Viewer : Counted(s, u) => u \in fresh
  BY DEF Counted
<1>. HIDE DEF fresh
<1>4. QED
  BY <1>1, <1>2, <1>3 DEF Counted

LEMMA BeatenLists ==
    ASSUME NEW s \in State, NEW v \in Viewer
    PROVE  /\ Beaten(s, v).viewers = s.viewers
           /\ v \in s.viewers => Beaten(s, v).seen[v] = 0
           /\ \A u \in Viewer : Counted(s, u) => Counted(Beaten(s, v), u)
<1>. PICK i, w, n, l : /\ s = [inst |-> i, viewers |-> w, seen |-> n, last |-> l]
                       /\ w \in SUBSET Viewer /\ n \in [Viewer -> Age]
  BY DEF State
<1>1. CASE v \in w
  <2>1. Beaten(s, v).viewers = w /\ Beaten(s, v).seen = [n EXCEPT ![v] = 0]
    BY <1>1 DEF Beaten
  <2>2. Beaten(s, v).seen[v] = 0 /\ \A u \in Viewer : u # v => Beaten(s, v).seen[u] = n[u]
    BY <2>1
  <2>3. QED
    BY <1>1, <2>1, <2>2 DEF Counted, Stale
<1>2. CASE v \notin w
  <2>1. Beaten(s, v).viewers = w /\ Beaten(s, v).seen = n
    BY <1>2 DEF Beaten
  <2>2. QED
    BY <1>2, <2>1 DEF Counted
<1>3. QED
  BY <1>1, <1>2

LEMMA FreshLists ==
    ASSUME NEW s \in State
    PROVE  /\ [s EXCEPT !.last = 0].viewers = s.viewers
           /\ \A u \in Viewer : Counted(s, u) => Counted([s EXCEPT !.last = 0], u)
<1>. PICK i, w, n, l : /\ s = [inst |-> i, viewers |-> w, seen |-> n, last |-> l]
                       /\ w \in SUBSET Viewer /\ n \in [Viewer -> Age]
  BY DEF State
<1>1. [s EXCEPT !.last = 0].viewers = w /\ [s EXCEPT !.last = 0].seen = n
  OBVIOUS
<1>2. QED
  BY <1>1 DEF Counted

LEMMA NewStateLists ==
    ASSUME NEW i \in Instance, NEW v \in Viewer \cup {NoOne}
    PROVE  /\ NewState(i, v).viewers = {v} \cap Viewer
           /\ v # NoOne => v \in NewState(i, v).viewers /\ NewState(i, v).seen[v] = 0
<1>1. {v} \cap Viewer = IF v = NoOne THEN {} ELSE {v}
  BY NoOneAssumption
<1>2. QED
  BY <1>1 DEF NewState

\* A viewer that has beaten lately outlives the Tick.
LEMMA OlderLists ==
    ASSUME NEW s \in State
    PROVE  /\ OlderState(s).viewers = s.viewers
           /\ \A u \in Viewer : u \in s.viewers /\ s.seen[u] = 0 => OlderState(s).seen[u] # Stale
<1>1. CASE Present(s)
  <2>1. /\ OlderState(s).viewers = s.viewers
        /\ OlderState(s).seen = [v \in Viewer |-> IF v \in s.viewers THEN Older(s.seen[v]) ELSE 0]
    BY <1>1 DEF OlderState
  <2>2. Older(0) # Stale
    BY DEF Older, Stale
  <2>3. QED
    BY <2>1, <2>2
<1>2. CASE ~Present(s)
  BY <1>2 DEF OlderState, Stale
<1>3. QED
  BY <1>1, <1>2

-----------------------------------------------------------------------------
(* Steps that leave a part of the invariant alone.                         *)

LEMMA HandsSame ==
    ASSUME Hands, UNCHANGED <<pc, op, chan, held, redis, todo>>, running' \subseteq running
    PROVE  Hands'
  BY DEF Hands, Present

LEMMA ListsSame ==
    ASSUME Lists, UNCHANGED <<pc, chan, who, held, redis>>
    PROVE  Lists'
  BY DEF Lists, Present

LEMMA HousedSame ==
    ASSUME Housed, UNCHANGED <<pc, held, redis, chanOf>>, running' \subseteq running, cwd' = cwd
    PROVE  Housed'
  BY DEF Housed

LEMMA PlacedSame ==
    ASSUME Placed, UNCHANGED <<vchan, vinst, chanOf, op, who, chan>>,
           \A v \in Viewer : vst'[v] = "new" <=> vst[v] = "new"
    PROVE  Placed'
  BY DEF Placed

LEMMA WatchedSame ==
    ASSUME Watched, UNCHANGED <<vchan, vinst, beat, pc, op, chan, who, held, redis>>,
           running' \subseteq running, \A v \in Viewer : vst'[v] = "open" => vst[v] = "open"
    PROVE  Watched'
  BY PromptAssumption DEF Watched, Counted

LEMMA RoomSame ==
    ASSUME Room, UNCHANGED <<pc, chan, redis>>
    PROVE  Room'
  BY DEF Room, Taken, Tracked, Present

-----------------------------------------------------------------------------
(* The steps of everything but the handlers.                               *)

LEMMA SegmentSerial ==
    ASSUME SInv, (\E i \in Instance : Segment(i)) \/ LeaderExpire \/ (\E c \in Channel : DirAge(c))
    PROVE  Serial'
<1>1. UNCHANGED <<redis, running, chanOf, cwd, pc, op, chan, who, held, todo, vst, vchan, vinst, beat>>
  BY DEF Segment, LeaderExpire, DirAge, redisVars, systemVars, threadVars, viewerVars
<1>2. QED
  BY <1>1, HandsSame, ListsSame, HousedSame, PlacedSame, WatchedSame, RoomSame DEF SInv, Serial

LEMMA ProcExitSerial ==
    ASSUME SInv, NEW i \in Instance, ProcExit(i)
    PROVE  Serial'
<1>1. UNCHANGED <<redis, chanOf, cwd, pc, op, chan, who, held, todo, vst, vchan, vinst, beat>>
      /\ running' \subseteq running
  BY DEF ProcExit, redisVars, threadVars, viewerVars
<1>2. QED
  BY <1>1, HandsSame, ListsSame, HousedSame, PlacedSame, WatchedSame, RoomSame DEF SInv, Serial

LEMMA VanishSerial ==
    ASSUME SInv, NEW v \in Viewer, Vanish(v)
    PROVE  Serial'
<1>1. UNCHANGED <<redis, running, chanOf, cwd, pc, op, chan, who, held, todo, vchan, vinst, beat>>
      /\ vst' = [vst EXCEPT ![v] = "gone"] /\ vst[v] # "new" /\ vst \in [Viewer -> VStatus]
  BY DEF Vanish, redisVars, systemVars, threadVars, viewerVars, SInv, IInv, TypeOK
<1>2. \A u \in Viewer : (vst'[u] = "new" <=> vst[u] = "new") /\ (vst'[u] = "open" => vst[u] = "open")
  BY <1>1
<1>3. QED
  BY <1>1, <1>2, HandsSame, ListsSame, HousedSame, PlacedSame, WatchedSame, RoomSame DEF SInv, Serial

LEMMA GiveUpSerial ==
    ASSUME SInv, NEW t \in Thread, GiveUp(t)
    PROVE  Serial'
<1>1. UNCHANGED <<redis, running, chanOf, cwd, pc, op, chan, held, todo, vst, vchan, vinst, beat>>
      /\ who' = [who EXCEPT ![t] = NoOne] /\ op[t] \in {"heartbeat", "fetch", "manifest"}
      /\ who \in [Thread -> Viewer \cup {NoOne}]
  BY DEF GiveUp, redisVars, systemVars, viewerVars, SInv, IInv, TypeOK
<1>2. \A u \in Thread : who'[u] = who[u] \/ (who'[u] = NoOne /\ pc[u] # "start_set")
  BY <1>1 DEF SInv, Serial, Hands
<1>3. Lists'
  BY <1>1, <1>2 DEF SInv, Serial, Lists, Present
<1>4. Placed'
  BY <1>1, <1>2, NoOneAssumption DEF SInv, Serial, Placed
<1>5. Watched'
  BY <1>1, <1>2 DEF SInv, Serial, Watched, Counted
<1>6. QED
  BY <1>1, <1>3, <1>4, <1>5, HandsSame, HousedSame, RoomSame DEF SInv, Serial

\* Time passes only between the handlers, and not before every prompt viewer has beaten.
LEMMA TickSerial ==
    ASSUME SInv, Tick
    PROVE  Serial'
<1>1. /\ UNCHANGED <<running, chanOf, cwd, pc, op, chan, who, held, todo, vst, vchan, vinst>>
      /\ redis' = [c \in Channel |-> OlderState(redis[c])] /\ beat' = {}
      /\ \A t \in Thread : pc[t] = "idle"
      /\ Prompt \cap Watching \subseteq beat
      /\ redis \in [Channel -> State]
  BY DEF Tick, Quiet, systemVars, threadVars, SInv, IInv, TypeOK
<1>2. \A c \in Channel : /\ redis'[c].inst = redis[c].inst /\ redis'[c].viewers = redis[c].viewers
                         /\ Present(redis'[c]) <=> Present(redis[c])
  BY <1>1, OlderType, OlderLists DEF SameProcess, Present
<1>3. Hands'
  BY <1>1 DEF SInv, Serial, Hands, Present
<1>4. Lists'
  BY <1>1 DEF Lists
<1>5. Housed'
  <2>1. \A i \in running : redis[chanOf[i]].inst = i
    BY <1>1 DEF SInv, Serial, Housed
  <2>2. \A i \in running : chanOf[i] \in Channel
    BY DEF SInv, Serial, Housed
  <2>3. QED
    BY <1>1, <1>2, <2>1, <2>2 DEF SInv, Serial, Housed
<1>6. Watched'
  <2>1. ASSUME NEW v \in Prompt, vst[v] = "open", vinst[v] \in running
        PROVE  redis'[vchan[v]].inst = vinst[v] /\ Counted(redis[vchan[v]], v)'
    <3>1. /\ v \in Viewer /\ vchan[v] \in Channel /\ vinst[v] \in Instance
          /\ redis[vchan[v]].inst = vinst[v] /\ Counted(redis[vchan[v]], v)
      BY <2>1, PromptAssumption DEF SInv, IInv, TypeOK, Located, Serial, Watched
    <3>2. Present(redis[vchan[v]])
      BY <3>1, NoOneAssumption DEF Present
    <3>3. v \in beat
      BY <1>1, <2>1, <3>1, <3>2 DEF Watching
    <3>4. v \in redis[vchan[v]].viewers /\ redis[vchan[v]].seen[v] = 0
      BY <3>1, <3>3 DEF Counted
    <3>5. redis'[vchan[v]] = OlderState(redis[vchan[v]]) /\ redis[vchan[v]] \in State
      BY <1>1, <3>1
    <3>6. redis'[vchan[v]].seen[v] # Stale
      BY <3>1, <3>4, <3>5, OlderLists
    <3>7. QED
      BY <1>1, <1>2, <3>1, <3>4, <3>6 DEF Counted
  <2>2. QED
    BY <1>1, <2>1 DEF Watched
<1>7. Room'
  BY <1>1, <1>2 DEF SInv, Serial, Room, Taken, Tracked
<1>8. QED
  BY <1>1, <1>3, <1>4, <1>5, <1>6, <1>7, PlacedSame DEF SInv, Serial

-----------------------------------------------------------------------------
(* What a step of the one handler that runs makes of it.                   *)

LEMMA OneThread ==
    ASSUME OneAtATime, NEW t \in Thread
    PROVE  \A u \in Thread : u = t
  BY DEF OneAtATime

LEMMA LeaveAt ==
    ASSUME SInv, NEW t \in Thread, Leave(t)
    PROVE  /\ pc'[t] = "idle" /\ op'[t] = "none" /\ chan'[t] = NoOne /\ who'[t] = NoOne
           /\ held'[t] = NoState /\ todo'[t] = {}
  BY DEF SInv, IInv, TypeOK, Leave, Goto, Hold

LEMMA EnterAt ==
    ASSUME SInv, NEW t \in Thread, NEW o, NEW c, NEW v, NEW s, NEW l, Enter(t, o, c, v, s, l)
    PROVE  /\ pc[t] = "idle"
           /\ pc'[t] = l /\ op'[t] = o /\ chan'[t] = c /\ who'[t] = v /\ held'[t] = s
           /\ todo' = todo
  BY DEF SInv, IInv, TypeOK, Enter, Goto, Hold

LEMMA GotoAt ==
    ASSUME SInv, NEW t \in Thread, NEW l, Goto(t, l), KeepLocals
    PROVE  pc'[t] = l /\ UNCHANGED <<op, chan, who, todo>>
  BY DEF SInv, IInv, TypeOK, Goto, KeepLocals

LEMMA HoldAt ==
    ASSUME SInv, NEW t \in Thread, NEW s, Hold(t, s)
    PROVE  held'[t] = s
  BY DEF SInv, IInv, TypeOK, Hold

\* what may follow an answer to the addon
LEMMA AnswerAt ==
    ASSUME SInv, NEW v, NEW from, NEW to \in {"closed", "failed"}, from # "new",
           Answer(v, from, to)
    PROVE  \A u \in Viewer : (vst'[u] = "new" <=> vst[u] = "new") /\ (vst'[u] = "open" => vst[u] = "open")
<1>1. vst \in [Viewer -> VStatus]
  BY DEF SInv, IInv, TypeOK
<1>2. QED
  BY <1>1 DEF Answer

LEMMA LeaveSerial ==
    ASSUME OneAtATime, SInv, NEW t \in Thread, Leave(t)
    PROVE  Hands' /\ Lists'
<1>1. \A u \in Thread : u = t
  BY OneThread
<1>2. pc'[t] = "idle" /\ held'[t] = NoState
  BY LeaveAt
<1>3. QED
  BY <1>1, <1>2, NoStateType DEF Hands, Lists, Present

\* Nothing is taken that was not, unless a start is about to launch.
LEMMA RoomShrinks ==
    ASSUME OneAtATime, SInv, NEW t \in Thread, pc'[t] # "launch",
           \A c \in Channel : Present(redis'[c]) => c \in Taken,
           pc'[t] = "start_set" => chan'[t] \in Taken
    PROVE  Room'
<1>1. \A u \in Thread : u = t
  BY OneThread
<1>2. Taken' \subseteq Taken
  BY <1>1 DEF Taken, Tracked, Present
<1>3. IsFiniteSet(Taken) /\ Cardinality(Taken) <= MaxConcurrent
  BY DEF SInv, Serial, Room
<1>4. IsFiniteSet(Taken') /\ Cardinality(Taken') <= Cardinality(Taken)
  BY <1>2, <1>3, FS_Subset
<1>5. Cardinality(Taken) \in Nat /\ Cardinality(Taken') \in Nat
  BY <1>3, <1>4, FS_CardinalityType
<1>6. Cardinality(Taken') <= MaxConcurrent
  BY <1>3, <1>4, <1>5, CapAssumption
<1>7. QED
  BY <1>1, <1>4, <1>6 DEF Room

-----------------------------------------------------------------------------
(* The calls.                                                              *)

LEMMA StartCallSerial ==
    ASSUME OneAtATime, SInv, NEW t \in Thread, NEW c \in Channel, NEW v \in Viewer \cup {NoOne},
           StartCall(t, c, v)
    PROVE  Serial'
<1>1. \A u \in Thread : u = t
  BY OneThread
<1>2. /\ pc[t] = "idle" /\ pc'[t] = (IF Present(redis[c]) THEN "start_check" ELSE "start_count")
      /\ op'[t] = "start" /\ chan'[t] = c /\ who'[t] = v /\ held'[t] = redis[c]
      /\ UNCHANGED <<redis, running, chanOf, cwd, todo, vinst, beat>>
  BY EnterAt DEF StartCall, redisVars, systemVars
<1>3. /\ \A u \in Viewer \ {v} : vst'[u] = vst[u] /\ vchan'[u] = vchan[u]
      /\ v # NoOne => vst[v] = "new" /\ vst'[v] = "opening" /\ vchan'[v] = c
  BY NoOneAssumption DEF StartCall, SInv, IInv, TypeOK
<1>4. Hands'
  BY <1>1, <1>2 DEF Hands, Present
<1>5. Lists'
  BY <1>1, <1>2 DEF Lists
<1>6. Housed'
  BY <1>1, <1>2 DEF SInv, Serial, Housed
<1>7. Placed'
  <2>1. \A u \in Viewer : /\ vst'[u] = "new" => vinst'[u] = NoOne
                          /\ vinst'[u] # NoOne => vchan'[u] \in Channel /\ chanOf'[vinst'[u]] = vchan'[u]
    <3>1. ASSUME NEW u \in Viewer, u # v
          PROVE  /\ vst'[u] = "new" => vinst'[u] = NoOne
                 /\ vinst'[u] # NoOne => vchan'[u] \in Channel /\ chanOf'[vinst'[u]] = vchan'[u]
      BY <1>2, <1>3, <3>1 DEF SInv, Serial, Placed
    <3>2. v \in Viewer => vinst'[v] = NoOne
      BY <1>2, <1>3, NoOneAssumption DEF SInv, Serial, Placed
    <3>3. QED
      BY <3>1, <3>2
  <2>2. v \in Viewer => vchan'[v] = c /\ vst'[v] # "new"
    BY <1>3, NoOneAssumption
  <2>3. QED
    BY <1>1, <1>2, <2>1, <2>2 DEF Placed
<1>8. Watched'
  <2>1. \A u \in Viewer : vst'[u] = "open" => vst[u] = "open" /\ vchan'[u] = vchan[u]
    BY <1>3, NoOneAssumption
  <2>2. QED
    BY <1>1, <1>2, <2>1, PromptAssumption DEF SInv, Serial, Watched, Counted
<1>9. Room'
  BY <1>2, RoomShrinks DEF Taken, Tracked
<1>10. QED
  BY <1>4, <1>5, <1>6, <1>7, <1>8, <1>9 DEF Serial

\* A handler entered with what Redis holds of the channel, or with what its call makes of
\* it, touches nothing yet.
LEMMA EnterSerial ==
    ASSUME OneAtATime, SInv, NEW t \in Thread, NEW o \in Op \ {"start"}, NEW c \in Channel,
           NEW v \in Viewer \cup {NoOne}, NEW s \in State,
           NEW l \in {"stop_set", "kill", "beat_set", "manifest_build", "fetch_get"},
           Enter(t, o, c, v, s, l),
           l # "fetch_get" => Present(redis[c]) /\ s.inst = redis[c].inst,
           l = "fetch_get" => s = NoState /\ o = "fetch",
           l = "manifest_build" => o = "manifest",
           l = "stop_set" => s.viewers \subseteq redis[c].viewers,
           l \in {"beat_set", "manifest_build"} => s.viewers = redis[c].viewers,
           o = "heartbeat" /\ v # NoOne => /\ vchan[v] = c /\ vst[v] = "open"
                                           /\ v \in s.viewers => s.seen[v] = 0,
           l # "fetch_get" => \A u \in Viewer : vst'[u] = "open" /\ Counted(redis[c], u) => Counted(s, u),
           \A u \in Viewer : (vst'[u] = "new" <=> vst[u] = "new") /\ (vst'[u] = "open" => vst[u] = "open"),
           UNCHANGED <<redis, running, chanOf, cwd, vchan, vinst, beat>>
    PROVE  Serial'
<1>1. \A u \in Thread : u = t
  BY OneThread
<1>2. /\ pc[t] = "idle" /\ pc'[t] = l
      /\ op'[t] = o /\ chan'[t] = c /\ who'[t] = v /\ held'[t] = s
  BY EnterAt
<1>3. Hands'
  BY <1>1, <1>2, NoStateType DEF Hands, Present
<1>4. Lists'
  BY <1>1, <1>2 DEF Lists
<1>5. Housed'
  BY <1>1, <1>2 DEF SInv, Serial, Housed
<1>6. Placed'
  <2>1. \A u \in Viewer : /\ vst'[u] = "new" => vinst'[u] = NoOne
                          /\ vinst'[u] # NoOne => vchan'[u] \in Channel /\ chanOf'[vinst'[u]] = vchan'[u]
    BY DEF SInv, Serial, Placed
  <2>2. o = "heartbeat" /\ v \in Viewer => vchan'[v] = c /\ vst'[v] # "new"
    BY NoOneAssumption
  <2>3. QED
    BY <1>1, <1>2, <2>1, <2>2 DEF Placed
<1>7. Watched'
  <2>1. ASSUME NEW u \in Prompt, vst'[u] = "open", vinst[u] \in running
        PROVE  redis[vchan[u]].inst = vinst[u] /\ Counted(redis[vchan[u]], u)
    BY <2>1, PromptAssumption DEF SInv, Serial, Watched
  <2>2. ASSUME NEW u \in Prompt, vst'[u] = "open", vinst[u] \in running, vchan[u] = c, l # "fetch_get"
        PROVE  Counted(s, u)
    BY <2>1, <2>2, PromptAssumption
  <2>3. QED
    BY <1>1, <1>2, <2>1, <2>2, PromptAssumption DEF Watched, Counted
<1>8. Room'
  BY <1>2, RoomShrinks DEF Taken, Tracked
<1>9. QED
  BY <1>3, <1>4, <1>5, <1>6, <1>7, <1>8 DEF Serial

LEMMA ViewerPlace ==
    ASSUME SInv, NEW v \in Viewer, vst[v] # "new"
    PROVE  /\ vchan[v] \in Channel /\ redis[vchan[v]] \in State
  BY DEF SInv, IInv, TypeOK, Located

LEMMA StopCallSerial ==
    ASSUME OneAtATime, SInv, NEW t \in Thread, NEW v \in Viewer, StopCall(t, v)
    PROVE  Serial'
<1>. DEFINE c == vchan[v]
            left == Pruned(Deregistered(redis[c], v))
<1>1. /\ vst[v] \in {"open", "failed"} /\ c \in Channel /\ redis[c] \in State
      /\ vst \in [Viewer -> VStatus]
  BY ViewerPlace DEF StopCall, SInv, IInv, TypeOK
<1>2. /\ left \in State /\ left.inst = redis[c].inst /\ left.viewers \subseteq redis[c].viewers
      /\ \A u \in Viewer : u # v /\ Counted(redis[c], u) => Counted(left, u)
  <2>1. Deregistered(redis[c], v) \in State /\ Deregistered(redis[c], v).inst = redis[c].inst
    BY <1>1, DeregisteredType DEF SameProcess
  <2>2. SameProcess(left, Deregistered(redis[c], v))
    BY <2>1, PrunedType
  <2>3. /\ left.viewers \subseteq Deregistered(redis[c], v).viewers
        /\ \A u \in Viewer : Counted(Deregistered(redis[c], v), u) => Counted(left, u)
    BY <2>1, PrunedLists
  <2>4. /\ Deregistered(redis[c], v).viewers \subseteq redis[c].viewers
        /\ \A u \in Viewer \ {v} : Counted(redis[c], u) => Counted(Deregistered(redis[c], v), u)
    BY <1>1, DeregisteredLists
  <2>5. QED
    BY <2>1, <2>2, <2>3, <2>4 DEF SameProcess
<1>3. CASE Present(redis[c])
  <2>1. PICK l \in {"stop_set", "kill"} :
          Enter(t, "stop", c, v, left, l) /\ vst' = [vst EXCEPT ![v] = "closing"]
          /\ UNCHANGED <<redisVars, systemVars, vchan, vinst, beat, crashes>>
    BY <1>3 DEF StopCall
  <2>2. UNCHANGED <<redis, running, chanOf, cwd, vchan, vinst, beat>>
    BY <2>1 DEF redisVars, systemVars
  <2>3. /\ \A u \in Viewer : (vst'[u] = "new" <=> vst[u] = "new") /\ (vst'[u] = "open" => vst[u] = "open")
        /\ vst'[v] # "open"
    BY <1>1, <2>1
  <2>4. "stop" \in Op \ {"start"} /\ v \in Viewer \cup {NoOne}
    BY DEF Op
  <2>. HIDE DEF c, left
  <2>5. \A u \in Viewer : vst'[u] = "open" /\ Counted(redis[c], u) => Counted(left, u)
    BY <1>2, <2>3
  <2>6. QED
    BY <1>1, <1>2, <1>3, <2>1, <2>2, <2>3, <2>4, <2>5, EnterSerial
<1>4. CASE ~Present(redis[c])
  <2>1. /\ vst' = [vst EXCEPT ![v] = "closed"]
        /\ UNCHANGED <<redis, running, chanOf, cwd, pc, op, chan, who, held, todo, vchan, vinst, beat>>
    BY <1>4 DEF StopCall, redisVars, systemVars, threadVars
  <2>2. \A u \in Viewer : (vst'[u] = "new" <=> vst[u] = "new") /\ (vst'[u] = "open" => vst[u] = "open")
    BY <1>1, <2>1
  <2>3. QED
    BY <2>1, <2>2, HandsSame, ListsSame, HousedSame, PlacedSame, WatchedSame, RoomSame DEF SInv, Serial
<1>5. QED
  BY <1>3, <1>4

LEMMA StopCallNoIdSerial ==
    ASSUME OneAtATime, SInv, NEW t \in Thread, NEW c \in Channel, StopCallNoId(t, c)
    PROVE  Serial'
<1>1. /\ Enter(t, "stop", c, NoOne, redis[c], "kill") /\ Present(redis[c]) /\ redis[c] \in State
      /\ UNCHANGED <<redis, running, chanOf, cwd, vst, vchan, vinst, beat>>
  BY DEF StopCallNoId, redisVars, systemVars, viewerVars, SInv, IInv, TypeOK
<1>2. "stop" \in Op \ {"start"} /\ NoOne \in Viewer \cup {NoOne}
  BY DEF Op
<1>3. QED
  BY <1>1, <1>2, EnterSerial

LEMMA HeartbeatCallSerial ==
    ASSUME OneAtATime, SInv, NEW t \in Thread, NEW v \in Viewer, HeartbeatCall(t, v)
    PROVE  Serial'
<1>. DEFINE c == vchan[v]
            s == Beaten(redis[c], v)
<1>1. /\ vst[v] = "open" /\ Enter(t, "heartbeat", c, v, s, "beat_set") /\ Present(redis[c])
      /\ UNCHANGED <<redis, running, chanOf, cwd, vst, vchan, vinst, beat>>
  BY DEF HeartbeatCall, redisVars, systemVars, viewerVars
<1>2. c \in Channel /\ redis[c] \in State
  BY <1>1, ViewerPlace
<1>3. s \in State /\ s.inst = redis[c].inst
  BY <1>2, BeatenType DEF SameProcess
<1>4. /\ s.viewers = redis[c].viewers /\ (v \in s.viewers => s.seen[v] = 0)
      /\ \A u \in Viewer : Counted(redis[c], u) => Counted(s, u)
  BY <1>2, BeatenLists
<1>5. "heartbeat" \in Op \ {"start"} /\ v \in Viewer \cup {NoOne}
  BY DEF Op
<1>6. vchan[v] = c
  OBVIOUS
<1>. HIDE DEF c, s
<1>7. QED
  BY <1>1, <1>2, <1>3, <1>4, <1>5, <1>6, EnterSerial

LEMMA FetchCallSerial ==
    ASSUME OneAtATime, SInv, NEW t \in Thread, NEW v \in Viewer, FetchCall(t, v)
    PROVE  Serial'
<1>1. /\ vst[v] = "open" /\ Enter(t, "fetch", vchan[v], v, NoState, "fetch_get")
      /\ UNCHANGED <<redis, running, chanOf, cwd, vst, vchan, vinst, beat>>
  BY DEF FetchCall, redisVars, systemVars, viewerVars
<1>2. vchan[v] \in Channel /\ NoState \in State
  BY <1>1, ViewerPlace, NoStateType
<1>3. "fetch" \in Op \ {"start"} /\ v \in Viewer \cup {NoOne}
  BY DEF Op
<1>4. QED
  BY <1>1, <1>2, <1>3, EnterSerial

LEMMA ManifestCallSerial ==
    ASSUME OneAtATime, SInv, NEW t \in Thread, NEW v \in Viewer, ManifestCall(t, v)
    PROVE  Serial'
<1>1. /\ vst[v] = "open" /\ Enter(t, "manifest", vchan[v], v, redis[vchan[v]], "manifest_build")
      /\ Present(redis[vchan[v]])
      /\ UNCHANGED <<redis, running, chanOf, cwd, vst, vchan, vinst, beat>>
  BY DEF ManifestCall, redisVars, systemVars, viewerVars
<1>2. vchan[v] \in Channel /\ redis[vchan[v]] \in State
  BY <1>1, ViewerPlace
<1>3. "manifest" \in Op \ {"start"} /\ v \in Viewer \cup {NoOne}
  BY DEF Op
<1>4. QED
  BY <1>1, <1>2, <1>3, EnterSerial

\* A walk begins with nothing in hand.
LEMMA SweepSerial ==
    ASSUME OneAtATime, SInv, NEW t \in Thread, NEW o \in {"stop_all", "disable", "scrub", "reap"},
           NEW l \in {"next", "scrub_rm"}, NEW cs \in SUBSET Channel, Sweep(t, o, l, cs),
           l = "scrub_rm" => \A c \in cs : ~Present(redis[c]), l = "next" => o # "scrub"
    PROVE  Serial'
<1>1. \A u \in Thread : u = t
  BY OneThread
<1>2. /\ pc[t] = "idle" /\ pc'[t] = l /\ op'[t] = o /\ todo'[t] = cs
      /\ UNCHANGED <<redis, running, chanOf, cwd, chan, who, held, vst, vchan, vinst, beat>>
  BY DEF Sweep, Goto, systemVars, viewerVars, SInv, IInv, TypeOK
<1>3. Hands'
  BY <1>1, <1>2 DEF SInv, Serial, Hands, Present
<1>4. Lists'
  BY <1>1, <1>2 DEF Lists
<1>5. Housed'
  BY <1>1, <1>2 DEF SInv, Serial, Housed
<1>6. Placed'
  BY <1>1, <1>2 DEF SInv, Serial, Placed
<1>7. Watched'
  BY <1>1, <1>2 DEF SInv, Serial, Watched, Counted
<1>8. Room'
  BY <1>2, RoomShrinks DEF Taken, Tracked
<1>9. QED
  BY <1>3, <1>4, <1>5, <1>6, <1>7, <1>8 DEF Serial

LEMMA SweepCallSerial ==
    ASSUME OneAtATime, SInv, NEW t \in Thread, StopAllCall(t) \/ ScrubCall(t) \/ ReapBegin(t)
    PROVE  Serial'
<1>1. Tracked \in SUBSET Channel /\ Orphans \in SUBSET Channel /\ \A c \in Orphans : ~Present(redis[c])
  BY DEF Tracked, Orphans
<1>2. CASE StopAllCall(t)
  BY <1>1, <1>2, SweepSerial DEF StopAllCall
<1>3. CASE ScrubCall(t)
  BY <1>1, <1>3, SweepSerial DEF ScrubCall
<1>4. CASE ReapBegin(t)
  BY <1>1, <1>4, SweepSerial DEF ReapBegin
<1>5. QED
  BY <1>2, <1>3, <1>4

-----------------------------------------------------------------------------
(* start_buffer, step by step.                                             *)

LEMMA StartCheckSerial ==
    ASSUME OneAtATime, SInv, NEW t \in Thread, StartCheck(t)
    PROVE  Serial'
<1>1. \A u \in Thread : u = t
  BY OneThread
<1>2. /\ pc[t] = "start_check" /\ KeepLocals
      /\ UNCHANGED <<redis, running, chanOf, cwd, op, chan, who, todo, vst, vchan, vinst, beat>>
  BY DEF StartCheck, KeepLocals, redisVars, systemVars, viewerVars
<1>3. /\ held[t] \in State /\ who[t] \in Viewer \cup {NoOne} /\ chan[t] \in Channel
      /\ Present(held[t]) /\ held[t].inst = redis[chan[t]].inst /\ op[t] = "start"
      /\ held[t].viewers = redis[chan[t]].viewers
  BY <1>2 DEF SInv, IInv, TypeOK, Located, Serial, Hands, Lists
<1>4. CASE held[t].inst \in running
  <2>1. pc'[t] = "start_set" /\ held'[t] = Registered(held[t], who[t])
    BY <1>2, <1>4, GotoAt, HoldAt DEF StartCheck
  <2>2. held'[t] \in State /\ held'[t].inst = held[t].inst
    BY <1>3, <2>1, RegisteredType DEF SameProcess
  <2>3. /\ held'[t].viewers = held[t].viewers \cup ({who[t]} \cap Viewer)
        /\ who[t] # NoOne => who[t] \in held'[t].viewers /\ held'[t].seen[who[t]] = 0
        /\ \A u \in Viewer : Counted(held[t], u) => Counted(held'[t], u)
    BY <1>3, <2>1, RegisteredLists
  <2>4. Hands'
    BY <1>1, <1>2, <1>3, <2>1, <2>2 DEF Hands, Present
  <2>5. Lists'
    BY <1>1, <1>2, <1>3, <2>1, <2>3 DEF Lists, Present
  <2>6. Housed'
    BY <1>1, <1>2, <2>1 DEF SInv, Serial, Housed
  <2>7. Watched'
    <3>1. ASSUME NEW v \in Prompt, vst[v] = "open", vinst[v] \in running
          PROVE  redis[vchan[v]].inst = vinst[v] /\ Counted(redis[vchan[v]], v)
      BY <3>1 DEF SInv, Serial, Watched
    <3>2. ASSUME NEW v \in Prompt, vst[v] = "open", vinst[v] \in running, vchan[v] = chan[t]
          PROVE  Counted(held'[t], v)
      <4>1. Counted(held[t], v)
        BY <1>2, <3>2 DEF SInv, Serial, Watched
      <4>2. QED
        BY <2>3, <4>1, PromptAssumption
    <3>3. QED
      BY <1>1, <1>2, <2>1, <2>3, <3>1, <3>2 DEF Watched, Counted
  <2>8. Room'
    <3>1. chan'[t] \in Taken
      BY <1>2, <1>3 DEF Taken, Tracked, Present
    <3>2. QED
      BY <1>2, <2>1, <3>1, RoomShrinks DEF Taken, Tracked
  <2>9. QED
    BY <1>2, <2>4, <2>5, <2>6, <2>7, <2>8, PlacedSame DEF SInv, Serial
<1>5. CASE held[t].inst \notin running
  <2>1. pc'[t] = "dead_files" /\ UNCHANGED held
    BY <1>2, <1>5, GotoAt DEF StartCheck
  <2>2. Hands'
    BY <1>1, <1>2, <1>3, <1>5, <2>1 DEF Hands, Present
  <2>3. Lists'
    BY <1>1, <1>2, <2>1 DEF Lists
  <2>4. Housed'
    BY <1>1, <1>2, <2>1 DEF SInv, Serial, Housed
  <2>5. Watched'
    BY <1>1, <1>2, <2>1 DEF SInv, Serial, Watched, Counted
  <2>6. Room'
    BY <1>2, <2>1, RoomShrinks DEF Taken, Tracked
  <2>7. QED
    BY <1>2, <2>2, <2>3, <2>4, <2>5, <2>6, PlacedSame DEF SInv, Serial
<1>6. QED
  BY <1>4, <1>5

\* The directory of a channel whose process is dead is nobody's.
LEMMA RemoveDirSerial ==
    ASSUME OneAtATime, SInv, NEW t \in Thread, NEW l \in {"dead_del", "del"},
           pc[t] \in {"dead_files", "files"}, l = "dead_del" => pc[t] = "dead_files",
           RemoveDir(chan[t]), Goto(t, l), KeepLocals,
           UNCHANGED <<redis, running, chanOf, held, vst, vchan, vinst, beat>>
    PROVE  Serial'
<1>1. \A u \in Thread : u = t
  BY OneThread
<1>2. pc'[t] = l /\ UNCHANGED <<op, chan, who, todo>>
  BY GotoAt
<1>3. held[t].inst \notin running /\ held[t].inst = redis[chan[t]].inst /\ Present(held[t])
  BY DEF SInv, Serial, Hands
<1>4. Hands'
  <2>1. l = "dead_del" => op[t] = "start"
    BY DEF SInv, Serial, Hands
  <2>2. QED
    BY <1>1, <1>2, <1>3, <2>1 DEF Hands, Present
<1>5. Lists'
  BY <1>1, <1>2 DEF Lists
<1>6. Housed'
  <2>1. \A i \in running : redis[chanOf[i]].inst = i /\ chanOf[i] \in Channel /\ i \in cwd
    BY <1>1 DEF SInv, Serial, Housed
  <2>2. \A i \in running : chanOf[i] # chan[t]
    BY <1>3, <2>1
  <2>3. running \subseteq cwd'
    BY <2>1, <2>2 DEF RemoveDir
  <2>4. QED
    BY <2>1, <2>3 DEF Housed
<1>7. Watched'
  BY <1>1, <1>2 DEF SInv, Serial, Watched, Counted
<1>8. Room'
  BY <1>2, RoomShrinks DEF Taken, Tracked
<1>9. QED
  BY <1>2, <1>4, <1>5, <1>6, <1>7, <1>8, PlacedSame DEF SInv, Serial

LEMMA FilesSerial ==
    ASSUME OneAtATime, SInv, NEW t \in Thread, DeadFiles(t) \/ Files(t)
    PROVE  Serial'
<1>1. CASE DeadFiles(t)
  BY <1>1, RemoveDirSerial DEF DeadFiles, redisVars, viewerVars
<1>2. CASE Files(t)
  BY <1>2, RemoveDirSerial DEF Files, redisVars, viewerVars
<1>3. QED
  BY <1>1, <1>2

\* Once nothing is running for it, a channel's state is nobody's either.
LEMMA StateGone ==
    ASSUME OneAtATime, SInv, NEW t \in Thread, pc[t] \in {"dead_del", "del"},
           redis' = [redis EXCEPT ![chan[t]] = NoState],
           pc'[t] \notin {"start_set", "launch"},
           UNCHANGED <<running, chanOf, cwd, vchan, vinst, beat>>,
           \A u \in Viewer : vst'[u] = "open" => vst[u] = "open"
    PROVE  /\ Housed'
           /\ Room'
           /\ \A v \in Prompt :
                (vst'[v] = "open" /\ vinst[v] \in running)
                   => redis'[vchan[v]].inst = vinst[v] /\ Counted(redis'[vchan[v]], v)
           /\ chan[t] \in Channel /\ redis'[chan[t]] = NoState
<1>1. \A u \in Thread : u = t
  BY OneThread
<1>2. /\ held[t].inst \notin running /\ held[t].inst = redis[chan[t]].inst /\ Present(held[t])
      /\ chan[t] \in Channel
  BY DEF SInv, IInv, Located, Serial, Hands
<1>3. redis'[chan[t]] = NoState /\ \A c \in Channel : c # chan[t] => redis'[c] = redis[c]
  BY <1>2 DEF SInv, IInv, TypeOK
<1>4. Housed'
  <2>1. \A i \in running : redis[chanOf[i]].inst = i /\ chanOf[i] \in Channel /\ i \in cwd
    BY <1>1 DEF SInv, Serial, Housed
  <2>2. \A i \in running : chanOf[i] # chan[t]
    BY <1>2, <2>1
  <2>3. QED
    BY <1>3, <2>1, <2>2 DEF Housed
<1>5. Room'
  <2>1. \A c \in Channel : Present(redis'[c]) => c \in Taken
    BY <1>3, NoStateType DEF Present, Taken, Tracked
  <2>2. QED
    BY <2>1, RoomShrinks
<1>6. ASSUME NEW v \in Prompt, vst'[v] = "open", vinst[v] \in running
      PROVE  redis'[vchan[v]].inst = vinst[v] /\ Counted(redis'[vchan[v]], v)
  <2>1. vst[v] = "open" /\ v \in Viewer
    BY <1>6, PromptAssumption
  <2>2. vchan[v] \in Channel
    BY <2>1 DEF SInv, IInv, Located
  <2>3. redis[vchan[v]].inst = vinst[v] /\ Counted(redis[vchan[v]], v)
    BY <1>6, <2>1 DEF SInv, Serial, Watched
  <2>4. vchan[v] # chan[t]
    BY <1>2, <1>6, <2>3
  <2>5. QED
    BY <1>3, <2>2, <2>3, <2>4 DEF Counted
<1>7. QED
  BY <1>2, <1>3, <1>4, <1>5, <1>6

LEMMA DeadDelSerial ==
    ASSUME OneAtATime, SInv, NEW t \in Thread, DeadDel(t)
    PROVE  Serial'
<1>1. \A u \in Thread : u = t
  BY OneThread
<1>2. /\ pc[t] = "dead_del" /\ pc'[t] = "start_count" /\ held'[t] = NoState
      /\ redis' = [redis EXCEPT ![chan[t]] = NoState]
      /\ UNCHANGED <<running, chanOf, cwd, op, chan, who, todo, vst, vchan, vinst, beat>>
  BY GotoAt, HoldAt DEF DeadDel, systemVars, viewerVars
<1>3. /\ Housed' /\ Room'
      /\ \A v \in Prompt :
           (vst'[v] = "open" /\ vinst[v] \in running)
              => redis'[vchan[v]].inst = vinst[v] /\ Counted(redis'[vchan[v]], v)
      /\ chan[t] \in Channel /\ redis'[chan[t]] = NoState
  BY <1>2, StateGone
<1>4. op[t] = "start"
  BY <1>2 DEF SInv, Serial, Hands
<1>5. Hands'
  BY <1>1, <1>2, <1>3, <1>4, NoStateType DEF Hands, Present
<1>6. Lists'
  BY <1>1, <1>2 DEF Lists
<1>7. Watched'
  BY <1>1, <1>2, <1>3 DEF Watched, Counted
<1>8. QED
  BY <1>2, <1>3, <1>5, <1>6, <1>7, PlacedSame DEF SInv, Serial

\* A handler that gives up has touched nothing that lasts, but perhaps a directory.
LEMMA QuitSerial ==
    ASSUME OneAtATime, SInv, NEW t \in Thread, pc[t] # "start_set", Leave(t),
           UNCHANGED <<redis, running, chanOf, cwd, vchan, vinst, beat>>,
           \A u \in Viewer : (vst'[u] = "new" <=> vst[u] = "new") /\ (vst'[u] = "open" => vst[u] = "open")
    PROVE  Serial'
<1>1. \A u \in Thread : u = t
  BY OneThread
<1>2. pc'[t] = "idle" /\ op'[t] = "none" /\ who'[t] = NoOne
  BY LeaveAt
<1>3. Hands' /\ Lists'
  BY LeaveSerial
<1>4. Housed'
  BY <1>1 DEF SInv, Serial, Housed
<1>5. Placed'
  BY <1>1, <1>2 DEF SInv, Serial, Placed
<1>6. Watched'
  BY <1>1, <1>2, PromptAssumption DEF SInv, Serial, Watched, Counted
<1>7. Room'
  BY <1>2, RoomShrinks DEF Taken, Tracked
<1>8. QED
  BY <1>3, <1>4, <1>5, <1>6, <1>7 DEF Serial

LEMMA StartCountSerial ==
    ASSUME OneAtATime, SInv, NEW t \in Thread, StartCount(t)
    PROVE  Serial'
<1>1. \A u \in Thread : u = t
  BY OneThread
<1>2. /\ pc[t] = "start_count"
      /\ UNCHANGED <<redis, running, chanOf, cwd, vchan, vinst, beat>>
  BY DEF StartCount, redisVars, systemVars
<1>3. CASE Cardinality(Tracked) >= MaxConcurrent
  <2>1. Leave(t) /\ Answer(who[t], "opening", "closed")
    BY <1>3 DEF StartCount
  <2>2. \A u \in Viewer : (vst'[u] = "new" <=> vst[u] = "new") /\ (vst'[u] = "open" => vst[u] = "open")
    BY <2>1, AnswerAt
  <2>3. QED
    BY <1>2, <2>1, <2>2, QuitSerial
<1>4. CASE ~(Cardinality(Tracked) >= MaxConcurrent)
  <2>1. pc'[t] = "launch" /\ UNCHANGED <<op, chan, who, todo, held, vst>>
    BY <1>4, GotoAt DEF StartCount
  <2>2. Hands'
    BY <1>1, <1>2, <2>1 DEF SInv, Serial, Hands, Present
  <2>3. Lists'
    BY <1>1, <1>2, <2>1 DEF Lists
  <2>4. Housed'
    BY <1>1, <1>2, <2>1 DEF SInv, Serial, Housed
  <2>5. Watched'
    BY <1>1, <1>2, <2>1 DEF SInv, Serial, Watched, Counted
  <2>6. Room'
    <3>1. Taken = Tracked /\ Taken' = Tracked /\ Tracked' = Tracked
      BY <1>1, <1>2, <2>1 DEF Taken, Tracked, Present
    <3>2. IsFiniteSet(Tracked) /\ Cardinality(Tracked) <= MaxConcurrent
      BY <3>1 DEF SInv, Serial, Room
    <3>3. Cardinality(Tracked) \in Nat
      BY <3>2, FS_CardinalityType
    <3>4. Cardinality(Tracked) < MaxConcurrent
      BY <1>4, <3>3, CapAssumption
    <3>5. QED
      BY <3>1, <3>2, <3>4 DEF Room
  <2>7. QED
    BY <1>2, <2>1, <2>2, <2>3, <2>4, <2>5, <2>6, PlacedSame DEF SInv, Serial
<1>5. QED
  BY <1>3, <1>4

LEMMA LaunchFailsSerial ==
    ASSUME OneAtATime, SInv, NEW t \in Thread, LaunchFails(t)
    PROVE  Serial'
<1>1. /\ pc[t] = "launch" /\ Leave(t) /\ Answer(who[t], "opening", "closed")
      /\ UNCHANGED <<redis, running, chanOf, cwd, vchan, vinst, beat>>
  BY DEF LaunchFails, redisVars
<1>2. \A u \in Viewer : (vst'[u] = "new" <=> vst[u] = "new") /\ (vst'[u] = "open" => vst[u] = "open")
  BY <1>1, AnswerAt
<1>3. QED
  BY <1>1, <1>2, QuitSerial

LEMMA LaunchSerial ==
    ASSUME OneAtATime, SInv, NEW t \in Thread, Launch(t)
    PROVE  Serial'
<1>1. \A u \in Thread : u = t
  BY OneThread
<1>2. PICK i \in Instance :
        /\ chanOf[i] = NoOne
        /\ chanOf' = [chanOf EXCEPT ![i] = chan[t]]
        /\ running' = running \cup {i}
        /\ cwd' = cwd \cup {i}
        /\ Hold(t, NewState(i, who[t]))
  BY DEF Launch
<1>3. /\ pc[t] = "launch" /\ pc'[t] = "start_set" /\ held'[t] = NewState(i, who[t])
      /\ UNCHANGED <<redis, op, chan, who, todo, vst, vchan, vinst, beat>>
  BY <1>2, GotoAt, HoldAt DEF Launch, redisVars, viewerVars
<1>4. /\ chan[t] \in Channel /\ who[t] \in Viewer \cup {NoOne} /\ op[t] = "start"
      /\ redis[chan[t]].inst = NoOne /\ ~Present(redis[chan[t]])
  BY <1>3 DEF SInv, IInv, TypeOK, Located, Serial, Hands, Present
<1>5. /\ held'[t].inst = i
      /\ held'[t].viewers = {who[t]} \cap Viewer
      /\ who[t] # NoOne => who[t] \in held'[t].viewers /\ held'[t].seen[who[t]] = 0
  BY <1>3, <1>4, NewStateType, NewStateLists
<1>6. chanOf'[i] = chan[t] /\ \A j \in Instance : j # i => chanOf'[j] = chanOf[j]
  BY <1>2 DEF SInv, IInv, TypeOK
<1>7. NoOne \notin Channel /\ NoOne \notin Instance
  BY NoOneAssumption
<1>8. \A j \in running : j # i /\ j \in Instance /\ chanOf[j] \in Channel /\ redis[chanOf[j]].inst = j /\ j \in cwd
  BY <1>1, <1>2, <1>3, <1>7 DEF SInv, IInv, TypeOK, Serial, Housed
<1>9. \A v \in Viewer : vinst[v] # NoOne => /\ vinst[v] # i /\ vinst[v] \in Instance
                                            /\ vchan[v] \in Channel /\ chanOf[vinst[v]] = vchan[v]
  BY <1>2, <1>7 DEF SInv, IInv, TypeOK, Serial, Placed
<1>10. Hands'
  BY <1>1, <1>2, <1>3, <1>4, <1>5, <1>7 DEF Hands, Present
<1>11. Lists'
  BY <1>1, <1>3, <1>4, <1>5 DEF Lists
<1>12. Housed'
  <2>1. \A j \in running' : j = i \/ j \in running
    BY <1>2
  <2>2. QED
    BY <1>1, <1>2, <1>3, <1>4, <1>5, <1>6, <1>8, <2>1 DEF Housed
<1>13. Placed'
  <2>1. \A v \in Viewer : /\ vst'[v] = "new" => vinst'[v] = NoOne
                          /\ vinst'[v] # NoOne => vchan'[v] \in Channel /\ chanOf'[vinst'[v]] = vchan'[v]
    BY <1>3, <1>6, <1>9 DEF SInv, Serial, Placed
  <2>2. QED
    BY <1>3, <2>1 DEF SInv, Serial, Placed
<1>14. Watched'
  <2>1. ASSUME NEW v \in Prompt, vst[v] = "open", vinst[v] \in running'
        PROVE  redis[vchan[v]].inst = vinst[v] /\ Counted(redis[vchan[v]], v) /\ vchan[v] # chan[t]
    <3>1. vinst[v] \in running
      BY <1>2, <1>7, <1>9, <2>1, PromptAssumption
    <3>2. redis[vchan[v]].inst = vinst[v] /\ Counted(redis[vchan[v]], v)
      BY <2>1, <3>1 DEF SInv, Serial, Watched
    <3>3. vchan[v] # chan[t]
      BY <1>4, <1>7, <1>8, <3>1, <3>2
    <3>4. QED
      BY <3>2, <3>3
  <2>2. QED
    BY <1>1, <1>3, <1>5, <2>1 DEF Watched, Counted
<1>15. Room'
  <2>1. Tracked' = Tracked /\ Taken = Tracked /\ Taken' = Tracked \cup {chan[t]} /\ chan[t] \notin Tracked
    BY <1>1, <1>3, <1>4 DEF Taken, Tracked, Present
  <2>2. IsFiniteSet(Tracked) /\ Cardinality(Tracked) < MaxConcurrent
    BY <1>3, <2>1 DEF SInv, Serial, Room
  <2>3. /\ IsFiniteSet(Tracked \cup {chan[t]})
        /\ Cardinality(Tracked \cup {chan[t]}) = Cardinality(Tracked) + 1
    BY <2>1, <2>2, FS_AddElement
  <2>4. Cardinality(Tracked) \in Nat
    BY <2>2, FS_CardinalityType
  <2>5. Cardinality(Taken') <= MaxConcurrent
    BY <2>1, <2>2, <2>3, <2>4, CapAssumption
  <2>6. QED
    BY <1>1, <1>3, <2>1, <2>3, <2>5 DEF Room
<1>16. QED
  BY <1>10, <1>11, <1>12, <1>13, <1>14, <1>15 DEF Serial

\* The write that publishes a process, or one more viewer of it.
LEMMA StartSetSerial ==
    ASSUME OneAtATime, SInv, NEW t \in Thread, StartSet(t)
    PROVE  Serial'
<1>. DEFINE c == chan[t]
            s == held[t]
            opened == who[t] # NoOne /\ vst[who[t]] = "opening"
<1>1. \A u \in Thread : u = t
  BY OneThread
<1>2. /\ pc[t] = "start_set" /\ redis' = [redis EXCEPT ![c] = s] /\ Leave(t)
      /\ UNCHANGED <<running, chanOf, cwd, vchan>>
  BY DEF StartSet, systemVars
<1>3. /\ pc'[t] = "idle" /\ op'[t] = "none" /\ who'[t] = NoOne /\ held'[t] = NoState
  BY <1>2, LeaveAt
<1>4. /\ c \in Channel /\ s \in State /\ who[t] \in Viewer \cup {NoOne} /\ op[t] = "start"
      /\ Present(s) /\ redis[c].inst \in {s.inst, NoOne} /\ chanOf[s.inst] = c
  BY <1>2 DEF SInv, IInv, TypeOK, Located, ChannelBound, Serial, Hands
<1>5. redis'[c] = s /\ \A d \in Channel : d # c => redis'[d] = redis[d]
  BY <1>2, <1>4 DEF SInv, IInv, TypeOK
<1>6. /\ \A v \in Viewer : ~(opened /\ v = who[t]) =>
            vst'[v] = vst[v] /\ vinst'[v] = vinst[v] /\ (v \in beat' <=> v \in beat)
      /\ opened => who[t] \in Viewer /\ vst'[who[t]] = "open" /\ vinst'[who[t]] = s.inst
  <2>1. vst \in [Viewer -> VStatus] /\ vinst \in [Viewer -> Instance \cup {NoOne}]
    BY DEF SInv, IInv, TypeOK
  <2>2. CASE opened
    <3>1. /\ vst' = [vst EXCEPT ![who[t]] = "open"] /\ vinst' = [vinst EXCEPT ![who[t]] = s.inst]
          /\ beat' = beat \cup {who[t]} /\ who[t] \in Viewer
      BY <1>4, <2>2 DEF StartSet
    <3>2. QED
      BY <2>1, <2>2, <3>1
  <2>3. CASE ~opened
    BY <2>3 DEF StartSet
  <2>4. QED
    BY <2>2, <2>3
<1>7. \A v \in Viewer : op[t] = "start" /\ who[t] = v => vchan[v] = c /\ vst[v] # "new"
  BY DEF SInv, Serial, Placed
<1>8. Hands' /\ Lists'
  BY <1>2, LeaveSerial
<1>. HIDE DEF c, s, opened
<1>9. Housed'
  <2>1. ASSUME NEW i \in running
        PROVE  i \in cwd /\ chanOf[i] \in Channel /\ redis'[chanOf[i]].inst = i
    <3>1. i \in cwd /\ chanOf[i] \in Channel /\ i # NoOne /\ (redis[chanOf[i]].inst = i \/ s.inst = i)
      BY <1>1, NoOneAssumption DEF SInv, IInv, TypeOK, Serial, Housed, s
    <3>2. CASE chanOf[i] = c
      BY <1>4, <1>5, <3>1, <3>2
    <3>3. CASE chanOf[i] # c
      BY <1>4, <1>5, <3>1, <3>3
    <3>4. QED
      BY <3>1, <3>2, <3>3
  <2>2. QED
    BY <1>2, <2>1 DEF Housed
<1>10. Placed'
  <2>1. ASSUME NEW v \in Viewer
        PROVE  /\ vst'[v] = "new" => vinst'[v] = NoOne
               /\ vinst'[v] # NoOne => vchan'[v] \in Channel /\ chanOf'[vinst'[v]] = vchan'[v]
    <3>1. CASE opened /\ v = who[t]
      BY <1>2, <1>4, <1>6, <1>7, <3>1
    <3>2. CASE ~(opened /\ v = who[t])
      BY <1>2, <1>6, <3>2 DEF SInv, Serial, Placed
    <3>3. QED
      BY <3>1, <3>2
  <2>2. QED
    BY <1>1, <1>3, <2>1 DEF Placed
<1>11. Watched'
  <2>1. ASSUME NEW v \in Prompt, vst'[v] = "open", vinst'[v] \in running
        PROVE  redis'[vchan[v]].inst = vinst'[v] /\ Counted(redis[vchan[v]], v)'
    <3>1. v \in Viewer
      BY PromptAssumption
    <3>2. CASE opened /\ v = who[t]
      <4>1. redis'[vchan[v]] = s /\ vinst'[v] = s.inst
        BY <1>4, <1>5, <1>6, <1>7, <3>1, <3>2
      <4>2. v \in s.viewers /\ s.seen[v] = 0
        BY <1>1, <1>2, <3>1, <3>2, NoOneAssumption DEF SInv, Serial, Watched, s
      <4>3. QED
        BY <1>2, <4>1, <4>2 DEF Counted, Stale
    <3>3. CASE ~(opened /\ v = who[t])
      <4>1. vst[v] = "open" /\ vinst'[v] = vinst[v] /\ (v \in beat' <=> v \in beat)
        BY <1>6, <2>1, <3>1, <3>3
      <4>2. /\ redis[vchan[v]].inst = vinst[v] /\ Counted(redis[vchan[v]], v) /\ vchan[v] \in Channel
            /\ vinst[v] \in Instance
        BY <2>1, <3>1, <4>1 DEF SInv, IInv, TypeOK, Located, Serial, Watched
      <4>3. CASE vchan[v] = c
        <5>1. Counted(s, v)
          BY <1>2, <2>1, <4>1, <4>3 DEF SInv, Serial, Watched, c, s
        <5>2. s.inst = vinst[v]
          BY <1>4, <4>2, <4>3, NoOneAssumption
        <5>3. QED
          BY <1>2, <1>5, <4>1, <4>3, <5>1, <5>2, <1>4 DEF Counted
      <4>4. CASE vchan[v] # c
        BY <1>2, <1>5, <4>1, <4>2, <4>4 DEF Counted
      <4>5. QED
        BY <4>3, <4>4
    <3>4. QED
      BY <3>2, <3>3
  <2>2. QED
    BY <1>1, <1>2, <1>3, <2>1 DEF Watched
<1>12. Room'
  <2>1. c \in Taken
    BY <1>1, <1>2, <1>4 DEF Taken, c
  <2>2. \A d \in Channel : Present(redis'[d]) => d \in Taken
    BY <1>5, <2>1 DEF Taken, Tracked
  <2>3. QED
    BY <1>3, <2>2, RoomShrinks
<1>13. QED
  BY <1>8, <1>9, <1>10, <1>11, <1>12 DEF Serial

\* The other writes put back the process that Redis names already, and the viewers whose
\* time is good.
LEMMA WriteBack ==
    ASSUME OneAtATime, SInv, NEW t \in Thread, pc[t] \in {"stop_set", "beat_set", "reap_set"},
           redis' = [redis EXCEPT ![chan[t]] = held[t]],
           pc'[t] \notin {"start_set", "launch"},
           UNCHANGED <<running, chanOf, cwd, vchan, vinst>>,
           \A v \in Viewer : vst'[v] = "open" => vst[v] = "open",
           beat' = beat \/ (/\ pc[t] = "beat_set" /\ op[t] = "heartbeat"
                            /\ beat' = beat \cup ({who[t]} \cap Viewer))
    PROVE  /\ Housed'
           /\ Room'
           /\ \A v \in Prompt :
                (vst'[v] = "open" /\ vinst[v] \in running)
                   => redis'[vchan[v]].inst = vinst[v] /\ Counted(redis[vchan[v]], v)'
           /\ chan[t] \in Channel /\ redis'[chan[t]] = held[t] /\ Present(held[t])
<1>1. \A u \in Thread : u = t
  BY OneThread
<1>2. chan[t] \in Channel /\ Present(held[t]) /\ held[t].inst = redis[chan[t]].inst
  BY DEF SInv, IInv, Located, Serial, Hands
<1>3. redis'[chan[t]] = held[t] /\ \A d \in Channel : d # chan[t] => redis'[d] = redis[d]
  BY <1>2 DEF SInv, IInv, TypeOK
<1>4. \A d \in Channel : redis'[d].inst = redis[d].inst
  BY <1>2, <1>3
<1>5. Housed'
  BY <1>1, <1>4 DEF SInv, Serial, Housed
<1>6. Room'
  BY <1>4, RoomShrinks DEF Taken, Tracked, Present
<1>7. ASSUME NEW v \in Prompt, vst'[v] = "open", vinst[v] \in running
      PROVE  redis'[vchan[v]].inst = vinst[v] /\ Counted(redis[vchan[v]], v)'
  <2>1. v \in Viewer /\ vst[v] = "open"
    BY <1>7, PromptAssumption
  <2>2. redis[vchan[v]].inst = vinst[v] /\ Counted(redis[vchan[v]], v) /\ vchan[v] \in Channel
    BY <1>7, <2>1 DEF SInv, IInv, Located, Serial, Watched
  <2>3. CASE vchan[v] = chan[t]
    <3>1. Counted(held[t], v)
      BY <1>7, <2>1, <2>3 DEF SInv, Serial, Watched
    <3>2. (v \in beat' /\ v \notin beat) => held[t].seen[v] = 0
      <4>1. SUFFICES ASSUME v \in beat', v \notin beat PROVE held[t].seen[v] = 0
        OBVIOUS
      <4>2. who[t] = v /\ pc[t] = "beat_set" /\ op[t] = "heartbeat"
        BY <4>1
      <4>3. v \in held[t].viewers
        BY <3>1 DEF Counted
      <4>4. QED
        BY <2>1, <4>2, <4>3, NoOneAssumption DEF SInv, Serial, Watched
    <3>3. QED
      BY <1>3, <1>4, <2>2, <2>3, <3>1, <3>2, <1>2 DEF Counted
  <2>4. CASE vchan[v] # chan[t]
    <3>1. v \in beat' => v \in beat
      <4>1. SUFFICES ASSUME v \in beat', v \notin beat PROVE FALSE
        OBVIOUS
      <4>2. who[t] = v /\ op[t] = "heartbeat"
        BY <4>1
      <4>3. vchan[v] = chan[t]
        BY <2>1, <4>2 DEF SInv, Serial, Placed
      <4>4. QED
        BY <2>4, <4>3
    <3>2. QED
      BY <1>3, <2>2, <2>4, <3>1 DEF Counted
  <2>5. QED
    BY <2>3, <2>4
<1>8. QED
  BY <1>2, <1>3, <1>5, <1>6, <1>7

\* ... and then their handlers are done.
LEMMA WriteAndLeave ==
    ASSUME OneAtATime, SInv, NEW t \in Thread, pc[t] \in {"stop_set", "beat_set", "del"}, Leave(t),
           \/ /\ pc[t] # "del"
              /\ redis' = [redis EXCEPT ![chan[t]] = held[t]]
              /\ beat' = beat \/ (/\ pc[t] = "beat_set" /\ op[t] = "heartbeat"
                                  /\ beat' = beat \cup ({who[t]} \cap Viewer))
           \/ /\ pc[t] = "del"
              /\ redis' = [redis EXCEPT ![chan[t]] = NoState]
              /\ beat' = beat,
           UNCHANGED <<running, chanOf, cwd, vchan, vinst>>,
           \A v \in Viewer : (vst'[v] = "new" <=> vst[v] = "new") /\ (vst'[v] = "open" => vst[v] = "open")
    PROVE  Serial'
<1>1. \A u \in Thread : u = t
  BY OneThread
<1>2. pc'[t] = "idle" /\ op'[t] = "none" /\ who'[t] = NoOne
  BY LeaveAt
<1>3. /\ Housed' /\ Room'
      /\ \A v \in Prompt :
           (vst'[v] = "open" /\ vinst[v] \in running)
              => redis'[vchan[v]].inst = vinst[v] /\ Counted(redis[vchan[v]], v)'
  <2>1. CASE pc[t] # "del"
    BY <1>2, <2>1, WriteBack
  <2>2. CASE pc[t] = "del"
    <3>1. /\ Housed' /\ Room'
          /\ \A v \in Prompt :
               (vst'[v] = "open" /\ vinst[v] \in running)
                  => redis'[vchan[v]].inst = vinst[v] /\ Counted(redis'[vchan[v]], v)
      BY <1>2, <2>2, StateGone
    <3>2. beat' = beat /\ vchan' = vchan
      BY <2>2
    <3>3. QED
      BY <3>1, <3>2 DEF Counted
  <2>3. QED
    BY <2>1, <2>2
<1>4. Hands' /\ Lists'
  BY LeaveSerial
<1>5. Placed'
  BY <1>1, <1>2 DEF SInv, Serial, Placed
<1>6. Watched'
  BY <1>1, <1>2, <1>3 DEF Watched
<1>7. QED
  BY <1>3, <1>4, <1>5, <1>6 DEF Serial

LEMMA StopSetSerial ==
    ASSUME OneAtATime, SInv, NEW t \in Thread, StopSet(t)
    PROVE  Serial'
<1>1. \A u \in Viewer : (vst'[u] = "new" <=> vst[u] = "new") /\ (vst'[u] = "open" => vst[u] = "open")
  BY AnswerAt DEF StopSet
<1>2. QED
  BY <1>1, WriteAndLeave DEF StopSet, systemVars

LEMMA BeatSetSerial ==
    ASSUME OneAtATime, SInv, NEW t \in Thread, BeatSet(t)
    PROVE  Serial'
<1>1. /\ pc[t] = "beat_set" /\ Leave(t) /\ redis' = [redis EXCEPT ![chan[t]] = held[t]]
      /\ beat' = beat \/ (op[t] = "heartbeat" /\ beat' = beat \cup ({who[t]} \cap Viewer))
      /\ UNCHANGED <<running, chanOf, cwd, vst, vchan, vinst>>
  BY DEF BeatSet, systemVars
<1>2. QED
  BY <1>1, WriteAndLeave

LEMMA KillSerial ==
    ASSUME OneAtATime, SInv, NEW t \in Thread, Kill(t)
    PROVE  Serial'
<1>1. \A u \in Thread : u = t
  BY OneThread
<1>2. /\ pc[t] = "kill" /\ pc'[t] = "files" /\ running' = running \ {held[t].inst}
      /\ UNCHANGED <<redis, chanOf, cwd, op, chan, who, todo, held, vst, vchan, vinst, beat>>
  BY GotoAt DEF Kill, redisVars, viewerVars
<1>3. Hands'
  BY <1>1, <1>2 DEF SInv, Serial, Hands, Present
<1>4. Lists'
  BY <1>1, <1>2 DEF Lists
<1>5. Housed'
  BY <1>1, <1>2 DEF SInv, Serial, Housed
<1>6. Watched'
  BY <1>1, <1>2 DEF SInv, Serial, Watched, Counted
<1>7. Room'
  BY <1>2, RoomShrinks DEF Taken, Tracked
<1>8. QED
  BY <1>2, <1>3, <1>4, <1>5, <1>6, <1>7, PlacedSame DEF SInv, Serial

LEMMA DelSerial ==
    ASSUME OneAtATime, SInv, NEW t \in Thread, Del(t)
    PROVE  Serial'
<1>1. \A u \in Thread : u = t
  BY OneThread
<1>2. /\ pc[t] = "del" /\ redis' = [redis EXCEPT ![chan[t]] = NoState]
      /\ UNCHANGED <<running, chanOf, cwd, vchan, vinst, beat>>
  BY DEF Del, systemVars
<1>3. CASE op[t] \in SweepOps
  <2>1. /\ pc'[t] = "next" /\ held'[t] = NoState
        /\ UNCHANGED <<op, chan, who, todo, vst>>
    BY <1>3, GotoAt, HoldAt DEF Del
  <2>2. /\ Housed' /\ Room'
        /\ \A v \in Prompt :
             (vst'[v] = "open" /\ vinst[v] \in running)
                => redis'[vchan[v]].inst = vinst[v] /\ Counted(redis'[vchan[v]], v)
    BY <1>2, <2>1, StateGone
  <2>3. Hands'
    BY <1>1, <1>3, <2>1, NoStateType DEF Hands, Present, SweepOps
  <2>4. Lists'
    BY <1>1, <2>1 DEF Lists
  <2>5. Watched'
    BY <1>1, <1>2, <2>1, <2>2 DEF Watched, Counted
  <2>6. QED
    BY <1>2, <2>1, <2>2, <2>3, <2>4, <2>5, PlacedSame DEF SInv, Serial
<1>4. CASE op[t] \notin SweepOps
  <2>1. Leave(t)
    BY <1>4 DEF Del
  <2>2. PICK from \in {"closing", "open"}, to \in {"closed", "failed"} : Answer(who[t], from, to)
    BY <1>4 DEF Del
  <2>3. \A u \in Viewer : (vst'[u] = "new" <=> vst[u] = "new") /\ (vst'[u] = "open" => vst[u] = "open")
    BY <2>2, AnswerAt
  <2>4. QED
    BY <1>2, <2>1, <2>3, WriteAndLeave
<1>5. QED
  BY <1>3, <1>4

-----------------------------------------------------------------------------
(* What a viewer's calls do between their first read and their write.      *)

\* A handler that reads on, and now holds s.
LEMMA ReadOn ==
    ASSUME OneAtATime, SInv, NEW t \in Thread, NEW s \in State,
           pc[t] \in {"fetch_get", "manifest_build"}, pc'[t] = "beat_set", held'[t] = s,
           Present(s), s.inst = redis[chan[t]].inst, s.viewers = redis[chan[t]].viewers,
           \/ pc[t] = "fetch_get" /\ \A u \in Viewer : Counted(redis[chan[t]], u) => Counted(s, u)
           \/ pc[t] = "manifest_build" /\ \A u \in Viewer : Counted(held[t], u) => Counted(s, u),
           UNCHANGED <<redis, running, chanOf, cwd, op, chan, who, todo, vst, vchan, vinst, beat>>
    PROVE  Serial'
<1>1. \A u \in Thread : u = t
  BY OneThread
<1>2. op[t] # "heartbeat"
  BY DEF SInv, Serial, Hands
<1>3. Hands'
  BY <1>1 DEF Hands, Present
<1>4. Lists'
  BY <1>1 DEF Lists
<1>5. Housed'
  BY <1>1 DEF SInv, Serial, Housed
<1>6. Watched'
  <2>1. ASSUME NEW v \in Prompt, vst[v] = "open", vinst[v] \in running
        PROVE  redis[vchan[v]].inst = vinst[v] /\ Counted(redis[vchan[v]], v)
    BY <2>1 DEF SInv, Serial, Watched
  <2>2. ASSUME NEW v \in Prompt, vst[v] = "open", vinst[v] \in running, vchan[v] = chan[t]
        PROVE  Counted(s, v)
    <3>1. v \in Viewer /\ Counted(redis[chan[t]], v)
      BY <2>1, <2>2, PromptAssumption
    <3>2. pc[t] = "manifest_build" => Counted(held[t], v)
      BY <2>2 DEF SInv, Serial, Watched
    <3>3. QED
      BY <3>1, <3>2
  <2>3. \A v \in Prompt : (vst[v] = "open" /\ vinst[v] \in running)'
           => redis'[vchan'[v]].inst = vinst'[v] /\ Counted(redis'[vchan'[v]], v)
    BY <2>1 DEF Counted
  <2>4. \A u \in Thread, v \in Prompt : (vst[v] = "open" /\ vinst[v] \in running)' /\ vchan'[v] = chan'[u]
           => Counted(held'[u], v)
    BY <1>1, <2>2 DEF Counted
  <2>5. \A u \in Thread : pc'[u] # "start_set" /\ ~(pc'[u] = "beat_set" /\ op'[u] = "heartbeat")
    BY <1>1, <1>2
  <2>6. QED
    BY <2>3, <2>4, <2>5 DEF Watched, Counted
<1>7. Room'
  BY RoomShrinks DEF Taken, Tracked
<1>8. QED
  BY <1>3, <1>4, <1>5, <1>6, <1>7, PlacedSame DEF SInv, Serial

LEMMA FetchGetSerial ==
    ASSUME OneAtATime, SInv, NEW t \in Thread, FetchGet(t)
    PROVE  Serial'
<1>1. /\ pc[t] = "fetch_get" /\ chan[t] \in Channel /\ redis[chan[t]] \in State
      /\ UNCHANGED <<redis, running, chanOf, cwd, vst, vchan, vinst, beat>>
  BY DEF FetchGet, redisVars, systemVars, viewerVars, SInv, IInv, TypeOK, Located
<1>2. CASE Present(redis[chan[t]])
  <2>1. PICK s : s = [redis[chan[t]] EXCEPT !.last = 0]
    OBVIOUS
  <2>2. s \in State /\ s.inst = redis[chan[t]].inst
    BY <1>1, <2>1, FreshType DEF SameProcess
  <2>3. /\ s.viewers = redis[chan[t]].viewers
        /\ \A u \in Viewer : Counted(redis[chan[t]], u) => Counted(s, u)
    BY <1>1, <2>1, FreshLists
  <2>4. pc'[t] = "beat_set" /\ held'[t] = s /\ UNCHANGED <<op, chan, who, todo>>
    BY <1>2, <2>1, GotoAt, HoldAt DEF FetchGet
  <2>5. Present(s)
    BY <1>2, <2>2 DEF Present
  <2>6. QED
    BY <1>1, <2>2, <2>3, <2>4, <2>5, ReadOn
<1>3. CASE ~Present(redis[chan[t]])
  <2>1. Leave(t)
    BY <1>3 DEF FetchGet
  <2>2. QED
    BY <1>1, <2>1, QuitSerial
<1>4. QED
  BY <1>2, <1>3

LEMMA ManifestBuildSerial ==
    ASSUME OneAtATime, SInv, NEW t \in Thread, ManifestBuild(t)
    PROVE  Serial'
<1>1. /\ pc[t] = "manifest_build" /\ held[t] \in State
      /\ Present(held[t]) /\ held[t].inst = redis[chan[t]].inst
      /\ held[t].viewers = redis[chan[t]].viewers
      /\ UNCHANGED <<redis, running, chanOf, cwd, vst, vchan, vinst, beat>>
  BY DEF ManifestBuild, redisVars, systemVars, viewerVars, SInv, IInv, TypeOK, Serial, Hands, Lists
<1>2. CASE dir[chan[t]] = "playlist"
  <2>1. PICK s : s = [held[t] EXCEPT !.last = 0]
    OBVIOUS
  <2>2. s \in State /\ s.inst = held[t].inst
    BY <1>1, <2>1, FreshType DEF SameProcess
  <2>3. s.viewers = held[t].viewers /\ \A u \in Viewer : Counted(held[t], u) => Counted(s, u)
    BY <1>1, <2>1, FreshLists
  <2>4. pc'[t] = "beat_set" /\ held'[t] = s /\ UNCHANGED <<op, chan, who, todo>>
    BY <1>2, <2>1, GotoAt, HoldAt DEF ManifestBuild
  <2>5. Present(s)
    BY <1>1, <2>2 DEF Present
  <2>6. QED
    BY <1>1, <2>2, <2>3, <2>4, <2>5, ReadOn
<1>3. CASE Leave(t)
  BY <1>1, <1>3, QuitSerial
<1>4. CASE Goto(t, "kill") /\ KeepLocals /\ UNCHANGED held
  <2>1. \A u \in Thread : u = t
    BY OneThread
  <2>2. pc'[t] = "kill" /\ UNCHANGED <<op, chan, who, todo, held>>
    BY <1>4, GotoAt
  <2>3. Hands'
    BY <1>1, <2>1, <2>2 DEF Hands, Present
  <2>4. Lists'
    BY <2>1, <2>2 DEF Lists
  <2>5. Housed'
    BY <1>1, <2>1, <2>2 DEF SInv, Serial, Housed
  <2>6. Watched'
    BY <1>1, <2>1, <2>2 DEF SInv, Serial, Watched, Counted
  <2>7. Room'
    BY <1>1, <2>2, RoomShrinks DEF Taken, Tracked
  <2>8. QED
    BY <1>1, <2>2, <2>3, <2>4, <2>5, <2>6, <2>7, PlacedSame DEF SInv, Serial
<1>5. QED
  BY <1>2, <1>3, <1>4 DEF ManifestBuild

-----------------------------------------------------------------------------
(* The walks of the reaper, of stop_all and of stop().                     *)

LEMMA NextBufferSerial ==
    ASSUME OneAtATime, SInv, NEW t \in Thread, NextBuffer(t)
    PROVE  Serial'
<1>1. \A u \in Thread : u = t
  BY OneThread
<1>. DEFINE S2(c) == IF op[t] = "reap" THEN Pruned(redis[c]) ELSE redis[c]
            L(c)  == IF ~Present(redis[c]) THEN "next"
                     ELSE IF S2(c) # redis[c] THEN "reap_set"
                     ELSE IF op[t] # "reap" \/ Idle(redis[c]) THEN "kill" ELSE "next"
<1>2. PICK c \in todo[t] :
        /\ Goto(t, L(c))
        /\ chan' = [chan EXCEPT ![t] = IF L(c) = "next" THEN NoOne ELSE c]
        /\ Hold(t, IF L(c) = "next" THEN NoState ELSE S2(c))
  BY DEF NextBuffer
<1>3. PICK s2 : s2 = S2(c)
  OBVIOUS
<1>4. PICK l : l = L(c)
  OBVIOUS
<1>5. /\ Goto(t, l)
       /\ chan' = [chan EXCEPT ![t] = IF l = "next" THEN NoOne ELSE c]
       /\ Hold(t, IF l = "next" THEN NoState ELSE s2)
  BY <1>2, <1>3, <1>4
<1>6. /\ pc[t] = "next" /\ UNCHANGED <<redis, running, chanOf, cwd, op, who, vst, vchan, vinst, beat>>
  BY DEF NextBuffer, redisVars, systemVars, viewerVars
<1>7. /\ c \in Channel /\ redis[c] \in State
  BY DEF SInv, IInv, TypeOK
<1>8. op[t] \in {"reap", "stop_all", "disable"}
  BY <1>6 DEF SInv, Serial, Hands
<1>9. /\ s2.inst = redis[c].inst /\ s2.viewers \subseteq redis[c].viewers
      /\ \A u \in Viewer : Counted(redis[c], u) => Counted(s2, u)
  <2>1. SameProcess(Pruned(redis[c]), redis[c])
    BY <1>7, PrunedType
  <2>2. /\ Pruned(redis[c]).viewers \subseteq redis[c].viewers
        /\ \A u \in Viewer : Counted(redis[c], u) => Counted(Pruned(redis[c]), u)
    BY <1>7, PrunedLists
  <2>3. QED
    BY <1>3, <2>1, <2>2 DEF SameProcess
<1>10. /\ pc'[t] = l /\ l \in {"next", "reap_set", "kill"}
       /\ l # "next" => chan'[t] = c /\ held'[t] = s2 /\ Present(redis[c])
       /\ l = "next" => chan'[t] = NoOne /\ held'[t] = NoState
  <2>1. pc \in [Thread -> PC] /\ chan \in [Thread -> Channel \cup {NoOne}] /\ held \in [Thread -> State]
    BY DEF SInv, IInv, TypeOK
  <2>2. QED
    BY <1>3, <1>4, <1>5, <2>1 DEF Goto, Hold
<1>. HIDE DEF S2, L
<1>11. Hands'
  BY <1>1, <1>6, <1>8, <1>9, <1>10, NoStateType DEF Hands, Present
<1>12. Lists'
  BY <1>1, <1>6, <1>9, <1>10 DEF Lists
<1>13. Housed'
  BY <1>1, <1>6, <1>10 DEF SInv, Serial, Housed
<1>14. Placed'
  BY <1>1, <1>6, <1>8 DEF SInv, Serial, Placed
<1>15. Watched'
  <2>1. ASSUME NEW v \in Prompt, vst[v] = "open", vinst[v] \in running
        PROVE  redis[vchan[v]].inst = vinst[v] /\ Counted(redis[vchan[v]], v)
    BY <2>1 DEF SInv, Serial, Watched
  <2>2. ASSUME NEW v \in Prompt, vst[v] = "open", vinst[v] \in running, vchan[v] = c
        PROVE  Counted(s2, v)
    BY <1>9, <2>1, <2>2, PromptAssumption
  <2>3. QED
    BY <1>1, <1>6, <1>10, <2>1, <2>2 DEF Watched, Counted
<1>16. Room'
  BY <1>6, <1>10, RoomShrinks DEF Taken, Tracked
<1>17. QED
  BY <1>11, <1>12, <1>13, <1>14, <1>15, <1>16 DEF Serial

LEMMA ReapSetSerial ==
    ASSUME OneAtATime, SInv, NEW t \in Thread, ReapSet(t)
    PROVE  Serial'
<1>1. \A u \in Thread : u = t
  BY OneThread
<1>2. /\ pc[t] = "reap_set" /\ redis' = [redis EXCEPT ![chan[t]] = held[t]]
      /\ UNCHANGED <<running, chanOf, cwd, op, who, todo, vst, vchan, vinst, beat>>
  BY DEF ReapSet, systemVars, viewerVars
<1>3. \/ pc'[t] = "kill" /\ held'[t] = held[t] /\ chan'[t] = chan[t]
      \/ pc'[t] = "next" /\ held'[t] = NoState /\ chan'[t] = NoOne
  BY DEF ReapSet, Goto, Hold, SInv, IInv, TypeOK
<1>4. /\ Housed' /\ Room'
      /\ \A v \in Prompt :
           (vst'[v] = "open" /\ vinst[v] \in running)
              => redis'[vchan[v]].inst = vinst[v] /\ Counted(redis[vchan[v]], v)'
      /\ chan[t] \in Channel /\ redis'[chan[t]] = held[t] /\ Present(held[t])
  BY <1>2, <1>3, WriteBack
<1>5. op[t] \in {"reap", "stop_all", "disable"}
  BY <1>2 DEF SInv, Serial, Hands
<1>6. Hands'
  BY <1>1, <1>2, <1>3, <1>4, <1>5, NoStateType DEF Hands, Present
<1>7. Lists'
  BY <1>1, <1>3 DEF Lists
<1>8. Placed'
  BY <1>1, <1>2, <1>5 DEF SInv, Serial, Placed
<1>9. Watched'
  BY <1>1, <1>2, <1>3, <1>4 DEF Watched
<1>10. QED
  BY <1>4, <1>6, <1>7, <1>8, <1>9 DEF Serial

LEMMA SweepEndSerial ==
    ASSUME OneAtATime, SInv, NEW t \in Thread, SweepEnd(t)
    PROVE  Serial'
<1>1. \A u \in Thread : u = t
  BY OneThread
<1>2. /\ pc[t] = "next"
      /\ UNCHANGED <<redis, running, chanOf, cwd, vst, vchan, vinst, beat>>
  BY DEF SweepEnd, redisVars, systemVars, viewerVars
<1>3. CASE Leave(t)
  BY <1>2, <1>3, QuitSerial
<1>4. CASE Goto(t, "scrub_rm") /\ todo' = [todo EXCEPT ![t] = Orphans] /\ UNCHANGED <<op, chan, who, held>>
  <2>1. pc'[t] = "scrub_rm" /\ todo'[t] = Orphans
    BY <1>4 DEF Goto, SInv, IInv, TypeOK
  <2>2. \A c \in Orphans : ~Present(redis[c])
    BY DEF Orphans
  <2>3. Hands'
    BY <1>1, <1>2, <1>4, <2>1, <2>2 DEF SInv, Serial, Hands, Present
  <2>4. Lists'
    BY <1>1, <2>1 DEF Lists
  <2>5. Housed'
    BY <1>1, <1>2, <2>1 DEF SInv, Serial, Housed
  <2>6. Watched'
    BY <1>1, <1>2, <1>4, <2>1 DEF SInv, Serial, Watched, Counted
  <2>7. Room'
    BY <1>2, <2>1, RoomShrinks DEF Taken, Tracked
  <2>8. QED
    BY <1>2, <1>4, <2>3, <2>4, <2>5, <2>6, <2>7, PlacedSame DEF SInv, Serial
<1>5. QED
  BY <1>3, <1>4 DEF SweepEnd

\* An orphan's directory is no process' working directory.
LEMMA ScrubRemoveSerial ==
    ASSUME OneAtATime, SInv, NEW t \in Thread, ScrubRemove(t)
    PROVE  Serial'
<1>1. \A u \in Thread : u = t
  BY OneThread
<1>2. PICK c \in todo[t] :
        /\ RemoveDir(c)
        /\ \/ Leave(t)
           \/ todo' = [todo EXCEPT ![t] = @ \ {c}] /\ UNCHANGED <<pc, op, chan, who, held>>
  BY DEF ScrubRemove
<1>3. /\ pc[t] = "scrub_rm"
      /\ UNCHANGED <<redis, running, chanOf, vst, vchan, vinst, beat>>
  BY DEF ScrubRemove, redisVars, viewerVars
<1>4. running \subseteq cwd'
  <2>1. ~Present(redis[c])
    BY <1>3 DEF SInv, Serial, Hands
  <2>2. \A i \in running : i \in cwd /\ i # NoOne /\ redis[chanOf[i]].inst = i
    BY <1>1, <1>3, NoOneAssumption DEF SInv, IInv, TypeOK, Serial, Housed
  <2>3. \A i \in running : chanOf[i] # c
    BY <2>1, <2>2 DEF Present
  <2>4. QED
    BY <1>2, <2>2, <2>3 DEF RemoveDir
<1>5. Housed'
  <2>1. \A i \in running : chanOf[i] \in Channel /\ redis[chanOf[i]].inst = i
    BY <1>1, <1>3 DEF SInv, Serial, Housed
  <2>2. QED
    BY <1>3, <1>4, <2>1 DEF Housed
<1>6. CASE Leave(t)
  <2>1. pc'[t] = "idle" /\ op'[t] = "none" /\ who'[t] = NoOne
    BY <1>6, LeaveAt
  <2>2. Hands' /\ Lists'
    BY <1>6, LeaveSerial
  <2>3. Placed'
    BY <1>1, <1>3, <2>1 DEF SInv, Serial, Placed
  <2>4. Watched'
    BY <1>1, <1>3, <2>1 DEF SInv, Serial, Watched, Counted
  <2>5. Room'
    BY <1>3, <2>1, RoomShrinks DEF Taken, Tracked
  <2>6. QED
    BY <1>5, <2>2, <2>3, <2>4, <2>5 DEF Serial
<1>7. CASE todo' = [todo EXCEPT ![t] = @ \ {c}] /\ UNCHANGED <<pc, op, chan, who, held>>
  <2>1. todo'[t] \subseteq todo[t]
    BY <1>7 DEF SInv, IInv, TypeOK
  <2>2. Hands'
    BY <1>1, <1>3, <1>7, <2>1 DEF SInv, Serial, Hands, Present
  <2>3. QED
    BY <1>3, <1>5, <1>7, <2>2, ListsSame, PlacedSame, WatchedSame, RoomSame DEF SInv, Serial
<1>8. QED
  BY <1>2, <1>6, <1>7

-----------------------------------------------------------------------------
(* The invariant holds.                                                    *)

LEMMA SerialInit == Init => Serial
<1>1. SUFFICES ASSUME Init PROVE Serial
  OBVIOUS
<1>2. Hands /\ Lists
  BY <1>1, NoStateType DEF Init, Hands, Lists, Present
<1>3. Housed /\ Placed
  BY <1>1 DEF Init, Housed, Placed
<1>4. Watched
  BY <1>1, PromptAssumption DEF Init, Watched
<1>5. Room
  <2>1. Taken = {}
    BY <1>1, NoStateType DEF Init, Taken, Tracked, Present
  <2>2. IsFiniteSet(Taken) /\ Cardinality(Taken) = 0
    BY <2>1, FS_EmptySet
  <2>3. QED
    BY <1>1, <2>2, CapAssumption DEF Init, Room
<1>6. QED
  BY <1>2, <1>3, <1>4, <1>5 DEF Serial

LEMMA UnchangedSerial ==
    ASSUME SInv, UNCHANGED vars
    PROVE  Serial'
<1>1. UNCHANGED <<redis, running, chanOf, cwd, pc, op, chan, who, held, todo, vst, vchan, vinst, beat>>
  BY DEF vars, redisVars, systemVars, threadVars, viewerVars
<1>2. QED
  BY <1>1, HandsSame, ListsSame, HousedSame, PlacedSame, WatchedSame, RoomSame DEF SInv, Serial

LEMMA SerialNext ==
    ASSUME OneAtATime, SInv, [Next]_vars
    PROVE  Serial'
<1>1. ASSUME NEW t \in Thread, ViewerCall(t) PROVE Serial'
  BY <1>1, StartCallSerial, StopCallSerial, HeartbeatCallSerial, FetchCallSerial, ManifestCallSerial
  DEF ViewerCall
<1>2. ASSUME NEW t \in Thread, AdminCall(t) PROVE Serial'
  BY <1>2, StartCallSerial, StopCallNoIdSerial, SweepCallSerial DEF AdminCall
<1>3. ASSUME NEW t \in Thread, ReapBegin(t) PROVE Serial'
  BY <1>3, SweepCallSerial
<1>4. ASSUME NEW t \in Thread, HandlerStep(t) PROVE Serial'
  BY <1>4, StartCheckSerial, FilesSerial, DeadDelSerial, StartCountSerial, LaunchSerial,
     LaunchFailsSerial, StartSetSerial, StopSetSerial, KillSerial, DelSerial, FetchGetSerial,
     ManifestBuildSerial, BeatSetSerial, NextBufferSerial, ReapSetSerial, SweepEndSerial,
     ScrubRemoveSerial
  DEF HandlerStep
<1>5. ASSUME NEW t \in Thread, GiveUp(t) PROVE Serial'
  BY <1>5, GiveUpSerial
<1>6. ASSUME NEW t \in Thread, Crash(t) PROVE Serial'
  BY <1>6 DEF Crash, OneAtATime, SInv, IInv, TypeOK
<1>7. ASSUME NEW i \in Instance, Segment(i) \/ ProcExit(i) PROVE Serial'
  BY <1>7, SegmentSerial, ProcExitSerial
<1>8. ASSUME NEW v \in Viewer, Vanish(v) PROVE Serial'
  BY <1>8, VanishSerial
<1>9. ASSUME NEW c \in Channel, Expire(c) PROVE Serial'
  BY <1>9 DEF Expire, OneAtATime
<1>10. ASSUME (\E c \in Channel : DirAge(c)) \/ LeaderExpire PROVE Serial'
  BY <1>10, SegmentSerial
<1>11. ASSUME Tick PROVE Serial'
  BY <1>11, TickSerial
<1>12. ASSUME UNCHANGED vars PROVE Serial'
  BY <1>12, UnchangedSerial
<1>13. QED
  BY <1>1, <1>2, <1>3, <1>4, <1>5, <1>6, <1>7, <1>8, <1>9, <1>10, <1>11, <1>12
  DEF Next, ThreadStep, Environment

LEMMA SerialInvariance == OneAtATime => (Spec => []SInv)
<1>1. SUFFICES ASSUME OneAtATime PROVE Spec => []SInv
  OBVIOUS
<1>2. Init => SInv
  BY InvInit, SerialInit DEF SInv
<1>3. SInv /\ [Next]_vars => SInv'
  BY <1>1, InvNext, SerialNext DEF SInv
<1>4. QED
  BY <1>2, <1>3, PTL DEF Spec

\* Every process is the one that Redis, or the hand of a handler, has for its channel.
LEMMA OneEach ==
    ASSUME OneAtATime, SInv
    PROVE  OneProcessPerChannel /\ NoLostProcess
<1>1. \A i \in running : \/ redis[chanOf[i]].inst = i
                         \/ \E t \in Thread : pc[t] = "start_set" /\ held[t].inst = i
  BY DEF SInv, Serial, Housed
<1>2. ASSUME NEW i \in running, NEW j \in running, chanOf[i] = chanOf[j]
      PROVE  i = j
  <2>1. i # NoOne /\ j # NoOne /\ chanOf[i] \in Channel
    BY NoOneAssumption DEF SInv, IInv, TypeOK, Serial, Housed
  <2>2. \A t \in Thread : pc[t] = "start_set" =>
            /\ Present(held[t]) /\ redis[chan[t]].inst \in {held[t].inst, NoOne}
            /\ chanOf[held[t].inst] = chan[t]
    BY DEF SInv, IInv, ChannelBound, Serial, Hands
  <2>3. CASE redis[chanOf[i]].inst = i /\ redis[chanOf[j]].inst = j
    BY <1>2, <2>3
  <2>4. ASSUME NEW t \in Thread, pc[t] = "start_set", held[t].inst = i, redis[chanOf[j]].inst = j
        PROVE  i = j
    BY <1>2, <2>1, <2>2, <2>4
  <2>5. ASSUME NEW t \in Thread, pc[t] = "start_set", held[t].inst = j, redis[chanOf[i]].inst = i
        PROVE  i = j
    BY <1>2, <2>1, <2>2, <2>5
  <2>6. ASSUME NEW t \in Thread, held[t].inst = i, NEW u \in Thread, held[u].inst = j
        PROVE  i = j
    <3>1. t = u
      BY DEF OneAtATime
    <3>2. QED
      BY <2>6, <3>1
  <2>7. QED
    BY <1>1, <2>3, <2>4, <2>5, <2>6
<1>3. OneProcessPerChannel
  BY <1>2 DEF OneProcessPerChannel
<1>4. NoLostProcess
  BY <1>1 DEF NoLostProcess
<1>5. QED
  BY <1>3, <1>4

\* Each process has taken a place of its own.
LEMMA CountsHold ==
    ASSUME OneAtATime, SInv
    PROVE  Capped
<1>. DEFINE f == [i \in running |-> chanOf[i]]
<1>1. IsFiniteSet(Taken) /\ Cardinality(Taken) <= MaxConcurrent
  BY DEF SInv, Serial, Room
<1>2. ASSUME NEW i \in running PROVE chanOf[i] \in Taken
  <2>1. i # NoOne /\ chanOf[i] \in Channel
    BY NoOneAssumption DEF SInv, IInv, TypeOK, Serial, Housed
  <2>2. CASE redis[chanOf[i]].inst = i
    BY <2>1, <2>2 DEF Taken, Tracked, Present
  <2>3. ASSUME NEW t \in Thread, pc[t] = "start_set", held[t].inst = i
        PROVE  chanOf[i] \in Taken
    <3>1. chanOf[i] = chan[t]
      BY <2>1, <2>3 DEF SInv, IInv, ChannelBound, Present
    <3>2. QED
      BY <2>3, <3>1 DEF Taken
  <2>4. QED
    BY <2>2, <2>3 DEF SInv, Serial, Housed
<1>3. f \in Injection(running, Taken)
  <2>1. f \in [running -> Taken]
    BY <1>2
  <2>2. \A i, j \in running : f[i] = f[j] => i = j
    BY OneEach DEF OneProcessPerChannel
  <2>3. QED
    BY <2>1, <2>2 DEF Injection, IsInjective
<1>4. IsFiniteSet(running) /\ Cardinality(running) <= Cardinality(Taken)
  BY <1>1, <1>3, FS_Injection
<1>5. Cardinality(running) \in Nat /\ Cardinality(Taken) \in Nat
  BY <1>1, <1>4, FS_CardinalityType
<1>6. QED
  BY <1>1, <1>4, <1>5, CapAssumption DEF Capped

LEMMA ViewersHold ==
    ASSUME SInv
    PROVE  ViewerKept /\ Writable
<1>1. ViewerKept
  BY DEF SInv, Serial, Watched, Counted, ViewerKept
<1>2. Writable
  BY DEF SInv, Serial, Housed, Writable
<1>3. QED
  BY <1>1, <1>2

\* Where no two handlers overlap, no worker dies and no state outlives its TTL, two viewers of
\* a channel never cause two processes for it.
THEOREM OneProcessPerChannelHolds == OneAtATime => (Spec => []OneProcessPerChannel)
<1>1. SUFFICES ASSUME OneAtATime PROVE Spec => []OneProcessPerChannel
  OBVIOUS
<1>2. SInv => OneProcessPerChannel
  BY <1>1, OneEach
<1>3. Spec => []SInv
  BY <1>1, SerialInvariance
<1>4. QED
  BY <1>2, <1>3, PTL

\* ... and no process runs that neither Redis nor a handler can name,
THEOREM NoLostProcessHolds == OneAtATime => (Spec => []NoLostProcess)
<1>1. SUFFICES ASSUME OneAtATime PROVE Spec => []NoLostProcess
  OBVIOUS
<1>2. SInv => NoLostProcess
  BY <1>1, OneEach
<1>3. Spec => []SInv
  BY <1>1, SerialInvariance
<1>4. QED
  BY <1>2, <1>3, PTL

\* ... max_concurrent_buffers bounds the processes that run,
THEOREM CappedHolds == OneAtATime => (Spec => []Capped)
<1>1. SUFFICES ASSUME OneAtATime PROVE Spec => []Capped
  OBVIOUS
<1>2. SInv => Capped
  BY <1>1, CountsHold
<1>3. Spec => []SInv
  BY <1>1, SerialInvariance
<1>4. QED
  BY <1>2, <1>3, PTL

\* ... a viewer that keeps beating stays a viewer of the process it opened, whatever the other
\* viewers, the reaper and a failing launch do,
THEOREM ViewerKeptHolds == OneAtATime => (Spec => []ViewerKept)
<1>1. SUFFICES ASSUME OneAtATime PROVE Spec => []ViewerKept
  OBVIOUS
<1>2. SInv => ViewerKept
  BY <1>1, ViewersHold
<1>3. Spec => []SInv
  BY <1>1, SerialInvariance
<1>4. QED
  BY <1>2, <1>3, PTL

\* ... and no cleanup takes the directory of a process that Redis names.
THEOREM WritableHolds == OneAtATime => (Spec => []Writable)
<1>1. SUFFICES ASSUME OneAtATime PROVE Spec => []Writable
  OBVIOUS
<1>2. SInv => Writable
  BY <1>1, ViewersHold
<1>3. Spec => []SInv
  BY <1>1, SerialInvariance
<1>4. QED
  BY <1>2, <1>3, PTL

-----------------------------------------------------------------------------
(* The plugin, its handlers not overlapping, is a SharedBuffer.            *)

LEMMA SharedInit == Init => Shared!Init
<1>1. SUFFICES ASSUME Init PROVE Shared!Init
  OBVIOUS
<1>2. \A c \in Channel : redis[c].inst = NoOne /\ redis[c].viewers = {}
  BY <1>1 DEF Init, NoState
<1>3. Ended = {}
  BY <1>1 DEF Init, Ended
<1>4. QED
  BY <1>2, <1>3 DEF Shared!Init

\* What SharedBuffer sees of a step: the processes and the viewers in Redis, and who is over.
LEMMA SharedSame ==
    ASSUME \A c \in Channel : redis'[c].inst = redis[c].inst /\ redis'[c].viewers = redis[c].viewers,
           Ended' = Ended
    PROVE  UNCHANGED Shared!vars
  BY DEF Shared!vars

\* Nothing ends unless a write ends it.
LEMMA EndedSame ==
    ASSUME OneAtATime, SInv, NEW t \in Thread,
           \A i \in Instance : chanOf[i] # NoOne => redis'[chanOf[i]].inst = redis[chanOf[i]].inst,
           chanOf' = chanOf,
           pc[t] # "start_set" /\ pc'[t] # "start_set"
    PROVE  Ended' = Ended
<1>1. \A u \in Thread : u = t
  BY OneThread
<1>2. QED
  BY <1>1 DEF Ended

LEMMA SharedQuiet ==
    ASSUME OneAtATime, SInv, NEW t \in Thread, UNCHANGED <<redis, chanOf>>,
           pc[t] # "start_set" /\ pc'[t] # "start_set"
    PROVE  UNCHANGED Shared!vars
  BY EndedSame, SharedSame

\* A call that has only read, or a walk that has only listed.
LEMMA SharedCall ==
    ASSUME OneAtATime, SInv, NEW t \in Thread,
           \/ \E c \in Channel, v \in Viewer \cup {NoOne} : StartCall(t, c, v)
           \/ \E v \in Viewer : StopCall(t, v) \/ HeartbeatCall(t, v) \/ FetchCall(t, v) \/ ManifestCall(t, v)
           \/ \E c \in Channel : StopCallNoId(t, c)
           \/ StopAllCall(t) \/ ScrubCall(t) \/ ReapBegin(t)
    PROVE  UNCHANGED Shared!vars
<1>1. UNCHANGED <<redis, chanOf>>
  BY DEF StartCall, StopCall, HeartbeatCall, FetchCall, ManifestCall, StopCallNoId, StopAllCall, ScrubCall,
         ReapBegin, Sweep, redisVars, systemVars
<1>2. pc[t] = "idle" /\ pc'[t] # "start_set"
  BY DEF StartCall, StopCall, HeartbeatCall, FetchCall, ManifestCall, StopCallNoId, StopAllCall, ScrubCall,
         ReapBegin, Sweep, Enter, Goto, threadVars, SInv, IInv, TypeOK
<1>3. QED
  BY <1>1, <1>2, SharedQuiet

\* A step between the first read and the write.
LEMMA SharedMiddle ==
    ASSUME OneAtATime, SInv, NEW t \in Thread,
           \/ DeadFiles(t) \/ StartCount(t) \/ LaunchFails(t) \/ Kill(t) \/ Files(t) \/ FetchGet(t)
           \/ ManifestBuild(t) \/ NextBuffer(t) \/ SweepEnd(t) \/ ScrubRemove(t)
    PROVE  UNCHANGED Shared!vars
<1>1. UNCHANGED <<redis, chanOf>>
  BY DEF DeadFiles, StartCount, LaunchFails, Kill, Files, FetchGet, ManifestBuild, NextBuffer, SweepEnd,
         ScrubRemove, redisVars, systemVars
<1>2. pc[t] # "start_set"
  BY DEF DeadFiles, StartCount, LaunchFails, Kill, Files, FetchGet, ManifestBuild, NextBuffer, SweepEnd,
         ScrubRemove
<1>3. \/ pc' = pc \/ \E l \in PC \ {"start_set"} : pc' = [pc EXCEPT ![t] = l]
  <2>1. CASE DeadFiles(t) \/ StartCount(t) \/ LaunchFails(t) \/ Kill(t) \/ Files(t) \/ FetchGet(t)
    BY <2>1 DEF DeadFiles, StartCount, LaunchFails, Kill, Files, FetchGet, Leave, Goto, PC
  <2>2. CASE ManifestBuild(t)
    BY <2>2 DEF ManifestBuild, Leave, Goto, PC
  <2>3. CASE NextBuffer(t)
    BY <2>3 DEF NextBuffer, Goto, PC
  <2>4. CASE SweepEnd(t) \/ ScrubRemove(t)
    BY <2>4 DEF SweepEnd, ScrubRemove, Leave, Goto, PC
  <2>5. QED
    BY <2>1, <2>2, <2>3, <2>4
<1>4. pc'[t] # "start_set"
  BY <1>2, <1>3 DEF SInv, IInv, TypeOK
<1>5. QED
  BY <1>1, <1>2, <1>4, SharedQuiet

\* A process found alive, or one just launched, is not over before its state is written.
LEMMA SharedStartCheck ==
    ASSUME OneAtATime, SInv, NEW t \in Thread, StartCheck(t)
    PROVE  UNCHANGED Shared!vars
<1>1. \A u \in Thread : u = t
  BY OneThread
<1>2. /\ pc[t] = "start_check" /\ UNCHANGED <<redis, chanOf>>
      /\ Present(held[t]) /\ held[t].inst = redis[chan[t]].inst /\ held[t] \in State
      /\ who[t] \in Viewer \cup {NoOne} /\ chanOf[held[t].inst] = chan[t]
  BY DEF StartCheck, redisVars, systemVars, SInv, IInv, TypeOK, ChannelBound, Serial, Hands
<1>3. CASE held[t].inst \in running
  <2>1. pc'[t] = "start_set" /\ held'[t] = Registered(held[t], who[t])
    BY <1>3, GotoAt, HoldAt DEF StartCheck
  <2>2. held'[t].inst = held[t].inst
    BY <1>2, <2>1, RegisteredType DEF SameProcess
  <2>3. Ended' = Ended
    BY <1>1, <1>2, <2>1, <2>2 DEF Ended
  <2>4. QED
    BY <1>2, <2>3, SharedSame
<1>4. CASE held[t].inst \notin running
  <2>1. pc'[t] = "dead_files"
    BY <1>4, GotoAt DEF StartCheck
  <2>2. QED
    BY <1>2, <2>1, SharedQuiet
<1>5. QED
  BY <1>3, <1>4

LEMMA SharedLaunch ==
    ASSUME OneAtATime, SInv, NEW t \in Thread, Launch(t)
    PROVE  UNCHANGED Shared!vars
<1>1. \A u \in Thread : u = t
  BY OneThread
<1>2. PICK i \in Instance :
        chanOf[i] = NoOne /\ chanOf' = [chanOf EXCEPT ![i] = chan[t]] /\ Hold(t, NewState(i, who[t]))
  BY DEF Launch
<1>3. /\ pc[t] = "launch" /\ pc'[t] = "start_set" /\ held'[t] = NewState(i, who[t]) /\ redis' = redis
      /\ who[t] \in Viewer \cup {NoOne}
  BY <1>2, GotoAt, HoldAt DEF Launch, redisVars, SInv, IInv, TypeOK
<1>4. held'[t].inst = i
  BY <1>3, NewStateType
<1>5. chanOf'[i] = chan[t] /\ \A j \in Instance : j # i => chanOf'[j] = chanOf[j]
  BY <1>2 DEF SInv, IInv, TypeOK
<1>6. Ended' = Ended
  BY <1>1, <1>2, <1>3, <1>4, <1>5 DEF Ended
<1>7. QED
  BY <1>3, <1>6, SharedSame

LEMMA Overridden ==
    ASSUME NEW S, NEW T, NEW f \in [S -> T], NEW g \in [S -> T], NEW c \in S, NEW x, g[c] = x,
           \A d \in S : d # c => g[d] = f[d]
    PROVE  g = [f EXCEPT ![c] = x]
  OBVIOUS

\* What SharedBuffer sees of a write of s under the key of channel c.
LEMMA SharedWrite ==
    ASSUME SInv, NEW c \in Channel, NEW s \in State, redis' = [redis EXCEPT ![c] = s]
    PROVE  /\ [d \in Channel |-> redis[d].inst]' = [[d \in Channel |-> redis[d].inst] EXCEPT ![c] = s.inst]
           /\ [d \in Channel |-> redis[d].viewers]'
                 = [[d \in Channel |-> redis[d].viewers] EXCEPT ![c] = s.viewers]
           /\ redis'[c] = s /\ \A d \in Channel : d # c => redis'[d] = redis[d]
<1>1. redis'[c] = s /\ \A d \in Channel : d # c => redis'[d] = redis[d]
  BY DEF SInv, IInv, TypeOK
<1>2. /\ [d \in Channel |-> redis[d].inst] \in [Channel -> Instance \cup {NoOne}]
      /\ [d \in Channel |-> redis[d].viewers] \in [Channel -> SUBSET Viewer]
      /\ [d \in Channel |-> redis'[d].inst] \in [Channel -> Instance \cup {NoOne}]
      /\ [d \in Channel |-> redis'[d].viewers] \in [Channel -> SUBSET Viewer]
  <2>1. \A d \in Channel : redis[d] \in State /\ redis'[d] \in State
    BY <1>1 DEF SInv, IInv, TypeOK
  <2>2. QED
    BY <2>1 DEF State
<1>3. [d \in Channel |-> redis'[d].inst] = [[d \in Channel |-> redis[d].inst] EXCEPT ![c] = s.inst]
  <2>1. PICK f \in [Channel -> Instance \cup {NoOne}] : f = [d \in Channel |-> redis[d].inst]
    BY <1>2
  <2>2. PICK g \in [Channel -> Instance \cup {NoOne}] : g = [d \in Channel |-> redis'[d].inst]
    BY <1>2
  <2>3. g[c] = s.inst /\ \A d \in Channel : d # c => g[d] = f[d]
    BY <1>1, <2>1, <2>2
  <2>4. g = [f EXCEPT ![c] = s.inst]
    BY <2>3, Overridden
  <2>5. QED
    BY <2>1, <2>2, <2>4
<1>4. [d \in Channel |-> redis'[d].viewers] = [[d \in Channel |-> redis[d].viewers] EXCEPT ![c] = s.viewers]
  <2>1. PICK f \in [Channel -> SUBSET Viewer] : f = [d \in Channel |-> redis[d].viewers]
    BY <1>2
  <2>2. PICK g \in [Channel -> SUBSET Viewer] : g = [d \in Channel |-> redis'[d].viewers]
    BY <1>2
  <2>3. g[c] = s.viewers /\ \A d \in Channel : d # c => g[d] = f[d]
    BY <1>1, <2>1, <2>2
  <2>4. g = [f EXCEPT ![c] = s.viewers]
    BY <2>3, Overridden
  <2>5. QED
    BY <2>1, <2>2, <2>4
<1>5. QED
  BY <1>1, <1>3, <1>4

\* Start, for the write that publishes a launch, and Join, for a reattachment.
LEMMA SharedStartSet ==
    ASSUME OneAtATime, SInv, NEW t \in Thread, StartSet(t)
    PROVE  Shared!Next \/ UNCHANGED Shared!vars
<1>. DEFINE c == chan[t]
            s == held[t]
<1>1. \A u \in Thread : u = t
  BY OneThread
<1>2. /\ pc[t] = "start_set" /\ redis' = [redis EXCEPT ![c] = s] /\ Leave(t) /\ chanOf' = chanOf
  BY DEF StartSet, systemVars
<1>3. pc'[t] = "idle"
  BY <1>2, LeaveAt
<1>4. /\ c \in Channel /\ s \in State /\ Present(s) /\ redis[c].inst \in {s.inst, NoOne}
      /\ chanOf[s.inst] = c /\ s.inst \in Instance
      /\ s.viewers = (IF Present(redis[c]) THEN redis[c].viewers ELSE {}) \cup ({who[t]} \cap Viewer)
  BY <1>2 DEF SInv, IInv, TypeOK, Located, ChannelBound, Serial, Hands, Lists, State, Present
<1>5. \A d \in Channel : redis[d].inst = s.inst => d = c
  BY <1>4 DEF SInv, IInv, ChannelBound, Present
<1>6. NoOne \notin Channel
  BY NoOneAssumption
<1>7. s.inst \notin Ended
  BY <1>2, <1>4 DEF Ended
<1>8. who[t] \in Viewer \cup {NoOne} /\ s.viewers \in SUBSET Viewer
  BY <1>4 DEF SInv, IInv, TypeOK, State
<1>. HIDE DEF c, s
<1>9. /\ [d \in Channel |-> redis[d].inst]' = [[d \in Channel |-> redis[d].inst] EXCEPT ![c] = s.inst]
      /\ [d \in Channel |-> redis[d].viewers]'
            = [[d \in Channel |-> redis[d].viewers] EXCEPT ![c] = s.viewers]
      /\ redis'[c] = s /\ \A d \in Channel : d # c => redis'[d] = redis[d]
  BY <1>2, <1>4, SharedWrite
<1>10. Ended' = Ended
  <2>1. ASSUME NEW i \in Instance PROVE i \in Ended' <=> i \in Ended
    <3>1. \A u \in Thread : pc'[u] # "start_set"
      BY <1>1, <1>3
    <3>2. i \in Ended' <=> chanOf[i] # NoOne /\ redis'[chanOf[i]].inst # i
      BY <1>2, <3>1 DEF Ended
    <3>3. i \in Ended <=> chanOf[i] # NoOne /\ redis[chanOf[i]].inst # i /\ s.inst # i
      BY <1>1, <1>2 DEF Ended, s
    <3>4. chanOf[i] \in Channel \cup {NoOne}
      BY DEF SInv, IInv, TypeOK
    <3>5. CASE chanOf[i] = c
      <4>1. redis[c].inst = i => s.inst = i
        BY <1>4, NoOneAssumption
      <4>2. QED
        BY <1>9, <3>2, <3>3, <3>5, <4>1
    <3>6. CASE chanOf[i] # c
      <4>1. s.inst # i
        BY <1>4, <3>6
      <4>2. QED
        BY <1>9, <3>2, <3>3, <3>4, <3>6, <4>1
    <3>7. QED
      BY <3>5, <3>6
  <2>2. Ended \subseteq Instance /\ Ended' \subseteq Instance
    BY DEF Ended
  <2>3. QED
    BY <2>1, <2>2
<1>11. CASE ~Present(redis[c])
  <2>1. redis[c].inst = NoOne /\ \A d \in Channel : redis[d].inst # s.inst
    BY <1>4, <1>5, <1>11 DEF Present
  <2>2. s.viewers \in SUBSET Viewer /\ \A u, v \in s.viewers : u = v
    BY <1>4, <1>8, <1>11
  <2>3. PICK i \in Instance, vs \in SUBSET Viewer : i = s.inst /\ vs = s.viewers
    BY <1>4, <2>2
  <2>4. Shared!Start(c, i, vs)
    BY <1>4, <1>7, <1>9, <1>10, <2>1, <2>2, <2>3 DEF Shared!Start
  <2>5. \E j \in Instance, ws \in SUBSET Viewer : Shared!Start(c, j, ws)
    BY <2>4
  <2>6. \E d \in Channel : \E j \in Instance, ws \in SUBSET Viewer : Shared!Start(d, j, ws)
    BY <1>4, <2>5
  <2>7. QED
    BY <2>6, Zenon DEF Shared!Next
<1>12. CASE Present(redis[c])
  <2>1. redis[c].inst = s.inst /\ redis[c].inst # NoOne
    BY <1>4, <1>12 DEF Present
  <2>2. s.viewers = redis[c].viewers \cup ({who[t]} \cap Viewer)
    BY <1>4, <1>12
  <2>3. CASE who[t] \in Viewer
    <3>1. s.viewers = redis[c].viewers \cup {who[t]}
      BY <2>2, <2>3
    <3>2. Shared!Join(c, who[t])
      BY <1>4, <1>9, <1>10, <2>1, <3>1 DEF Shared!Join
    <3>3. QED
      BY <1>4, <2>3, <3>2 DEF Shared!Next, Shared!Join
  <2>4. CASE who[t] = NoOne
    <3>1. s.viewers = redis[c].viewers
      BY <2>2, <2>4, NoOneAssumption
    <3>2. QED
      BY <1>4, <1>9, <1>10, <2>1, <3>1, SharedSame
  <2>5. QED
    BY <1>8, <2>3, <2>4
<1>13. QED
  BY <1>11, <1>12

\* Leave, for a write that drops viewers; the other writes back change nothing SharedBuffer sees.
LEMMA SharedWriteBack ==
    ASSUME OneAtATime, SInv, NEW t \in Thread, StopSet(t) \/ BeatSet(t) \/ ReapSet(t)
    PROVE  Shared!Next \/ UNCHANGED Shared!vars
<1>. DEFINE c == chan[t]
            s == held[t]
            gone == redis[c].viewers \ s.viewers
<1>1. /\ pc[t] \in {"stop_set", "beat_set", "reap_set"} /\ redis' = [redis EXCEPT ![c] = s]
      /\ chanOf' = chanOf
  BY DEF StopSet, BeatSet, ReapSet, systemVars
<1>2. pc'[t] # "start_set"
  BY LeaveAt DEF StopSet, BeatSet, ReapSet, Goto, SInv, IInv, TypeOK
<1>3. /\ c \in Channel /\ s \in State /\ s.inst = redis[c].inst /\ Present(s)
      /\ s.viewers \subseteq redis[c].viewers /\ redis[c].viewers \in SUBSET Viewer
  BY <1>1 DEF SInv, IInv, TypeOK, Located, Serial, Hands, Lists, State
<1>. HIDE DEF c, s
<1>4. /\ [d \in Channel |-> redis[d].inst]' = [[d \in Channel |-> redis[d].inst] EXCEPT ![c] = s.inst]
      /\ [d \in Channel |-> redis[d].viewers]'
            = [[d \in Channel |-> redis[d].viewers] EXCEPT ![c] = s.viewers]
      /\ redis'[c] = s /\ \A d \in Channel : d # c => redis'[d] = redis[d]
  BY <1>1, <1>3, SharedWrite
<1>5. Ended' = Ended
  <2>1. \A i \in Instance : chanOf[i] # NoOne => redis'[chanOf[i]].inst = redis[chanOf[i]].inst
    BY <1>3, <1>4 DEF SInv, IInv, TypeOK
  <2>2. pc[t] # "start_set"
    BY <1>1
  <2>3. QED
    BY <1>1, <1>2, <2>1, <2>2, EndedSame
<1>6. CASE gone = {}
  <2>1. s.viewers = redis[c].viewers
    BY <1>3, <1>6
  <2>2. QED
    BY <1>3, <1>4, <1>5, <2>1, SharedSame
<1>7. CASE gone # {}
  <2>1. s.viewers = redis[c].viewers \ gone /\ gone \in SUBSET Viewer
    BY <1>3
  <2>. HIDE DEF gone
  <2>2. Shared!Leave(c, gone)
    BY <1>3, <1>4, <1>5, <1>7, <2>1 DEF Shared!Leave, Present
  <2>3. QED
    BY <1>3, <2>1, <2>2 DEF Shared!Next, Shared!Leave
<1>8. QED
  BY <1>6, <1>7

\* Finish, for a state that goes.
LEMMA SharedFinish ==
    ASSUME OneAtATime, SInv, NEW t \in Thread, DeadDel(t) \/ Del(t)
    PROVE  Shared!Next
<1>. DEFINE c == chan[t]
<1>1. \A u \in Thread : u = t
  BY OneThread
<1>2. pc[t] \in {"dead_del", "del"} /\ redis' = [redis EXCEPT ![c] = NoState] /\ chanOf' = chanOf
  BY DEF DeadDel, Del, systemVars
<1>3. pc'[t] # "start_set"
  BY LeaveAt DEF DeadDel, Del, Goto, SInv, IInv, TypeOK
<1>4. c \in Channel /\ Present(redis[c]) /\ chanOf[redis[c].inst] = c /\ redis[c].inst \in Instance
  BY <1>2 DEF SInv, IInv, TypeOK, Located, ChannelBound, Serial, Hands, State, Present
<1>. HIDE DEF c
<1>5. /\ [d \in Channel |-> redis[d].inst]' = [[d \in Channel |-> redis[d].inst] EXCEPT ![c] = NoState.inst]
      /\ [d \in Channel |-> redis[d].viewers]'
            = [[d \in Channel |-> redis[d].viewers] EXCEPT ![c] = NoState.viewers]
      /\ redis'[c] = NoState /\ \A d \in Channel : d # c => redis'[d] = redis[d]
  BY <1>2, <1>4, NoStateType, SharedWrite
<1>6. NoState.inst = NoOne /\ NoState.viewers = {}
  BY DEF NoState
<1>7. Ended' = Ended \cup {redis[c].inst}
  <2>1. ASSUME NEW i \in Instance PROVE i \in Ended' <=> i \in Ended \/ i = redis[c].inst
    <3>1. i \in Ended' <=> chanOf[i] # NoOne /\ redis'[chanOf[i]].inst # i
      BY <1>1, <1>2, <1>3 DEF Ended
    <3>2. i \in Ended <=> chanOf[i] # NoOne /\ redis[chanOf[i]].inst # i
      BY <1>1, <1>2 DEF Ended
    <3>3. chanOf[i] \in Channel \cup {NoOne} /\ i # NoOne
      BY NoOneAssumption DEF SInv, IInv, TypeOK
    <3>4. QED
      BY <1>4, <1>5, <1>6, <3>1, <3>2, <3>3, NoOneAssumption
  <2>2. Ended \subseteq Instance /\ Ended' \subseteq Instance
    BY DEF Ended
  <2>3. QED
    BY <1>4, <2>1, <2>2
<1>8. Shared!Finish(c)
  BY <1>4, <1>5, <1>6, <1>7 DEF Shared!Finish, Present
<1>9. QED
  BY <1>4, <1>8 DEF Shared!Next, Shared!Finish

LEMMA SharedAround ==
    ASSUME OneAtATime, SInv,
           \/ \E i \in Instance : Segment(i) \/ ProcExit(i)
           \/ \E v \in Viewer : Vanish(v)
           \/ \E c \in Channel : DirAge(c)
           \/ \E t \in Thread : GiveUp(t)
           \/ LeaderExpire \/ Tick \/ UNCHANGED vars
    PROVE  UNCHANGED Shared!vars
<1>1. UNCHANGED <<chanOf, pc, held>>
  BY DEF Segment, ProcExit, Vanish, DirAge, GiveUp, LeaderExpire, Tick, vars, redisVars, systemVars,
         threadVars, viewerVars
<1>2. redis' = redis \/ redis' = [c \in Channel |-> OlderState(redis[c])]
  BY DEF Segment, ProcExit, Vanish, DirAge, GiveUp, LeaderExpire, Tick, vars, redisVars
<1>3. \A c \in Channel : redis'[c].inst = redis[c].inst /\ redis'[c].viewers = redis[c].viewers
  <2>1. redis \in [Channel -> State]
    BY DEF SInv, IInv, TypeOK
  <2>2. QED
    BY <1>2, <2>1, OlderType, OlderLists DEF SameProcess
<1>4. Ended' = Ended
  <2>1. \A i \in Instance : chanOf[i] # NoOne => redis'[chanOf[i]].inst = redis[chanOf[i]].inst
    BY <1>3 DEF SInv, IInv, TypeOK
  <2>2. QED
    BY <1>1, <2>1 DEF Ended
<1>5. QED
  BY <1>3, <1>4, SharedSame

LEMMA SharedNext ==
    ASSUME OneAtATime, SInv, [Next]_vars
    PROVE  Shared!Next \/ UNCHANGED Shared!vars
<1>1. ASSUME NEW t \in Thread, ViewerCall(t) \/ AdminCall(t) \/ ReapBegin(t) PROVE UNCHANGED Shared!vars
  BY <1>1, SharedCall DEF ViewerCall, AdminCall
<1>2. ASSUME NEW t \in Thread, HandlerStep(t) PROVE Shared!Next \/ UNCHANGED Shared!vars
  BY <1>2, SharedMiddle, SharedStartCheck, SharedLaunch, SharedStartSet, SharedWriteBack, SharedFinish
  DEF HandlerStep
<1>3. ASSUME NEW t \in Thread, Crash(t) PROVE FALSE
  BY <1>3 DEF Crash, OneAtATime, SInv, IInv, TypeOK
<1>4. ASSUME NEW c \in Channel, Expire(c) PROVE FALSE
  BY <1>4 DEF Expire, OneAtATime
<1>5. QED
  BY <1>1, <1>2, <1>3, <1>4, SharedAround DEF Next, ThreadStep, Environment

\* The read-compute-write handlers, when they do not overlap, are the atomic calls of
\* SharedBuffer: no step replaces one process by another, brings back one that has ended, or
\* changes the list of viewers but by a join, a leave or the end of the buffer.
THEOREM ImplementsSharedBufferHolds == OneAtATime => (Spec => ImplementsSharedBuffer)
<1>1. SUFFICES ASSUME OneAtATime PROVE Spec => ImplementsSharedBuffer
  OBVIOUS
<1>2. Spec => []SInv
  BY <1>1, SerialInvariance
<1>3. Init => Shared!Init
  BY SharedInit
<1>4. SInv /\ [Next]_vars => [Shared!Next]_Shared!vars
  BY <1>1, SharedNext
<1>5. QED
  BY <1>2, <1>3, <1>4, PTL DEF Spec, ImplementsSharedBuffer, Shared!Spec

=============================================================================
