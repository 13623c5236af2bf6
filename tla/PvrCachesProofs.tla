--------------------------- MODULE PvrCachesProofs ---------------------------
(***************************************************************************)
(* What Kodi is told of a change it reads, for any number of changes and of  *)
(* failed requests.                                                         *)
(***************************************************************************)
EXTENDS PvrCaches, SequenceTheorems, TLAPS

Requests == [table : Table \union {"none"}, version : Nat, age : {"none", "fresh", "stale"}]

Steps == [op : {"invalidate", "trigger"}, tables : SUBSET Table, view : View \union {NoView}]

Ages == {"none", "fresh", "stale"}

\* A step of a script comes after one that empties table tb.
Emptied(steps, tb, i) ==
    \E j \in 1..(i - 1) : steps[j].op = "invalidate" /\ tb \in steps[j].tables

Tells(step, tb) == step.op = "trigger" /\ tb \in TablesOf(step.view)

\* The scripts there are: Kodi is told of a table only after it is emptied.
Orderly(steps) ==
    /\ steps \in Seq(Steps)
    /\ Len(steps) <= 4
    /\ \A i \in 1..Len(steps) : steps[i].op = "trigger" => steps[i].view \in View
    /\ \A i \in 1..Len(steps) : steps[i].op = "invalidate" => steps[i].view = NoView
    /\ \A i \in 1..Len(steps), tb \in Quick : Tells(steps[i], tb) => Emptied(steps, tb, i)

LEMMA Tables ==
    /\ TablesOf("channels") = {"channels"} /\ TablesOf("epg") = {"channels", "epg"}
    /\ TablesOf("recordings") = {"recordings"} /\ TablesOf("timers") = Quick
<1>1. \A a : {<<a>>[i] : i \in DOMAIN <<a>>} = {a}
  OBVIOUS
<1>2. \A a, b : {<<a, b>>[i] : i \in DOMAIN <<a, b>>} = {a, b}
  OBVIOUS
<1>3. /\ Needs("channels") = <<"channels">> /\ Needs("epg") = <<"channels", "epg">>
      /\ Needs("recordings") = <<"recordings">> /\ Needs("timers") = <<"recordings", "rules">>
  BY DEF Needs
<1>4. QED
  <2>1. TablesOf("channels") = {"channels"} /\ TablesOf("recordings") = {"recordings"}
    BY <1>1, <1>3 DEF TablesOf
  <2>2. TablesOf("epg") = {"channels", "epg"} /\ TablesOf("timers") = {"recordings", "rules"}
    BY <1>2, <1>3 DEF TablesOf
  <2>3. QED
    BY <2>1, <2>2 DEF Quick

LEMMA NeedsType == \A v \in View : Needs(v) \in Seq(Table) /\ TablesOf(v) \subseteq Table
<1>1. \A v \in View : TablesOf(v) \subseteq Table
  BY Tables DEF View, Table, Quick, Slow
<1>2. \A v \in View : Needs(v) \in Seq(Table)
  <2>1. {"channels", "epg", "recordings", "rules"} \subseteq Table
    BY DEF Table, Quick, Slow
  <2>2. \A a \in Table, b \in Table : <<a>> \in Seq(Table) /\ <<a, b>> \in Seq(Table)
    OBVIOUS
  <2>3. /\ Needs("channels") = <<"channels">> /\ Needs("epg") = <<"channels", "epg">>
        /\ Needs("recordings") = <<"recordings">> /\ Needs("timers") = <<"recordings", "rules">>
    BY DEF Needs
  <2>4. QED
    BY <2>1, <2>2, <2>3 DEF View
<1>3. QED
  BY <1>1, <1>2

LEMMA StepTypes ==
    /\ \A tables \in SUBSET Table : Inv(tables) \in Steps
    /\ \A v \in View : Tell(v) \in Steps
  BY DEF Inv, Tell, Steps

LEMMA Pairs ==
    ASSUME NEW S, NEW s \in Seq(S), NEW t \in Seq(S), Len(s) = 2, Len(t) = 2
    PROVE  /\ Len(s \o t) = 4 /\ s \o t \in Seq(S)
           /\ (s \o t)[1] = s[1] /\ (s \o t)[2] = s[2]
           /\ (s \o t)[3] = t[1] /\ (s \o t)[4] = t[2]
<1>1. s \o t \in Seq(S) /\ Len(s \o t) = Len(s) + Len(t)
  BY ConcatProperties
<1>2. \A i \in 1..(Len(s) + Len(t)) : (s \o t)[i] = IF i <= Len(s) THEN s[i] ELSE t[i - Len(s)]
  BY ConcatProperties
<1>3. 1 \in 1..(2 + 2) /\ 2 \in 1..(2 + 2) /\ 3 \in 1..(2 + 2) /\ 4 \in 1..(2 + 2)
  OBVIOUS
<1>4. 3 - 2 = 1 /\ 4 - 2 = 2 /\ 1 <= 2 /\ 2 <= 2 /\ ~(3 <= 2) /\ ~(4 <= 2) /\ 2 + 2 = 4
  OBVIOUS
<1>5. Len(s) = 2 /\ Len(t) = 2
  OBVIOUS
<1>6. \A i \in 1..(2 + 2) : (s \o t)[i] = IF i <= 2 THEN s[i] ELSE t[i - 2]
  BY <1>2, <1>5
<1> DEFINE c == s \o t
<1>7. c[1] = s[1] /\ c[2] = s[2] /\ c[3] = t[3 - 2] /\ c[4] = t[4 - 2]
  <2> HIDE DEF c
  <2>1. \A i \in 1..(2 + 2) : c[i] = IF i <= 2 THEN s[i] ELSE t[i - 2]
    BY <1>6 DEF c
  <2>2. QED
    BY <1>3, <1>4, <2>1
<1>8. QED
  BY <1>1, <1>4, <1>5, <1>7

LEMMA OrderlyScripts ==
    /\ Orderly(RecordingUpdate) /\ Orderly(TimerUpdate)
    /\ Orderly(RecordingUpdate \o TimerUpdate) /\ Orderly(TimerUpdate \o RecordingUpdate)
<1>1. Quick \subseteq Table /\ {"recordings"} \subseteq Table
      /\ "recordings" \in View /\ "timers" \in View
  BY DEF Quick, Table, View
<1>2. RecordingUpdate \in Seq(Steps) /\ TimerUpdate \in Seq(Steps)
  BY <1>1, StepTypes DEF RecordingUpdate, TimerUpdate
<1>3. /\ Len(RecordingUpdate) = 2 /\ RecordingUpdate[1] = Inv({"recordings"})
      /\ RecordingUpdate[2] = Tell("recordings")
      /\ Len(TimerUpdate) = 2 /\ TimerUpdate[1] = Inv(Quick) /\ TimerUpdate[2] = Tell("timers")
  BY DEF RecordingUpdate, TimerUpdate
<1>4. \A tb \in Quick : /\ ~Tells(Inv({"recordings"}), tb) /\ ~Tells(Inv(Quick), tb)
                        /\ Tells(Tell("recordings"), tb) => tb \in {"recordings"}
  BY Tables DEF Tells, Inv, Tell
<1>5. /\ \A tables : Inv(tables).op = "invalidate" /\ Inv(tables).tables = tables
                     /\ Inv(tables).view = NoView
      /\ \A v : Tell(v).op = "trigger" /\ Tell(v).view = v
  BY DEF Inv, Tell
<1>6. ASSUME NEW s \in Seq(Steps), Len(s) = 2, NEW q, s[1] = Inv(q), NEW v, s[2] = Tell(v),
             q \subseteq Quick, v \in View, TablesOf(v) \intersect Quick \subseteq q
      PROVE  Orderly(s)
  BY <1>5, <1>6 DEF Orderly, Tells, Emptied
<1>7. ASSUME NEW s \in Seq(Steps), Len(s) = 2, NEW q, s[1] = Inv(q), NEW v, s[2] = Tell(v),
             NEW t \in Seq(Steps), Len(t) = 2, NEW p, t[1] = Inv(p), NEW u, t[2] = Tell(u),
             v \in View, TablesOf(v) \intersect Quick \subseteq q,
             u \in View, TablesOf(u) \intersect Quick \subseteq p
      PROVE  Orderly(s \o t)
  <2>1. DEFINE c == s \o t
  <2>2. c \in Seq(Steps) /\ Len(c) = 4
        /\ c[1] = Inv(q) /\ c[2] = Tell(v) /\ c[3] = Inv(p) /\ c[4] = Tell(u)
    <3>1. /\ Len(c) = 4 /\ c \in Seq(Steps)
          /\ c[1] = s[1] /\ c[2] = s[2] /\ c[3] = t[1] /\ c[4] = t[2]
      <4>1. Len(s) = 2 /\ Len(t) = 2 /\ s \in Seq(Steps) /\ t \in Seq(Steps)
        BY <1>7
      <4>2. QED
        BY <4>1, Pairs
    <3>2. QED
      BY <1>7, <3>1, Zenon
  <2> HIDE DEF c
  <2>3. \A i \in 1..Len(c) : i \in {1, 2, 3, 4}
    BY <2>2
  <2>4. \A tb \in Quick : ~Tells(c[1], tb) /\ ~Tells(c[3], tb)
    BY <2>2, <1>5 DEF Tells
  <2>5. \A tb \in Quick : Tells(c[2], tb) => Emptied(c, tb, 2)
    BY <2>2, <1>5, <1>7 DEF Tells, Emptied
  <2>6. \A tb \in Quick : Tells(c[4], tb) => Emptied(c, tb, 4)
    BY <2>2, <1>5, <1>7 DEF Tells, Emptied
  <2>7. Orderly(c)
    BY <2>2, <2>3, <2>4, <2>5, <2>6, <1>5, <1>7 DEF Orderly
  <2>8. QED
    BY <2>7 DEF c
<1>8. /\ TablesOf("recordings") \intersect Quick \subseteq {"recordings"}
      /\ TablesOf("timers") \intersect Quick \subseteq Quick /\ {"recordings"} \subseteq Quick
  BY Tables DEF Quick
<1>9. Orderly(RecordingUpdate) /\ Orderly(TimerUpdate)
  BY <1>1, <1>2, <1>3, <1>6, <1>8
<1>10. Orderly(RecordingUpdate \o TimerUpdate)
  BY <1>1, <1>2, <1>3, <1>7, <1>8
<1>11. Orderly(TimerUpdate \o RecordingUpdate)
  BY <1>1, <1>2, <1>3, <1>7, <1>8
<1>12. QED
  BY <1>9, <1>10, <1>11

-----------------------------------------------------------------------------
(* Each step's effect, and the type invariant.                              *)

Starts ==
    \/ RecordingWrites \/ TimerWrites
    \/ \E tb \in Table : ServerChanges(tb)
    \/ Poll \/ ToldAgain

\* A writer that starts reports what the server has at that moment.
LEMMA StartEffect ==
    ASSUME TypeOK, Starts
    PROVE  /\ server' \in [Table -> Nat \ {0}] /\ changes' \in 0..MaxChanges
           /\ \A tb \in Table : server[tb] <= server'[tb]
           /\ \/ UNCHANGED <<script, knew>>
              \/ \E w \in Writer, steps \in Seq(Steps) :
                    /\ Orderly(steps) /\ script[w] = << >>
                    /\ script' = [script EXCEPT ![w] = steps]
                    /\ knew' = [knew EXCEPT ![w] = server']
           /\ UNCHANGED <<cache, age, due, shown, goal, todo, loading, owed, half, faults>>
<1>1. /\ "user" \in Writer /\ "background" \in Writer
      /\ Quick \subseteq Table /\ {"recordings"} \subseteq Table /\ {"rules"} \subseteq Table
  BY DEF Writer, Table, Quick
<1>2. ASSUME NEW tb \in Table, changes < MaxChanges, changes' = changes + 1,
             server' = [server EXCEPT ![tb] = @ + 1]
      PROVE  /\ server' \in [Table -> Nat \ {0}] /\ changes' \in 0..MaxChanges
             /\ \A t \in Table : server[t] <= server'[t]
  BY <1>2, BoundAssumption DEF TypeOK
<1>3. ASSUME NEW w \in Writer, NEW steps, Orderly(steps), Run(w, steps, server')
      PROVE  \E u \in Writer, s \in Seq(Steps) :
                /\ Orderly(s) /\ script[u] = << >>
                /\ script' = [script EXCEPT ![u] = s]
                /\ knew' = [knew EXCEPT ![u] = server']
  BY <1>3 DEF Orderly, Run
<1>4. ASSUME NEW tables \in SUBSET Table, NEW steps, Orderly(steps), UserWrites(tables, steps)
      PROVE  /\ server' \in [Table -> Nat \ {0}] /\ changes' \in 0..MaxChanges
             /\ \A t \in Table : server[t] <= server'[t]
             /\ \E u \in Writer, s \in Seq(Steps) :
                   /\ Orderly(s) /\ script[u] = << >>
                   /\ script' = [script EXCEPT ![u] = s]
                   /\ knew' = [knew EXCEPT ![u] = server']
             /\ UNCHANGED <<cache, age, due, shown, goal, todo, loading, owed, half, faults>>
  <2>1. PICK tb \in tables : server' = [server EXCEPT ![tb] = @ + 1]
    BY <1>4 DEF UserWrites
  <2>2. changes < MaxChanges /\ changes' = changes + 1 /\ Run("user", steps, server')
        /\ UNCHANGED <<cache, age, due, shown, goal, todo, loading, owed, half, faults>>
    BY <1>4 DEF UserWrites, loads
  <2>3. QED
    BY <1>1, <1>2, <1>3, <1>4, <2>1, <2>2
<1>5. CASE RecordingWrites
  BY <1>1, <1>4, <1>5, OrderlyScripts DEF RecordingWrites
<1>6. CASE TimerWrites
  BY <1>1, <1>4, <1>6, OrderlyScripts DEF TimerWrites
<1>7. ASSUME NEW tb \in Table, ServerChanges(tb)
      PROVE  /\ server' \in [Table -> Nat \ {0}] /\ changes' \in 0..MaxChanges
             /\ \A t \in Table : server[t] <= server'[t]
             /\ \/ UNCHANGED <<script, knew>>
                \/ \E u \in Writer, s \in Seq(Steps) :
                   /\ Orderly(s) /\ script[u] = << >>
                   /\ script' = [script EXCEPT ![u] = s]
                   /\ knew' = [knew EXCEPT ![u] = server']
             /\ UNCHANGED <<cache, age, due, shown, goal, todo, loading, owed, half, faults>>
  <2>1. /\ changes < MaxChanges /\ changes' = changes + 1
        /\ server' = [server EXCEPT ![tb] = @ + 1]
        /\ UNCHANGED <<cache, age, due, shown, goal, todo, loading, owed, half, faults>>
        /\ \/ Run("background", RecordingUpdate \o TimerUpdate, server')
           \/ UNCHANGED <<script, knew>>
    BY <1>7 DEF ServerChanges, loads, writes
  <2>2. QED
    BY <1>1, <1>2, <1>3, <2>1, OrderlyScripts
<1>8. CASE Poll \/ ToldAgain
  <2>1. /\ UNCHANGED <<server, changes, cache, age, due, shown, goal, todo, loading, owed, half,
                       faults>>
        /\ \/ Run("background", RecordingUpdate \o TimerUpdate, server)
           \/ Run("background", RecordingUpdate, server)
    BY <1>8 DEF Poll, ToldAgain, loads
  <2>2. \E u \in Writer, s \in Seq(Steps) :
                   /\ Orderly(s) /\ script[u] = << >>
                   /\ script' = [script EXCEPT ![u] = s]
                   /\ knew' = [knew EXCEPT ![u] = server']
    BY <1>1, <1>3, <2>1, OrderlyScripts
  <2>3. /\ server' \in [Table -> Nat \ {0}] /\ changes' \in 0..MaxChanges
        /\ \A t \in Table : server[t] <= server'[t]
    BY <2>1 DEF TypeOK
  <2>4. QED
    BY <2>1, <2>2, <2>3
<1>9. QED
  BY <1>5, <1>6, <1>7, <1>8 DEF Starts

LEMMA InitType == Init => TypeOK
<1>1. SUFFICES ASSUME Init PROVE TypeOK
  OBVIOUS
<1>2. NoRequest \in Requests
  BY DEF NoRequest, InFlight, Requests
<1>3. /\ server \in [Table -> Nat \ {0}] /\ cache \in [Table -> Nat] /\ age \in [Table -> Ages]
      /\ shown \in [View -> [Table -> Nat]] /\ due \subseteq View
  BY <1>1 DEF Init, For, Ages
<1>4. knew \in [Writer -> [Table -> Nat]] /\ owed \in [View -> [Table -> Nat]]
  BY <1>1 DEF Init, Zero
<1>5. /\ goal \in [Loader -> View \union {NoView}] /\ todo \in [Loader -> Seq(Table)]
      /\ loading \in [Loader -> Requests] /\ script \in [Writer -> Seq(Steps)]
      /\ \A l \in Loader : loading[l] = NoRequest
  BY <1>1, <1>2 DEF Init
<1>6. half \in {Quick, Slow} /\ changes \in 0..MaxChanges /\ faults \in 0..MaxFaults
  BY <1>1, BoundAssumption DEF Init
<1>7. QED
  BY <1>3, <1>4, <1>5, <1>6 DEF TypeOK, Ages, Requests, Steps

\* Without a goal Kodi has nothing to look at.
Idle == goal["kodi"] = NoView => todo["kodi"] = << >>

\* The guide thread looks only at the slow tables.
Guide == \A i \in 1..Len(todo["guide"]) : todo["guide"][i] \in Slow

Typed == TypeOK /\ Idle /\ Guide

LEMMA TypeParts ==
    ASSUME TypeOK, NEW l \in Loader
    PROVE  /\ loading[l] \in Requests /\ todo[l] \in Seq(Table)
           /\ loading[l] # NoRequest => /\ todo[l] # << >> /\ loading[l].table = Head(todo[l])
                                        /\ loading[l].table \in Table
                                        /\ loading[l].version \in Nat /\ loading[l].age \in Ages
  BY DEF TypeOK, Requests, Ages

LEMMA Tails ==
    ASSUME NEW S, NEW s \in Seq(S), s # << >>
    PROVE  /\ Tail(s) \in Seq(S) /\ Len(Tail(s)) = Len(s) - 1 /\ Len(s) \in Nat \ {0}
           /\ Head(s) \in S /\ Head(s) = s[1]
           /\ \A i \in 1..Len(Tail(s)) : i + 1 \in 1..Len(s) /\ Tail(s)[i] = s[i + 1]
  OBVIOUS

\* A loader that has looked at a table.
LEMMA Shorter ==
    ASSUME TypeOK, Idle, Guide, NEW l \in Loader, todo[l] # << >>,
           todo' = [todo EXCEPT ![l] = Tail(todo[l])], UNCHANGED goal
    PROVE  todo' \in [Loader -> Seq(Table)] /\ Idle' /\ Guide'
<1>1. todo \in [Loader -> Seq(Table)] /\ todo[l] \in Seq(Table)
      /\ "kodi" \in Loader /\ "guide" \in Loader
  BY DEF TypeOK, Loader
<1>2. Tail(todo[l]) \in Seq(Table) /\ Len(todo[l]) \in Nat \ {0}
      /\ \A i \in 1..Len(Tail(todo[l])) : /\ i + 1 \in 1..Len(todo[l])
                                          /\ Tail(todo[l])[i] = todo[l][i + 1]
  BY <1>1, Tails
<1>3. Idle'
  BY <1>1 DEF Idle
<1>4. Guide'
  BY <1>1, <1>2 DEF Guide
<1>5. QED
  BY <1>1, <1>2, <1>3, <1>4

LEMMA LoadType ==
    ASSUME Typed, NEW l \in Loader, Load(l) \/ RequestFails(l) PROVE Typed'
<1>1. /\ loading[l] \in Requests /\ todo[l] \in Seq(Table)
      /\ TypeOK /\ Idle /\ Guide
  BY TypeParts DEF Typed
<1>2. todo[l] # << >> => Tail(todo[l]) \in Seq(Table) /\ Head(todo[l]) \in Table
  BY <1>1, Tails
<1>3. NoRequest \in Requests
  BY DEF NoRequest, InFlight, Requests
<1>4. CASE Fresh(l)
  <2>1. /\ todo[l] # << >> /\ loading[l] = NoRequest
        /\ todo' = [todo EXCEPT ![l] = Tail(todo[l])]
        /\ UNCHANGED <<server, cache, age, due, shown, goal, loading, script, knew, owed, half,
                       changes, faults>>
    BY <1>4 DEF Fresh, writes
  <2>2. todo' \in [Loader -> Seq(Table)] /\ Idle' /\ Guide'
    BY <1>1, <1>2, <2>1, Shorter
  <2>3. \A k \in Loader : loading[k] = NoRequest
                           \/ (todo'[k] # << >> /\ loading[k].table = Head(todo'[k]))
    BY <1>1, <2>1 DEF TypeOK
  <2>4. QED
    BY <1>1, <2>1, <2>2, <2>3 DEF TypeOK, Typed
<1>5. CASE Request(l)
  <2>1. DEFINE q == InFlight(Head(todo[l]), server[Head(todo[l])], "fresh")
  <2>2. q \in Requests /\ q.table = Head(todo[l])
    BY <1>1, <1>2, <1>5 DEF Request, InFlight, Requests, TypeOK
  <2>3. loading' = [loading EXCEPT ![l] = q] /\ todo[l] # << >>
        /\ UNCHANGED <<server, cache, age, due, shown, goal, todo, script, knew, owed, half,
                       changes, faults>>
    BY <1>5 DEF Request, writes
  <2> HIDE DEF q
  <2>4. QED
    BY <1>1, <2>2, <2>3 DEF TypeOK, Idle, Guide, Typed, Requests
<1>6. ASSUME Answered(l), loading[l] # NoRequest, UNCHANGED <<goal>>
      PROVE  /\ todo' \in [Loader -> Seq(Table)] /\ loading' \in [Loader -> Requests]
             /\ \A k \in Loader : loading'[k] = NoRequest
                    \/ (todo'[k] # << >> /\ loading'[k].table = Head(todo'[k]))
             /\ Idle' /\ Guide'
  <2>1. /\ todo[l] # << >> /\ todo' = [todo EXCEPT ![l] = Tail(todo[l])]
        /\ loading' = [loading EXCEPT ![l] = NoRequest]
    BY <1>1, <1>6, TypeParts DEF Answered
  <2>2. todo' \in [Loader -> Seq(Table)] /\ Idle' /\ Guide'
    BY <1>1, <1>2, <1>6, <2>1, Shorter
  <2>3. \A k \in Loader : loading'[k] = NoRequest
                           \/ (todo'[k] # << >> /\ loading'[k].table = Head(todo'[k]))
    BY <1>1, <2>1 DEF TypeOK
  <2>4. loading' \in [Loader -> Requests]
    BY <1>1, <1>3, <2>1 DEF TypeOK, Requests
  <2>5. QED
    BY <2>2, <2>3, <2>4
<1>7. ASSUME loading[l] # NoRequest, NEW version \in Nat, Keep(l, version)
      PROVE  cache' \in [Table -> Nat] /\ age' \in [Table -> Ages] /\ due' \subseteq View
  <2>1. loading[l].table \in Table /\ loading[l].age \in Ages
    BY <1>1, <1>7, TypeParts
  <2>2. due' \subseteq View
    <3>1. due \subseteq View /\ Slow \subseteq View
      BY <1>1 DEF TypeOK, Slow, View
    <3>2. l = "guide" => loading[l].table \in Slow
      BY <1>1, <1>7, TypeParts, Tails DEF Guide
    <3>3. QED
      BY <1>7, <3>1, <3>2 DEF Keep, Warmed
  <2>3. QED
    BY <1>1, <1>7, <2>1, <2>2 DEF Keep, TypeOK, Ages
<1>8. CASE Store(l)
  <2>1. loading[l] # NoRequest /\ loading[l].version \in Nat
        /\ Keep(l, loading[l].version) /\ Answered(l)
        /\ UNCHANGED <<server, shown, goal, script, knew, owed, half, changes, faults>>
    BY <1>1, <1>8, TypeParts DEF Store, writes
  <2>2. QED
    BY <1>1, <1>6, <1>7, <2>1 DEF TypeOK, Typed, Requests, Ages
<1>9. CASE RequestFails(l)
  <2>1. /\ loading[l] # NoRequest /\ Answered(l)
        /\ faults < MaxFaults /\ faults' = faults + 1
        /\ knew' = [w \in Writer |-> [knew[w] EXCEPT ![loading[l].table] = 0]]
        /\ owed' = [v \in View |-> [owed[v] EXCEPT ![loading[l].table] = 0]]
        /\ Keep(l, 0) \/ UNCHANGED <<cache, age, due>>
        /\ UNCHANGED <<server, shown, goal, script, half, changes>>
    BY <1>9 DEF RequestFails
  <2>2. knew' \in [Writer -> [Table -> Nat]] /\ owed' \in [View -> [Table -> Nat]]
    BY <1>1, <2>1 DEF TypeOK
  <2>3. faults' \in 0..MaxFaults
    BY <1>1, <2>1, BoundAssumption DEF TypeOK
  <2>4. cache' \in [Table -> Nat] /\ age' \in [Table -> Ages] /\ due' \subseteq View
    BY <1>1, <1>7, <2>1 DEF TypeOK, Ages
  <2>5. QED
    BY <1>1, <1>6, <2>1, <2>2, <2>3, <2>4 DEF TypeOK, Typed, Requests, Ages
<1>10. QED
  BY <1>4, <1>5, <1>8, <1>9 DEF Load

LEMMA AgedType == \A a \in Ages : Aged(a) \in Ages
  BY DEF Ages, Aged

LEMMA ReadType ==
    ASSUME Typed, Show \/ (\E v \in View : Ask(v)) \/ Warm PROVE Typed'
<1>1. TypeOK /\ Idle /\ Guide /\ "kodi" \in Loader /\ "guide" \in Loader
  BY DEF Typed, Loader
<1>2. NoView \notin View
  BY DEF NoView, View
<1>3. \A l \in Loader : todo[l] = << >> => loading[l] = NoRequest
  BY <1>1, TypeParts
<1>4. CASE Show
  <2>1. For(goal["kodi"], cache) \in [Table -> Nat]
    BY <1>1 DEF For, TypeOK
  <2>2. QED
    BY <1>1, <1>4, <2>1 DEF Show, Typed, TypeOK, Idle, Guide, writes
<1>5. ASSUME NEW v \in View, Ask(v) PROVE Typed'
  <2>1. Needs(v) \in Seq(Table)
    BY NeedsType
  <2>2. QED
    BY <1>1, <1>2, <1>3, <1>5, <2>1 DEF Ask, Typed, TypeOK, Idle, Guide, writes
<1>6. CASE Warm
  <2>1. /\ <<"channels", "epg">> \in Seq(Table)
        /\ \A i \in 1..Len(<<"channels", "epg">>) : <<"channels", "epg">>[i] \in Slow
    BY DEF Table, Slow
  <2>2. QED
    BY <1>1, <1>3, <1>6, <2>1 DEF Warm, Typed, TypeOK, Idle, Guide, writes
<1>7. QED
  BY <1>4, <1>5, <1>6

LEMMA WriteType ==
    ASSUME Typed, \E w \in Writer : Invalidate(w) \/ Trigger(w),
           \A w \in Writer : \A i \in 1..Len(script[w]) :
               script[w][i].op = "trigger" => script[w][i].view \in View
    PROVE  Typed'
<1>1. TypeOK /\ Idle /\ Guide
  BY DEF Typed
<1>2. PICK w \in Writer : Invalidate(w) \/ Trigger(w)
  OBVIOUS
<1>3. /\ script[w] \in Seq(Steps) /\ script[w] # << >> /\ script' = [script EXCEPT ![w] = Tail(@)]
      /\ UNCHANGED <<server, cache, shown, goal, todo, loading, half, changes, faults>>
  BY <1>1, <1>2 DEF Invalidate, Trigger, TypeOK, Steps, loads
<1>4. Tail(script[w]) \in Seq(Steps) /\ Head(script[w]) \in Steps /\ Head(script[w]) = script[w][1]
      /\ 1 \in 1..Len(script[w])
  BY <1>3, Tails
<1>5. script' \in [Writer -> Seq(Steps)]
  BY <1>1, <1>3, <1>4 DEF TypeOK, Steps
<1>6. CASE Invalidate(w)
  <2>1. knew' \in [Writer -> [Table -> Nat]]
    BY <1>1, <1>6 DEF Invalidate, TypeOK
  <2>2. age' \in [Table -> Ages]
    BY <1>1, <1>6 DEF Invalidate, TypeOK, Ages
  <2>3. UNCHANGED <<due, owed>>
    BY <1>6 DEF Invalidate
  <2>4. QED
    BY <1>1, <1>3, <1>5, <2>1, <2>2, <2>3 DEF Typed, TypeOK, Idle, Guide, Ages, Steps
<1>7. CASE Trigger(w)
  <2>1. DEFINE v == Head(script[w]).view
  <2>2. v \in View
    BY <1>4, <1>7 DEF Trigger
  <2>3. Newer(owed[v], For(v, knew[w])) \in [Table -> Nat]
    <3>1. owed[v] \in [Table -> Nat] /\ knew[w] \in [Table -> Nat]
      BY <1>1, <2>2 DEF TypeOK
    <3>2. QED
      BY <3>1 DEF Newer, For
  <2>4. Zero \in [Table -> Nat]
    BY DEF Zero
  <2>5. owed' = [owed EXCEPT ![v] = Newer(owed[v], For(v, knew[w]))] /\ due' = due \union {v}
        /\ knew' = [knew EXCEPT ![w] = IF Len(script[w]) = 1 THEN Zero ELSE knew[w]]
        /\ UNCHANGED age
    BY <1>1, <1>7, <2>2 DEF Trigger, TypeOK
  <2> HIDE DEF v
  <2>6. QED
    BY <1>1, <1>3, <1>5, <2>2, <2>3, <2>4, <2>5 DEF Typed, TypeOK, Idle, Guide, Steps
<1>8. QED
  BY <1>2, <1>6, <1>7

LEMMA TimeType == ASSUME Typed, NEW tables, Time(tables) PROVE Typed'
<1>1. TypeOK /\ Idle /\ Guide
  BY DEF Typed
<1>2. age' \in [Table -> Ages]
  BY <1>1, AgedType DEF Time, TypeOK, Ages
<1>3. \A l \in Loader : /\ loading'[l] \in Requests /\ loading'[l].table = loading[l].table
                        /\ loading'[l].version = loading[l].version
                        /\ loading[l] = NoRequest => loading'[l] = NoRequest
  <2>1. SUFFICES ASSUME NEW l \in Loader
                 PROVE  /\ loading'[l] \in Requests /\ loading'[l].table = loading[l].table
                        /\ loading'[l].version = loading[l].version
                        /\ loading[l] = NoRequest => loading'[l] = NoRequest
    OBVIOUS
  <2>2. loading[l] \in Requests /\ Aged(loading[l].age) \in Ages
    BY <1>1, TypeParts, AgedType DEF Requests, Ages
  <2>3. CASE loading[l].table \in tables
    <3>1. loading'[l] = InFlight(loading[l].table, loading[l].version, Aged(loading[l].age))
      BY <2>3 DEF Time
    <3>2. loading[l] = NoRequest => Aged(loading[l].age) = "none" /\ loading[l].table = "none"
                                    /\ loading[l].version = 0
      BY DEF NoRequest, InFlight, Aged
    <3>3. QED
      BY <2>2, <3>1, <3>2 DEF InFlight, Requests, Ages, NoRequest
  <2>4. CASE loading[l].table \notin tables
    BY <2>2, <2>4 DEF Time
  <2>5. QED
    BY <2>3, <2>4
<1>4. loading' \in [Loader -> Requests]
  BY <1>3 DEF Time
<1>5. QED
  <2>1. UNCHANGED <<server, cache, due, shown, goal, todo, script, knew, owed, half, changes,
                    faults>>
    BY DEF Time, writes
  <2>2. \A k \in Loader : loading'[k] = NoRequest
                           \/ (todo[k] # << >> /\ loading'[k].table = Head(todo[k]))
    BY <1>1, <1>3, TypeParts
  <2>3. QED
    BY <1>1, <1>2, <1>4, <2>1, <2>2 DEF Typed, TypeOK, Idle, Guide, Ages, Requests

-----------------------------------------------------------------------------
(* What a table gives from now on.                                          *)

\* Whoever loads table tb from here on gets version n or a later one.
Good(tb, n) ==
    /\ age[tb] = "fresh" => n <= cache[tb]
    /\ \A l \in Loader : loading[l].table = tb => n <= loading[l].version

Reads ==
    \/ \E l \in Loader : Load(l)
    \/ Show \/ (\E v \in View : Ask(v)) \/ Warm
    \/ \E tables \in {Quick, Slow} : Time(tables)
    \/ UNCHANGED vars

Fails == \E l \in Loader : RequestFails(l)

Reports == \E w \in Writer : Invalidate(w) \/ Trigger(w)

LEMMA NextSplit == [Next]_vars => Reads \/ Fails \/ Starts \/ Reports
  BY DEF Next, Reads, Fails, Starts, Reports

LEMMA ReadFrame == ASSUME Reads PROVE UNCHANGED <<server, script, knew, owed, half, changes>>
<1>1. ASSUME NEW l \in Loader, Load(l)
      PROVE  UNCHANGED <<server, script, knew, owed, half, changes>>
  BY <1>1 DEF Load, Fresh, Request, Store, writes
<1>2. ASSUME NEW v \in View, Ask(v) PROVE UNCHANGED <<server, script, knew, owed, half, changes>>
  BY <1>2 DEF Ask, writes
<1>3. ASSUME NEW tables, Time(tables)
      PROVE  UNCHANGED <<server, script, knew, owed, half, changes>>
  BY <1>3 DEF Time, writes
<1>4. CASE Show \/ Warm \/ UNCHANGED vars
  BY <1>4 DEF Show, Warm, vars, writes
<1>5. QED
  BY <1>1, <1>2, <1>3, <1>4 DEF Reads

LEMMA FailEffect ==
    ASSUME Typed, NEW l \in Loader, RequestFails(l)
    PROVE  LET tb == loading[l].table IN
           /\ tb \in Table /\ todo[l] # << >> /\ Head(todo[l]) = tb
           /\ todo' = [todo EXCEPT ![l] = Tail(todo[l])]
           /\ loading' = [loading EXCEPT ![l] = NoRequest]
           /\ \A w \in Writer : script[w] = << >>
           /\ \A w \in Writer, t \in Table : knew'[w][t] = IF t = tb THEN 0 ELSE knew[w][t]
           /\ \A v \in View, t \in Table : owed'[v][t] = IF t = tb THEN 0 ELSE owed[v][t]
           /\ \A t \in Table \ {tb} : cache'[t] = cache[t] /\ age'[t] = age[t]
           /\ due \subseteq due'
           /\ UNCHANGED <<server, shown, goal, script, half, changes>>
<1>1. TypeOK
  BY DEF Typed
<1> DEFINE tb == loading[l].table
<1>2. loading[l] # NoRequest
  BY DEF RequestFails
<1>3. tb \in Table /\ todo[l] # << >> /\ Head(todo[l]) = tb
  BY <1>1, <1>2, TypeParts
<1>4. /\ todo' = [todo EXCEPT ![l] = Tail(todo[l])]
      /\ loading' = [loading EXCEPT ![l] = NoRequest]
      /\ \A w \in Writer : script[w] = << >>
      /\ knew' = [w \in Writer |-> [knew[w] EXCEPT ![tb] = 0]]
      /\ owed' = [v \in View |-> [owed[v] EXCEPT ![tb] = 0]]
      /\ Keep(l, 0) \/ UNCHANGED <<cache, age, due>>
      /\ UNCHANGED <<server, shown, goal, script, half, changes>>
  BY <1>1 DEF RequestFails, Answered, TypeOK
<1>5. \A t \in Table \ {tb} : cache'[t] = cache[t] /\ age'[t] = age[t]
  BY <1>1, <1>4 DEF Keep, TypeOK
<1>6. due \subseteq due'
  BY <1>4 DEF Keep, Warmed
<1> HIDE DEF tb
<1>7. \A w \in Writer, t \in Table : knew'[w][t] = IF t = tb THEN 0 ELSE knew[w][t]
  BY <1>1, <1>4 DEF TypeOK
<1>8. \A v \in View, t \in Table : owed'[v][t] = IF t = tb THEN 0 ELSE owed[v][t]
  BY <1>1, <1>4 DEF TypeOK
<1>9. QED
  BY <1>3, <1>4, <1>5, <1>6, <1>7, <1>8 DEF tb

LEMMA InvalidateEffect ==
    ASSUME Typed, NEW w \in Writer, Invalidate(w)
    PROVE  /\ script[w] # << >> /\ Head(script[w]).op = "invalidate"
           /\ script' = [script EXCEPT ![w] = Tail(script[w])]
           /\ \A tb \in Table : age'[tb] = IF tb \in Head(script[w]).tables THEN "none" ELSE age[tb]
           /\ \A u \in Writer, tb \in Table :
                 \/ knew'[u][tb] = knew[u][tb]
                 \/ knew'[u][tb] = 0
           /\ \A tb \in Table : tb \in Head(script[w]).tables /\ Requested(tb) => knew'[w][tb] = 0
           /\ UNCHANGED <<server, cache, due, shown, goal, todo, loading, owed, half, changes>>
  BY DEF Invalidate, loads, Typed, TypeOK

LEMMA TriggerEffect ==
    ASSUME Typed, NEW w \in Writer, Trigger(w), Head(script[w]).view \in View
    PROVE  LET v == Head(script[w]).view IN
           /\ script[w] # << >> /\ Head(script[w]).op = "trigger"
           /\ script' = [script EXCEPT ![w] = Tail(script[w])]
           /\ due' = due \union {v}
           /\ \A u \in View, tb \in Table :
                 \/ owed'[u][tb] = owed[u][tb]
                 \/ u = v /\ tb \in TablesOf(v) /\ owed'[u][tb] = knew[w][tb]
           /\ \A u \in Writer, tb \in Table :
                 \/ knew'[u][tb] = knew[u][tb]
                 \/ knew'[u][tb] = 0 /\ u = w /\ Len(script[w]) = 1
           /\ UNCHANGED <<server, cache, age, shown, goal, todo, loading, half, changes>>
<1> DEFINE v == Head(script[w]).view
<1>1. TypeOK /\ v \in View /\ knew[w] \in [Table -> Nat] /\ owed \in [View -> [Table -> Nat]]
      /\ owed[v] \in [Table -> Nat] /\ knew \in [Writer -> [Table -> Nat]]
  BY DEF Typed, TypeOK
<1>2. /\ script[w] # << >> /\ Head(script[w]).op = "trigger"
      /\ script' = [script EXCEPT ![w] = Tail(script[w])]
      /\ due' = due \union {v}
      /\ owed' = [owed EXCEPT ![v] = Newer(owed[v], For(v, knew[w]))]
      /\ knew' = [knew EXCEPT ![w] = IF Len(script[w]) = 1 THEN Zero ELSE knew[w]]
      /\ UNCHANGED <<server, cache, age, shown, goal, todo, loading, half, changes>>
  BY <1>1 DEF Trigger, loads, TypeOK
<1> HIDE DEF v
<1>3. \A tb \in Table : \/ Newer(owed[v], For(v, knew[w]))[tb] = owed[v][tb]
                        \/ /\ tb \in TablesOf(v)
                           /\ Newer(owed[v], For(v, knew[w]))[tb] = knew[w][tb]
  BY <1>1 DEF Newer, For
<1>4. \A tb \in Table : Zero[tb] = 0
  BY DEF Zero
<1>5. \A u \in View, tb \in Table :
                 \/ owed'[u][tb] = owed[u][tb]
                 \/ u = v /\ tb \in TablesOf(v) /\ owed'[u][tb] = knew[w][tb]
  BY <1>1, <1>2, <1>3
<1>6. \A u \in Writer, tb \in Table :
                 \/ knew'[u][tb] = knew[u][tb]
                 \/ knew'[u][tb] = 0 /\ u = w /\ Len(script[w]) = 1
  BY <1>1, <1>2, <1>4
<1>7. QED
  BY <1>2, <1>5, <1>6 DEF v

LEMMA GoodZero == ASSUME TypeOK, NEW tb \in Table PROVE Good(tb, 0)
  BY TypeParts DEF Good, Requests, TypeOK

LEMMA GoodZeroNext == ASSUME TypeOK', NEW tb \in Table PROVE \A n \in Nat : n = 0 => Good(tb, n)'
<1>1. \A l \in Loader : loading'[l] \in Requests
  BY DEF TypeOK, Requests
<1>2. cache'[tb] \in Nat
  BY DEF TypeOK
<1>3. QED
  BY <1>1, <1>2 DEF Good, Requests

\* A table stays as good as it is, unless a request for it fails.
LEMMA GoodStep ==
    ASSUME Typed, NEW tb \in Table, NEW n \in Nat, n <= server[tb], Good(tb, n), [Next]_vars,
           \A l \in Loader : RequestFails(l) => loading[l].table # tb,
           \A w \in Writer : Trigger(w) => Head(script[w]).view \in View
    PROVE  Good(tb, n)'
<1>1. TypeOK /\ NoRequest.table \notin Table /\ tb \in Table /\ n <= server[tb]
  BY DEF Typed, NoRequest, InFlight, Table, Quick, Slow
<1>2. ASSUME NEW l \in Loader, Load(l) PROVE Good(tb, n)'
  <2>1. CASE Fresh(l)
    BY <2>1 DEF Fresh, Good
  <2>2. CASE Request(l)
    <3>1. DEFINE q == InFlight(Head(todo[l]), server[Head(todo[l])], "fresh")
    <3>2. q.table = Head(todo[l]) /\ q.version = server[Head(todo[l])]
      BY DEF InFlight
    <3>3. loading' = [loading EXCEPT ![l] = q] /\ UNCHANGED <<age, cache>>
      BY <2>2 DEF Request
    <3> HIDE DEF q
    <3>4. q.table = tb => n <= q.version
      BY <1>1, <3>2
    <3>5. QED
      BY <1>1, <3>3, <3>4 DEF Good, TypeOK
  <2>3. CASE Store(l)
    <3>1. /\ loading[l].table \in Table
          /\ cache' = [cache EXCEPT ![loading[l].table] = loading[l].version]
          /\ age' = [age EXCEPT ![loading[l].table] = loading[l].age]
          /\ loading' = [loading EXCEPT ![l] = NoRequest]
      BY <1>1, <2>3, TypeParts DEF Store, Keep, Answered
    <3>2. QED
      BY <1>1, <3>1 DEF Good, TypeOK
  <2>4. QED
    BY <1>2, <2>1, <2>2, <2>3 DEF Load
<1>3. ASSUME NEW tables, Time(tables) PROVE Good(tb, n)'
  <2>1. age'[tb] = "fresh" => age[tb] = "fresh"
    BY <1>3 DEF Time, Aged
  <2>2. \A l \in Loader : loading'[l].table = loading[l].table
                          /\ loading'[l].version = loading[l].version
    BY <1>3 DEF Time, InFlight
  <2>3. UNCHANGED cache
    BY <1>3 DEF Time
  <2>4. QED
    BY <2>1, <2>2, <2>3 DEF Good
<1>4. CASE Show \/ (\E v \in View : Ask(v)) \/ Warm \/ UNCHANGED vars
  BY <1>4 DEF Show, Ask, Warm, vars, Good
<1>5. ASSUME NEW l \in Loader, RequestFails(l) PROVE Good(tb, n)'
  <2>1. /\ loading' = [loading EXCEPT ![l] = NoRequest]
        /\ cache'[tb] = cache[tb] /\ age'[tb] = age[tb]
    BY <1>5, FailEffect
  <2>2. QED
    BY <1>1, <2>1 DEF Good, TypeOK
<1>6. CASE Starts
  BY <1>1, <1>6, StartEffect DEF Good
<1>7. ASSUME NEW w \in Writer, Invalidate(w) PROVE Good(tb, n)'
  BY <1>7, InvalidateEffect DEF Good
<1>8. ASSUME NEW w \in Writer, Trigger(w) PROVE Good(tb, n)'
  BY <1>8, TriggerEffect DEF Good
<1>9. QED
  BY <1>2, <1>3, <1>4, <1>5, <1>6, <1>7, <1>8, NextSplit DEF Reads, Fails, Reports

-----------------------------------------------------------------------------
(* The invariant.                                                          *)

\* Nothing is reported that is newer than the server's.
Past ==
    /\ \A w \in Writer, tb \in Table : knew[w][tb] <= server[tb]
    /\ \A v \in View, tb \in Table : owed[v][tb] <= server[tb]

\* What a writer has still to tell Kodi of is emptied first, or it is good.
Scripts ==
    \A w \in Writer :
       /\ Len(script[w]) <= 4
       /\ \A i \in 1..Len(script[w]) : script[w][i].op = "trigger" => script[w][i].view \in View
       /\ \A i \in 1..Len(script[w]) : script[w][i].op = "invalidate" => script[w][i].view = NoView
       /\ \A i \in 1..Len(script[w]), tb \in Quick :
             Tells(script[w][i], tb) => Emptied(script[w], tb, i) \/ Good(tb, knew[w][tb])

\* What Kodi was told of is what it gets if it asks.
Kept == \A v \in View : \A tb \in Quick : tb \in TablesOf(v) => Good(tb, owed[v][tb])

\* Kodi, having asked for a view and not been told again, has a table still to look
\* at or has found it new enough.
Asked ==
    \A v \in View : \A tb \in Quick :
        tb \in TablesOf(v) /\ goal["kodi"] = v /\ v \notin due
          => \/ \E i \in 1..Len(todo["kodi"]) : todo["kodi"][i] = tb
             \/ owed[v][tb] <= cache[tb]

Pending(v) == \E w \in Writer : \E i \in 1..Len(script[w]) : script[w][i].view = v

Seen ==
    \A v \in View : \A tb \in Quick :
        tb \in TablesOf(v) =>
            v \in due \/ goal["kodi"] = v \/ Pending(v) \/ owed[v][tb] <= shown[v][tb]

IInv == Typed /\ Past /\ Scripts /\ Kept /\ Asked /\ Seen

LEMMA Values ==
    ASSUME TypeOK
    PROVE  /\ \A tb \in Table : server[tb] \in Nat /\ cache[tb] \in Nat
           /\ \A w \in Writer : script[w] \in Seq(Steps)
           /\ \A w \in Writer, tb \in Table : knew[w][tb] \in Nat
           /\ \A v \in View, tb \in Table : owed[v][tb] \in Nat /\ shown[v][tb] \in Nat
<1>1. \A tb \in Table : server[tb] \in Nat /\ cache[tb] \in Nat
  BY DEF TypeOK
<1>2. \A w \in Writer : script[w] \in Seq(Steps)
  BY DEF TypeOK, Steps
<1>3. \A w \in Writer, tb \in Table : knew[w][tb] \in Nat
  BY DEF TypeOK
<1>4. \A v \in View, tb \in Table : owed[v][tb] \in Nat /\ shown[v][tb] \in Nat
  BY DEF TypeOK
<1>5. QED
  BY <1>1, <1>2, <1>3, <1>4

LEMMA QuickTables == Quick \subseteq Table
  BY DEF Table

LEMMA IInvInit == Init => IInv
<1>1. SUFFICES ASSUME Init PROVE IInv
  OBVIOUS
<1>2. Typed
  BY <1>1, InitType DEF Typed, Init, Idle, Guide, Loader
<1>3. /\ \A w \in Writer : script[w] = << >> /\ \A tb \in Table : knew[w][tb] = 0
      /\ \A v \in View, tb \in Table : owed[v][tb] = 0
      /\ goal["kodi"] = NoView /\ NoView \notin View
  BY <1>1 DEF Init, Zero, Loader, View, NoView
<1>4. Past /\ Kept
  BY <1>2, <1>3, Values, GoodZero, QuickTables DEF Past, Kept, Typed
<1>5. Scripts
  BY <1>3 DEF Scripts
<1>6. Asked
  BY <1>3 DEF Asked
<1>7. Seen
  BY <1>2, <1>3, Values, QuickTables DEF Seen, Typed
<1>8. QED
  BY <1>2, <1>4, <1>5, <1>6, <1>7 DEF IInv

LEMMA HeadInView ==
    ASSUME TypeOK, Scripts, NEW w \in Writer, Trigger(w)
    PROVE  Head(script[w]).view \in View
<1>1. script[w] \in Seq(Steps) /\ script[w] # << >>
  BY Values DEF Trigger
<1>2. Head(script[w]) = script[w][1] /\ 1 \in 1..Len(script[w])
  BY <1>1, Tails
<1>3. QED
  BY <1>2 DEF Scripts, Trigger

LEMMA TypedStep == Typed /\ Scripts /\ [Next]_vars => Typed'
<1>1. SUFFICES ASSUME Typed, Scripts, [Next]_vars PROVE Typed'
  OBVIOUS
<1>2. CASE Reads
  <2>1. CASE UNCHANGED vars
    BY <1>1, <2>1 DEF vars, Typed, TypeOK, Idle, Guide, writes
  <2>2. QED
    BY <1>1, <1>2, <2>1, LoadType, ReadType, TimeType DEF Reads
<1>3. CASE Fails
  BY <1>1, <1>3, LoadType DEF Fails
<1>4. CASE Starts
  <2>1. TypeOK /\ Idle /\ Guide
    BY <1>1 DEF Typed
  <2>2. script' \in [Writer -> Seq(Steps)] /\ knew' \in [Writer -> [Table -> Nat]]
    <3>1. server' \in [Table -> Nat]
      BY <1>4, <2>1, StartEffect
    <3>2. script \in [Writer -> Seq(Steps)] /\ knew \in [Writer -> [Table -> Nat]]
      BY <2>1 DEF TypeOK, Steps
    <3>3. CASE UNCHANGED <<script, knew>>
      BY <3>2, <3>3
    <3>4. ASSUME NEW w \in Writer, NEW steps \in Seq(Steps),
                 script' = [script EXCEPT ![w] = steps], knew' = [knew EXCEPT ![w] = server']
          PROVE  script' \in [Writer -> Seq(Steps)] /\ knew' \in [Writer -> [Table -> Nat]]
      BY <3>1, <3>2, <3>4
    <3>5. QED
      BY <1>4, <2>1, <3>3, <3>4, StartEffect
  <2>3. QED
    BY <1>4, <2>1, <2>2, StartEffect DEF Typed, TypeOK, Idle, Guide, Steps
<1>5. CASE Reports
  <2>1. \A w \in Writer : \A i \in 1..Len(script[w]) :
            script[w][i].op = "trigger" => script[w][i].view \in View
    BY <1>1 DEF Scripts
  <2>2. QED
    BY <1>1, <1>5, <2>1, WriteType DEF Reports
<1>6. QED
  BY <1>1, <1>2, <1>3, <1>4, <1>5, NextSplit

LEMMA PastStep == Typed /\ Scripts /\ Past /\ [Next]_vars => Past'
<1>1. SUFFICES ASSUME Typed, Scripts, Past, [Next]_vars PROVE Past'
  OBVIOUS
<1>2. TypeOK
  BY <1>1 DEF Typed
<1>3. CASE Reads
  BY <1>1, <1>3, ReadFrame DEF Past
<1>4. ASSUME NEW l \in Loader, RequestFails(l) PROVE Past'
  <2>1. /\ \A w \in Writer, t \in Table : knew'[w][t] \in {0, knew[w][t]}
        /\ \A v \in View, t \in Table : owed'[v][t] \in {0, owed[v][t]}
        /\ server' = server
    BY <1>1, <1>4, FailEffect
  <2>2. QED
    BY <1>1, <1>2, <2>1, Values DEF Past
<1>5. CASE Starts
  <2>1. /\ \A w \in Writer, t \in Table : knew'[w][t] \in {server'[t], knew[w][t]}
        /\ \A t \in Table : server[t] <= server'[t] /\ server'[t] \in Nat
        /\ owed' = owed
    BY <1>2, <1>5, StartEffect DEF TypeOK
  <2>2. QED
    BY <1>1, <1>2, <2>1, Values DEF Past
<1>6. ASSUME NEW w \in Writer, Invalidate(w) PROVE Past'
  <2>1. /\ \A u \in Writer, t \in Table : knew'[u][t] \in {0, knew[u][t]}
        /\ server' = server /\ owed' = owed
    BY <1>1, <1>6, InvalidateEffect
  <2>2. QED
    BY <1>1, <1>2, <2>1, Values DEF Past
<1>7. ASSUME NEW w \in Writer, Trigger(w) PROVE Past'
  <2>1. /\ \A u \in Writer, t \in Table : knew'[u][t] \in {0, knew[u][t]}
        /\ \A v \in View, t \in Table : owed'[v][t] \in {owed[v][t], knew[w][t]}
        /\ server' = server
    BY <1>1, <1>2, <1>7, HeadInView, TriggerEffect
  <2>2. QED
    BY <1>1, <1>2, <2>1, Values DEF Past
<1>8. QED
  BY <1>1, <1>3, <1>4, <1>5, <1>6, <1>7, NextSplit DEF Fails, Reports

\* The table of a failing request aside, what is good and past stays good.
LEMMA StaysGood ==
    ASSUME Typed, Scripts, [Next]_vars, NEW tb \in Table, NEW n \in Nat, n <= server[tb],
           Good(tb, n), \A l \in Loader : RequestFails(l) => loading[l].table # tb
    PROVE  Good(tb, n)'
<1>1. \A w \in Writer : Trigger(w) => Head(script[w]).view \in View
  BY HeadInView DEF Typed
<1>2. QED
  BY <1>1, GoodStep

\* What is left of a script after its first step.
LEMMA ScriptsTail ==
    ASSUME Typed, Scripts, NEW w \in Writer, script[w] # << >>,
           script' = [script EXCEPT ![w] = Tail(script[w])],
           \A u \in Writer : \A i \in 1..Len(script'[u]) : \A tb \in Quick :
               Tells(script'[u][i], tb) => Emptied(script'[u], tb, i) \/ Good(tb, knew[u][tb])'
    PROVE  Scripts'
<1>1. script \in [Writer -> Seq(Steps)] /\ script[w] \in Seq(Steps)
  BY DEF Typed, TypeOK, Steps
<1>2. /\ Len(Tail(script[w])) = Len(script[w]) - 1 /\ Len(script[w]) \in Nat
      /\ \A i \in 1..Len(Tail(script[w])) : /\ i + 1 \in 1..Len(script[w])
                                            /\ Tail(script[w])[i] = script[w][i + 1]
  BY <1>1, Tails
<1>3. script'[w] = Tail(script[w]) /\ \A u \in Writer \ {w} : script'[u] = script[u]
  BY <1>1
<1>4. ASSUME NEW u \in Writer
      PROVE  /\ Len(script'[u]) <= 4
             /\ \A i \in 1..Len(script'[u]) :
                   /\ script'[u][i].op = "trigger" => script'[u][i].view \in View
                   /\ script'[u][i].op = "invalidate" => script'[u][i].view = NoView
  <2>1. CASE u = w
    BY <1>2, <1>3, <2>1 DEF Scripts
  <2>2. CASE u # w
    BY <1>3, <2>2 DEF Scripts
  <2>3. QED
    BY <2>1, <2>2
<1>5. QED
  BY <1>4 DEF Scripts

LEMMA ScriptsStep == Typed /\ Past /\ Scripts /\ [Next]_vars => Scripts'
<1>1. SUFFICES ASSUME Typed, Past, Scripts, [Next]_vars PROVE Scripts'
  OBVIOUS
<1>2. TypeOK /\ TypeOK'
  BY <1>1, TypedStep DEF Typed
<1>3. \A w \in Writer, tb \in Quick :
          knew[w][tb] \in Nat /\ knew[w][tb] <= server[tb] /\ tb \in Table
  BY <1>1, <1>2, Values, QuickTables DEF Past
<1>4. ASSUME NEW w \in Writer, NEW tb \in Quick, Good(tb, knew[w][tb]), ~Fails,
             knew'[w][tb] \in {0, knew[w][tb]}
      PROVE  Good(tb, knew[w][tb])'
  <2>1. \A n \in Nat : n = knew[w][tb] => Good(tb, n)'
    BY <1>1, <1>3, <1>4, StaysGood DEF Fails
  <2>2. \A n \in Nat : n = 0 => Good(tb, n)'
    BY <1>2, <1>3, GoodZeroNext
  <2>3. QED
    BY <1>3, <1>4, <2>1, <2>2
<1>5. CASE \A w \in Writer : script'[w] = script[w] /\ (Fails => script[w] = << >>)
                              /\ \A tb \in Quick : knew'[w][tb] = knew[w][tb] \/ Fails
  <2>1. SUFFICES ASSUME NEW w \in Writer, NEW i \in 1..Len(script[w]), NEW tb \in Quick,
                        Tells(script[w][i], tb), ~Emptied(script[w], tb, i)
                 PROVE  Good(tb, knew[w][tb])'
    BY <1>1, <1>5 DEF Scripts
  <2>2. ~Fails
    BY <1>5, <2>1
  <2>3. Good(tb, knew[w][tb])
    BY <1>1, <2>1 DEF Scripts
  <2>4. QED
    BY <1>4, <1>5, <2>2, <2>3
<1>6. CASE Reads /\ ~Fails
  BY <1>5, <1>6, ReadFrame
<1>7. ASSUME NEW l \in Loader, RequestFails(l) PROVE Scripts'
  BY <1>1, <1>5, <1>7, FailEffect DEF Fails
<1>8. CASE Starts /\ ~Fails
  <2>1. CASE UNCHANGED <<script, knew>>
    BY <1>5, <1>8, <2>1
  <2>2. ASSUME NEW w \in Writer, NEW steps \in Seq(Steps), Orderly(steps), script[w] = << >>,
               script' = [script EXCEPT ![w] = steps], knew' = [knew EXCEPT ![w] = server']
        PROVE  Scripts'
    <3>1. /\ script'[w] = steps /\ \A u \in Writer \ {w} : script'[u] = script[u] /\ knew'[u] = knew[u]
      BY <1>2, <2>2 DEF TypeOK
    <3>2. ASSUME NEW u \in Writer \ {w}, NEW i \in 1..Len(script[u]), NEW tb \in Quick,
                 Tells(script[u][i], tb), ~Emptied(script[u], tb, i)
          PROVE  Good(tb, knew[u][tb])'
      <4>1. Good(tb, knew[u][tb])
        BY <1>1, <3>2 DEF Scripts
      <4>2. QED
        BY <1>4, <1>8, <3>1, <4>1
    <3>3. ASSUME NEW u \in Writer
          PROVE  /\ Len(script'[u]) <= 4
                 /\ \A i \in 1..Len(script'[u]) :
                       /\ script'[u][i].op = "trigger" => script'[u][i].view \in View
                       /\ script'[u][i].op = "invalidate" => script'[u][i].view = NoView
                       /\ \A tb \in Quick : Tells(script'[u][i], tb) =>
                             Emptied(script'[u], tb, i) \/ Good(tb, knew[u][tb])'
      <4>1. CASE u = w
        BY <2>2, <3>1, <4>1 DEF Orderly
      <4>2. CASE u # w
        BY <1>1, <3>1, <3>2, <4>2 DEF Scripts
      <4>3. QED
        BY <4>1, <4>2
    <3>4. QED
      BY <3>3 DEF Scripts
  <2>3. QED
    BY <1>2, <1>8, <2>1, <2>2, StartEffect
<1>9. ASSUME NEW w \in Writer, script[w] # << >>, script' = [script EXCEPT ![w] = Tail(script[w])],
             ~Fails, \A u \in Writer \ {w}, tb \in Quick : knew'[u][tb] \in {0, knew[u][tb]},
             \A tb \in Quick : script'[w] # << >> => knew'[w][tb] \in {0, knew[w][tb]},
             \A tb \in Quick :
                 Head(script[w]).op = "invalidate" /\ tb \in Head(script[w]).tables
                     => Good(tb, knew[w][tb])'
      PROVE  Scripts'
  <2>1. script \in [Writer -> Seq(Steps)] /\ script[w] \in Seq(Steps)
    BY <1>2 DEF TypeOK, Steps
  <2>2. /\ Len(Tail(script[w])) = Len(script[w]) - 1 /\ Len(script[w]) \in Nat
        /\ Head(script[w]) = script[w][1]
        /\ \A i \in 1..Len(Tail(script[w])) : /\ i + 1 \in 1..Len(script[w])
                                              /\ Tail(script[w])[i] = script[w][i + 1]
    BY <1>9, <2>1, Tails
  <2>3. script'[w] = Tail(script[w]) /\ \A u \in Writer \ {w} : script'[u] = script[u]
    BY <1>9, <2>1
  <2>4. SUFFICES ASSUME NEW u \in Writer, NEW i \in 1..Len(script'[u]), NEW tb \in Quick,
                        Tells(script'[u][i], tb), ~Emptied(script'[u], tb, i)
                 PROVE  Good(tb, knew[u][tb])'
    BY <1>1, <1>9, ScriptsTail
  <2>5. CASE u # w
    <3>1. Good(tb, knew[u][tb])
      BY <1>1, <2>3, <2>4, <2>5 DEF Scripts
    <3>2. QED
      BY <1>4, <1>9, <2>4, <2>5, <3>1
  <2>6. CASE u = w
    <3>1. i + 1 \in 1..Len(script[w]) /\ Tells(script[w][i + 1], tb)
      BY <2>2, <2>3, <2>4, <2>6
    <3>2. Emptied(script[w], tb, i + 1) \/ Good(tb, knew[w][tb])
      BY <1>1, <3>1 DEF Scripts
    <3>3. CASE Emptied(script[w], tb, i + 1)
      <4>1. PICK j \in 1..((i + 1) - 1) : script[w][j].op = "invalidate" /\ tb \in script[w][j].tables
        BY <3>3 DEF Emptied
      <4>2. CASE j = 1
        BY <1>9, <2>2, <2>6, <4>1, <4>2
      <4>3. CASE j # 1
        <5>1. j - 1 \in 1..(i - 1) /\ j - 1 \in 1..Len(Tail(script[w])) /\ (j - 1) + 1 = j
          <6>1. i \in 1..Len(Tail(script[w])) /\ Len(Tail(script[w])) \in Int
            <7>1. Len(Tail(script[w])) \in Int
              BY <2>2
            <7>2. script'[u] = Tail(script[w])
              BY <2>3, <2>6
            <7>3. i \in 1..Len(script'[u])
              OBVIOUS
            <7>4. QED
              BY <7>1, <7>2, <7>3
          <6>2. QED
            BY <4>3, <6>1
        <5>2. script'[w][j - 1] = script[w][j]
          BY <2>2, <2>3, <5>1
        <5>3. QED
          BY <2>4, <2>6, <4>1, <5>1, <5>2 DEF Emptied
      <4>4. QED
        BY <4>2, <4>3
    <3>4. CASE Good(tb, knew[w][tb])
      <4>1. script'[w] # << >>
        BY <2>4, <2>6
      <4>2. QED
        BY <1>4, <1>9, <2>4, <2>6, <3>4, <4>1
    <3>5. QED
      BY <3>2, <3>3, <3>4
  <2>7. QED
    BY <2>5, <2>6
<1>10. ASSUME NEW w \in Writer, Invalidate(w), ~Fails PROVE Scripts'
  <2>1. ASSUME NEW tb \in Quick, tb \in Head(script[w]).tables PROVE Good(tb, knew[w][tb])'
    <3>1. age'[tb] = "none" /\ loading' = loading /\ (Requested(tb) => knew'[w][tb] = 0)
      BY <1>1, <1>3, <1>10, <2>1, InvalidateEffect
    <3>2. CASE Requested(tb)
      <4>1. \A n \in Nat : n = 0 => Good(tb, n)'
        BY <1>2, <1>3, GoodZeroNext
      <4>2. QED
        BY <3>1, <3>2, <4>1
    <3>3. CASE ~Requested(tb)
      BY <3>1, <3>3 DEF Requested, Good
    <3>4. QED
      BY <3>2, <3>3
  <2>2. /\ script[w] # << >> /\ script' = [script EXCEPT ![w] = Tail(script[w])]
        /\ \A u \in Writer, tb \in Quick : knew'[u][tb] \in {0, knew[u][tb]}
    BY <1>1, <1>3, <1>10, InvalidateEffect
  <2>3. QED
    BY <1>9, <1>10, <2>1, <2>2
<1>11. ASSUME NEW w \in Writer, Trigger(w), ~Fails PROVE Scripts'
  BY <1>1, <1>2, <1>3, <1>9, <1>11, TriggerEffect, HeadInView
<1>12. QED
  BY <1>1, <1>6, <1>7, <1>8, <1>10, <1>11, NextSplit DEF Fails, Reports

LEMMA KeptStep == Typed /\ Past /\ Scripts /\ Kept /\ [Next]_vars => Kept'
<1>1. SUFFICES ASSUME Typed, Past, Scripts, Kept, [Next]_vars,
                      NEW v \in View, NEW tb \in Quick, tb \in TablesOf(v)
               PROVE  Good(tb, owed[v][tb])'
  BY DEF Kept
<1>2. TypeOK /\ TypeOK' /\ tb \in Table
  BY <1>1, TypedStep, QuickTables DEF Typed
<1>3. owed[v][tb] \in Nat /\ owed[v][tb] <= server[tb] /\ Good(tb, owed[v][tb])
  BY <1>1, <1>2, Values DEF Past, Kept
<1>4. ASSUME owed'[v][tb] = owed[v][tb], \A l \in Loader : RequestFails(l) => loading[l].table # tb
      PROVE  Good(tb, owed[v][tb])'
  <2>1. \A n \in Nat : n = owed[v][tb] => Good(tb, n)'
    BY <1>1, <1>2, <1>3, <1>4, StaysGood
  <2>2. QED
    BY <1>3, <1>4, <2>1
<1>5. ASSUME NEW l \in Loader, RequestFails(l), loading[l].table = tb PROVE Good(tb, owed[v][tb])'
  <2>1. owed'[v][tb] = 0
    BY <1>1, <1>2, <1>5, FailEffect
  <2>2. QED
    BY <1>2, <2>1, GoodZeroNext
<1>6. CASE Reads /\ \A l \in Loader : RequestFails(l) => loading[l].table # tb
  BY <1>4, <1>6, ReadFrame
<1>7. CASE Fails /\ \A l \in Loader : RequestFails(l) => loading[l].table # tb
  BY <1>1, <1>2, <1>4, <1>7, FailEffect DEF Fails
<1>8. CASE Starts /\ \A l \in Loader : RequestFails(l) => loading[l].table # tb
  BY <1>2, <1>4, <1>8, StartEffect
<1>9. ASSUME NEW w \in Writer, Invalidate(w), \A l \in Loader : RequestFails(l) => loading[l].table # tb
      PROVE  Good(tb, owed[v][tb])'
  BY <1>1, <1>4, <1>9, InvalidateEffect
<1>10. ASSUME NEW w \in Writer, Trigger(w), \A l \in Loader : RequestFails(l) => loading[l].table # tb
       PROVE  Good(tb, owed[v][tb])'
  <2>1. script[w] # << >> /\ Head(script[w]) = script[w][1] /\ 1 \in 1..Len(script[w])
    BY <1>2, <1>10, Values, Tails DEF Trigger
  <2>2. CASE owed'[v][tb] = owed[v][tb]
    BY <1>4, <1>10, <2>2
  <2>3. CASE owed'[v][tb] # owed[v][tb]
    <3>1. /\ Head(script[w]).view = v /\ Head(script[w]).op = "trigger"
          /\ owed'[v][tb] = knew[w][tb]
      BY <1>1, <1>2, <1>10, <2>3, TriggerEffect, HeadInView
    <3>2. Tells(script[w][1], tb) /\ ~Emptied(script[w], tb, 1)
      BY <1>1, <2>1, <3>1 DEF Tells, Emptied
    <3>3. Good(tb, knew[w][tb]) /\ knew[w][tb] \in Nat /\ knew[w][tb] <= server[tb]
      BY <1>1, <1>2, <2>1, <3>2, Values DEF Scripts, Past
    <3>4. \A n \in Nat : n = knew[w][tb] => Good(tb, n)'
      BY <1>1, <1>2, <1>10, <3>3, StaysGood
    <3>5. QED
      BY <3>1, <3>3, <3>4
  <2>4. QED
    BY <2>2, <2>3
<1>11. QED
  BY <1>1, <1>5, <1>6, <1>7, <1>8, <1>9, <1>10, NextSplit DEF Reports

\* Kodi's thread having looked at a table, the rest of them are left.
LEMMA LookedAt ==
    ASSUME TypeOK, todo["kodi"] # << >>, todo' = [todo EXCEPT !["kodi"] = Tail(todo["kodi"])],
           NEW tb, tb # Head(todo["kodi"]),
           \E i \in 1..Len(todo["kodi"]) : todo["kodi"][i] = tb
    PROVE  \E i \in 1..Len(todo'["kodi"]) : todo'["kodi"][i] = tb
<1>1. todo \in [Loader -> Seq(Table)] /\ todo["kodi"] \in Seq(Table) /\ "kodi" \in Loader
  BY DEF TypeOK, Loader
<1> DEFINE s == todo["kodi"]
<1>2. /\ Len(Tail(s)) = Len(s) - 1 /\ Len(s) \in Nat /\ Head(s) = s[1]
      /\ \A i \in 1..Len(Tail(s)) : i + 1 \in 1..Len(s) /\ Tail(s)[i] = s[i + 1]
  BY <1>1, Tails
<1>3. todo'["kodi"] = Tail(s)
  BY <1>1
<1>4. PICK i \in 1..Len(s) : s[i] = tb
  OBVIOUS
<1>5. i # 1
  BY <1>2, <1>4
<1> HIDE DEF s
<1>6. i - 1 \in 1..Len(Tail(s)) /\ (i - 1) + 1 = i
  BY <1>2, <1>4, <1>5
<1>7. Tail(s)[i - 1] = s[i]
  BY <1>2, <1>6
<1>8. QED
  BY <1>3, <1>4, <1>6, <1>7

LEMMA AskedStep ==
    Typed /\ Past /\ Scripts /\ Kept /\ Asked /\ [Next]_vars => Asked'
<1>1. SUFFICES ASSUME Typed, Past, Scripts, Kept, Asked, [Next]_vars,
                      NEW v \in View, NEW tb \in Quick, tb \in TablesOf(v),
                      goal'["kodi"] = v, v \notin due'
               PROVE  \/ \E i \in 1..Len(todo'["kodi"]) : todo'["kodi"][i] = tb
                      \/ owed'[v][tb] <= cache'[tb]
  BY DEF Asked
<1>2. TypeOK /\ TypeOK' /\ tb \in Table /\ "kodi" \in Loader /\ "guide" \in Loader
  BY <1>1, TypedStep, QuickTables DEF Typed, Loader
<1>3. Good(tb, owed[v][tb]) /\ owed[v][tb] \in Nat
  BY <1>1, <1>2, Values DEF Kept
<1>4. goal["kodi"] = v /\ v \notin due =>
          \/ \E i \in 1..Len(todo["kodi"]) : todo["kodi"][i] = tb
          \/ owed[v][tb] <= cache[tb]
  BY <1>1 DEF Asked
<1>5. CASE UNCHANGED <<goal, todo, owed, cache>> /\ due \subseteq due'
  BY <1>1, <1>4, <1>5
<1>6. ASSUME NEW l \in Loader, Load(l)
      PROVE  \/ \E i \in 1..Len(todo'["kodi"]) : todo'["kodi"][i] = tb
             \/ owed'[v][tb] <= cache'[tb]
  <2>1. CASE Fresh(l)
    <3>1. /\ todo[l] # << >> /\ age[Head(todo[l])] = "fresh"
          /\ todo' = [todo EXCEPT ![l] = Tail(todo[l])]
          /\ UNCHANGED <<goal, owed, cache, due>>
      BY <2>1 DEF Fresh, Missing
    <3>2. CASE l = "kodi" /\ tb # Head(todo[l])
      BY <1>1, <1>2, <1>4, <3>1, <3>2, LookedAt
    <3>3. CASE l = "kodi" /\ tb = Head(todo[l])
      BY <1>3, <3>1, <3>3 DEF Good
    <3>4. CASE l # "kodi"
      BY <1>1, <1>2, <1>4, <3>1, <3>4 DEF TypeOK
    <3>5. QED
      BY <3>2, <3>3, <3>4
  <2>2. CASE Request(l)
    BY <1>5, <2>2 DEF Request
  <2>3. CASE Store(l)
    <3>1. /\ loading[l].table \in Table /\ todo[l] # << >> /\ loading[l].table = Head(todo[l])
          /\ cache' = [cache EXCEPT ![loading[l].table] = loading[l].version]
          /\ todo' = [todo EXCEPT ![l] = Tail(todo[l])]
          /\ UNCHANGED <<goal, owed>> /\ due \subseteq due'
      BY <1>2, <2>3, TypeParts DEF Store, Keep, Answered, Warmed
    <3>2. owed[v][tb] <= cache[tb] => owed[v][tb] <= cache'[tb]
      BY <1>2, <1>3, <3>1 DEF Good, TypeOK
    <3>3. CASE l = "kodi" /\ tb # Head(todo[l])
      BY <1>1, <1>2, <1>4, <3>1, <3>2, <3>3, LookedAt
    <3>4. CASE l = "kodi" /\ tb = Head(todo[l])
      BY <1>2, <1>3, <3>1, <3>4 DEF Good, TypeOK
    <3>5. CASE l # "kodi"
      <4>1. todo'["kodi"] = todo["kodi"]
        BY <1>2, <3>1, <3>5 DEF TypeOK
      <4>2. QED
        BY <1>1, <1>4, <3>1, <3>2, <4>1
    <3>6. QED
      BY <3>3, <3>4, <3>5
  <2>4. QED
    BY <1>6, <2>1, <2>2, <2>3 DEF Load
<1>7. CASE Show
  <2>1. goal'["kodi"] = NoView /\ NoView \notin View
    BY <1>2, <1>7 DEF Show, TypeOK, View, NoView
  <2>2. QED
    BY <1>1, <2>1
<1>8. ASSUME NEW u \in View, Ask(u)
      PROVE  \E i \in 1..Len(todo'["kodi"]) : todo'["kodi"][i] = tb
  <2>1. goal'["kodi"] = u /\ todo'["kodi"] = Needs(u)
    BY <1>2, <1>8 DEF Ask, TypeOK
  <2>2. u = v /\ Needs(v) \in Seq(Table)
    BY <1>1, <2>1, NeedsType
  <2>3. \E i \in DOMAIN Needs(v) : Needs(v)[i] = tb
    BY <1>1 DEF TablesOf
  <2>4. QED
    BY <2>1, <2>2, <2>3
<1>9. CASE Warm
  <2>1. todo'["kodi"] = todo["kodi"] /\ UNCHANGED <<goal, owed, cache, due>>
    BY <1>2, <1>9 DEF Warm, TypeOK
  <2>2. QED
    BY <1>1, <1>4, <2>1
<1>10. ASSUME NEW tables, Time(tables)
       PROVE  UNCHANGED <<goal, todo, owed, cache>> /\ due \subseteq due'
  BY <1>10 DEF Time
<1>11. ASSUME NEW l \in Loader, RequestFails(l)
       PROVE  \/ \E i \in 1..Len(todo'["kodi"]) : todo'["kodi"][i] = tb
              \/ owed'[v][tb] <= cache'[tb]
  <2>1. /\ todo[l] # << >> /\ Head(todo[l]) = loading[l].table
        /\ todo' = [todo EXCEPT ![l] = Tail(todo[l])]
        /\ UNCHANGED goal /\ due \subseteq due'
        /\ owed'[v][tb] = IF tb = loading[l].table THEN 0 ELSE owed[v][tb]
        /\ tb # loading[l].table => cache'[tb] = cache[tb]
    BY <1>1, <1>2, <1>11, FailEffect
  <2>2. CASE tb = loading[l].table
    <3>1. cache'[tb] \in Nat
      BY <1>2 DEF TypeOK
    <3>2. QED
      BY <2>1, <2>2, <3>1
  <2>3. CASE tb # loading[l].table /\ l = "kodi"
    BY <1>1, <1>2, <1>4, <2>1, <2>3, LookedAt
  <2>4. CASE tb # loading[l].table /\ l # "kodi"
    <3>1. todo'["kodi"] = todo["kodi"]
      BY <1>2, <2>1, <2>4 DEF TypeOK
    <3>2. QED
      BY <1>1, <1>4, <2>1, <2>4, <3>1
  <2>5. QED
    BY <2>2, <2>3, <2>4
<1>12. CASE Starts
  BY <1>2, <1>5, <1>12, StartEffect
<1>13. ASSUME NEW w \in Writer, Invalidate(w)
       PROVE  UNCHANGED <<goal, todo, owed, cache>> /\ due \subseteq due'
  BY <1>1, <1>13, InvalidateEffect
<1>14. ASSUME NEW w \in Writer, Trigger(w)
       PROVE  \/ \E i \in 1..Len(todo'["kodi"]) : todo'["kodi"][i] = tb
              \/ owed'[v][tb] <= cache'[tb]
  <2>1. /\ UNCHANGED <<goal, todo, cache>> /\ due' = due \union {Head(script[w]).view}
        /\ owed'[v][tb] = owed[v][tb] \/ v = Head(script[w]).view
    BY <1>1, <1>2, <1>14, TriggerEffect, HeadInView
  <2>2. QED
    BY <1>1, <1>4, <2>1
<1>15. CASE UNCHANGED vars
  BY <1>5, <1>15 DEF vars
<1>16. QED
  BY <1>1, <1>5, <1>6, <1>7, <1>8, <1>9, <1>10, <1>11, <1>12, <1>13, <1>14, <1>15, NextSplit
     DEF Reads, Fails, Reports

\* A notice that is not the next step of a script stays in it.
LEMMA StillPending ==
    ASSUME TypeOK, NEW w \in Writer, script[w] # << >>,
           script' = [script EXCEPT ![w] = Tail(script[w])],
           NEW v, Head(script[w]).view # v, Pending(v)
    PROVE  Pending(v)'
<1>1. script \in [Writer -> Seq(Steps)] /\ script[w] \in Seq(Steps)
  BY DEF TypeOK, Steps
<1> DEFINE s == script[w]
<1>2. /\ Len(Tail(s)) = Len(s) - 1 /\ Len(s) \in Nat /\ Head(s) = s[1]
      /\ \A i \in 1..Len(Tail(s)) : i + 1 \in 1..Len(s) /\ Tail(s)[i] = s[i + 1]
  BY <1>1, Tails
<1>3. script'[w] = Tail(s) /\ \A u \in Writer \ {w} : script'[u] = script[u]
  BY <1>1
<1>4. PICK u \in Writer : \E i \in 1..Len(script[u]) : script[u][i].view = v
  BY DEF Pending
<1>5. CASE u # w
  BY <1>3, <1>4, <1>5 DEF Pending
<1>6. CASE u = w
  <2>1. PICK i \in 1..Len(s) : s[i].view = v
    BY <1>4, <1>6
  <2>2. i # 1
    BY <1>2, <2>1
  <2> HIDE DEF s
  <2>3. i - 1 \in 1..Len(Tail(s)) /\ (i - 1) + 1 = i
    BY <1>2, <2>1, <2>2
  <2>4. Tail(s)[i - 1].view = v
    BY <1>2, <2>1, <2>3
  <2>5. QED
    BY <1>3, <2>3, <2>4 DEF Pending
<1>7. QED
  BY <1>5, <1>6

LEMMA SeenStep ==
    Typed /\ Past /\ Scripts /\ Asked /\ Seen /\ [Next]_vars => Seen'
<1>1. SUFFICES ASSUME Typed, Past, Scripts, Asked, Seen, [Next]_vars,
                      NEW v \in View, NEW tb \in Quick, tb \in TablesOf(v)
               PROVE  \/ v \in due' \/ goal'["kodi"] = v \/ Pending(v)'
                      \/ owed'[v][tb] <= shown'[v][tb]
  BY DEF Seen
<1>2. TypeOK /\ tb \in Table /\ "kodi" \in Loader /\ v # NoView
  BY <1>1, QuickTables DEF Typed, Loader, View, NoView
<1>3. owed[v][tb] \in Nat /\ shown[v][tb] \in Nat
  BY <1>2, Values
<1>4. v \in due \/ goal["kodi"] = v \/ Pending(v) \/ owed[v][tb] <= shown[v][tb]
  BY <1>1 DEF Seen
<1>5. ASSUME UNCHANGED <<goal, script, owed, shown>>, due \subseteq due'
      PROVE  \/ v \in due' \/ goal'["kodi"] = v \/ Pending(v)' \/ owed'[v][tb] <= shown'[v][tb]
  BY <1>4, <1>5 DEF Pending
<1>6. ASSUME NEW l \in Loader, Load(l)
      PROVE  UNCHANGED <<goal, script, owed, shown>> /\ due \subseteq due'
  BY <1>6 DEF Load, Fresh, Request, Store, Keep, Warmed, writes
<1>7. CASE Show
  <2>1. /\ todo["kodi"] = << >> /\ UNCHANGED <<due, script, owed, cache>>
        /\ shown' = [shown EXCEPT ![goal["kodi"]] = For(goal["kodi"], cache)]
    BY <1>7 DEF Show, writes
  <2>2. CASE goal["kodi"] = v
    <3>1. v \in due \/ owed[v][tb] <= cache[tb]
      BY <1>1, <2>1, <2>2 DEF Asked
    <3>2. shown'[v][tb] = cache[tb]
      BY <1>1, <1>2, <2>1, <2>2 DEF TypeOK, For
    <3>3. QED
      BY <2>1, <3>1, <3>2
  <2>3. CASE goal["kodi"] # v
    <3>1. shown'[v] = shown[v]
      BY <1>2, <2>1, <2>3 DEF TypeOK
    <3>2. QED
      BY <1>4, <2>1, <2>3, <3>1 DEF Pending
  <2>4. QED
    BY <2>2, <2>3
<1>8. ASSUME NEW u \in View, Ask(u)
      PROVE  \/ v \in due' \/ goal'["kodi"] = v \/ Pending(v)' \/ owed'[v][tb] <= shown'[v][tb]
  <2>1. /\ goal["kodi"] = NoView /\ goal'["kodi"] = u /\ due' = due \ {u}
        /\ UNCHANGED <<script, owed, shown>>
    BY <1>2, <1>8 DEF Ask, writes, TypeOK
  <2>2. QED
    BY <1>2, <1>4, <2>1 DEF Pending
<1>9. CASE Warm \/ UNCHANGED vars
  BY <1>5, <1>9 DEF Warm, vars, writes
<1>10. ASSUME NEW tables, Time(tables)
       PROVE  UNCHANGED <<goal, script, owed, shown>> /\ due \subseteq due'
  BY <1>10 DEF Time, writes
<1>11. ASSUME NEW l \in Loader, RequestFails(l)
       PROVE  \/ v \in due' \/ goal'["kodi"] = v \/ Pending(v)' \/ owed'[v][tb] <= shown'[v][tb]
  <2>1. /\ UNCHANGED <<goal, script, shown>> /\ due \subseteq due'
        /\ owed'[v][tb] \in {0, owed[v][tb]}
    BY <1>1, <1>2, <1>11, FailEffect
  <2>2. QED
    BY <1>3, <1>4, <2>1 DEF Pending
<1>12. CASE Starts
  <2>1. UNCHANGED <<goal, owed, shown, due>>
    BY <1>2, <1>12, StartEffect
  <2>2. Pending(v) => Pending(v)'
    <3>1. CASE UNCHANGED script
      BY <3>1 DEF Pending
    <3>2. ASSUME NEW w \in Writer, NEW steps \in Seq(Steps), script[w] = << >>,
                 script' = [script EXCEPT ![w] = steps], Pending(v)
          PROVE  Pending(v)'
      <4>1. PICK u \in Writer : \E i \in 1..Len(script[u]) : script[u][i].view = v
        BY <3>2 DEF Pending
      <4>2. u # w
        BY <3>2, <4>1
      <4>3. script'[u] = script[u]
        BY <1>2, <3>2, <4>2 DEF TypeOK
      <4>4. QED
        BY <4>1, <4>3 DEF Pending
    <3>3. QED
      BY <1>2, <1>12, <3>1, <3>2, StartEffect
  <2>3. QED
    BY <1>4, <2>1, <2>2
<1>13. ASSUME NEW w \in Writer, Invalidate(w)
       PROVE  \/ v \in due' \/ goal'["kodi"] = v \/ Pending(v)' \/ owed'[v][tb] <= shown'[v][tb]
  <2>1. /\ script[w] # << >> /\ Head(script[w]).op = "invalidate"
        /\ script' = [script EXCEPT ![w] = Tail(script[w])]
        /\ UNCHANGED <<goal, owed, shown, due>>
    BY <1>1, <1>13, InvalidateEffect
  <2>2. Head(script[w]).view # v
    <3>1. script[w] \in Seq(Steps) /\ Head(script[w]) = script[w][1] /\ 1 \in 1..Len(script[w])
      BY <1>2, <2>1, Values, Tails
    <3>2. QED
      BY <1>1, <1>2, <2>1, <3>1 DEF Scripts
  <2>3. QED
    BY <1>2, <1>4, <2>1, <2>2, StillPending
<1>14. ASSUME NEW w \in Writer, Trigger(w)
       PROVE  \/ v \in due' \/ goal'["kodi"] = v \/ Pending(v)' \/ owed'[v][tb] <= shown'[v][tb]
  <2>1. /\ script[w] # << >> /\ script' = [script EXCEPT ![w] = Tail(script[w])]
        /\ UNCHANGED <<goal, shown>> /\ due' = due \union {Head(script[w]).view}
        /\ owed'[v][tb] = owed[v][tb] \/ v = Head(script[w]).view
    BY <1>1, <1>2, <1>14, TriggerEffect, HeadInView
  <2>2. QED
    BY <1>2, <1>4, <2>1, StillPending
<1>15. QED
  BY <1>1, <1>5, <1>6, <1>7, <1>8, <1>9, <1>10, <1>11, <1>12, <1>13, <1>14, NextSplit
     DEF Reads, Fails, Reports

LEMMA IInvCorrect == Spec => []IInv
<1>1. IInv /\ [Next]_vars => IInv'
  BY TypedStep, PastStep, ScriptsStep, KeptStep, AskedStep, SeenStep DEF IInv
<1>2. QED
  BY IInvInit, <1>1, PTL DEF Spec

\* Every reachable state of the tables, the requests and the notices is well formed: a
\* request is always for the table its thread is looking at.
THEOREM TypeCorrect == Spec => []TypeOK
<1>1. IInv => TypeOK
  BY DEF IInv, Typed
<1>2. QED
  BY <1>1, IInvCorrect, PTL

\* What the server had when a change was about to be reported is shown by the updates
\* asked for, whatever is loaded, emptied, told or expires meanwhile, unless a request
\* was in flight then or fails.
THEOREM OwnWritesSeenHolds == Spec => []OwnWritesSeen
<1>1. IInv => OwnWritesSeen
  <2>1. SUFFICES ASSUME IInv, NEW v \in View, NEW tb \in TablesOf(v) \intersect Quick
                 PROVE  Coming(v) \/ shown[v][tb] >= owed[v][tb]
    BY DEF OwnWritesSeen
  <2>2. TypeOK /\ tb \in Quick /\ tb \in TablesOf(v)
    BY <2>1 DEF IInv, Typed
  <2>3. v \in due \/ goal["kodi"] = v \/ Pending(v) \/ owed[v][tb] <= shown[v][tb]
    BY <2>1, <2>2 DEF IInv, Seen
  <2>4. shown[v][tb] \in Nat /\ owed[v][tb] \in Nat
    BY <2>2, Values, QuickTables
  <2>5. Pending(v) => Coming(v)
    <3>1. SUFFICES ASSUME Pending(v) PROVE Coming(v)
      OBVIOUS
    <3>2. PICK w \in Writer : \E i \in 1..Len(script[w]) : script[w][i].view = v
      BY <3>1 DEF Pending
    <3>3. PICK i \in 1..Len(script[w]) : script[w][i].view = v
      BY <3>2
    <3>4. Len(script[w]) <= 4 /\ script[w] \in Seq(Steps)
      BY <2>1, <2>2, Values DEF IInv, Scripts
    <3>5. i \in 1..4 /\ i \in DOMAIN script[w]
      BY <3>4
    <3>6. QED
      BY <3>3, <3>5 DEF Coming
  <2>6. QED
    BY <2>3, <2>4, <2>5 DEF Coming
<1>2. QED
  BY <1>1, IInvCorrect, PTL

=============================================================================
