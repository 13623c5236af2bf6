------------------------------ MODULE PvrCaches ------------------------------
(***************************************************************************)
(* What the add-on keeps of the server for Kodi, and how Kodi learns of a    *)
(* change.  Four tables are cached, each with the time it was loaded; the    *)
(* time is read before the request is sent and stored with the answer.  Kodi *)
(* asks again only when it is told to: by the add-on's own writes, by the    *)
(* periodic thread, by the WebSocket thread, by the thread that keeps        *)
(* channels and guide warm.  Data are versions of the server's.              *)
(***************************************************************************)
EXTENDS Integers, Sequences

CONSTANTS
    MaxChanges, \* bound: changes of the server's data
    MaxFaults   \* bound: requests that fail

ASSUME BoundAssumption == MaxChanges \in Nat /\ MaxFaults \in Nat

Quick == {"recordings", "rules"} \* kRecordingsAndTimersCacheTtlSeconds
Slow  == {"channels", "epg"}     \* channel_refresh_hours, epg_refresh_hours
Table == Quick \union Slow

\* the tables behind what Kodi shows, in the order they are loaded
View == {"channels", "epg", "recordings", "timers"}

Needs(v) ==
    CASE v = "channels"   -> <<"channels">>
      [] v = "epg"        -> <<"channels", "epg">>
      [] v = "recordings" -> <<"recordings">>
      [] v = "timers"     -> <<"recordings", "rules">>

TablesOf(v) == {Needs(v)[i] : i \in DOMAIN Needs(v)}

Loader == {"kodi", "guide"}             \* the threads that load
Writer == {"user", "background"} \* ... and those that report a change: Kodi's own, and
                                 \* one of the others at a time (bound)

VARIABLES
    server,   \* the version of each table on the server
    cache,    \* the version kept
    age,      \* its m_...LoadedAt: "none", "fresh" or "stale"
    due,      \* the updates Kodi has been told to make
    shown,    \* the version of each table behind each view of Kodi's
    goal,     \* the view a loader is loading for
    todo,     \* the tables it has still to look at
    loading,  \* the request it is waiting for
    script,   \* what a writer has still to do
    half,     \* bound: the tables that change in this behaviour
    knew,     \* history: the versions a writer reports, 0 for a table that was being
              \* requested when it was invalidated
    owed,     \* history: the versions Kodi was told of, by view
    changes, faults

vars == <<server, cache, age, due, shown, goal, todo, loading, script, knew,
          owed, half, changes, faults>>

loads  == <<goal, todo, loading>>
writes == <<script, knew>>

NoView == "none"

InFlight(table, version, a) == [table |-> table, version |-> version, age |-> a]

NoRequest == InFlight("none", 0, "none")

\* what concerns v of a function on the tables
For(v, f) == [tb \in Table |-> IF tb \in TablesOf(v) THEN f[tb] ELSE 0]

Zero == [tb \in Table |-> 0]

\* version 0 is what a table that was never loaded, or loaded in part, has; the
\* guide thread finds the slow tables empty, the quick ones have been loaded
Init ==
    /\ server = [tb \in Table |-> 1]
    /\ half \in {Quick, Slow}
    /\ cache = [tb \in Table |-> IF tb \in half \intersect Slow THEN 0 ELSE 1]
    /\ age = [tb \in Table |-> IF tb \in half \intersect Slow THEN "none" ELSE "fresh"]
    /\ shown = [v \in View |-> For(v, cache)]
    /\ due = {v \in View : TablesOf(v) \subseteq half \intersect Slow}
    /\ goal = [l \in Loader |-> NoView]
    /\ todo = [l \in Loader |-> << >>]
    /\ loading = [l \in Loader |-> NoRequest]
    /\ script = [w \in Writer |-> << >>]
    /\ knew = [w \in Writer |-> Zero]
    /\ owed = [v \in View |-> Zero]
    /\ changes = 0 /\ faults = 0

-----------------------------------------------------------------------------
(* Ensure...Loaded: is the table stale, what does the server say, keep it.  *)

Missing(tb) == age[tb] # "fresh"

Fresh(l) ==
    /\ todo[l] # << >>
    /\ loading[l] = NoRequest
    /\ ~Missing(Head(todo[l]))
    /\ todo' = [todo EXCEPT ![l] = Tail(@)]
    /\ UNCHANGED <<server, cache, age, due, shown, goal, loading, writes, owed, half,
                   changes, faults>>

Request(l) ==
    /\ todo[l] # << >>
    /\ loading[l] = NoRequest
    /\ Missing(Head(todo[l]))
    /\ loading' = [loading EXCEPT ![l] = InFlight(Head(todo[l]), server[Head(todo[l])], "fresh")]
    /\ UNCHANGED <<server, cache, age, due, shown, goal, todo, writes, owed, half,
                   changes, faults>>

Answered(l) ==
    /\ todo' = [todo EXCEPT ![l] = Tail(@)]
    /\ loading' = [loading EXCEPT ![l] = NoRequest]

\* the thread that keeps the guide warm reports what it has loaded
Warmed(l, tb) == IF l = "guide" THEN due \union {tb} ELSE due

Keep(l, version) ==
    LET tb == loading[l].table
    IN  /\ cache' = [cache EXCEPT ![tb] = version]
        /\ age' = [age EXCEPT ![tb] = loading[l].age]
        /\ due' = Warmed(l, tb)

Store(l) ==
    /\ loading[l] # NoRequest
    /\ Keep(l, loading[l].version)
    /\ Answered(l)
    /\ UNCHANGED <<server, shown, goal, writes, owed, half, changes, faults>>

\* Without the groups or one kind of rules the rest is kept, as if it were all;
\* without channels, guide or recordings, what there was.  (Bound: no request fails
\* while a change is being reported.)
RequestFails(l) ==
    /\ loading[l] # NoRequest
    /\ \A w \in Writer : script[w] = << >>
    /\ faults < MaxFaults
    /\ faults' = faults + 1
    /\ knew' = [w \in Writer |-> [knew[w] EXCEPT ![loading[l].table] = 0]]
    /\ owed' = [v \in View |-> [owed[v] EXCEPT ![loading[l].table] = 0]]
    /\ \/ loading[l].table \in {"channels", "rules"} /\ Keep(l, 0)
       \/ loading[l].table # "rules" /\ UNCHANGED <<cache, age, due>>
    /\ Answered(l)
    /\ UNCHANGED <<server, shown, goal, script, half, changes>>

-----------------------------------------------------------------------------
(* Kodi and the guide thread.                                              *)

\* Kodi asks for the entries, having asked for their number in the same way; for
\* the guide it also asks of its own accord.
Ask(v) ==
    /\ goal["kodi"] = NoView
    /\ v \in due \/ (v = "epg" /\ half = Slow)
    /\ due' = due \ {v}
    /\ goal' = [goal EXCEPT !["kodi"] = v]
    /\ todo' = [todo EXCEPT !["kodi"] = Needs(v)]
    /\ UNCHANGED <<server, cache, age, shown, loading, writes, owed, half, changes, faults>>

\* the entries are taken from the tables under m_dataMutex
Show ==
    /\ goal["kodi"] # NoView
    /\ todo["kodi"] = << >>
    /\ shown' = [shown EXCEPT ![goal["kodi"]] = For(goal["kodi"], cache)]
    /\ goal' = [goal EXCEPT !["kodi"] = NoView]
    /\ UNCHANGED <<server, cache, age, due, todo, loading, writes, owed, half, changes, faults>>

\* StartChannelEpgRefreshThread: one round every kChannelEpgRefreshCheckMinutes
Warm ==
    /\ todo["guide"] = << >>
    /\ \E tb \in Slow : Missing(tb)
    /\ todo' = [todo EXCEPT !["guide"] = <<"channels", "epg">>]
    /\ UNCHANGED <<server, cache, age, due, shown, goal, loading, writes, owed, half,
                   changes, faults>>

-----------------------------------------------------------------------------
(* InvalidateAndTrigger...Update, and its callers.                          *)

Inv(tables) == [op |-> "invalidate", tables |-> tables, view |-> NoView]
Tell(v)     == [op |-> "trigger", tables |-> {}, view |-> v]

\* Mutant of RecordingUpdate: Kodi is told before the cache is emptied.
RecordingUpdate_ToldFirst == <<Tell("recordings"), Inv({"recordings"})>>

\* Mutant of RecordingUpdate: the cache is emptied, Kodi is not told.
RecordingUpdate_Untold == <<Inv({"recordings"})>>

RecordingUpdate == <<Inv({"recordings"}), Tell("recordings")>>

TimerUpdate == <<Inv(Quick), Tell("timers")>>

Run(w, steps, version) ==
    /\ script[w] = << >>
    /\ script' = [script EXCEPT ![w] = steps]
    /\ knew' = [knew EXCEPT ![w] = version]

UserWrites(tables, steps) ==
    /\ half = Quick
    /\ changes < MaxChanges
    /\ changes' = changes + 1
    /\ \E tb \in tables : server' = [server EXCEPT ![tb] = @ + 1]
    /\ Run("user", steps, server')
    /\ UNCHANGED <<cache, age, due, shown, loads, owed, half, faults>>

\* DeleteRecording, RenameRecording
RecordingWrites == UserWrites({"recordings"}, RecordingUpdate)

\* AddTimer, UpdateTimer, DeleteTimer: nothing is recorded yet of a series rule
TimerWrites ==
    \/ UserWrites(Quick, TimerUpdate \o RecordingUpdate)
    \/ UserWrites({"rules"}, TimerUpdate)

\* a change made elsewhere; of the recordings a WebSocket event may tell
ServerChanges(tb) ==
    /\ tb \in half
    /\ changes < MaxChanges
    /\ changes' = changes + 1
    /\ server' = [server EXCEPT ![tb] = @ + 1]
    /\ \/ tb \in Quick /\ Run("background", RecordingUpdate \o TimerUpdate, server')
       \/ UNCHANGED writes
    /\ UNCHANGED <<cache, age, due, shown, loads, owed, half, faults>>

Behind(v) == \E tb \in TablesOf(v) : shown[v][tb] # server[tb]

\* StartRecordingRefreshThread: one round every recording_refresh_minutes.  (A
\* round that finds Kodi up to date is left out: it changes nothing that is shown.)
Poll ==
    /\ Behind("recordings") \/ Behind("timers")
    /\ Run("background", RecordingUpdate \o TimerUpdate, server)
    /\ UNCHANGED <<server, cache, age, due, shown, loads, owed, half, changes, faults>>

\* the thread AddTimer starts for a one-time timer, five seconds later
ToldAgain ==
    /\ Behind("recordings")
    /\ Run("background", RecordingUpdate, server)
    /\ UNCHANGED <<server, cache, age, due, shown, loads, owed, half, changes, faults>>

Requested(tb) == \E l \in Loader : loading[l].table = tb

Invalidate(w) ==
    /\ script[w] # << >>
    /\ Head(script[w]).op = "invalidate"
    /\ age' = [tb \in Table |->
           IF tb \in Head(script[w]).tables THEN "none" ELSE age[tb]]
    /\ knew' = [knew EXCEPT ![w] =
           [tb \in Table |->
               IF tb \in Head(script[w]).tables /\ Requested(tb) THEN 0 ELSE knew[w][tb]]]
    /\ script' = [script EXCEPT ![w] = Tail(@)]
    /\ UNCHANGED <<server, cache, due, shown, loads, owed, half, changes, faults>>

Newer(f, g) == [tb \in Table |-> IF f[tb] < g[tb] THEN g[tb] ELSE f[tb]]

Trigger(w) ==
    /\ script[w] # << >>
    /\ Head(script[w]).op = "trigger"
    /\ LET v == Head(script[w]).view
       IN  /\ due' = due \union {v}
           /\ owed' = [owed EXCEPT ![v] = Newer(@, For(v, knew[w]))]
    /\ script' = [script EXCEPT ![w] = Tail(@)]
    /\ knew' = [knew EXCEPT ![w] = IF Len(script[w]) = 1 THEN Zero ELSE @]
    /\ UNCHANGED <<server, cache, age, shown, loads, half, changes, faults>>

-----------------------------------------------------------------------------
(* Time.                                                                   *)

Aged(a) == IF a = "fresh" THEN "stale" ELSE a

\* more than the lifetime of these tables passes, and for a request in flight too
Time(tables) ==
    /\ tables = half
    /\ \/ \E tb \in tables : age[tb] = "fresh"
       \/ \E l \in Loader : loading[l].table \in tables /\ loading[l].age = "fresh"
    /\ age' = [tb \in Table |-> IF tb \in tables THEN Aged(age[tb]) ELSE age[tb]]
    /\ loading' = [l \in Loader |->
           IF loading[l].table \in tables
             THEN InFlight(loading[l].table, loading[l].version, Aged(loading[l].age))
             ELSE loading[l]]
    /\ UNCHANGED <<server, cache, due, shown, goal, todo, writes, owed, half, changes, faults>>

Load(l) == Fresh(l) \/ Request(l) \/ Store(l)

Next ==
    \/ \E l \in Loader : Load(l) \/ RequestFails(l)
    \/ Show
    \/ \E v \in View : Ask(v)
    \/ Warm
    \/ RecordingWrites \/ TimerWrites
    \/ \E tb \in Table : ServerChanges(tb)
    \/ Poll \/ ToldAgain
    \/ \E w \in Writer : Invalidate(w) \/ Trigger(w)
    \/ Time(Quick)
    \/ Time(Slow)

Spec == Init /\ [][Next]_vars

\* Threads run, requests are answered, Kodi does what it was told to, time passes
\* and the periodic threads wake; nobody has to change anything.
LiveSpec ==
    /\ Spec
    /\ \A l \in Loader : WF_vars(Load(l))
    /\ WF_vars(Show) /\ WF_vars(Warm) /\ WF_vars(Poll)
    /\ \A v \in View \ {"channels"} : SF_vars(Ask(v))
    /\ WF_vars(\E w \in Writer : Invalidate(w) \/ Trigger(w))
    /\ WF_vars(Time(Slow))

-----------------------------------------------------------------------------
(* Properties.                                                             *)

\* The state of the add-on's tables and threads; a request is for the table its
\* thread is looking at.
TypeOK ==
    /\ server \in [Table -> Nat \ {0}] /\ cache \in [Table -> Nat]
    /\ age \in [Table -> {"none", "fresh", "stale"}]
    /\ due \subseteq View /\ shown \in [View -> [Table -> Nat]]
    /\ goal \in [Loader -> View \union {NoView}]
    /\ todo \in [Loader -> Seq(Table)]
    /\ loading \in [Loader -> [table : Table \union {"none"}, version : Nat,
                               age : {"none", "fresh", "stale"}]]
    /\ script \in [Writer -> Seq([op : {"invalidate", "trigger"},
                                  tables : SUBSET Table, view : View \union {NoView}])]
    /\ knew \in [Writer -> [Table -> Nat]] /\ owed \in [View -> [Table -> Nat]]
    /\ half \in {Quick, Slow}
    /\ changes \in 0..MaxChanges /\ faults \in 0..MaxFaults
    /\ \A l \in Loader : loading[l] = NoRequest
           \/ (todo[l] # << >> /\ loading[l].table = Head(todo[l]))

Coming(v) ==
    \/ v \in due
    \/ goal["kodi"] = v
    \/ \E w \in Writer, i \in 1..4 :
          i \in DOMAIN script[w] /\ script[w][i].view = v

\* "Otherwise a timer/recording the user just added or deleted could still read
\* back the pre-change state": what the server had when a change was about to be
\* reported is shown by the updates asked for.  Only a request that was already in flight
\* then, or that fails, can spoil that.
OwnWritesSeen ==
    \A v \in View : \A tb \in TablesOf(v) \intersect Quick :
        Coming(v) \/ shown[v][tb] >= owed[v][tb]

\* Once the server rests and requests succeed, everything Kodi shows becomes and
\* stays what the server has, by the periodic threads alone if need be: a lost or
\* overtaken notice, a failed request or a partial answer delays it, no more.
Settled == \A v \in View \ {"channels"} : ~Behind(v)

EventuallySettled == <>[]Settled

\* "Kodi's own calling threads ignore it, since they're already inside the callback
\* that answers Kodi's question either way": channels that were loaded again are
\* shown, or Kodi has been told.
NewsTold == shown["channels"]["channels"] >= cache["channels"] \/ Coming("channels")

=============================================================================
