-------------------------- MODULE TimeshiftBuffer --------------------------
(***************************************************************************)
(* The timeshift_buffer plugin (dispatcharr-plugin/timeshift_buffer): one   *)
(* ffmpeg process and one segment directory per buffered channel, tracked   *)
(* by one JSON value per channel in Redis.  Every handler is a plain        *)
(* read - compute - write over that value, with no lock and no compare-     *)
(* and-swap, and the handlers run on the request threads of several worker  *)
(* processes, so a handler is modelled as the sequence of its externally    *)
(* visible steps: each Redis command, the liveness probe, the launch, the   *)
(* end of the kill, the removal of the directory.                           *)
(*                                                                         *)
(* Time is counted in ages: age 2 means "longer ago than                   *)
(* idle_timeout_seconds", and one Tick is a little over half that time.     *)
(***************************************************************************)
EXTENDS Naturals, FiniteSets

CONSTANTS
    Channel,        \* channel UUIDs
    Viewer,         \* viewer ids: GenerateViewerId() makes one per Open()
    Thread,         \* request and reaper threads of all workers
    Instance,       \* ffmpeg processes; stands for the pid and the access token
    NoOne,          \* absent instance, viewer or thread
    MaxConcurrent,  \* max_concurrent_buffers
    Prompt,         \* viewers whose addon beats in every Tick while it watches
    Faults,         \* which of "ttl", "launch", "timeout" can happen
    MaxCrashes,     \* how many times a worker may die
    AdminCalls      \* whether stop_all and stop_buffer without an id are called

ASSUME NoOneAssumption == NoOne \notin Instance \cup Viewer \cup Thread \cup Channel
ASSUME CapAssumption == MaxConcurrent \in Nat \ {0}
ASSUME FaultAssumption == Faults \subseteq {"ttl", "launch", "timeout"}
ASSUME CrashAssumption == MaxCrashes \in Nat
ASSUME PromptAssumption == Prompt \subseteq Viewer
ASSUME AdminAssumption == AdminCalls \in BOOLEAN

VARIABLES
    redis,    \* the tracked state of each channel
    running,  \* the ffmpeg processes that are alive
    chanOf,   \* the channel a launched instance records
    cwd,      \* the instances whose working directory has not been removed
    dir,      \* what <storage_path>/<channel_uuid> holds
    dirOld,   \* channels whose directory has not changed for min_age_seconds
    leader,   \* holder of the reaper_leader key
    pc, op, chan, who, held, todo,  \* per thread: where it is and its locals
    vst, vchan, vinst,              \* per viewer: the addon's side of the call
    beat,     \* viewers with an accepted heartbeat since the last Tick
    crashes   \* how many workers have died

redisVars  == <<redis, leader>>
systemVars == <<running, chanOf, cwd, dir, dirOld>>
threadVars == <<pc, op, chan, who, held, todo>>
viewerVars == <<vst, vchan, vinst, beat>>
vars == <<redisVars, systemVars, threadVars, viewerVars, crashes>>

-----------------------------------------------------------------------------
(* The tracked state of a buffer, and what the helpers do to it.           *)

Age   == 0..2
Stale == 2

State == [inst: Instance \cup {NoOne}, viewers: SUBSET Viewer,
          seen: [Viewer -> Age], last: Age]

NoState == [inst |-> NoOne, viewers |-> {}, seen |-> [v \in Viewer |-> 0], last |-> 0]

Present(s) == s.inst # NoOne

Older(a) == IF a = Stale THEN Stale ELSE a + 1

OlderState(s) ==
    IF Present(s)
    THEN [inst |-> s.inst, viewers |-> s.viewers,
          seen |-> [v \in Viewer |-> IF v \in s.viewers THEN Older(s.seen[v]) ELSE 0],
          last |-> Older(s.last)]
    ELSE s

\* Mutant of Registered: the list is made anew.
Registered_Alone(s, v) ==
    [s EXCEPT !.last = 0, !.viewers = {v}, !.seen = [u \in Viewer |-> 0]]

\* viewers.append(viewer_id) and viewer_heartbeats[viewer_id] = now
Registered(s, v) ==
    IF v = NoOne THEN [s EXCEPT !.last = 0]
    ELSE [s EXCEPT !.last = 0, !.viewers = @ \cup {v}, !.seen = [@ EXCEPT ![v] = 0]]

Deregistered(s, v) ==
    [s EXCEPT !.viewers = @ \ {v}, !.seen = [@ EXCEPT ![v] = 0]]

Pruned(s) ==
    LET fresh == {v \in s.viewers : s.seen[v] # Stale}
    IN  [inst |-> s.inst, viewers |-> fresh,
         seen |-> [v \in Viewer |-> IF v \in fresh THEN s.seen[v] ELSE 0],
         last |-> s.last]

\* Mutant of Beaten: only the buffer-wide time is refreshed.
Beaten_BufferOnly(s, v) == [s EXCEPT !.last = 0]

\* the heartbeat action: a viewer's own time only if it is registered
Beaten(s, v) ==
    IF v \in s.viewers THEN [s EXCEPT !.last = 0, !.seen = [@ EXCEPT ![v] = 0]]
    ELSE [s EXCEPT !.last = 0]

\* Mutant of NewState: [viewer_id] without the "if viewer_id".
NewState_NoneListed(i, v) ==
    [inst |-> i, viewers |-> {v}, seen |-> [u \in Viewer |-> 0], last |-> 0]

NewState(i, v) ==
    [inst |-> i, viewers |-> IF v = NoOne THEN {} ELSE {v},
     seen |-> [u \in Viewer |-> 0], last |-> 0]

-----------------------------------------------------------------------------
Dir == {"absent", "empty", "playlist"}

PC == {"idle", "start_check", "dead_files", "dead_del", "start_count", "launch",
       "start_set", "stop_set", "kill", "files", "del", "fetch_get", "beat_set",
       "manifest_build", "next", "reap_set", "scrub_rm"}

Op == {"none", "start", "stop", "heartbeat", "fetch", "manifest", "stop_all", "disable",
       "scrub", "reap"}

SweepOps == {"reap", "stop_all", "disable"}

VStatus == {"new", "opening", "open", "failed", "closing", "closed", "gone"}

TypeOK ==
    /\ redis \in [Channel -> State]
    /\ running \subseteq Instance
    /\ chanOf \in [Instance -> Channel \cup {NoOne}]
    /\ cwd \subseteq Instance
    /\ dir \in [Channel -> Dir]
    /\ dirOld \subseteq Channel
    /\ leader \in Thread \cup {NoOne}
    /\ pc \in [Thread -> PC]
    /\ op \in [Thread -> Op]
    /\ chan \in [Thread -> Channel \cup {NoOne}]
    /\ who \in [Thread -> Viewer \cup {NoOne}]
    /\ held \in [Thread -> State]
    /\ todo \in [Thread -> SUBSET Channel]
    /\ vst \in [Viewer -> VStatus]
    /\ vchan \in [Viewer -> Channel \cup {NoOne}]
    /\ vinst \in [Viewer -> Instance \cup {NoOne}]
    /\ beat \subseteq Viewer
    /\ crashes \in 0..MaxCrashes

Init ==
    /\ redis = [c \in Channel |-> NoState]
    /\ running = {}
    /\ chanOf = [i \in Instance |-> NoOne]
    /\ cwd = {}
    /\ dir = [c \in Channel |-> "absent"]
    /\ dirOld = {}
    /\ leader = NoOne
    /\ pc = [t \in Thread |-> "idle"]
    /\ op = [t \in Thread |-> "none"]
    /\ chan = [t \in Thread |-> NoOne]
    /\ who = [t \in Thread |-> NoOne]
    /\ held = [t \in Thread |-> NoState]
    /\ todo = [t \in Thread |-> {}]
    /\ vst = [v \in Viewer |-> "new"]
    /\ vchan = [v \in Viewer |-> NoOne]
    /\ vinst = [v \in Viewer |-> NoOne]
    /\ beat = {}
    /\ crashes = 0

-----------------------------------------------------------------------------
(* Bookkeeping shared by the handlers.                                     *)

Goto(t, l) == pc' = [pc EXCEPT ![t] = l]

Hold(t, s) == held' = [held EXCEPT ![t] = s]

\* run() dispatches an action; the handler's first Redis GET is part of it
Enter(t, o, c, v, s, l) ==
    /\ pc[t] = "idle"
    /\ Goto(t, l)
    /\ op' = [op EXCEPT ![t] = o]
    /\ chan' = [chan EXCEPT ![t] = c]
    /\ who' = [who EXCEPT ![t] = v]
    /\ Hold(t, s)
    /\ UNCHANGED todo

\* the addon calls from one thread: a viewer waits for one answer at a time
Busy(v) == \E t \in Thread : who[t] = v

\* the handler returns, its locals are gone
Leave(t) ==
    /\ Goto(t, "idle")
    /\ op' = [op EXCEPT ![t] = "none"]
    /\ chan' = [chan EXCEPT ![t] = NoOne]
    /\ who' = [who EXCEPT ![t] = NoOne]
    /\ Hold(t, NoState)
    /\ todo' = [todo EXCEPT ![t] = {}]

KeepLocals == UNCHANGED <<op, chan, who, todo>>

\* shutil.rmtree of the channel's directory, under whatever still writes there
RemoveDir(c) ==
    /\ dir' = [dir EXCEPT ![c] = "absent"]
    /\ dirOld' = dirOld \ {c}
    /\ cwd' = {i \in cwd : chanOf[i] # c}

\* the addon sees the answer, unless it has given the call up
Answer(v, from, to) ==
    vst' = IF v # NoOne /\ vst[v] = from THEN [vst EXCEPT ![v] = to] ELSE vst

-----------------------------------------------------------------------------
(* start_buffer.  A call by a viewer, or by hand with no viewer id.        *)

\* bound: Instance must leave one process to launch for every start in flight
Spare == {i \in Instance : chanOf[i] = NoOne}
Starting == {t \in Thread : op[t] = "start"}

StartCall(t, c, v) ==
    /\ Cardinality(Starting) < Cardinality(Spare)
    /\ Enter(t, "start", c, v, redis[c],
             IF Present(redis[c]) THEN "start_check" ELSE "start_count")
    /\ \/ /\ v = NoOne
          /\ AdminCalls
          /\ UNCHANGED <<vst, vchan>>
       \/ /\ v # NoOne
          /\ vst[v] = "new"
          /\ vst' = [vst EXCEPT ![v] = "opening"]
          /\ vchan' = [vchan EXCEPT ![v] = c]
    /\ UNCHANGED <<redisVars, systemVars, vinst, beat, crashes>>

\* Mutant of StartCheck: a live process is not reattached to.
StartCheck_NeverAttach(t) ==
    /\ pc[t] = "start_check"
    /\ Goto(t, "dead_files")
    /\ KeepLocals
    /\ UNCHANGED <<held, redisVars, systemVars, viewerVars, crashes>>

\* _is_process_alive(existing pid), then reattach or clean up
StartCheck(t) ==
    /\ pc[t] = "start_check"
    /\ IF held[t].inst \in running
       THEN /\ Hold(t, Registered(held[t], who[t]))
            /\ Goto(t, "start_set")
       ELSE /\ Goto(t, "dead_files")
            /\ UNCHANGED held
    /\ KeepLocals
    /\ UNCHANGED <<redisVars, systemVars, viewerVars, crashes>>

DeadFiles(t) ==
    /\ pc[t] = "dead_files"
    /\ RemoveDir(chan[t])
    /\ Goto(t, "dead_del")
    /\ KeepLocals
    /\ UNCHANGED <<redisVars, running, chanOf, held, viewerVars, crashes>>

DeadDel(t) ==
    /\ pc[t] = "dead_del"
    /\ redis' = [redis EXCEPT ![chan[t]] = NoState]
    /\ Hold(t, NoState)
    /\ Goto(t, "start_count")
    /\ KeepLocals
    /\ UNCHANGED <<leader, systemVars, viewerVars, crashes>>

Tracked == {c \in Channel : Present(redis[c])}

\* Mutant of StartCount: > for >=.
StartCount_OffByOne(t) ==
    /\ pc[t] = "start_count"
    /\ IF Cardinality(Tracked) > MaxConcurrent
       THEN /\ Leave(t)
            /\ Answer(who[t], "opening", "closed")
       ELSE /\ Goto(t, "launch")
            /\ KeepLocals
            /\ UNCHANGED <<held, vst>>
    /\ UNCHANGED <<redisVars, systemVars, vchan, vinst, beat, crashes>>

\* len(_list_buffer_keys()) >= max_concurrent: "Already at max_concurrent_buffers"
StartCount(t) ==
    /\ pc[t] = "start_count"
    /\ IF Cardinality(Tracked) >= MaxConcurrent
       THEN /\ Leave(t)
            /\ Answer(who[t], "opening", "closed")
       ELSE /\ Goto(t, "launch")
            /\ KeepLocals
            /\ UNCHANGED <<held, vst>>
    /\ UNCHANGED <<redisVars, systemVars, vchan, vinst, beat, crashes>>

MakeDir(c) ==
    dir' = IF dir[c] = "absent" THEN [dir EXCEPT ![c] = "empty"] ELSE dir

\* _start_ffmpeg: mkdir(exist_ok), then Popen with cwd = channel_dir
Launch(t) ==
    /\ pc[t] = "launch"
    /\ \E i \in Instance :
          /\ chanOf[i] = NoOne
          /\ chanOf' = [chanOf EXCEPT ![i] = chan[t]]
          /\ running' = running \cup {i}
          /\ cwd' = cwd \cup {i}
          /\ Hold(t, NewState(i, who[t]))
    /\ MakeDir(chan[t])
    /\ Goto(t, "start_set")
    /\ KeepLocals
    /\ UNCHANGED <<redisVars, dirOld, viewerVars, crashes>>

\* Popen raises after the mkdir: the error is returned, the directory stays
LaunchFails(t) ==
    /\ "launch" \in Faults
    /\ pc[t] = "launch"
    /\ MakeDir(chan[t])
    /\ Leave(t)
    /\ Answer(who[t], "opening", "closed")
    /\ UNCHANGED <<redisVars, running, chanOf, cwd, dirOld, vchan, vinst, beat, crashes>>

StartSet(t) ==
    /\ pc[t] = "start_set"
    /\ redis' = [redis EXCEPT ![chan[t]] = held[t]]
    /\ IF who[t] # NoOne /\ vst[who[t]] = "opening"
       THEN /\ vst' = [vst EXCEPT ![who[t]] = "open"]
            /\ vinst' = [vinst EXCEPT ![who[t]] = held[t].inst]
            /\ beat' = beat \cup {who[t]}
       ELSE UNCHANGED <<vst, vinst, beat>>
    /\ Leave(t)
    /\ UNCHANGED <<leader, systemVars, vchan, crashes>>

-----------------------------------------------------------------------------
(* stop_buffer, and the teardown it shares with the reaper, with stop_all   *)
(* and with a manifest call that finds the process dead.                   *)

StopCall(t, v) ==
    LET c    == vchan[v]
        left == Pruned(Deregistered(redis[c], v))
    IN  /\ vst[v] \in {"open", "failed"}
        /\ ~Busy(v)
        /\ IF Present(redis[c])
           THEN /\ Enter(t, "stop", c, v, left, IF left.viewers # {} THEN "stop_set" ELSE "kill")
                /\ vst' = [vst EXCEPT ![v] = "closing"]
           ELSE /\ pc[t] = "idle"              \* "no buffer was running"
                /\ vst' = [vst EXCEPT ![v] = "closed"]
                /\ UNCHANGED threadVars
        /\ UNCHANGED <<redisVars, systemVars, vchan, vinst, beat, crashes>>

StopSet(t) ==
    /\ pc[t] = "stop_set"
    /\ redis' = [redis EXCEPT ![chan[t]] = held[t]]
    /\ Leave(t)
    /\ Answer(who[t], "closing", "closed")
    /\ UNCHANGED <<leader, systemVars, vchan, vinst, beat, crashes>>

\* the manual button: no viewer id, an unconditional stop
StopCallNoId(t, c) ==
    /\ AdminCalls
    /\ Present(redis[c])
    /\ Enter(t, "stop", c, NoOne, redis[c], "kill")
    /\ UNCHANGED <<redisVars, systemVars, viewerVars, crashes>>

\* stop_all, the reaper and the plugin's stop() list the keys, then walk the list
Sweep(t, o, l, cs) ==
    /\ pc[t] = "idle"
    /\ Goto(t, l)
    /\ op' = [op EXCEPT ![t] = o]
    /\ todo' = [todo EXCEPT ![t] = cs]
    /\ UNCHANGED <<chan, who, held, redis, systemVars, viewerVars, crashes>>

StopAllCall(t) ==
    /\ AdminCalls
    /\ Tracked # {}
    /\ \E o \in {"stop_all", "disable"} : Sweep(t, o, "next", Tracked)
    /\ UNCHANGED leader

\* Mutant of Kill: no SIGKILL for a process that ignores the SIGTERM.
Kill_NoEscalation(t) ==
    /\ pc[t] = "kill"
    /\ Goto(t, "files")
    /\ KeepLocals
    /\ UNCHANGED <<held, redisVars, systemVars, viewerVars, crashes>>

\* _stop_ffmpeg returns: it signalled on entry and the process is gone, by
\* itself or by the SIGKILL after two seconds
Kill(t) ==
    /\ pc[t] = "kill"
    /\ running' = running \ {held[t].inst}
    /\ Goto(t, "files")
    /\ KeepLocals
    /\ UNCHANGED <<held, redisVars, chanOf, cwd, dir, dirOld, viewerVars, crashes>>

Files(t) ==
    /\ pc[t] = "files"
    /\ RemoveDir(chan[t])
    /\ Goto(t, "del")
    /\ KeepLocals
    /\ UNCHANGED <<held, redisVars, running, chanOf, viewerVars, crashes>>

\* Mutant of Del: the reaper's teardown leaves the state behind.
Del_ReaperKeeps(t) ==
    /\ pc[t] = "del"
    /\ redis' = IF op[t] = "reap" THEN redis ELSE [redis EXCEPT ![chan[t]] = NoState]
    /\ IF op[t] \in SweepOps
       THEN /\ Goto(t, "next")
            /\ Hold(t, NoState)
            /\ KeepLocals
            /\ UNCHANGED vst
       ELSE /\ Leave(t)
            /\ IF op[t] = "stop" THEN Answer(who[t], "closing", "closed")
                                 ELSE Answer(who[t], "open", "failed")
    /\ UNCHANGED <<leader, systemVars, vchan, vinst, beat, crashes>>

Del(t) ==
    /\ pc[t] = "del"
    /\ redis' = [redis EXCEPT ![chan[t]] = NoState]
    /\ IF op[t] \in SweepOps
       THEN /\ Goto(t, "next")
            /\ Hold(t, NoState)
            /\ KeepLocals
            /\ UNCHANGED vst
       ELSE /\ Leave(t)
            /\ IF op[t] = "stop" THEN Answer(who[t], "closing", "closed")
                                 ELSE Answer(who[t], "open", "failed")
    /\ UNCHANGED <<leader, systemVars, vchan, vinst, beat, crashes>>

-----------------------------------------------------------------------------
(* What a watching viewer calls: heartbeat, segment fetch, manifest.       *)

HeartbeatCall(t, v) ==
    /\ vst[v] = "open"
    /\ ~Busy(v)
    /\ Present(redis[vchan[v]])
    /\ Enter(t, "heartbeat", vchan[v], v, Beaten(redis[vchan[v]], v), "beat_set")
    /\ UNCHANGED <<redisVars, systemVars, viewerVars, crashes>>

\* do_GET up to the read of the file: the access token and the file are there
FetchCall(t, v) ==
    /\ vst[v] = "open"
    /\ ~Busy(v)
    /\ Present(redis[vchan[v]])
    /\ redis[vchan[v]].inst = vinst[v]
    /\ dir[vchan[v]] = "playlist"
    /\ Enter(t, "fetch", vchan[v], v, NoState, "fetch_get")
    /\ UNCHANGED <<redisVars, systemVars, viewerVars, crashes>>

\* _touch_heartbeat reads the state again
FetchGet(t) ==
    /\ pc[t] = "fetch_get"
    /\ IF Present(redis[chan[t]])
       THEN /\ Hold(t, [redis[chan[t]] EXCEPT !.last = 0])
            /\ Goto(t, "beat_set")
            /\ KeepLocals
       ELSE Leave(t)
    /\ UNCHANGED <<redisVars, systemVars, viewerVars, crashes>>

ManifestCall(t, v) ==
    /\ vst[v] = "open"
    /\ ~Busy(v)
    /\ Present(redis[vchan[v]])
    /\ Enter(t, "manifest", vchan[v], v, redis[vchan[v]], "manifest_build")
    /\ UNCHANGED <<redisVars, systemVars, viewerVars, crashes>>

\* _get_live_manifest: a manifest, "not ready yet", or BufferFailedError
ManifestBuild(t) ==
    /\ pc[t] = "manifest_build"
    /\ CASE dir[chan[t]] = "playlist" ->
              /\ Hold(t, [held[t] EXCEPT !.last = 0])
              /\ Goto(t, "beat_set")
              /\ KeepLocals
         [] dir[chan[t]] # "playlist" /\ held[t].inst \in running ->
              Leave(t)
         [] OTHER ->
              /\ Goto(t, "kill")
              /\ KeepLocals
              /\ UNCHANGED held
    /\ UNCHANGED <<redisVars, systemVars, viewerVars, crashes>>

\* the write-back shared by heartbeat, _touch_heartbeat and get_live_manifest
BeatSet(t) ==
    /\ pc[t] = "beat_set"
    /\ redis' = [redis EXCEPT ![chan[t]] = held[t]]
    /\ beat' = IF op[t] = "heartbeat" THEN beat \cup ({who[t]} \cap Viewer) ELSE beat
    /\ Leave(t)
    /\ UNCHANGED <<leader, systemVars, vst, vchan, vinst, crashes>>

-----------------------------------------------------------------------------
(* The reaper: one tick of _reaper_loop.  A thread that finds the leader   *)
(* key absent, or its own, takes or renews it.  (A restarted worker has a  *)
(* new token and waits for the old one to lapse, which LeaderExpire allows *)
(* at any time, so it needs no case of its own.)                           *)

\* Mutant of Orphans: a tracked channel's directory counts as an orphan.
Orphans_Tracked == {c \in Channel : dir[c] # "absent" /\ c \in dirOld}

Orphans == {c \in Channel : dir[c] # "absent" /\ ~Present(redis[c]) /\ c \in dirOld}

ReapBegin(t) ==
    /\ leader \in {NoOne, t}
    /\ leader' = t
    /\ Sweep(t, "reap", "next", Tracked)

\* Mutant of NextBuffer: the channel is captured before the loop.
NextBuffer_ChanCaptured(t) ==
    /\ pc[t] = "next"
    /\ \E c \in todo[t] :
          /\ Present(redis[c])
          /\ todo' = [todo EXCEPT ![t] = @ \ {c}]
          /\ Goto(t, "kill")
          /\ chan' = [chan EXCEPT ![t] = IF @ = NoOne THEN c ELSE @]
          /\ Hold(t, redis[c])
    /\ UNCHANGED <<op, who, redisVars, systemVars, viewerVars, crashes>>

\* Mutant of Idle: only a buffer that still lists viewers is taken down.
Idle_Watched(s) == s.last = Stale /\ s.viewers # {}

\* nothing has been asked of the buffer for idle_timeout_seconds
Idle(s) == s.last = Stale

\* the next key of the walk: its value may be gone by now
NextBuffer(t) ==
    /\ pc[t] = "next"
    /\ \E c \in todo[t] :
          LET s    == redis[c]
              s2   == IF op[t] = "reap" THEN Pruned(s) ELSE s
              l    == IF ~Present(s) THEN "next"
                      ELSE IF s2 # s THEN "reap_set"
                      ELSE IF op[t] # "reap" \/ Idle(s) THEN "kill" ELSE "next"
          IN  /\ todo' = [todo EXCEPT ![t] = @ \ {c}]
              /\ Goto(t, l)
              /\ chan' = [chan EXCEPT ![t] = IF l = "next" THEN NoOne ELSE c]
              /\ Hold(t, IF l = "next" THEN NoState ELSE s2)
    /\ UNCHANGED <<op, who, redisVars, systemVars, viewerVars, crashes>>

\* viewers were pruned: write the state back, then look at last_heartbeat
ReapSet(t) ==
    /\ pc[t] = "reap_set"
    /\ redis' = [redis EXCEPT ![chan[t]] = held[t]]
    /\ IF Idle(held[t])
       THEN /\ Goto(t, "kill")
            /\ UNCHANGED <<held, chan>>
       ELSE /\ Goto(t, "next")
            /\ Hold(t, NoState)
            /\ chan' = [chan EXCEPT ![t] = NoOne]
    /\ UNCHANGED <<leader, op, who, todo, systemVars, viewerVars, crashes>>

\* Mutant of SweepEnd: the reaper does not scrub.
SweepEnd_NoScrub(t) ==
    /\ pc[t] = "next"
    /\ todo[t] = {}
    /\ IF op[t] = "disable" /\ Orphans # {}
       THEN /\ Goto(t, "scrub_rm")
            /\ todo' = [todo EXCEPT ![t] = Orphans]
            /\ UNCHANGED <<op, chan, who, held>>
       ELSE Leave(t)
    /\ UNCHANGED <<redisVars, systemVars, viewerVars, crashes>>

\* after the walk the reaper and stop() scrub; _find_orphaned_channel_dirs
SweepEnd(t) ==
    /\ pc[t] = "next"
    /\ todo[t] = {}
    /\ IF op[t] \in {"reap", "disable"} /\ Orphans # {}
       THEN /\ Goto(t, "scrub_rm")
            /\ todo' = [todo EXCEPT ![t] = Orphans]
            /\ UNCHANGED <<op, chan, who, held>>
       ELSE Leave(t)
    /\ UNCHANGED <<redisVars, systemVars, viewerVars, crashes>>

\* the scrub_orphaned_buffers action
ScrubCall(t) ==
    /\ AdminCalls
    /\ Orphans # {}
    /\ Sweep(t, "scrub", "scrub_rm", Orphans)
    /\ UNCHANGED leader

ScrubRemove(t) ==
    /\ pc[t] = "scrub_rm"
    /\ \E c \in todo[t] :
          /\ RemoveDir(c)
          /\ IF todo[t] = {c}
             THEN Leave(t)
             ELSE /\ todo' = [todo EXCEPT ![t] = @ \ {c}]
                  /\ UNCHANGED <<pc, op, chan, who, held>>
    /\ UNCHANGED <<redisVars, running, chanOf, viewerVars, crashes>>

-----------------------------------------------------------------------------
(* What surrounds the handlers: ffmpeg, Kodi, Redis' expiry, time, crashes. *)

\* ffmpeg closes a segment and rewrites the playlist
Segment(i) ==
    /\ i \in running \cap cwd
    /\ dir' = [dir EXCEPT ![chanOf[i]] = "playlist"]
    /\ dirOld' = dirOld \ {chanOf[i]}
    /\ UNCHANGED <<redisVars, running, chanOf, cwd, threadVars, viewerVars, crashes>>

\* ffmpeg exits by itself: the provider refused or ended the stream
ProcExit(i) ==
    /\ i \in running
    /\ running' = running \ {i}
    /\ UNCHANGED <<redisVars, chanOf, cwd, dir, dirOld, threadVars, viewerVars, crashes>>

\* Kodi dies, loses the network, or gives the open up without a stop_buffer
Vanish(v) ==
    /\ vst[v] \in {"opening", "open", "failed"}
    /\ vst' = [vst EXCEPT ![v] = "gone"]
    /\ UNCHANGED <<redisVars, systemVars, threadVars, vchan, vinst, beat, crashes>>

\* the addon's request times out; the handler does not notice
GiveUp(t) ==
    /\ "timeout" \in Faults
    /\ op[t] \in {"heartbeat", "fetch", "manifest"}
    /\ who[t] # NoOne
    /\ who' = [who EXCEPT ![t] = NoOne]
    /\ UNCHANGED <<redisVars, systemVars, pc, op, chan, held, todo, viewerVars, crashes>>

\* the worker dies under a handler; ffmpeg has its own session and lives on
Crash(t) ==
    /\ crashes < MaxCrashes
    /\ crashes' = crashes + 1
    /\ pc[t] # "idle"
    /\ Leave(t)
    /\ vst' = IF who[t] # NoOne /\ vst[who[t]] \in {"opening", "closing"}
              THEN [vst EXCEPT ![who[t]] = "closed"] ELSE vst
    /\ UNCHANGED <<redisVars, systemVars, vchan, vinst, beat>>

\* the leader key lapses; a tick of the reaper is shorter than its TTL
LeaderExpire ==
    /\ leader # NoOne
    /\ op[leader] # "reap"
    /\ leader' = NoOne
    /\ UNCHANGED <<redis, systemVars, threadVars, viewerVars, crashes>>

\* _BUFFER_STATE_TTL after the last write, longer than any idle timeout
Expire(c) ==
    /\ "ttl" \in Faults
    /\ Present(redis[c])
    /\ redis[c].last = Stale
    /\ redis' = [redis EXCEPT ![c] = NoState]
    /\ UNCHANGED <<leader, systemVars, threadVars, viewerVars, crashes>>

\* every handler begun before a Tick ends before it: the addon gives its calls
\* seconds, and a Tick is half the idle timeout
Quiet == \A t \in Thread : pc[t] = "idle"

\* the viewers whose heartbeat would be accepted
Watching == {v \in Viewer : vst[v] = "open" /\ Present(redis[vchan[v]])}

Tick ==
    /\ Quiet
    /\ Prompt \cap Watching \subseteq beat
    /\ redis' = [c \in Channel |-> OlderState(redis[c])]
    /\ beat' = {}
    /\ UNCHANGED <<leader, systemVars, threadVars, vst, vchan, vinst, crashes>>

\* min_age_seconds, at least five minutes, pass without a new directory entry;
\* a process that lives adds one every few seconds
DirAge(c) ==
    /\ Quiet
    /\ dir[c] # "absent"
    /\ \A i \in running \cap cwd : chanOf[i] # c
    /\ dirOld' = dirOld \cup {c}
    /\ UNCHANGED <<redisVars, running, chanOf, cwd, dir, threadVars, viewerVars, crashes>>

-----------------------------------------------------------------------------
ViewerCall(t) ==
    \E v \in Viewer :
       \/ \E c \in Channel : StartCall(t, c, v)
       \/ StopCall(t, v)
       \/ HeartbeatCall(t, v)
       \/ FetchCall(t, v)
       \/ ManifestCall(t, v)

AdminCall(t) ==
    \/ \E c \in Channel : StartCall(t, c, NoOne) \/ StopCallNoId(t, c)
    \/ StopAllCall(t)
    \/ ScrubCall(t)

HandlerStep(t) ==
    \/ StartCheck(t) \/ DeadFiles(t) \/ DeadDel(t) \/ StartCount(t)
    \/ Launch(t) \/ LaunchFails(t) \/ StartSet(t)
    \/ StopSet(t) \/ Kill(t) \/ Files(t) \/ Del(t)
    \/ FetchGet(t) \/ ManifestBuild(t) \/ BeatSet(t)
    \/ NextBuffer(t) \/ ReapSet(t) \/ SweepEnd(t) \/ ScrubRemove(t)

ThreadStep(t) == ViewerCall(t) \/ AdminCall(t) \/ ReapBegin(t) \/ HandlerStep(t)

Environment ==
    \/ \E i \in Instance : Segment(i) \/ ProcExit(i)
    \/ \E v \in Viewer : Vanish(v)
    \/ \E c \in Channel : Expire(c) \/ DirAge(c)
    \/ LeaderExpire
    \/ Tick

Next ==
    \/ \E t \in Thread : ThreadStep(t) \/ GiveUp(t) \/ Crash(t)
    \/ Environment

Spec == Init /\ [][Next]_vars

\* Handlers run on, time passes, and some worker's reaper keeps ticking (it has
\* a thread of its own, hence strong fairness).  An ffmpeg whose directory is
\* gone fails on its next segment.  Nobody has to call anything.
Fairness ==
    /\ \A t \in Thread : WF_vars(HandlerStep(t))
    /\ SF_vars(\E t \in Thread : ReapBegin(t))
    /\ WF_vars(LeaderExpire)
    /\ SF_vars(Tick)
    /\ \A c \in Channel : SF_vars(DirAge(c))
    /\ \A i \in Instance : WF_vars(i \notin cwd /\ ProcExit(i))

LiveSpec == Spec /\ Fairness

-----------------------------------------------------------------------------
(* Properties.                                                             *)

\* Viewers of one channel share one ffmpeg process: _start_buffer never
\* launches a second one beside a first.
OneProcessPerChannel ==
    \A i, j \in running : chanOf[i] = chanOf[j] => i = j

\* max_concurrent_buffers bounds the processes that really run, not only the
\* keys that _start_buffer counts.
Capped == Cardinality(running) <= MaxConcurrent

\* No ffmpeg process runs that nobody can stop: Redis names it, or the handler
\* that launched it or is killing it still holds it.
NoLostProcess ==
    \A i \in running : \/ redis[chanOf[i]].inst = i
                        \/ \E t \in Thread : held[t].inst = i

\* A viewer that keeps beating is still counted as a viewer of the process it
\* opened, so neither the reaper nor another viewer's stop_buffer ends it.
ViewerKept ==
    \A v \in Prompt :
        (vst[v] = "open" /\ vinst[v] \in running)
            => LET s == redis[vchan[v]]
               IN  s.inst = vinst[v] /\ v \in s.viewers /\ s.seen[v] # Stale

\* A process Redis names can still write its segments: no cleanup of an
\* earlier buffer removed its directory, unless it is being torn down.
Writable ==
    \A c \in Channel :
        (redis[c].inst \in running /\ \A t \in Thread : pc[t] # "del")
            => redis[c].inst \in cwd

\* Every state in Redis or in a handler's hand is that of a process launched
\* for that channel: no handler writes one channel's state under another's key.
ChannelBound ==
    /\ \A c \in Channel : Present(redis[c]) => chanOf[redis[c].inst] = c
    /\ \A t \in Thread :
          Present(held[t]) => chan[t] # NoOne /\ chanOf[held[t].inst] = chan[t]

\* A viewer past its first call has a channel, and so has a handler in the
\* middle of one (the walks of the reaper and of stop_all have one at a time).
Located ==
    /\ \A v \in Viewer : vst[v] # "new" => vchan[v] \in Channel
    /\ \A t \in Thread : pc[t] \notin {"idle", "next", "scrub_rm"} => chan[t] \in Channel

\* Close() is safe whoever else watches: the process a stop_buffer ends is not
\* one that another, beating viewer has been given.
CloseSparesOthers ==
    [][\A t \in Thread :
          (op[t] = "stop" /\ pc[t] = "kill" /\ pc'[t] = "files")
              => \A v \in Prompt : vst[v] = "open" => vinst[v] # held[t].inst]_vars

\* A viewer whose heartbeat was just accepted counts as a viewer of the buffer.
BeatingViewerCounted ==
    \A v \in beat :
        (vst[v] = "open" /\ vinst[v] \in running /\ redis[vchan[v]].inst = vinst[v])
            => v \in redis[vchan[v]].viewers

-----------------------------------------------------------------------------
Deserted == \A v \in Viewer : vst[v] \notin {"opening", "open"}

Forgotten == \A c \in Channel : ~Present(redis[c])

\* When nobody watches any more, whatever became of the viewers, every state
\* leaves Redis, though late handlers still write states back.
EventuallyForgotten == Deserted ~> (Forgotten \/ ~Deserted)

\* ... and, where no two handlers overlap, every ffmpeg process has ended.
EventuallyStopped == Deserted ~> ((Forgotten /\ running = {}) \/ ~Deserted)

\* A directory left behind by a failed start is removed in the end.
EventuallyScrubbed ==
    \A c \in Channel :
        (dir[c] # "absent" /\ ~Present(redis[c]) /\ running = {})
            ~> (dir[c] = "absent" \/ Present(redis[c]) \/ running # {})

-----------------------------------------------------------------------------
(* The promise of the plugin, seen through what Redis holds.  A process is  *)
(* over once nothing names it and the handler that launched it is done.     *)

Ended == {i \in Instance :
            /\ chanOf[i] # NoOne
            /\ redis[chanOf[i]].inst # i
            /\ \A t \in Thread : pc[t] = "start_set" => held[t].inst # i}

Shared == INSTANCE SharedBuffer WITH
            buffer  <- [c \in Channel |-> redis[c].inst],
            members <- [c \in Channel |-> redis[c].viewers],
            over    <- Ended

\* The handlers, when they do not overlap, are the atomic calls of SharedBuffer:
\* no step replaces one process by another or brings back one that has ended.
ImplementsSharedBuffer == Shared!Spec

=============================================================================
