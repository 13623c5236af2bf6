---------------------------- MODULE LiveManifest ----------------------------
(***************************************************************************)
(* The manifest of one buffered channel: the list of closed segments with   *)
(* their sizes that _get_live_manifest builds from live.m3u8 and from a     *)
(* stat() of each file, and the cache each worker process keeps of it.      *)
(* Calls run on the threads of several workers; a call reads the tracked    *)
(* state, stats the playlist, and then builds its answer under its worker's *)
(* lock, while ffmpeg goes on closing segments and the buffer may be torn   *)
(* down and started again.  A manifest is a function from the sequence      *)
(* numbers it lists to sizes.                                              *)
(***************************************************************************)
EXTENDS Naturals, Sequences

CONSTANTS
    Worker,    \* worker processes, each with a _manifest_cache of its own
    Thread,    \* request threads
    Instance,  \* buffer instances of the channel; stands for access_token
    NoOne,     \* no instance, no worker
    Visible,   \* segments the playlist lists at most
    SizeOf,    \* bound: the sizes the segments of each instance end up with
    FlushLag   \* whether a stat can find a listed segment not wholly written

ASSUME NoOneAssumption == NoOne \notin Instance \cup Worker
ASSUME VisibleAssumption == Visible \in Nat \ {0}
ASSUME SizeAssumption == SizeOf \in [Instance -> Seq(Nat \ {0, 1})]
ASSUME LagAssumption == FlushLag \in BOOLEAN

VARIABLES
    tracked,   \* the instance whose state is in Redis
    disk,      \* the instance whose files are in the channel's directory
    last,      \* the last segment each instance has listed, 0 for none
    started,   \* the instances that have been started: none starts twice
    lagging,   \* the newest listed segment is not wholly written yet
    cache,     \* _manifest_cache of each worker, for this channel
    pc, at, token, seen, since,  \* per thread: its step, worker and locals
    answer     \* the manifest answered in the last step

diskVars   == <<tracked, disk, last, started, lagging>>
threadVars == <<pc, at, token, seen, since>>
vars == <<diskVars, cache, threadVars, answer>>

-----------------------------------------------------------------------------
Empty == [n \in {} |-> 0]

\* the segments live.m3u8 lists
Listed(i) == {n \in 1..last[i] : n + Visible > last[i]}

\* what stat() finds: a segment just closed may still be short of its end
Partial == 1
StatSize(i, n) == IF lagging /\ n = last[i] THEN Partial ELSE SizeOf[i][n]

\* the playlist file's mtime and size, which change with every rewrite
Version(i) == [of |-> i, upto |-> last[i]]

\* "from", whose files were read, is not in the code: it is for the properties
NoCache == [token |-> NoOne, version |-> [of |-> NoOne, upto |-> 0],
            from |-> NoOne, sizes |-> Empty]
NoAnswer == [token |-> NoOne, since |-> 0, from |-> NoOne, sizes |-> Empty]

Init ==
    /\ tracked = NoOne
    /\ disk = NoOne
    /\ last = [i \in Instance |-> 0]
    /\ started = {}
    /\ lagging = FALSE
    /\ cache = [w \in Worker |-> NoCache]
    /\ pc = [t \in Thread |-> "idle"]
    /\ at = [t \in Thread |-> NoOne]
    /\ token = [t \in Thread |-> NoOne]
    /\ seen = [t \in Thread |-> NoCache.version]
    /\ since = [t \in Thread |-> 0]
    /\ answer = NoAnswer

-----------------------------------------------------------------------------
(* ffmpeg and the buffer's life, as far as the manifest can see them.      *)

Silent == answer' = NoAnswer

\* start_buffer: a new process, a new token, numbering from the start
Start(i) ==
    /\ tracked = NoOne
    /\ disk = NoOne
    /\ i \notin started
    /\ started' = started \cup {i}
    /\ tracked' = i
    /\ disk' = i
    /\ UNCHANGED <<last, lagging, cache, threadVars>>
    /\ Silent

\* ffmpeg closes a segment and lists it
CloseSegment ==
    /\ disk # NoOne
    /\ last[disk] < Len(SizeOf[disk])
    /\ ~lagging
    /\ last' = [last EXCEPT ![disk] = @ + 1]
    /\ lagging' \in {FALSE, FlushLag}
    /\ UNCHANGED <<tracked, disk, started, cache, threadVars>>
    /\ Silent

Flush ==
    /\ lagging
    /\ lagging' = FALSE
    /\ UNCHANGED <<tracked, disk, last, started, cache, threadVars>>
    /\ Silent

\* _remove_channel_files
RemoveFiles ==
    /\ disk # NoOne
    /\ disk' = NoOne
    /\ lagging' = FALSE
    /\ UNCHANGED <<tracked, last, started, cache, threadVars>>
    /\ Silent

\* _delete_buffer_state, by one worker: it drops its own cache only
DeleteState(w) ==
    /\ tracked # NoOne
    /\ disk = NoOne
    /\ tracked' = NoOne
    /\ cache' = [cache EXCEPT ![w] = NoCache]
    /\ UNCHANGED <<disk, last, started, lagging, threadVars>>
    /\ Silent

-----------------------------------------------------------------------------
(* get_live_manifest.                                                      *)

\* the action reads the tracked state
Call(t, w) ==
    /\ pc[t] = "idle"
    /\ tracked # NoOne
    /\ pc' = [pc EXCEPT ![t] = "stat"]
    /\ at' = [at EXCEPT ![t] = w]
    /\ token' = [token EXCEPT ![t] = tracked]
    /\ since' = [since EXCEPT ![t] = IF disk = tracked THEN last[disk] ELSE 0]
    /\ UNCHANGED <<diskVars, cache, seen>>
    /\ Silent

Done(t) ==
    /\ pc' = [pc EXCEPT ![t] = "idle"]
    /\ at' = [at EXCEPT ![t] = NoOne]
    /\ token' = [token EXCEPT ![t] = NoOne]
    /\ seen' = [seen EXCEPT ![t] = NoCache.version]
    /\ since' = [since EXCEPT ![t] = 0]

HasPlaylist == disk # NoOne /\ last[disk] > 0

\* live_playlist_path.stat(), or the error when there is no playlist
StatPlaylist(t) ==
    /\ pc[t] = "stat"
    /\ IF HasPlaylist
       THEN /\ pc' = [pc EXCEPT ![t] = "build"]
            /\ seen' = [seen EXCEPT ![t] = Version(disk)]
            /\ UNCHANGED <<at, token, since>>
       ELSE Done(t)
    /\ UNCHANGED <<diskVars, cache>>
    /\ Silent

\* Mutant of Cached: the entry is trusted whatever instance it is of.
Cached_AnyInstance(t) == cache[at[t]]

\* the worker's entry, unless it was built for another instance
Cached(t) == IF cache[at[t]].token = token[t] THEN cache[at[t]] ELSE NoCache

\* Mutant of Unchanged: any entry of the instance is taken as it stands.
Unchanged_Always(t) == Cached(t) # NoCache

\* the playlist has not been rewritten since the entry was made
Unchanged(t) == Cached(t) # NoCache /\ Cached(t).version = seen[t]

\* parse the playlist; stat what is new, and the newest segment in any case
Rebuilt(t) ==
    LET known == Cached(t).sizes
    IN  [n \in Listed(disk) |->
            IF n \in DOMAIN known /\ n # last[disk] THEN known[n]
            ELSE StatSize(disk, n)]

AnswerWith(t, i, m) ==
    answer' = [token |-> token[t], since |-> since[t], from |-> i, sizes |-> m]

\* under _manifest_cache_lock; the playlist may have gone since its stat
Build(t) ==
    /\ pc[t] = "build"
    /\ \/ /\ Unchanged(t)
          /\ AnswerWith(t, Cached(t).from, Cached(t).sizes)
          /\ UNCHANGED cache
       \/ /\ ~Unchanged(t)
          /\ HasPlaylist
          /\ cache' = [cache EXCEPT ![at[t]] =
                          [token |-> token[t], version |-> seen[t],
                           from |-> disk, sizes |-> Rebuilt(t)]]
          /\ AnswerWith(t, disk, Rebuilt(t))
       \/ /\ ~Unchanged(t)
          /\ ~HasPlaylist
          /\ Silent
          /\ UNCHANGED cache
    /\ Done(t)
    /\ UNCHANGED diskVars

-----------------------------------------------------------------------------
Next ==
    \/ \E i \in Instance : Start(i)
    \/ CloseSegment
    \/ Flush
    \/ RemoveFiles
    \/ \E w \in Worker : DeleteState(w)
    \/ \E t \in Thread : \/ \E w \in Worker : Call(t, w)
                         \/ StatPlaylist(t)
                         \/ Build(t)

Spec == Init /\ [][Next]_vars

-----------------------------------------------------------------------------
(* Properties.                                                             *)

\* The answer is about the instance the caller was tracked with; if the buffer
\* was replaced during the call, the caller's token opens none of its files.
ForCaller == answer # NoAnswer /\ answer.from = answer.token

\* No size in a manifest is one that a worker remembers from an earlier
\* instance of the channel, whose segments had the same numbers and names.
SizesOwn ==
    ForCaller => \A n \in DOMAIN answer.sizes :
                    answer.sizes[n] \in {Partial, SizeOf[answer.token][n]}

\* The cache never hides a segment: an answer is as new as the playlist was
\* when the call began.
NeverStale ==
    (ForCaller /\ answer.since > 0) => \E n \in DOMAIN answer.sizes : n >= answer.since

\* A size that could be short of the file's end is given away for the newest
\* segment only: once another one follows it, its size is the real one.
SettledSizes ==
    ForCaller => \A m, n \in DOMAIN answer.sizes :
                    n < m => answer.sizes[n] = SizeOf[answer.token][n]

=============================================================================
