------------------------- MODULE LiveManifestProofs -------------------------
(***************************************************************************)
(* What a manifest says, for any workers, threads, instances and sizes.     *)
(***************************************************************************)
EXTENDS LiveManifest, TLAPS

\* The instances that have been started, and none.
Known == started \union {NoOne}

Types ==
    /\ started \subseteq Instance /\ tracked \in Known /\ disk \in Known
    /\ last \in [Instance -> Nat]
    /\ DOMAIN cache = Worker /\ \A w \in Worker : cache[w].token \in Known
                              /\ cache[w].version.upto \in Nat
    /\ pc \in [Thread -> {"idle", "stat", "build"}]
    /\ at \in [Thread -> Worker \union {NoOne}]
    /\ token \in [Thread -> Known]
    /\ DOMAIN seen = Thread /\ \A t \in Thread : seen[t].upto \in Nat
    /\ since \in [Thread -> Nat]

\* The sizes are those of instance i, or not final.
Own(sizes, i) == \A n \in DOMAIN sizes : sizes[n] \in {Partial, SizeOf[i][n]}

\* The directory holds the tracked instance's files or none.
InStep == tracked # NoOne => disk \in {tracked, NoOne}

\* A thread in a call knows an instance; what it has found of another instance's
\* playlist it found after its own had gone for good.
Calls ==
    \A t \in Thread : pc[t] # "idle" =>
        /\ token[t] # NoOne /\ at[t] \in Worker
        /\ since[t] <= last[token[t]]
        /\ pc[t] = "build" =>
              /\ seen[t].of # token[t] => disk # token[t]
              /\ seen[t].of = token[t] => since[t] <= seen[t].upto /\ seen[t].upto <= last[token[t]]

\* An entry was built from the files of the instance it is kept for, or these have gone
\* for good.
Entries ==
    \A w \in Worker : cache[w].token # NoOne =>
        IF cache[w].from = cache[w].token
          THEN /\ Own(cache[w].sizes, cache[w].token)
               /\ cache[w].version.of = cache[w].token
               /\ \E n \in DOMAIN cache[w].sizes : n \in Nat /\ cache[w].version.upto <= n
          ELSE disk # cache[w].token

IInv == Types /\ InStep /\ Calls /\ Entries /\ SizesOwn /\ NeverStale

LEMMA NoOneKnown == NoOne \notin Instance /\ NoOne \notin Worker
  BY NoOneAssumption

LEMMA IInvInit == Init => IInv
<1>1. SUFFICES ASSUME Init PROVE IInv
  OBVIOUS
<1>2. Types
  BY <1>1, NoOneKnown DEF Init, Types, Known, NoCache
<1>3. InStep /\ Calls /\ Entries
  BY <1>1 DEF Init, InStep, Calls, Entries, NoCache
<1>4. SizesOwn /\ NeverStale
  BY <1>1 DEF Init, SizesOwn, NeverStale, ForCaller
<1>5. QED
  BY <1>2, <1>3, <1>4 DEF IInv

\* Nothing is said while nobody is answered.
LEMMA SilentHolds == Silent => SizesOwn' /\ NeverStale'
  BY DEF Silent, SizesOwn, NeverStale, ForCaller

LEMMA StartStep == ASSUME IInv, NEW i \in Instance, Start(i) PROVE IInv'
<1>1. /\ Types /\ Calls /\ Entries
      /\ tracked' = i /\ disk' = i /\ started' = started \union {i} /\ i \notin Known
      /\ UNCHANGED <<last, cache, pc, at, token, seen, since>>
      /\ SizesOwn' /\ NeverStale'
  BY SilentHolds, NoOneKnown DEF IInv, Start, threadVars, Known, Types
<1>2. Types'
  BY <1>1 DEF Types, Known
<1>3. InStep'
  BY <1>1 DEF InStep
<1>4. Calls'
  <2>1. \A t \in Thread : token[t] # i
    BY <1>1 DEF Types
  <2>2. QED
    BY <1>1, <2>1 DEF Calls
<1>5. Entries'
  <2>1. \A w \in Worker : cache[w].token # i
    BY <1>1 DEF Types
  <2>2. QED
    BY <1>1, <2>1 DEF Entries, Own
<1>6. QED
  BY <1>1, <1>2, <1>3, <1>4, <1>5 DEF IInv

LEMMA CloseStep == ASSUME IInv, CloseSegment PROVE IInv'
<1>1. /\ Types /\ InStep /\ Calls /\ Entries
      /\ disk \in Instance /\ last' = [last EXCEPT ![disk] = @ + 1]
      /\ UNCHANGED <<tracked, disk, started, cache, pc, at, token, seen, since>>
      /\ SizesOwn' /\ NeverStale'
  BY SilentHolds DEF IInv, CloseSegment, threadVars, Types, Known
<1>2. \A j \in Instance : last[j] \in Nat /\ last[j] <= last'[j] /\ last'[j] \in Nat
  BY <1>1 DEF Types
<1>3. Types'
  BY <1>1 DEF Types, Known
<1>4. Calls'
  <2>1. SUFFICES ASSUME NEW t \in Thread, pc[t] # "idle"
                 PROVE  /\ since[t] <= last'[token[t]]
                        /\ pc[t] = "build" /\ seen[t].of = token[t] => seen[t].upto <= last'[token[t]]
    BY <1>1 DEF Calls
  <2>2. token[t] \in Instance /\ seen[t].upto \in Nat /\ since[t] \in Nat /\ since[t] <= last[token[t]]
    BY <1>1, <2>1 DEF Types, Calls, Known
  <2>3. since[t] <= last'[token[t]]
    BY <1>2, <2>2
  <2>4. ASSUME pc[t] = "build", seen[t].of = token[t] PROVE seen[t].upto <= last'[token[t]]
    <3>1. seen[t].upto <= last[token[t]]
      BY <1>1, <2>1, <2>4 DEF Calls
    <3>2. QED
      BY <1>2, <2>2, <3>1
  <2>5. QED
    BY <2>3, <2>4
<1>5. InStep' /\ Entries'
  BY <1>1 DEF InStep, Entries, Own
<1>6. QED
  BY <1>1, <1>3, <1>4, <1>5 DEF IInv

LEMMA OtherSteps ==
    ASSUME IInv, Flush \/ RemoveFiles \/ (\E w \in Worker : DeleteState(w)) \/ UNCHANGED vars
    PROVE  IInv'
<1>1. Types /\ InStep /\ Calls /\ Entries /\ NoCache.token = NoOne /\ NoCache.version.upto = 0
  BY DEF IInv, NoCache
<1>2. CASE Flush
  <2>1. UNCHANGED <<tracked, disk, last, started, cache, pc, at, token, seen, since>>
        /\ SizesOwn' /\ NeverStale'
    BY <1>2, SilentHolds DEF Flush, threadVars
  <2>2. QED
    BY <1>1, <2>1 DEF IInv, Types, Known, InStep, Calls, Entries, Own
<1>3. CASE RemoveFiles
  <2>1. /\ disk' = NoOne /\ UNCHANGED <<tracked, last, started, cache, pc, at, token, seen, since>>
        /\ SizesOwn' /\ NeverStale'
    BY <1>3, SilentHolds DEF RemoveFiles, threadVars
  <2>2. Types' /\ InStep'
    BY <1>1, <2>1 DEF Types, Known, InStep
  <2>3. Calls' /\ Entries'
    BY <1>1, <2>1 DEF Calls, Entries, Own
  <2>4. QED
    BY <2>1, <2>2, <2>3 DEF IInv
<1>4. ASSUME NEW w \in Worker, DeleteState(w) PROVE IInv'
  <2>1. /\ tracked' = NoOne /\ cache' = [cache EXCEPT ![w] = NoCache]
        /\ UNCHANGED <<disk, last, started, pc, at, token, seen, since>>
        /\ SizesOwn' /\ NeverStale'
    BY <1>4, SilentHolds DEF DeleteState, threadVars
  <2>2. Types' /\ InStep'
    BY <1>1, <2>1 DEF Types, Known, InStep
  <2>3. Calls'
    BY <1>1, <2>1 DEF Calls
  <2>4. Entries'
    <3>1. \A u \in Worker : cache'[u] = cache[u] \/ cache'[u] = NoCache
      BY <1>1, <2>1 DEF Types
    <3>2. QED
      BY <1>1, <2>1, <3>1 DEF Entries, Own
  <2>5. QED
    BY <2>1, <2>2, <2>3, <2>4 DEF IInv
<1>5. CASE UNCHANGED vars
  BY <1>1, <1>5 DEF vars, diskVars, threadVars, IInv, Types, Known, InStep, Calls, Entries, Own,
     SizesOwn, NeverStale, ForCaller
<1>6. QED
  BY <1>2, <1>3, <1>4, <1>5

LEMMA CallStep == ASSUME IInv, NEW t \in Thread, NEW w \in Worker, Call(t, w) PROVE IInv'
<1>1. /\ Types /\ InStep /\ Calls /\ Entries
      /\ tracked # NoOne
      /\ pc' = [pc EXCEPT ![t] = "stat"] /\ at' = [at EXCEPT ![t] = w]
      /\ token' = [token EXCEPT ![t] = tracked]
      /\ since' = [since EXCEPT ![t] = IF disk = tracked THEN last[disk] ELSE 0]
      /\ UNCHANGED <<tracked, disk, last, started, cache, seen>>
      /\ SizesOwn' /\ NeverStale'
  BY SilentHolds DEF IInv, Call, diskVars
<1>2. tracked \in Instance /\ last[tracked] \in Nat
  BY <1>1 DEF Types, Known
<1>3. Types'
  BY <1>1, <1>2 DEF Types, Known
<1>4. Calls'
  BY <1>1, <1>2 DEF Calls, Types
<1>5. InStep' /\ Entries'
  BY <1>1 DEF InStep, Entries, Own
<1>6. QED
  BY <1>1, <1>3, <1>4, <1>5 DEF IInv

\* A thread that has answered is in no call.
LEMMA DoneStep ==
    ASSUME Types, Calls, NEW t \in Thread, Done(t), UNCHANGED <<disk, last, started, tracked>>,
           DOMAIN cache' = Worker,
           \A w \in Worker : cache'[w].token \in Known /\ cache'[w].version.upto \in Nat
    PROVE  Types' /\ Calls'
<1>1. /\ pc' = [pc EXCEPT ![t] = "idle"] /\ at' = [at EXCEPT ![t] = NoOne]
      /\ token' = [token EXCEPT ![t] = NoOne] /\ seen' = [seen EXCEPT ![t] = NoCache.version]
      /\ since' = [since EXCEPT ![t] = 0] /\ NoCache.version.upto = 0
  BY DEF Done, NoCache
<1>2. Types'
  BY <1>1 DEF Types, Known
<1>3. Calls'
  BY <1>1 DEF Calls, Types
<1>4. QED
  BY <1>2, <1>3

LEMMA StatStep == ASSUME IInv, NEW t \in Thread, StatPlaylist(t) PROVE IInv'
<1>1. /\ Types /\ InStep /\ Calls /\ Entries
      /\ pc[t] = "stat"
      /\ UNCHANGED <<tracked, disk, last, started, cache>>
      /\ SizesOwn' /\ NeverStale'
  BY SilentHolds DEF IInv, StatPlaylist, diskVars
<1>2. CASE HasPlaylist
  <2>1. /\ pc' = [pc EXCEPT ![t] = "build"] /\ seen' = [seen EXCEPT ![t] = Version(disk)]
        /\ UNCHANGED <<at, token, since>>
    BY <1>2 DEF StatPlaylist
  <2>2. Version(disk).of = disk /\ Version(disk).upto = last[disk] /\ last[disk] \in Nat
    BY <1>1, <1>2 DEF Version, HasPlaylist, Types, Known
  <2>3. Types'
    BY <1>1, <2>1, <2>2 DEF Types, Known
  <2>4. Calls'
    BY <1>1, <2>1, <2>2 DEF Calls, Types
  <2>5. InStep' /\ Entries'
    BY <1>1 DEF InStep, Entries, Own
  <2>6. QED
    BY <1>1, <2>3, <2>4, <2>5 DEF IInv
<1>3. CASE ~HasPlaylist
  <2>1. Done(t)
    BY <1>3 DEF StatPlaylist
  <2>2. Types' /\ Calls'
    BY <1>1, <2>1, DoneStep DEF Types
  <2>3. InStep' /\ Entries'
    BY <1>1 DEF InStep, Entries, Own
  <2>4. QED
    BY <1>1, <2>2, <2>3 DEF IInv
<1>4. QED
  BY <1>2, <1>3

\* What a worker builds: of the segments listed, each size its own, if what it knew was.
LEMMA RebuiltOwn ==
    ASSUME Types, NEW t \in Thread, disk \in Instance, Own(Cached(t).sizes, disk)
    PROVE  Own(Rebuilt(t), disk)
<1>1. SUFFICES ASSUME NEW n \in Listed(disk) PROVE Rebuilt(t)[n] \in {Partial, SizeOf[disk][n]}
  BY DEF Own, Rebuilt
<1>2. StatSize(disk, n) \in {Partial, SizeOf[disk][n]}
  BY DEF StatSize
<1>3. Rebuilt(t)[n] \in {Cached(t).sizes[n], StatSize(disk, n)}
      /\ (Rebuilt(t)[n] = StatSize(disk, n) \/ n \in DOMAIN Cached(t).sizes)
  BY DEF Rebuilt
<1>4. QED
  BY <1>2, <1>3 DEF Own

LEMMA RebuiltNewest ==
    ASSUME Types, NEW t \in Thread, HasPlaylist PROVE last[disk] \in DOMAIN Rebuilt(t)
<1>1. last[disk] \in Nat /\ last[disk] > 0
  BY DEF Types, HasPlaylist, Known
<1>2. last[disk] \in Listed(disk)
  BY <1>1, VisibleAssumption DEF Listed
<1>3. QED
  BY <1>2 DEF Rebuilt

LEMMA BuildStep == ASSUME IInv, NEW t \in Thread, Build(t) PROVE IInv'
<1>1. /\ Types /\ InStep /\ Calls /\ Entries
      /\ pc[t] = "build" /\ Done(t) /\ UNCHANGED <<tracked, disk, last, started>>
      /\ token[t] \in Instance /\ at[t] \in Worker /\ since[t] \in Nat /\ seen[t].upto \in Nat
  BY DEF IInv, Build, diskVars, Types, Known, Calls
<1>2. InStep'
  BY <1>1 DEF InStep
<1>3. CASE Unchanged(t) /\ AnswerWith(t, Cached(t).from, Cached(t).sizes) /\ UNCHANGED cache
  <2>1. /\ Cached(t) = cache[at[t]] /\ cache[at[t]].token = token[t]
        /\ cache[at[t]].version = seen[t]
    BY <1>3 DEF Unchanged, Cached
  <2>2. /\ answer'.token = token[t] /\ answer'.since = since[t]
        /\ answer'.from = cache[at[t]].from /\ answer'.sizes = cache[at[t]].sizes
    BY <1>3, <2>1 DEF AnswerWith
  <2>3. Types' /\ Calls' /\ Entries'
    BY <1>1, <1>3, DoneStep DEF Types, Entries, Own
  <2>4. ASSUME cache[at[t]].from = token[t]
        PROVE  /\ Own(cache[at[t]].sizes, token[t])
               /\ \E n \in DOMAIN cache[at[t]].sizes :
                     n \in Nat /\ since[t] <= seen[t].upto /\ seen[t].upto <= n
    BY <1>1, <2>1, <2>4, NoOneKnown DEF Entries, Calls
  <2>5. SizesOwn'
    BY <2>2, <2>4 DEF SizesOwn, ForCaller, Own
  <2>6. NeverStale'
    <3>1. SUFFICES ASSUME cache[at[t]].from = token[t]
                   PROVE  \E n \in DOMAIN cache[at[t]].sizes : n >= since[t]
      BY <2>2 DEF NeverStale, ForCaller
    <3>2. PICK n \in DOMAIN cache[at[t]].sizes :
                n \in Nat /\ since[t] <= seen[t].upto /\ seen[t].upto <= n
      BY <2>4, <3>1
    <3>3. QED
      BY <1>1, <3>2
  <2>7. QED
    BY <1>2, <2>3, <2>5, <2>6 DEF IInv
<1>4. CASE /\ HasPlaylist
           /\ cache' = [cache EXCEPT ![at[t]] =
                          [token |-> token[t], version |-> seen[t],
                           from |-> disk, sizes |-> Rebuilt(t)]]
           /\ AnswerWith(t, disk, Rebuilt(t))
  <2>1. DEFINE entry == [token |-> token[t], version |-> seen[t],
                         from |-> disk, sizes |-> Rebuilt(t)]
  <2>2. /\ entry.token = token[t] /\ entry.version = seen[t] /\ entry.from = disk
        /\ entry.sizes = Rebuilt(t) /\ cache' = [cache EXCEPT ![at[t]] = entry]
    BY <1>4
  <2> HIDE DEF entry
  <2>3. /\ answer'.token = token[t] /\ answer'.since = since[t]
        /\ answer'.from = disk /\ answer'.sizes = Rebuilt(t)
    BY <1>4 DEF AnswerWith
  <2>4. Types' /\ Calls'
    <3>1. token[t] \in Known
      BY <1>1 DEF Types
    <3>2. DOMAIN cache' = Worker
          /\ \A w \in Worker : cache'[w].token \in Known /\ cache'[w].version.upto \in Nat
      BY <1>1, <2>2, <3>1 DEF Types
    <3>3. QED
      BY <1>1, <3>2, DoneStep
  <2>5. last[disk] \in DOMAIN Rebuilt(t)
    BY <1>1, <1>4, RebuiltNewest
  <2>6. ASSUME disk = token[t]
        PROVE  /\ Own(Rebuilt(t), token[t]) /\ seen[t].of = token[t]
               /\ since[t] <= last[disk] /\ seen[t].upto <= last[disk] /\ last[disk] \in Nat
    <3>1. Own(Cached(t).sizes, disk)
      <4>1. CASE cache[at[t]].token = token[t]
        BY <1>1, <2>6, <4>1, NoOneKnown DEF Cached, Entries
      <4>2. CASE cache[at[t]].token # token[t]
        BY <4>2 DEF Cached, NoCache, Empty, Own
      <4>3. QED
        BY <4>1, <4>2
    <3>2. /\ seen[t].of = token[t] /\ since[t] <= last[disk] /\ seen[t].upto <= last[disk]
          /\ last[disk] \in Nat
      BY <1>1, <2>6 DEF Calls, Types
    <3>3. QED
      BY <1>1, <2>6, <3>1, <3>2, RebuiltOwn
  <2>7. Entries'
    <3>1. SUFFICES ASSUME NEW w \in Worker, cache'[w].token # NoOne
                   PROVE  IF cache'[w].from = cache'[w].token
                            THEN /\ Own(cache'[w].sizes, cache'[w].token)
                                 /\ cache'[w].version.of = cache'[w].token
                                 /\ \E n \in DOMAIN cache'[w].sizes :
                                       n \in Nat /\ cache'[w].version.upto <= n
                            ELSE disk # cache'[w].token
      BY <1>1 DEF Entries, Own
    <3>2. CASE w = at[t]
      <4>1. cache'[w] = entry
        BY <1>1, <2>2, <3>2 DEF Types
      <4>2. CASE disk = token[t]
        BY <2>2, <2>5, <2>6, <4>1, <4>2
      <4>3. CASE disk # token[t]
        BY <2>2, <4>1, <4>3
      <4>4. QED
        BY <4>2, <4>3
    <3>3. CASE w # at[t]
      BY <1>1, <2>2, <3>1, <3>3 DEF Types, Entries
    <3>4. QED
      BY <3>2, <3>3
  <2>8. SizesOwn'
    BY <2>3, <2>6 DEF SizesOwn, ForCaller, Own
  <2>9. NeverStale'
    <3>1. SUFFICES ASSUME disk = token[t] PROVE last[disk] >= since[t]
      BY <2>3, <2>5 DEF NeverStale, ForCaller
    <3>2. since[t] <= last[disk] /\ last[disk] \in Nat
      BY <1>1, <2>6, <3>1 DEF Types
    <3>3. QED
      BY <1>1, <3>2
  <2>10. QED
    BY <1>2, <2>4, <2>7, <2>8, <2>9 DEF IInv
<1>5. CASE Silent /\ UNCHANGED cache
  <2>1. Types' /\ Calls' /\ Entries'
    BY <1>1, <1>5, DoneStep DEF Types, Entries, Own
  <2>2. QED
    BY <1>2, <1>5, <2>1, SilentHolds DEF IInv
<1>6. QED
  BY <1>3, <1>4, <1>5 DEF Build

LEMMA IInvCorrect == Spec => []IInv
<1>1. IInv /\ [Next]_vars => IInv'
  BY StartStep, CloseStep, OtherSteps, CallStep, StatStep, BuildStep DEF Next
<1>2. QED
  BY IInvInit, <1>1, PTL DEF Spec

\* No size in a manifest is one that a worker remembers from an earlier instance of the
\* channel, for any workers, threads, instances and sizes, however a call overlaps the
\* end of its instance and the start of another.
THEOREM SizesOwnHolds == Spec => []SizesOwn
<1>1. IInv => SizesOwn
  BY DEF IInv
<1>2. QED
  BY <1>1, IInvCorrect, PTL

\* A worker's cache never hides a segment that was listed when the call began.
THEOREM NeverStaleHolds == Spec => []NeverStale
<1>1. IInv => NeverStale
  BY DEF IInv
<1>2. QED
  BY <1>1, IInvCorrect, PTL

=============================================================================
