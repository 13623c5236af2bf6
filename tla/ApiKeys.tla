------------------------------- MODULE ApiKeys -------------------------------
(***************************************************************************)
(* ApiKeys.  Dispatcharr keeps one API key for an account, and every        *)
(* installation of the add-on makes a new one when a request is refused.    *)
(* A module of installations that open, read and restart: the key in use,   *)
(* the one in the settings, the one Kodi's notices are compared with, and   *)
(* the tokens a new key is asked for with.  What an in-progress recording   *)
(* hands over is InProgressRecording's; a completed one is read here.       *)
(***************************************************************************)
EXTENDS Integers

CONSTANTS
    Install,    \* the installations that share the account
    Length,     \* the bytes of the completed recording
    Size,       \* the bytes Kodi asks for at once
    MaxKeys,    \* bound: keys the server makes
    MaxFaults   \* bound: lost requests, tokens that die early, keys edited by the user

ASSUME BoundAssumption == {Length, Size, MaxKeys, MaxFaults} \subseteq Nat

VARIABLES
    serverKey, \* the account's key, 0 for none; each new one is the next number
    growing,   \* whether the recording still is in progress
    up,        \* m_instances: whether the installation gets Kodi's notices
    setting,   \* api_key in the settings
    applied,   \* m_lastAppliedConfig.apiKey
    key,       \* m_config.apiKey of the client
    token,     \* m_accessToken, m_refreshToken, m_accessTokenExpiry
    stream,    \* the recording stream
    call,      \* the call in progress
    restart,   \* ADDON_STATUS_NEED_RESTART was answered
    faults,
    refused,   \* history: the last call ended with a refusal
    disturbed, \* history: another installation took the key, or a request was lost
    unsaved,   \* history: a call that does not save the key has made one
    reason     \* history: what may bring a restart

client  == <<up, setting, applied, key, token, stream, call, restart>>
history == <<refused, disturbed, unsaved, reason>>
vars == <<serverKey, growing, client, faults, history>>

NoToken  == [access |-> "none", current |-> FALSE, refresh |-> "none"]
Stream(kind, position) == [kind |-> kind, position |-> position]

NoStream == Stream("none", 0)
NoCall   == [op |-> "none", at |-> "none", attempt |-> 0, gen |-> "no", before |-> 0,
             size |-> 0]

\* the call c at another place, attempt, and step of GenerateApiKey
Goes(c, at, attempt, gen) ==
    [op |-> c.op, at |-> at, attempt |-> attempt, gen |-> gen, before |-> c.before,
     size |-> c.size]

Heals(c, gen) == Goes(c, c.at, c.attempt, gen)

\* Mutant of Sent: the headers of the first attempt serve for the second as well.
Sent_Once(i) == IF call[i].op = "none" THEN key[i] ELSE call[i].before

\* the key in the headers of a request: they are made anew for each attempt
Sent(i) == key[i]

Valid(i) == Sent(i) # 0 /\ Sent(i) = serverKey

At(i, at) == call[i].at = at /\ call[i].gen = "no"

-----------------------------------------------------------------------------
(* How a call ends.                                                        *)

\* Mutant of Saves: a read saves the key it made only if it succeeds.
Saves_Success(i, how) ==
    how = "ok" /\ (call[i].op = "open" \/ (call[i].op = "read" /\ stream[i].kind = "file"))

\* PersistApiKeyIfChanged follows every read of a completed recording, and the opens
\* that succeed; what is asked of a growing one, and opens that fail, return without it
Saves(i, how) ==
    \/ call[i].op = "open" /\ how = "ok"
    \/ call[i].op = "read" /\ stream[i].kind = "file"

\* history: the calls that may drop a key they made
Drops(i, how) ==
    \/ call[i].op = "open" /\ how # "ok"
    \/ call[i].op \in {"read", "query"} /\ stream[i].kind = "growing"

End(i, how) ==
    /\ refused' = [refused EXCEPT ![i] = how = "refused"]
    /\ call' = [call EXCEPT ![i] =
                   IF Saves(i, how) THEN Goes(@, "changed", @.attempt, "no") ELSE NoCall]
    /\ unsaved' = [unsaved EXCEPT ![i] =
                      @ \/ (Drops(i, how) /\ key'[i] # call[i].before)]

Fail(i, how) == End(i, how) /\ UNCHANGED stream

\* the call goes on with another request, or with the same one again
Proceeds(i, at, attempt) ==
    /\ call' = [call EXCEPT ![i] = Goes(@, at, attempt, "no")]
    /\ UNCHANGED <<stream, refused, unsaved>>

\* the loop around the refresh goes on
Again(i) == Proceeds(i, "playlist", 0)

\* RefreshInProgressRecordingManifest is done.  An open waits for a first segment, a
\* read for one more; the other queries take what there is
Refreshed(i) ==
    \/ call[i].op \in {"open", "read"} /\ Again(i)
    \/ /\ call[i].op = "open"
       /\ stream' = [stream EXCEPT ![i] = Stream("growing", 0)]
       /\ End(i, "ok")
    \/ call[i].op = "open" /\ Fail(i, "failed")
    \/ call[i].op = "read" /\ Proceeds(i, "segment", call[i].attempt)
    \/ call[i].op \in {"read", "query"} /\ Fail(i, "ok")

\* a request has failed, and with it the call; but the catch-up loop of a read looks
\* at what the refresh has found only, and may try again
Failed(i, how) ==
    \/ Fail(i, how)
    \/ call[i].op = "read" /\ call[i].at = "playlist" /\ Again(i)

-----------------------------------------------------------------------------
(* Requests with an API key: at most two attempts, the second with the key  *)
(* that GenerateApiKey made after the first was refused.                    *)

Kept == UNCHANGED <<serverKey, growing, up, setting, applied, key, token, restart, reason>>

Lost(i) ==
    /\ faults < MaxFaults
    /\ faults' = faults + 1
    /\ disturbed' = [disturbed EXCEPT ![i] = TRUE]

Heal(i) ==
    /\ call' = [call EXCEPT ![i] = Heals(@, "ensure")]
    /\ UNCHANGED <<stream, refused, unsaved>>

Refused(i) ==
    /\ ~Valid(i)
    /\ IF call[i].attempt = 0 THEN Heal(i) ELSE Failed(i, "refused")

Quiet == UNCHANGED <<faults, disturbed>>

\* OpenRecordingStream; a growing recording redirects to its playlist
OpenFile(i) ==
    /\ At(i, "file")
    /\ Kept
    /\ \/ Refused(i) /\ Quiet
       \/ /\ Valid(i) /\ Quiet
          /\ IF growing THEN Fail(i, "growing")
             ELSE /\ stream' = [stream EXCEPT ![i] = Stream("file", 0)]
                  /\ End(i, "ok")
       \/ Lost(i) /\ Fail(i, "failed")

\* FetchRawInProgressPlaylist
Playlist(i) ==
    /\ At(i, "playlist")
    /\ Kept
    /\ \/ Refused(i) /\ Quiet
       \/ Valid(i) /\ Quiet /\ Proceeds(i, "probe", 0)
       \/ Lost(i) /\ Failed(i, "failed")

\* Mutant of IsApiKeyValidFor: without an answer the key counts as refused.
IsApiKeyValidFor_Closed(i, answered) == answered /\ Valid(i)

\* only a refusal is evidence
IsApiKeyValidFor(i, answered) == ~answered \/ Valid(i)

\* the check of the key that ends a refresh
Probe(i) ==
    /\ At(i, "probe")
    /\ Kept
    /\ \E answered \in BOOLEAN :
          /\ IF answered THEN Quiet ELSE Lost(i)
          /\ IF key[i] # 0 /\ ~IsApiKeyValidFor(i, answered) THEN Heal(i) ELSE Refreshed(i)

\* the body of a segment in ReadInProgressRecordingStream
Segment(i) ==
    /\ At(i, "segment")
    /\ Kept
    /\ \/ Refused(i) /\ Quiet
       \/ Valid(i) /\ Quiet /\ Fail(i, "ok")
       \/ Lost(i) /\ Fail(i, "failed")

\* Mutant of Written: the position moves by what was asked for.
Written_Asked(i) == call[i].size

\* FixedBufferWriteCallback: the server has no more than the rest of the file
Written(i) ==
    LET left == Length - stream[i].position
    IN  IF call[i].size < left THEN call[i].size ELSE left

\* ReadRecordingStream
ReadRange(i) ==
    /\ At(i, "range")
    /\ Kept
    /\ \/ Refused(i) /\ Quiet
       \/ /\ Valid(i) /\ Quiet
          /\ stream' = [stream EXCEPT ![i] = Stream("file", @.position + Written(i))]
          /\ End(i, "ok")
       \/ Lost(i) /\ Fail(i, "failed")

-----------------------------------------------------------------------------
(* GenerateApiKey, a request with a token: EnsureAuthenticated, the request, *)
(* and after a refusal RefreshAccessToken or Login and the request again.   *)

Token(access, current, refresh) ==
    [access |-> access, current |-> current, refresh |-> refresh]

Refresh(t) == Token("live", TRUE, t.refresh)

Login == Token("live", TRUE, "live")

Reauthenticated(t) == IF t.refresh = "live" THEN Refresh(t) ELSE Login

EnsureAuthenticated(t) ==
    IF t.access # "none" /\ t.current THEN t
    ELSE IF t.refresh = "live" THEN Refresh(t) ELSE Login

\* the constructor is done: Kodi's notices arrive from now on
Constructed(i) ==
    /\ up' = [up EXCEPT ![i] = TRUE]
    /\ call' = [call EXCEPT ![i] = NoCall]
    /\ UNCHANGED <<stream, refused, unsaved>>

\* what follows GenerateApiKey: in the constructor the new key is saved, after the check
\* of the key the refresh is done, after a refusal the request is made again
Generated(i, made) ==
    \/ /\ call[i].at = "start"
       /\ Constructed(i)
       /\ IF made
            THEN /\ setting' = [setting EXCEPT ![i] = key'[i]]
                 /\ reason' = [reason EXCEPT ![i] = @ \union {"constructor"}]
            ELSE UNCHANGED <<setting, reason>>
    \/ /\ call[i].at = "probe"
       /\ Refreshed(i)
       /\ UNCHANGED <<up, setting, reason>>
    \/ /\ call[i].at \notin {"start", "probe"}
       /\ UNCHANGED <<up, setting, reason>>
       /\ IF made THEN Proceeds(i, call[i].at, 1) ELSE Failed(i, "refused")

Ensure(i) ==
    /\ call[i].gen = "ensure"
    /\ \/ /\ token' = [token EXCEPT ![i] = EnsureAuthenticated(@)]
          /\ call' = [call EXCEPT ![i] = Heals(@, "post")]
          /\ UNCHANGED <<key, up, setting, stream, reason, refused, unsaved>> /\ Quiet
       \/ Lost(i) /\ UNCHANGED <<key, token>> /\ Generated(i, FALSE)
    /\ UNCHANGED <<serverKey, growing, applied, restart>>

\* The server makes the key although the answer may be lost.
Post(i) ==
    /\ call[i].gen \in {"post", "again"}
    /\ token[i].access = "live"
    /\ serverKey < MaxKeys
    /\ serverKey' = serverKey + 1
    /\ \/ /\ key' = [key EXCEPT ![i] = serverKey']
          /\ disturbed' = [j \in Install |-> disturbed[j] \/ (j # i /\ call[j] # NoCall)]
          /\ UNCHANGED faults /\ Generated(i, TRUE)
       \/ /\ faults < MaxFaults /\ faults' = faults + 1
          /\ disturbed' = [j \in Install |-> disturbed[j] \/ call[j] # NoCall]
          /\ UNCHANGED key /\ Generated(i, FALSE)
    /\ UNCHANGED <<growing, applied, token, restart>>

PostRefused(i) ==
    /\ call[i].gen \in {"post", "again"}
    /\ token[i].access = "dead"
    /\ UNCHANGED <<serverKey, growing, applied, key, token, restart>> /\ Quiet
    /\ IF call[i].gen = "again" THEN Generated(i, FALSE)
       ELSE /\ call' = [call EXCEPT ![i] = Heals(@, "reauth")]
            /\ UNCHANGED <<up, setting, stream, reason, refused, unsaved>>

Reauth(i) ==
    /\ call[i].gen = "reauth"
    /\ \/ /\ token' = [token EXCEPT ![i] = Reauthenticated(@)]
          /\ call' = [call EXCEPT ![i] = Heals(@, "again")]
          /\ UNCHANGED <<key, up, setting, stream, reason, refused, unsaved>> /\ Quiet
       \/ Lost(i) /\ UNCHANGED <<key, token>> /\ Generated(i, FALSE)
    /\ UNCHANGED <<serverKey, growing, applied, restart>>

GenerateApiKey(i) == Ensure(i) \/ Post(i) \/ PostRefused(i) \/ Reauth(i)

-----------------------------------------------------------------------------
(* The instance: its constructor, Kodi's calls, and the notices.            *)

\* (Bound: Kodi begins nothing more with an instance that it is to restart.)
Begin(i, op, at, size) ==
    /\ up[i] /\ call[i] = NoCall /\ ~restart[i]
    /\ call' = [call EXCEPT ![i] = [op |-> op, at |-> at, attempt |-> 0, gen |-> "no",
                                    before |-> key[i], size |-> size]]
    /\ disturbed' = [disturbed EXCEPT ![i] = FALSE]
    /\ refused' = [refused EXCEPT ![i] = FALSE]
    /\ UNCHANGED <<unsaved, setting, applied, key, token, up, restart, reason, serverKey,
                   growing, faults>>

\* a recording that cannot be looked up counts as completed
OpenRecordedStream(i) ==
    /\ stream[i].kind = "none"
    /\ \/ growing /\ Begin(i, "open", "playlist", 0)
       \/ Begin(i, "open", "file", 0)
    /\ UNCHANGED stream

\* at the end of the file nothing is asked; a growing stream asks for its playlist when
\* it has caught up, and for the segment otherwise
ReadRecordedStream(i) ==
    /\ \/ /\ stream[i].kind = "file" /\ stream[i].position < Length
          /\ Begin(i, "read", "range", Size)
       \/ /\ stream[i].kind = "growing"
          /\ \E at \in {"playlist", "segment"} : Begin(i, "read", at, 0)
    /\ UNCHANGED stream

\* the length and the stream times, and SeekRecordedStream from the end, of a growing
\* recording: one refresh, whose failure is not looked at.  (Within 500 ms of the last
\* one the first two ask nothing: a step that changes nothing.)
QueryRecordedStream(i) ==
    /\ stream[i].kind = "growing"
    /\ Begin(i, "query", "playlist", 0)
    /\ UNCHANGED stream

\* of a completed recording, which asks for nothing; so do the other seeks of a growing one
SeekRecordedStream(i) ==
    /\ up[i] /\ call[i] = NoCall /\ ~restart[i]
    /\ stream[i].kind = "file"
    /\ \E to \in 0..(Length + 1) : stream' = [stream EXCEPT ![i] = Stream("file", to)]
    /\ UNCHANGED <<serverKey, growing, up, setting, applied, key, token, call, restart,
                   faults, history>>

CloseRecordedStream(i) ==
    /\ up[i] /\ call[i] = NoCall /\ ~restart[i]
    /\ stream[i] # NoStream
    /\ stream' = [stream EXCEPT ![i] = NoStream]
    /\ UNCHANGED <<serverKey, growing, up, setting, applied, key, token, call, restart,
                   faults, history>>

\* Mutant of Snapshot: the snapshot keeps the key of the start.
Snapshot_Kept(i) == applied[i]

Snapshot(i) == key[i]

\* PersistApiKeyIfChanged: the snapshot first, then the setting
PersistApiKey(i) ==
    /\ At(i, "changed")
    /\ IF key[i] = call[i].before
         THEN /\ call' = [call EXCEPT ![i] = NoCall]
              /\ UNCHANGED applied
         ELSE /\ call' = [call EXCEPT ![i] = Goes(@, "save", @.attempt, "no")]
              /\ applied' = [applied EXCEPT ![i] = Snapshot(i)]
    /\ UNCHANGED <<serverKey, growing, up, setting, key, token, stream, restart, faults,
                   history>>

SetSettingString(i) ==
    /\ At(i, "save")
    /\ setting' = [setting EXCEPT ![i] = key[i]]
    /\ call' = [call EXCEPT ![i] = NoCall]
    /\ unsaved' = [unsaved EXCEPT ![i] = FALSE]
    /\ UNCHANGED <<serverKey, growing, up, applied, key, token, stream, restart, faults,
                   refused, disturbed, reason>>

\* OnAddonSettingChanged, for api_key: with a change or, as Kodi does when any other
\* setting is saved, without one
SetSetting(i) ==
    /\ up[i]
    /\ setting[i] # applied[i]
    /\ restart' = [restart EXCEPT ![i] = TRUE]
    /\ applied' = [applied EXCEPT ![i] = setting[i]]
    /\ reason' = IF At(i, "save") THEN [reason EXCEPT ![i] = @ \union {"midway"}] ELSE reason
    /\ UNCHANGED <<serverKey, growing, up, setting, key, token, stream, call, faults, refused,
                   disturbed, unsaved>>

\* the user clears the key in the settings dialog
EditKey(i) ==
    /\ setting[i] # 0
    /\ faults < MaxFaults /\ faults' = faults + 1
    /\ setting' = [setting EXCEPT ![i] = 0]
    /\ reason' = [reason EXCEPT ![i] = @ \union {"edited"}]
    /\ UNCHANGED <<serverKey, growing, up, applied, key, token, stream, call, restart,
                   refused, disturbed, unsaved>>

\* DestroyInstance, for a restart that was asked for or when Kodi ends
DestroyInstance(i) ==
    /\ up[i] /\ call[i] = NoCall
    /\ up' = [up EXCEPT ![i] = FALSE]
    /\ restart' = [restart EXCEPT ![i] = FALSE]
    /\ stream' = [stream EXCEPT ![i] = NoStream]
    /\ refused' = [refused EXCEPT ![i] = FALSE]
    /\ disturbed' = [disturbed EXCEPT ![i] = FALSE]
    /\ key' = [key EXCEPT ![i] = 0] /\ applied' = [applied EXCEPT ![i] = 0]
    /\ token' = [token EXCEPT ![i] = NoToken]
    /\ UNCHANGED <<serverKey, growing, setting, call, faults, unsaved, reason>>

StartCall ==
    [op |-> "start", at |-> "start", attempt |-> 0, gen |-> "no", before |-> 0, size |-> 0]

\* CreateInstance: the constructor reads the settings ...
CreateInstance(i) ==
    /\ ~up[i] /\ call[i] = NoCall
    /\ key' = [key EXCEPT ![i] = setting[i]]
    /\ applied' = [applied EXCEPT ![i] = setting[i]]
    /\ call' = [call EXCEPT ![i] = StartCall]
    /\ unsaved' = [unsaved EXCEPT ![i] = FALSE]
    /\ reason' = [reason EXCEPT ![i] = {}]
    /\ UNCHANGED <<serverKey, growing, up, setting, token, stream, restart, faults, refused,
                   disturbed>>

\* ... logs in, and asks for a key if it has none
Construct(i) ==
    /\ At(i, "start")
    /\ \/ /\ token' = [token EXCEPT ![i] = EnsureAuthenticated(@)]
          /\ Quiet
          /\ IF key[i] = 0 THEN Heal(i) /\ UNCHANGED up ELSE Constructed(i)
       \/ Lost(i) /\ UNCHANGED token /\ Constructed(i)
    /\ UNCHANGED <<serverKey, growing, setting, applied, key, restart, reason>>

\* A token lives for some minutes, longer than a call takes; the server may forget both at
\* any time, and the expiry the client keeps is only a hint.
TokenDies(i) ==
    /\ token[i].access = "live"
    /\ IF call[i] = NoCall
         THEN /\ \/ token' = [token EXCEPT ![i] = Token("dead", FALSE, @.refresh)]
                 \/ token' = [token EXCEPT ![i] = Token("dead", @.current, "dead")]
              /\ Quiet
         ELSE /\ faults < MaxFaults /\ faults' = faults + 1
              /\ token' = [token EXCEPT ![i] = Token("dead", @.current, "dead")]
              /\ disturbed' = [disturbed EXCEPT ![i] = @ \/ call[i].gen = "again"]
    /\ UNCHANGED <<serverKey, growing, up, setting, applied, key, stream, call, restart,
                   refused, unsaved, reason>>

\* the recording is complete
Finished ==
    /\ growing
    /\ growing' = FALSE
    /\ UNCHANGED <<serverKey, client, faults, history>>

Init ==
    /\ serverKey = 0 /\ growing \in BOOLEAN
    /\ up = [i \in Install |-> FALSE]
    /\ setting = [i \in Install |-> 0] /\ applied = setting /\ key = setting
    /\ token = [i \in Install |-> NoToken]
    /\ stream = [i \in Install |-> NoStream]
    /\ call = [i \in Install |-> NoCall]
    /\ restart = up
    /\ faults = 0
    /\ refused = up /\ disturbed = up /\ unsaved = up
    /\ reason = [i \in Install |-> {}]

Kodi(i) ==
    \/ CreateInstance(i) \/ DestroyInstance(i) \/ SetSetting(i) \/ EditKey(i)
    \/ OpenRecordedStream(i) \/ ReadRecordedStream(i) \/ SeekRecordedStream(i)
    \/ QueryRecordedStream(i) \/ CloseRecordedStream(i)

Step(i) ==
    \/ Construct(i) \/ OpenFile(i) \/ Playlist(i) \/ Probe(i) \/ Segment(i)
    \/ ReadRange(i) \/ GenerateApiKey(i) \/ PersistApiKey(i) \/ SetSettingString(i)

Next == Finished \/ \E i \in Install : Kodi(i) \/ Step(i) \/ TokenDies(i)

Spec == Init /\ [][Next]_vars

-----------------------------------------------------------------------------
(* Properties.                                                             *)

Tokens ==
    [access : {"none", "live", "dead"}, current : BOOLEAN, refresh : {"none", "live", "dead"}]

Streams == [kind : {"none", "file", "growing"}, position : 0..(Length + 1)]

Calls ==
    [op : {"none", "start", "open", "read", "query"},
     at : {"none", "start", "file", "playlist", "probe", "segment", "range", "changed", "save"},
     attempt : 0..1, gen : {"no", "ensure", "post", "reauth", "again"},
     before : 0..MaxKeys, size : {0, Size}]

\* Every key in use was made by the server, and a read never goes beyond the end of the
\* recording, however much it asked for.
TypeOK ==
    /\ serverKey \in 0..MaxKeys
    /\ growing \in BOOLEAN
    /\ up \in [Install -> BOOLEAN] /\ restart \in [Install -> BOOLEAN]
    /\ setting \in [Install -> 0..serverKey]
    /\ applied \in [Install -> 0..serverKey]
    /\ key \in [Install -> 0..serverKey]
    /\ token \in [Install -> Tokens]
    /\ stream \in [Install -> Streams]
    /\ call \in [Install -> Calls]
    /\ faults \in 0..MaxFaults
    /\ refused \in [Install -> BOOLEAN] /\ disturbed \in [Install -> BOOLEAN]
    /\ unsaved \in [Install -> BOOLEAN]
    /\ reason \in [Install -> SUBSET {"constructor", "midway", "edited"}]

\* A stale key "self-heals": no call is refused in the end, with tokens however old,
\* unless another installation took the key during it, or a request was lost.
SelfHeals == \A i \in Install : refused[i] => disturbed[i]

\* A key that is still good is never replaced (that would take it from the other
\* installations): only a refusal is evidence against it.
OnlyStaleReplaced ==
    [][\A i \in Install :
          call[i].gen \in {"post", "again"} /\ serverKey' # serverKey /\ call'[i] # call[i]
            => key[i] = 0 \/ key[i] # serverKey]_vars

\* What the add-on writes into its own settings restarts it only if it was the
\* constructor that wrote, or a notice came between the snapshot and the setting.
OwnWriteKept == \A i \in Install : restart[i] => reason[i] # {}

\* The same without exception: "Comparing against this snapshot turns that spurious case
\* into a no-op instead of an unwanted restart."
RestartsAsked == \A i \in Install : restart[i] => "edited" \in reason[i]

\* Between calls the settings hold the key in use, "so a later restart of this install
\* doesn't immediately invalidate it again", unless an open that failed has made it, or
\* a growing recording's read, length, stream times or seek from the end, which never
\* save what they make ...
SavedUnlessDropped ==
    \A i \in Install :
        up[i] /\ call[i] = NoCall /\ setting[i] # key[i]
          => unsaved[i] \/ "edited" \in reason[i]

\* ... and without exception.
Saved ==
    \A i \in Install :
        up[i] /\ call[i] = NoCall /\ setting[i] # key[i] => "edited" \in reason[i]

=============================================================================
