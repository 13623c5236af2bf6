# Formal models of pvr.dispatcharr

pvr.dispatcharr is a Kodi PVR add-on (C++, `src/src/`) that shows the channels, guide, recordings
and timers of a Dispatcharr server, together with two server-side plugins (Python,
`src/dispatcharr-plugin/`). The most intricate part of it is *live timeshift*: a plugin runs one
ffmpeg process per watched channel on the server, shared by all devices, and the add-on turns that
process's rolling window of segment files into a seekable stream. Around it are the parts every PVR
add-on has: tables kept of the server, timers that Kodi hands back long after it read them, a push
connection, credentials. This directory holds TLA+ models of these parts, the TLC configurations that
check them, and TLAPS proofs of what must hold for every value of the constants.

Paths below are relative to the repository root (`src/`). "plugin.py" without a directory is
`src/dispatcharr-plugin/timeshift_buffer/plugin.py`.

## 1. Inventory

| Component | Source | State | Operations | Talks to |
|---|---|---|---|---|
| Buffer lifecycle | plugin.py 130-460, 540-900, 1230-1330, 1480-1960 | one JSON value per channel in Redis, the reaper's leader key, ffmpeg processes, one directory per channel | `start_buffer`, `stop_buffer`, `heartbeat`, `stop_all`, `disable`, scrub, the reaper thread, the segment file server | add-on (HTTP), Redis, ffmpeg, the file system |
| Live manifest | plugin.py 960-1225, 1740-1830 | `_manifest_cache` of every worker process | `get_live_manifest` | ffmpeg's `live.m3u8`, the segment files |
| Live stream | `DispatcharrClient.cpp` 2915-3670 | `LiveTimeshiftStreamState` | Open, Read, Seek, Length, Duration, Close | Kodi's player; the two components above |
| In-progress recording | `DispatcharrClient.cpp` 2000-2720 | `InProgressRecordingStreamState`, a cache of recordings seen before | Open, Read, Seek, Length, Duration, Close | Kodi's player, the server's HLS files |
| API access | `DispatcharrClient.cpp` 636-805, 1474-1495, 1985-2060, 2722-2906; `PVRDispatcharr.cpp` 37-110, 354-421, 1640-1655, 1740-1830 | token, API key, the key in the settings and the snapshot Kodi's notices are compared with | requests with one retry after 401, key regeneration, the constructor, open, read, seek and close of a recording | the server's REST API, Kodi's settings, other installations of the account |
| Caches and their threads | `PVRDispatcharr.cpp` 423-440, 496-580, 751-875, 891-980, 1285-1405, 1552-1640, 1687-1712 | tables of channels, guide, recordings and timer rules with their ages; worker threads and flags | load if due, invalidate and trigger, the warming thread, the periodic thread | Kodi, API access, WebSocket client |
| Timers and rules | `PVRDispatcharr.cpp` 52-62, 442-494, 1925-2381; `DispatcharrClient.cpp` 1497-1810 | what is in a client index; the round of the renewal | GetTimers, add, update, delete, renewal | the server's recordings and rules |
| Channels, guide, providers | `PVRDispatcharr.cpp`, `DispatcharrClient.cpp` | the tables above | conversion to Kodi's structures | Kodi |
| Completed recordings | same | a stream's position and length | playback, EDL, play position, deletion, renaming | Kodi, `recording_edl` |
| WebSocket client | `WebSocketClient.cpp`; `PVRDispatcharr.cpp` 544-672, 736-749 | socket, receive buffer, back-off | handshake, receive, close, reconnect | the server's event stream |
| XMLTV parser, time helpers | `XmlTvParser.cpp`, `TimeUtil.h` | none | conversions | |
| recording_edl plugin | `recording_edl/plugin.py` | files beside recordings | actions run one at a time on request | Dispatcharr |
| Entry point, settings | `addon.cpp` | the instances that get notices | create and destroy an instance, forward settings | Kodi |

What is hard in each of them, and what makes it correct:

* **Buffer lifecycle.** Every handler is *read the JSON, compute, write the JSON*, without a lock or a
  compare-and-swap, on the request threads of several worker processes; a kill takes up to two
  seconds; a worker may die in the middle; a client may vanish. Correct means: one process per channel,
  no more processes than the cap, no process that nobody can stop, a watching viewer is never cut off,
  a directory is not deleted under a live process, and what nobody watches is stopped and cleaned up.
* **Live manifest.** Caches in several processes, a playlist rewritten while it is read, segment numbers
  and file names that start again when the buffer does. Correct means: an answer is never older than
  the call, never mixes two instances, and its sizes are the files' sizes, since a player's byte
  addresses are sums over them.
* **Live stream.** Overlapping windows merged over hours into one address space, trimmed at open, with
  waits for data that race the end of the buffer, and a buffer replaced under an open stream. Correct
  means: every address names one byte for ever, reads do not skip, repeat or cross instances, a dead
  buffer is noticed.
* **In-progress recording.** A list that grows between refreshes, probes that fail one by one, a
  cache that outlives the stream and has to agree with it. Correct means what it means for the live stream.
* **API access.** One API key per account: whoever makes a new one takes it from everybody else. A key, a
  refresh token and an access token go stale independently; five callers recover in slightly different ways;
  the add-on's own write of the key comes back as a settings notice. Correct means: a stale key heals
  within the call, a good key is never replaced, a key that was made is saved, and saving it restarts nothing.
* **Caches.** An answer may be older than the invalidation that came while it was under way; Kodi
  asks only when told; partial answers are kept. Correct means: what the user has just changed is shown, and what
  Kodi shows becomes what the server has.
* **Timers.** Kodi's copy of a timer is old when it comes back: the recording has begun, the guide or the clocks
  have changed. Three kinds of timer share one integer index; offsets are applied on both sides of a
  conversion. Correct means: what is being recorded is not lost, a call reaches the object the timer was made
  from, a rule keeps its hour, and it neither lapses nor is renewed in the middle of a recording.
* **WebSocket client.** Frames that arrive in pieces, fragments mixed with control frames, timeouts in the middle
  of a frame, a stop at any time. Correct means: messages arrive whole and in order, and a stop ends the thread.

PROJECT.json lists the single hazards, each with its line and the properties that would show it going wrong. Some of
them the code does run into. A property then excuses what happens, or a run leaves it out, and does not count as covering
the hazard; the note says so, and names the unexcused form that TLC refutes (section 3).

## 2. What is modelled

| Module | Role |
|---|---|
| `SharedBuffer` | abstract: what the plugin promises its callers, each call one atomic step |
| `TimeshiftBuffer` | the plugin's handlers, reaper, file server and scrub, step by step; implements `SharedBuffer` when handlers do not overlap |
| `LiveManifest` | `get_live_manifest` and the cache of each worker, against a playlist that is being rewritten |
| `LiveStream` | the add-on's side of a live stream, against a buffer that rolls, dies and is replaced |
| `InProgressRecording` | the add-on's side of a recording that is still growing, with its cache across opens |
| `WebSocketClient` | the handshake, the receive buffer and the frame parser, against a server that sends fragments and control frames |
| `RealtimeUpdates` | the thread that connects, listens, backs off and is stopped; extends `WebSocketClient` |
| `PvrCaches` | the four tables, the threads that load them, and how Kodi is told of changes |
| `Timers` | a single recording, a series rule or a recurring rule, from GetTimers to the call Kodi makes with it later |
| `ApiKeys` | installations of one account: key, tokens, settings, notices, restarts, and the playback of recordings that needs the key |
| `*Proofs` | the theorems about the module of that name; `RealtimeUpdatesProofs` has those about `WebSocketClient` too |
| `MC*` | the small instances TLC checks |

### TimeshiftBuffer

One value of `redis[c]` is the JSON a channel has in Redis: the process (`inst`, which stands for pid
and access token together), the `viewers`, and the ages of each viewer's heartbeat (`seen`) and of the
buffer's (`last`). `running`, `cwd`, `dir`, `dirOld` are what the operating system knows: live
processes, the processes whose working directory still exists, what each channel's directory holds,
and whether it is older than the scrub's `min_age_seconds`. A thread has a program counter `pc`, the
call it serves (`op`, `chan`, `who`), the state it has read (`held`) and what is left of a walk (`todo`).

A handler is the sequence of its externally visible steps. `StartCall` is the GET of
`start_buffer`, `StartCheck` the liveness probe and the reattachment, `StartCount` the
cap, `Launch`/`LaunchFails` the `mkdir` and `Popen`, `StartSet` the final SET. `StopCall`,
`StopSet`, `Kill`, `Files`, `Del` are `_stop_buffer` and `_teardown_buffer`; the reaper, `stop_all` and
`disable` walk the keys with `Sweep`, `NextBuffer`, `ReapSet`, `SweepEnd` and share the
teardown steps. `HeartbeatCall`, `FetchCall`/`FetchGet`, `ManifestCall`/`ManifestBuild` and their common `BeatSet` are the
calls of a playing viewer. `Crash` kills a worker under a handler, `GiveUp` is a request of
the add-on that times out while its handler goes on, `Expire` is the TTL of the state, `Vanish` a
device that disappears without a stop.

Time is counted in ages. One `Tick` is a little more than half of `idle_timeout_seconds`; age 2 is
"idle". Assumptions, each named in the module:

* a handler that has begun ends before the next `Tick` (`Quiet`): the add-on's calls time out in seconds,
  the kill waits two seconds, and the idle timeout is minutes;
* a viewer in `Prompt` beats at least once per `Tick` while it watches; any other viewer beats when it likes;
* a viewer waits for one answer at a time (Kodi's stream calls are sequential), unless the call is given up;
* the leader key lapses only between two passes of the reaper, or when its holder has died;
* a directory grows old only while no process writes into it.

The number of instances is bounded by their set (`Spare`): an instance is used once, as an access token
is. Zombies, reuse of pids and a `killpg` that is refused are not modelled, nor is a change of settings.

### LiveManifest

`cache[w]` is the entry of one worker: the token it was made for, the version (mtime and size) of the
playlist, the sizes. A call reads the state (`Call`), stats the playlist (`StatPlaylist`) and builds its
answer (`Build`); between the steps ffmpeg closes segments, the files may be removed and the
buffer started again. `lagging` is the time between a segment's appearance in the playlist and its last
byte in the file. `Build` reads the playlist and stats the files in one step: this is shorter than the
time the window takes to roll.

### LiveStream

`segments`, `total`, `position`, `fatal`, `shortAt`, `probing` are the fields of
`LiveTimeshiftStreamState`; `pc` says which call is where. Open is
`Open`, a loop of `ColdFetched`/`ColdFails`/`ColdDoomed`, the merge of `RefreshLiveManifest`
(`Merge` once per entry, `Merged`), and `Trim`. Read is `Read`, the catch-up loop (`TailFetched`,
`TailFails`, `TailDoomed`, `Tailed`) and `GetSegment`. Seek is `SeekCall` and `SeekTo`; the length and duration
queries are `Poll`. The throttle of `RefreshLiveManifest` returns without a change, which is a stuttering
step. The buffer is environment here: `CloseSegment`, `FfmpegExits`, `RemoveFiles`, `Forget`,
`Restart`; file names wrap at twice the window as `-segment_wrap` makes them. `stat()` may see a
segment that has just been closed one byte short (`lag`, with `Lag`) until `Flush`. Two answers are made from it: the
manifest, which may keep the short size later too, because that is what `SettledSizes` of `LiveManifest` finds, and the file
server's, which takes the length of a file from a `stat()` of its own (plugin.py:379). So a read may be served short as
well, agree with a short row of the table and go on with the next segment (`FileSizes`); `out` keeps what was reported.
Kodi's stream callbacks are taken to come one after the other, as the code does, which has no lock
here. The heartbeat a read sends is a matter of `TimeshiftBuffer`.

### InProgressRecording

`segments`, `total`, `position`, `finished`, `cachedAt` are the fields of
`InProgressRecordingStreamState`, `cache` is the recording's entry in `m_inProgressSegmentCache`. A
refresh is `Listing`, which fetches the playlist, `Merge` for each new entry, which probes it and appends it, and `Check`, which asks for
the recording's status and brings the cache up to date; the recording may grow or end in between.
`skipped` is a history variable: a probe has failed. Durations follow the sizes entry by entry and
are left out, and so is the renewal of the API key after a 401 (a fetch succeeds or fails here; `ApiKeys` has it).

### WebSocketClient and RealtimeUpdates

The stream is a sequence of units; the only thing kept of a unit is what it says when it is read as a frame
header (`fin`, opcode, length), so that a client out of step reads payload as headers, as the real one
would. `wire` is in flight, `recv` and `pos` are `m_recvBuffer` and `m_recvPos`. `Connect` is the handshake up to the
blank line, whatever follows it staying in the buffer; `FillBuffer` takes any part of what is in flight, at
least one unit; the parser goes header, length, payload (`pc`), answers a ping, skips a pong, keeps fragments in
`assembled`, gives up on a close frame or an oversized one. `TimedOut` is the receive timeout: what a call
has consumed by then is dropped with it (`torn` remembers that). `framed` is a history variable for the proofs: the
frames sent, each with its place in the stream and what the messages were before it. The thread (`thread`) asks for a token, connects,
handles messages until a call fails, and waits with a back-off that doubles. `Stop` comes at any time. A message
comes from the `MaxFrames` frames of a connection; a server that goes on sending what ends no message (pings, pongs, binary
frames, fragments), each before the receive timeout, is `Chatter`: from then on, and for as long as it does (`busy`), the call has a next
frame to read and does not return. Masking, TLS, base64 and the JSON of a message are left out.

### PvrCaches

Data are versions of the server's. A load is three steps: the table is found stale, the request is sent (its time and the
server's version are read now), the answer is stored (`Fresh`, `Request`, `Store`), each under its own lock in the
code and not together. `Ask` and `Show` are a callback of Kodi's, `Warm` the thread that keeps
channels and guide loaded. Whoever reports a change runs a `script` of invalidations and triggers, one at a time:
the writes of the user, the periodic thread, the WebSocket thread, the second notice AddTimer sends
later. A failing request keeps what there was, or a part as if it were all (version 0), as the code does for
groups and for either kind of rules. Half of the tables change in one behaviour (`half`): loads
of the others only interleave with them.

### Timers

One kind of timer lives in a behaviour. `view` is the timer Kodi shows, taken by `Refresh` at any time; `call` is the call
Kodi makes, which the server's scheduler, other installations, the clocks and the renewal may
overtake. `Route` is how the add-on tells by the index what it is about. `FindRecordingById` and
`ExtendRecording` are the two requests of an extension. Recurring rules have the arithmetic of
`ComputeRecurringRuleFields` and GetTimers (`Tod`, `FirstDay`, `RuleTimer`); a round of the renewal is three steps
(`GetRecurringRules`, `GetRecordings`, `ExtendRecurringRuleEndDate`). Weekdays are left out (a rule recurs daily), titles
and the list of zones too.

### ApiKeys

`key`, `setting` and `applied` are `m_config.apiKey`, the setting `api_key` and `m_lastAppliedConfig.apiKey` of each installation;
`call` is the call in progress: where it is (`at`), the attempt, the step of `GenerateApiKey` it waits for (`gen`), and the
key it began with. `OpenFile`, `Playlist`, `Probe`, `Segment` and `ReadRange` are the five requests that heal a stale key; `Ensure`,
`Post`, `PostRefused` and `Reauth` are the request for a new one with its own retry. `Refreshed` and `Failed` are the
loops around a refresh: an open tries again until there is a segment, and fails when a request does; a read at the
tail tries again whatever came of the last refresh; the length, the stream times and a seek from the end (`QueryRecordedStream`)
refresh once and take what there is. An open that succeeds, and every read of a completed recording, goes on to
`PersistApiKey` and `SetSettingString`, between which a notice (`SetSetting`) may come. The constructor
is `CreateInstance`, `Construct` and, if it makes a key, the same steps. `TokenDies`, `EditKey`, and
`Lost` requests are the environment. Kodi begins nothing more with an instance it is to restart, and a token that is not
forgotten early outlives a call (a named bound). The history variables `refused`, `disturbed`,
`unsaved` and `reason` are read by the properties only.

## 3. What the runs show

| Run | Question | Bounds |
|---|---|---|
| `TimeshiftSerial` | Does the plugin keep its promises, and implement `SharedBuffer`, when no two handlers overlap? | 2 channels for a cap of 1, 2 viewers (one beats on time), 2 instances, 1 thread, failing launches; 0.28 million states, liveness |
| `TimeshiftConcurrentAdmin` | Are states well formed and never stored under another channel's key, whatever the interleaving of starts, stops, walks and manual buttons? | 2 channels, 2 threads, no viewers; 1.35 million states |
| `TimeshiftConcurrentLive` | Is everything a deserted buffer leaves behind cleaned up, despite failed launches, timeouts, expiry, a crash? | 1 channel, 1 viewer, 2 threads; 0.19 million states, liveness |
| `TimeshiftTwoStarts` | violation: two devices start one channel at the same time | 2 threads |
| `LiveManifest` | Is an answer at least as new as its call, and free of another instance's sizes? | 2 workers, 2 threads, 2 instances of 3 and 1 segments, window 2; 1.6 million states up to symmetry |
| `LiveStream` | Are addresses unique and stable, are reads free of splices and of other instances' bytes? | instances of 5 and 1 segments, window 2, margin 1, reads of 1 or 2 bytes, 2 attempts, sizes that lag; 4.7 million states |
| `InProgressRecording` | Are addresses unique and stable across opens, does the cache follow the stream? | 4 segments, reads of 1 or 2 bytes, 2 attempts, failing playlist and probe requests; 0.53 million states |
| `RealtimeUpdates` | Does the receive buffer lose nothing, do messages arrive whole, does a lagging client catch up, does a stop end the thread unless the server never stops talking? | 3 frames on 2 connections, text payloads of 1 unit, a ping of 2 with a length field, a server that talks on and on, lost connections, timeouts; 0.53 million states, liveness |
| `PvrCaches` | Is what the user changed shown, and does Kodi end up with what the server has? | 4 tables, 4 views, 2 loading threads, 2 writers, 1 change, 1 failed request; 0.32 million states, liveness |
| `Timers` | Is a running recording safe, are extensions, identities, hours and days kept, is a rule renewed in time and not while it records? | days of 5 units, window of 4 days, 3 calls, 1 fault (failed request, change elsewhere, change of the clocks), 6 days; 3.1 million states |
| `ApiKeys` | Does a stale key heal, is a good one left alone, is a new one saved without a restart, the calls that never save aside? | 2 installations, 3 keys, 1 fault, a file of 1 byte read by 3; 4.7 million states up to symmetry |
| `ApiKeysRestart` | violation: a key the constructor makes restarts the instance later | same, no faults |

Why the bounds are enough for what is asked. Two channels that compete for one slot make the cap and
the reaper's walk over several keys matter; two viewers make "last viewer" and "not the last" both happen; an
instance is consumed by each start, so two of them give the restart after a stop. Two threads are needed
for every race found here; three are out of TLC's reach with liveness, and `TypeOK` and `ChannelBound` are proved for any number. In `LiveStream` the window is 2 and names wrap at 4, so the
fifth segment overwrites the first, while the reader may still hold its address; the sizes are chosen so
that the overwriting file is for a moment as long as the one it replaces. Four segments of a recording let
two be missed and the count of known ones point into the middle of the table. In `RealtimeUpdates` a
payload may read as the header of a text fragment or of a close frame, so a parser out of step is
seen; three frames are a fragment, a control frame inside the message, and its end, or two messages and the torn one. In
`PvrCaches` one change suffices: a report compares what was on the server before it with what is shown after,
and the next change would only start over. In `Timers` the window is renewed when half of it is left; six days are
two renewals. Time passes for a recurring rule only between two calls of Kodi's, a timer is
added on the first day, and a single recording ends within four days: no later state differs.
In `ApiKeys` the first key is one installation's, the second takes it away, the third takes it back, and a read that asks
for more than the rest of the file shows where the position goes.

Where a run says `CHECK_DEADLOCK FALSE`, the bounded supply of segments or instances ends and the system may really stop.

### Serial and concurrent

The promises of the plugin (`OneProcessPerChannel`, `Capped`, `NoLostProcess`, `ViewerKept`, `Writable`,
`ImplementsSharedBuffer`) hold when calls do not overlap, and the plugin takes no measure to keep them
when they do. `TimeshiftSerial` checks the first statement including viewers that vanish, failed launches, ffmpeg exits, the reaper,
pruning and scrubbing; `TimeshiftTwoStarts` shows the second. What survives any interleaving
is checked by the two concurrent runs: states stay well formed and under their own channel
(`TypeOK`, `ChannelBound`), and nothing stays for ever in Redis or on disk (`EventuallyForgotten`,
`EventuallyScrubbed`).

### What was found

Two runs show a disagreement with a sentence of the code or its documents:

* `TimeshiftTwoStarts`: `_start_buffer` reads, launches, writes. Two calls both find nothing and both launch; the
  second state overwrites the first and the first process is never stopped (plugin.py:1656-1727).
* `ApiKeysRestart`: the constructor saves the key it made without updating the snapshot (PVRDispatcharr.cpp:107), and the notice of
  that write comes before addon.cpp knows the instance. The next spurious notice of `api_key` finds a
  difference and asks for a restart, whatever is being played.

More is stated in the modules, as the unexcused form of a property the runs check, or as a promise of its own. None of these is
among the runs; TLC refutes each within seconds. To see one, put its name in place of the INVARIANTS
and PROPERTIES of the configuration, with the change in parentheses:

| Property | Configuration | What happens |
|---|---|---|
| `TimeshiftBuffer!CloseSparesOthers` | `TimeshiftTwoStarts.cfg`, PROPERTIES | a stop decided from an old state ends the process of a viewer that joined during the two seconds of the kill (plugin.py:1787) |
| `TimeshiftBuffer!BeatingViewerCounted` | `TimeshiftSerial.cfg`, INVARIANTS | a heartbeat of a pruned viewer is answered "ok" but does not register it again (plugin.py:1810) |
| `LiveManifest!SettledSizes` | `LiveManifest.cfg`, INVARIANTS | the cache keeps a size that was taken before the last flush; once the segment is not the newest any more, its old size stands (plugin.py:1165) |
| `LiveStream!DeadBufferNoticed` | `LiveStream.cfg` (`LiveSpec`, `FewSizes`, `Lag = FALSE`), PROPERTIES | ffmpeg exits during playback; the plugin looks at the process only when there is no playlist, and ffmpeg leaves the playlist behind (DispatcharrClient.cpp:3306) |
| `LiveStream!NothingLeftOut` | `LiveStream.cfg`, PROPERTIES | the manifest and the file server see the same early size of a segment; the read agrees with the table, goes on with the next segment and leaves the late bytes out (DispatcharrClient.cpp:2983, plugin.py:379) |
| `LiveStream!OwnSegment` | `LiveStream.cfg`, INVARIANTS | the file of a row of the table has been overwritten by a later segment, and is for a moment as long as the row says: the read delivers the later segment's bytes at the old address (comment at 3430) |
| `InProgressRecording!OneSegmentPerByte` | `InProgressRecording.cfg` (`Faults = {"status"}`), INVARIANTS | a failed status request erases the cache entry, which is then created again in part: the next open has no beginning (2270) |
| `RealtimeUpdates!Whole` | `RealtimeUpdates.cfg`, INVARIANTS | a call that times out inside a message drops what it consumed, and the next one reads payload as a header (WebSocketClient.cpp:362) |
| `RealtimeUpdates!StopNoticed` | `RealtimeUpdates.cfg` (`LiveSpec`), PROPERTIES | a call of ReceiveTextMessage returns only at the end of a message or after a silence of 5 s, and the stop flag is looked at between calls: a server that keeps sending pings holds the join of the destructor for ever (WebSocketClient.cpp:359-447, PVRDispatcharr.cpp:612). The comment at PVRDispatcharr.cpp:588, that the timeout "bounds how quickly a stop request is noticed", is false of the code |
| `PvrCaches!NewsTold` | `PvrCaches.cfg` (`Spec`), INVARIANTS | channels that expired are loaded again by a call for something else; the thread that would tell Kodi finds them fresh (PVRDispatcharr.cpp:1288) |
| `Timers!NeverLost` | `Timers.cfg`, INVARIANTS | Kodi edits or deletes a timer it read before the recording began; the request of a timer to come ends or wipes the running recording (2258, 2365) |
| `Timers!FirstKept` | `Timers.cfg`, INVARIANTS | with a zone behind Greenwich each enabling or disabling moves the first day of a rule one day back (2111) |
| `ApiKeys!Saved` | `ApiKeys.cfg`, INVARIANTS | a key made by a read of a growing recording, by its length, stream times or seek from the end (1831-1843), or by an open that then fails (1789), is never saved: the next start takes the key from the others again |

Also met while reading, and not stated: an open that gives up waiting for its first
manifest does not stop the buffer it started (DispatcharrClient.cpp:3118-3126), so it is the reaper's; after a failed
probe the known segments are counted one short and the table repeats an entry (comment at 2250);
`finished` is set from a status asked after the playlist, so a last segment listed in between is missed by
a reader at the tail (comment at 2459), and never set once the server has removed the playlist (2123); with
calls that time out, a late write-back of a segment fetch can undo a heartbeat; the reaper keeps the settings of a worker's
first call (plugin.py:1315); two installations that heal at the same time refuse each other's second
attempt; the thread AddTimer detaches may outlive the instance (PVRDispatcharr.cpp:2194); `m_dataMutex` is held
across requests (2134); pending titles are kept by channel, so that two timers of a channel share one
(DispatcharrClient.cpp:1424).

### Fairness

`TimeshiftBuffer` (`Fairness`): a handler that has begun goes on (WF of each thread's `HandlerStep`); some worker's reaper runs again
and again (SF, since it has a thread of its own that competes only for the key), the key of a dead leader lapses (WF),
time passes (SF of `Tick`), directories age (SF), and an ffmpeg whose directory was removed ends (WF; it
fails to create its next segment). No viewer and no administrator has to call anything.
`LiveStream` (`LiveSpec`): calls return (WF of `Client`), a player that has a stream open and does not seek keeps reading (SF), and
of requests that are made again and again some succeed (SF of the tail's refresh and of a segment's fetch). Under it
the dead buffer still goes unnoticed, so the counterexample owes nothing to a client that stops.
`RealtimeUpdates` (`LiveSpec`): the thread and the parser go on (WF), bytes in flight or the end of the connection reach a
client that keeps asking (SF of `Fill`, since its calls time out in between), a wait for bytes that never come times out
(WF of `Late`, which leaves out the wait of a call that a talking server keeps fed, `HeldUp`). The server need not send anything and `Stop` need not come.
`Stopped` is what follows: a stop ends the thread or finds the server talking on. `PvrCaches` (`LiveSpec`): loading threads, the callback in
progress, the warming and the periodic thread and whoever reports a change go on (WF), Kodi makes
the updates it was told to make (SF: another callback may be in progress) and asks for the guide of its
own accord, as it does, and the slow tables' lifetime passes (WF). Channels are left out of `EventuallySettled`: Kodi asks
for them only when told, and `NewsTold` says what that leads to. `Timers` and `ApiKeys` have no
liveness: what must happen in time is stated as an invariant (`NeverLapses`, `SelfHeals`).

## 4. What is proved

Every invariant and every action property of the passing runs, and the refinement of `SharedBuffer`, is a theorem
of TLAPS: the run shows it on a small instance, the theorem for every value of the constants that satisfies
the modules' assumptions (which the runs evaluate) and the hypothesis of the theorem, where it has one. What stays with TLC is
the liveness.

| Module | Theorems | Hypothesis |
|---|---|---|
| `TimeshiftBufferProofs` | `TypeCorrect`, `ChannelBoundHolds` | none: any number of threads, crashes and faults |
| | `OneProcessPerChannelHolds`, `NoLostProcessHolds`, `CappedHolds`, `ViewerKeptHolds`, `WritableHolds`, `ImplementsSharedBufferHolds` | `OneAtATime` |
| `LiveManifestProofs` | `SizesOwnHolds`, `NeverStaleHolds` | none |
| `LiveStreamProofs` | `TypeCorrect`, `OneSegmentPerByteHolds`, `AddressStableHolds`, `OwnInstanceHolds`, `NoSpliceHolds` | none |
| `InProgressRecordingProofs` | `TypeCorrect`, `OneSegmentPerByteHolds`, `CacheInStepHolds`, `InOrderHolds`, `AddressStableHolds` | `"status" \notin Faults` |
| `RealtimeUpdatesProofs` | `TypeCorrect`, `ConservedHolds`, `WholeUnlessTornHolds` | none |
| `PvrCachesProofs` | `TypeCorrect`, `OwnWritesSeenHolds` | none |
| `TimersProofs` | `TypeCorrect`, `KeptIfSeenHolds`, `ExtendedAsAskedHolds`, `OneRulePerSeriesHolds`, `TodKeptHolds`, `DeletedIsGoneHolds`, `RenewSparesOccurrenceHolds` | none |
| | `NeverLapsesHolds` | `Slack` |
| `ApiKeysProofs` | `TypeCorrect`, `SelfHealsHolds`, `OnlyStaleReplacedHolds`, `OwnWriteKeptHolds`, `SavedUnlessDroppedHolds` | none |

The hypotheses, and why they are no weaker:

* `OneAtATime`: one thread, no crash of a worker, no state that outlives its TTL. Launches may still fail, processes exit, viewers
  vanish, requests be given up, administrators press every button. `TimeshiftTwoStarts` shows that two
  overlapping starts lose a process; a crash between `Launch` and `StartSet`, or a state that expires over a live process, does it alone.
  The constants of `TimeshiftSerial` satisfy it.
* `"status" \notin Faults`: the recording's status request is answered (playlist and probe requests may fail).
  A failing one erases the cache of a recording that still grows, and the table begun again has no beginning (section 3).
* `Slack`: a day has room for an occurrence, the renewal's margin, the spread of the offsets and the time between two rounds:
  `Length + Margin + (hi - lo) + Longest <= Day + 1` for some `lo`, `hi` with `Offset \subseteq lo..hi`. With the code's
  margin of an hour, an hour of summer time and a round every few minutes this is every occurrence of up to 21 hours.
  `Timers.cfg` satisfies it with nothing to spare (1 + 2 + 1 + 2 = 5 + 1).
* `RuleAssumption` of `Timers` (`Window >= 3 /\ Length <= Day`): the window is 30 days, and an occurrence is given by two times of day.

The inductive invariants, and why the properties need them:

* **`ChannelBound`** (every state in Redis or in a handler's hand is that of a process launched for that
  channel) is inductive with `TypeOK` and `Located`: a handler in the middle of a call has a channel, a viewer
  past its first call too. This is `IInv`.
* **The serial promises** rest on `SInv`, which is `IInv` and six facts about the one handler that may be half way.
  `Hands`: what it holds is about the process Redis names for its channel, except while it starts another; a process
  found or made dead stays dead; nothing a scrub has listed has a state. `Lists`: what it is about to write changes the
  viewers only as its call says. `Housed`: every live process has its directory, and Redis names it or its launch is not
  over. `Placed`: a viewer, its process and the handler of its call agree on the channel. `Watched`: the
  prompt viewers of a live process are counted, freshly, in Redis and in the state in hand. `Room`: the channels with a buffer, or with
  one being launched, are at most `MaxConcurrent`.
* **`ImplementsSharedBuffer`**: under `SInv` each step maps to a call of `SharedBuffer` or to a stutter. `StartSet` is
  `Start` after a launch and `Join` after a reattachment, the write-backs `StopSet`, `ReapSet` and `BeatSet` are `Leave` when a viewer
  goes and stutter otherwise, `DeadDel` and `Del` are `Finish`; everything else changes neither the instances nor the viewers
  in Redis, nor which instances are over.
* **`LiveManifest`**: `InStep` (the directory holds the tracked instance's files or none), `Calls` (what a thread found of another
  instance's playlist it found after its own instance's files had gone for good) and `Entries` (an entry was built from the files of
  the instance it is kept for, or these have gone for good). An entry made by a call that raced a restart
  is wrong, but no later call can hit it; the invariant is the reason.
* **`LiveStream`, the table**: `OneSegmentPerByte` is not inductive, since the trim at open needs to know that the
  segment it makes the first begins at or below all that follow. `IInv` adds `BufferOK` (the instance and its edge are within
  `SizeOf`), `Ordered` (of two entries the later begins at or after the end of the earlier, all end at or below
  `total`) and `Covered` (every address from 0 to `total` is covered). `Ordered` and `Covered` speak of all pairs and
  all addresses rather than of neighbours, so that no induction along the table is needed.
* **`LiveStream`, the bytes**: `RInv` adds `LastRead`: the last delivery was of the stream's instance and ended where
  the position is, in a row of the table that is still there. `NoSplice` follows: a read leaves a row only when
  it has delivered as much as the file server said there was, and that is what the row says. It needs nothing about what
  `stat()` saw when, and so claims nothing about it: that is `NothingLeftOut`, which is false.
* **`InProgressRecording`**: `Tables` (both the stream's table and the cached one are well formed), `InStep` (the cache is the table without what
  the current refresh has found, or gone with the end of the recording) and `Counted` (as long as no probe has failed,
  entry n of the playlist is row n).
* **`RealtimeUpdates`**: `InTransit` (consumed, buffered and in flight make up the stream), `Layout` (each frame's units lie where its
  offset says), `Story` (each frame tells how the fragments and messages before it become those after it) and `InPlace`: unless a call was torn,
  the parser is at one of the frames, in the part its `pc` says, and holds the fragments before it. A frame's offset, fragments and
  messages are history (`framed`), so that the invariant compares two states instead of summing over lengths.
* **`PvrCaches`**: a table is `Good` for a version when neither it nor any request in flight can bring back an older one
  than that. `Scripts`: what a writer has still to tell Kodi of is emptied first, or good. `Kept`: what Kodi was told of is what it would get.
  `Asked` and `Seen`: a view that is asked for has the table still before it, has found it new
  enough, or is owed another update.
* **`Timers`**: `KindInv` (a call reaches the table its timer was made from), `OnceInv` (the minutes still to be added are those
  missing, what others have added aside), `SeriesInv`, and for recurring rules `RuleInv`: ids are used once (`IdInv`), a timer
  turned back with the offset it was made with has the rule's time of day (`TodInv`), each call moves the first day by
  a day at most (`DayInv`), and no occurrence falls between the clock of a round and its end (`PassInv`, `Clear`). `TodKept` rests on lemmas
  about `%` and `\div` by `Day`, `DeletedIsGone` and `RenewSparesOccurrence` follow from the invariants by a step each.
  `NeverLapses` needs `RoundsInv(lo)`: for every day d after which the rule is running out, either no round has begun since d's
  occurrence was over, or the one under way read the rule as it is and nothing holds it back. That some round is in the free hours is
  lemma `Free`, the only place that uses `Slack`.
* **`ApiKeys`**: one invariant per property beside `TypeOK`. `Healing`: the key of a second attempt is the server's, the token of a second
  request for a key is live, unless `disturbed`. `Stale`: from the moment a call has begun to ask for a key the old one is
  not the server's, since the server's number only grows and `TypeOK` bounds every key by it. `Own`: setting and snapshot
  differ only between the two steps of the saving or for a reason, and while a key is being asked for the call is
  not about to save. `Settled`: the setting holds the key the call began with, unless `unsaved`.

The proofs of the steps have one lemma per action or group of actions, under it one step per conjunct it can disturb; what
another thread, installation or table sees of a step is shown once and cited.

Model-checked only: the liveness properties `EventuallyStopped`, `EventuallyForgotten`, `EventuallyScrubbed`, `EventuallySettled`,
`Delivered`, `Stopped`, which are out of the prover's reach (fairness, ENABLED). For handlers that overlap, `TypeOK` and
`ChannelBound` are all that is checked and proved of the safety of the plugin: the rest is false. The two runs that expect a violation
have counterexamples and no theorem.

## 5. The plan, and what is not modelled

Next, in this order:

1. Which of the plugin's promises survive crashes and expiry with one handler at a time: `ViewerKept` and `Writable` do not
   obviously need `MaxCrashes = 0`. TLC first, then a weaker hypothesis than `OneAtATime` for these two.
2. Abstract specifications for the client's side: the table of a stream as an append-only file with a length
   (`LiveStream`, `InProgressRecording`), shown to be implemented as `AddressStable` and `OneSegmentPerByte` suggest.
3. The hazards without a property (a paused viewer that is pruned; an ffmpeg that exits during playback): both are in the
   table of section 3 as refuted promises, and could become runs if others make room.

Not modelled, or in part:

* XMLTV parser and `TimeUtil.h`: a sequential conversion of text; its properties are about characters. The conversions of
  times the timers depend on are in `Timers`.
* Channels, groups, providers, guide: when they are loaded and shown is in `PvrCaches`; the conversion of fields, logos and
  genres is formatting.
* Completed recordings: playback is in `ApiKeys`, deletion and renaming are changes in `PvrCaches`; EDL and play position are single
  requests that keep no state.
* Settings: `api_key` is in `ApiKeys`; those applied without a restart are assignments to one field each.
* `recording_edl`: two actions that list files and delete what no recording refers to. Their race with a recording that begins in
  between depends on the server's recording task, which is not in this repository.
* `tools/`: developer scripts.
