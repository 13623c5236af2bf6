------------------------------- MODULE Timers -------------------------------
(***************************************************************************)
(* Timers.  Kodi shows what GetTimers gave it, and hands such a timer back  *)
(* with AddTimer, UpdateTimer and DeleteTimer, however old it is by then.   *)
(* One kind of timer lives in a behaviour: a single recording, a series     *)
(* rule, or a recurring rule, whose window a thread of the add-on renews.   *)
(* The caches between are those of PvrCaches; here a refresh is one step.   *)
(***************************************************************************)
EXTENDS Integers, FiniteSets

CONSTANTS
    Minute,     \* the length of a minute, and of a day: each kind of timer counts in
    Day,        \* units of its own (bound)
    Window,     \* kRecurringRuleWindowDays
    Margin,     \* kRecurringRuleRenewalSafetyMarginSeconds
    Period,     \* recording_refresh_minutes
    Length,     \* how long an occurrence of the recurring rule takes
    Offset,     \* EffectiveRecurringRuleUtcOffsetMinutes: the values it takes
    MaxNow,     \* bound: time
    MaxCalls,   \* bound: calls made by Kodi
    MaxFaults   \* bound: requests that fail, changes made elsewhere

ASSUME TimeAssumption ==
    /\ {Minute, Day, Window, Margin, Period, Length} \subseteq Nat \ {0}
    /\ {MaxNow, MaxCalls, MaxFaults} \subseteq Nat
    /\ Offset \subseteq (1 - Day)..(Day - 1)

\* the window is 30 days; an occurrence is given by two times of day
ASSUME RuleAssumption == Window >= 3 /\ Length <= Day

VARIABLES
    kind,    \* "once", "series" or "recurring"
    now,
    view,    \* the timer Kodi shows
    call,    \* the call Kodi makes
    rec,     \* the recording on the server
    guide,   \* the tvg_id the server has for the channel
    series,  \* the tvg_ids the server has a series rule for
    bit,     \* whether the hash of the series has the recurring bit
    offset,  \* the offset of the server's zone
    rule,    \* the recurring rule on the server
    pass,    \* a round of RenewRecurringRules
    seen,    \* when the last one began
    calls, faults,
    asked,   \* history: the end asked for by the last extension, 0 for none
    between, \* history: what others added to it since the end was read
    blame,   \* history: the state Kodi showed when a recording was lost
    basis,   \* history: the offset when Kodi's timer was made
    excused, \* history: a lookup failed, the guide changed, or the offset did
    want,    \* history: the time of day and first day the rule was made with
    late     \* history: the rule was running out when enabled, or the recordings could
             \* not be read

server  == <<rec, guide, series, bit, offset, rule>>
renewal == <<pass, seen>>
history == <<asked, between, blame, basis, excused, want, late>>
vars == <<kind, now, view, call, server, renewal, calls, faults, history>>

Call(op, timer, extra) == [op |-> op, timer |-> timer, extra |-> extra]

Rule(id, on, tod, first, last) ==
    [id |-> id, on |-> on, tod |-> tod, first |-> first, last |-> last]

Pass(stage, r, at, busy) == [stage |-> stage, rule |-> r, at |-> at, busy |-> busy]

NoTimer == [index |-> "none"]
NoCall  == [op |-> "none"]
NoRule  == Rule(0, FALSE, 0, 0, 0)
NoPass  == Pass("idle", NoRule, 0, FALSE)

\* the first day of the model leaves room for as many days before it as calls may go back
Start == (MaxCalls + 1) * Day

Midnight(t) == t - (t % Day)

\* DateStringFromTime and back
Date(t) == Midnight(t)

\* TimeOfDayString and back
TimeOfDay(t) == t % Day

-----------------------------------------------------------------------------
(* The server.                                                             *)

Recording(status, start, end) == [status |-> status, start |-> start, end |-> end]

NoRec == Recording("none", 0, 0)

Lost == {"revoked", "wiped"}

\* the scheduler of the server starts and completes a recording
Aged(r, t) ==
    CASE r.status = "waiting" /\ r.start <= t -> Recording("recording", r.start, r.end)
      [] r.status = "recording" /\ r.end <= t -> Recording("completed", r.start, r.end)
      [] OTHER -> r

\* the occurrences of a recurring rule, by their start
Occurrences(r) ==
    {d + r.tod - offset : d \in {e \in r.first..r.last : e % Day = 0}}

InProgress(r, t) == \E o \in Occurrences(r) : o <= t /\ t < o + Length

-----------------------------------------------------------------------------
(* GetTimers.                                                              *)

Index(n, s, r) == [series |-> s, recurring |-> r, n |-> n]

Timer(index, state, first, start, end) ==
    [index |-> index, state |-> state, first |-> first, start |-> start, end |-> end]

RecordingTimer ==
    CASE rec.status = "recording" ->
             Timer(Index(1, FALSE, FALSE), "recording", 0, rec.start, rec.end)
      [] rec.status = "waiting" ->
             Timer(Index(1, FALSE, FALSE), "scheduled", 0, rec.start, rec.end)
      [] OTHER -> NoTimer

SeriesTimer ==
    IF series = {} THEN NoTimer
    ELSE Timer(Index(1, TRUE, bit), "scheduled", 0, 0, 0)

\* Mutant of RuleTimer: the offset is added here as well.
RuleTimer_SameSign(r) ==
    Timer(Index(r.id, FALSE, TRUE), IF r.on THEN "scheduled" ELSE "disabled",
          r.first, r.first + r.tod + offset, r.first + r.tod + offset + Length)

RuleTimer(r) ==
    Timer(Index(r.id, FALSE, TRUE), IF r.on THEN "scheduled" ELSE "disabled",
          r.first, r.first + r.tod - offset, r.first + r.tod - offset + Length)

GetTimers ==
    CASE kind = "once"      -> RecordingTimer
      [] kind = "series"    -> SeriesTimer
      [] kind = "recurring" -> IF rule = NoRule THEN NoTimer ELSE RuleTimer(rule)

Refresh ==
    /\ view # GetTimers
    /\ view' = GetTimers
    /\ basis' = offset
    /\ UNCHANGED <<kind, now, call, server, renewal, calls, faults, asked, between,
                   blame, excused, want, late>>

-----------------------------------------------------------------------------
(* Kodi calls.                                                             *)

Begin(op, timer) ==
    /\ call = NoCall
    /\ calls < MaxCalls
    /\ calls' = calls + 1
    /\ call' = Call(op, timer, 0)
    /\ excused' = (excused \/ (op = "edit" /\ basis # offset))
    /\ UNCHANGED <<kind, now, view, server, renewal, faults, asked, between, blame, basis,
                   want, late>>

New(start, end) == Timer(Index(0, FALSE, FALSE), "scheduled", 0, start, end)

\* (Bound: on the first day.)
KodiAdds ==
    /\ GetTimers = NoTimer
    /\ now = Start
    /\ CASE kind = "once" ->
                rec = NoRec /\ \E length \in 1..2 : Begin("add", New(now + 1, now + 1 + length))
         [] kind = "series" -> Begin("add", New(0, 0))
         [] kind = "recurring" ->
                \E start \in now..(now + Day - 1) : Begin("add", New(start, start + Length))

\* the dialog of the timer shown: another end, or enabled and disabled
KodiEdits ==
    /\ view # NoTimer
    /\ CASE kind = "once" ->
                \E end \in (view.start + 1)..(view.end + Minute + 1) :
                    Begin("edit", Timer(view.index, view.state, view.first, view.start, end))
         [] kind = "series" -> Begin("edit", view)
         [] kind = "recurring" ->
                Begin("edit", Timer(view.index,
                                    IF view.state = "disabled" THEN "scheduled" ELSE "disabled",
                                    view.first, view.start, view.end))

KodiDeletes == view # NoTimer /\ Begin("delete", view)

\* Mutant of Route: a hash is taken for the id of a recurring rule.
Route_RecurringFirst(index) ==
    IF index.recurring THEN "recurring" ELSE IF index.series THEN "series" ELSE "once"

\* what a call is about; a new timer has a type, one that exists only its index
Route(index) ==
    IF index.series THEN "series" ELSE IF index.recurring THEN "recurring" ELSE "once"

Called(op, what) ==
    /\ call # NoCall
    /\ call.op = op
    /\ IF op = "add" THEN what = kind ELSE what = Route(call.timer.index)

Return ==
    /\ call' = NoCall
    /\ UNCHANGED <<kind, now, view, renewal, calls>>

-----------------------------------------------------------------------------
(* One recording.                                                          *)

OnlyRec == UNCHANGED <<guide, series, bit, offset, rule, basis, excused, want, late>>

CreateOneTimeRecording ==
    /\ Called("add", "once")
    /\ rec' = Aged(Recording("waiting", call.timer.start, call.timer.end), now)
    /\ Return /\ OnlyRec
    /\ UNCHANGED <<faults, asked, between, blame>>

\* Mutant of ExtraMinutes: a part of a minute is cut off.
ExtraMinutes_Floor(delta) == delta \div Minute

ExtraMinutes(delta) == (delta + Minute - 1) \div Minute

\* Mutant of Extends: every edit changes the recording as if it were yet to come.
Extends_Never == FALSE

Extends == call.timer.state = "recording"

\* UpdateTimer of a recording that Kodi shows as running reads the end first
FindRecordingById ==
    /\ Called("edit", "once")
    /\ Extends
    /\ call.extra = 0
    /\ LET delta == call.timer.end - rec.end
       IN  IF rec.status \in {"none", "wiped"} \/ delta <= 0
             THEN call' = NoCall
             ELSE call' = Call(call.op, call.timer, ExtraMinutes(delta))
    /\ between' = 0 /\ asked' = 0
    /\ UNCHANGED <<kind, now, view, server, renewal, calls, faults, blame, basis, excused,
                   want, late>>

\* the server extends only what is being recorded
ExtendRecording ==
    /\ Called("edit", "once")
    /\ call.extra > 0
    /\ IF rec.status = "recording"
         THEN /\ rec' = Recording(rec.status, rec.start, rec.end + call.extra * Minute)
              /\ asked' = call.timer.end
         ELSE UNCHANGED <<rec, asked>>
    /\ Return /\ OnlyRec
    /\ UNCHANGED <<faults, between, blame>>

\* Any other edit replaces both times; the server ends what is being recorded.
UpdateOneTimeRecording ==
    /\ Called("edit", "once")
    /\ ~Extends
    /\ CASE rec.status = "waiting" ->
                /\ rec' = Aged(Recording("waiting", call.timer.start, call.timer.end), now)
                /\ UNCHANGED blame
         [] rec.status = "recording" ->
                /\ rec' = Recording("revoked", rec.start, rec.end)
                /\ blame' = call.timer.state
         [] OTHER -> UNCHANGED <<rec, blame>>
    /\ asked' = 0
    /\ Return /\ OnlyRec
    /\ UNCHANGED <<faults, between>>

\* Kodi forces the deletion of a timer it shows as recording
ForceDelete == call.timer.state = "recording"

StopRecording ==
    /\ Called("delete", "once")
    /\ ForceDelete
    /\ rec' = IF rec.status = "recording" THEN Recording("stopped", rec.start, rec.end) ELSE rec
    /\ asked' = 0
    /\ Return /\ OnlyRec
    /\ UNCHANGED <<faults, between, blame>>

DeleteRecording ==
    /\ Called("delete", "once")
    /\ ~ForceDelete
    /\ CASE rec.status = "waiting" -> rec' = NoRec /\ UNCHANGED blame
         [] rec.status \in {"recording", "completed", "stopped", "revoked"} ->
                rec' = Recording("wiped", rec.start, rec.end) /\ blame' = call.timer.state
         [] OTHER -> UNCHANGED <<rec, blame>>
    /\ asked' = 0
    /\ Return /\ OnlyRec
    /\ UNCHANGED <<faults, between>>

\* another installation extends the recording
ExtendedElsewhere ==
    /\ rec.status = "recording"
    /\ faults < MaxFaults
    /\ faults' = faults + 1
    /\ rec' = Recording(rec.status, rec.start, rec.end + Minute)
    /\ between' = between + Minute
    /\ OnlyRec
    /\ UNCHANGED <<kind, now, view, call, renewal, calls, asked, blame>>

-----------------------------------------------------------------------------
(* A series rule: title and channel are given, the tvg_id is looked up.     *)

OnlySeries ==
    UNCHANGED <<rec, guide, bit, offset, rule, asked, between, blame, basis, want, late>>

\* ResolveSeriesRuleTvgId: the tvg_id the channel itself has, when the lookup fails
Resolve(tvg) ==
    \/ tvg = guide /\ UNCHANGED <<faults, excused>>
    \/ tvg = "own" /\ faults < MaxFaults /\ faults' = faults + 1 /\ excused' = TRUE

\* Mutant of Identity: the tvg_id of the channel is used as it is.
Identity_Own(tvg) == "own"

Identity(tvg) == tvg

\* an existing rule is edited by creating it again
CreateSeriesRule ==
    /\ Called("add", "series") \/ Called("edit", "series")
    /\ \E tvg \in {guide, "own"} :
          /\ Resolve(tvg)
          /\ series' = series \union {IF call.op = "add" THEN tvg ELSE Identity(tvg)}
    /\ Return /\ OnlySeries

DeleteSeriesRule ==
    /\ Called("delete", "series")
    /\ \E tvg \in {guide, "own"} :
          /\ Resolve(tvg)
          /\ series' = series \ {Identity(tvg)}
    /\ Return /\ OnlySeries

\* the channel gets the guide of another source
GuideChanges ==
    /\ kind = "series"
    /\ faults < MaxFaults
    /\ faults' = faults + 1
    /\ guide' = "other"
    /\ excused' = (excused \/ series # {})
    /\ UNCHANGED <<kind, now, view, call, rec, series, bit, offset, rule, renewal, calls,
                   asked, between, blame, basis, want, late>>

-----------------------------------------------------------------------------
(* A recurring rule.                                                       *)

OnlyRule == UNCHANGED <<rec, guide, series, bit, offset, faults, asked, between, blame, basis>>

\* ComputeRecurringRuleFields
Tod(timer) == (timer.start % Day) + offset

FirstDay(timer) == Midnight((IF timer.first <= 0 THEN now ELSE timer.first) + offset)

Short(r) == r.last - now < (Window \div 2) * Day

CreateRecurringRule ==
    /\ Called("add", "recurring")
    /\ LET first == FirstDay(call.timer)
       IN  /\ rule' = Rule(calls, TRUE, TimeOfDay(Tod(call.timer)), Date(first),
                           Date(first + Window * Day))
           /\ want' = [tod |-> rule'.tod, first |-> rule'.first]
    /\ excused' = FALSE /\ late' = Short(rule')
    /\ Return /\ OnlyRule

\* the last day stays as it is; a rule that is gone is not found
UpdateRecurringRule ==
    /\ Called("edit", "recurring")
    /\ IF rule.id = call.timer.index.n
         THEN /\ rule' = Rule(rule.id, call.timer.state # "disabled",
                              TimeOfDay(Tod(call.timer)), Date(FirstDay(call.timer)), rule.last)
              /\ late' = (late \/ Short(rule'))
         ELSE UNCHANGED <<rule, late>>
    /\ UNCHANGED <<want, excused>>
    /\ Return /\ OnlyRule

DeleteRecurringRule ==
    /\ Called("delete", "recurring")
    /\ rule' = IF rule.id = call.timer.index.n THEN NoRule ELSE rule
    /\ UNCHANGED <<want, excused, late>>
    /\ Return /\ OnlyRule

\* RenewRecurringRules: the rules are read, then the recordings and the clock, then
\* the rules that run out are given a new last day.
OnlyPass ==
    UNCHANGED <<kind, now, view, call, rec, guide, series, bit, offset, calls, asked, between,
                blame, basis, excused, want>>

GetRecurringRules ==
    /\ kind = "recurring"
    /\ pass = NoPass
    /\ seen' = now
    /\ pass' = Pass("rules", rule, 0, FALSE)
    /\ UNCHANGED <<rule, faults, late>> /\ OnlyPass

\* Mutant of Imminent: any occurrence to come holds the renewal back.
Imminent_Any(o, t) == t < o

Imminent(o, t) == t < o /\ o - t < Margin

\* Mutant of Busy: only what is to begin holds the renewal back.
Busy_Ahead(t) == \E o \in Occurrences(rule) : Imminent(o, t)

Busy(t) == InProgress(rule, t) \/ \E o \in Occurrences(rule) : Imminent(o, t)

\* without the recordings every rule counts as busy
GetRecordings ==
    /\ pass.stage = "rules"
    /\ \/ /\ pass' = Pass("both", pass.rule, now, rule.id = pass.rule.id /\ Busy(now))
          /\ UNCHANGED <<faults, late>>
       \/ /\ faults < MaxFaults
          /\ faults' = faults + 1
          /\ pass' = Pass("both", pass.rule, now, TRUE)
          /\ late' = TRUE
    /\ UNCHANGED <<rule, seen>> /\ OnlyPass

RunsOut == (pass.rule.last - pass.at) \div Day < Window \div 2

ExtendRecurringRuleEndDate ==
    /\ pass.stage = "both"
    /\ pass' = NoPass
    /\ IF pass.rule.on /\ RunsOut /\ ~pass.busy /\ rule.id = pass.rule.id
         THEN /\ rule' = Rule(rule.id, rule.on, rule.tod, rule.first, Date(pass.at + Window * Day))
              /\ late' = FALSE
         ELSE UNCHANGED <<rule, late>>
    /\ UNCHANGED <<seen, faults>> /\ OnlyPass

Renew == GetRecurringRules \/ GetRecordings \/ ExtendRecurringRuleEndDate

\* the server's zone changes to or from daylight saving (bound: not during a round)
ClocksChange ==
    /\ kind = "recurring"
    /\ pass = NoPass
    /\ faults < MaxFaults
    /\ faults' = faults + 1
    /\ offset' \in Offset \ {offset}
    /\ excused' = (excused \/ call # NoCall)
    /\ UNCHANGED <<kind, now, view, call, rec, guide, series, bit, rule, renewal, calls, asked,
                   between, blame, basis, want, late>>

-----------------------------------------------------------------------------
(* Time: the thread begins a round every Period, and a request is answered   *)
(* well within Margin.                                                     *)

Tick ==
    /\ kind # "series"
    /\ now < (IF kind = "once" THEN Start + 2 * Day ELSE MaxNow)
    /\ kind = "recurring" => call = NoCall
    /\ kind = "recurring" => IF pass = NoPass THEN now - seen < Period
                             ELSE pass.stage = "both" /\ now + 1 - pass.at < Margin
    /\ now' = now + 1
    /\ rec' = Aged(rec, now + 1)
    /\ UNCHANGED <<kind, view, call, guide, series, bit, offset, rule, renewal, calls, faults,
                   history>>

Kodi == Refresh \/ KodiAdds \/ KodiEdits \/ KodiDeletes

Single ==
    \/ CreateOneTimeRecording \/ FindRecordingById \/ ExtendRecording
    \/ UpdateOneTimeRecording \/ StopRecording \/ DeleteRecording

Series == CreateSeriesRule \/ DeleteSeriesRule

Recurring == CreateRecurringRule \/ UpdateRecurringRule \/ DeleteRecurringRule \/ Renew

Init ==
    /\ kind \in {"once", "series", "recurring"}
    /\ now = Start /\ view = NoTimer /\ call = NoCall
    /\ rec = NoRec /\ guide \in {"own", "epg"} /\ series = {}
    /\ bit \in IF kind = "series" THEN BOOLEAN ELSE {FALSE}
    /\ offset \in IF kind = "recurring" THEN Offset ELSE {0}
    /\ rule = NoRule /\ pass = NoPass /\ seen = now
    /\ calls = 0 /\ faults = 0
    /\ asked = 0 /\ between = 0 /\ blame = "none"
    /\ basis = offset /\ excused = FALSE
    /\ want = [tod |-> 0, first |-> 0] /\ late = FALSE

Next ==
    \/ Kodi \/ Single \/ Series \/ Recurring \/ Tick
    \/ ExtendedElsewhere \/ GuideChanges \/ ClocksChange

Spec == Init /\ [][Next]_vars

-----------------------------------------------------------------------------
(* Properties.                                                             *)

Shown == [index : [series : BOOLEAN, recurring : BOOLEAN, n : Nat],
          state : {"recording", "scheduled", "disabled"}, first : Int, start : Int, end : Int]

Status ==
    {"none", "waiting", "recording", "completed", "stopped"} \union Lost

Rules == [id : Nat, on : BOOLEAN, tod : 0..(Day - 1), first : Int, last : Int]

\* The state of the server's timers, Kodi's and the calls between; a time of day
\* stays within the day, a date on its midnight.
TypeOK ==
    /\ kind \in {"once", "series", "recurring"} /\ now \in Nat
    /\ view \in Shown \union {NoTimer}
    /\ call \in [op : {"add", "edit", "delete"}, timer : Shown, extra : Nat] \union {NoCall}
    /\ rec \in [status : Status, start : Int, end : Int]
    /\ guide \in {"own", "epg", "other"} /\ series \subseteq {"own", "epg", "other"}
    /\ bit \in BOOLEAN
    /\ offset \in Offset \union {0} /\ basis \in Offset \union {0}
    /\ rule \in Rules /\ rule.first % Day = 0 /\ rule.last % Day = 0
    /\ pass \in [stage : {"idle", "rules", "both"}, rule : Rules, at : Nat, busy : BOOLEAN]
    /\ seen \in Nat
    /\ calls \in 0..MaxCalls /\ faults \in 0..MaxFaults
    /\ asked \in Int /\ between \in Nat
    /\ blame \in {"none", "recording", "scheduled", "disabled"}
    /\ excused \in BOOLEAN /\ late \in BOOLEAN
    /\ want \in [tod : 0..(Day - 1), first : Int]

\* A recording in progress is stopped, never deleted, and extended, never patched
\* (a patch "would actually revoke the running Celery task"), as long as Kodi shows
\* it as recording, whatever has become of it since.
KeptIfSeen == rec.status \in Lost => blame = "scheduled"

\* The same whatever Kodi shows: what is recorded is only given up on purpose.
NeverLost == rec.status \notin Lost

\* An extension ends within the minute asked for, others' extensions aside, though
\* the server takes a relative time and Kodi gives an absolute one.
ExtendedAsAsked ==
    asked > 0 => asked <= rec.end - between /\ rec.end - between < asked + Minute

\* A series is edited and deleted under the identity it was created with, so there
\* is one rule for it, unless the lookup failed or the guide changed.
OneRulePerSeries == excused \/ Cardinality(series) <= 1

\* What Kodi deletes is gone: the call reaches the object the timer was made from.
DeletedIsGone ==
    [][call # NoCall /\ call.op = "delete" /\ call' = NoCall /\ ~excused'
         => GetTimers' = NoTimer \/ GetTimers'.index # call.timer.index]_vars

\* "Kodi implements it by calling UpdateTimer() with everything else unchanged":
\* enabling and disabling leaves the time of day as it was, unless the clocks
\* changed since Kodi read it ...
TodKept == rule # NoRule /\ ~excused => rule.tod = want.tod

\* ... and the first day.
FirstKept == rule # NoRule /\ ~excused => rule.first = want.first

\* The renewal leaves a rule alone while one of its occurrences is being recorded,
\* although it decides on what it read before (and unless an edit that overlaps a
\* change of the clocks moves the rule meanwhile).
RenewSparesOccurrence ==
    [][~excused /\ pass.stage = "both" /\ rule'.id = rule.id /\ rule'.last # rule.last
         => ~InProgress(rule, now)]_vars

\* "Create once, forget about it": a rule that stays enabled does not run out.
NeverLapses == rule.on /\ ~late => now <= rule.last + Day

=============================================================================
