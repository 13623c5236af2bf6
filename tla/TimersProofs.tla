---------------------------- MODULE TimersProofs ----------------------------
(* Theorems about Timers, for any length of the day, the window and the      *)
(* renewal, any offsets, and any number of calls and faults.                *)
EXTENDS Timers, FiniteSetTheorems, TLAPS

-----------------------------------------------------------------------------
(* Times of day and midnights.                                             *)

LEMMA Constants ==
    /\ Minute \in Nat \ {0} /\ Day \in Nat \ {0} /\ Window \in Nat \ {0}
    /\ Margin \in Nat \ {0} /\ Period \in Nat \ {0} /\ Length \in Nat \ {0}
    /\ MaxNow \in Nat /\ MaxCalls \in Nat /\ MaxFaults \in Nat
    /\ Offset \subseteq (1 - Day)..(Day - 1)
    /\ Window >= 3 /\ Length <= Day
  BY TimeAssumption, RuleAssumption

LEMMA OffsetRange == \A o \in Offset \union {0} : o \in Int /\ -Day < o /\ o < Day
  BY Constants

LEMMA Division ==
    \A t \in Int : t \div Day \in Int /\ t % Day \in 0..(Day - 1)
                   /\ t = Day * (t \div Day) + (t % Day)
  BY Constants

LEMMA Remainder ==
    \A q \in Int, r \in 0..(Day - 1) : (Day * q + r) % Day = r
  BY Constants

\* Adding a day's multiple leaves the time of day alone.
LEMMA Whole == \A a \in Int, r \in 0..(Day - 1) : a % Day = 0 => (a + r) % Day = r
<1>1. SUFFICES ASSUME NEW a \in Int, NEW r \in 0..(Day - 1), a % Day = 0
               PROVE  (a + r) % Day = r
  OBVIOUS
<1>2. a = Day * (a \div Day) /\ a \div Day \in Int
  BY <1>1, Division, Constants
<1>3. QED
  BY <1>2, Remainder

\* An offset is added to the time of day as to the time.
LEMMA Shifted == \A a, b \in Int : ((a % Day) + b) % Day = (a + b) % Day
<1>1. SUFFICES ASSUME NEW a \in Int, NEW b \in Int
               PROVE  ((a % Day) + b) % Day = (a + b) % Day
  OBVIOUS
<1>2. PICK q \in Int, r \in 0..(Day - 1) : a = Day * q + r /\ a % Day = r
  BY Division
<1>3. PICK p \in Int, s \in 0..(Day - 1) : r + b = Day * p + s /\ (r + b) % Day = s
  <2>1. r + b \in Int
    BY <1>2, Constants
  <2>2. QED
    BY <2>1, Division
<1>4. a + b = Day * (q + p) + s
  BY <1>2, <1>3, Constants
<1>5. (a + b) % Day = s
  BY <1>4, Remainder
<1>6. QED
  BY <1>2, <1>3, <1>5

LEMMA MidnightFacts ==
    \A t \in Int : /\ Midnight(t) \in Int /\ Midnight(t) % Day = 0
                   /\ Midnight(t) <= t /\ t < Midnight(t) + Day
<1>1. SUFFICES ASSUME NEW t \in Int
               PROVE  /\ Midnight(t) \in Int /\ Midnight(t) % Day = 0
                      /\ Midnight(t) <= t /\ t < Midnight(t) + Day
  OBVIOUS
<1>2. Midnight(t) = Day * (t \div Day) + 0
  BY Division, Constants DEF Midnight
<1>3. Midnight(t) % Day = 0
  <2>1. t \div Day \in Int /\ 0 \in 0..(Day - 1)
    BY Division, Constants
  <2>2. QED
    BY <1>2, <2>1, Remainder
<1>4. QED
  BY <1>3, Division, Constants DEF Midnight

\* Two midnights less than a day apart are one.
LEMMA Apart == \A a, b \in Int : a % Day = 0 /\ b % Day = 0 /\ a < b => a + Day <= b
<1>1. SUFFICES ASSUME NEW a \in Int, NEW b \in Int, a % Day = 0, b % Day = 0, a < b
               PROVE  a + Day <= b
  OBVIOUS
<1>2. PICK p \in Int, q \in Int : a = Day * p /\ b = Day * q
  <2>1. a \div Day \in Int /\ a = Day * (a \div Day)
    BY <1>1, Division, Constants
  <2>2. b \div Day \in Int /\ b = Day * (b \div Day)
    BY <1>1, Division, Constants
  <2>3. QED
    BY <2>1, <2>2
<1>3. p < q
  BY <1>1, <1>2, Constants
<1>4. p + 1 <= q
  BY <1>3
<1>5. Day * (p + 1) <= Day * q
  BY <1>4, Constants
<1>6. QED
  BY <1>2, <1>5, Constants

LEMMA MidnightMonotone == \A s, t \in Int : s % Day = 0 /\ s <= t => s <= Midnight(t)
<1>1. SUFFICES ASSUME NEW s \in Int, NEW t \in Int, s % Day = 0, s <= t, Midnight(t) < s
               PROVE  FALSE
  BY MidnightFacts
<1>2. Midnight(t) + Day <= s
  BY <1>1, Apart, MidnightFacts
<1>3. QED
  BY <1>1, <1>2, MidnightFacts, Constants

LEMMA DateRange == \A t \in Int : Date(t) \in Int /\ Date(t) % Day = 0
  BY MidnightFacts DEF Date

LEMMA TimeOfDayRange == \A t \in Int : TimeOfDay(t) \in 0..(Day - 1)
  BY Division DEF TimeOfDay

\* A started minute counts as one.
LEMMA Minutes ==
    \A d \in Int : d > 0 => /\ ExtraMinutes(d) \in Nat /\ ExtraMinutes(d) > 0
                            /\ d <= ExtraMinutes(d) * Minute
                            /\ ExtraMinutes(d) * Minute < d + Minute
<1>1. SUFFICES ASSUME NEW d \in Int, d > 0
               PROVE  /\ ExtraMinutes(d) \in Nat /\ ExtraMinutes(d) > 0
                      /\ d <= ExtraMinutes(d) * Minute
                      /\ ExtraMinutes(d) * Minute < d + Minute
  OBVIOUS
<1>2. PICK q \in Int : q = (d + Minute - 1) \div Minute
  BY Constants
<1>3. q * Minute <= d + Minute - 1 /\ d + Minute - 1 < q * Minute + Minute
  BY <1>2, Constants
<1>4. q > 0
  <2>1. SUFFICES ASSUME q <= 0 PROVE FALSE
    OBVIOUS
  <2>2. q * Minute <= 0
    BY <2>1, Constants
  <2>3. QED
    BY <1>1, <1>3, <2>2, Constants
<1>5. q * Minute \in Int
  BY Constants
<1>6. QED
  BY <1>2, <1>3, <1>4, <1>5, Constants DEF ExtraMinutes

-----------------------------------------------------------------------------
(* What the helpers return.                                                *)

Calls == [op : {"add", "edit", "delete"}, timer : Shown, extra : Nat]

Recordings == [status : Status, start : Int, end : Int]

Passes == [stage : {"idle", "rules", "both"}, rule : Rules, at : Nat, busy : BOOLEAN]

LEMMA TimerMade ==
    ASSUME NEW n \in Nat, NEW s \in BOOLEAN, NEW r \in BOOLEAN,
           NEW state \in {"recording", "scheduled", "disabled"},
           NEW first \in Int, NEW start \in Int, NEW end \in Int
    PROVE  /\ Timer(Index(n, s, r), state, first, start, end) \in Shown
           /\ Timer(Index(n, s, r), state, first, start, end) # NoTimer
  BY DEF Timer, Index, Shown, NoTimer

\* The timer belongs to the table of its kind.
Fits(t, k) ==
    /\ Route(t.index) = k
    /\ k = "once" => t.state \in {"recording", "scheduled"}
    /\ k = "recurring" => t.index.n >= 1

LEMMA OnceFits ==
    ASSUME NEW n, NEW state \in {"recording", "scheduled"}, NEW first, NEW start, NEW end
    PROVE  Fits(Timer(Index(n, FALSE, FALSE), state, first, start, end), "once")
  BY DEF Timer, Index, Fits, Route

LEMMA SeriesFits ==
    ASSUME NEW n, NEW b, NEW state, NEW first, NEW start, NEW end
    PROVE  Fits(Timer(Index(n, TRUE, b), state, first, start, end), "series")
  BY DEF Timer, Index, Fits, Route

LEMMA RecurringFits ==
    ASSUME NEW n \in Nat \ {0}, NEW state, NEW first, NEW start, NEW end
    PROVE  Fits(Timer(Index(n, FALSE, TRUE), state, first, start, end), "recurring")
  BY DEF Timer, Index, Fits, Route

\* A recording is aged in its status only, and towards its end.
LEMMA AgedType ==
    ASSUME NEW r \in Recordings, NEW t \in Int
    PROVE  /\ Aged(r, t) \in Recordings
           /\ Aged(r, t).start = r.start /\ Aged(r, t).end = r.end
           /\ \/ Aged(r, t).status = r.status
              \/ r.status = "waiting" /\ Aged(r, t).status = "recording"
              \/ r.status = "recording" /\ Aged(r, t).status = "completed"
<1>1. CASE r.status = "waiting" /\ r.start <= t
  BY <1>1 DEF Aged, Recording, Recordings, Status
<1>2. CASE ~(r.status = "waiting" /\ r.start <= t) /\ r.status = "recording" /\ r.end <= t
  BY <1>2 DEF Aged, Recording, Recordings, Status
<1>3. CASE ~(r.status = "waiting" /\ r.start <= t) /\ ~(r.status = "recording" /\ r.end <= t)
  <2>1. Aged(r, t) = r
    BY <1>3 DEF Aged
  <2>2. QED
    BY <2>1
<1>4. QED
  BY <1>1, <1>2, <1>3

\* A recording that is to come may begin, or end, at once.
LEMMA WaitingAged ==
    ASSUME NEW start \in Int, NEW end \in Int, NEW t \in Int
    PROVE  /\ Aged(Recording("waiting", start, end), t) \in Recordings
           /\ Aged(Recording("waiting", start, end), t).status \in {"waiting", "recording"}
<1>1. DEFINE r == Recording("waiting", start, end)
<1>2. r \in Recordings /\ r.status = "waiting"
  BY DEF Recording, Recordings, Status
<1>3. HIDE DEF r
<1>4. Aged(r, t) \in Recordings /\ Aged(r, t).status \in {"waiting", "recording"}
  BY <1>2, AgedType
<1>5. QED
  BY <1>4 DEF r

LEMMA NoRuleType == NoRule \in Rules /\ NoRule.first % Day = 0 /\ NoRule.last % Day = 0
<1>1. 0 \in 0..(Day - 1)
  BY Constants
<1>2. 0 % Day = 0
  BY <1>1, Whole, Constants
<1>3. QED
  BY <1>1, <1>2 DEF NoRule, Rule, Rules

LEMMA NoPassType == NoPass \in Passes
  BY NoRuleType DEF NoPass, Pass, Passes

LEMMA NoRecType == NoRec \in Recordings
  BY DEF NoRec, Recording, Recordings, Status

\* What Kodi is given is a timer of the kind there is, or none.
LEMMA GetTimersType ==
    ASSUME TypeOK
    PROVE  /\ GetTimers \in Shown \union {NoTimer}
           /\ (rule.id = 0 => rule = NoRule) /\ GetTimers # NoTimer => Fits(GetTimers, kind)
<1>1. CASE kind = "once"
  <2>1. GetTimers = RecordingTimer
    BY <1>1 DEF GetTimers
  <2>2. rec.start \in Int /\ rec.end \in Int
    BY DEF TypeOK
  <2>3. CASE rec.status = "recording"
    <3>1. RecordingTimer = Timer(Index(1, FALSE, FALSE), "recording", 0, rec.start, rec.end)
      BY <2>3 DEF RecordingTimer
    <3>2. RecordingTimer \in Shown
      BY <2>2, <3>1 DEF Timer, Index, Shown
    <3>3. Fits(RecordingTimer, "once")
      BY <3>1, OnceFits, Zenon
    <3>4. QED
      BY <1>1, <2>1, <3>2, <3>3
  <2>4. CASE rec.status = "waiting"
    <3>1. RecordingTimer = Timer(Index(1, FALSE, FALSE), "scheduled", 0, rec.start, rec.end)
      BY <2>4 DEF RecordingTimer
    <3>2. RecordingTimer \in Shown
      BY <2>2, <3>1 DEF Timer, Index, Shown
    <3>3. Fits(RecordingTimer, "once")
      BY <3>1, OnceFits, Zenon
    <3>4. QED
      BY <1>1, <2>1, <3>2, <3>3
  <2>5. CASE rec.status \notin {"recording", "waiting"}
    BY <2>1, <2>5 DEF RecordingTimer
  <2>6. QED
    BY <2>3, <2>4, <2>5
<1>2. CASE kind = "series"
  <2>1. GetTimers = SeriesTimer
    BY <1>2 DEF GetTimers
  <2>2. CASE series = {}
    BY <2>1, <2>2 DEF SeriesTimer
  <2>3. CASE series # {}
    <3>1. SeriesTimer = Timer(Index(1, TRUE, bit), "scheduled", 0, 0, 0) /\ bit \in BOOLEAN
      BY <2>3 DEF SeriesTimer, TypeOK
    <3>2. SeriesTimer \in Shown
      BY <3>1 DEF Timer, Index, Shown
    <3>3. Fits(SeriesTimer, "series")
      BY <3>1, SeriesFits, Zenon
    <3>4. QED
      BY <1>2, <2>1, <3>2, <3>3
  <2>4. QED
    BY <2>2, <2>3
<1>3. CASE kind = "recurring"
  <2>1. CASE rule = NoRule
    BY <1>3, <2>1 DEF GetTimers
  <2>2. CASE rule # NoRule
    <3>1. GetTimers = RuleTimer(rule)
      BY <1>3, <2>2 DEF GetTimers
    <3>2. /\ rule.id \in Nat
          /\ rule.first \in Int /\ rule.tod \in Int /\ offset \in Int /\ Length \in Int
      BY <2>2, OffsetRange, Constants DEF TypeOK, Rules
    <3>3. RuleTimer(rule) =
              Timer(Index(rule.id, FALSE, TRUE), IF rule.on THEN "scheduled" ELSE "disabled",
                    rule.first, rule.first + rule.tod - offset,
                    rule.first + rule.tod - offset + Length)
      BY DEF RuleTimer
    <3>4. rule.first + rule.tod - offset \in Int /\ rule.first + rule.tod - offset + Length \in Int
      BY <3>2
    <3>5. RuleTimer(rule) \in Shown
      BY <3>2, <3>3, <3>4, TimerMade
    <3>6. (rule.id = 0 => rule = NoRule) => Fits(RuleTimer(rule), "recurring")
      <4>1. SUFFICES ASSUME rule.id \in Nat \ {0} PROVE Fits(RuleTimer(rule), "recurring")
        BY <2>2, <3>2
      <4>2. QED
        BY <3>3, <4>1, RecurringFits, Zenon
    <3>7. QED
      BY <1>3, <3>1, <3>5, <3>6
  <2>3. QED
    BY <2>1, <2>2
<1>4. QED
  BY <1>1, <1>2, <1>3 DEF TypeOK

-----------------------------------------------------------------------------
(* Types.                                                                  *)

LEMMA InitType == Init => TypeOK
<1>1. SUFFICES ASSUME Init PROVE TypeOK
  OBVIOUS
<1>2. rule \in Rules /\ rule.first % Day = 0 /\ rule.last % Day = 0 /\ pass \in Passes
  BY <1>1, NoRuleType, NoPassType DEF Init
<1>3. now \in Nat
  BY <1>1, Constants DEF Init, Start
<1>4. rec \in Recordings
  BY <1>1, NoRecType DEF Init
<1>5. want \in [tod : 0..(Day - 1), first : Int] /\ calls \in 0..MaxCalls /\ faults \in 0..MaxFaults
  BY <1>1, Constants DEF Init
<1>6. bit \in BOOLEAN /\ excused \in BOOLEAN /\ late \in BOOLEAN
  BY <1>1 DEF Init
<1>7. offset \in Offset \union {0} /\ basis \in Offset \union {0}
  BY <1>1 DEF Init
<1>8. QED
  BY <1>1, <1>2, <1>3, <1>4, <1>5, <1>6, <1>7 DEF Init, TypeOK, Recordings, Passes

\* A call by Kodi: the call and its number, nothing else.
LEMMA BeginType ==
    ASSUME TypeOK, NEW op \in {"add", "edit", "delete"}, NEW timer \in Shown, Begin(op, timer)
    PROVE  TypeOK'
<1>1. call' \in Calls
  BY DEF Begin, Call, Calls
<1>2. calls' \in 0..MaxCalls /\ excused' \in BOOLEAN
  BY Constants DEF Begin, TypeOK
<1>3. QED
  BY <1>1, <1>2 DEF Begin, TypeOK, server, renewal, Calls

LEMMA NewType ==
    ASSUME NEW start \in Int, NEW end \in Int PROVE New(start, end) \in Shown
  BY DEF New, Timer, Index, Shown

LEMMA KodiType == TypeOK /\ Kodi => TypeOK'
<1>1. SUFFICES ASSUME TypeOK, Kodi PROVE TypeOK'
  OBVIOUS
<1>2. CASE Refresh
  <2>1. view' \in Shown \union {NoTimer} /\ basis' \in Offset \union {0}
    BY <1>1, <1>2, GetTimersType DEF Refresh, TypeOK
  <2>2. QED
    BY <1>1, <1>2, <2>1 DEF Refresh, TypeOK, server, renewal
<1>3. CASE KodiAdds
  <2>1. kind = "once" => \E start, end \in Int : Begin("add", New(start, end))
    <3>1. \A length \in 1..2 : now + 1 \in Int /\ now + 1 + length \in Int
      BY <1>1 DEF TypeOK
    <3>2. QED
      BY <1>3, <3>1 DEF KodiAdds
  <2>2. kind = "series" => Begin("add", New(0, 0))
    BY <1>3 DEF KodiAdds
  <2>3. kind = "recurring" => \E start, end \in Int : Begin("add", New(start, end))
    <3>1. \A start \in now..(now + Day - 1) : start \in Int /\ start + Length \in Int
      BY <1>1, Constants DEF TypeOK
    <3>2. QED
      BY <1>3, <3>1 DEF KodiAdds
  <2>4. PICK start \in Int, end \in Int : Begin("add", New(start, end))
    BY <1>1, <2>1, <2>2, <2>3 DEF TypeOK
  <2>5. QED
    BY <1>1, <2>4, NewType, BeginType
<1>4. CASE KodiEdits
  <2>1. view \in Shown
    BY <1>1, <1>4 DEF KodiEdits, TypeOK
  <2>2. PICK timer \in Shown : Begin("edit", timer)
    <3>1. CASE kind = "once"
      <4>1. PICK end \in (view.start + 1)..(view.end + Minute + 1) :
                Begin("edit", Timer(view.index, view.state, view.first, view.start, end))
        BY <1>4, <3>1 DEF KodiEdits
      <4>2. Timer(view.index, view.state, view.first, view.start, end) \in Shown
        BY <2>1, Constants DEF Timer, Shown
      <4>3. QED
        BY <4>1, <4>2
    <3>2. CASE kind = "series"
      BY <1>4, <2>1, <3>2 DEF KodiEdits
    <3>3. CASE kind = "recurring"
      <4>1. DEFINE state == IF view.state = "disabled" THEN "scheduled" ELSE "disabled"
      <4>2. Begin("edit", Timer(view.index, state, view.first, view.start, view.end))
        BY <1>4, <3>3 DEF KodiEdits
      <4>3. Timer(view.index, state, view.first, view.start, view.end) \in Shown
        BY <2>1 DEF Timer, Shown
      <4>4. QED
        BY <4>2, <4>3
    <3>4. QED
      BY <1>1, <3>1, <3>2, <3>3 DEF TypeOK
  <2>3. QED
    BY <1>1, <2>2, BeginType
<1>5. CASE KodiDeletes
  BY <1>1, <1>5, BeginType DEF KodiDeletes, TypeOK
<1>6. QED
  BY <1>1, <1>2, <1>3, <1>4, <1>5 DEF Kodi

LEMMA ReturnType == TypeOK /\ Return => call' \in Calls \union {NoCall}
  BY DEF Return

LEMMA CallType ==
    ASSUME TypeOK, NEW op, NEW what, Called(op, what)
    PROVE  call \in Calls /\ call.timer \in Shown /\ call.extra \in Nat
           /\ call.timer.start \in Int /\ call.timer.end \in Int /\ call.timer.first \in Int
           /\ call.timer.index.n \in Nat
  BY DEF Called, TypeOK, Calls, Shown

LEMMA RecordingMade ==
    ASSUME NEW status \in Status, NEW start \in Int, NEW end \in Int
    PROVE  /\ Recording(status, start, end) \in Recordings
           /\ Recording(status, start, end).status = status
           /\ Recording(status, start, end).start = start
           /\ Recording(status, start, end).end = end
  BY DEF Recording, Recordings

\* A step on one recording leaves the tables of the other kinds alone.
LEMMA OnlyRecType ==
    ASSUME TypeOK, OnlyRec, rec' \in Recordings, call' \in Calls \union {NoCall},
           asked' \in Int, between' \in Nat,
           blame' \in {"none", "recording", "scheduled", "disabled"},
           UNCHANGED <<kind, now, view, pass, seen>>,
           calls' \in 0..MaxCalls, faults' \in 0..MaxFaults
    PROVE  TypeOK'
  BY DEF OnlyRec, TypeOK, Recordings, Calls

LEMMA SingleType == TypeOK /\ Single => TypeOK'
<1>1. SUFFICES ASSUME TypeOK, Single PROVE TypeOK'
  OBVIOUS
<1>2. rec \in Recordings /\ rec.start \in Int /\ rec.end \in Int /\ rec.status \in Status
      /\ now \in Int /\ asked \in Int /\ between \in Nat /\ Minute \in Nat
  BY <1>1, Constants DEF TypeOK, Recordings
<1>3. CASE CreateOneTimeRecording
  <2>1. call.timer.start \in Int /\ call.timer.end \in Int
    BY <1>1, <1>3, CallType DEF CreateOneTimeRecording
  <2>2. rec' \in Recordings
    BY <1>2, <1>3, <2>1, WaitingAged DEF CreateOneTimeRecording
  <2>3. QED
    BY <1>1, <1>3, <2>2, OnlyRecType DEF CreateOneTimeRecording, Return, renewal, TypeOK
<1>4. CASE FindRecordingById
  <2>1. call \in Calls /\ call.timer.end \in Int
    BY <1>1, <1>4, CallType DEF FindRecordingById
  <2>2. call' \in Calls \union {NoCall}
    <3>1. DEFINE delta == call.timer.end - rec.end
    <3>2. CASE rec.status \in {"none", "wiped"} \/ delta <= 0
      BY <1>4, <3>2 DEF FindRecordingById
    <3>3. CASE ~(rec.status \in {"none", "wiped"} \/ delta <= 0)
      <4>1. delta \in Int /\ delta > 0
        BY <1>2, <2>1, <3>3
      <4>2. ExtraMinutes(delta) \in Nat
        BY <4>1, Minutes
      <4>3. call' = Call(call.op, call.timer, ExtraMinutes(delta))
        BY <1>4, <3>3 DEF FindRecordingById
      <4>4. QED
        BY <2>1, <4>2, <4>3 DEF Call, Calls
    <3>4. QED
      BY <3>2, <3>3
  <2>3. QED
    BY <1>1, <1>2, <1>4, <2>2 DEF FindRecordingById, TypeOK, Calls, server, renewal
<1>5. CASE ExtendRecording
  <2>1. call.extra \in Nat /\ call.timer.end \in Int
    BY <1>1, <1>5, CallType DEF ExtendRecording
  <2>2. rec.end + call.extra * Minute \in Int
    BY <1>2, <2>1
  <2>3. rec' \in Recordings /\ asked' \in Int
    BY <1>2, <1>5, <2>1, <2>2, RecordingMade DEF ExtendRecording
  <2>4. QED
    BY <1>1, <1>5, <2>3, OnlyRecType DEF ExtendRecording, Return, renewal, TypeOK
<1>6. CASE UpdateOneTimeRecording
  <2>1. /\ call.timer.start \in Int /\ call.timer.end \in Int
        /\ call.timer.state \in {"recording", "scheduled", "disabled"}
    BY <1>1, <1>6, CallType DEF UpdateOneTimeRecording, Shown
  <2>2. Recording("revoked", rec.start, rec.end) \in Recordings
    BY <1>2, RecordingMade DEF Status, Lost
  <2>3. Aged(Recording("waiting", call.timer.start, call.timer.end), now) \in Recordings
    BY <1>2, <2>1, WaitingAged
  <2>4. rec' \in Recordings /\ blame' \in {"none", "recording", "scheduled", "disabled"}
    BY <1>1, <1>2, <1>6, <2>1, <2>2, <2>3 DEF UpdateOneTimeRecording, TypeOK
  <2>5. QED
    BY <1>1, <1>6, <2>4, OnlyRecType DEF UpdateOneTimeRecording, Return, renewal, TypeOK
<1>7. CASE StopRecording
  <2>1. Recording("stopped", rec.start, rec.end) \in Recordings
    BY <1>2, RecordingMade DEF Status
  <2>2. rec' \in Recordings
    BY <1>2, <1>7, <2>1 DEF StopRecording
  <2>3. QED
    BY <1>1, <1>7, <2>2, OnlyRecType DEF StopRecording, Return, renewal, TypeOK
<1>8. CASE DeleteRecording
  <2>1. Recording("wiped", rec.start, rec.end) \in Recordings /\ NoRec \in Recordings
    BY <1>2, RecordingMade, NoRecType DEF Status, Lost
  <2>2. call.timer.state \in {"recording", "scheduled", "disabled"}
    BY <1>1, <1>8, CallType DEF DeleteRecording, Shown
  <2>3. rec' \in Recordings /\ blame' \in {"none", "recording", "scheduled", "disabled"}
    BY <1>1, <1>2, <1>8, <2>1, <2>2 DEF DeleteRecording, TypeOK
  <2>4. QED
    BY <1>1, <1>8, <2>3, OnlyRecType DEF DeleteRecording, Return, renewal, TypeOK
<1>9. QED
  BY <1>1, <1>3, <1>4, <1>5, <1>6, <1>7, <1>8 DEF Single

LEMMA ResolveType ==
    ASSUME TypeOK, NEW tvg \in {guide, "own"}, Resolve(tvg)
    PROVE  tvg \in {"own", "epg", "other"} /\ faults' \in 0..MaxFaults /\ excused' \in BOOLEAN
<1>1. tvg \in {"own", "epg", "other"}
  BY DEF TypeOK
<1>2. faults' \in 0..MaxFaults
  BY Constants DEF Resolve, TypeOK
<1>3. excused' \in BOOLEAN
  BY DEF Resolve, TypeOK
<1>4. QED
  BY <1>1, <1>2, <1>3

LEMMA SeriesType == TypeOK /\ Series => TypeOK'
<1>1. SUFFICES ASSUME TypeOK, Series PROVE TypeOK'
  OBVIOUS
<1>2. CASE CreateSeriesRule
  <2>1. PICK tvg \in {guide, "own"} :
            /\ Resolve(tvg)
            /\ series' = series \union {IF call.op = "add" THEN tvg ELSE Identity(tvg)}
    BY <1>2 DEF CreateSeriesRule
  <2>2. series' \subseteq {"own", "epg", "other"} /\ faults' \in 0..MaxFaults
        /\ excused' \in BOOLEAN
    BY <1>1, <2>1, ResolveType DEF TypeOK, Identity
  <2>3. QED
    BY <1>1, <1>2, <2>2 DEF CreateSeriesRule, Return, OnlySeries, renewal, TypeOK
<1>3. CASE DeleteSeriesRule
  <2>1. PICK tvg \in {guide, "own"} : Resolve(tvg) /\ series' = series \ {Identity(tvg)}
    BY <1>3 DEF DeleteSeriesRule
  <2>2. series' \subseteq {"own", "epg", "other"} /\ faults' \in 0..MaxFaults
        /\ excused' \in BOOLEAN
    BY <1>1, <2>1, ResolveType DEF TypeOK
  <2>3. QED
    BY <1>1, <1>3, <2>2 DEF DeleteSeriesRule, Return, OnlySeries, renewal, TypeOK
<1>4. QED
  BY <1>1, <1>2, <1>3 DEF Series

\* The rule's fields, computed from a timer and the clock.
LEMMA FieldsType ==
    ASSUME TypeOK, NEW timer \in Shown
    PROVE  /\ TimeOfDay(Tod(timer)) \in 0..(Day - 1)
           /\ FirstDay(timer) \in Int /\ FirstDay(timer) % Day = 0
           /\ Date(FirstDay(timer)) = FirstDay(timer)
<1>1. offset \in Int /\ now \in Int /\ timer.start \in Int /\ timer.first \in Int
  BY OffsetRange DEF TypeOK, Shown
<1>2. Tod(timer) \in Int
  BY <1>1, Division, Constants DEF Tod
<1>3. FirstDay(timer) \in Int /\ FirstDay(timer) % Day = 0
  BY <1>1, MidnightFacts DEF FirstDay
<1>4. Date(FirstDay(timer)) = FirstDay(timer)
  BY <1>3 DEF Date, Midnight
<1>5. QED
  BY <1>2, <1>3, <1>4, TimeOfDayRange

LEMMA RuleMade ==
    ASSUME NEW id \in Nat, NEW on \in BOOLEAN, NEW tod \in 0..(Day - 1),
           NEW first \in Int, NEW last \in Int
    PROVE  Rule(id, on, tod, first, last) \in Rules
  BY DEF Rule, Rules

\* A step on the rule leaves the tables of the other kinds alone.
LEMMA OnlyRuleType ==
    ASSUME TypeOK, rule' \in Rules, rule'.first % Day = 0, rule'.last % Day = 0,
           pass' \in Passes, call' \in Calls \union {NoCall}, seen' \in Nat,
           excused' \in BOOLEAN, late' \in BOOLEAN,
           want' \in [tod : 0..(Day - 1), first : Int], faults' \in 0..MaxFaults,
           UNCHANGED <<kind, now, view, rec, guide, series, bit, offset, calls, asked,
                       between, blame, basis>>
    PROVE  TypeOK'
  BY DEF TypeOK, Passes, Calls

LEMMA RecurringType == TypeOK /\ Recurring => TypeOK'
<1>1. SUFFICES ASSUME TypeOK, Recurring PROVE TypeOK'
  OBVIOUS
<1>2. /\ pass \in Passes /\ seen \in Nat /\ faults \in 0..MaxFaults /\ now \in Nat
      /\ want \in [tod : 0..(Day - 1), first : Int] /\ excused \in BOOLEAN /\ late \in BOOLEAN
      /\ rule \in Rules /\ rule.first % Day = 0 /\ rule.last % Day = 0
      /\ call \in Calls \union {NoCall} /\ calls \in Nat
      /\ pass.rule \in Rules /\ pass.at \in Nat
  BY <1>1, Constants DEF TypeOK, Passes, Calls
<1>3. CASE CreateRecurringRule
  <2>1. call.timer \in Shown
    BY <1>1, <1>3, CallType DEF CreateRecurringRule
  <2>2. DEFINE first == FirstDay(call.timer)
               tod   == TimeOfDay(Tod(call.timer))
  <2>3. /\ tod \in 0..(Day - 1) /\ first \in Int /\ first % Day = 0 /\ Date(first) = first
        /\ Date(first + Window * Day) \in Int /\ Date(first + Window * Day) % Day = 0
    <3>1. tod \in 0..(Day - 1) /\ first \in Int /\ first % Day = 0 /\ Date(first) = first
      BY <1>1, <2>1, FieldsType
    <3>2. first + Window * Day \in Int
      BY <3>1, Constants
    <3>3. QED
      BY <3>1, <3>2, DateRange
  <2>4. rule' = Rule(calls, TRUE, tod, Date(first), Date(first + Window * Day))
    BY <1>3 DEF CreateRecurringRule
  <2>5. rule' \in Rules
    BY <1>2, <2>3, <2>4, RuleMade
  <2>6. rule'.tod = tod /\ rule'.first = first /\ rule'.last = Date(first + Window * Day)
    BY <2>3, <2>4 DEF Rule
  <2>7. want' \in [tod : 0..(Day - 1), first : Int]
    BY <1>3, <2>3, <2>6 DEF CreateRecurringRule
  <2>8. late' \in BOOLEAN
    BY <1>3 DEF CreateRecurringRule, Short
  <2>9. QED
    BY <1>1, <1>2, <1>3, <2>3, <2>5, <2>6, <2>7, <2>8, OnlyRuleType
       DEF CreateRecurringRule, Return, OnlyRule, renewal
<1>4. CASE UpdateRecurringRule
  <2>1. call.timer \in Shown
    BY <1>1, <1>4, CallType DEF UpdateRecurringRule
  <2>2. /\ rule' \in Rules /\ rule'.first % Day = 0 /\ rule'.last % Day = 0
        /\ late' \in BOOLEAN
    <3>1. CASE rule.id = call.timer.index.n
      <4>1. DEFINE first == FirstDay(call.timer)
                   tod   == TimeOfDay(Tod(call.timer))
                   on    == call.timer.state # "disabled"
      <4>2. tod \in 0..(Day - 1) /\ first \in Int /\ first % Day = 0 /\ Date(first) = first
        BY <1>1, <2>1, FieldsType
      <4>3. rule' = Rule(rule.id, on, tod, Date(first), rule.last)
        BY <1>4, <3>1 DEF UpdateRecurringRule
      <4>4. rule.id \in Nat /\ rule.last \in Int /\ on \in BOOLEAN
        BY <1>2 DEF Rules
      <4>5. rule' \in Rules
        BY <4>2, <4>3, <4>4, RuleMade
      <4>6. rule'.first = first /\ rule'.last = rule.last
        BY <4>2, <4>3 DEF Rule
      <4>7. late' \in BOOLEAN
        BY <1>4, <3>1 DEF UpdateRecurringRule
      <4>8. QED
        BY <1>2, <4>2, <4>5, <4>6, <4>7
    <3>2. CASE rule.id # call.timer.index.n
      BY <1>2, <1>4, <3>2 DEF UpdateRecurringRule
    <3>3. QED
      BY <3>1, <3>2
  <2>3. QED
    BY <1>1, <1>2, <1>4, <2>2, OnlyRuleType
       DEF UpdateRecurringRule, Return, OnlyRule, renewal
<1>5. CASE DeleteRecurringRule
  <2>1. rule' \in Rules /\ rule'.first % Day = 0 /\ rule'.last % Day = 0
    BY <1>2, <1>5, NoRuleType DEF DeleteRecurringRule
  <2>2. QED
    BY <1>1, <1>2, <1>5, <2>1, OnlyRuleType
       DEF DeleteRecurringRule, Return, OnlyRule, renewal
<1>6. CASE GetRecurringRules
  <2>1. pass' \in Passes
    BY <1>2, <1>6 DEF GetRecurringRules, Pass, Passes
  <2>2. QED
    BY <1>1, <1>2, <1>6, <2>1, OnlyRuleType DEF GetRecurringRules, OnlyPass
<1>7. CASE GetRecordings
  <2>1. PICK busy \in BOOLEAN : pass' = Pass("both", pass.rule, now, busy)
    <3>1. pass' = Pass("both", pass.rule, now, rule.id = pass.rule.id /\ Busy(now))
          \/ pass' = Pass("both", pass.rule, now, TRUE)
      BY <1>7 DEF GetRecordings
    <3>2. (rule.id = pass.rule.id /\ Busy(now)) \in BOOLEAN
      OBVIOUS
    <3>3. QED
      BY <3>1, <3>2
  <2>2. pass' \in Passes
    BY <1>2, <2>1 DEF Pass, Passes
  <2>3. faults' \in 0..MaxFaults
    <3>1. faults' = faults \/ (faults < MaxFaults /\ faults' = faults + 1)
      BY <1>7, Zenon DEF GetRecordings
    <3>2. QED
      BY <1>2, <3>1, Constants
  <2>4. late' \in BOOLEAN
    BY <1>2, <1>7 DEF GetRecordings
  <2>5. QED
    BY <1>1, <1>2, <1>7, <2>2, <2>3, <2>4, OnlyRuleType DEF GetRecordings, OnlyPass
<1>8. CASE ExtendRecurringRuleEndDate
  <2>1. DEFINE last == Date(pass.at + Window * Day)
  <2>2. last \in Int /\ last % Day = 0
    <3>1. pass.at + Window * Day \in Int
      BY <1>2, Constants
    <3>2. QED
      BY <3>1, DateRange
  <2>3. Rule(rule.id, rule.on, rule.tod, rule.first, last) \in Rules
    BY <1>2, <2>2 DEF Rule, Rules
  <2>4. /\ rule' \in Rules /\ rule'.first % Day = 0 /\ rule'.last % Day = 0
        /\ late' \in BOOLEAN
    <3>1. CASE pass.rule.on /\ RunsOut /\ ~pass.busy /\ rule.id = pass.rule.id
      <4>1. rule' = Rule(rule.id, rule.on, rule.tod, rule.first, last) /\ late' = FALSE
        BY <1>8, <3>1 DEF ExtendRecurringRuleEndDate
      <4>2. rule'.first = rule.first /\ rule'.last = last
        BY <4>1 DEF Rule
      <4>3. QED
        BY <1>2, <2>2, <2>3, <4>1, <4>2
    <3>2. CASE ~(pass.rule.on /\ RunsOut /\ ~pass.busy /\ rule.id = pass.rule.id)
      <4>1. UNCHANGED <<rule, late>>
        BY <1>8, <3>2 DEF ExtendRecurringRuleEndDate
      <4>2. QED
        BY <1>2, <4>1
    <3>3. QED
      BY <3>1, <3>2
  <2>5. pass' \in Passes
    BY <1>8, NoPassType DEF ExtendRecurringRuleEndDate
  <2>6. QED
    BY <1>1, <1>2, <1>8, <2>4, <2>5, OnlyRuleType DEF ExtendRecurringRuleEndDate, OnlyPass
<1>9. QED
  BY <1>1, <1>3, <1>4, <1>5, <1>6, <1>7, <1>8 DEF Recurring, Renew

Others == Tick \/ ExtendedElsewhere \/ GuideChanges \/ ClocksChange

LEMMA OthersType == TypeOK /\ Others => TypeOK'
<1>1. SUFFICES ASSUME TypeOK, Others PROVE TypeOK'
  OBVIOUS
<1>2. rec \in Recordings /\ rec.start \in Int /\ rec.end \in Int /\ rec.status \in Status
      /\ now \in Nat /\ between \in Nat /\ Minute \in Nat
  BY <1>1, Constants DEF TypeOK, Recordings
<1>3. CASE Tick
  <2>1. Aged(rec, now + 1) \in Recordings /\ now + 1 \in Nat
    BY <1>2, AgedType
  <2>2. QED
    BY <1>1, <1>3, <2>1 DEF Tick, TypeOK, renewal, history, Recordings
<1>4. CASE ExtendedElsewhere
  <2>1. Recording(rec.status, rec.start, rec.end + Minute) \in Recordings
    BY <1>2, RecordingMade
  <2>2. between' \in Nat /\ faults' \in 0..MaxFaults
    BY <1>1, <1>2, <1>4, Constants DEF ExtendedElsewhere, TypeOK
  <2>3. QED
    BY <1>1, <1>4, <2>1, <2>2, OnlyRecType DEF ExtendedElsewhere, TypeOK, renewal, Calls
<1>5. CASE GuideChanges
  <2>1. faults' \in 0..MaxFaults
    BY <1>1, <1>5, Constants DEF GuideChanges, TypeOK
  <2>2. excused' \in BOOLEAN
    BY <1>1, <1>5 DEF GuideChanges, TypeOK
  <2>3. QED
    BY <1>1, <1>5, <2>1, <2>2 DEF GuideChanges, TypeOK, renewal
<1>6. CASE ClocksChange
  <2>1. faults' \in 0..MaxFaults
    BY <1>1, <1>6, Constants DEF ClocksChange, TypeOK
  <2>2. excused' \in BOOLEAN
    BY <1>1, <1>6 DEF ClocksChange, TypeOK
  <2>3. QED
    BY <1>1, <1>6, <2>1, <2>2 DEF ClocksChange, TypeOK, renewal
<1>7. QED
  BY <1>1, <1>3, <1>4, <1>5, <1>6 DEF Others

LEMMA TypeStep == TypeOK /\ [Next]_vars => TypeOK'
<1>1. TypeOK /\ UNCHANGED vars => TypeOK'
  BY DEF TypeOK, vars, server, renewal, history
<1>2. QED
  BY <1>1, KodiType, SingleType, SeriesType, RecurringType, OthersType DEF Next, Others

\* The state of the timers and of the calls between keeps its type; a rule's time
\* of day stays within the day and its dates on midnights, under any offset.
THEOREM TypeCorrect == Spec => []TypeOK
  BY InitType, TypeStep, PTL DEF Spec

-----------------------------------------------------------------------------
(* Calls reach the table of their timer: Kodi only shows and hands back       *)
(* timers of the kind there is, and rules are told apart by their ids.       *)

Added  == call # NoCall /\ call.op = "add"
Edited == call # NoCall /\ call.op # "add"

KindInv ==
    /\ call # NoCall => calls > 0
    /\ pass.rule.id = 0 => ~pass.rule.on
    /\ rule.id = 0 => rule = NoRule
    /\ view # NoTimer => Fits(view, kind)
    /\ Edited => Fits(call.timer, kind)

LEMMA KindInit == Init => KindInv
  BY DEF Init, KindInv, Edited, NoPass, Pass, NoRule, Rule

LEMMA CalledKind ==
    ASSUME KindInv, NEW op, NEW what, Called(op, what)
    PROVE  what = kind /\ call # NoCall /\ call.op = op
  BY DEF KindInv, Called, Edited, Fits

\* Kodi hands back what it was shown: another end, another state of a rule.
LEMMA EditedFits ==
    ASSUME TypeOK, KindInv, KodiEdits
    PROVE  \E timer \in Shown :
              /\ Begin("edit", timer) /\ Fits(timer, kind)
              /\ timer.index = view.index /\ timer.first = view.first /\ timer.start = view.start
              /\ kind = "once" => timer.state = view.state
<1>1. view \in Shown /\ view # NoTimer /\ Fits(view, kind)
  BY DEF KodiEdits, TypeOK, KindInv
<1>2. CASE kind = "once"
  <2>1. PICK end \in (view.start + 1)..(view.end + Minute + 1) :
            Begin("edit", Timer(view.index, view.state, view.first, view.start, end))
    BY <1>2 DEF KodiEdits
  <2>2. Timer(view.index, view.state, view.first, view.start, end) \in Shown
    BY <1>1, Constants DEF Timer, Shown
  <2>3. Fits(Timer(view.index, view.state, view.first, view.start, end), kind)
    BY <1>1 DEF Timer, Fits
  <2>4. QED
    BY <2>1, <2>2, <2>3 DEF Timer
<1>3. CASE kind = "series"
  BY <1>1, <1>3 DEF KodiEdits
<1>4. CASE kind = "recurring"
  <2>1. DEFINE state == IF view.state = "disabled" THEN "scheduled" ELSE "disabled"
  <2>2. Begin("edit", Timer(view.index, state, view.first, view.start, view.end))
    BY <1>4 DEF KodiEdits
  <2>3. Timer(view.index, state, view.first, view.start, view.end) \in Shown
    BY <1>1 DEF Timer, Shown
  <2>4. Fits(Timer(view.index, state, view.first, view.start, view.end), kind)
    BY <1>1, <1>4 DEF Timer, Fits
  <2>5. QED
    BY <1>4, <2>2, <2>3, <2>4 DEF Timer
<1>5. QED
  BY <1>2, <1>3, <1>4 DEF TypeOK

\* ... and what it adds is new.
LEMMA AddedNew ==
    ASSUME TypeOK, KodiAdds
    PROVE  \E start, end \in Int :
              /\ Begin("add", New(start, end))
              /\ kind = "once" => rec = NoRec
              /\ GetTimers = NoTimer
<1>1. \A length \in 1..2 : now + 1 \in Int /\ now + 1 + length \in Int
  BY DEF TypeOK
<1>2. \A start \in now..(now + Day - 1) : start \in Int /\ start + Length \in Int
  BY Constants DEF TypeOK
<1>3. kind = "once" => rec = NoRec /\ \E start, end \in Int : Begin("add", New(start, end))
  BY <1>1 DEF KodiAdds
<1>4. kind = "series" => Begin("add", New(0, 0))
  BY DEF KodiAdds
<1>5. kind = "recurring" => \E start, end \in Int : Begin("add", New(start, end))
  BY <1>2 DEF KodiAdds
<1>6. GetTimers = NoTimer
  BY DEF KodiAdds
<1>7. QED
  BY <1>3, <1>4, <1>5, <1>6 DEF TypeOK

\* A call leaves what is on the server, and what Kodi shows, as it is.
LEMMA BeginEffect ==
    ASSUME NEW op \in {"add", "edit", "delete"}, NEW timer \in Shown, Begin(op, timer)
    PROVE  /\ call = NoCall /\ call' # NoCall
           /\ call'.op = op /\ call'.timer = timer /\ call'.extra = 0
           /\ calls' = calls + 1
           /\ excused' = (excused \/ (op = "edit" /\ basis # offset))
           /\ UNCHANGED <<kind, now, view, rec, guide, series, bit, offset, rule, pass, seen,
                          faults, asked, between, blame, basis, want, late>>
  BY DEF Begin, Call, NoCall, server, renewal

\* The same for any of Kodi's calls.
KodiCall(timer) ==
    \/ /\ Begin("edit", timer) /\ Fits(timer, kind)
       /\ timer.index = view.index /\ timer.first = view.first /\ timer.start = view.start
       /\ kind = "once" => timer.state = view.state
       /\ view # NoTimer
    \/ Begin("delete", timer) /\ timer = view /\ view # NoTimer /\ Fits(timer, kind)
    \/ /\ Begin("add", timer) /\ timer.first = 0 /\ timer.state = "scheduled"
       /\ kind = "once" => rec = NoRec
       /\ GetTimers = NoTimer

LEMMA KodiStep ==
    ASSUME TypeOK, KindInv, Kodi
    PROVE  Refresh \/ \E timer \in Shown : KodiCall(timer)
<1>1. CASE Refresh
  BY <1>1
<1>2. CASE KodiAdds
  <2>1. PICK start \in Int, end \in Int : 
              /\ Begin("add", New(start, end))
              /\ kind = "once" => rec = NoRec
              /\ GetTimers = NoTimer
    BY <1>2, AddedNew
  <2>2. New(start, end) \in Shown /\ New(start, end).first = 0 
        /\ New(start, end).state = "scheduled"
    BY NewType DEF New, Timer
  <2>3. QED
    BY <2>1, <2>2 DEF KodiCall
<1>3. CASE KodiEdits
  BY <1>3, EditedFits DEF KodiCall, KodiEdits
<1>4. CASE KodiDeletes
  BY <1>4 DEF KodiDeletes, KodiCall, TypeOK, KindInv
<1>5. QED
  BY <1>1, <1>2, <1>3, <1>4 DEF Kodi

LEMMA KindStep == TypeOK /\ KindInv /\ [Next]_vars => KindInv'
<1>1. SUFFICES ASSUME TypeOK, KindInv, [Next]_vars PROVE KindInv'
  OBVIOUS
<1>2. CASE Kodi
  <2>1. CASE Refresh
    BY <1>1, <2>1, GetTimersType DEF Refresh, KindInv, Edited, server, renewal
  <2>2. ASSUME NEW timer \in Shown, KodiCall(timer) PROVE KindInv'
    <3>1. UNCHANGED <<kind, view, rule, pass>> /\ calls' = calls + 1
      BY <2>2, BeginEffect DEF KodiCall
    <3>2. calls' > 0
      BY <1>1, <3>1 DEF TypeOK
    <3>3. call'.op # "add" => Fits(call'.timer, kind)
      BY <2>2, BeginEffect DEF KodiCall
    <3>4. QED
      BY <1>1, <3>1, <3>2, <3>3 DEF KindInv, Edited
  <2>3. QED
    BY <1>1, <1>2, <2>1, <2>2, KodiStep
<1>3. CASE Single
  <2>1. /\ UNCHANGED <<kind, view, rule, pass, calls>>
        /\ call' = NoCall \/ (call'.timer = call.timer /\ Edited)
    BY <1>3 DEF Single, CreateOneTimeRecording, FindRecordingById, ExtendRecording,
       UpdateOneTimeRecording, StopRecording, DeleteRecording, Return, OnlyRec, server, renewal,
       Call, Called, Edited
  <2>2. QED
    BY <1>1, <2>1 DEF KindInv, Edited
<1>4. CASE Series
  BY <1>1, <1>4 DEF Series, CreateSeriesRule, DeleteSeriesRule, Return, OnlySeries, renewal,
     KindInv, Edited
<1>5. CASE Recurring
  <2>1. UNCHANGED <<kind, view, calls>> /\ (call' = NoCall \/ call' = call)
    BY <1>5 DEF Recurring, Renew, CreateRecurringRule, UpdateRecurringRule, DeleteRecurringRule,
       GetRecurringRules, GetRecordings, ExtendRecurringRuleEndDate, Return, OnlyRule, OnlyPass
  <2>2. rule'.id = 0 => rule' = NoRule
    <3>1. CASE CreateRecurringRule
      <4>1. call # NoCall
        BY <3>1 DEF CreateRecurringRule, Called
      <4>2. rule'.id = calls
        BY <3>1 DEF CreateRecurringRule, Rule
      <4>3. QED
        BY <1>1, <4>1, <4>2 DEF KindInv
    <3>2. CASE UpdateRecurringRule
      <4>1. CASE rule.id = call.timer.index.n
        <5>1. Called("edit", "recurring")
          BY <3>2 DEF UpdateRecurringRule
        <5>2. rule.id >= 1
          BY <1>1, <4>1, <5>1, CalledKind, CallType DEF KindInv, Fits, Called, Edited
        <5>3. rule'.id = rule.id
          BY <3>2, <4>1 DEF UpdateRecurringRule, Rule
        <5>4. QED
          BY <5>2, <5>3
      <4>2. CASE rule.id # call.timer.index.n
        BY <1>1, <3>2, <4>2 DEF UpdateRecurringRule, KindInv
      <4>3. QED
        BY <4>1, <4>2
    <3>3. CASE DeleteRecurringRule
      BY <1>1, <3>3 DEF DeleteRecurringRule, KindInv
    <3>4. CASE GetRecurringRules \/ GetRecordings
      BY <1>1, <3>4 DEF GetRecurringRules, GetRecordings, KindInv
    <3>5. CASE ExtendRecurringRuleEndDate
      <4>1. CASE rule.id = 0
        BY <1>1, <3>5, <4>1 DEF ExtendRecurringRuleEndDate, KindInv
      <4>2. CASE rule.id # 0
        BY <1>1, <3>5, <4>2 DEF ExtendRecurringRuleEndDate, KindInv, Rule
      <4>3. QED
        BY <4>1, <4>2
    <3>6. QED
      BY <1>5, <3>1, <3>2, <3>3, <3>4, <3>5 DEF Recurring, Renew
  <2>3. pass'.rule.id = 0 => ~pass'.rule.on
    <3>1. CASE CreateRecurringRule \/ UpdateRecurringRule \/ DeleteRecurringRule
      BY <1>1, <3>1 DEF CreateRecurringRule, UpdateRecurringRule, DeleteRecurringRule, Return,
         renewal, KindInv
    <3>2. CASE GetRecurringRules
      BY <1>1, <3>2 DEF GetRecurringRules, KindInv, Pass, NoRule, Rule
    <3>3. CASE GetRecordings
      <4>1. pass'.rule = pass.rule
        BY <3>3 DEF GetRecordings, Pass
      <4>2. QED
        BY <1>1, <4>1 DEF KindInv
    <3>4. CASE ExtendRecurringRuleEndDate
      BY <3>4 DEF ExtendRecurringRuleEndDate, NoPass, Pass, NoRule, Rule
    <3>5. QED
      BY <1>5, <3>1, <3>2, <3>3, <3>4 DEF Recurring, Renew
  <2>4. QED
    BY <1>1, <2>1, <2>2, <2>3 DEF KindInv, Edited
<1>6. CASE Others
  BY <1>1, <1>6 DEF Others, Tick, ExtendedElsewhere, GuideChanges, ClocksChange, OnlyRec,
     renewal, KindInv, Edited
<1>7. CASE UNCHANGED vars
  BY <1>1, <1>7 DEF vars, server, renewal, KindInv, Edited
<1>8. QED
  BY <1>1, <1>2, <1>3, <1>4, <1>5, <1>6, <1>7 DEF Next, Others

-----------------------------------------------------------------------------
(* One recording.                                                          *)

Begun == Status \ {"none", "waiting"}

\* end is the one asked for, or later by less than a minute
Within(ask, end) == ask <= end /\ end < ask + Minute

\* What Kodi shows as recording has begun, and does not go back to waiting; the
\* minutes still to be added are those missing, others' additions aside.
OnceInv ==
    /\ kind = "once" /\ view # NoTimer /\ view.state = "recording" => rec.status \in Begun
    /\ kind = "once" /\ Edited /\ call.timer.state = "recording" => rec.status \in Begun
    /\ kind = "once" /\ Added => rec.status = "none"
    /\ rec.status = "none" => asked = 0
    /\ call # NoCall /\ call.extra > 0 =>
          /\ Edited /\ call.timer.state = "recording"
          /\ Within(call.timer.end, rec.end - between + call.extra * Minute)
    /\ asked > 0 => Within(asked, rec.end - between)
    /\ rec.status \in Lost => blame = "scheduled"

LEMMA OnceInit == Init => OnceInv
  BY DEF Init, OnceInv, Edited, Added, NoRec, Recording, Lost

\* Nothing but the calls about a recording, its scheduler, and others touch it.
LEMMA OnceFrame ==
    ASSUME Series \/ Recurring \/ GuideChanges \/ ClocksChange \/ UNCHANGED vars
    PROVE  /\ UNCHANGED <<kind, view, rec, asked, between, blame>>
           /\ call' = NoCall \/ call' = call
<1>1. CASE Series
  BY <1>1 DEF Series, CreateSeriesRule, DeleteSeriesRule, Return, OnlySeries
<1>2. CASE Recurring
  BY <1>2 DEF Recurring, Renew, CreateRecurringRule, UpdateRecurringRule, DeleteRecurringRule,
     GetRecurringRules, GetRecordings, ExtendRecurringRuleEndDate, Return, OnlyRule, OnlyPass
<1>3. CASE GuideChanges \/ ClocksChange
  BY <1>3 DEF GuideChanges, ClocksChange
<1>4. CASE UNCHANGED vars
  BY <1>4 DEF vars, server, history
<1>5. QED
  BY <1>1, <1>2, <1>3, <1>4

LEMMA OnceKodi == TypeOK /\ KindInv /\ OnceInv /\ Kodi => OnceInv'
<1>1. SUFFICES ASSUME TypeOK, KindInv, OnceInv, Kodi PROVE OnceInv'
  OBVIOUS
<1>2. CASE Refresh
  <2>1. kind = "once" /\ GetTimers # NoTimer /\ GetTimers.state = "recording"
            => rec.status = "recording"
    BY DEF GetTimers, RecordingTimer, Timer
  <2>2. QED
    BY <1>1, <1>2, <2>1 DEF Refresh, OnceInv, Edited, Added, server, Begun, Status, Lost
<1>3. ASSUME NEW timer \in Shown, KodiCall(timer) PROVE OnceInv'
  <2>1. /\ UNCHANGED <<kind, view, rec, asked, between, blame>>
        /\ call' # NoCall /\ call'.timer = timer /\ call'.extra = 0
        /\ kind = "once" /\ call'.op = "add" => rec.status = "none"
        /\ call'.op # "add" => view # NoTimer /\ (kind = "once" => timer.state = view.state)
    BY <1>3, BeginEffect DEF KodiCall, NoRec, Recording
  <2>2. QED
    BY <1>1, <2>1 DEF OnceInv, Edited, Added
<1>4. QED
  BY <1>1, <1>2, <1>3, KodiStep

LEMMA OnceSingle == TypeOK /\ KindInv /\ OnceInv /\ Single => OnceInv'
<1>1. SUFFICES ASSUME TypeOK, KindInv, OnceInv, Single PROVE OnceInv'
  OBVIOUS
<1>2. rec \in Recordings /\ rec.start \in Int /\ rec.end \in Int /\ rec.status \in Status
      /\ now \in Int /\ asked \in Int /\ between \in Nat /\ Minute \in Nat \ {0}
  BY <1>1, Constants DEF TypeOK, Recordings
<1>3. kind = "once" /\ call # NoCall /\ call.timer.end \in Int /\ call.timer.start \in Int
      /\ call.extra \in Nat /\ UNCHANGED <<kind, view>>
  BY <1>1, CalledKind, CallType DEF Single, CreateOneTimeRecording, FindRecordingById,
     ExtendRecording, UpdateOneTimeRecording, StopRecording, DeleteRecording, Return
<1>4. call.op # "add" => call.timer.state \in {"recording", "scheduled"}
  BY <1>1, <1>3 DEF KindInv, Edited, Fits
<1>5. CASE CreateOneTimeRecording
  <2>1. rec.status = "none"
    BY <1>1, <1>3, <1>5 DEF OnceInv, Added, CreateOneTimeRecording, Called
  <2>2. rec'.status \notin Lost \union {"none"}
    <3>1. rec'.status \in {"waiting", "recording"}
      BY <1>2, <1>3, <1>5, WaitingAged DEF CreateOneTimeRecording
    <3>2. QED
      BY <3>1 DEF Lost
  <2>3. QED
    BY <1>1, <1>2, <1>3, <1>5, <2>1, <2>2
       DEF OnceInv, Edited, Added, CreateOneTimeRecording, Return, Begun
<1>6. CASE FindRecordingById
  <2>1. UNCHANGED <<rec, blame>> /\ asked' = 0 /\ between' = 0
    BY <1>6 DEF FindRecordingById, server
  <2>2. DEFINE delta == call.timer.end - rec.end
  <2>3. CASE rec.status \in {"none", "wiped"} \/ delta <= 0
    <3>1. call' = NoCall
      BY <1>6, <2>3 DEF FindRecordingById
    <3>2. QED
      BY <1>1, <1>3, <2>1, <3>1 DEF OnceInv, Edited, Added
  <2>4. CASE ~(rec.status \in {"none", "wiped"} \/ delta <= 0)
    <3>1. delta \in Int /\ delta > 0
      BY <1>2, <1>3, <2>4
    <3>2. /\ ExtraMinutes(delta) \in Nat
          /\ delta <= ExtraMinutes(delta) * Minute
          /\ ExtraMinutes(delta) * Minute < delta + Minute
      BY <3>1, Minutes
    <3>3. /\ call'.op = call.op /\ call'.timer = call.timer /\ call'.extra = ExtraMinutes(delta)
          /\ call.op = "edit" /\ call.timer.state = "recording"
      BY <1>6, <2>4 DEF FindRecordingById, Call, Called, Extends
    <3>4. Within(call.timer.end, rec.end - 0 + call'.extra * Minute)
      <4>1. DEFINE added == ExtraMinutes(delta) * Minute
      <4>2. added \in Int
        BY <1>2, <3>2
      <4>3. call.timer.end <= rec.end + added /\ rec.end + added < call.timer.end + Minute
        BY <1>2, <1>3, <3>2, <4>2
      <4>4. QED
        BY <1>2, <3>3, <4>2, <4>3 DEF Within
    <3>5. QED
      BY <1>1, <1>3, <2>1, <3>3, <3>4 DEF OnceInv, Edited, Added
  <2>5. QED
    BY <2>3, <2>4
<1>7. CASE ExtendRecording
  <2>1. call' = NoCall /\ UNCHANGED <<between, blame>> /\ call.extra > 0
    BY <1>7 DEF ExtendRecording, Return
  <2>2. CASE rec.status = "recording"
    <3>1. /\ rec'.status = "recording" /\ rec'.end = rec.end + call.extra * Minute
          /\ asked' = call.timer.end
      BY <1>7, <2>2 DEF ExtendRecording, Recording
    <3>2. Within(call.timer.end, rec.end - between + call.extra * Minute)
      BY <1>1, <1>3, <2>1 DEF OnceInv
    <3>3. Within(asked', rec'.end - between')
      <4>1. DEFINE added == call.extra * Minute
      <4>2. added \in Int
        BY <1>2, <1>3
      <4>3. rec.end - between + added = (rec.end + added) - between
        BY <1>2, <4>2
      <4>4. QED
        BY <2>1, <3>1, <3>2, <4>3
    <3>4. QED
      BY <1>1, <1>3, <2>1, <3>1, <3>3 DEF OnceInv, Edited, Added, Begun, Status, Lost
  <2>3. CASE rec.status # "recording"
    <3>1. UNCHANGED <<rec, asked>>
      BY <1>7, <2>3 DEF ExtendRecording
    <3>2. QED
      BY <1>1, <1>3, <2>1, <3>1 DEF OnceInv, Edited, Added
  <2>4. QED
    BY <2>2, <2>3
<1>8. CASE UpdateOneTimeRecording
  <2>1. call' = NoCall /\ asked' = 0 /\ call.timer.state = "scheduled"
    BY <1>4, <1>8 DEF UpdateOneTimeRecording, Return, Called, Extends
  <2>2. CASE rec.status = "waiting"
    <3>1. rec' = Aged(Recording("waiting", call.timer.start, call.timer.end), now)
      BY <1>8, <2>2 DEF UpdateOneTimeRecording
    <3>2. rec'.status \in {"waiting", "recording"}
      BY <1>2, <1>3, <3>1, WaitingAged
    <3>3. QED
      BY <1>1, <1>3, <2>1, <2>2, <3>2 DEF OnceInv, Edited, Added, Begun, Lost
  <2>3. CASE rec.status = "recording"
    <3>1. rec'.status = "revoked" /\ blame' = "scheduled"
      BY <1>8, <2>1, <2>3 DEF UpdateOneTimeRecording, Recording
    <3>2. QED
      BY <1>1, <1>3, <2>1, <3>1 DEF OnceInv, Edited, Added, Begun, Status, Lost
  <2>4. CASE rec.status \notin {"waiting", "recording"}
    <3>1. UNCHANGED <<rec, blame>>
      BY <1>8, <2>4 DEF UpdateOneTimeRecording
    <3>2. QED
      BY <1>1, <1>3, <2>1, <3>1 DEF OnceInv, Edited, Added
  <2>5. QED
    BY <2>2, <2>3, <2>4
<1>9. CASE StopRecording
  <2>1. call' = NoCall /\ asked' = 0 /\ UNCHANGED blame
        /\ (rec'.status = "stopped" \/ UNCHANGED rec)
    BY <1>9 DEF StopRecording, Return, Recording
  <2>2. QED
    BY <1>1, <1>3, <2>1 DEF OnceInv, Edited, Added, Begun, Status, Lost
<1>10. CASE DeleteRecording
  <2>1. call' = NoCall /\ asked' = 0 /\ call.timer.state = "scheduled"
    BY <1>4, <1>10 DEF DeleteRecording, Return, Called, ForceDelete
  <2>2. CASE rec.status = "waiting"
    <3>1. rec'.status = "none"
      BY <1>10, <2>2 DEF DeleteRecording, NoRec, Recording
    <3>2. QED
      BY <1>1, <1>3, <2>1, <2>2, <3>1 DEF OnceInv, Edited, Added, Begun, Lost
  <2>3. CASE rec.status \in {"recording", "completed", "stopped", "revoked"}
    <3>1. rec'.status = "wiped" /\ blame' = "scheduled"
      BY <1>10, <2>1, <2>3 DEF DeleteRecording, Recording
    <3>2. QED
      BY <1>1, <1>3, <2>1, <3>1 DEF OnceInv, Edited, Added, Begun, Status, Lost
  <2>4. CASE rec.status \notin {"waiting", "recording", "completed", "stopped", "revoked"}
    <3>1. UNCHANGED <<rec, blame>>
      BY <1>10, <2>4 DEF DeleteRecording
    <3>2. QED
      BY <1>1, <1>3, <2>1, <3>1 DEF OnceInv, Edited, Added
  <2>5. QED
    BY <2>2, <2>3, <2>4
<1>11. QED
  BY <1>1, <1>5, <1>6, <1>7, <1>8, <1>9, <1>10 DEF Single

LEMMA OnceStep == TypeOK /\ KindInv /\ OnceInv /\ [Next]_vars => OnceInv'
<1>1. SUFFICES ASSUME TypeOK, KindInv, OnceInv, [Next]_vars PROVE OnceInv'
  OBVIOUS
<1>2. rec \in Recordings /\ rec.end \in Int /\ rec.status \in Status
      /\ now \in Int /\ asked \in Int /\ between \in Nat /\ Minute \in Nat \ {0}
  BY <1>1, Constants DEF TypeOK, Recordings
<1>3. CASE Series \/ Recurring \/ GuideChanges \/ ClocksChange \/ UNCHANGED vars
  <2>1. UNCHANGED <<kind, view, rec, asked, between, blame>> /\ (call' = NoCall \/ call' = call)
    BY <1>3, OnceFrame
  <2>2. QED
    BY <1>1, <2>1 DEF OnceInv, Edited, Added
<1>4. CASE Tick
  <2>1. rec' = Aged(rec, now + 1) /\ UNCHANGED <<kind, view, call, asked, between, blame>>
    BY <1>4 DEF Tick, history
  <2>2. rec'.end = rec.end /\ \/ rec'.status = rec.status
                              \/ rec.status = "waiting" /\ rec'.status = "recording"
                              \/ rec.status = "recording" /\ rec'.status = "completed"
    BY <1>2, <2>1, AgedType
  <2>3. QED
    BY <1>1, <2>1, <2>2 DEF OnceInv, Edited, Added, Begun, Status, Lost
<1>5. CASE ExtendedElsewhere
  <2>1. /\ rec.status = "recording" /\ rec'.status = rec.status
        /\ rec'.end = rec.end + Minute /\ between' = between + Minute
        /\ UNCHANGED <<kind, view, call, asked, blame>>
    BY <1>5 DEF ExtendedElsewhere, Recording
  <2>2. rec'.end - between' = rec.end - between
    BY <1>2, <2>1
  <2>3. QED
    BY <1>1, <2>1, <2>2 DEF OnceInv, Edited, Added
<1>6. QED
  BY <1>1, <1>3, <1>4, <1>5, OnceKodi, OnceSingle DEF Next

-----------------------------------------------------------------------------
(* A series.                                                               *)

SeriesInv ==
    /\ kind # "series" => series = {}
    /\ ~excused => series \subseteq {guide}

LEMMA SeriesInit == Init => SeriesInv
  BY DEF Init, SeriesInv

LEMMA SeriesStep == TypeOK /\ KindInv /\ SeriesInv /\ [Next]_vars => SeriesInv'
<1>1. SUFFICES ASSUME TypeOK, KindInv, SeriesInv, [Next]_vars PROVE SeriesInv'
  OBVIOUS
<1>2. CASE Kodi
  <2>1. UNCHANGED <<kind, series, guide>> /\ (excused' = excused \/ excused' = TRUE)
    <3>1. CASE Refresh
      BY <3>1 DEF Refresh, server
    <3>2. ASSUME NEW timer \in Shown, KodiCall(timer)
          PROVE  UNCHANGED <<kind, series, guide>> /\ (excused' = excused \/ excused' = TRUE)
      <4>1. UNCHANGED <<kind, series, guide>>
        BY <3>2, BeginEffect DEF KodiCall
      <4>2. \E op \in {"add", "edit", "delete"} : Begin(op, timer)
        BY <3>2 DEF KodiCall
      <4>3. excused' = excused \/ excused' = TRUE
        BY <1>1, <4>2 DEF Begin, TypeOK
      <4>4. QED
        BY <4>1, <4>3
    <3>3. QED
      BY <1>1, <1>2, <3>1, <3>2, KodiStep
  <2>2. QED
    BY <1>1, <2>1 DEF SeriesInv
<1>3. CASE Series
  <2>1. UNCHANGED <<kind, guide>> /\ kind = "series"
    BY <1>1, <1>3, CalledKind DEF Series, CreateSeriesRule, DeleteSeriesRule, Return, OnlySeries
  <2>2. CASE CreateSeriesRule
    <3>1. PICK tvg \in {guide, "own"} :
              /\ Resolve(tvg)
              /\ series' = series \union {tvg}
      BY <2>2 DEF CreateSeriesRule, Identity
    <3>2. (tvg = guide /\ excused' = excused) \/ excused' = TRUE
      BY <3>1 DEF Resolve
    <3>3. QED
      BY <1>1, <2>1, <3>1, <3>2 DEF SeriesInv
  <2>3. CASE DeleteSeriesRule
    <3>1. excused' = excused \/ excused' = TRUE
      BY <2>3 DEF DeleteSeriesRule, Resolve
    <3>2. series' \subseteq series
      BY <2>3 DEF DeleteSeriesRule
    <3>3. QED
      BY <1>1, <2>1, <3>1, <3>2 DEF SeriesInv
  <2>4. QED
    BY <1>3, <2>2, <2>3 DEF Series
<1>4. CASE Recurring
  <2>1. UNCHANGED <<kind, guide, series>>
    BY <1>4 DEF Recurring, Renew, CreateRecurringRule, UpdateRecurringRule, DeleteRecurringRule,
       GetRecurringRules, GetRecordings, ExtendRecurringRuleEndDate, Return, OnlyRule, OnlyPass
  <2>2. kind = "recurring" \/ UNCHANGED excused
    BY <1>1, <1>4, CalledKind DEF Recurring, Renew, CreateRecurringRule, UpdateRecurringRule,
       DeleteRecurringRule, GetRecurringRules, GetRecordings, ExtendRecurringRuleEndDate, OnlyPass
  <2>3. QED
    BY <1>1, <2>1, <2>2 DEF SeriesInv
<1>5. CASE GuideChanges
  BY <1>1, <1>5 DEF GuideChanges, SeriesInv
<1>6. CASE Single \/ Tick \/ ExtendedElsewhere
  <2>1. UNCHANGED <<kind, guide, series, excused>>
    BY <1>6 DEF Single, CreateOneTimeRecording, FindRecordingById, ExtendRecording,
       UpdateOneTimeRecording, StopRecording, DeleteRecording, Return, OnlyRec, server,
       Tick, history, ExtendedElsewhere
  <2>2. QED
    BY <1>1, <2>1 DEF SeriesInv
<1>7. CASE ClocksChange
  BY <1>1, <1>7 DEF ClocksChange, SeriesInv
<1>8. CASE UNCHANGED vars
  BY <1>1, <1>8 DEF vars, server, history, SeriesInv
<1>9. QED
  BY <1>1, <1>2, <1>3, <1>4, <1>5, <1>6, <1>7, <1>8 DEF Next

-----------------------------------------------------------------------------
(* What holds of one recording and of a series.                            *)

Inv1 == TypeOK /\ KindInv /\ OnceInv /\ SeriesInv

LEMMA Inv1Correct == Spec => []Inv1
<1>1. Init => Inv1
  BY InitType, KindInit, OnceInit, SeriesInit DEF Inv1
<1>2. Inv1 /\ [Next]_vars => Inv1'
  BY TypeStep, KindStep, OnceStep, SeriesStep DEF Inv1
<1>3. QED
  BY <1>1, <1>2, PTL DEF Spec

\* A recording that Kodi shows as recording is stopped and extended, never deleted
\* or patched, whatever has become of it on the server since.
THEOREM KeptIfSeenHolds == Spec => []KeptIfSeen
<1>1. Inv1 => KeptIfSeen
  BY DEF Inv1, OnceInv, KeptIfSeen
<1>2. QED
  BY <1>1, Inv1Correct, PTL

\* An extension ends within the minute asked for, however long a minute is and
\* however often others extend the recording meanwhile.
THEOREM ExtendedAsAskedHolds == Spec => []ExtendedAsAsked
<1>1. Inv1 => ExtendedAsAsked
  BY DEF Inv1, OnceInv, ExtendedAsAsked, Within
<1>2. QED
  BY <1>1, Inv1Correct, PTL

\* A series has one rule, unless a lookup failed or the guide changed.
THEOREM OneRulePerSeriesHolds == Spec => []OneRulePerSeries
<1>1. Inv1 => OneRulePerSeries
  <2>1. SUFFICES ASSUME Inv1, ~excused PROVE Cardinality(series) <= 1
    BY DEF OneRulePerSeries
  <2>2. series \subseteq {guide}
    BY <2>1 DEF Inv1, SeriesInv
  <2>3. IsFiniteSet({guide}) /\ Cardinality({guide}) = 1
    BY FS_Singleton
  <2>4. QED
    BY <2>2, <2>3, FS_Subset
<1>2. QED
  BY <1>1, Inv1Correct, PTL

-----------------------------------------------------------------------------
(* The recurring rule: what the steps do to it.                            *)

LEMMA DateOf == \A t \in Int : t % Day = 0 => Date(t) = t
  BY DEF Date, Midnight

LEMMA DaysLater == \A t \in Int, k \in Int : t % Day = 0 => (t + k * Day) % Day = 0
<1>1. SUFFICES ASSUME NEW t \in Int, NEW k \in Int, t % Day = 0 PROVE (t + k * Day) % Day = 0
  OBVIOUS
<1>2. t \div Day \in Int /\ t = Day * (t \div Day)
  BY <1>1, Division, Constants
<1>3. (t \div Day) + k \in Int /\ t + k * Day = Day * ((t \div Day) + k) + 0
  BY <1>2, Constants
<1>4. 0 \in 0..(Day - 1)
  BY Constants
<1>5. QED
  BY <1>3, <1>4, Remainder

LEMMA CreateEffect ==
    ASSUME TypeOK, KindInv, CreateRecurringRule
    PROVE  /\ kind = "recurring" /\ Added /\ call' = NoCall
           /\ rule'.id = calls /\ rule'.tod = want'.tod /\ ~excused'
           /\ rule'.first = FirstDay(call.timer) /\ rule'.last = rule'.first + Window * Day
           /\ UNCHANGED <<kind, now, view, pass, basis, offset, calls>>
<1>1. Called("add", "recurring")
  BY DEF CreateRecurringRule
<1>2. call.timer \in Shown
  BY <1>1, CallType
<1>3. DEFINE first == FirstDay(call.timer)
<1>4. first \in Int /\ first % Day = 0 /\ Date(first) = first
  BY <1>2, FieldsType
<1>5. Date(first + Window * Day) = first + Window * Day
  <2>1. first + Window * Day \in Int /\ (first + Window * Day) % Day = 0
    BY <1>4, DaysLater, Constants
  <2>2. QED
    BY <2>1, DateOf
<1>6. /\ rule'.id = calls /\ rule'.tod = want'.tod
      /\ rule'.first = Date(first) /\ rule'.last = Date(first + Window * Day)
  BY DEF CreateRecurringRule, Rule
<1>7. kind = "recurring" /\ Added
  BY <1>1, CalledKind DEF Added
<1>8. QED
  BY <1>4, <1>5, <1>6, <1>7 DEF CreateRecurringRule, Return, OnlyRule, renewal

LEMMA UpdateEffect ==
    ASSUME TypeOK, KindInv, UpdateRecurringRule
    PROVE  /\ kind = "recurring" /\ Edited /\ call.op = "edit" /\ call' = NoCall
           /\ rule'.id = rule.id /\ rule'.last = rule.last
           /\ \/ UNCHANGED rule
              \/ /\ rule.id = call.timer.index.n /\ rule.id # 0
                 /\ rule'.tod = (call.timer.start + offset) % Day
                 /\ rule'.first = FirstDay(call.timer)
           /\ UNCHANGED <<kind, now, view, pass, basis, offset, calls, want, excused>>
<1>1. Called("edit", "recurring")
  BY DEF UpdateRecurringRule
<1>2. kind = "recurring" /\ Edited /\ call.op = "edit"
  BY <1>1, CalledKind DEF Edited
<1>3. CASE rule.id = call.timer.index.n
  <2>1. call.timer \in Shown /\ call.timer.start \in Int
    BY <1>1, CallType
  <2>2. rule.id # 0
    BY <1>2, <1>3, CallType, <1>1 DEF KindInv, Fits
  <2>3. Date(FirstDay(call.timer)) = FirstDay(call.timer)
    BY <2>1, FieldsType
  <2>4. TimeOfDay(Tod(call.timer)) = (call.timer.start + offset) % Day
    <3>1. offset \in Int
      BY OffsetRange DEF TypeOK
    <3>2. QED
      BY <2>1, <3>1, Shifted DEF TimeOfDay, Tod
  <2>5. /\ rule'.id = rule.id /\ rule'.last = rule.last
        /\ rule'.tod = TimeOfDay(Tod(call.timer))
        /\ rule'.first = Date(FirstDay(call.timer))
    BY <1>3 DEF UpdateRecurringRule, Rule
  <2>6. QED
    BY <1>2, <1>3, <2>2, <2>3, <2>4, <2>5 DEF UpdateRecurringRule, Return, OnlyRule, renewal
<1>4. CASE rule.id # call.timer.index.n
  BY <1>2, <1>4 DEF UpdateRecurringRule, Return, OnlyRule, renewal
<1>5. QED
  BY <1>3, <1>4

LEMMA DeleteEffect ==
    ASSUME TypeOK, KindInv, DeleteRecurringRule
    PROVE  /\ kind = "recurring" /\ Edited /\ call.op = "delete" /\ call' = NoCall
           /\ \/ UNCHANGED rule /\ rule.id # call.timer.index.n
              \/ rule' = NoRule /\ rule'.id = 0
           /\ UNCHANGED <<kind, now, view, pass, basis, offset, calls, want, excused>>
<1>1. Called("delete", "recurring")
  BY DEF DeleteRecurringRule
<1>2. kind = "recurring" /\ Edited /\ call.op = "delete"
  BY <1>1, CalledKind DEF Edited
<1>3. QED
  BY <1>2 DEF DeleteRecurringRule, Return, OnlyRule, renewal, NoRule, Rule

\* Kodi is shown the rule there is.
LEMMA RuleShown ==
    ASSUME TypeOK, kind = "recurring"
    PROVE  /\ GetTimers = NoTimer <=> rule = NoRule
           /\ rule # NoRule => /\ GetTimers.index.n = rule.id /\ GetTimers.first = rule.first
                               /\ GetTimers.start = rule.first + rule.tod - offset
<1>1. CASE rule = NoRule
  BY <1>1 DEF GetTimers
<1>2. CASE rule # NoRule
  <2>1. GetTimers = RuleTimer(rule)
    BY <1>2 DEF GetTimers
  <2>2. RuleTimer(rule) # NoTimer
    BY DEF RuleTimer, Timer, NoTimer
  <2>3. QED
    BY <1>2, <2>1, <2>2 DEF RuleTimer, Timer, Index
<1>3. QED
  BY <1>1, <1>2

\* A round of the renewal touches the last day of the rule, nothing else of it.
LEMMA RenewEffect ==
    ASSUME Renew
    PROVE  /\ UNCHANGED <<kind, now, view, call, basis, offset, calls, want, excused>>
           /\ rule'.id = rule.id /\ rule'.tod = rule.tod /\ rule'.first = rule.first
           /\ pass'.rule \in {pass.rule, rule, NoRule}
<1>1. CASE GetRecurringRules
  BY <1>1 DEF GetRecurringRules, OnlyPass, Pass
<1>2. CASE GetRecordings
  <2>1. pass'.rule = pass.rule /\ UNCHANGED rule
    BY <1>2 DEF GetRecordings, Pass
  <2>2. QED
    BY <1>2, <2>1 DEF GetRecordings, OnlyPass
<1>3. CASE ExtendRecurringRuleEndDate
  <2>1. pass'.rule = NoRule
    BY <1>3 DEF ExtendRecurringRuleEndDate, NoPass, Pass
  <2>2. rule'.id = rule.id /\ rule'.tod = rule.tod /\ rule'.first = rule.first
    BY <1>3 DEF ExtendRecurringRuleEndDate, Rule
  <2>3. QED
    BY <1>3, <2>1, <2>2 DEF ExtendRecurringRuleEndDate, OnlyPass
<1>4. QED
  BY <1>1, <1>2, <1>3 DEF Renew

\* With another kind of timer there are neither a rule nor rounds.
LEMMA NoRounds ==
    ASSUME TypeOK, KindInv, kind # "recurring", pass.stage = "idle", [Next]_vars
    PROVE  UNCHANGED <<kind, rule, pass>>
<1>1. CASE Kodi
  <2>1. CASE Refresh
    BY <2>1 DEF Refresh, server, renewal
  <2>2. ASSUME NEW timer \in Shown, KodiCall(timer) PROVE UNCHANGED <<kind, rule, pass>>
    BY <2>2, BeginEffect DEF KodiCall
  <2>3. QED
    BY <1>1, <2>1, <2>2, KodiStep
<1>2. CASE Single
  BY <1>2 DEF Single, CreateOneTimeRecording, FindRecordingById, ExtendRecording,
     UpdateOneTimeRecording, StopRecording, DeleteRecording, Return, OnlyRec, server, renewal
<1>3. CASE Series
  BY <1>3 DEF Series, CreateSeriesRule, DeleteSeriesRule, Return, OnlySeries, renewal
<1>4. CASE Recurring
  BY <1>4, CreateEffect, UpdateEffect, DeleteEffect DEF Recurring, Renew, GetRecurringRules,
     GetRecordings, ExtendRecurringRuleEndDate
<1>5. CASE Others
  BY <1>5 DEF Others, Tick, ExtendedElsewhere, GuideChanges, ClocksChange, OnlyRec, renewal
<1>6. CASE UNCHANGED vars
  BY <1>6 DEF vars, server, renewal
<1>7. QED
  BY <1>1, <1>2, <1>3, <1>4, <1>5, <1>6 DEF Next, Others

\* With a recurring rule, other steps leave it and the calls about it alone.
LEMMA Aside ==
    ASSUME TypeOK, KindInv, kind = "recurring",
           Single \/ Series \/ ExtendedElsewhere \/ GuideChanges \/ UNCHANGED vars
    PROVE  UNCHANGED <<kind, now, view, call, rule, pass, basis, offset, calls, want, excused>>
<1>1. CASE Single \/ Series
  BY <1>1, CalledKind DEF Single, CreateOneTimeRecording, FindRecordingById, ExtendRecording,
     UpdateOneTimeRecording, StopRecording, DeleteRecording, Series, CreateSeriesRule,
     DeleteSeriesRule
<1>2. CASE ExtendedElsewhere \/ GuideChanges
  BY <1>2 DEF ExtendedElsewhere, GuideChanges, OnlyRec, renewal
<1>3. CASE UNCHANGED vars
  BY <1>3 DEF vars, server, renewal, history
<1>4. QED
  BY <1>1, <1>2, <1>3

-----------------------------------------------------------------------------
(* The recurring rule: ids, time of day, days.                              *)

\* an id given out so far; the call being made may be given the next
Used(n) == n <= calls /\ (call # NoCall => n < calls)

IdInv ==
    /\ Used(rule.id) /\ Used(pass.rule.id)
    /\ Added => rule.id = 0 /\ call.timer.first = 0
    /\ view # NoTimer => Used(view.index.n)
    /\ Edited => call.timer.index.n < calls

\* the timer was made from the rule there is
About(timer) == rule.id # 0 /\ timer.index.n = rule.id

\* Turned back with the offset it was made with, a timer has the rule's time of day.
TodInv ==
    ~excused =>
       /\ rule.id # 0 => rule.tod = want.tod
       /\ view # NoTimer /\ About(view) => (view.start + basis) % Day = want.tod
       /\ Edited /\ call.op = "edit" /\ About(call.timer) =>
             (call.timer.start + offset) % Day = want.tod

\* each call takes the first day back by a day at most
Room(first, steps) == (MaxCalls - steps) * Day <= first

\* the window was as long as it is when the rule was made, and has only grown
Covers(first) == first + Window * Day <= rule.last

DayInv ==
    /\ Start <= now
    /\ rule.id # 0 => Room(rule.first, calls) /\ Covers(rule.first)
    /\ view # NoTimer => /\ view.first % Day = 0 /\ Room(view.first, calls)
                         /\ About(view) => Covers(view.first)
    /\ Edited => /\ call.timer.first % Day = 0 /\ Room(call.timer.first, calls - 1)
                 /\ About(call.timer) => Covers(call.timer.first)

\* the rule of the round is still there
Kept == rule.id # 0 /\ pass.rule.id = rule.id

\* no occurrence takes place or begins between the clock of the round and its end
Clear == \A o \in Occurrences(rule) : o + Length <= pass.at \/ pass.at + Margin <= o

PassInv ==
    pass.stage # "idle" =>
       /\ Kept => pass.rule.last = rule.last
       /\ pass.stage = "both" => pass.at <= now /\ now < pass.at + Margin
       /\ pass.stage = "both" /\ Kept /\ ~pass.busy /\ ~excused /\ RunsOut => Clear

RuleInv == IdInv /\ TodInv /\ DayInv /\ PassInv

LEMMA RuleInit == ASSUME Init PROVE RuleInv
<1>1. IdInv
  BY Constants DEF Init, IdInv, Used, Added, Edited, NoRule, Rule, NoPass, Pass
<1>2. TodInv
  BY DEF Init, TodInv, Edited, NoRule, Rule
<1>3. DayInv
  BY Constants DEF Init, DayInv, Edited, NoRule, Rule, Start
<1>4. PassInv
  BY DEF Init, PassInv, NoPass, Pass
<1>5. QED
  BY <1>1, <1>2, <1>3, <1>4 DEF RuleInv

LEMMA RoomStep ==
    \A steps \in Int : (MaxCalls - (steps + 1)) * Day = (MaxCalls - steps) * Day - Day
  BY Constants

LEMMA RoomWeaker == \A first \in Int, steps \in Int : Room(first, steps) => Room(first, steps + 1)
<1>1. SUFFICES ASSUME NEW first \in Int, NEW steps \in Int, Room(first, steps)
               PROVE  Room(first, steps + 1)
  OBVIOUS
<1>2. (MaxCalls - steps) * Day \in Int
  BY Constants
<1>3. QED
  BY <1>1, <1>2, RoomStep, Constants DEF Room

\* The types that the days are reckoned with.
LEMMA RuleTypes ==
    ASSUME TypeOK
    PROVE  /\ now \in Int /\ calls \in 0..MaxCalls
           /\ offset \in Int /\ -Day < offset /\ offset < Day /\ basis \in Int
           /\ rule.id \in Nat /\ rule.tod \in 0..(Day - 1) /\ want.tod \in 0..(Day - 1)
           /\ rule.first \in Int /\ rule.last \in Int
           /\ rule.first % Day = 0 /\ rule.last % Day = 0
           /\ pass.at \in Nat /\ pass.rule.id \in Nat /\ pass.rule.last \in Int
           /\ view # NoTimer => /\ view.index.n \in Nat /\ view.first \in Int
                                /\ view.start \in Int
           /\ call # NoCall => /\ call.timer.index.n \in Nat /\ call.timer.first \in Int
                               /\ call.timer.start \in Int
<1>1. rule \in Rules /\ pass \in Passes /\ pass.rule \in Rules
  BY DEF TypeOK, Passes
<1>2. view # NoTimer => view \in Shown
  BY DEF TypeOK
<1>3. call # NoCall => call.timer \in Shown
  BY DEF TypeOK
<1>4. now \in Int /\ calls \in 0..MaxCalls /\ want.tod \in 0..(Day - 1)
  BY DEF TypeOK
<1>5. offset \in Int /\ -Day < offset /\ offset < Day /\ basis \in Int
  BY OffsetRange DEF TypeOK
<1>6. pass.at \in Nat /\ pass.rule.id \in Nat /\ pass.rule.last \in Int
  BY <1>1 DEF Passes, Rules
<1>7. QED
  BY <1>1, <1>2, <1>3, <1>4, <1>5, <1>6 DEF TypeOK, Rules, Shown

LEMMA RuleAside ==
    ASSUME RuleInv,
           UNCHANGED <<kind, now, view, call, rule, pass, basis, offset, calls, want, excused>>
    PROVE  RuleInv'
  BY DEF RuleInv, IdInv, Used, Added, Edited, TodInv, About, DayInv, Room, Covers, PassInv, Kept,
     Clear, RunsOut, Occurrences, Start

LEMMA RuleRefresh ==
    ASSUME TypeOK, KindInv, RuleInv, kind = "recurring", Refresh PROVE RuleInv'
<1>1. /\ view' = GetTimers /\ basis' = offset
      /\ UNCHANGED <<kind, now, call, rule, pass, offset, calls, want, excused>>
  BY DEF Refresh, server, renewal
<1>2. view' # NoTimer => /\ rule.id # 0 /\ view'.index.n = rule.id
                         /\ view'.first = rule.first /\ view'.start = rule.first + rule.tod - offset
  BY <1>1, RuleShown DEF KindInv, NoRule, Rule
<1>3. IdInv'
  BY <1>1, <1>2 DEF RuleInv, IdInv, Used, Added, Edited
<1>4. TodInv'
  <2>1. SUFFICES ASSUME ~excused', view' # NoTimer, rule'.id # 0, view'.index.n = rule'.id
                 PROVE  (view'.start + basis') % Day = want'.tod
    BY <1>1 DEF RuleInv, TodInv, About, Edited
  <2>2. rule.tod = want.tod
    BY <1>1, <2>1 DEF RuleInv, TodInv
  <2>3. (rule.first + rule.tod) % Day = rule.tod
    BY RuleTypes, Whole
  <2>4. view'.start + basis' = rule.first + rule.tod
    BY <1>1, <1>2, <2>1, RuleTypes, Constants
  <2>5. QED
    BY <1>1, <2>2, <2>3, <2>4
<1>5. DayInv'
  BY <1>1, <1>2, RuleTypes DEF RuleInv, DayInv, Edited, About, Covers, Room, Start
<1>6. PassInv'
  BY <1>1 DEF RuleInv, PassInv, Kept, Clear, RunsOut, Occurrences
<1>7. QED
  BY <1>3, <1>4, <1>5, <1>6 DEF RuleInv

LEMMA RuleCall ==
    ASSUME TypeOK, KindInv, RuleInv, kind = "recurring", NEW timer \in Shown, KodiCall(timer)
    PROVE  RuleInv'
<1>1. PICK op \in {"add", "edit", "delete"} : Begin(op, timer)
  BY DEF KodiCall
<1>2. /\ call = NoCall /\ call' # NoCall /\ call'.op = op /\ call'.timer = timer
      /\ calls' = calls + 1 /\ (excused' <=> (excused \/ (op = "edit" /\ basis # offset)))
      /\ UNCHANGED <<kind, now, view, rule, pass, basis, offset, want>>
  <2>1. excused' = (excused \/ (op = "edit" /\ basis # offset))
    BY <1>1, BeginEffect
  <2>2. QED
    BY <1>1, <2>1, BeginEffect
<1>3. op # "add" => /\ view # NoTimer /\ timer.index.n = view.index.n
                    /\ timer.first = view.first /\ timer.start = view.start
  BY <1>1, <1>2, BeginEffect DEF KodiCall
<1>4. op = "add" => rule.id = 0 /\ timer.first = 0
  BY <1>1, <1>2, BeginEffect, RuleShown DEF KodiCall, NoRule, Rule
<1>5. IdInv'
  BY <1>2, <1>3, <1>4, RuleTypes DEF RuleInv, IdInv, Used, Added, Edited
<1>6. TodInv'
  <2>1. ~excused' => ~excused /\ (op = "edit" => basis = offset)
    BY <1>2
  <2>2. QED
    BY <1>2, <1>3, <2>1 DEF RuleInv, TodInv, About, Edited
<1>7. DayInv'
  <2>1. rule.id # 0 => Room(rule.first, calls + 1)
    BY RuleTypes, RoomWeaker DEF RuleInv, DayInv
  <2>2. view # NoTimer => Room(view.first, calls + 1)
    BY RuleTypes, RoomWeaker DEF RuleInv, DayInv
  <2>3. calls' - 1 = calls
    BY <1>2, RuleTypes
  <2>4. Edited' => Room(timer.first, calls' - 1)
    BY <1>2, <1>3, <2>3 DEF RuleInv, DayInv, Edited
  <2>5. QED
    BY <1>2, <1>3, <2>1, <2>2, <2>4 DEF RuleInv, DayInv, Edited, About, Covers, Start, Room
<1>8. PassInv'
  BY <1>2 DEF RuleInv, PassInv, Kept, Clear, RunsOut, Occurrences
<1>9. QED
  BY <1>5, <1>6, <1>7, <1>8 DEF RuleInv

LEMMA RuleCreate ==
    ASSUME TypeOK, TypeOK', KindInv, RuleInv, CreateRecurringRule PROVE RuleInv'
<1>1. /\ Added /\ call # NoCall /\ call' = NoCall
      /\ rule'.id = calls /\ rule'.tod = want'.tod /\ ~excused'
      /\ rule'.first = FirstDay(call.timer) /\ rule'.last = rule'.first + Window * Day
      /\ UNCHANGED <<kind, now, view, pass, basis, offset, calls>>
  BY CreateEffect DEF Added
<1>2. calls > 0 /\ pass.rule.id < calls /\ (view # NoTimer => view.index.n < calls)
  BY <1>1 DEF KindInv, RuleInv, IdInv, Used
<1>3. IdInv'
  BY <1>1, <1>2, RuleTypes DEF IdInv, Used, Added, Edited
<1>4. TodInv'
  BY <1>1, <1>2, RuleTypes DEF TodInv, About, Edited
<1>5. DayInv'
  <2>1. Room(rule'.first, calls)
    <3>1. rule'.first = Midnight(now + offset)
      BY <1>1 DEF RuleInv, IdInv, FirstDay
    <3>2. DEFINE start == MaxCalls * Day
    <3>3. start \in Int /\ start % Day = 0
      <4>1. 0 % Day = 0
        BY NoRuleType DEF NoRule, Rule
      <4>2. QED
        BY <4>1, DaysLater, Constants
    <3>4. start + Day <= now
      BY Constants DEF RuleInv, DayInv, Start
    <3>5. start <= now + offset /\ now + offset \in Int
      BY <3>3, <3>4, RuleTypes, Constants
    <3>6. start <= Midnight(now + offset)
      BY <3>3, <3>5, MidnightMonotone
    <3>7. (MaxCalls - calls) * Day <= start
      BY RuleTypes, Constants
    <3>8. QED
      <4>1. Midnight(now + offset) \in Int /\ (MaxCalls - calls) * Day \in Int
        BY <3>5, MidnightFacts, RuleTypes, Constants
      <4>2. QED
        BY <3>1, <3>3, <3>6, <3>7, <4>1 DEF Room
  <2>2. rule'.first \in Int /\ Window * Day \in Int
    BY <1>1, Constants DEF TypeOK, Rules
  <2>3. Covers(rule.first)'
    BY <1>1, <2>2 DEF Covers
  <2>4. ~About(view)' \/ view = NoTimer
    BY <1>1, <1>2, RuleTypes DEF About
  <2>5. QED
    BY <1>1, <2>1, <2>3, <2>4 DEF RuleInv, DayInv, Edited, Start, Room
<1>6. PassInv'
  <2>1. ~Kept'
    BY <1>1, <1>2, RuleTypes DEF Kept
  <2>2. QED
    BY <1>1, <2>1 DEF RuleInv, PassInv
<1>7. QED
  BY <1>3, <1>4, <1>5, <1>6 DEF RuleInv

\* A midnight moved by an offset and taken back to a midnight.
LEMMA DayMoved ==
    \A f \in Int, o \in Int :
        f % Day = 0 /\ -Day < o /\ o < Day => f - Day <= Midnight(f + o) /\ Midnight(f + o) <= f
<1>1. SUFFICES ASSUME NEW f \in Int, NEW o \in Int, f % Day = 0, -Day < o, o < Day
               PROVE  f - Day <= Midnight(f + o) /\ Midnight(f + o) <= f
  OBVIOUS
<1>2. f + o \in Int /\ Midnight(f + o) \in Int /\ Midnight(f + o) % Day = 0
      /\ Midnight(f + o) <= f + o
  BY MidnightFacts
<1>3. f - Day \in Int /\ (f - Day) % Day = 0
  <2>1. f - Day = f + (-1) * Day /\ -1 \in Int /\ f - Day \in Int
    BY Constants
  <2>2. (f + (-1) * Day) % Day = 0
    BY <1>1, <2>1, DaysLater
  <2>3. QED
    BY <2>1, <2>2
<1>4. f - Day <= Midnight(f + o)
  BY <1>1, <1>2, <1>3, MidnightMonotone, Constants
<1>5. Midnight(f + o) <= f
  <2>1. SUFFICES ASSUME f < Midnight(f + o) PROVE FALSE
    BY <1>2
  <2>2. f + Day <= Midnight(f + o)
    BY <1>1, <1>2, <2>1, Apart
  <2>3. QED
    BY <1>1, <1>2, <2>2, Constants
<1>6. QED
  BY <1>4, <1>5

\* A rule that runs out began long before: an occurrence before its first day would
\* be over.
LEMMA HalfWindow ==
    /\ Window \div 2 \in Int /\ (Window \div 2) * Day \in Int /\ Window * Day \in Int
    /\ (Window \div 2) * Day + 2 * Day <= Window * Day
<1>1. Window \div 2 \in Int /\ (Window \div 2) + 2 <= Window
  BY Constants
<1>2. ((Window \div 2) + 2) * Day <= Window * Day
  BY <1>1, Constants
<1>3. QED
  BY <1>1, <1>2, Constants

LEMMA RunsOutBound ==
    ASSUME TypeOK, RunsOut PROVE pass.rule.last < pass.at + (Window \div 2) * Day
<1>1. DEFINE left == pass.rule.last - pass.at
<1>2. left \in Int /\ left \div Day < Window \div 2 /\ Window \div 2 \in Int
  BY RuleTypes, HalfWindow DEF RunsOut
<1> HIDE DEF left
<1>3. left < Day * (left \div Day) + Day /\ left \div Day \in Int
  <2>1. /\ left \div Day \in Int /\ left % Day \in 0..(Day - 1)
        /\ left = Day * (left \div Day) + (left % Day)
    BY <1>2, Division
  <2>2. QED
    BY <1>2, <2>1, Constants
<1>4. (left \div Day) + 1 <= Window \div 2
  BY <1>2, <1>3
<1>5. Day * ((left \div Day) + 1) <= (Window \div 2) * Day
  BY <1>2, <1>3, <1>4, Constants
<1>6. left < (Window \div 2) * Day
  <2>1. Day * ((left \div Day) + 1) = Day * (left \div Day) + Day
    BY <1>3, Constants
  <2>2. QED
    BY <1>2, <1>3, <1>5, <2>1, HalfWindow, Constants
<1>7. QED
  BY <1>6, RuleTypes, HalfWindow DEF left

LEMMA OccurrenceDay ==
    ASSUME NEW r, NEW o \in Occurrences(r)
    PROVE  \E d \in r.first..r.last : d % Day = 0 /\ o = d + r.tod - offset
  BY DEF Occurrences

LEMMA DayOccurrence ==
    ASSUME NEW r, NEW d \in r.first..r.last, d % Day = 0
    PROVE  d + r.tod - offset \in Occurrences(r)
  BY DEF Occurrences

LEMMA RuleUpdate ==
    ASSUME TypeOK, TypeOK', KindInv, RuleInv, UpdateRecurringRule PROVE RuleInv'
<1>1. /\ kind = "recurring" /\ Edited /\ call.op = "edit" /\ call' = NoCall
      /\ rule'.id = rule.id /\ rule'.last = rule.last
      /\ \/ UNCHANGED rule
         \/ /\ rule.id = call.timer.index.n /\ rule.id # 0
            /\ rule'.tod = (call.timer.start + offset) % Day
            /\ rule'.first = FirstDay(call.timer)
      /\ UNCHANGED <<kind, now, view, pass, basis, offset, calls, want, excused>>
  BY UpdateEffect
<1>2. IdInv'
  BY <1>1, RuleTypes DEF RuleInv, IdInv, Used, Added, Edited
<1>3. TodInv'
  BY <1>1 DEF RuleInv, TodInv, About, Edited
<1>4. CASE UNCHANGED rule
  BY <1>1, <1>2, <1>3, <1>4 DEF RuleInv, DayInv, Edited, About, Covers, Room, Start, PassInv, Kept,
     Clear, RunsOut, Occurrences
<1>5. CASE /\ rule.id = call.timer.index.n /\ rule.id # 0
           /\ rule'.tod = (call.timer.start + offset) % Day
           /\ rule'.first = FirstDay(call.timer)
  <2>1. DEFINE f == call.timer.first
  <2>2. /\ f \in Int /\ f % Day = 0 /\ Room(f, calls - 1) /\ Covers(f)
        /\ offset \in Int /\ -Day < offset /\ offset < Day
    BY <1>1, <1>5, RuleTypes DEF RuleInv, DayInv, About, Edited
  <2>3. (MaxCalls - calls) * Day + Day <= f /\ (MaxCalls - calls) * Day \in Int
    <3>1. (MaxCalls - (calls - 1)) * Day = (MaxCalls - calls) * Day + Day
      BY RuleTypes, Constants
    <3>2. QED
      BY <2>2, <3>1, RuleTypes, Constants DEF Room
  <2>4. f > 0
    <3>1. (MaxCalls - calls) * Day >= 0
      BY RuleTypes, Constants
    <3>2. QED
      BY <2>2, <2>3, <3>1, Constants
  <2>5. rule'.first = Midnight(f + offset)
    BY <1>5, <2>2, <2>4 DEF FirstDay
  <2>6. f - Day <= rule'.first /\ rule'.first <= f /\ rule'.first \in Int
    <3>1. f + offset \in Int
      BY <2>2
    <3>2. QED
      BY <2>2, <2>5, <3>1, DayMoved, MidnightFacts
  <2>7. DayInv'
    <3>1. Room(rule'.first, calls)
      BY <2>2, <2>3, <2>6, Constants DEF Room
    <3>2. Covers(rule'.first)
      BY <2>2, <2>6, RuleTypes, HalfWindow DEF Covers
    <3>3. QED
      BY <1>1, <3>1, <3>2 DEF RuleInv, DayInv, Edited, About, Covers, Room, Start
  <2>8. PassInv'
    <3>1. SUFFICES ASSUME pass.stage = "both", Kept, ~pass.busy, ~excused, RunsOut
                   PROVE  Clear'
      BY <1>1 DEF RuleInv, PassInv, Kept, RunsOut
    <3>2. rule'.tod = rule.tod
      BY <1>1, <1>3, <1>5, <3>1 DEF RuleInv, TodInv
    <3>3. Clear /\ pass.rule.last = rule.last
      BY <3>1 DEF RuleInv, PassInv
    <3>4. SUFFICES ASSUME NEW o \in Occurrences(rule)'
                   PROVE  o + Length <= pass.at \/ pass.at + Margin <= o
      BY <1>1 DEF Clear
    <3>5. PICK d \in rule'.first..rule.last : d % Day = 0 /\ o = d + rule.tod - offset
      BY <1>1, <3>2, <3>4 DEF Occurrences
    <3>6. d \in Int /\ rule.first \in Int /\ rule.first % Day = 0 /\ d <= rule.last
      BY <2>6, RuleTypes
    <3>7. CASE rule.first <= d
      <4>1. d \in rule.first..rule.last
        BY <3>6, <3>7, RuleTypes
      <4>2. o \in Occurrences(rule)
        BY <3>5, <4>1, DayOccurrence
      <4>3. QED
        BY <3>3, <4>2 DEF Clear
    <3>8. CASE d < rule.first
      <4>1. d + Day <= rule.first
        BY <3>5, <3>6, <3>8, Apart
      <4>2. rule.first + Window * Day < pass.at + (Window \div 2) * Day
        <5>1. rule.first + Window * Day <= rule.last
          BY <3>1 DEF RuleInv, DayInv, Covers, Kept
        <5>2. QED
          BY <3>1, <3>3, <5>1, RunsOutBound, RuleTypes, HalfWindow
      <4>3. rule.first + 2 * Day < pass.at
        BY <4>2, RuleTypes, HalfWindow, Constants
      <4>4. o + Length <= d + 3 * Day
        BY <3>5, <3>6, RuleTypes, Constants
      <4>5. o \in Int /\ o + Length <= rule.first + 2 * Day
        BY <3>5, <3>6, <4>1, <4>4, RuleTypes, Constants
      <4>6. QED
        BY <4>3, <4>5, RuleTypes, Constants
    <3>9. QED
      BY <3>6, <3>7, <3>8
  <2>9. QED
    BY <1>2, <1>3, <2>7, <2>8 DEF RuleInv
<1>6. QED
  BY <1>1, <1>4, <1>5

LEMMA RuleDelete ==
    ASSUME TypeOK, KindInv, RuleInv, DeleteRecurringRule PROVE RuleInv'
<1>1. /\ Edited /\ call # NoCall /\ call' = NoCall
      /\ UNCHANGED rule \/ rule'.id = 0
      /\ UNCHANGED <<kind, now, view, pass, basis, offset, calls, want, excused>>
  BY DeleteEffect DEF Edited
<1>2. IdInv'
  BY <1>1, RuleTypes DEF RuleInv, IdInv, Used, Added, Edited
<1>3. TodInv'
  BY <1>1 DEF RuleInv, TodInv, About, Edited
<1>4. DayInv'
  BY <1>1 DEF RuleInv, DayInv, Edited, About, Covers, Room, Start
<1>5. PassInv'
  BY <1>1 DEF RuleInv, PassInv, Kept, Clear, RunsOut, Occurrences
<1>6. QED
  BY <1>2, <1>3, <1>4, <1>5 DEF RuleInv

\* An hour that is free now stays free until the margin is over.
LEMMA NotBusy ==
    ASSUME TypeOK, ~Busy(now)
    PROVE  \A o \in Occurrences(rule) : o + Length <= now \/ now + Margin <= o
<1>1. SUFFICES ASSUME NEW o \in Occurrences(rule)
               PROVE  o + Length <= now \/ now + Margin <= o
  OBVIOUS
<1>2. ~(o <= now /\ now < o + Length) /\ ~(now < o /\ o - now < Margin)
  BY <1>1 DEF Busy, InProgress, Imminent
<1>3. PICK d \in rule.first..rule.last : o = d + rule.tod - offset
  BY <1>1, OccurrenceDay
<1>4. o \in Int /\ now \in Int
  BY <1>3, RuleTypes
<1>5. QED
  BY <1>2, <1>4, Constants

LEMMA RuleRenew ==
    ASSUME TypeOK, TypeOK', KindInv, RuleInv, Renew PROVE RuleInv'
<1>1. /\ UNCHANGED <<kind, now, view, call, basis, offset, calls, want, excused>>
      /\ rule'.id = rule.id /\ rule'.tod = rule.tod /\ rule'.first = rule.first
      /\ pass'.rule \in {pass.rule, rule, NoRule}
  BY RenewEffect
<1>2. IdInv'
  <2>1. Used(0)
    BY RuleTypes DEF RuleInv, IdInv, Used
  <2>2. pass'.rule.id \in {pass.rule.id, rule.id, 0}
    BY <1>1 DEF NoRule, Rule
  <2>3. Used(pass'.rule.id)
    BY <2>1, <2>2 DEF RuleInv, IdInv
  <2>4. QED
    BY <1>1, <2>3 DEF RuleInv, IdInv, Used, Added, Edited
<1>3. TodInv'
  BY <1>1 DEF RuleInv, TodInv, About, Edited
<1>4. CASE GetRecurringRules
  <2>1. UNCHANGED rule /\ pass' = Pass("rules", rule, 0, FALSE)
    BY <1>4 DEF GetRecurringRules
  <2>2. DayInv'
    BY <1>1, <2>1 DEF RuleInv, DayInv, Edited, About, Covers, Room, Start
  <2>3. PassInv'
    BY <2>1 DEF PassInv, Kept, Pass
  <2>4. QED
    BY <1>2, <1>3, <2>2, <2>3 DEF RuleInv
<1>5. CASE GetRecordings
  <2>1. /\ UNCHANGED rule /\ pass.stage = "rules"
        /\ \/ pass' = Pass("both", pass.rule, now, rule.id = pass.rule.id /\ Busy(now))
           \/ pass' = Pass("both", pass.rule, now, TRUE)
    BY <1>5 DEF GetRecordings
  <2>2. /\ pass'.stage = "both" /\ pass'.rule = pass.rule /\ pass'.at = now
        /\ ~pass'.busy => rule.id # pass.rule.id \/ ~Busy(now)
    <3>1. PICK busy \in BOOLEAN : /\ pass' = Pass("both", pass.rule, now, busy)
                                  /\ ~busy => rule.id # pass.rule.id \/ ~Busy(now)
      <4>1. (rule.id = pass.rule.id /\ Busy(now)) \in BOOLEAN
        OBVIOUS
      <4>2. QED
        BY <2>1, <4>1, Zenon
    <3>2. QED
      BY <3>1 DEF Pass
  <2>3. DayInv'
    BY <1>1, <2>1 DEF RuleInv, DayInv, Edited, About, Covers, Room, Start
  <2>4. PassInv'
    <3>1. Kept' => pass'.rule.last = rule'.last
      BY <2>1, <2>2 DEF RuleInv, PassInv, Kept
    <3>2. pass'.at <= now' /\ now' < pass'.at + Margin
      BY <1>1, <2>2, RuleTypes, Constants
    <3>3. Kept' /\ ~pass'.busy => Clear'
      <4>1. SUFFICES ASSUME Kept', ~pass'.busy PROVE Clear'
        OBVIOUS
      <4>2. ~Busy(now)
        BY <2>1, <2>2, <4>1 DEF Kept
      <4>3. QED
        BY <1>1, <2>1, <2>2, <4>2, NotBusy DEF Clear, Occurrences
    <3>4. QED
      BY <3>1, <3>2, <3>3 DEF PassInv
  <2>5. QED
    BY <1>2, <1>3, <2>3, <2>4 DEF RuleInv
<1>6. CASE ExtendRecurringRuleEndDate
  <2>1. PassInv'
    BY <1>6 DEF ExtendRecurringRuleEndDate, PassInv, NoPass, Pass
  <2>2. UNCHANGED rule \/ rule.last <= rule'.last
    <3>1. SUFFICES ASSUME pass.rule.on, RunsOut, rule.id = pass.rule.id,
                          rule'.last = Date(pass.at + Window * Day)
                   PROVE  rule.last <= rule'.last
      BY <1>6 DEF ExtendRecurringRuleEndDate, Rule
    <3>2. pass.rule.last = rule.last
      BY <1>6, <3>1 DEF ExtendRecurringRuleEndDate, KindInv, RuleInv, PassInv, Kept
    <3>3. rule.last < pass.at + (Window \div 2) * Day
      BY <3>1, <3>2, RunsOutBound
    <3>4. pass.at + Window * Day \in Int
      BY RuleTypes, HalfWindow
    <3>5. pass.at + Window * Day < rule'.last + Day /\ rule'.last \in Int
      BY <3>1, <3>4, MidnightFacts DEF Date
    <3>6. QED
      BY <3>3, <3>5, RuleTypes, HalfWindow, Constants
  <2>3. DayInv'
    <3>1. \A f \in Int : Covers(f) => Covers(f)'
      BY <1>1, <2>2, RuleTypes, HalfWindow DEF Covers, TypeOK, Rules
    <3>2. QED
      BY <1>1, <3>1, RuleTypes DEF RuleInv, DayInv, Edited, About, Room, Start
  <2>4. QED
    BY <1>2, <1>3, <2>1, <2>3 DEF RuleInv
<1>7. QED
  BY <1>4, <1>5, <1>6 DEF Renew

LEMMA RuleTick ==
    ASSUME TypeOK, KindInv, RuleInv, kind = "recurring", Tick PROVE RuleInv'
<1>1. /\ now' = now + 1
      /\ pass.stage # "idle" => pass.stage = "both" /\ now + 1 - pass.at < Margin
      /\ UNCHANGED <<kind, view, call, rule, pass, basis, offset, calls, want, excused>>
  BY DEF Tick, renewal, history, NoPass, Pass
<1>2. IdInv' /\ TodInv'
  BY <1>1 DEF RuleInv, IdInv, Used, Added, Edited, TodInv, About
<1>3. DayInv'
  BY <1>1, RuleTypes, Constants DEF RuleInv, DayInv, Edited, About, Covers, Room, Start
<1>4. PassInv'
  BY <1>1, RuleTypes, Constants DEF RuleInv, PassInv, Kept, Clear, RunsOut, Occurrences
<1>5. QED
  BY <1>2, <1>3, <1>4 DEF RuleInv

LEMMA RuleClocks ==
    ASSUME TypeOK, KindInv, RuleInv, ClocksChange PROVE RuleInv'
<1>1. /\ pass.stage = "idle"
      /\ ~excused' => ~excused /\ call = NoCall
      /\ UNCHANGED <<kind, now, view, call, rule, pass, basis, calls, want>>
  <2>1. excused' = (excused \/ call # NoCall)
    BY DEF ClocksChange
  <2>2. QED
    BY <2>1 DEF ClocksChange, NoPass, Pass, renewal
<1>2. IdInv' /\ TodInv'
  BY <1>1 DEF RuleInv, IdInv, Used, Added, Edited, TodInv, About
<1>3. DayInv' /\ PassInv'
  BY <1>1 DEF RuleInv, DayInv, Edited, About, Covers, Room, Start, PassInv
<1>4. QED
  BY <1>2, <1>3 DEF RuleInv

\* With a recurring rule the invariant above holds; without, there is no rule and no round.
Inv2 == Inv1 /\ IF kind = "recurring" THEN RuleInv ELSE pass.stage = "idle" /\ rule = NoRule

LEMMA Inv2Init == Init => Inv2
<1>1. Init => Inv1
  BY InitType, KindInit, OnceInit, SeriesInit DEF Inv1
<1>2. Init => pass.stage = "idle" /\ rule = NoRule
  BY DEF Init, NoPass, Pass
<1>3. QED
  BY <1>1, <1>2, RuleInit DEF Inv2

LEMMA Inv2Step == Inv2 /\ [Next]_vars => Inv2'
<1>1. SUFFICES ASSUME Inv2, [Next]_vars PROVE Inv2'
  OBVIOUS
<1>2. TypeOK /\ KindInv /\ Inv1'
  BY <1>1, TypeStep, KindStep, OnceStep, SeriesStep DEF Inv1, Inv2
<1>3. CASE kind # "recurring"
  BY <1>1, <1>2, <1>3, NoRounds DEF Inv2
<1>4. CASE kind = "recurring"
  <2>1. RuleInv
    BY <1>1, <1>4 DEF Inv2
  <2>2. ASSUME Kodi PROVE RuleInv'
    <3>1. Refresh \/ \E timer \in Shown : KodiCall(timer)
      BY <1>2, <2>2, KodiStep
    <3>2. QED
      BY <1>2, <1>4, <2>1, <3>1, RuleRefresh, RuleCall
  <2>3. ASSUME Recurring PROVE RuleInv'
    BY <1>2, <1>4, <2>1, <2>3, RuleCreate, RuleUpdate, RuleDelete, RuleRenew DEF Recurring, Inv1
  <2>4. ASSUME Tick PROVE RuleInv'
    BY <1>2, <1>4, <2>1, <2>4, RuleTick
  <2>5. ASSUME ClocksChange PROVE RuleInv'
    BY <1>2, <2>1, <2>5, RuleClocks
  <2>6. ASSUME Single \/ Series \/ ExtendedElsewhere \/ GuideChanges \/ UNCHANGED vars
        PROVE  RuleInv'
    BY <1>2, <1>4, <2>1, <2>6, Aside, RuleAside
  <2>7. RuleInv'
    BY <1>1, <2>2, <2>3, <2>4, <2>5, <2>6 DEF Next
  <2>8. kind' = kind
    <3>1. CASE Kodi
      <4>1. CASE Refresh
        BY <4>1 DEF Refresh
      <4>2. ASSUME NEW timer \in Shown, KodiCall(timer) PROVE kind' = kind
        BY <4>2, BeginEffect DEF KodiCall
      <4>3. QED
        BY <1>2, <3>1, <4>1, <4>2, KodiStep
    <3>2. CASE Recurring
      BY <1>2, <3>2, CreateEffect, UpdateEffect, DeleteEffect, RenewEffect DEF Recurring
    <3>3. CASE Single \/ Series \/ ExtendedElsewhere \/ GuideChanges \/ UNCHANGED vars
      BY <1>2, <1>4, <3>3, Aside
    <3>4. CASE Tick \/ ClocksChange
      BY <3>4 DEF Tick, ClocksChange
    <3>5. QED
      BY <1>1, <3>1, <3>2, <3>3, <3>4 DEF Next
  <2>9. QED
    BY <1>2, <1>4, <2>7, <2>8 DEF Inv2
<1>5. QED
  BY <1>3, <1>4

LEMMA Inv2Correct == Spec => []Inv2
  BY Inv2Init, Inv2Step, PTL DEF Spec

\* Enabling and disabling a rule leaves its time of day as it was, for any offset,
\* unless the clocks changed between Kodi's reading the rule and handing it back.
THEOREM TodKeptHolds == Spec => []TodKept
<1>1. Inv2 => TodKept
  <2>1. SUFFICES ASSUME Inv2, rule # NoRule, ~excused PROVE rule.tod = want.tod
    BY DEF TodKept
  <2>2. RuleInv /\ rule.id # 0
    BY <2>1 DEF Inv2, Inv1, KindInv
  <2>3. QED
    BY <2>1, <2>2 DEF RuleInv, TodInv
<1>2. QED
  BY <1>1, Inv2Correct, PTL

\* A deletion returns when the server has done it.
LEMMA DeletionEnds ==
    ASSUME TypeOK, KindInv, Next, call # NoCall, call.op = "delete", call' = NoCall
    PROVE  StopRecording \/ DeleteRecording \/ DeleteSeriesRule \/ DeleteRecurringRule
<1>1. ASSUME Kodi PROVE FALSE
  <2>1. CASE Refresh
    BY <1>1, <2>1 DEF Refresh
  <2>2. ASSUME NEW timer \in Shown, KodiCall(timer) PROVE FALSE
    BY <2>2, BeginEffect DEF KodiCall
  <2>3. QED
    BY <1>1, <2>1, <2>2, KodiStep
<1>2. ASSUME Single PROVE StopRecording \/ DeleteRecording
  BY <1>2 DEF Single, CreateOneTimeRecording, FindRecordingById, ExtendRecording,
     UpdateOneTimeRecording, Called
<1>3. ASSUME Series PROVE DeleteSeriesRule
  BY <1>3 DEF Series, CreateSeriesRule, Called
<1>4. ASSUME Recurring PROVE DeleteRecurringRule
  BY <1>4 DEF Recurring, Renew, CreateRecurringRule, UpdateRecurringRule, GetRecurringRules,
     GetRecordings, ExtendRecurringRuleEndDate, OnlyPass, Called
<1>5. ASSUME Tick \/ ExtendedElsewhere \/ GuideChanges \/ ClocksChange PROVE FALSE
  BY <1>5 DEF Tick, ExtendedElsewhere, GuideChanges, ClocksChange
<1>6. QED
  BY <1>1, <1>2, <1>3, <1>4, <1>5 DEF Next

\* What Kodi deletes is gone when the call returns, for each kind of timer: the call
\* reaches the object on the server that the timer was made from.
THEOREM DeletedIsGoneHolds == Spec => DeletedIsGone
<1> DEFINE Gone == call # NoCall /\ call.op = "delete" /\ call' = NoCall /\ ~excused'
                     => GetTimers' = NoTimer \/ GetTimers'.index # call.timer.index
<1>1. Inv2 /\ Next => Gone
  <2>1. SUFFICES ASSUME Inv2, Next, call # NoCall, call.op = "delete", call' = NoCall, ~excused'
                 PROVE  GetTimers' = NoTimer \/ GetTimers'.index # call.timer.index
    OBVIOUS
  <2>2. TypeOK /\ KindInv /\ OnceInv /\ SeriesInv /\ Edited
    BY <2>1 DEF Inv2, Inv1, Edited
  <2>3. CASE StopRecording \/ DeleteRecording
    <3>1. kind = "once" /\ kind' = "once"
      BY <2>2, <2>3, CalledKind DEF StopRecording, DeleteRecording, Return
    <3>2. rec'.status \notin {"waiting", "recording"}
      BY <2>2, <2>3, <3>1 DEF StopRecording, DeleteRecording, ForceDelete, OnceInv, Begun,
         Recording, NoRec, TypeOK, Status, Lost
    <3>3. QED
      BY <3>1, <3>2 DEF GetTimers, RecordingTimer
  <2>4. CASE DeleteSeriesRule
    <3>1. kind = "series" /\ kind' = "series"
      BY <2>2, <2>4, CalledKind DEF DeleteSeriesRule, Return
    <3>2. ~excused /\ series' = series \ {guide}
      <4>1. PICK tvg \in {guide, "own"} : Resolve(tvg) /\ series' = series \ {Identity(tvg)}
        BY <2>4 DEF DeleteSeriesRule
      <4>2. tvg = guide /\ UNCHANGED excused
        BY <2>1, <4>1 DEF Resolve
      <4>3. QED
        BY <2>1, <4>1, <4>2 DEF Identity
    <3>3. series' = {}
      BY <2>2, <3>2 DEF SeriesInv
    <3>4. QED
      BY <3>1, <3>3 DEF GetTimers, SeriesTimer
  <2>5. CASE DeleteRecurringRule
    <3>1. /\ kind' = "recurring"
          /\ (UNCHANGED rule /\ rule.id # call.timer.index.n) \/ rule' = NoRule
      BY <2>2, <2>5, DeleteEffect
    <3>2. CASE rule' = NoRule
      BY <3>1, <3>2 DEF GetTimers
    <3>3. CASE rule' # NoRule
      <4>1. GetTimers' = RuleTimer(rule)'
        BY <3>1, <3>3 DEF GetTimers
      <4>2. GetTimers'.index.n = rule'.id
        BY <4>1 DEF RuleTimer, Timer, Index
      <4>3. QED
        BY <3>1, <3>3, <4>2
    <3>4. QED
      BY <3>2, <3>3
  <2>6. QED
    BY <2>1, <2>2, <2>3, <2>4, <2>5, DeletionEnds
<1>2. ASSUME UNCHANGED vars PROVE Gone
  BY <1>2 DEF vars
<1>3. Inv2 /\ [Next]_vars => [Gone]_vars
  BY <1>1, <1>2
<1>4. QED
  BY <1>3, Inv2Correct, PTL DEF Spec, DeletedIsGone

\* The renewal leaves a rule alone while an occurrence of it is being recorded, for any
\* window, margin and offsets, however the rule is edited between its reading the rules
\* and its changing one.
THEOREM RenewSparesOccurrenceHolds == Spec => RenewSparesOccurrence
<1> DEFINE Spared == ~excused /\ pass.stage = "both" /\ rule'.id = rule.id /\ rule'.last # rule.last
                       => ~InProgress(rule, now)
<1>1. Inv2 /\ [Next]_vars => Spared
  <2>1. SUFFICES ASSUME Inv2, [Next]_vars, ~excused, pass.stage = "both", rule'.id = rule.id,
                        rule'.last # rule.last
                 PROVE  ~InProgress(rule, now)
    OBVIOUS
  <2>2. TypeOK /\ KindInv /\ RuleInv /\ kind = "recurring"
    BY <2>1 DEF Inv2, Inv1
  <2>3. ExtendRecurringRuleEndDate
    <3>1. ASSUME Kodi PROVE FALSE
      <4>1. CASE Refresh
        BY <2>1, <4>1 DEF Refresh, server
      <4>2. ASSUME NEW timer \in Shown, KodiCall(timer) PROVE FALSE
        BY <2>1, <4>2, BeginEffect DEF KodiCall
      <4>3. QED
        BY <2>2, <3>1, <4>1, <4>2, KodiStep
    <3>2. ~CreateRecurringRule
      BY <2>1, <2>2, CreateEffect, RuleTypes DEF RuleInv, IdInv, KindInv, Added
    <3>3. ~UpdateRecurringRule /\ ~DeleteRecurringRule
      <4>1. ~UpdateRecurringRule
        BY <2>1, <2>2, UpdateEffect
      <4>2. ~DeleteRecurringRule
        BY <2>1, <2>2, DeleteEffect DEF KindInv
      <4>3. QED
        BY <4>1, <4>2
    <3>4. ~GetRecurringRules /\ ~GetRecordings
      BY <2>1 DEF GetRecurringRules, GetRecordings
    <3>5. ~(Single \/ Series \/ ExtendedElsewhere \/ GuideChanges \/ UNCHANGED vars)
      BY <2>1, <2>2, Aside
    <3>6. ~(Tick \/ ClocksChange)
      BY <2>1 DEF Tick, ClocksChange
    <3>7. QED
      BY <2>1, <3>1, <3>2, <3>3, <3>4, <3>5, <3>6 DEF Next, Recurring, Renew
  <2>4. pass.rule.on /\ RunsOut /\ ~pass.busy /\ rule.id = pass.rule.id
    BY <2>1, <2>3 DEF ExtendRecurringRuleEndDate
  <2>5. Kept
    BY <2>2, <2>4 DEF KindInv, Kept
  <2>6. Clear /\ pass.at <= now /\ now < pass.at + Margin
    BY <2>1, <2>2, <2>4, <2>5 DEF RuleInv, PassInv
  <2>7. SUFFICES ASSUME NEW o \in Occurrences(rule), o <= now, now < o + Length PROVE FALSE
    BY DEF InProgress
  <2>8. o + Length <= pass.at \/ pass.at + Margin <= o
    BY <2>6, <2>7 DEF Clear
  <2>9. o \in Int
    BY <2>2, <2>7, OccurrenceDay, RuleTypes
  <2>10. QED
    BY <2>2, <2>6, <2>7, <2>8, <2>9, RuleTypes, Constants
<1>2. Inv2 /\ [Next]_vars => [Spared]_vars
  BY <1>1
<1>3. QED
  BY <1>2, Inv2Correct, PTL DEF Spec, RenewSparesOccurrence

-----------------------------------------------------------------------------
(* Renewal in time.  Rounds are so frequent, and a day leaves so much time    *)
(* between the end of one occurrence and the margin before the next, that     *)
(* every day has a round that nothing holds back, whatever the clocks do.     *)

\* two rounds begin no further apart than this
Longest == IF Period < Margin THEN Margin - 1 ELSE Period

\* The time between an occurrence and the margin before the next has room for a
\* round whatever value, between lo and hi, the offset has at both.  An hour's
\* summer time, the margin of an hour and a round every few minutes leave an
\* occurrence 21 hours of its day.
Roomy(lo, hi) ==
    /\ lo \in Int /\ hi \in Int /\ Offset \subseteq lo..hi
    /\ Length + Margin + (hi - lo) + Longest <= Day + 1

Slack == \E lo, hi \in Int : Roomy(lo, hi)

\* when the occurrence of day d is over, whatever the offset
Over(lo, d) == d + rule.tod - lo + Length

\* the rule is running out by then
Due(lo, d) == d % Day = 0 /\ rule.last - (Window \div 2) * Day < Over(lo, d)

\* the round under way has read the rule, and nothing holds it back
Unhindered ==
    /\ pass.stage # "idle" /\ pass.rule = rule
    /\ pass.stage = "both" => ~pass.busy

RoundsInv(lo) ==
    /\ offset \in Offset
    /\ seen <= now
    /\ pass.stage = "idle" => now <= seen + Longest
    /\ pass.stage = "rules" => now = seen
    /\ pass.stage = "both" => pass.at = seen /\ now < seen + Margin
    /\ rule.on /\ ~late =>
          \A d \in Int : Due(lo, d) =>
              \/ seen < Over(lo, d)
              \/ seen < Over(lo, d) + Longest /\ Unhindered

LEMMA LongestType ==
    /\ Longest \in Nat /\ Period <= Longest /\ Margin - 1 <= Longest /\ 1 <= Longest
  BY Constants DEF Longest

\* The hours the spare time is made of are free under every offset.
LEMMA Free ==
    ASSUME TypeOK, NEW lo \in Int, NEW hi \in Int, Roomy(lo, hi), offset \in Offset,
           NEW d \in Int, d % Day = 0, Over(lo, d) <= now, now < Over(lo, d) + Longest
    PROVE  ~Busy(now)
<1>1. SUFFICES ASSUME NEW o \in Occurrences(rule)
               PROVE  ~(o <= now /\ now < o + Length) /\ ~Imminent(o, now)
  BY DEF Busy, InProgress
<1>2. PICK e \in rule.first..rule.last : e % Day = 0 /\ o = e + rule.tod - offset
  BY OccurrenceDay
<1>3. /\ e \in Int /\ rule.tod \in Int /\ offset \in Int /\ now \in Int /\ o \in Int
      /\ lo <= offset /\ offset <= hi
  BY <1>2, RuleTypes DEF Roomy
<1>4. CASE e <= d
  <2>1. o + Length <= Over(lo, d)
    BY <1>2, <1>3, <1>4, Constants DEF Over
  <2>2. o + Length <= now /\ o <= now
    BY <1>3, <2>1, Constants DEF Over
  <2>3. QED
    BY <1>3, <2>2, Constants DEF Imminent
<1>5. CASE d < e
  <2>1. d + Day <= e
    BY <1>2, <1>3, <1>5, Apart
  <2>2. d + Day + rule.tod - hi <= o
    <3>1. \A x, y, z, u, v \in Int : x <= y /\ u <= v => x + z - v <= y + z - u
      OBVIOUS
    <3>2. d + Day \in Int
      BY Constants
    <3>3. QED
      BY <1>2, <1>3, <2>1, <3>1, <3>2
  <2>3. Over(lo, d) + Longest + Margin <= d + Day + rule.tod - hi + 1
    BY <1>3, LongestType, Constants DEF Roomy, Over
  <2>4. now + Margin <= o
    BY <1>3, <2>2, <2>3, LongestType, Constants DEF Over
  <2>5. QED
    BY <1>3, <2>4, Constants DEF Imminent
<1>6. QED
  BY <1>3, <1>4, <1>5

\* A step that touches neither rule, round nor clock.
LEMMA RoundsKept ==
    ASSUME NEW lo \in Int, RoundsInv(lo), offset' \in Offset,
           UNCHANGED <<now, seen, late, rule, pass>>
    PROVE  RoundsInv(lo)'
  BY DEF RoundsInv, Due, Over, Unhindered

LEMMA RoundsInit == ASSUME Init, kind = "recurring", NEW lo \in Int PROVE RoundsInv(lo)
<1>1. offset \in Offset /\ seen = now /\ pass.stage = "idle" /\ ~rule.on /\ now \in Nat
  BY Constants DEF Init, NoPass, Pass, NoRule, Rule, Start
<1>2. QED
  BY <1>1, LongestType DEF RoundsInv

\* A rule that is not running out yet leaves all its spare time ahead.
LEMMA NotShort ==
    ASSUME TypeOK, TypeOK', NEW lo \in Int, RoundsInv(lo), ~Short(rule)', now' = now,
           UNCHANGED <<seen, pass, offset>>
    PROVE  RoundsInv(lo)'
<1>1. ASSUME NEW d \in Int, Due(lo, d)' PROVE seen' < Over(lo, d)'
  <2>1. /\ now' \in Int /\ rule'.last \in Int /\ seen \in Int /\ rule'.tod \in Int
        /\ seen <= now
    BY RuleTypes DEF TypeOK, RoundsInv, Rules
  <2>2. (Window \div 2) * Day <= rule'.last - now'
    BY <2>1, HalfWindow DEF Short
  <2>3. rule'.last - (Window \div 2) * Day < Over(lo, d)' /\ Over(lo, d)' \in Int
    BY <1>1, <2>1, Constants DEF Due, Over
  <2>4. QED
    BY <2>1, <2>2, <2>3, HalfWindow
<1>2. QED
  BY <1>1 DEF RoundsInv

LEMMA RoundsCreate ==
    ASSUME TypeOK, TypeOK', KindInv, NEW lo \in Int, RoundsInv(lo), CreateRecurringRule
    PROVE  RoundsInv(lo)'
<1>1. /\ late' = Short(rule)'
      /\ UNCHANGED <<now, seen, pass, offset>>
  BY DEF CreateRecurringRule, Return, OnlyRule, renewal, Short
<1>2. CASE Short(rule)'
  BY <1>1, <1>2 DEF RoundsInv
<1>3. CASE ~Short(rule)'
  BY <1>1, <1>3, NotShort
<1>4. QED
  BY <1>2, <1>3

LEMMA RoundsUpdate ==
    ASSUME TypeOK, TypeOK', NEW lo \in Int, RoundsInv(lo), UpdateRecurringRule
    PROVE  RoundsInv(lo)'
<1>1. /\ \/ late' = (late \/ Short(rule)')
         \/ UNCHANGED <<rule, late>>
      /\ UNCHANGED <<now, seen, pass, offset>>
  BY DEF UpdateRecurringRule, Return, OnlyRule, renewal, Short
<1>2. CASE UNCHANGED <<rule, late>>
  BY <1>1, <1>2, RoundsKept DEF RoundsInv
<1>3. CASE late' = (late \/ Short(rule)') /\ Short(rule)'
  BY <1>1, <1>3 DEF RoundsInv
<1>4. CASE ~Short(rule)'
  BY <1>1, <1>4, NotShort
<1>5. QED
  BY <1>1, <1>2, <1>3, <1>4

LEMMA RoundsDelete ==
    ASSUME NEW lo \in Int, RoundsInv(lo), DeleteRecurringRule
    PROVE  RoundsInv(lo)'
<1>1. /\ rule' = NoRule \/ UNCHANGED rule
      /\ UNCHANGED <<now, seen, pass, offset, late>>
  BY DEF DeleteRecurringRule, Return, OnlyRule, renewal
<1>2. CASE UNCHANGED rule
  BY <1>1, <1>2, RoundsKept DEF RoundsInv
<1>3. CASE rule' = NoRule
  <2>1. ~rule'.on
    BY <1>3 DEF NoRule, Rule
  <2>2. QED
    BY <1>1, <2>1 DEF RoundsInv
<1>4. QED
  BY <1>1, <1>2, <1>3

\* A round begins: if some spare time has begun, it is not over yet.
LEMMA RoundsBegin ==
    ASSUME TypeOK, NEW lo \in Int, RoundsInv(lo), GetRecurringRules
    PROVE  RoundsInv(lo)'
<1>1. /\ pass.stage = "idle" /\ seen' = now /\ UNCHANGED <<now, rule, late, offset>>
      /\ pass' = [stage |-> "rules", rule |-> rule, at |-> 0, busy |-> FALSE]
  BY DEF GetRecurringRules, OnlyPass, NoPass, Pass
<1>2. pass'.stage = "rules" /\ pass'.rule = rule
  BY <1>1
<1>3. Unhindered'
  BY <1>1, <1>2 DEF Unhindered
<1>4. now \in Int /\ seen \in Int /\ rule.tod \in Int
  BY RuleTypes DEF TypeOK
<1>5. ASSUME rule.on, ~late, NEW d \in Int, Due(lo, d)
      PROVE  now < Over(lo, d) \/ now < Over(lo, d) + Longest
  <2>1. seen < Over(lo, d) /\ now <= seen + Longest
    BY <1>1, <1>5 DEF RoundsInv, Unhindered
  <2>2. Over(lo, d) \in Int
    BY <1>4, Constants DEF Over
  <2>3. QED
    BY <1>4, <2>1, <2>2, LongestType
<1>6. \A d \in Int : (Due(lo, d)' <=> Due(lo, d)) /\ Over(lo, d)' = Over(lo, d)
  BY <1>1 DEF Due, Over
<1>7. QED
  BY <1>1, <1>2, <1>3, <1>4, <1>5, <1>6 DEF RoundsInv

\* The recordings are read: in the spare time the rule is not busy.
LEMMA RoundsLook ==
    ASSUME TypeOK, NEW lo \in Int, NEW hi \in Int, Roomy(lo, hi), RoundsInv(lo), GetRecordings
    PROVE  RoundsInv(lo)'
<1>1. /\ pass.stage = "rules" /\ UNCHANGED <<now, rule, seen, offset>>
      /\ \/ /\ pass' = Pass("both", pass.rule, now, rule.id = pass.rule.id /\ Busy(now))
            /\ late' = late
         \/ /\ pass' = Pass("both", pass.rule, now, TRUE)
            /\ late' = TRUE
  BY DEF GetRecordings, OnlyPass
<1>2. PICK busy \in BOOLEAN : /\ pass' = Pass("both", pass.rule, now, busy)
                              /\ (late' = late /\ (busy => Busy(now))) \/ late' = TRUE
  <2>1. (rule.id = pass.rule.id /\ Busy(now)) \in BOOLEAN
    OBVIOUS
  <2>2. QED
    BY <1>1, <2>1, Zenon
<1>3. pass'.stage = "both" /\ pass'.rule = pass.rule /\ pass'.at = now /\ pass'.busy = busy
  BY <1>2 DEF Pass
<1>4. now = seen /\ now \in Int /\ rule.tod \in Int /\ offset \in Offset
  BY <1>1, RuleTypes DEF RoundsInv
<1>5. \A d \in Int : (Due(lo, d)' <=> Due(lo, d)) /\ Over(lo, d)' = Over(lo, d)
  BY <1>1 DEF Due, Over
<1>6. ASSUME rule.on, ~late', NEW d \in Int, Due(lo, d), ~(seen < Over(lo, d))
      PROVE  seen < Over(lo, d) + Longest /\ Unhindered'
  <2>1. ~late /\ (busy => Busy(now))
    BY <1>2, <1>6
  <2>2. seen < Over(lo, d) + Longest /\ pass.rule = rule
    BY <1>6, <2>1 DEF RoundsInv, Unhindered
  <2>3. Over(lo, d) <= now
    BY <1>4, <1>6, Constants DEF Over
  <2>4. ~Busy(now)
    BY <1>4, <1>6, <2>2, <2>3, Free DEF Due
  <2>5. QED
    BY <1>1, <1>3, <2>1, <2>2, <2>4 DEF Unhindered
<1>7. now' < pass'.at + Margin
  BY <1>1, <1>3, <1>4, Constants
<1>8. QED
  BY <1>1, <1>3, <1>4, <1>5, <1>6, <1>7 DEF RoundsInv

\* What has less than half a window left runs out.
LEMMA RunsOutIf ==
    ASSUME TypeOK, pass.rule.last - (Window \div 2) * Day < pass.at PROVE RunsOut
<1>1. DEFINE left == pass.rule.last - pass.at
<1>2. left \in Int /\ left < (Window \div 2) * Day /\ Window \div 2 \in Int
  BY RuleTypes, HalfWindow
<1> HIDE DEF left
<1>3. left \div Day \in Int /\ Day * (left \div Day) <= left
  <2>1. /\ left \div Day \in Int /\ left % Day \in 0..(Day - 1)
        /\ left = Day * (left \div Day) + (left % Day)
    BY <1>2, Division
  <2>2. QED
    BY <1>2, <2>1, Constants
<1>4. Day * (left \div Day) < Day * (Window \div 2)
  BY <1>2, <1>3, HalfWindow, Constants
<1>5. left \div Day < Window \div 2
  BY <1>2, <1>3, <1>4, Constants
<1>6. QED
  BY <1>5 DEF left, RunsOut

\* The round ends: a rule that has met spare time is extended, and then all its
\* spare time lies ahead.
LEMMA RoundsEnd ==
    ASSUME TypeOK, TypeOK', NEW lo \in Int, RoundsInv(lo), now <= seen + Longest,
           ExtendRecurringRuleEndDate
    PROVE  RoundsInv(lo)'
<1>1. /\ pass.stage = "both" /\ pass'.stage = "idle" /\ UNCHANGED <<now, seen, offset>>
      /\ pass.at = seen /\ now \in Int /\ seen \in Int
  BY DEF ExtendRecurringRuleEndDate, OnlyPass, NoPass, Pass, RoundsInv, TypeOK
<1>2. CASE UNCHANGED <<rule, late>>
            /\ ~(pass.rule.on /\ RunsOut /\ ~pass.busy /\ rule.id = pass.rule.id)
  <2>1. \A d \in Int : (Due(lo, d)' <=> Due(lo, d)) /\ Over(lo, d)' = Over(lo, d)
    BY <1>2 DEF Due, Over
  <2>2. ASSUME rule.on, ~late, NEW d \in Int, Due(lo, d) PROVE seen < Over(lo, d)
    <3>1. SUFFICES ASSUME ~(seen < Over(lo, d)) PROVE FALSE
      OBVIOUS
    <3>2. pass.rule = rule /\ ~pass.busy
      BY <1>1, <2>2, <3>1 DEF RoundsInv, Unhindered
    <3>3. Over(lo, d) \in Int
      BY RuleTypes, Constants DEF Over
    <3>4. pass.rule.last - (Window \div 2) * Day < pass.at
      BY <1>1, <2>2, <3>1, <3>2, <3>3, RuleTypes, HalfWindow DEF Due
    <3>5. QED
      BY <1>2, <2>2, <3>2, <3>4, RunsOutIf
  <2>3. QED
    BY <1>1, <1>2, <2>1, <2>2 DEF RoundsInv
<1>3. CASE rule'.last = Date(pass.at + Window * Day)
  <2>1. pass.at + Window * Day \in Int
    BY <1>1, HalfWindow
  <2>2. pass.at + Window * Day < rule'.last + Day /\ rule'.last \in Int
    BY <1>3, <2>1, MidnightFacts DEF Date
  <2>3. ASSUME NEW d \in Int, Due(lo, d)' PROVE seen' < Over(lo, d)'
    <3>1. rule'.tod \in Int
      BY DEF TypeOK, Rules
    <3>2. Over(lo, d)' \in Int /\ rule'.last - (Window \div 2) * Day < Over(lo, d)'
      BY <2>3, <3>1, Constants DEF Over, Due
    <3>3. QED
      BY <1>1, <2>2, <3>2, HalfWindow, Constants
  <2>4. QED
    BY <1>1, <2>3 DEF RoundsInv
<1>4. QED
  BY <1>2, <1>3 DEF ExtendRecurringRuleEndDate, Rule

LEMMA RoundsTick ==
    ASSUME TypeOK, NEW lo \in Int, RoundsInv(lo), kind = "recurring", Tick
    PROVE  RoundsInv(lo)'
<1>1. /\ now' = now + 1 /\ now \in Int /\ seen \in Int
      /\ UNCHANGED <<seen, late, rule, pass, offset>>
      /\ \/ pass = NoPass /\ now - seen < Period
         \/ pass.stage = "both" /\ now + 1 - pass.at < Margin
  BY DEF Tick, renewal, history, TypeOK
<1>2. CASE pass = NoPass /\ now - seen < Period
  <2>1. pass.stage = "idle" /\ now' <= seen + Longest /\ seen <= now'
    BY <1>1, <1>2, LongestType, Constants DEF NoPass, Pass, RoundsInv
  <2>2. QED
    BY <1>1, <2>1 DEF RoundsInv, Due, Over, Unhindered
<1>3. CASE pass.stage = "both" /\ now + 1 - pass.at < Margin
  <2>1. pass.at = seen /\ now' < seen + Margin /\ seen <= now'
    BY <1>1, <1>3, Constants DEF RoundsInv
  <2>2. QED
    BY <1>1, <1>3, <2>1 DEF RoundsInv, Due, Over, Unhindered
<1>4. QED
  BY <1>1, <1>2, <1>3

LEMMA RoundsLast ==
    ASSUME TypeOK, NEW lo \in Int, RoundsInv(lo)
    PROVE  now <= seen + Longest
<1>1. pass.stage \in {"idle", "rules", "both"} /\ now \in Int /\ seen \in Int
  BY DEF TypeOK
<1>2. QED
  BY <1>1, LongestType, Constants DEF RoundsInv

LEMMA RoundsStep ==
    ASSUME Inv2, Inv2', kind = "recurring", NEW lo \in Int, NEW hi \in Int, Roomy(lo, hi),
           RoundsInv(lo), [Next]_vars
    PROVE  RoundsInv(lo)'
<1>1. TypeOK /\ TypeOK' /\ KindInv /\ offset \in Offset
  BY DEF Inv2, Inv1, RoundsInv
<1>2. CASE Kodi
  <2>1. UNCHANGED <<now, seen, late, rule, pass, offset>>
    BY <1>2 DEF Kodi, Refresh, KodiAdds, KodiEdits, KodiDeletes, Begin, server, renewal
  <2>2. QED
    BY <1>1, <2>1, RoundsKept
<1>3. CASE Single \/ Series \/ ExtendedElsewhere \/ GuideChanges \/ UNCHANGED vars
  <2>1. UNCHANGED <<rule, pass, now, offset>>
    BY <1>1, <1>3, Aside
  <2>2. UNCHANGED <<seen, late>>
    BY <1>3 DEF Single, Series, CreateOneTimeRecording, FindRecordingById, ExtendRecording,
       UpdateOneTimeRecording, StopRecording, DeleteRecording, CreateSeriesRule, DeleteSeriesRule,
       ExtendedElsewhere, GuideChanges, Return, OnlyRec, OnlySeries, renewal, vars, history
  <2>3. QED
    BY <1>1, <2>1, <2>2, RoundsKept
<1>4. CASE CreateRecurringRule
  BY <1>1, <1>4, RoundsCreate
<1>5. CASE UpdateRecurringRule
  BY <1>1, <1>5, RoundsUpdate
<1>6. CASE DeleteRecurringRule
  BY <1>6, RoundsDelete
<1>7. CASE GetRecurringRules
  BY <1>1, <1>7, RoundsBegin
<1>8. CASE GetRecordings
  BY <1>1, <1>8, RoundsLook
<1>9. CASE ExtendRecurringRuleEndDate
  BY <1>1, <1>9, RoundsLast, RoundsEnd
<1>10. CASE Tick
  BY <1>1, <1>10, RoundsTick
<1>11. CASE ClocksChange
  <2>1. UNCHANGED <<now, seen, late, rule, pass>> /\ offset' \in Offset
    BY <1>11 DEF ClocksChange, renewal
  <2>2. QED
    BY <2>1, RoundsKept
<1>12. QED
  BY <1>2, <1>3, <1>4, <1>5, <1>6, <1>7, <1>8, <1>9, <1>10, <1>11 DEF Next, Recurring, Renew

Inv3(lo) == Inv2 /\ (kind = "recurring" => RoundsInv(lo))

\* Within the day that follows the moment a rule begins to run out there is spare
\* time, and the round that meets it ends before the rule does.
LEMMA InTime ==
    ASSUME NEW lo \in Int, NEW hi \in Int, Roomy(lo, hi), Inv3(lo)
    PROVE  NeverLapses
<1>1. SUFFICES ASSUME rule.on, ~late PROVE now <= rule.last + Day
  BY DEF NeverLapses
<1>2. TypeOK /\ kind = "recurring" /\ RoundsInv(lo)
  BY <1>1 DEF Inv3, Inv2, Inv1, NoRule, Rule
<1>3. /\ now \in Int /\ seen \in Int /\ rule.tod \in Int /\ rule.last \in Int
      /\ Longest \in Nat /\ (Window \div 2) * Day \in Int
  BY <1>2, RuleTypes, LongestType, HalfWindow DEF TypeOK
<1> DEFINE begin == rule.last - (Window \div 2) * Day
           before == begin - rule.tod + lo - Length
           d == Midnight(before) + Day
<1>4. begin \in Int /\ before \in Int
  BY <1>3, Constants
<1>5. d \in Int /\ d % Day = 0 /\ before < d /\ d <= before + Day
  <2>1. /\ Midnight(before) \in Int /\ Midnight(before) % Day = 0
        /\ Midnight(before) <= before /\ before < Midnight(before) + Day
    BY <1>4, MidnightFacts
  <2>2. (Midnight(before) + 1 * Day) % Day = 0
    BY <2>1, DaysLater
  <2>3. Midnight(before) + 1 * Day = Midnight(before) + Day
    BY <2>1, Constants
  <2>4. QED
    BY <1>4, <2>1, <2>2, <2>3, Constants
<1> HIDE DEF d
<1>6. Over(lo, d) \in Int /\ begin < Over(lo, d) /\ Over(lo, d) <= begin + Day
  BY <1>3, <1>5, Constants DEF Over
<1>7. Due(lo, d)
  BY <1>5, <1>6 DEF Due
<1>8. begin + Day <= rule.last
  <2>1. Window \div 2 >= 1 /\ Window \div 2 \in Int
    BY Constants
  <2>2. (Window \div 2) * Day >= Day
    BY <2>1, Constants
  <2>3. QED
    BY <1>3, <2>2, Constants
<1>9. seen < Over(lo, d) + Longest /\ (pass.stage = "idle" => seen < Over(lo, d))
  BY <1>1, <1>2, <1>3, <1>5, <1>6, <1>7 DEF RoundsInv, Unhindered
<1>10. Longest + Margin <= Day
  <2>1. hi - lo \in Nat
    <3>1. offset \in Int /\ lo <= offset /\ offset <= hi
      BY <1>2, RuleTypes DEF RoundsInv, Roomy
    <3>2. QED
      BY <3>1
  <2>2. Length + Margin + (hi - lo) + Longest <= Day + 1
    BY DEF Roomy
  <2>3. QED
    BY <1>3, <2>1, <2>2, Constants
<1>11. CASE pass.stage = "idle"
  <2>1. now <= seen + Longest
    BY <1>2, <1>11 DEF RoundsInv
  <2>2. QED
    BY <1>3, <1>6, <1>8, <1>9, <1>10, <1>11, <2>1, Constants
<1>12. CASE pass.stage # "idle"
  <2>1. now < seen + Margin
    BY <1>2, <1>3, <1>12, Constants DEF RoundsInv, TypeOK
  <2>2. QED
    BY <1>3, <1>6, <1>8, <1>9, <1>10, <2>1, Constants
<1>13. QED
  BY <1>11, <1>12

\* A rule that stays enabled is renewed before it runs out, however Kodi enables,
\* disables and deletes it and whatever the clocks do, if an occurrence, the margin
\* and the summer time leave a round's time free in a day.
THEOREM NeverLapsesHolds == Slack => (Spec => []NeverLapses)
<1> SUFFICES ASSUME Slack PROVE Spec => []NeverLapses
  OBVIOUS
<1>1. PICK lo \in Int, hi \in Int : Roomy(lo, hi)
  BY DEF Slack
<1>2. Init => Inv3(lo)
  BY Inv2Init, RoundsInit DEF Inv3
<1>3. Inv3(lo) /\ [Next]_vars => Inv3(lo)'
  <2>1. SUFFICES ASSUME Inv3(lo), [Next]_vars PROVE Inv3(lo)'
    OBVIOUS
  <2>2. Inv2'
    BY <2>1, Inv2Step DEF Inv3
  <2>3. CASE kind = "recurring"
    BY <1>1, <2>1, <2>2, <2>3, RoundsStep DEF Inv3
  <2>4. CASE kind # "recurring"
    <3>1. TypeOK /\ KindInv /\ pass.stage = "idle"
      BY <2>1, <2>4 DEF Inv3, Inv2, Inv1
    <3>2. kind' = kind
      BY <2>1, <2>4, <3>1, NoRounds
    <3>3. QED
      BY <2>2, <2>4, <3>2 DEF Inv3
  <2>5. QED
    BY <2>3, <2>4
<1>4. Inv3(lo) => NeverLapses
  BY <1>1, InTime
<1>5. QED
  BY <1>2, <1>3, <1>4, PTL DEF Spec

=============================================================================
