------------------------------ MODULE TimeSpans ------------------------------
(***************************************************************************)
(* Timespans: what the four types match, and how a list of them is         *)
(* evaluated. The clock is read again for every span of the list, so time  *)
(* may pass during an evaluation. Instants are minutes; an hour and a day  *)
(* are parameters, a week has seven days.                                  *)
(*                                                                         *)
(* Scopes.tla abstracts a timespan to the set of instants it matches;      *)
(* Documented is that set, and the properties justify the abstraction.     *)
(***************************************************************************)
EXTENDS Scopes, Sequences

CONSTANTS
  Hour, HoursPerDay,   \* minutes of an hour, hours of a day
  Timezone,            \* the locations
  Offset,              \* [Timezone -> [instant -> local time minus UTC]]
  SpanLists,           \* the timespan lists that are evaluated
  ScopeLists,          \* the scopes that they are evaluated with
  MaxTime,             \* bound: the last instant
  MaxDelay             \* bound: the minutes an evaluation takes

ASSUME TimeAssumption ==
  /\ Hour \in Nat \ {0} /\ HoursPerDay \in Nat \ {0}
  /\ MaxTime \in Nat /\ MaxDelay \in Nat
  /\ Offset \in [Timezone -> [0..MaxTime -> Int]]
  /\ Unset \notin Timezone \cup Int

VARIABLES
  now,
  spans, scopes,       \* the list under evaluation and its scopes
  index,               \* the span that is checked next, 0 if none is
  began,               \* when the evaluation began
  result

vars == <<now, spans, scopes, index, began, result>>

-----------------------------------------------------------------------------
(* The four types; times of day reach from 00:00 to the end of hour 24.    *)

Day == HoursPerDay * Hour

Weekday == 0..6

DayTime == {h * Hour + m : h \in 0..HoursPerDay, m \in 0..(Hour - 1)}

\* Both weekdays may be missing, and the timezone.
Relative ==
  {s \in [type : {"relative"}, weekdayFrom : Weekday \cup {Unset},
          weekdayTo : Weekday \cup {Unset}, timeFrom : DayTime, timeTo : DayTime,
          timezone : Timezone \cup {Unset}] :
     s.weekdayFrom = Unset <=> s.weekdayTo = Unset}

Absolute == [type : {"absolute"}, from : 0..MaxTime, to : 0..MaxTime]

Directional == [type : {"directional"}, mode : {"from", "until"}, time : 0..MaxTime]

Boolean == [type : {"boolean"}, value : BOOLEAN]

IsTimeSpan(s) ==
  \/ s.type = "relative" /\ s \in Relative
  \/ s.type = "absolute" /\ s \in Absolute
  \/ s.type = "directional" /\ s \in Directional
  \/ s.type = "boolean" /\ s \in Boolean

\* The parsers return lists with at least one span, and week frames with both
\* weekdays.
ASSUME ListAssumption ==
  /\ \A l \in SpanLists : /\ Len(l) \in Nat \ {0} /\ DOMAIN l = 1..Len(l)
                           /\ \A i \in DOMAIN l : IsTimeSpan(l[i])
  /\ \A ss \in ScopeLists :
       /\ DOMAIN ss = 1..Len(ss)
       /\ \A i \in DOMAIN ss :
            /\ ss[i].DefaultTimezone \in Timezone \cup {Unset}
            /\ ss[i].DefaultWeekFrame
                 \in [WeekdayFrom : Weekday, WeekdayTo : Weekday] \cup {Unset}

-----------------------------------------------------------------------------
(* Evaluating one of them.                                                 *)

GetDefaultTimezone(ss) == FirstSet(ss, "DefaultTimezone")

\* A week frame always has both weekdays.
GetDefaultWeekday(ss, end) ==
  LET frame == FirstSet(ss, "DefaultWeekFrame")
  IN IF frame = Unset THEN Unset ELSE frame[end]

\* The span with its missing values filled in; they may stay missing.
defaultTimeSpan(s, ss) ==
  [s EXCEPT !.timezone = IF @ = Unset THEN GetDefaultTimezone(ss) ELSE @,
            !.weekdayFrom = IF @ = Unset THEN GetDefaultWeekday(ss, "WeekdayFrom") ELSE @,
            !.weekdayTo = IF @ = Unset THEN GetDefaultWeekday(ss, "WeekdayTo") ELSE @]

IsComplete(s) == s.timezone # Unset /\ s.weekdayFrom # Unset /\ s.weekdayTo # Unset

In(zone, t) == t + Offset[zone][t]
extractDayTime(local) == local % Day
WeekdayOf(local) == (local \div Day) % 7

\* Mutant: a week frame does not wrap across weeks.
inRangeWithoutWrap(s, weekday) == weekday >= s.weekdayFrom /\ weekday <= s.weekdayTo

isWeekdayInRange(s, weekday) ==
  IF s.weekdayFrom <= s.weekdayTo
  THEN weekday >= s.weekdayFrom /\ weekday <= s.weekdayTo
  ELSE weekday >= s.weekdayFrom \/ weekday <= s.weekdayTo

\* Mutant: the end belongs to the span.
inClosedRange(s, timeOfDay) ==
  IF s.timeFrom > s.timeTo
  THEN timeOfDay >= s.timeFrom \/ timeOfDay <= s.timeTo
  ELSE s.timeFrom <= timeOfDay /\ s.timeTo >= timeOfDay

\* The start belongs to the span, the end does not.
isTimeOfDayInRange(s, timeOfDay) ==
  IF s.timeFrom > s.timeTo
  THEN timeOfDay >= s.timeFrom \/ timeOfDay < s.timeTo
  ELSE s.timeFrom <= timeOfDay /\ s.timeTo > timeOfDay

relativeInSpan(s, t) ==
  /\ isTimeOfDayInRange(s, extractDayTime(In(s.timezone, t)))
  /\ isWeekdayInRange(s, WeekdayOf(In(s.timezone, t)))

absoluteInSpan(s, t) == (s.from < t \/ s.from = t) /\ s.to > t

\* Mutant: the span begins after its time.
directionalAfter(s, t) == IF s.mode = "from" THEN t > s.time ELSE t < s.time

directionalInSpan(s, t) == IF s.mode = "from" THEN ~(t < s.time) ELSE t < s.time

\* "in", "out" or "error": only a relative span with a missing value fails.
isTimeInSpan(s, t, ss) ==
  LET matches ==
        \/ s.type = "relative" /\ relativeInSpan(defaultTimeSpan(s, ss), t)
        \/ s.type = "absolute" /\ absoluteInSpan(s, t)
        \/ s.type = "directional" /\ directionalInSpan(s, t)
        \/ s.type = "boolean" /\ s.value
  IN IF s.type = "relative" /\ ~IsComplete(defaultTimeSpan(s, ss)) THEN "error"
     ELSE IF matches THEN "in" ELSE "out"

-----------------------------------------------------------------------------
(* Evaluating a list.                                                      *)

Init ==
  /\ now = 0
  /\ spans \in SpanLists /\ scopes \in ScopeLists
  /\ index = 0 /\ began = 0 /\ result = "none"

Begin ==
  /\ index = 0
  /\ index' = 1 /\ began' = now /\ result' = "none"
  /\ UNCHANGED <<now, spans, scopes>>

\* Mutant: the loop runs past the end of the list.
CheckPastEnd ==
  LET outcome == isTimeInSpan(spans[index], now, scopes)
  IN /\ index > 0
     /\ IF outcome = "out" /\ index <= Len(spans)
        THEN index' = index + 1 /\ UNCHANGED result
        ELSE index' = 0 /\ result' = outcome
     /\ UNCHANGED <<now, spans, scopes, began>>

\* One iteration of the loop, with the time it is now.
CheckTimeSpan ==
  LET outcome == isTimeInSpan(spans[index], now, scopes)
  IN /\ index > 0
     /\ IF outcome = "out" /\ index < Len(spans)
        THEN index' = index + 1 /\ UNCHANGED result
        ELSE index' = 0 /\ result' = outcome
     /\ UNCHANGED <<now, spans, scopes, began>>

Tick ==
  /\ now < MaxTime
  /\ index > 0 => now < began + MaxDelay
  /\ now' = now + 1
  /\ result' = IF index = 0 THEN "none" ELSE result
  /\ UNCHANGED <<spans, scopes, index, began>>

Next == Begin \/ CheckTimeSpan \/ Tick

Spec == Init /\ [][Next]_vars

-----------------------------------------------------------------------------
(* The documented meaning.                                                 *)

\* The days from one weekday on, up to and including the next other one.
Days(from, to) == {(from + k) % 7 : k \in 0..((to - from) % 7)}

\* The minutes of a day; reversed times leave out the time between them.
Minutes(from, to) ==
  IF from <= to THEN (0..(Day - 1)) \cap (from..(to - 1))
  ELSE (0..(Day - 1)) \ (to..(from - 1))

\* The instants that a span with no value missing matches.
Instants(s) ==
  CASE s.type = "relative" ->
         {t \in 0..MaxTime :
            /\ WeekdayOf(In(s.timezone, t)) \in Days(s.weekdayFrom, s.weekdayTo)
            /\ In(s.timezone, t) % Day \in Minutes(s.timeFrom, s.timeTo)}
    [] s.type = "absolute"    -> s.from..(s.to - 1)
    [] s.type = "directional" -> IF s.mode = "from" THEN s.time..MaxTime
                                 ELSE 0..(s.time - 1)
    [] s.type = "boolean"     -> IF s.value THEN 0..MaxTime ELSE {}

\* A span as Scopes.tla sees it.
Documented(s, ss) ==
  IF s.type # "relative" THEN Instants(s)
  ELSE IF IsComplete(defaultTimeSpan(s, ss)) THEN Instants(defaultTimeSpan(s, ss))
  ELSE Incomplete

DocumentedList(l, ss) == [i \in DOMAIN l |-> Documented(l[i], ss)]

\* What is missing is told apart from what is there: Unset is no list, and
\* Incomplete no set of instants.
ASSUME MissingAssumption ==
  \A l \in SpanLists, ss \in ScopeLists :
    /\ DocumentedList(l, ss) # Unset
    /\ \A i \in DOMAIN l :
         /\ l[i].type # "relative" => Instants(l[i]) # Incomplete
         /\ l[i].type = "relative" /\ IsComplete(defaultTimeSpan(l[i], ss)) =>
              Instants(defaultTimeSpan(l[i], ss)) # Incomplete

AnswerAt(t) == inTimeSpans(DocumentedList(spans, scopes), t)

TypeOK ==
  /\ now \in 0..MaxTime /\ began \in 0..MaxTime
  /\ spans \in SpanLists /\ scopes \in ScopeLists
  /\ \A i \in DOMAIN spans : IsTimeSpan(spans[i])
  /\ index \in 0..Len(spans)
  /\ result \in {"none", "in", "out", "error"}

\* An evaluation within one minute answers what the documentation says of the
\* list: recurring spans wrap around weeks and days in the span's timezone, the
\* start is included and the end is not, and the first span that matches or
\* misses a default decides.
EvaluationAgrees ==
  result # "none" /\ now = began => result = AnswerAt(now)

\* When time passes during an evaluation, a match, and whatever a single span
\* answers, is still right for some moment of the evaluation. (That no span of
\* a longer list matched may be right for none: each one is asked at its own
\* time.)
AnswerIsTimely ==
  result = "in" \/ (Len(spans) = 1 /\ result # "none") =>
    \E t \in began..now : result = AnswerAt(t)

\* Reversing the times of a recurring span selects the rest of its days: at
\* every instant of such a day exactly one of the two spans matches, so that a
\* workload with one of them as uptime and the other as downtime has no gap.
ReversedIsTheRest ==
  \A i \in DOMAIN spans :
    LET s == spans[i]
        reversed == [s EXCEPT !.timeFrom = s.timeTo, !.timeTo = s.timeFrom]
        full == defaultTimeSpan(s, scopes)
    IN s.type = "relative" /\ IsComplete(full) /\ s.timeFrom # s.timeTo =>
         LET onDay == isWeekdayInRange(full, WeekdayOf(In(full.timezone, now)))
             matching == {x \in {s, reversed} : isTimeInSpan(x, now, scopes) = "in"}
         IN IF onDay THEN \E x \in {s, reversed} : matching = {x}
            ELSE matching = {}
=============================================================================
