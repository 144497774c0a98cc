--------------------------- MODULE TimeSpansProofs ---------------------------
(***************************************************************************)
(* Timespans mean what the documentation says, for every length of the     *)
(* hour and the day, every timezone and every list: the comparisons of the *)
(* code select exactly the documented instants, and a list is answered     *)
(* rightly even though the clock runs on while it is evaluated.            *)
(***************************************************************************)
EXTENDS TimeSpans, ScopesProofs

-----------------------------------------------------------------------------
(* Days and times.                                                         *)

\* The comparison of weekdays, of which one branch wraps around the week,
\* selects the days from the first weekday on up to the second.
LEMMA WeekdaysWrap ==
  ASSUME NEW from \in Weekday, NEW to \in Weekday, NEW w \in Weekday
  PROVE  w \in Days(from, to) <=>
           IF from <= to THEN w >= from /\ w <= to ELSE w >= from \/ w <= to
<1>1. from \in Int /\ to \in Int /\ w \in Int /\ 0 <= from /\ from <= 6 /\ 0 <= to /\ to <= 6
      /\ 0 <= w /\ w <= 6
  BY DEF Weekday
<1>2. (to - from) % 7 = IF from <= to THEN to - from ELSE to - from + 7
  BY <1>1
<1>3. ASSUME NEW k \in 0..((to - from) % 7), w = (from + k) % 7
      PROVE  IF from <= to THEN w >= from /\ w <= to ELSE w >= from \/ w <= to
  BY <1>1, <1>2, <1>3
<1>4. ASSUME IF from <= to THEN w >= from /\ w <= to ELSE w >= from \/ w <= to
      PROVE  \E k \in 0..((to - from) % 7) : w = (from + k) % 7
  <2> DEFINE k == IF w >= from THEN w - from ELSE w - from + 7
  <2>1. k \in 0..((to - from) % 7)
    BY <1>1, <1>2, <1>4
  <2>2. w = (from + k) % 7
    BY <1>1
  <2> QED
    BY <2>1, <2>2
<1> QED
  BY <1>3, <1>4 DEF Days

\* The comparison of times, of which one branch wraps around midnight, selects
\* the minutes of the day from the first time on and before the second, or those
\* that are not from the second on and before the first.
LEMMA TimesWrap ==
  ASSUME NEW s, s.timeFrom \in Int, s.timeTo \in Int, NEW m \in 0..(Day - 1)
  PROVE  m \in Minutes(s.timeFrom, s.timeTo) <=> isTimeOfDayInRange(s, m)
<1>1. Day \in Int
  BY TimeAssumption DEF Day
<1> QED
  BY <1>1 DEF Minutes, isTimeOfDayInRange

\* Local times have a time of day and a weekday.
LEMMA LocalTime ==
  ASSUME NEW zone \in Timezone, NEW t \in 0..MaxTime
  PROVE  /\ In(zone, t) % Day \in 0..(Day - 1)
         /\ WeekdayOf(In(zone, t)) \in Weekday
<1>1. Day \in Nat \ {0}
  BY TimeAssumption DEF Day
<1>2. In(zone, t) \in Int
  BY TimeAssumption DEF In
<1>3. In(zone, t) % Day \in 0..(Day - 1)
  BY <1>1, <1>2
<1>4. In(zone, t) \div Day \in Int
  BY <1>1, <1>2
<1>5. (In(zone, t) \div Day) % 7 \in 0..6
  BY <1>4
<1> QED
  BY <1>3, <1>5 DEF WeekdayOf, Weekday

-----------------------------------------------------------------------------
(* One span.                                                               *)

\* Times of day are numbers of minutes.
LEMMA DayTimeIsInt == DayTime \subseteq Int
<1> SUFFICES ASSUME NEW h \in 0..HoursPerDay, NEW m \in 0..(Hour - 1)
             PROVE  h * Hour + m \in Int
  BY DEF DayTime
<1>1. Hour \in Int /\ h \in Int /\ m \in Int
  BY TimeAssumption
<1>2. h * Hour \in Int
  BY <1>1
<1> QED
  BY <1>1, <1>2

\* What the scopes fill in where a span misses a value.
LEMMA DefaultsAreTyped ==
  ASSUME NEW ss \in ScopeLists
  PROVE  /\ GetDefaultTimezone(ss) \in Timezone \cup {Unset}
         /\ GetDefaultWeekday(ss, "WeekdayFrom") \in Weekday \cup {Unset}
         /\ GetDefaultWeekday(ss, "WeekdayTo") \in Weekday \cup {Unset}
<1>1. /\ DOMAIN ss \subseteq Nat
      /\ \A i \in DOMAIN ss :
           /\ ss[i]["DefaultTimezone"] \in Timezone \cup {Unset}
           /\ ss[i]["DefaultWeekFrame"]
                \in [WeekdayFrom : Weekday, WeekdayTo : Weekday] \cup {Unset}
  BY ListAssumption
<1>2. FirstSet(ss, "DefaultTimezone") \in Timezone \cup {Unset}
  BY <1>1, FirstSetIsFirst
<1>3. FirstSet(ss, "DefaultWeekFrame")
        \in [WeekdayFrom : Weekday, WeekdayTo : Weekday] \cup {Unset}
  BY <1>1, FirstSetIsFirst
<1> QED
  BY <1>2, <1>3 DEF GetDefaultTimezone, GetDefaultWeekday

\* A recurring span keeps its times when its missing values are filled in.
LEMMA FilledSpan ==
  ASSUME NEW s \in Relative, NEW ss \in ScopeLists
  PROVE  LET full == defaultTimeSpan(s, ss)
         IN /\ full.type = "relative"
            /\ full.timeFrom = s.timeFrom /\ full.timeTo = s.timeTo
            /\ full.timeFrom \in Int /\ full.timeTo \in Int
            /\ IsComplete(full) => /\ full.timezone \in Timezone
                                   /\ full.weekdayFrom \in Weekday
                                   /\ full.weekdayTo \in Weekday
<1>1. s \in [type : {"relative"}, weekdayFrom : Weekday \cup {Unset},
             weekdayTo : Weekday \cup {Unset}, timeFrom : DayTime, timeTo : DayTime,
             timezone : Timezone \cup {Unset}]
  BY DEF Relative
<1> DEFINE zone == IF s.timezone = Unset THEN GetDefaultTimezone(ss) ELSE s.timezone
           from == IF s.weekdayFrom = Unset THEN GetDefaultWeekday(ss, "WeekdayFrom")
                   ELSE s.weekdayFrom
           to == IF s.weekdayTo = Unset THEN GetDefaultWeekday(ss, "WeekdayTo")
                 ELSE s.weekdayTo
<1>2. /\ zone \in Timezone \cup {Unset}
      /\ from \in Weekday \cup {Unset} /\ to \in Weekday \cup {Unset}
  BY <1>1, DefaultsAreTyped
<1>3. defaultTimeSpan(s, ss) =
        [s EXCEPT !.timezone = zone, !.weekdayFrom = from, !.weekdayTo = to]
  BY <1>1 DEF defaultTimeSpan
<1> HIDE DEF zone, from, to
<1>4. /\ defaultTimeSpan(s, ss).type = "relative"
      /\ defaultTimeSpan(s, ss).timeFrom = s.timeFrom
      /\ defaultTimeSpan(s, ss).timeTo = s.timeTo
      /\ defaultTimeSpan(s, ss).timezone = zone
      /\ defaultTimeSpan(s, ss).weekdayFrom = from
      /\ defaultTimeSpan(s, ss).weekdayTo = to
  BY <1>1, <1>3
<1>5. s.timeFrom \in Int /\ s.timeTo \in Int
  BY <1>1, DayTimeIsInt
<1> QED
  BY <1>2, <1>4, <1>5 DEF IsComplete

\* A recurring span with no value missing matches the documented instants.
LEMMA RelativeMeans ==
  ASSUME NEW full, full.type = "relative", full.timeFrom \in Int, full.timeTo \in Int,
         full.timezone \in Timezone, full.weekdayFrom \in Weekday, full.weekdayTo \in Weekday,
         NEW t \in 0..MaxTime
  PROVE  t \in Instants(full) <=> relativeInSpan(full, t)
<1> DEFINE local == In(full.timezone, t)
<1>1. local % Day \in 0..(Day - 1) /\ WeekdayOf(local) \in Weekday
  BY LocalTime
<1>2. local % Day \in Minutes(full.timeFrom, full.timeTo)
        <=> isTimeOfDayInRange(full, extractDayTime(local))
  BY <1>1, TimesWrap DEF extractDayTime
<1>3. WeekdayOf(local) \in Days(full.weekdayFrom, full.weekdayTo)
        <=> isWeekdayInRange(full, WeekdayOf(local))
  BY <1>1, WeekdaysWrap DEF isWeekdayInRange
<1>4. t \in Instants(full) <=>
        /\ WeekdayOf(local) \in Days(full.weekdayFrom, full.weekdayTo)
        /\ local % Day \in Minutes(full.timeFrom, full.timeTo)
  BY DEF Instants
<1> QED
  BY <1>2, <1>3, <1>4 DEF relativeInSpan

\* The other types do so as well.
LEMMA OthersMean ==
  ASSUME NEW s, IsTimeSpan(s), NEW t \in 0..MaxTime
  PROVE  /\ s.type = "absolute" => (t \in Instants(s) <=> absoluteInSpan(s, t))
         /\ s.type = "directional" => (t \in Instants(s) <=> directionalInSpan(s, t))
         /\ s.type = "boolean" => (t \in Instants(s) <=> s.value)
<1>1. ASSUME s.type = "absolute"
      PROVE  t \in Instants(s) <=> absoluteInSpan(s, t)
  <2>1. s.from \in 0..MaxTime /\ s.to \in 0..MaxTime
    BY <1>1 DEF IsTimeSpan, Absolute
  <2>2. Instants(s) = s.from..(s.to - 1)
    BY <1>1 DEF Instants
  <2> QED
    BY <2>1, <2>2, TimeAssumption DEF absoluteInSpan
<1>2. ASSUME s.type = "directional"
      PROVE  t \in Instants(s) <=> directionalInSpan(s, t)
  <2>1. s.time \in 0..MaxTime
    BY <1>2 DEF IsTimeSpan, Directional
  <2>2. Instants(s) = IF s.mode = "from" THEN s.time..MaxTime ELSE 0..(s.time - 1)
    BY <1>2 DEF Instants
  <2> QED
    BY <2>1, <2>2, TimeAssumption DEF directionalInSpan
<1>3. ASSUME s.type = "boolean"
      PROVE  t \in Instants(s) <=> s.value
  <2>1. s.value \in BOOLEAN
    BY <1>3 DEF IsTimeSpan, Boolean
  <2>2. Instants(s) = IF s.value THEN 0..MaxTime ELSE {}
    BY <1>3 DEF Instants
  <2>3. CASE s.value = TRUE
    BY <2>2, <2>3
  <2>4. CASE s.value = FALSE
    BY <2>2, <2>4
  <2> QED
    BY <2>1, <2>3, <2>4
<1> QED
  BY <1>1, <1>2, <1>3

\* Whatever its type, a span is answered as documented: an error when a value is
\* missing, and otherwise whether the instant is one of those it matches.
LEMMA SpanMeans ==
  ASSUME NEW l \in SpanLists, NEW ss \in ScopeLists, NEW i \in DOMAIN l, NEW t \in 0..MaxTime
  PROVE  isTimeInSpan(l[i], t, ss) =
           IF Documented(l[i], ss) = Incomplete THEN "error"
           ELSE IF t \in Documented(l[i], ss) THEN "in" ELSE "out"
<1> DEFINE s == l[i]
           full == defaultTimeSpan(s, ss)
<1>1. IsTimeSpan(s)
  BY ListAssumption
<1>2. CASE s.type = "relative"
  <2>1. s \in Relative
    BY <1>1, <1>2 DEF IsTimeSpan
  <2>2. CASE IsComplete(full)
    <3>1. Documented(s, ss) = Instants(full) /\ Instants(full) # Incomplete
      BY <1>2, <2>2, MissingAssumption DEF Documented
    <3>2. t \in Instants(full) <=> relativeInSpan(full, t)
      BY <2>1, <2>2, FilledSpan, RelativeMeans
    <3> QED
      BY <1>2, <2>2, <3>1, <3>2 DEF isTimeInSpan
  <2>3. CASE ~IsComplete(full)
    BY <1>2, <2>3 DEF isTimeInSpan, Documented
  <2> QED
    BY <2>2, <2>3
<1>3. CASE s.type # "relative"
  <2>1. Documented(s, ss) = Instants(s) /\ Instants(s) # Incomplete
    BY <1>3, MissingAssumption DEF Documented
  <2>2. s.type \in {"absolute", "directional", "boolean"}
    BY <1>1, <1>3 DEF IsTimeSpan
  <2> QED
    BY <1>1, <1>3, <2>1, <2>2, OthersMean DEF isTimeInSpan
<1> QED
  BY <1>2, <1>3

-----------------------------------------------------------------------------
(* A list of spans.                                                        *)

\* At one instant, a list is answered by the first of its spans that matches or
\* fails.
LEMMA ListMeans ==
  ASSUME NEW l \in SpanLists, NEW ss \in ScopeLists, NEW t \in 0..MaxTime
  PROVE  LET answer == inTimeSpans(DocumentedList(l, ss), t)
         IN \/ /\ answer = "out"
               /\ \A i \in DOMAIN l : isTimeInSpan(l[i], t, ss) = "out"
            \/ \E i \in DOMAIN l :
                 /\ answer = isTimeInSpan(l[i], t, ss) /\ answer # "out"
                 /\ \A j \in DOMAIN l : j < i => isTimeInSpan(l[j], t, ss) = "out"
<1> DEFINE list == DocumentedList(l, ss)
           S == {i \in DOMAIN list : list[i] = Incomplete \/ t \in list[i]}
<1>1. list # Unset /\ DOMAIN list = DOMAIN l /\ DOMAIN l \subseteq Nat
  BY MissingAssumption, ListAssumption DEF DocumentedList
<1>2. \A i \in DOMAIN l : isTimeInSpan(l[i], t, ss) =
        IF list[i] = Incomplete THEN "error" ELSE IF t \in list[i] THEN "in" ELSE "out"
  BY SpanMeans DEF DocumentedList
<1> HIDE DEF list
<1>3. CASE S = {}
  <2>1. \A i \in DOMAIN l : list[i] # Incomplete /\ t \notin list[i]
    BY <1>1, <1>3
  <2>2. inTimeSpans(list, t) = "out"
    BY <1>1, <2>1 DEF inTimeSpans
  <2> QED
    BY <1>2, <2>1, <2>2 DEF list
<1>4. CASE S # {}
  <2>1. PICK i \in S : \A j \in S : i <= j
    BY <1>1, <1>4, LeastIndex
  <2> DEFINE Decides(k) == list[k] = Incomplete \/ t \in list[k]
             first == CHOOSE k \in DOMAIN list :
                        Decides(k) /\ \A j \in DOMAIN list : Decides(j) => k <= j
  <2>2. first \in DOMAIN list /\ Decides(first)
        /\ \A j \in DOMAIN list : Decides(j) => first <= j
    BY <2>1
  <2>3. inTimeSpans(list, t) = IF list[first] = Incomplete THEN "error" ELSE "in"
    BY <1>1, <1>4 DEF inTimeSpans, First
  <2> HIDE DEF first
  <2>4. \A j \in DOMAIN l : j < first => ~Decides(j)
    BY <1>1, <2>2
  <2> QED
    BY <1>1, <1>2, <2>2, <2>3, <2>4 DEF list
<1> QED
  BY <1>3, <1>4

\* Whether a value of a span is missing does not depend on the time.
LEMMA ErrorsStay ==
  ASSUME NEW l \in SpanLists, NEW ss \in ScopeLists, NEW i \in DOMAIN l,
         NEW t \in 0..MaxTime, NEW u \in 0..MaxTime, isTimeInSpan(l[i], t, ss) # "error"
  PROVE  isTimeInSpan(l[i], u, ss) # "error"
BY SpanMeans

-----------------------------------------------------------------------------
(* The loop over a list.                                                   *)

\* The spans before the i-th have not matched at their time.
Passed(i) ==
  \A j \in 1..(i - 1) : \E u \in began..now : isTimeInSpan(spans[j], u, scopes) = "out"

\* What the loop knows: the spans it has left behind did not match, and an
\* answer is the answer of one span, the last one if nothing matched.
LoopInv ==
  /\ TypeOK
  /\ index > 0 => began <= now /\ result = "none" /\ Passed(index)
  /\ result # "none" =>
       /\ began <= now
       /\ \E i \in DOMAIN spans, t \in began..now :
            /\ result = isTimeInSpan(spans[i], t, scopes) /\ Passed(i)
            /\ result = "out" => i = Len(spans)

\* The loop is entered with the first span and left after the last.
LEMMA LoopStep == LoopInv /\ [Next]_vars => LoopInv'
<1> SUFFICES ASSUME LoopInv, [Next]_vars PROVE LoopInv'
  OBVIOUS
<1>1. /\ now \in Int /\ now \in 0..MaxTime /\ began \in 0..MaxTime /\ MaxTime \in Int
      /\ spans \in SpanLists /\ scopes \in ScopeLists
      /\ Len(spans) \in Nat \ {0} /\ DOMAIN spans = 1..Len(spans)
      /\ \A i \in DOMAIN spans : IsTimeSpan(spans[i])
      /\ index \in 0..Len(spans) /\ result \in {"none", "in", "out", "error"}
  BY ListAssumption, TimeAssumption DEF LoopInv, TypeOK
<1>2. CASE Begin
  <2>1. TypeOK'
    BY <1>1, <1>2 DEF Begin, TypeOK
  <2>2. began' <= now' /\ result' = "none" /\ Passed(index)'
    BY <1>1, <1>2 DEF Begin, Passed
  <2> QED
    BY <2>1, <2>2 DEF LoopInv
<1>3. CASE CheckTimeSpan
  <2> DEFINE outcome == isTimeInSpan(spans[index], now, scopes)
  <2>1. /\ index \in 1..Len(spans) /\ began <= now /\ now \in began..now
        /\ result = "none" /\ Passed(index)
    BY <1>1, <1>3 DEF CheckTimeSpan, LoopInv
  <2>2. outcome \in {"in", "out", "error"}
    BY DEF isTimeInSpan
  <2>3. UNCHANGED <<now, spans, scopes, began>>
    BY <1>3 DEF CheckTimeSpan
  <2>4. CASE outcome = "out" /\ index < Len(spans)
    <3>1. index' = index + 1 /\ result' = "none"
      BY <1>3, <2>1, <2>4 DEF CheckTimeSpan
    <3>2. TypeOK'
      BY <1>1, <2>1, <2>3, <2>4, <3>1 DEF TypeOK
    <3>3. \A j \in 1..((index + 1) - 1) : j \in 1..(index - 1) \/ j = index
      BY <2>1
    <3>4. \A j \in 1..((index + 1) - 1) :
            \E u \in began..now : isTimeInSpan(spans[j], u, scopes) = "out"
      BY <2>1, <2>4, <3>3 DEF Passed
    <3>5. Passed(index)'
      BY <2>3, <3>1, <3>4 DEF Passed
    <3> QED
      BY <2>1, <2>3, <3>1, <3>2, <3>5 DEF LoopInv
  <2>5. CASE ~(outcome = "out" /\ index < Len(spans))
    <3>1. index' = 0 /\ result' = outcome
      BY <1>3, <2>5 DEF CheckTimeSpan
    <3>2. TypeOK'
      BY <1>1, <2>2, <2>3, <3>1 DEF TypeOK
    <3>3. \A j \in 1..(index - 1) :
            \E u \in began'..now' : isTimeInSpan(spans'[j], u, scopes') = "out"
      BY <2>1, <2>3 DEF Passed
    <3>4. /\ outcome = isTimeInSpan(spans'[index], now, scopes')
          /\ now \in began'..now' /\ index \in DOMAIN spans'
      BY <1>1, <2>1, <2>3
    <3>5. outcome = "out" => index = Len(spans)
      <4>1. Len(spans) \in Int /\ index \in Int /\ index <= Len(spans)
        BY <1>1, <2>1
      <4> QED
        BY <2>5, <4>1
    <3>6. \E i \in DOMAIN spans', t \in began'..now' :
            /\ result' = isTimeInSpan(spans'[i], t, scopes')
            /\ \A j \in 1..(i - 1) :
                 \E u \in began'..now' : isTimeInSpan(spans'[j], u, scopes') = "out"
            /\ result' = "out" => i = Len(spans')
      BY <2>3, <3>1, <3>3, <3>4, <3>5
    <3> QED
      BY <2>1, <2>3, <3>1, <3>2, <3>6 DEF LoopInv, Passed
  <2> QED
    BY <2>4, <2>5
<1>4. CASE Tick
  <2>1. /\ now' = now + 1 /\ now' \in 0..MaxTime /\ UNCHANGED <<spans, scopes, index, began>>
        /\ result' = IF index = 0 THEN "none" ELSE result
    BY <1>1, <1>4 DEF Tick
  <2>2. TypeOK'
    BY <1>1, <2>1 DEF TypeOK
  <2>3. result' = "none"
    BY <1>1, <2>1 DEF LoopInv
  <2>4. ASSUME index > 0
        PROVE  began' <= now' /\ Passed(index)'
    <3>1. began <= now /\ Passed(index)
      BY <2>4 DEF LoopInv
    <3>2. began..now \subseteq began..(now + 1)
      BY <1>1
    <3> QED
      BY <1>1, <2>1, <3>1, <3>2 DEF Passed
  <2> QED
    BY <2>1, <2>2, <2>3, <2>4 DEF LoopInv
<1>5. CASE UNCHANGED vars
  BY <1>5 DEF vars, LoopInv, TypeOK, Passed
<1> QED
  BY <1>2, <1>3, <1>4, <1>5 DEF Next

\* The loop invariant holds.
THEOREM LoopInvariant == Spec => []LoopInv
<1>1. Init => LoopInv
  <2> SUFFICES ASSUME Init PROVE LoopInv
    OBVIOUS
  <2>1. TypeOK
    BY ListAssumption, TimeAssumption DEF Init, TypeOK
  <2> QED
    BY <2>1 DEF Init, LoopInv
<1> QED
  BY <1>1, LoopStep, PTL DEF Spec

\* The loop stays within the list, and its spans are those of the four types.
THEOREM TypeCorrect == Spec => []TypeOK
<1>1. LoopInv => TypeOK
  BY DEF LoopInv
<1> QED
  BY <1>1, LoopInvariant, PTL

-----------------------------------------------------------------------------
(* The properties.                                                         *)

\* An evaluation during which the clock stands still gives the documented
\* answer.
THEOREM EvaluationIsRight == Spec => []EvaluationAgrees
<1>1. LoopInv => EvaluationAgrees
  <2> SUFFICES ASSUME LoopInv, result # "none", now = began
               PROVE  result = AnswerAt(now)
    BY DEF EvaluationAgrees
  <2>1. /\ spans \in SpanLists /\ scopes \in ScopeLists /\ now \in 0..MaxTime
        /\ Len(spans) \in Nat /\ DOMAIN spans = 1..Len(spans)
    BY ListAssumption DEF LoopInv, TypeOK
  <2>2. \A u \in began..now : u = now
    BY <2>1
  <2> DEFINE Ask(k) == isTimeInSpan(spans[k], now, scopes)
  <2>3. PICK i \in DOMAIN spans : /\ result = Ask(i)
                                  /\ result = "out" => i = Len(spans)
                                  /\ \A j \in 1..(i - 1) : Ask(j) = "out"
    BY <2>2 DEF LoopInv, Passed
  <2>4. \A j \in DOMAIN spans : j < i => Ask(j) = "out"
    BY <2>1, <2>3
  <2>5. \/ AnswerAt(now) = "out" /\ \A k \in DOMAIN spans : Ask(k) = "out"
        \/ \E k \in DOMAIN spans : /\ AnswerAt(now) = Ask(k) /\ Ask(k) # "out"
                                   /\ \A j \in DOMAIN spans : j < k => Ask(j) = "out"
    BY <2>1, ListMeans DEF AnswerAt
  <2> HIDE DEF Ask
  <2>6. CASE AnswerAt(now) = "out" /\ \A k \in DOMAIN spans : Ask(k) = "out"
    BY <2>3, <2>6
  <2>7. ASSUME NEW k \in DOMAIN spans, AnswerAt(now) = Ask(k), Ask(k) # "out",
               \A j \in DOMAIN spans : j < k => Ask(j) = "out"
        PROVE  result = AnswerAt(now)
    <3>1. i \in Int /\ k \in Int /\ i <= Len(spans) /\ k <= Len(spans) /\ ~(k < i)
      BY <2>1, <2>4, <2>7
    <3>2. CASE i < k
      BY <2>3, <2>7, <3>1, <3>2
    <3>3. CASE i = k
      BY <2>3, <2>7, <3>3
    <3> QED
      BY <3>1, <3>2, <3>3
  <2> QED
    BY <2>5, <2>6, <2>7
<1> QED
  BY <1>1, LoopInvariant, PTL

\* An evaluation during which time passes reports a match, and whatever a single
\* span answers, only if that is right for a moment of it.
THEOREM AnswersAreTimely == Spec => []AnswerIsTimely
<1>1. LoopInv => AnswerIsTimely
  <2> SUFFICES ASSUME LoopInv, result = "in" \/ (Len(spans) = 1 /\ result # "none")
               PROVE  \E t \in began..now : result = AnswerAt(t)
    BY DEF AnswerIsTimely
  <2>1. /\ spans \in SpanLists /\ scopes \in ScopeLists
        /\ now \in 0..MaxTime /\ began \in 0..MaxTime /\ MaxTime \in Int
        /\ Len(spans) \in Nat /\ DOMAIN spans = 1..Len(spans)
    BY ListAssumption, TimeAssumption DEF LoopInv, TypeOK
  <2>2. began..now \subseteq 0..MaxTime
    BY <2>1
  <2>3. PICK i \in DOMAIN spans, t \in began..now :
          result = isTimeInSpan(spans[i], t, scopes) /\ Passed(i)
    BY DEF LoopInv
  <2>4. t \in 0..MaxTime
    BY <2>2
  <2> DEFINE Ask(k) == isTimeInSpan(spans[k], t, scopes)
  <2>5. \/ AnswerAt(t) = "out" /\ \A k \in DOMAIN spans : Ask(k) = "out"
        \/ \E k \in DOMAIN spans : /\ AnswerAt(t) = Ask(k) /\ Ask(k) # "out"
                                   /\ \A j \in DOMAIN spans : j < k => Ask(j) = "out"
    BY <2>1, <2>4, ListMeans DEF AnswerAt
  <2>6. \A j \in DOMAIN spans : j < i => Ask(j) # "error"
    <3> SUFFICES ASSUME NEW j \in DOMAIN spans, j < i PROVE Ask(j) # "error"
      OBVIOUS
    <3>1. j \in 1..(i - 1)
      BY <2>1
    <3>2. PICK u \in began..now : isTimeInSpan(spans[j], u, scopes) = "out"
      BY <2>3, <3>1 DEF Passed
    <3>3. u \in 0..MaxTime /\ isTimeInSpan(spans[j], u, scopes) # "error"
      BY <2>2, <3>2
    <3> QED
      BY <2>1, <2>4, <3>3, ErrorsStay
  <2>7. \A k \in DOMAIN spans : Ask(k) \in {"in", "out", "error"}
    BY DEF isTimeInSpan
  <2>8. result = Ask(i)
    BY <2>3
  <2> HIDE DEF Ask
  <2>9. CASE result = "in"
    \* The first span that decides at time t is the i-th or an earlier one; none
    \* of these fails.
    <3>1. PICK k \in DOMAIN spans : /\ AnswerAt(t) = Ask(k) /\ Ask(k) # "out"
                                    /\ \A j \in DOMAIN spans : j < k => Ask(j) = "out"
      BY <2>3, <2>5, <2>8, <2>9
    <3>2. i \in DOMAIN spans /\ Ask(i) = "in"
      BY <2>3, <2>8, <2>9
    <3>3. ~(i < k)
      BY <3>1, <3>2
    <3>4. i \in Int /\ k \in Int
      BY <2>1, <3>1, <3>2
    <3>5. k < i \/ k = i
      BY <3>3, <3>4
    <3>6. Ask(k) # "error"
      BY <2>6, <3>1, <3>2, <3>5
    <3> QED
      BY <2>7, <2>9, <3>1, <3>6
  <2>10. CASE Len(spans) = 1 /\ result # "none"
    <3>1. DOMAIN spans = {1} /\ i = 1
      BY <2>1, <2>10
    <3>2. AnswerAt(t) = Ask(1)
      BY <2>5, <3>1
    <3> QED
      BY <2>8, <3>1, <3>2
  <2> QED
    BY <2>9, <2>10
<1> QED
  BY <1>1, LoopInvariant, PTL

\* At every instant of the days of a recurring span, exactly one of the span and
\* the span with reversed times matches, and on other days neither.
THEOREM ReversedSpansSplitDays == Spec => []ReversedIsTheRest
<1>1. TypeOK => ReversedIsTheRest
  <2> SUFFICES
        ASSUME TypeOK, NEW i \in DOMAIN spans, spans[i].type = "relative",
               IsComplete(defaultTimeSpan(spans[i], scopes)),
               spans[i].timeFrom # spans[i].timeTo
        PROVE  LET s == spans[i]
                   reversed == [s EXCEPT !.timeFrom = s.timeTo, !.timeTo = s.timeFrom]
                   full == defaultTimeSpan(s, scopes)
                   onDay == isWeekdayInRange(full, WeekdayOf(In(full.timezone, now)))
                   matching == {x \in {s, reversed} : isTimeInSpan(x, now, scopes) = "in"}
               IN IF onDay THEN \E x \in {s, reversed} : matching = {x} ELSE matching = {}
    BY DEF ReversedIsTheRest
  <2> DEFINE s == spans[i]
             reversed == [s EXCEPT !.timeFrom = s.timeTo, !.timeTo = s.timeFrom]
             full == defaultTimeSpan(s, scopes)
             back == defaultTimeSpan(reversed, scopes)
             onDay == isWeekdayInRange(full, WeekdayOf(In(full.timezone, now)))
             local == In(full.timezone, now)
  <2>1. s \in Relative /\ scopes \in ScopeLists
    BY DEF TypeOK, IsTimeSpan
  <2>2. s \in [type : {"relative"}, weekdayFrom : Weekday \cup {Unset},
               weekdayTo : Weekday \cup {Unset}, timeFrom : DayTime, timeTo : DayTime,
               timezone : Timezone \cup {Unset}]
    BY <2>1 DEF Relative
  <2>3. reversed \in Relative /\ reversed.type = "relative"
        /\ reversed.timeFrom = s.timeTo /\ reversed.timeTo = s.timeFrom
        /\ reversed.timezone = s.timezone
        /\ reversed.weekdayFrom = s.weekdayFrom /\ reversed.weekdayTo = s.weekdayTo
    BY <2>1, <2>2 DEF Relative
  <2> HIDE DEF reversed, s
  <2>4. /\ back.timeFrom = full.timeTo /\ back.timeTo = full.timeFrom
        /\ full.timeFrom = s.timeFrom /\ full.timeTo = s.timeTo
        /\ full.timeFrom \in Int /\ full.timeTo \in Int
    BY <2>1, <2>3, FilledSpan
  <2>5. /\ back.timezone = full.timezone
        /\ back.weekdayFrom = full.weekdayFrom /\ back.weekdayTo = full.weekdayTo
    BY <2>1, <2>3 DEF defaultTimeSpan, Relative
  <2>6. IsComplete(full)
    BY DEF s
  <2>7. IsComplete(back)
    BY <2>5, <2>6 DEF IsComplete
  <2>8. full.timezone \in Timezone
    BY <2>1, <2>6, FilledSpan
  <2>9. local % Day \in Int
    <3>1. Day \in Int /\ local % Day \in 0..(Day - 1)
      BY <2>8, LocalTime, TimeAssumption DEF TypeOK, Day
    <3> QED
      BY <3>1
  <2>10. isTimeInSpan(s, now, scopes) = "in" <=>
           isTimeOfDayInRange(full, local % Day) /\ onDay
    BY <2>6 DEF isTimeInSpan, relativeInSpan, extractDayTime, s
  <2>11. isTimeInSpan(reversed, now, scopes) = "in" <=>
           isTimeOfDayInRange(back, local % Day) /\ onDay
    BY <2>3, <2>5, <2>7 DEF isTimeInSpan, relativeInSpan, extractDayTime, isWeekdayInRange
  <2>12. full.timeFrom # full.timeTo
    BY <2>4 DEF s
  <2>13. isTimeOfDayInRange(full, local % Day) <=> ~isTimeOfDayInRange(back, local % Day)
    <3> HIDE DEF full, back, local
    <3> QED
      BY <2>4, <2>9, <2>12 DEF isTimeOfDayInRange
  <2>14. s # reversed
    BY <2>3, <2>4, <2>12
  <2>15. IF onDay THEN \E x \in {s, reversed} :
                         {y \in {s, reversed} : isTimeInSpan(y, now, scopes) = "in"} = {x}
         ELSE {y \in {s, reversed} : isTimeInSpan(y, now, scopes) = "in"} = {}
    <3> HIDE DEF onDay, full, back, local
    <3> QED
      BY <2>10, <2>11, <2>13, <2>14
  <2> QED
    BY <2>15 DEF s, reversed
<1> QED
  BY <1>1, TypeCorrect, PTL
=============================================================================
