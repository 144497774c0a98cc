----------------------------- MODULE MCTimeSpans -----------------------------
(* A week of days with three hours of two minutes each, for TLC.           *)
EXTENDS TimeSpans

\* UTC; a location that is ahead of UTC by two minutes and whose clocks are put
\* forward in the middle of the week; one that is behind UTC, where the first
\* instants belong to the last day of the week before.
MCOffset ==
  [z \in Timezone |->
     [t \in 0..MaxTime |-> CASE z = "UTC" -> 0
                             [] z = "Berlin" -> IF t < 20 THEN 2 ELSE 4
                             [] z = "Lima" -> -3]]

Rel(from, to, a, b, zone) ==
  [type |-> "relative", weekdayFrom |-> from, weekdayTo |-> to,
   timeFrom |-> a, timeTo |-> b, timezone |-> zone]

\* Frames within a week, across its end, of one day, and missing; times in
\* order, reversed, of a whole day, of no time, and beyond the end of the day.
Relatives ==
  {Rel(f[1], f[2], h[1], h[2], z) :
     f \in {<<1, 5>>, <<5, 1>>, <<6, 6>>, <<Unset, Unset>>},
     h \in {<<1, 4>>, <<4, 1>>, <<0, 6>>, <<6, 0>>, <<3, 3>>, <<2, 7>>},
     z \in {"UTC", "Berlin", "Lima", Unset}}

Others ==
  {[type |-> "absolute", from |-> 10, to |-> 20],
   [type |-> "absolute", from |-> 20, to |-> 10],
   [type |-> "directional", mode |-> "from", time |-> 15],
   [type |-> "directional", mode |-> "until", time |-> 30],
   [type |-> "boolean", value |-> FALSE],
   [type |-> "boolean", value |-> TRUE]}

\* The weekend and the nights, and spans that follow each other.
Combined ==
  {Rel(6, 0, 0, 6, "UTC"), Rel(1, 5, 4, 1, "UTC"), Rel(1, 5, 1, 4, Unset),
   [type |-> "absolute", from |-> 10, to |-> 20],
   [type |-> "directional", mode |-> "from", time |-> 20]}

MCSpanLists ==
  {<<s>> : s \in Relatives \cup Others} \cup (Combined \X Combined)

MCScopeLists ==
  {<<[DefaultTimezone |-> z1, DefaultWeekFrame |-> Unset],
     [DefaultTimezone |-> z2, DefaultWeekFrame |-> f]>> :
     z1 \in {"Berlin", Unset}, z2 \in {"UTC"},
     f \in {[WeekdayFrom |-> 6, WeekdayTo |-> 2]}}
  \cup {<<[DefaultTimezone |-> Unset, DefaultWeekFrame |-> Unset]>>}
=============================================================================
