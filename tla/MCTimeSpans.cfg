CONSTANTS
  Unset = Unset
  Incomplete = Incomplete
  Malformed = Malformed
  Hour = 2
  HoursPerDay = 3
  Timezone = {"UTC", "Berlin", "Lima"}
  Offset <- MCOffset
  SpanLists <- MCSpanLists
  ScopeLists <- MCScopeLists
  MaxTime = 46
  MaxDelay = 1
SPECIFICATION Spec
INVARIANTS TypeOK EvaluationAgrees AnswerIsTimely ReversedIsTheRest
