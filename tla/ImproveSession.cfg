SPECIFICATION MCSpec
CONSTANTS
  Requests = {1, 2, 3, 4, 5}
  None = none
  Workers = {w1}
  Modes = {FALSE, TRUE}
  Outcomes = {"suggestions", "broken", "none", "error"}
  MaxHistory = 2
  MaxFailures = 1
  MaxActive = 2
INVARIANTS
  TypeOK
  NothingLost
  NewestFirst
  HistoryBound
  ProgressEnds
