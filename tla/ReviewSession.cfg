SPECIFICATION MCSpec
CONSTANTS
  Requests = {1, 2, 3}
  None = none
  Workers = {w1}
  Kinds <- MCKinds
  Efforts <- MCEfforts
  UserLabel = "user"
  Outcomes = {"review", "quiet", "garbled", "empty", "error"}
  FinalMessage = TRUE
  Lags = {0, 2}
  MaxPushes = 1
  MaxActive = 2
  MaxFailures = 1
INVARIANTS
  OneReview
  OneEffortLabel
  NoLitter
  NothingMissed
PROPERTIES
  NoStaleOverwrite
  AnnouncementsTrue
