SPECIFICATION MCSpec
CONSTANTS
  Requests = {1, 2}
  None = none
  Workers = {w1}
  Kinds <- MCKinds
  Efforts <- MCEfforts
  UserLabel = "user"
  Outcomes = {"review"}
  FinalMessage = TRUE
  Lags = {0}
  MaxPushes = 1
  MaxActive = 2
  MaxFailures = 0
INVARIANT SkippedMeansReviewed
