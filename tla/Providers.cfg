SPECIFICATION Spec
CONSTANTS
  s1 = s1
  s2 = s2
  proper = proper
  odd = odd
  None = None
  Sessions = {s1, s2}
  Services = {"gitlab", "gitea", "azure", "bitbucket", "bitbucket_server", "codecommit", "gerrit", "local"}
  Tools = {"review", "describe", "improve"}
  Suggestions <- Two
  Changes <- Six
  Fallbacks = 1
  Odd = {odd}
  UserLabels = {"bug"}
  MaxEdits = 1
  MaxFailures = 2
SYMMETRY Symmetry
INVARIANTS OneReview SuggestionsOnce OthersWork NoLitter TrueDiff
