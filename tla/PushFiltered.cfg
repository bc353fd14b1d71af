SPECIFICATION MCSpec
CONSTANTS
  Workers = {w1}
  PRs = {p1}
  Events = {1, 2, 3}
  Odd = {2}
  Bodies = {"plain", "filtered"}
  Backlogs = {TRUE}
  NumCommands = 2
  MaxCrashes = 0
INVARIANT SameProcessing
