SPECIFICATION MCSpec
CONSTANTS
  Workers = {w1}
  PRs = {p1}
  Events = {1, 2, 3, 4}
  Odd = {2}
  Bodies = {"plain", "filtered", "ignored"}
  Backlogs = {TRUE, FALSE}
  NumCommands = 1
  MaxCrashes = 1
INVARIANTS
  TypeOK
  MutualExclusion
  CounterExact
  NoLostWakeup
  DelegateCovers
PROPERTIES
  EveryPushEnds
  ImplementsCoalescing
