SPECIFICATION Spec
CONSTANTS
  Files = {1, 2, 3, 4}
  Shapes <- MCShapes
  Requests <- MCRequests
  Soft = 6
  Hard = 3
  Delta = 1
  NameTokens = 1
  ClipTokens = {0, 4, 12, 18}
  MaxRounds = 3
  MaxCalls = 2
INVARIANTS
  TypeOK
  WithinBudget
  ShownOnce
  NothingVanishes
  NoRoomWasted
  CallsUsed
