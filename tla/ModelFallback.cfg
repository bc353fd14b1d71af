SPECIFICATION FairSpec
CONSTANTS
  NumModels = 3
  Chunks = {1, 2}
  FallbackDeployments = TRUE
  ModelRetries = 2
  NumCommands = 1
INVARIANTS
  FirstThatWorks
  RoundPaired
PROPERTY CommandsEnd
