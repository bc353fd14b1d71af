SPECIFICATION MCSpec
CONSTANTS
  Repos = {r1, r2}
  Commands = {1, 2, 3}
  Kinds <- MCKinds
  Databases = {"qdrant", "pinecone", "lancedb"}
  MaxIssuesToScan = 3
  TopK = 2
  MaxNumber = 3
  MaxComments = 1
  MaxFailures = 1
INVARIANTS
  NoGaps
  OwnAnswers
