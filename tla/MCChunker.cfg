SPECIFICATION FairSpec
CONSTANTS
  Inputs <- MCInputs
  ChunkSizes <- MCChunkSizes
  UsizeMax = 15
INVARIANTS
  TypeOK
  SumNeverWraps
  Lossless
  RecordsIntact
  HeadsAreSlices
PROPERTY Termination
CHECK_DEADLOCK FALSE
