SPECIFICATION FairSpec
CONSTANTS
  NoLimit = NoLimit
  Input <- TornInput
  config <- StrictConfig
  Host = "embedded"
  Faults = {"write", "kill"}
INVARIANTS
  TypeOK
  ErrorIsGenuine
  MemoryBounded
  FooterMeansWholeChunks
  NeverStuck
PROPERTIES
  DetachedThreadsEnd
  Returns
