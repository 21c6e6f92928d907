SPECIFICATION FairSpec
CONSTANTS
  NoLimit = NoLimit
  Input <- DirtyInput
  config <- LenientConfig
  Host = "cli"
  Faults = {"setup", "open", "write", "close", "dead_open", "dead_write"}
INVARIANTS
  FailureIsReported
  OkMeansComplete
  MetricsMatchFile
  QuarantineComplete
  ChunkOrderKept
  NothingLost
PROPERTIES
  FinalAfterOk
  KeepsPromise
