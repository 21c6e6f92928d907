SPECIFICATION Spec
CONSTANTS
  NoLimit = NoLimit
  Input <- FailingInput
  config <- FailingConfig
  Host = "embedded"
  Faults = {"dead_open", "dead_write", "kill"}
INVARIANT QuarantinePrefix
