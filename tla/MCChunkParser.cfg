SPECIFICATION Spec
CONSTANTS
  NoLimit = NoLimit
  Inputs <- MCInputs
  Configs <- MCConfigs
INVARIANTS
  TypeOK
  OkIsExact
  QuarantineExact
  FailsOnOffence
CHECK_DEADLOCK FALSE
