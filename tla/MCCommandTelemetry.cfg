SPECIFICATION CommandSpec
CONSTANTS
  NumFields = 2
  SampleSize = 2
  Inputs <- MCInputs
  Configs <- MCConfigs
  Options <- MCOptions
  SchemaFile <- MCSchemaFile
  NoLimit = NoLimit
INVARIANT FailureIsStructured
CHECK_DEADLOCK FALSE
