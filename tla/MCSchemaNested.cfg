SPECIFICATION CommandSpec
CONSTANTS
  NumFields = 2
  SampleSize = 2
  Inputs <- MCInputs
  Configs <- MCConfigs
  Options <- MCOptions
  SchemaFile <- MCSchemaFile
  NoLimit = NoLimit
INVARIANT NestedSurvives
CHECK_DEADLOCK FALSE
