SPECIFICATION CommandSpec
CONSTANTS
  NumFields = 2
  SampleSize = 2
  Inputs <- MCInputs
  Configs <- MCConfigs
  Options <- MCOptions
  SchemaFile <- NarrowSchemaFile
  NoLimit = NoLimit
INVARIANT DeclaredTypesWork
CHECK_DEADLOCK FALSE
