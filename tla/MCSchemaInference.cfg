SPECIFICATION CommandSpec
CONSTANTS
  NumFields = 2
  SampleSize = 2
  Inputs <- MCInputs
  Configs <- MCConfigs
  Options <- MCOptions
  SchemaFile <- MCSchemaFile
  NoLimit = NoLimit
INVARIANTS
  TypeOK
  PromotionIsWidest
  ColumnsOnce
  SampleRefusals
  SampleSurvives
  PrintedSchemaLoads
  TelemetryIsTrue
CHECK_DEADLOCK FALSE
