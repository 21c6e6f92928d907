SPECIFICATION Spec
CONSTANTS
  Docs <- MCDocs
  KeyOrder <- MCKeyOrder
  Blank = ""
INVARIANTS
  TypeOK
  LastLeafWins
  PlainKeysKeepAll
CHECK_DEADLOCK FALSE
