SPECIFICATION Spec
CONSTANTS
  BlockSize = 3
  MaxFile = 3
  MaxCalls = 5
  Sizes <- MCSizes
  Types <- MCTypes
INVARIANTS
  NothingLost
  RecordsWhole
  DictionaryIntact
PROPERTIES
  ErrorsStick
CHECK_DEADLOCK FALSE
