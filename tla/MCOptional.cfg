\* The services that start_registered() asks systemd to start.
CONSTANTS
  MaxStarts = 2
  Names <- AllNames
  Units <- AllUnits
  Catalog <- MCCatalog
  MaxDepth = 3
  MaxCalls = 2
  Tier = "critical"
  AutoStart = TRUE
  Faulty = TRUE
  MaxMoves = 2
  Kinds <- MCKinds
  MaxEntries = 3
  MaxTime = 2
  MaxLosses = 1
  FollowQuery <- MCFollowQuery
  PageQuery <- MCPageQuery
  Texts <- MCTexts
  Codes <- MCCodes
  FieldLists <- MCFieldLists
  Extras <- MCExtras
  Foreign <- MCForeign
  MaxNames = 4
SPECIFICATION Spec
INVARIANT OptionalRests
CHECK_DEADLOCK FALSE
