\* Two processes; three services, two calls, a stack of three frames; two moves
\* of systemd; three entries, two times and one lost cursor; limits of LogRecords.
CONSTANTS
  MaxStarts = 2
  Names <- AllNames
  Units <- AllUnits
  Catalog <- MCCatalog
  MaxDepth = 3
  MaxCalls = 2
  Tier = "critical"
  AutoStart = TRUE
  Faulty = TRUE
  MaxMoves = 2
  Kinds <- MCKinds
  MaxEntries = 3
  MaxTime = 2
  MaxLosses = 1
  FollowQuery <- MCFollowQuery
  PageQuery <- MCPageQuery
  Texts <- MCTexts
  Codes <- MCCodes
  FieldLists <- MCFieldLists
  Extras <- MCExtras
  Foreign <- MCForeign
  MaxNames = 4
SPECIFICATION Spec
INVARIANTS
  FailureReported OrderlyExit BusOutlivesWorker
  OverflowNeedsCircle HonestReport StrictContract ReaderGetsCall EntryBounded
PROPERTIES
  StopEnds FailureRestarts OrderedStart FollowExact CatchesUp StablePages
CHECK_DEADLOCK FALSE
