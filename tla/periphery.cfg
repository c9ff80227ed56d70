\* One part in focus at a time: two iMessage readers over three rows in pages of two,
\* three hooks with a kill, three photos of which two are copies with one fault; two
\* concurrent searches over five artifacts, two imports of two vCards with two operations
\* by hand, two consolidation runs over two days, whose artifacts tell the timeline another
\* day than the digest, a server with one session and two signals, a page with two requests
\* under way.
CONSTANTS
  Readers <- MCReaders
  MaxRow = 3
  PageSize = 2
  BatchMax = 2
  MaxFeedFaults = 1
  MaxHook = 3
  SourceId <- MCSourceId
  MaxKills = 1
  Hash <- MCHash
  MaxStat = 2
  PhotoBatchMax = 2
  MaxPhotoFaults = 1
  Searches <- MCSearches
  Recency <- MCRecency
  Nearest <- MCNearest
  Worded <- MCWorded
  Searchable = {1, 2, 3, 4}
  Match <- MCMatch
  Asks <- MCAsks
  Plans <- MCPlans
  Limit = 2
  Depth = 4
  RrfK = 60
  MaxNode = 3
  Labels = {"ann", "ben"}
  VCards <- MCVCards
  Tells <- MCTells
  CardImports = {1, 2}
  RelTypes = {"spouse"}
  HandDrawn <- MCHandDrawn
  MaxByHand = 2
  Consolidators <- MCConsolidators
  MaxDay = 2
  DayOf <- MCDayOf
  TimelineDay <- MCTimelineDay
  Eligible = {1, 2, 3}
  MaxText = 2
  DigestCap = 1
  MonthScale = 2
  Requests <- MCRequests
  Kind <- MCKind
  Of <- MCOf
  KeepDays = 1
  MaxDate = 3
  BootDate = 2
  MaxSignals = 2
  PageIds = {"a", "b"}
  AtFirst = {"a"}
  Flights = {1, 2}
  MaxPhoto = 1
SPECIFICATION Spec
INVARIANTS
  TypeOK
  CursorSafe
  OnlyOverlapLoses
  AnswersOwnQuestion
  EmptyIsHonest
  FusionKeepsOrder
  ToldIsLinked
  EdgesJoinTheLiving
  FoldedIsTold
  CleanExitKeepsLog
  EditsGoWhereShown
PROPERTIES
  RowsPassed
  SmoothRunSettles
  EnrichmentLands
  ShutdownEnds
  SaveKeepsPhoto
  PhotosDeliver
