SPECIFICATION FairSpec
CONSTANTS
  ip1 = ip1
  NULL = NULL
  Resource = {1, 2, 3}
  Subject <- Subjects
  Slot <- Slots
  Pid = {7, 8}
  PageSize = 2
  Snapshot = 3
  EventTime = {2, 4}
  Ledger <- Ledgers
  MaxStored = 2
  MaxExports = 2
INVARIANTS TypeOK NothingLost NothingStale OnceEach
PROPERTY EndsOrMeetsEmptyPage
CHECK_DEADLOCK FALSE
