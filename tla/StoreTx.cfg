SPECIFICATION Spec
CONSTANTS
  t1 = t1
  t2 = t2
  t3 = t3
  s1 = s1
  s2 = s2
  region = region
  region2 = region2
  account = account
  resource = resource
  resource2 = resource2
  NULL = NULL
  Key <- Keys
  Slot <- Slots
  Txn <- Three
  Subject <- Sub2
  Registered <- Keys
  Request <- TwoSubjects
  MaxOps = 2
INVARIANTS TypeOK NoEventLost NoTraceOfFailure UniqueOpenRows IInv
PROPERTIES HistoryOnlyGrows ImplementsHistory
SYMMETRY Symmetry
CHECK_DEADLOCK FALSE
