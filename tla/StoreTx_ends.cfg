SPECIFICATION FairSpec
CONSTANTS
  t1 = t1
  t2 = t2
  t3 = t3
  s1 = s1
  s2 = s2
  region = region
  region2 = region2
  account = account
  resource = resource
  resource2 = resource2
  NULL = NULL
  Key <- Keys
  Slot <- Slots
  Txn <- Two
  Subject <- Sub2
  Registered <- Registered1
  Request <- FirstSight
  MaxOps = 2
INVARIANT ResourceResolves
PROPERTY EveryStoreEnds
CHECK_DEADLOCK FALSE
