SPECIFICATION Spec
CONSTANTS
  t1 = t1
  t2 = t2
  t3 = t3
  s1 = s1
  s2 = s2
  region = region
  region2 = region2
  account = account
  resource = resource
  resource2 = resource2
  NULL = NULL
  Key <- Keys
  Slot <- Slots
  Txn <- Two
  Subject <- Sub1
  Registered <- Keys
  Request <- OneSubject
  MaxOps = 1
INVARIANT NoHalves
SYMMETRY Symmetry
CHECK_DEADLOCK FALSE
