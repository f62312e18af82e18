SPECIFICATION FairSpec
CONSTANTS
  t1 = t1
  t2 = t2
  t3 = t3
  a1 = a1
  a2 = a2
  p1 = p1
  p2 = p2
  p3 = p3
  e1 = e1
  e2 = e2
  e3 = e3
  NULL = NULL
  Account <- Accounts
  Login <- Logins
  Email <- Emails
  Name = {1, 2, 3}
  Request <- Requests
  Txn <- Three
INVARIANTS TypeOK IdsFound
PROPERTIES ImplementsDirectory EveryStoreEnds
CHECK_DEADLOCK FALSE
