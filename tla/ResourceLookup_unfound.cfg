SPECIFICATION Spec
CONSTANTS
  eni = eni
  elb = elb
  other = other
  arn1 = arn1
  arn2 = arn2
  mine = mine
  theirs = theirs
  ip1 = ip1
  ip2 = ip2
  name1 = name1
  l1 = l1
  NULL = NULL
  Resource <- Resources
  ArnId <- ArnIds
  Account <- AccountOf
  InPrivateNetwork <- Networks
  Lookup = {l1}
  Subject <- Subjects
  Slot <- Slots
  MaxTime = 2
  MaxStored = 3
INVARIANT HolderIsFound
CHECK_DEADLOCK FALSE
