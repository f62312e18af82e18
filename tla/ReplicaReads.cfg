SPECIFICATION FairReadSpec
CONSTANTS
  s1 = s1
  s2 = s2
  p1 = p1
  NULL = NULL
  Subject = {s1, s2}
  Slot <- Slots
  Cycles = 2
  MaxResends = 1
  AcrossCycles = FALSE
  LateResends = FALSE
  Process = {p1}
  MaxLag = 2
  MaxOutages = 1
INVARIANTS TypeOK ReadsTypeOK LookupExact EpochMeansUnbalanced NoHalves
PROPERTIES LookupsNeverGoBack ReplicaOnlyLags LookupsBecomeExact
CHECK_DEADLOCK FALSE
