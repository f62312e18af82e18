SPECIFICATION Spec
CONSTANTS
  old = old
  new = new
  c1 = c1
  c2 = c2
  c3 = c3
  c4 = c4
  h1 = h1
  h2 = h2
  h3 = h3
  h4 = h4
  NULL = NULL
  Process <- Both
  Call = {c1, c2, c3}
  Handle = {h1, h2, h3, h4}
  Last = 2
  MinVersion <- Minimum
  MaxOutages = 2
INVARIANTS TypeOK CleanMeansApplied NoLeakedHandle
PROPERTIES StartsOnMinimum StepReturnsItsVersion
SYMMETRY Symmetry
CHECK_DEADLOCK FALSE
