SPECIFICATION Spec
CONSTANTS
  i1 = i1
  i2 = i2
  i3 = i3
  handbook = handbook
  x = x
  y = y
  Ingests = {i1, i2, i3}
  Searches = {q1}
  Source <- MCSource
  Content <- MCContent
  MaxErrors = 1
SYMMETRY Symmetry
CHECK_DEADLOCK FALSE
INVARIANTS
  AnswersInForce
  OneVersionPerSource
  ReadyComplete
PROPERTIES
  CoverageKept
