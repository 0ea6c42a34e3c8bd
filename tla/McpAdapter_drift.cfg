CONSTANTS
  c1 = c1  c2 = c2  c3 = c3
  Callers = {c1, c2}
  MaxOutstanding = 2
  MaxRequests = 4
  Nobody = Nobody
  MaxVersion = 2
  MaxPages = 2
SPECIFICATION Spec
CHECK_DEADLOCK FALSE
PROPERTIES
  DriftBlocks
