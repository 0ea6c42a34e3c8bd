CONSTANTS
  w1 = w1  w2 = w2  a = a  b = b
  Workers = {w1, w2}
  Calls = {a, b}
  Proposals = {a, b}
  Gated = {a}
  ProposalOf <- MCDistinct
  Threaded = {a}
  NoRow = NoRow
  Free = Free
  MaxTurns = 1
  MaxVersion = 2
  MaxRequests = 1
  StopsWorker = TRUE
  StoreMayFail = FALSE
  PolicyTightens = FALSE
SPECIFICATION FairSpec
CHECK_DEADLOCK FALSE
PROPERTIES
  CallsEnd
  OwnershipReturns
