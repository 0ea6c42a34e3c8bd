CONSTANTS
  w1 = w1  w2 = w2  a = a  b = b
  Workers = {w1, w2}
  Calls = {a, b}
  Proposals = {a, b}
  Gated = {a}
  ProposalOf <- MCDistinct
  Threaded = {b}
  NoRow = NoRow
  Free = Free
  MaxTurns = 2
  MaxVersion = 1
  MaxRequests = 0
  StopsWorker = TRUE
  StoreMayFail = FALSE
  PolicyTightens = TRUE
SYMMETRY MCSymmetry
SPECIFICATION Spec
CHECK_DEADLOCK FALSE
INVARIANTS
  NothingInDoubtAtEnd
