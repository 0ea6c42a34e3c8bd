CONSTANTS
  w1 = w1  w2 = w2  a = a  b = b
  Workers = {w1, w2}
  Calls = {a, b}
  Proposals = {a}
  Gated = {a, b}
  ProposalOf <- MCSame
  Threaded = {a}
  NoRow = NoRow
  Free = Free
  MaxTurns = 1
  MaxVersion = 1
  MaxRequests = 2
  StopsWorker = FALSE
  StoreMayFail = TRUE
  PolicyTightens = TRUE
SYMMETRY MCSymmetry
SPECIFICATION Spec
CHECK_DEADLOCK FALSE
INVARIANTS
  AtMostOncePerReceipt
  EffectsApproved
