CONSTANTS
  p = p  q = q  r = r  b1 = b1  b2 = b2
  Keys = {1, 2}
  MaxEntries = 1
  PendingTTL = 0
  TerminalTTL = 0
  MaxTime = 1
  Proposals = {p, q, r}
  MaxApprovals = 2
  Batches = {b1, b2}
  Calls = {1, 2, 3}
  Malformed = {3}
  Unscoped = {}
  Risky = {1}
  Gated = {}
  ProposalOf <- MCProposalOf
  MaxParallel = 2
  MaxBegun = 3
SYMMETRY MCSymmetry
SPECIFICATION Spec
CHECK_DEADLOCK FALSE
INVARIANTS
  RepeatOnlyIfForgotten
  ClaimsAreHeld
  ApprovalsCover
  LiveRequestIsFound
