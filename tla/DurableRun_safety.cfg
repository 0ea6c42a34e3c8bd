CONSTANTS
  w1 = w1  w2 = w2  a = a  b = b
  Workers = {w1, w2}
  Calls = {a, b}
  Proposals = {a, b}
  Gated = {a}
  ProposalOf <- MCDistinct
  Threaded = {b}
  NoRow = NoRow
  Free = Free
  MaxTurns = 2
  MaxVersion = 2
  MaxRequests = 2
  StopsWorker = TRUE
  StoreMayFail = FALSE
  PolicyTightens = FALSE
SYMMETRY MCSymmetry
SPECIFICATION Spec
CHECK_DEADLOCK FALSE
INVARIANTS
  TypeOK
  SingleExecution
  AtMostOnce
  InDoubtIsPending
  NothingInDoubtAtEnd
  AnswerIsSaved
PROPERTIES
  EndIsFinal
  CheckpointForward
  ImplementsLedger
