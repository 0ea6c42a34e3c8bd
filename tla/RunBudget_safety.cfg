CONSTANTS
  a1 = a1  a2 = a2  a3 = a3
  Attempts = {a1, a2, a3}
  Limit <- MCLimit
  MaxUsage = 2
SYMMETRY MCSymmetry
SPECIFICATION Spec
INVARIANTS
  CallsCovered
  CallsWithinLimit
  TokensOvershoot
