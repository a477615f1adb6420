SPECIFICATION Spec
CONSTANTS
  Requests = {q1, q2}
  Instances <- MCInstances
  MaxBoxes = 2
  MaxTokens = 3
  MaxFaults = 1
SYMMETRY Symmetry
CHECK_DEADLOCK FALSE
INVARIANTS TokenKept Reclaimable
