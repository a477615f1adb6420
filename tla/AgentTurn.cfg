SPECIFICATION Spec
CONSTANTS
  Shapes <- MCShapes
  Args = {a1, a2}
  MaxConcurrent = 2
  MaxTotal = 2
  Budget = 3
  IdenticalHard = 2
  FreqHard = 5
  Window = 5
  MaxReplies = 3
  MaxTurns = 2
SYMMETRY Symmetry
INVARIANTS
  ModelSeesAnswered
  StartsClean
  TotalLimit
  BudgetStops
  NeverEmptyAnswer
PROPERTY
  RepairOnlyAdds
CHECK_DEADLOCK FALSE
