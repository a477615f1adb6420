SPECIFICATION Spec
CONSTANTS
  run = run
  finding = finding
  FindingTool = finding
  None = None
  Tools <- MCTools
  CallLists <- MCCallLists
  LineLen <- MCLineLen
  Anchors <- MCAnchors
  Texts = {"empty", "long"}
  CitedIds = {1, 2, 3}
  MaxCites = 1
  MaxTurns = 6
  HeaderLen = 1
  OmissionLen = 1
  RenderBudget = 4
CHECK_DEADLOCK FALSE
INVARIANTS IdsStable ResolvedIsExecuted ResolvedWasShown StepsOnce WorkAccounted
