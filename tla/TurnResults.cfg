SPECIFICATION Spec
CONSTANTS
  Parent <- MCParent
  Main = {4}
  Events <- MCEvents
  Regions <- MCRegions
  Agents = {lead, sub}
  MaxTurns = 2
  MaxCalls = 2
  MaxReports = 1
  MaxFaults = 1
SYMMETRY Symmetry
CHECK_DEADLOCK FALSE
INVARIANTS ReadsEventCommit VerdictSound ReportKnowsConfirmed AttachedIsStored
