SPECIFICATION Spec
CONSTANTS
  Parent <- MCParent
  Main = {4}
  Events <- MCEvents
  Regions <- MCRegions
  Agents = {lead, sub}
  MaxTurns = 1
  MaxCalls = 1
  MaxReports = 0
  MaxFaults = 0
SYMMETRY Symmetry
CHECK_DEADLOCK FALSE
INVARIANT OwnIsInRange
