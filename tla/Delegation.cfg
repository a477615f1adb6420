SPECIFICATION FairSpec
CONSTANTS
  Tasks = {t1, t2, t3, t4}
  MaxConcurrent = 4
  RunLimits = {1, 2, 4}
  MaxQueued = 2
  MaxProgress = 1
CHECK_DEADLOCK FALSE
INVARIANTS PermitsConserved OneTerminal LeadNeverQueues
PROPERTIES ImplementsPool DelegationEnds
