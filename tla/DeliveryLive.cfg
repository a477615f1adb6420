SPECIFICATION FairSpec
CONSTANTS
  push = push
  pull = pull
  scan = scan
  commit = commit
  own = own
  Deliveries = {push, scan}
  Instances = {i1, i2}
  Runners = {r1}
  Keys = {commit, own}
  KeyOf <- MCKeyOf
  Handlers = {h1, h2}
  Slots = 1
  BatchSize = 2
  Faults = {"publish", "mark", "hub"}
  MaxFaults = 2
  MaxResumes = 0
  None = None
CHECK_DEADLOCK FALSE
INVARIANT InMotion
PROPERTY EventuallyProcessed
