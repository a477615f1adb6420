SPECIFICATION FairSpec
CONSTANTS
  push = push
  pull = pull
  scan = scan
  commit = commit
  own = own
  Deliveries = {push}
  Instances = {i1}
  Runners = {r1, r2}
  Keys = {commit, own}
  KeyOf <- MCKeyOf
  Handlers = {h1, h2}
  Slots = 1
  BatchSize = 2
  Faults = {"crash"}
  MaxFaults = 1
  MaxResumes = 0
  None = None
CHECK_DEADLOCK FALSE
PROPERTY EventuallyProcessed
