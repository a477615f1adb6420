SPECIFICATION Spec
CONSTANTS
  push = push
  pull = pull
  scan = scan
  commit = commit
  own = own
  Deliveries = {push, pull}
  Instances = {i1, i2}
  Runners = {r1, r2}
  Keys = {commit, own}
  KeyOf <- MCKeyOf
  Handlers = {h1, h2}
  Slots = 1
  BatchSize = 2
  Faults = {"publish", "mark", "hub", "turn", "crash", "stop"}
  MaxFaults = 1
  MaxResumes = 1
  None = None
CHECK_DEADLOCK FALSE
SYMMETRY Symmetry
INVARIANT Resumable
