SPECIFICATION Spec
CONSTANTS
  Runners = {r1}
  Instances = {i1}
  Keys = {k1}
  Skipped = {}
  Tasks = {t1, t2}
  Objects = {o1, o2, o3, o4, o5}
  Slots = 1
  MaxArrivals = 2
  Env = {"fault"}
  None = None
CHECK_DEADLOCK FALSE
INVARIANT SlotsReturn
