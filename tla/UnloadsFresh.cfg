SPECIFICATION Spec
CONSTANTS
  Runners = {r1}
  Instances = {i1, i2}
  Keys = {k1}
  Skipped = {}
  Tasks = {t1, t2, t3}
  Objects = {o1, o2, o3, o4, o5}
  Slots = 2
  MaxArrivals = 4
  Env = {"stop"}
  None = None
CHECK_DEADLOCK FALSE
INVARIANT UnloadsIdle
