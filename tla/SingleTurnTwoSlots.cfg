SPECIFICATION Spec
CONSTANTS
  Runners = {r1, r2}
  Instances = {i1}
  Keys = {k1}
  Skipped = {}
  Tasks = {t1, t2, t3}
  Objects = {o1, o2, o3, o4, o5}
  Slots = 2
  MaxArrivals = 3
  Env = {}
  None = None
CHECK_DEADLOCK FALSE
INVARIANT SingleTurn
