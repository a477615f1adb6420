SPECIFICATION Spec
CONSTANTS
  Runners = {r1, r2}
  Instances = {i1, i2}
  Keys = {k1, k2}
  Skipped = {k2}
  Tasks = {t1, t2, t3}
  Objects = {o1, o2, o3, o4, o5}
  Slots = 1
  MaxArrivals = 3
  Env = {"operator", "fault", "crash", "longturn"}
  None = None
SYMMETRY Symmetry
CHECK_DEADLOCK FALSE
INVARIANTS TypeOK SingleTurn RaisedIsHeld TurnHasSlot
