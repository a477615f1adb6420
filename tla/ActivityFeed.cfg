SPECIFICATION FairSpec
CONSTANTS
  Events = {e1}
  Tasks = {t1}
  Readers = {r1}
  MaxWork = 5
  MaxFaults = 1
  None = None
CHECK_DEADLOCK FALSE
INVARIANTS LiveExact LiveInJournal ConcludedOnce TaskStory
PROPERTY StreamsEnd
