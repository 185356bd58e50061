\* Redis loses its data while the sorted sets are rebuilt.
CONSTANTS
  t1 = t1
  t2 = t2
  p1 = p1
  p2 = p2
  Tasks = {t1}
  Procs = {p1}
  MaxWait = 1
  Visibility = 2
  LockTtl = 1
  MaxParks = 1
  MaxCopies = 2
  MaxFaults = 1
SPECIFICATION Spec
INVARIANTS SentinelIsHonest
