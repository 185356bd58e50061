\* Two scheduler processes, one send parked once, one fault.
CONSTANTS
  t1 = t1
  t2 = t2
  p1 = p1
  p2 = p2
  Tasks = {t1}
  Procs = {p1, p2}
  MaxWait = 1
  Visibility = 1
  LockTtl = 1
  MaxParks = 1
  MaxCopies = 2
  MaxFaults = 1
SYMMETRY Symmetry
SPECIFICATION Spec
INVARIANTS Kept SentOnce
