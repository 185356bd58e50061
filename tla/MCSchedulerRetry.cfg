\* One scheduler process, a send that delivery may park again, one fault.
CONSTANTS
  t1 = t1
  t2 = t2
  p1 = p1
  p2 = p2
  Tasks = {t1}
  Procs = {p1}
  MaxWait = 1
  Visibility = 1
  LockTtl = 1
  MaxParks = 2
  MaxCopies = 2
  MaxFaults = 1
SPECIFICATION FairSpec
INVARIANTS TypeOK Kept SentOnce
PROPERTIES StopHolds NotEarly Settles
