\* Two waits share one timer member.
CONSTANTS
  r1 = r1
  r2 = r2
  p1 = p1
  p2 = p2
  e1 = e1
  e2 = e2
  Program <- NapsProgram
  Runs = {r1}
  Pollers = {p1}
  Events = {}
  MaxInbox = 2
  MaxFaults = 0
  Faulty = {}
SPECIFICATION Spec
INVARIANT SleeperHasTimer
SYMMETRY Symmetry
CHECK_DEADLOCK FALSE
