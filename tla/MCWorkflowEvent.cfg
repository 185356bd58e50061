\* waitForEvent twice, notify: one event, a fault anywhere.
CONSTANTS
  r1 = r1
  r2 = r2
  p1 = p1
  p2 = p2
  e1 = e1
  e2 = e2
  Program <- EventsProgram
  Runs = {r1}
  Pollers = {p1}
  Events = {e1}
  MaxInbox = 2
  MaxFaults = 1
  Faulty = {"run", "poll", "event"}
SPECIFICATION Spec
INVARIANTS NotStranded WaitsForAnswer
SYMMETRY Symmetry
CHECK_DEADLOCK FALSE
