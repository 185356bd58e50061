\* The event worker dies between deleting the waiter and publishing the resume.
CONSTANTS
  r1 = r1
  r2 = r2
  p1 = p1
  p2 = p2
  e1 = e1
  e2 = e2
  Program <- EventProgram
  Runs = {r1}
  Pollers = {p1}
  Events = {e1}
  MaxInbox = 2
  MaxFaults = 1
  Faulty = {"event"}
SPECIFICATION Spec
INVARIANT AnsweredIsResumed
SYMMETRY Symmetry
CHECK_DEADLOCK FALSE
