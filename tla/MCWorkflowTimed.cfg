\* notify, waitForEvent, wait, notify, run: the event never comes, one fault of the worker or the poll loop.
CONSTANTS
  r1 = r1
  r2 = r2
  p1 = p1
  p2 = p2
  e1 = e1
  e2 = e2
  Program <- TimedProgram
  Runs = {r1, r2}
  Pollers = {p1}
  Events = {}
  MaxInbox = 2
  MaxFaults = 1
  Faulty = {"run", "poll"}
SPECIFICATION FairSpec
INVARIANTS TypeOK NotStranded ActOnce CancelStops SleepsOut
PROPERTIES FinishedStays Terminates
CHECK_DEADLOCK FALSE
