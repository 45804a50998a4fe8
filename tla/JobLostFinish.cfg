SPECIFICATION Spec
CONSTANTS
  r1 = r1
  r2 = r2
  q1 = q1
  q2 = q2
  p1 = p1
  p2 = p2
  Plans = {p1}
  Requests = {q1}
  Pollers = {q1}
  Editors = {}
  Stoppers = {}
  Runs = {r1}
  MaxRestarts = 0
  RequestsDie = TRUE
  ResultsExpire = TRUE
  CleanupFails = FALSE
INVARIANT FinishIsRecorded

CHECK_DEADLOCK FALSE
