SPECIFICATION FairSpec
CONSTANTS
  r1 = r1
  r2 = r2
  q1 = q1
  q2 = q2
  p1 = p1
  p2 = p2
  Plans = {p1}
  Requests = {q1, q2}
  Pollers = {q1, q2}
  Editors = {q1}
  Stoppers = {q1}
  Runs = {r1}
  MaxRestarts = 0
  RequestsDie = FALSE
  ResultsExpire = FALSE
  CleanupFails = FALSE
INVARIANTS TypeOK NoInventedOutcome
PROPERTIES StopIsFinal FailureIsHealed
CHECK_DEADLOCK FALSE
