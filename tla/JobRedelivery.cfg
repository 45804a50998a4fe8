SPECIFICATION Spec
CONSTANTS
  r1 = r1
  r2 = r2
  q1 = q1
  q2 = q2
  p1 = p1
  p2 = p2
  Plans = {p1, p2}
  Requests = {q1}
  Pollers = {}
  Editors = {}
  Stoppers = {q1}
  Runs = {r1, r2}
  MaxRestarts = 1
  RequestsDie = TRUE
  ResultsExpire = TRUE
  CleanupFails = FALSE
INVARIANTS NoInventedOutcome NoContainerLeaked PlanIsExecuted
PROPERTY ContainerKept
SYMMETRY Symmetry
CHECK_DEADLOCK FALSE
