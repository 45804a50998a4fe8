SPECIFICATION FairSpec
CONSTANTS
  r1 = r1
  r2 = r2
  q1 = q1
  q2 = q2
  p1 = p1
  p2 = p2
  Plans = {p1}
  Requests = {q1}
  Pollers = {}
  Editors = {}
  Stoppers = {q1}
  Runs = {r1}
  MaxRestarts = 0
  RequestsDie = TRUE
  ResultsExpire = TRUE
  CleanupFails = TRUE
INVARIANTS OutcomeIsRecorded CommitsAttachedFiles
PROPERTIES StatusNeverLowered PublishedJobEnds PromiseFulfilled
CHECK_DEADLOCK FALSE
