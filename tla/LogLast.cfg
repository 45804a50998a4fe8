SPECIFICATION FairPageSpec
CONSTANTS
  p1 = p1
  p2 = p2
  q1 = q1
  q2 = q2
  Publishers = {p1}
  Reporters = {p1}
  Pages = {q1}
  LogLimit = 2
  SetupLimit = 1
PROPERTY PageCatchesUp
CHECK_DEADLOCK FALSE
