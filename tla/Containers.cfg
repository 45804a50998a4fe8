SPECIFICATION Spec
CONSTANTS
  d1 = d1
  d2 = d2
  d3 = d3
  j1 = j1
  j2 = j2
  Deliveries = {d1, d2, d3}
  Jobs = {j1, j2}
  JobOf <- OneTwice
INVARIANTS NoImageLeft NoDomainLeft
PROPERTIES StartsComplete ContainerPromised
CHECK_DEADLOCK FALSE
