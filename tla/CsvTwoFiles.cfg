SPECIFICATION Spec
CONSTANTS
  i1 = i1
  i2 = i2
  i3 = i3
  a = a
  b = b
  c = c
  h = h
  k = k
  d1 = d1
  d2 = d2
  s = s
  Nobody = Nobody
  Imports = {i1, i2}
  Jobs = {a}
  JobOf <- OneJob
  Before <- InOrder
  Hashes = {h, k}
  Hash <- OneHash
  Data = {d1, d2}
  Places = {s}
  PlaceOf <- OneSpot
  Chunks <- TwoFiles
  MayDie = FALSE
INVARIANT TableShowsLatestRun
CHECK_DEADLOCK FALSE
