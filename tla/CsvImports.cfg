SPECIFICATION FairSpec
CONSTANTS
  i1 = i1
  i2 = i2
  i3 = i3
  a = a
  b = b
  c = c
  h = h
  k = k
  d1 = d1
  d2 = d2
  s = s
  Nobody = Nobody
  Imports = {i1, i2, i3}
  Jobs = {a, b, c}
  JobOf <- ThreeJobs
  Before <- NoneBefore
  Hashes = {h, k}
  Hash <- TwoHashes
  Data = {d1, d2}
  Places = {s}
  PlaceOf <- OneSpot
  Chunks <- ThreeFiles
  MayDie = TRUE
INVARIANTS TableShowsLatestRun NoInventedReference NoOrphans OnePointPerPlace
PROPERTIES ResultsShown ImportsEnd
CHECK_DEADLOCK FALSE
