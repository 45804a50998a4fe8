SPECIFICATION FairSpec
CONSTANTS
  t1 = t1
  t2 = t2
  t3 = t3
  n = n
  k = k
  l = l
  c = c
  dn = dn
  dk = dk
  opendap = opendap
  kml = kml
  Nothing = Nothing
  Tasks = {t1, t2, t3}
  Files = {n, k, l, c}
  FilesOf <- Deliveries
  Kind <- FileKind
  Dests = {dn, dk}
  Dest <- FileDest
  Dirs = {opendap, kml}
  Dir <- DestDir
INVARIANTS FinishedIsComplete FailsOverDirsOnly StoreIsWhole
PROPERTY CommitEnds
CHECK_DEADLOCK FALSE
