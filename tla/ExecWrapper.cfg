SPECIFICATION FairSpec
CONSTANTS
  stdout = stdout
  stderr = stderr
  Pipes = {stdout, stderr}
  Capacity = 2
  OutputLimit = 4
INVARIANTS LinesAreWhole OutputIsComplete StuckOnOpenLine
PROPERTY CommandEnds
CHECK_DEADLOCK FALSE
