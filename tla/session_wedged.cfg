SPECIFICATION FairSpec
CONSTANTS
  PassStderr = FALSE
  PipeCap = 1
  MaxOut = 0
  MaxErr = 0
  MaxIn = 3
  Closable = {}
  CanSpawn = FALSE
  Pings = TRUE
  NetCap = 1
  MaxFrames = 3
  Kinds = {"msg"}
  MaxSends = 4
  MaxUnits <- MCMaxUnits
PROPERTIES
  ClientEndEndsSession
CHECK_DEADLOCK FALSE
