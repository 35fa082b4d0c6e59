SPECIFICATION FairSpec
CONSTANTS
  PassStderr = FALSE
  PipeCap = 1
  MaxOut = 2
  MaxErr = 0
  MaxIn = 3
  Closable = {}
  CanSpawn = FALSE
  Pings = FALSE
  NetCap = 1
  MaxFrames = 2
  Kinds = {"msg"}
  MaxSends = 4
  MaxUnits <- MCMaxUnits
INVARIANTS
  ClientSeesPrefix
  NothingLeftRunning
PROPERTIES
  TeardownCompletes
CHECK_DEADLOCK FALSE
