SPECIFICATION CooperativeSpec
CONSTANTS
  PassStderr = FALSE
  PipeCap = 1
  MaxOut = 1
  MaxErr = 0
  MaxIn = 2
  Closable = {}
  CanSpawn = FALSE
  Pings = TRUE
  NetCap = 1
  MaxFrames = 2
  Kinds = {"msg"}
  MaxSends = 1
  MaxUnits <- MCMaxUnits
INVARIANTS
  AllUnhindered
PROPERTIES
  ProgramEndEndsSession
  ClientEndEndsSession
CHECK_DEADLOCK FALSE
