SPECIFICATION Spec
CONSTANTS
  PassStderr = TRUE
  PipeCap = 1
  MaxOut = 0
  MaxErr = 1
  MaxIn = 3
  Closable = {}
  CanSpawn = TRUE
  Pings = FALSE
  NetCap = 1
  MaxFrames = 2
  Kinds = {"msg","other","big"}
  MaxSends = 4
  MaxUnits <- MCMaxUnits
INVARIANTS
  HeardClientGetsAll
  ProgramReadsPrefix
PROPERTIES
  UsesProcessEndpoint
  UsesWebSocketEndpoint
CHECK_DEADLOCK FALSE
