SPECIFICATION FairSpec
CONSTANTS
  InMsgs = {m1}
  PassStderr = TRUE
  PipeCap = 1
  MaxOut = 1
  MaxErr = 2
  MaxUnits <- MCMaxUnits
  MaxIn = 2
  Closable = {"stdin", "stdout", "stderr"}
  CanSpawn = TRUE
INVARIANTS
  NoSendOnClosedOutput
  OutputIntact
  EndOfOutputIsComplete
  NoSurvivors
  KillIsLastResort
PROPERTIES
  TeardownCompletes
  StderrKeepsDraining
CHECK_DEADLOCK FALSE
