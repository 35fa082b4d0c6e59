SPECIFICATION FairSpec
CONSTANTS
  CommandLines <- MCCommandLines
  MaxAddrs = 2
  Requests <- MCRequests
  Pages <- MCPages
  Environ <- MCEnviron
INVARIANTS
  ReportsReachMain
  ExitHasItsReason
  OriginAsDocumented
  WarningsAccurate
  RedirectLeadsHere
  EnvironmentAsDocumented
PROPERTIES
  FailureStopsAll
CHECK_DEADLOCK FALSE
