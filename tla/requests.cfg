SPECIFICATION Spec
CONSTANTS
  Dirs <- MCDirs
  Files <- MCFiles
  Links <- MCLinks
  Aliases <- MCAliases
  Settings <- MCSettings
  URLs <- MCURLs
INVARIANTS
  ContainmentByIdentity
PROPERTIES
  SourceNotServed
  StaysInside
  NaturalURLRuns
