CONSTANTS
  Programs <- LateImportPrograms
  Sessions <- NoSessions
  Resolved <- ResolveStatement
  Files <- MCFiles
  Locate <- MCLocate
  DirOf <- MCDirs
  MainDir = "main"
  FieldOrder <- MCFieldOrder
  StackLimit = 14
  MaxFrames = 20
  MaxCells = 10
SPECIFICATION MainSpec
INVARIANT NestedImportsUseTheirDirectory
CHECK_DEADLOCK FALSE
