CONSTANTS
  Programs <- MCPrograms
  Sessions <- MCSessions
  Resolved <- ResolveStatement
  Files <- MCFiles
  Locate <- MCLocate
  DirOf <- MCDirs
  MainDir = "main"
  FieldOrder <- MCFieldOrder
  StackLimit = 14
  MaxFrames = 36
  MaxCells = 10
SPECIFICATION MainSpec
INVARIANT TypeOK
INVARIANT OverflowsOnlyInsideItself
INVARIANT PrintsWhatTheProgramMeans
INVARIANT DirectoryOfInnermostImport
INVARIANT LineMeansTheLatestDefinitions
PROPERTY EvaluationEnds
PROPERTY TailLoopsEnd
PROPERTY ImplementsLazyBindings
CHECK_DEADLOCK FALSE
