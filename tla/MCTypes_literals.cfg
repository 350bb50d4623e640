CONSTANTS
  Programs <- MCPrograms
  FirstVar = 10
  MaxChain = 12
  MaxInstances = 8
  DefinitionsOf <- SlotsOf
  IsLiteral <- IsFunctionIn
  TypeOf <- TypeOfDefinition
  MetAtTop <- UsesAtTop
  MetIn <- UsesInInstance
  Files <- NoFiles
  Locate <- NoFiles
  DirOf <- NoFiles
  MainDir = "main"
  FieldOrder <- MCFieldOrder
  MaxDepth = 6
  Budget = 12
SPECIFICATION Spec
INVARIANT InnerLiteralsInheritTheSubstitution
