CONSTANTS
  NumDefs = 3
  Scopes <- AllScopes
  MaxCalls = 4
SPECIFICATION Spec
INVARIANT TypeOK
INVARIANT CompleteBeforeTheBody
INVARIANT GarbageOnlyInCalledFunctions
INVARIANT RejectsOnlyForwardNeeds
CHECK_DEADLOCK FALSE
