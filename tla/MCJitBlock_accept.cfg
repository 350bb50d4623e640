CONSTANTS
  NumDefs = 3
  Scopes <- AllScopes
  MaxCalls = 4
SPECIFICATION Spec
INVARIANT TypeOK
INVARIANT CompleteBeforeTheBody
INVARIANT GarbageOnlyBehindAnotherFunction
INVARIANT RejectsOnlyForwardNeeds
INVARIANT NothingIsLeftPending
CHECK_DEADLOCK FALSE
