CONSTANTS
  NumDefs = 4
  Scopes <- ChainScopes
  MaxCalls = 4
SPECIFICATION Spec
INVARIANT NoGarbageIsRead
CHECK_DEADLOCK FALSE
