CONSTANTS
  NumDefs = 3
  Scopes <- OrderedScopes
  MaxCalls = 4
SPECIFICATION Spec
INVARIANT NoValueRunsAnIncompleteFunction
CHECK_DEADLOCK FALSE
