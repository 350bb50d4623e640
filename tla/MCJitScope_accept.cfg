CONSTANTS
  t1 = t1
  t2 = t2
  NumSlots = 1
  FunTypes <- MCFunTypes
  Tops <- AllTops
  MaxScopes = 4
  MaxRefs = 2
SPECIFICATION Spec
INVARIANT TypeOK
INVARIANT LoadsTheResolvedBinding
INVARIANT DirectCallsAreRightOutsideBlocks
INVARIANT ModulesAreRightOutsideFunctionsInBlocks
INVARIANT LoadsTheInstanceOfAnEarlierUse
INVARIANT RefusesOnlyQuotedOrModules
CHECK_DEADLOCK FALSE
