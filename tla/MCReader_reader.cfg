CONSTANT Texts <- MCTexts
SPECIFICATION ReadSpec
INVARIANT TokensCoverTheText
INVARIANT StringsNest
INVARIANT OnlyAnEscapeIsCut
INVARIANT ReadsAsItsTree
INVARIANT NoWordIsLost
PROPERTY LexingEnds
CHECK_DEADLOCK FALSE
