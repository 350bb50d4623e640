CONSTANT Cells = {c1, c2, c3, c4}
SPECIFICATION Spec
INVARIANT TypeOK
INVARIANT BusyIffForcing
PROPERTY EvaluatedOnce
