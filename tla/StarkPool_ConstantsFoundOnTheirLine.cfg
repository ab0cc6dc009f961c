CONSTANTS
    Words = 9
    MaxInsns = 10
    Kinds <- OneConstant
SPECIFICATION Spec
INVARIANTS
    ConstantsFoundOnTheirLine
CHECK_DEADLOCK FALSE
