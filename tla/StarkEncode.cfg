CONSTANTS
    Words = 16
    Abits = 32
    OptBranch = TRUE
    BigEndian = FALSE
    SdDirectives <- MCSdDirectives
    Sd2Directives <- MCSd2Directives
    Sources <- MCSources
SPECIFICATION Spec
INVARIANTS
    TypeOK
    OperandsReadBack
    LossIsReported
    RelocsPatchTheField
CHECK_DEADLOCK FALSE
