CONSTANTS
    Sources <- MCSources
    SdDirectives <- MCSdDirectives
SPECIFICATION Spec
INVARIANTS
    TypeOK
    OperandsReadBack
    ProcessorStaysInStep
    HardwareFindsConstant
    LinkedOperandArrives
    RelocTypeAsWritten
CHECK_DEADLOCK FALSE
