CONSTANTS
    Sources <- MCSources
    Pcs <- MCPcs
    SdDirectives <- MCSdDirectives
SPECIFICATION Spec
INVARIANTS
    TypeOK
    OperandsReadBack
    PostfixesHoldConstant
    SizesAgree
    RelocsPatchTheField
    RelocTypeAsWritten
CHECK_DEADLOCK FALSE
