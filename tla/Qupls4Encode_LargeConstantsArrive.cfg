CONSTANTS
    Sources <- MCSources
    Pcs <- MCPcs
    SdDirectives <- MCSdDirectives
SPECIFICATION Spec
INVARIANT
    LargeConstantsArrive
CHECK_DEADLOCK FALSE
