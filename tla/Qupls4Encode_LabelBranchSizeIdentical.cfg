CONSTANTS
    Sources <- MCSources
    Pcs <- MCPcs
    SdDirectives <- MCSdDirectives
SPECIFICATION Spec
INVARIANT
    LabelBranchSizeIdentical
CHECK_DEADLOCK FALSE
