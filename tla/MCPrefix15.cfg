CONSTANTS
    Formats <- Formats16
    Readings <- Prefix15
    Qps <- Qps16
    Shapes <- MCShapes
SPECIFICATION Spec
INVARIANT ElementFits
CHECK_DEADLOCK FALSE
