CONSTANTS
    Widths = {1, 2, 3, 5, 7}
    Height = 4
    Rates = {1, 15, 16, 17, 86, 96, 127, 128, 129, 135, 143, 1023}
    Delays = {0, 1, 2, 4, 6}
    Configs <- MCConfigs
SPECIFICATION Spec
INVARIANTS PaddingPossible ExactChunks ReadingsAgree
CHECK_DEADLOCK FALSE
