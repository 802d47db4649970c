CONSTANTS
    Limits <- MCLimits
    First = 3
    Lengths <- MCLengths
SPECIFICATION ReadSpec
INVARIANT ReadsWhole
PROPERTY ReadEnds
CHECK_DEADLOCK FALSE
