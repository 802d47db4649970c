CONSTANTS
    Formats <- MCFormats
    Readings <- MCReadings
    Qps <- MCQps
    Shapes <- MCShapes
SPECIFICATION Spec
INVARIANTS TypeOK NeverStarves ElementFits FunnelFits SizeWithinCoded PrefixNeverInvalid
CHECK_DEADLOCK FALSE
