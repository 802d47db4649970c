CONSTANTS
    Configs <- MCConfigs
    Readings <- MCReadings
    Reports <- MCReports
    MaxScale = 65535
    MaxOffset = 1000000000
    GroupSizes = {2, 3}
    MaxGroups = 4
SPECIFICATION RcSpec
INVARIANTS TypeOK QpCoherent QueuedQpReproducible DeadFailures MppCountedOnce
PROPERTY RangesLag
CHECK_DEADLOCK FALSE
