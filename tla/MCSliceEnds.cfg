CONSTANTS
    Configs <- ThinConfigs
    Readings <- ThinReadings
    Reports <- SliceReports
    MaxScale = 65535
    MaxOffset = 1000000000
    GroupSizes = {}
    MaxGroups = 6
SPECIFICATION FairSpec
PROPERTY SliceEnds
CHECK_DEADLOCK FALSE
