CONSTANTS
    Formats <- LevelFormats
    Readings <- LevelReadings
    Qps <- MCQps
    Shapes <- MCShapes
SPECIFICATION Spec
INVARIANT EveryLevelDecodes
CHECK_DEADLOCK FALSE
