SPECIFICATION Spec
CONSTANTS
    History = 6
    Above = 2
    Slices <- MCSlices
    Indices <- MCIndices
INVARIANTS HistoryTypeOK MostRecentFirst
PROPERTY ImplementsRecentUses
CHECK_DEADLOCK FALSE
