SPECIFICATION Spec
CONSTANTS
    History = 14
    Above = 7
    Slices <- MCSlices
    Vectors <- MCVectors
    Indices <- MCIndices
INVARIANTS PredictorTypeOK ReadsAreDecoded ReferenceInside WindowInside HistoryBounded
CHECK_DEADLOCK FALSE
