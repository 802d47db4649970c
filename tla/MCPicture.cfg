CONSTANTS
    Pictures <- MCPictures
    MaxColumns = 3
SPECIFICATION Spec
INVARIANTS ChunksOnce OutputIsPrefix
PROPERTY PictureEnds
CHECK_DEADLOCK FALSE
