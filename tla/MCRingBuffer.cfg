CONSTANTS
    Size = 4
    FrameItems = 2
    MaxBatch = 2
    MaxOffered = 12
SPECIFICATION Spec
CHECK_DEADLOCK FALSE
INVARIANTS
    HoldsWhatWasWritten
    ReadsInOrder
    FramesWhole
PROPERTIES
    IsAQueue
