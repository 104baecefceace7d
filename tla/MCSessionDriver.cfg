CONSTANTS
    MaxQueued = 2
    MaxFrames = 3
    Cycle = 7
SPECIFICATION Spec
CHECK_DEADLOCK FALSE
INVARIANTS
    QueueBounded
    SleepsOnlyIdle
    SentInOrder
    FlushedFirst
PROPERTIES
    Finishes
