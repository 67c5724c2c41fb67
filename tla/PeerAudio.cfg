CONSTANTS
    QueueCap = 2
    BufferCap = 2
    TimeWrap = 8
    FirstPts = 6
    Gaps = {0, 2}
    MaxGen = 3
    MaxPackets = 3
    MaxRuns = 2
SPECIFICATION Spec
INVARIANTS
    NothingStranded
    BufferIsOwn
    PayloadHeldOnce
    DrainIsServed
PROPERTY NumberedInOrder
CHECK_DEADLOCK FALSE
