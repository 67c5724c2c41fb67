CONSTANTS
    Callbacks = {c1, c2}
    Sizes = {"small", "large"}
    MaxQueued = 2
    CopyPoolSize = 2
    MaxFrames = 5
    MaxResizes = 2
    MaxCaptures = 2
SPECIFICATION FairSpec
INVARIANTS
    PoolAccounted
    TextureAvailable
    ReleasedUndisturbed
PROPERTIES
    EncodedInOrder
    EveryFrameTaken
CHECK_DEADLOCK FALSE
