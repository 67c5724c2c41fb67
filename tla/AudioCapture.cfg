CONSTANTS
    RING_BUFFER_SIZE = 2
    MAX_RETRY_ATTEMPTS = 1
    LOAD_RETRIES = 1
    MAX_REINIT_ATTEMPTS = 1
    ProcessLoopback = TRUE
    DeviceFallback = TRUE
    Faults = {"opus", "startup", "invalidated", "buffer", "pointer", "other", "reinit", "convert", "remap", "encode", "load"}
    MaxSessions = 2
    MaxAudioFrames = 3
SPECIFICATION AudioFairSpec
INVARIANTS
    NewestSurvives
PROPERTIES
    SentInOrder
    EveryFrameLeaves
CHECK_DEADLOCK FALSE
