CONSTANTS
    Profiles <- MCProfiles
    Default <- MCDefault
    Sessions = {"s"}
    Windows = {"720", "1080"}
    MinBitrate = 1
    MaxBitrate = 3
    MaxRequests = 2
    MaxFeedbacks = 1
    MaxCaptures = 2
SPECIFICATION FairSpec
INVARIANTS
    AppliedIsCurrent
    ActiveIsTrue
PROPERTIES
    RequestAnswered
CHECK_DEADLOCK FALSE
