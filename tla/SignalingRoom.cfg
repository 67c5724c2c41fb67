CONSTANTS
    Instances = {"a", "b"}
    MaxSockets = 3
    Sessions = {"s1", "s2"}
    Openings <- MCOpenings
    Capacity = 2
    PendingLimit = 1
    ErrorThreshold = 1
    MaxMessages = 2
    MaxEvents = 2
    Slow = TRUE
SPECIFICATION FairSpec
INVARIANTS
    LeaseIsWhole
    HeardInOrder
PROPERTIES
    LeaseLostToOwner
    RolesAreFreed
CHECK_DEADLOCK FALSE
