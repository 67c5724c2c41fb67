CONSTANTS
    Sessions = {"s1"}
    Guests = {"g1", "g2"}
    MaxStarts = 2
    MaxCommands = 2
    MaxEvents = 2
SPECIFICATION FairSpec
INVARIANTS
    ActiveIsServed
    CleanupForgetsSession
    NoSessionForgotten
PROPERTIES
    HostStops
CHECK_DEADLOCK FALSE
