CONSTANTS
    alt = alt
    tab = tab
    Keys = {alt, tab}
    Buttons = {b1}
    Vk <- MCVk
    Forbidden <- MCForbidden
    Sessions = {s1}
    NoSession = NoSession
    GoCap = 2
    TransportCap = 1
    HandlerCap = 1
    MaxEvents = 4
SPECIFICATION Spec
INVARIANTS
    
    StoppedReleasesAll
SYMMETRY MCSymmetry
CHECK_DEADLOCK FALSE
