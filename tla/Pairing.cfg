\* One host and two players: lost and unanswered heartbeats, one handled after
\* the host gave it up, TURN failures, stops and expiries, two of them per run.
CONSTANTS
    Guests = {p1, p2}
    Codes = {c1, c2, c3}
    Rooms = {r1, r2}
    None = None
    PairFaults = {"lost", "silent", "late", "turn", "stop"}
    MaxFaults = 2
SPECIFICATION PairFairSpec
INVARIANTS
    CodeUsedOnce
    ReservedOnce
PROPERTY FoundAgain
CHECK_DEADLOCK FALSE
