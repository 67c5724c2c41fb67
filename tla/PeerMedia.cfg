CONSTANTS
    QueueCap = 2
    MaxGen = 2
    MaxFrames = 5
SPECIFICATION Spec
INVARIANTS
    NoDropForgotten
PROPERTY KeyframeSurvives
CHECK_DEADLOCK FALSE
