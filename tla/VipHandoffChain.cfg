CONSTANTS
    Nodes = {1, 2}
    Vips = {1}
    StaleMissed = 1
    Lifetime = 1
    Cleanup = 1
    MaxTick = 5
    MaxFaultyTick = 4
    MaxBehind = 1
    Faulty = {1}
SPECIFICATION Spec
CHECK_DEADLOCK FALSE
PROPERTY StillPresentStaysFenced
