CONSTANTS
    Nodes = {1, 2, 3}
    Vips = {1, 2, 3, 4}
SPECIFICATION Spec
CHECK_DEADLOCK FALSE
INVARIANTS
    BookkeepingExact
    ResultIsPlacement
    MovementIsMinimal
    ComputesAssignVips
PROPERTIES
    NoVipMovesTwice
    Terminates
