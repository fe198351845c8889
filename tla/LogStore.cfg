CONSTANTS
    Term = {1, 2}
    MaxIndex = 5
SPECIFICATION Spec
CHECK_DEADLOCK FALSE
INVARIANTS
    HoldsWhatIsAhead
    StartupReadsAreServed
PROPERTY
    ImplementsAbstractLog
