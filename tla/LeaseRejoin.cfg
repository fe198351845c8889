CONSTANTS
    n1 = n1
    n2 = n2
    n3 = n3
    Nodes = {n1, n2, n3}
    Ratio = 2
    ConsumerUse = 1
    Cohorts <- ChainCohorts
    MaxRestarts = 1
    MaxRounds = 1
SPECIFICATION Spec
CHECK_DEADLOCK FALSE
INVARIANTS
    OneGenesisAtATime
    AuthorityIsBacked
PROPERTY PermissionIsTerminal
