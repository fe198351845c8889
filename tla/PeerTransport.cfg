CONSTANTS
    MaxBoot = 2
    Conns = {1, 2, 3}
    Unauthenticated = 2
    Authenticated = 2
SPECIFICATION LiveSpec
INVARIANT OnlyTheTargetDispatches
PROPERTY AnswersMatch
PROPERTY TheServingBootIsReached
