CONSTANTS
    Cohort <- MCCohort
    Running <- MCRunning
    Joiners <- MCJoiners
    Nonces = {1}
    Prepared <- MCPrepared
    Lagging <- MCJoiners
    MaxTerm = 2
    MaxLog = 7
SPECIFICATION Spec
CHECK_DEADLOCK FALSE
INVARIANTS
    CommittedIsNeverRefused
PROPERTY
    CommittedChangesAreBarriered
