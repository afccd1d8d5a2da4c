CONSTANTS
    MaxJobs <- MCMaxJobs
    MaxForks <- MCMaxForks
    ForkCanFail = FALSE
SPECIFICATION FairSpec
INVARIANT TypeOK
INVARIANT JobsHaveChildren
INVARIANT JobStatusConsistent
INVARIANT HandlerTargetsAwaited
PROPERTY ForegroundReturns
CHECK_DEADLOCK FALSE
