CONSTANTS
    MaxJobs <- MCMaxJobs
    MaxForks <- MCMaxForks
    ForkCanFail = TRUE
SPECIFICATION Spec
INVARIANT JobsHaveChildren
CHECK_DEADLOCK FALSE
