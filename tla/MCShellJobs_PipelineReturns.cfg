CONSTANTS
    MaxJobs <- MCMaxJobs
    MaxForks <- MCMaxForks
    ForkCanFail = FALSE
SPECIFICATION FairSpec
PROPERTY PipelineReturns
CHECK_DEADLOCK FALSE
