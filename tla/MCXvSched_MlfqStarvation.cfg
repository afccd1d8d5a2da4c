CONSTANTS
    CPUs = {c1}
    NoCPU = NoCPU
    Builds = {"MLFQ"}
    BoostInterval = 2
SPECIFICATION FairSpec
PROPERTY StarvationFree
