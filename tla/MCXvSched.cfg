CONSTANTS
    CPUs = {c1, c2}
    NoCPU = NoCPU
    Builds = {"RR", "FCFS", "CFS", "MLFQ"}
    BoostInterval = 2
SPECIFICATION Spec
CONSTRAINT CounterBound
INVARIANT TypeOK
INVARIANT MutualExclusion
INVARIANT TimeSliceInRange
