CONSTANTS
    CPUs = {c1, c2}
    NoCPU = NoCPU
    Builds = {"CFS"}
    BoostInterval = 2
SPECIFICATION Spec
CONSTRAINT CounterBound
INVARIANT NoPanic
