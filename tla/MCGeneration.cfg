SPECIFICATION FairSpec
CONSTANTS
    Callers = {c1, c2, c3}
    Drainers = {run, stop}
    ConfiguredConcurrency = 2
    DefaultMaxConcurrency = 8
INVARIANTS
    ActiveCountsLeases
    DrainedIsEmpty
    SomebodyWakes
PROPERTIES
    ImplementsBoth
    DrainTerminates
CHECK_DEADLOCK FALSE
