SPECIFICATION Spec
CONSTANTS
    w1 = w1
    w2 = w2
    w3 = w3
    Workers <- MCWorkers
    MaxCalls = 3
INVARIANTS
    QueuesNeverFull
    BoundaryIsDeblocked
    WaitsForEverySlice
    FailuresAreReported
PROPERTIES
    EverySliceOnce
    CallsReturn
\* A closed encoder stops.
CHECK_DEADLOCK FALSE
