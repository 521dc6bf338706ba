SPECIFICATION Spec
CONSTANTS
    w1 = w1
    w2 = w2
    w3 = w3
    Workers <- ThreeWorkers
    Main = Main
    Free = Free
    MaxJobs = 4
    MaxExecutes = 2
    MaxSpurious = 1
    ExecuteModulus = 16
INVARIANTS
    ParkedOutsideExecute
PROPERTIES
    EveryJobOnce
    ExecuteReturns
    PoolEnds
