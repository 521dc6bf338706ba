SPECIFICATION RequestSpec
CONSTANT Requests <- MCRequests
INVARIANTS
    PicturesArrive
    SamplesArrive
    HeaderParses
    CaptionArrives
CHECK_DEADLOCK FALSE
