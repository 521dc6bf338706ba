SPECIFICATION FairSpec
CONSTANTS
    NoFrame = NoFrame
    Shapes <- MCShapes
    Delays = {0, 1}
    Dims = {4, 16}
    MaxPackets = 2
    MaxHandles = 2
INVARIANTS
    VideoNeverRefused
    CopyReadsOwnFrame
    LosesContextsOnly
PROPERTIES
    MediaInOrder
    RefusalIsPermanent
    CallsReturn
