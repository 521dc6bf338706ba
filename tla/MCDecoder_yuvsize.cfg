SPECIFICATION Spec
CONSTANTS
    NoFrame = NoFrame
    Shapes <- VideoOnly
    Delays = {0}
    Dims = {4, 16}
    MaxPackets = 2
    MaxHandles = 1
INVARIANTS
    OutputFitsGetYUVSize
