SPECIFICATION Spec
CONSTANTS
    MaxPictures = 3
    MaxHandles = 1
INVARIANTS
    FrameIsNotWrittenAfterReset
CHECK_DEADLOCK FALSE
