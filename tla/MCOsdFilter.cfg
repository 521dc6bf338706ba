SPECIFICATION Spec
CONSTANTS
    MaxPictures = 4
    MaxHandles = 3
INVARIANTS
    PictureIsCallers
    GraphEndsWithCall
    OneImagePerHandle
CHECK_DEADLOCK FALSE
