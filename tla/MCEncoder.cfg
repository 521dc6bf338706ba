SPECIFICATION Spec
CONSTANTS
    NoInput = NoInput
    Delays <- MCDelays
    BFrames <- MCBFrames
    MaxInputs = 3
    MaxHandles = 2
INVARIANTS
    SendNeverRefused
    LossesAreReported
    SendsOwnInput
    LosesPictureOnly
PROPERTIES
    MediaInOrder
