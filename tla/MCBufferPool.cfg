SPECIFICATION FairSpec
CONSTANTS
    decoder = decoder
    reader = reader
    picture1 = picture1
    picture2 = picture2
    display = display
    Thread = {decoder, reader}
    Client = decoder
    Slot = {picture1, picture2, display}
    Owner <- MCOwner
    Buffer = {b1, b2}
    Block = {d1, d2}
    Pool = {p1, p2}
    Fresh <- MCFresh
    Value = {v1, v2}
    Nothing = Nothing
INVARIANTS
    NothingDangles
    PoolOutlivesBuffers
    NothingIsLost
PROPERTIES
    SharingIsInvisible
    PoolIsFreed
