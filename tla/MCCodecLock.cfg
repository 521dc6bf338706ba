\* Three threads race to make the mutex; each opens up to three codecs, so
\* that one open can have two helpers.
SPECIFICATION FairSpec
CONSTANTS
    Threads = {t1, t2, t3}
    MaxOpens = 3
    NoMutex = NoMutex
    Nobody = Nobody
INVARIANTS OneInside AssertsHold OneMutex
PROPERTY OpensReturn
\* A thread that has opened all its codecs stops.
CHECK_DEADLOCK FALSE
