CONSTANTS
    PIPESIZE = 3
    Readers = {r1, r2}
    Writers = {w1, w2}
    MaxChunk = 2
    MaxBytes = 6
SPECIFICATION FairSpec
INVARIANTS RingIsBounded NoLostWakeup SlotKeptWhileBlocked
PROPERTIES ImplementsStream CloseReleases DataReachesReader
CHECK_DEADLOCK FALSE
