SPECIFICATION FairSpec
CONSTANTS
    INPUT_BUF = 3
    Readers = {p1, p2}
    Letters = {"a", "b"}
    MaxLen = 3
    MaxBurst = 2
    MaxKeys = 5
INVARIANTS BufferNeverStalls NoLostWakeup
PROPERTIES ImplementsLine InputReachesReader
CHECK_DEADLOCK FALSE
