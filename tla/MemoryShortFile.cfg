SPECIFICATION Spec
CONSTANTS
    NPROC = 2
    NPAGES = 17
    PGSIZE = 2
    FANOUT = 4
    MAXVA = 7
    MaxSbrk = 2
    Stores = {}
    Images <- TruncatedImages
    INIT_ELF <- OnePage
INVARIANTS NoPanic
CHECK_DEADLOCK FALSE
