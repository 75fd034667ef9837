SPECIFICATION Spec
CONSTANTS
    NPROC = 2
    NPAGES = 16
    PGSIZE = 2
    FANOUT = 4
    MAXVA = 7
    MaxSbrk = 2
    Stores = {0, 4}
    Images <- DenseImages
    INIT_ELF <- OnePage
INVARIANTS PagesConserved MappedIsOwned NoPanic
PROPERTIES ImplementsMemory
CHECK_DEADLOCK FALSE
