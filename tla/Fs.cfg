SPECIFICATION Spec
CONSTANTS
    BSIZE = 4
    NDIRECT = 1
    NINDIRECT = 2
    NBLOCKS = 7
    NINODES = 6
    NINODE = 3
    NFILE = 2
    MaxWrites = 3
    ReadSizes = {3}
    Clip <- MCClip
    Opens <- MCOpens
    Mkdirs <- MCMkdirs
    Chdirs <- MCChdirs
    Data <- MCData
    Program <- MCProgram
    Readme <- MCReadme
INVARIANTS
    NoPanic
    BlocksOwnedOnce
    NothingUnsaved
    InodeRefsExact
    LinksCounted
PROPERTY
    ImplementsFileTree
