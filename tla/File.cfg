CONSTANTS
    NPROC = 2
    NFILE = 3
    NOFILE = 3
    NPIPE = 1
    NINODE = 2
    Dirs = {root, dir}
    Regs = {}
    Devs = {dev}
    Root = root
    Modes = {"O_RDONLY", "O_WRONLY"}
    MaxRootRef = 2
SPECIFICATION Spec
INVARIANTS RefcntIsExact PipeEndsMatchFiles InodesKeptWhileOwned NoPanic
CHECK_DEADLOCK FALSE
