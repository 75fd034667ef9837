CONSTANTS
    NPROC = 2
    NFILE = 4
    NOFILE = 3
    NPIPE = 1
    NINODE = 1
    Dirs = {root}
    Regs = {}
    Devs = {}
    Root = root
    Modes = {"O_RDONLY", "O_WRONLY"}
    MaxRootRef = 3
SPECIFICATION Spec
INVARIANTS CwdRefsBalance
CHECK_DEADLOCK FALSE
