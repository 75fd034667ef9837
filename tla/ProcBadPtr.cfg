CONSTANTS
    NPROC = 3
    MaxPid = 3
    ExitCodes = {0}
    StatusPtrs = {"null", "ok", "bad"}
SPECIFICATION Spec
INVARIANTS NoPanic
