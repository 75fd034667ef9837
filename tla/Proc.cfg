SPECIFICATION FairSpec
CONSTANTS
    NPROC = 3
    MaxPid = 3
    ExitCodes = {0}
    StatusPtrs = {"null", "ok", "bad"}
INVARIANTS
    RunningIsOnHart
    LocksMaskInterrupts
    SyscallsNotInterrupted
    NoLostWakeup
    OnlyWaitPanics
PROPERTIES
    ImplementsTree
    RunnableRuns
    InputWakes
    WaiterReturns
