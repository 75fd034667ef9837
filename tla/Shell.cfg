CONSTANTS
    NPROC = 5
    NOFILE = 9
    NPIPE = 4
    PIPESIZE = 1
    BUF = 2
    FileLen = 3
    Programs = {"echo", "cat"}
    Lines <- MCLines
    MaxNoMemory = 1
    MaxTyped = 2
SPECIFICATION FairSpec
INVARIANTS ParserIsGrammar PromptIsClean StagesWired WaitsFindChildren PipelineDelivers
PROPERTIES PromptReturns ShellRespawns
