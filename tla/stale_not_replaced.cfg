CONSTANTS
    Procs = {t1}
    Free = Free
    Abandoned = Abandoned
    NumWorkers = 1
    ManualWorker = 0
    Ops = {"run", "resume", "recover"}
    OtherTasks = FALSE
    Captures <- OneCapture
    MaxCmds = 3
    MaxFaults = 1
SPECIFICATION Spec
INVARIANTS StaleTaskCanRun
