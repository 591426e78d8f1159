CONSTANTS
    Procs = {t1}
    Free = Free
    Abandoned = Abandoned
    NumWorkers = 1
    ManualWorker = 0
    Ops = {"run", "validate", "accept"}
    OtherTasks = FALSE
    Captures <- Captured
    MaxCmds = 4
    MaxFaults = 0
SPECIFICATION Spec
INVARIANTS AcceptedWorkPasses
CHECK_DEADLOCK FALSE
