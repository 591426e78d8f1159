CONSTANTS
    Procs = {t1}
    Free = Free
    Abandoned = Abandoned
    NumWorkers = 1
    ManualWorker = 0
    Ops = {"run", "validate", "recover"}
    OtherTasks = FALSE
    Captures <- Captured
    MaxCmds = 3
    MaxFaults = 1
SPECIFICATION Spec
INVARIANTS ManifestsAreGated
