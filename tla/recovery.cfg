CONSTANTS
    Procs = {t1}
    Free = Free
    Abandoned = Abandoned
    NumWorkers = 2
    ManualWorker = 1
    Ops = {"run", "pause", "resume", "recover"}
    OtherTasks = TRUE
    Captures <- OneCapture
    MaxCmds = 4
    MaxFaults = 2
SPECIFICATION RecoverySpec
PROPERTIES EveryCommandEnds CrashedRunIsNoticed PauseBlocksReruns
