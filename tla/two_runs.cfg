CONSTANTS
    Procs = {t1, t2}
    Free = Free
    Abandoned = Abandoned
    NumWorkers = 1
    ManualWorker = 0
    Ops = {"run", "resume", "recover"}
    OtherTasks = TRUE
    Captures <- OneCapture
    MaxCmds = 2
    MaxFaults = 1
SPECIFICATION Spec
SYMMETRY Terminals
INVARIANTS LockOwnership WorkerDirExists
PROPERTIES LockSpec ArtifactsHaveOneWriter
