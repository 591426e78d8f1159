CONSTANTS
    Procs = {t1}
    Free = Free
    Abandoned = Abandoned
    NumWorkers = 2
    ManualWorker = 1
    Ops = {"run", "pause", "resume", "cancel", "reject", "rollback", "dry_run", "validate", "review", "accept", "recover"}
    OtherTasks = FALSE
    Captures <- Captured
    MaxCmds = 4
    MaxFaults = 1
SPECIFICATION Spec
INVARIANTS TypeOK QueueAgrees ResultBacksCompletion ValidatedDiffIsCurrent AcceptedWasValidated
