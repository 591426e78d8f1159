SPECIFICATION PartsSpec
CHECK_DEADLOCK FALSE
CONSTANTS
    \* TaskQueue
    Procs = {p1, p2}
    Tasks = {t1, t2}
    Statuses = {queued, running}
    NoCall = NoCall
    MaxCalls = 4
    MaxKills = 1
    p1 = p1
    p2 = p2
    t1 = t1
    t2 = t2
    queued = queued
    running = running
    \* GlobalRegistry
    NewTasks = {n1, n2}
    OldTasks = {o1}
    MaxPrunes = 2
    n1 = n1
    n2 = n2
    o1 = o1
    \* ModelRouting
    Installed = {"manual", "codex", "gemini", "openrouter"}
    Advertised <- Catalogs
    Requests <- RunRequests
    MaxChanges = 2
    \* ContextPack
    Compilations = {"c1", "c2"}
    Files = {"a", "b", "c"}
    Contents = {"short", "long", "vast"}
    TooLong = {"vast"}
    FullSize <- FileSizes
    SummarySize <- SummarySizes
    FileScore <- FileScores
    PathOrder <- PathsInOrder
    Settings <- PackLimits
    MaxEdits = 1
    \* ChangeCapture
    Paths = {"src/a.ts", "package.json", "coverage/c", "agent-os-bundle.md"}
    Scope = {"src/a.ts", "package.json", "coverage/c"}
    NotCopied = {"coverage/c"}
    NotListed = {}
    BundlePath = "agent-os-bundle.md"
    Manifests = {"package.json"}
    Texts = {"a", "b", "key"}
    Secrets = {"key"}
    BundleText = "a"
    Repositories <- StartingRepositories
    TextSize <- PatchSizes
    MaxPatchSize = 3
    MaxChangedFiles = 1
    MaxUserEdits = 1
    MaxWorkerEdits = 2
    \* WorkerOutput
    Adapters = {"claude", "direct", "gemini", "codex", "opencode"}
    Scores = {2, 5}
    MaxLines = 3
    \* WakeFiles
    NoticeWorkers = {"manual-1", "codex-1"}
    MaxNoticeRuns = 2
INVARIANTS
    NoDuplicates
    ListedTasksAreQueued RegistryKeepsTasks
    RoutedModelIsAllowed OverrideRespected
    BundleIsMaximal SummaryIsCurrent
    ReportMatchesPatch PassedPatchIsSafe
    NoFailureIsCompleted
    CompletedWakeIsBacked WakeFollowsSettings
PROPERTY
    ImplementsMemory
