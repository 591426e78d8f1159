SPECIFICATION DashboardSpec
CHECK_DEADLOCK FALSE
CONSTANTS
    \* ActivityTail
    Pollers = {p1, p2}
    p1 = p1
    p2 = p2
    Dirs <- LogDirs
    IdOf <- DirIds
    MaxRead = 1
    Cap = 2
    MaxLog = 3
    MaxShrinks = 1
    MaxPolls = 4
    \* WatchScreen
    Fleets <- SomeFleets
    TaskFilter = {"one", "two"}
    Window = 1
    MaxEffects = 3
    MaxBuilds = 1
    MaxKeys = 3
    MaxEntries = 1
    \* TaskRows
    MaxRowRuns = 2
    MaxReads = 1
    MaxCrashes = 1
    \* UsageReport
    UsageTasks = {"t1", "t2"}
    UsageProviders = {"codex", "zai"}
    Counts <- TokenCounts
    Windows = {0, 1, 2}
    MaxTime = 2
    MaxRuns = 2
    \* PlanDetection
    Detected = {"claude", "codex", "gemini", "cline", "kilo", "opencode", "zai"}
    Ticks = {k1, k2}
    k1 = k1
    k2 = k2
    RawPlans = {"max_20x"}
    WordsIn <- PlanWords
    Ttl = 1
    MaxClock = 3
    MaxLoginChanges = 1
INVARIANTS
    TailIsExact
    OneInterval SelectionInRange LogKeepsUp
    CompletedRowIsBacked
    DashboardWithinReport
    PlanIsRecent
