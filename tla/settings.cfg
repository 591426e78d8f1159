SPECIFICATION Spec
CONSTANTS
    Procs = {t1, t2}
    Providers = {gemini, codex}
    Vars = {v1, v2}
    Allowed <- TwoVars
    Keys = {k1, k2}
    NoKey = NoKey
    Overrides = {limited}
    Unset = Unset
    Inherited <- OneInherits
    Typed <- SomeCommands
    MaxCmds = 3
    MaxKills = 1
    t1 = t1
    t2 = t2
    gemini = gemini
    codex = codex
    v1 = v1
    v2 = v2
    k1 = k1
    k2 = k2
CHECK_DEADLOCK FALSE
INVARIANTS BackedUp SettingsKept StatusHeals StoredKeyInUse
