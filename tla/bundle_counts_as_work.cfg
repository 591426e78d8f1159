SPECIFICATION CaptureSpec
CHECK_DEADLOCK FALSE
CONSTANTS
    Paths = {"src/a.ts", "package.json", "agent-os-bundle.md"}
    Scope = {"src/a.ts", "package.json", "agent-os-bundle.md"}
    NotCopied = {}
    NotListed = {}
    BundlePath = "agent-os-bundle.md"
    Manifests = {"package.json"}
    Texts = {"a", "b", "key"}
    Secrets = {"key"}
    BundleText = "a"
    Repositories <- StartingRepositories
    TextSize <- PatchSizes
    MaxPatchSize = 3
    MaxChangedFiles = 1
    MaxUserEdits = 1
    MaxWorkerEdits = 2
INVARIANT NoWorkFails
