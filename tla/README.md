# Verification of agent-os

TLA+ models, TLC checks and TLAPS proofs for universal-agent-os: a CLI that
splits coding work into tasks, runs each task through an external coding agent
in a scratch copy of the repository, and gates the result by validators, a
review packet and an explicit accept. Paths below are relative to the
repository (`src/core/...` and so on).

There is no server. Every command is one short-lived Node process, and
everything a command knows about another one is in files under `.agent-os/`.
The hard part of the system is therefore what those files look like when two
terminals interleave at an `await`, when a process is killed between two writes,
and when the callbacks of one worker process arrive in an unexpected order. The
models are about exactly that.

## Inventory

| part | state it keeps | operations | talks to |
|---|---|---|---|
| task lock (`core/locks.ts`) | `tasks/<id>/lock/`, `owner.json` | acquire (mkdir), release (rm), `withTaskLock` | only `taskRun` uses it |
| task state (`core/lifecycle.ts`, `core/ids.ts`) | `tasks/<id>/state.json`, event log | createTask, readState, updateState | every command |
| controller (`core/controller.ts`) | none of its own | run, dry-run, pause, resume, cancel, reject, rollback, validate, review, accept, recover, diff, list | state, queue, lock, router, runner, validators, judge |
| queue (`core/queue.ts`) | `queue.json`, one item per task | enqueue, update (pause, resume, cancel), list, in-memory dequeue | every command of every task |
| external runner (`providers/external-runner.ts`) | `workers/<provider>-1/`: heartbeat, result, diff, logs | prepare, spawn, supervise, collect | provider process, worker cleanup |
| worker cleanup (`core/worker-cleanup.ts`) | set of live workers in memory | register, unregister, sweep on SIGINT or SIGTERM | provider process groups, temp workspaces |
| manual provider (`providers/manual.ts`) | the same worker directory | writes a bundle and a result | controller |
| validators (`validators/*`) | `validation/validation-result.json` | schema, no-op, scope, size, dependency, secrets, command checks | worker artifacts |
| review (`review/*`) | `review/reviewer-input.md` | delta review, `judgeMerge` | validation result |
| routing (`routing/*`) | none | choose provider and model | catalog, provider status |
| model catalog (`models/*`) | `models/*.json` caches | refresh, pricing, coding gate | provider APIs |
| configuration (`config/*`) | `provider-status.json`, credentials, `runtime.json` | read, override, migrate | router, CLI |
| global registry (`core/global-registry.ts`) | one JSON line per task, all repositories | append, read, prune | dashboard |
| context (`context/*`) | prompt bundle, file summary cache | rank, budget, redact | provider prompts |
| workspace (`workspace/*`) | temp copies | copy, diff, path checks | runner |
| dashboard (`tui/*`) | snapshots, log offsets, selection, scroll offsets | aggregate, tail, show, keys | reads all of the above |
| provider adapters (`providers/*`), usage (`usage/*`) | `usage.json` | parse output, pick the usage, summarise | runner, dashboard |
| notifications (`core/notifications.ts`) | two settings files, `wakeups/*.json` | notify | runs, orchestrators |
| plans (`tui/runtime/plan-detectors/*`) | a minute of memory | detect | files of other CLIs |
| orchestrator guard, telemetry, redaction, command line | - | flag, logs, patterns, prompts | - |

Hard behaviours, and what makes each part correct:

* **lock**: mutual exclusion of runs, ownership, and what a dead holder leaves.
* **state and queue**: read-modify-write of whole files by unlocked processes,
  in place (truncate, then write); state and queue are two files that must tell
  the same story.
* **worker directory**: one directory per provider and task, reused by every
  run, its files written one after another; recover, validate and accept must
  not mistake one run's artifacts for another's.
* **run under pause, recover, accept**: only run is locked, so every user command
  races with it.
* **worker process**: exit, close, data and three timers race; log writes are
  queued; a signal may arrive before the worker is registered or after it is
  unregistered.
* **worker output**: a stream of results, errors and partial token counts in any
  order, from which one status and one usage record are kept.
* **changes**: a copy is compared with a repository the user goes on editing, twice,
  file by file; the verdict is about what both readings made of it.
* **settings**: files every command checks, migrates and writes back whole, in place;
  a menu's environment outlives its commands.
* **registry**: one file of all repositories, appended to by every create, after its queue
  item, and by every run, before it; `pruneRegistry` would replace it meanwhile.
* **routing, catalog**: prices and overrides change between the list of models and the
  choice, and the file of the overrides may be half written when it is read; ties, missing
  models and limits decide between a route, an error and manual.
* **context**: a byte budget and three counts, and summaries cached by content.
* **notices**: a run's outcome is told while it is recorded, and an orchestrator acts on it.
* **dashboard**: it reads what runs are writing, does not wait for its own last tick, and
  keeps indices, offsets and answers from one tick to the next.

`PROJECT.json` lists these hazards at their lines.

## Modules

| module | what it is |
|---|---|
| `TaskLock` | abstract: what a task's lock directory promises |
| `TaskLifecycle` | the core: the files of one task and the processes working on it |
| `MCTaskLifecycle` | the symmetry of its terminals, and the one capture of runs nobody validates |
| `TaskLifecycle_proofs` | types, lock ownership, mutual exclusion, refinement of `TaskLock`, acceptance, worker directories |
| `OneTerminal_proofs` | what one terminal may rely on between its commands: result, validation, queue, pause |
| `InMemoryQueue` | abstract: the queue with indivisible upserts |
| `TaskQueue` | `queue.json` read, truncated and written by unlocked processes |
| `TaskQueue_proofs` | types, one item per task, refinement of `InMemoryQueue`; lemmas about `Upserted` |
| `WorkerRunner` | `runProcess`, its callbacks and timers, and the signal handler |
| `WorkerRunner_proofs` | types, timers, sweeps and heartbeat order |
| `WorkerOutput` | what an adapter makes of a worker's output: status and tokens |
| `ChangeCapture`, `MCChangeCapture` | copy, worker, two readings of the trees, patch, validators |
| `ModelCatalog` | pure: entries, prices, gate, staleness, scores |
| `ModelRouting` | the broker over catalogs and overrides that change meanwhile |
| `ContextPack` | the budgeted bundle and the summary cache |
| `GlobalRegistry` | `task create`, the runs' lines, prune |
| `WakeFiles` | layered settings and the wake file of each worker |
| `RunParts_proofs` | routing, bundles, patches, output, registry and notices |
| `RuntimeFiles`, `MCRuntimeFiles` | runtime.json, provider status, credentials, environment |
| `RuntimeFiles_proofs` | types, backup, newer runtimes, healing, settings kept, stored keys in use |
| `TaskRows` | a dashboard row read while a run writes |
| `WatchScreen` | the screen: effects, builds, pause, keys, selection |
| `ActivityTail` | polls of the logs and the ring of entries |
| `UsageReport` | the tokens of the windows and those of `usage` |
| `PlanDetection` | seven detectors and the answers they leave for a minute |
| `Dashboard_proofs` | intervals, selection, log, tail, rows, usage and plans |
| `SumLemmas` | sums over finite sets: order, update, comparison, grouping by key |
| `MCRunParts`, `MCDashboard` | instances of parts that share no state, one part moving at a time |

### TaskLifecycle

The state is the task's files: `stateFile` (readable, empty or corrupt),
`queueStatus`, `lock`, `worker` (for each worker directory: heartbeat, result,
diff, and whether they are inside the recovery window) and `validation`. Each
process has a command, a place in it (`pc`, one per await that separates two
accesses to shared files), the arguments of the `updateState` call it is in
(`upd`), the workerId that call has read (`kept`) and its other locals (`ctx`).

* `UpdateRead`, `UpdateOpen`, `UpdateWrite`, `QueueUpdate` are `updateState`
  and the `queue().update` after it. No lock covers them.
* `Pause`, `Resume`, `Overwrite` (cancel, reject, rollback, dry-run),
  `ReadForValidation` .. `WriteVerdict`, `Review`, `Accept`, `ReadForRecovery`,
  `RecoverTask` are the user's commands; `Refuse` is each early throw.
* `AcquireTaskLock` .. `ReleaseLock` are `taskRun`. `Throw` leaves
  through the finally block of `withTaskLock`. A route is a free choice of
  worker directory, since `createWorkerId` makes it `<provider>-1`.
* `Kill` is a process that dies at any place. `WriteOwnerFails` is the failed
  write of `owner.json` after a successful mkdir.

A worker's changes are in two files, and the validators look at both. `named` is what
result.json's `changedFiles` names: no file, only files of which nothing more is asked
(`good`), or files that must not pass unseen, a manifest or too many (`gated`).
`diff` is diff.patch: `bad` if it is absent, blank, too large or has a secret in its text,
otherwise `good` or `gated` by the files it changes. `JudgedFiles` are result.json's, or the
patch's if it names none, and `ValidatorsPass` asks for a completed result, for text in order
and for judged files that are good, each of its own file. A kill between the two
writes (`FinishResult`, `FinishDiff`) leaves the files of two runs side by side.
`Captured` has the pairs that one run can make; `Captures` are those of an instance, all of
them where validate is used, and `OneCapture` where no command reads what the flags say.

Abstracted: provider, model and message texts; event, usage and log files; which files a
diff changes, beyond these flags; how many
milliseconds old a time stamp is (`fresh` or not, `WindowPasses`). Only
state.json's write is split in two: it is the file that unlocked commands write over
one another. Worker artifacts are written whole; one run at a time writes them
(`ArtifactsHaveOneWriter`), and recover takes a half-written one for a missing one.
The validators read diff.patch and result.json in one step, and
recover reads heartbeat.json and result.json in one step. The queue file's own read-modify-write is one step here, which throws
when `OtherTasks` is TRUE and another command is writing; `TaskQueue` has it in
detail. Task creation is the initial state: no other process knows the id yet.
`runs`, `hold`, `passed` and the `run` fields are history: which run a status,
result or diff speaks of.

### InMemoryQueue and TaskQueue

`InMemoryQueue` is the class of that name: find the item or push one. `TaskQueue`
does the same upsert on `queue.json` in three steps (`ReadState`, `OpenFile`,
`WriteFile`) in each of several processes. A missing file is empty; an empty or
corrupt one makes `JSON.parse` throw. When two processes have truncated before
either has written, the longer text's tail may remain (`corrupt`). `acked` is
history: what the calls that returned would have made of a queue in memory.

### WorkerRunner

`stage` is where `runExternalProvider` is, `group` the living members of the
provider's process group (the provider and one helper that shares its pipes),
`timers` the armed timers, `pending` the queued heartbeat writes, `tracked` the
membership in `liveWorkers`, `cli` whether agent-os is up, sweeping after a
signal, or gone. `exit` and `close` are separate events, as in Node: exit belongs
to the provider, close to the pipes. What the adapter parsed out of the output,
and whether the workspace changed, is the provider's free choice. A process may
die at any time, with or without SIGTERM, so SIGTERM needs no action of its own.

### WorkerOutput

Five adapters read stdout line by line. A line is a result event (success, failure
or another word), a message, an error event or plain text, and speaks of some
tokens or none. `parse` is what the adapter remembers: exactly the flags that decide
`Parsed`, one operator per parser. `limited` is `adapter.ts`'s look for quotas in
either stream; `ProviderStatus` is `buildProviderResult`. The content of a
message and the way tokens are spelled are left out.

### ChangeCapture

One run from `CopyTree` to `Validate`, with `UserEdit` and `WorkerEdit` (a helper may
go on writing) at any place between. `Compare` reads one file of both trees at a time;
`PatchFile` reads the files found again, which is what makes a report and a patch
that disagree possible. The validators are six conjuncts over the reported files or,
when there are none, the patch's. A text is a model value; its size, and whether it
looks like a secret, are constants. The repository is assumed not to lie below a
directory that the copy's filter excludes.

### ModelCatalog and ModelRouting

A model is a record of what the sources' patterns find in it; each source has its
operator (`OpenRouterEntry`, ...), since each fills in other things itself. A catalog
is what one refresh found, or empty after a failed one. `Ask` lists the models, each
`ScoreCandidate` awaits one provider's availability, of those left the `IsNext` one in
the order of the fallbacks, `ChooseBest` sorts; `RouteRequested` is the path of a model asked
for by name. Overrides, refreshes and expiries fall between any two.

A look at a provider is `readProviderStatus`: `EnsureStatus` tries the file, `OpenDefaults` and
`FillDefaults` start over one that does not parse, and only then is it read; emptied
between the two, it makes the route throw (`ReadThrows`). Another terminal's override is
`SetOverride`, `OpenOverride`, `FillOverride`, and may be killed after each. `StartOver` is any
other command that meets a torn file. Two writers at once may leave it torn. The content of a
whole file is `override.map`; of a torn one nothing is read.

### ContextPack

`Load` reads the cache, `Rank` one file after another (in any order: the code starts
them together), `Place` takes the highest score first, `WriteBundle` and
`SaveSummaries` truncate and write the cache. Scores, sizes and whether a file is too
long are constants of a content.

### GlobalRegistry

`CreateTask`, `Enqueue`, `Announce` are `taskCreate`, which may fail or be killed after
each; `RunTask`, `AnnounceRoute`, `UpdateQueueItem` are what a run does about the registry
and the queue, in that order. A run asks for the task's directory and no more, so that
one may list a task whose queue item was never made. `RunStops` is a run that throws or is
killed, at either place. `AppendEntry` may be whole, skipped, or cut short; what is appended
after a cut line is lost with it (`Garbage`). The registry is a set of lines: nothing that
reads it here depends on their order. `PruneRead` and `PruneReplace` are the two halves of
`pruneRegistry`; no command, controller method or screen calls it today, so the runs of
these two actions say what its caller would meet.

### WakeFiles

A run tells `worker_finished`, records its outcome, and tells `task_completed`. Each
notice reads the project's settings, then the user's, and then writes the wake file in
two steps. Failures and kills may come at each place. Bell, desktop notice and
commands go by the same switches, and nothing waits for them.

### RuntimeFiles

Each of several terminals runs commands that all begin with `ensureRuntime` (`ReadInfo`
to `Apply`), and then read, truncate and write a settings file. `env` is `process.env`,
which outlives a command in the menu and is `Inherited` in a new terminal. A status file
found at the start is missing or whole, with any availabilities, those of a CLI that knew
fewer providers included. `session` is history: whether a terminal has run no command yet
(fresh), one since the last change another terminal made to the credentials (synced), or
none since (stale), and the variables that held a key in it at such a change (`held`). Its next
command makes it synced again, but does not overwrite what is `held`:
`applyProviderCredentialEnv` fills only empty variables.

### TaskRows, WatchScreen, ActivityTail, UsageReport, PlanDetection

`TaskRows` has a run with every write of its files in two steps, and a read of them
file by file; `WorkerStatus` and `Annotated` are the code's. The run's writes are in order
state, running heartbeat, the pid in workspace.json right after the spawn, heartbeats
while it works, the exited heartbeat, workspace.json again, the finished heartbeat, result and
state. A spawn that fails has no pid, and no file is written for it until the record at the
end. `alive` is the set of worker processes, which may outlive the command that started
them; `RecoverRow` is recover after a kill. `WatchScreen` has the
effects that start builds and intervals, builds that end in any order, and the keys; a
filter or a stable sort is the rows at some places of the table (`RowsAt`).
`ActivityTail` has polls over each other, with a log as a number of lines, emptied by
a rerun. `UsageReport` has both reports as operators over the files, registry lines
and events that runs leave. `PlanDetection` has the detectors as operators over what a
login leaves, and ticks that ask, read and remember.

### MCRunParts and MCDashboard

The parts of a run that share no modelled state are checked side by side: the
variable `part` says which one moves, and the others keep one initial state. So the
run visits the disjoint union of the parts' state graphs, each complete under its own
bounds, and no property reads two parts.

## Runs

| run | bounds | question |
|---|---|---|
| `one_terminal` | 1 process, 2 workers (one manual), all 11 commands, 4 commands plus any number of recovers, 1 fault | Between commands, do queue, result and validated diff agree with the state, and does an accepted task rest on a verdict that passed? |
| `two_runs` | 2 processes, run, resume, recover, 2 commands plus recovers, 1 fault, queue may throw | Is the lock owned, does it implement `TaskLock`, do artifacts have one writer, does workerId name a directory? |
| `recovery` | 1 process, run, pause, resume, recover, 4 commands plus recovers, 2 faults, fairness | Does every command end, is a crashed run noticed, does pause block reruns? |
| `worker_process` | idle timeout on, 3 chunks against a limit of 1, fairness | Timers, sweeps, heartbeat order, and that a run ends |
| `settings` | 2 terminals, 2 providers, 2 variables, 2 keys, 3 commands, 1 kill; runtime.json missing, older, current or newer | Are settings kept, healed and backed up, and stored keys in use? |
| `run_parts`: queue | 2 processes, 2 tasks, 2 statuses, 4 calls, 1 kill | Is the file the queue in memory unless calls overlap; can a task get two items? |
| `run_parts`: registry | 2 new tasks, 1 old, 2 prunes | Are listed tasks queued, unless a run ended before it could, and lines kept unless an append falls into a prune? |
| `run_parts`: routing | 4 providers, 6 catalogs, 6 requests, 2 changes | Is a routed model allowed, and an override respected while its file is in one piece? |
| `run_parts`: context | 2 compilations, 3 files, 3 contents, 1 edit, limits of 1 file, 1 summary, 11 bytes | Does a bundle fit, and is what was skipped too long for it; are summaries current? |
| `run_parts`: changes | 4 files, 3 texts, 1 user edit, 2 worker edits | Do report and patch agree, and does what passed keep to the task's files? |
| `run_parts`: output | 5 adapters, 3 lines, 2 token counts | Can a failure be read as success? |
| `run_parts`: wake | 2 workers, 2 runs, every setting, 1 edit a run | Is a notice backed by the record, and written as the settings say? |
| `dashboard`: tail | 2 polls at once, 4 in all, 3 lines, 1 emptied log, ring of 2 | Are lines shown once and none passed over? |
| `dashboard`: screen | 3 effects, 3 keys, 4 fleets of up to 3 rows, 1 more build | Is there one interval, are selection and scroll in range, and is the log true to the table? |
| `dashboard`: rows | 2 runs, 1 crash, 1 read | Is a completed row backed? |
| `dashboard`: usage | 2 tasks, 2 providers, 2 runs, 3 instants | Does any window say more than was used? |
| `dashboard`: plans | 7 providers, 2 ticks, minute of 1 tick of the clock | How old may an answer be? |
| `stale_not_replaced`, `recover_wrong_run`, `accept_failed_rerun`, `mixed_artifacts_pass`, `bundle_counts_as_work` | see their .cfg | statements of the documents that the code does not keep (below) |

Why the bounds are enough: a hazard of this code needs at most two processes in
the same file (a third meets the same lock and the same file), one fault between two
of their steps, and a second run after it in the same worker directory; four
commands allow run, validate, run, accept. recover is not counted, so the
recovery loop is not cut off by the bound. A second worker directory matters
for recover only, which picks the last by name. Two terminals are interchangeable,
so the safety run with two of them uses symmetry; the liveness run does not.
In the other parts a hazard needs two actors that meet once: two commands in a
settings file or the queue, an append in a prune, an edit between two readings, an override
and a look at it (two changes: the override and one more, or a terminal that starts its file
over), two polls, builds or ticks over one another, two runs in one directory. Limits are chosen so
that they are met exactly: two files fill the context's bytes to the last one, the
patch limit is the size of one of the possible changes, the ring holds fewer entries than a log
has lines. Three lines of output are enough for a failure, a result and another result;
three keys for pause, pause and quit around one late build.

Deadlock checking is off where a system may really stop: the bounded
commands are used up and nobody has to start another one, or the run, the
compilation or the screen is done.
Where recover remains possible it is left on.

### Fairness

`FairSpec` of `TaskLifecycle`: weak fairness on `Step(p)`. Node's event loop
resumes an await whose file operation is done, and the provider timeout followed
by SIGKILL ends a worker; the latter is `RunEnds` of `WorkerRunner`. Starting a
command, worker output and faults are not fair. `RecoverySpec` adds an operator
who keeps calling recover, and that time passes: without either nothing in the
code would notice a crash, since recover is the only code that looks.

`FairSpec` of `WorkerRunner`: armed timers fire and events are handled. The
provider need not print, fork, or end; the idle timeout is not assumed fair.
A helper is assumed to stay in the process group; one that leaves it keeps the
pipes open out of agent-os's reach.

## Proofs

Proved by TLAPS for all values of the constants allowed by the named assumptions. Every
safety invariant and every action property that a passing run checks, and both
refinements, are theorems; `PROJECT.json` names them one by one.

* `TaskLifecycle_proofs`. The inductive invariant `IInv` is the types and
  `ControlOK`: a process stands only at places of its own command, an `updateState`
  call returns to the command that made it, and a run past its route has a worker.
  Types alone are not inductive, since an artifact is written at the index `ctx` holds;
  `LockOwnership` is not either, since it needs that the continuation of an
  `updateState` inside `taskRun` is a place inside the lock. `TypeCorrect`, `LockOwned`,
  `MutualExclusion` (from ownership) and `ImplementsLock` (every step maps to
  `Acquire`, `Release`, `Abandon` or a stutter) follow. `AcceptanceIsValidated` adds
  `AcceptInv`: the saved verdict, if it passed, and a pending or written `accepted`
  name a run in `passed`. `OneWriter` needs `WorkInv` (while the worker works, its
  heartbeat says running, so that output changes nothing but the time), and `WorkerDirsExist`
  the chain in `MadeInv`: a directory is made before it is written into, before an
  `updateState` call gets its name, before state.json has it, before another call
  reads it there. Assumption: `ConstantsAssumption` (the lock's two special
  values are different and not processes; bounds are numbers) and `CapturesAssumption`.
* `OneTerminal_proofs`. Four properties that only a terminal used by itself has, so their
  theorems assume `Procs = {t}`. With two terminals TLC finds each of them false after two
  or three commands: two updates that write state and queue in opposite orders (`QueueAgrees`), a run that
  replaces the artifacts a recover or a validate has read (`ResultBacksCompletion`,
  `ValidatedDiffIsCurrent`), a run that writes its status over a pause (`PauseBlocksReruns`).
  `AloneInv` follows a status through
  a command: what state.json says, what an `updateState` call is about to write, and what
  the command has read are `Sound` about the same run of the same worker.
  `CompletionIsBacked` and `ValidationIsCurrent` hold through kills at every step. The second
  follows the passing verdict through validate: the patch is the one that was judged and its
  text is in order, and if it is of the same run as the result it changes nothing gated,
  since a run's own patch changes no file that it does not name (`Captured`). Where a kill
  has left the files of two runs, the last part fails (`mixed_artifacts_pass`).
  `QueueFollowsState` adds `QueueInv` and assumes `~OtherTasks`, since a queue file that
  another task's command holds half written makes the update throw after the state was
  written. `PausedIsNotRun` adds `HoldInv` (a pause that was written is still there, or
  nothing is readable) and assumes that the terminal only runs, pauses, resumes and recovers:
  `dry-run` and the other commands write their status over a pause.
* `TaskQueue_proofs`. `UpsertedType` and `UpsertedKeepsTasksApart` say what one
  upsert does to a sequence; with them types and `NoDuplicates` are inductive over the
  file and all copies together, for any number of processes. The copies
  are part of the invariant, since each will be written back. `QueueImplementsMemory`
  maps every write to one put of `InMemoryQueue` and every other step to a stutter. It needs
  `RefineInv`: while no calls overlap, one is under way, its copy and a file that parses
  are what the calls that returned made of the queue, and between its truncation and its
  write nothing can be read. The mapping reads `acked` when the file does not parse; a file
  that a kill left truncated stays so.
* `WorkerRunner_proofs`. `IInv` is the types, `Registration` (tracked, exited and
  closed in the order the events come), `NoTimerOutlivesProcess`, `ProviderSwept` and
  `WriteOrder` (what is pending is running, then at most one exited, nothing
  below what the file shows). The action properties follow from it.
* `RunParts_proofs`, part by part.
  Routing: `RoutingInv` types the list of models by what each entry was when it was listed
  (`ListedEntries`: eligible and paid only if in date), and `ExcludedLoses` gives a provider
  that stayed excluded a score below zero, so that the best score is not its. `OverridesAreRespected`
  holds at every place of the two-step write of provider-status.json: what is excluded is
  unavailable in the map that is in the file or was before it was emptied, and a broker
  that looks at a torn file starts it over or throws. Who starts it over, broker or
  command, ends the exclusion, since the override is gone from the file.
  Context: `LimitsKept` is that a compilation has used the bytes of what it placed and that
  what it skipped did not fit then, hence does not fit now, since `used` and the counts only
  grow; the sum over the files is `SumOf` of `SumLemmas`. `ReadThenPlaced` and the typing of
  the cache (an entry's text is of its hash) give `SummariesAreCurrent`.
  Changes: `ReadingsAgree` compares, file by file as the readings proceed, what is in the
  report and in the patch with what was written late.
  Output: `Remembers` says of each way of reading that its flags keep the failures its
  provider reports; the properties about results and the one about tokens are then
  preserved by any further line.
  Registry: `ListedAreQueued` has a line, in the file and in the copy a prune will write back,
  only of a task with a directory, and with a queue item unless a run of it stands between
  its line and its queue update or has ended there (`stopped`). Nothing is assumed of
  where `taskCreate` stopped.
  Notices: what a notice is about to say is true by then (`TellsTheTruth`), and so is what
  the run returns. `RunsInOrder` and `FollowsSettings` say, place by place, what the settings
  read so far have decided and that the wake file of a worker is of no later run.
* `RuntimeFiles_proofs`. Types need `ControlOK` (a command writes only what it is about).
  `BackupInv` adds that a file once found is never missing again, `NewerInv` that no
  terminal has applied a key, `HealInv` that a command that overlaps with none is alone
  and has no unknown provider in its copy, `KeptInv` that while a file is truncated
  the copy of the one that writes it is what it will be. `StoredKeysInUse` adds `KeysInv`:
  a variable belongs to at most one provider's credential (`Own`, in the file and in each
  copy), and a terminal that is in step with the file has each key, unless it inherited one
  in that variable or `held` one when another terminal changed the file (`KeysAgree`).
  Applying the keys in the code's order is then the same as applying each.
* `Dashboard_proofs`, part by part.
  Screen: the cleanup leaves no interval, so the next effect's is the only one; a build of an
  ended effect turns its interval off as it starts it. `ScreenInv` is types, `SelectionInRange`
  and `LogInv`; `NthIsThere` and `RowsAtFacts` say that filter and sort keep each chosen row once.
  Tail: `ExactInv` has one poll at most, which holds the entry that is still in the map, an
  offset up to which all was shown, and no line in the ring beyond what is in the log.
  Rows: whatever a read has taken so far, a completed status in it was written by a run that
  ended so (`OnlyWhatEnded`). Plans: `ReadAfterAsking`, an answer is not older than the
  question, and who remembers it sets its time by the question.
  Usage: `UsageInv` has for every file that shows tokens an event of the same task, provider
  and counts, unless its run has yet to tell. The rest is arithmetic of nested sums: the latest
  lines grouped by provider, then by task, at most one line each; the files of a task below
  its events; the events grouped by task, then by provider (`SumByKey`).
* `SumLemmas`. `MapThenSumSet` is a recursive function with an arbitrary choice of the next
  element. That it exists for a finite set (`SumExists`), and that the choice does not matter
  for integers (`SumInAnyOrder`), are proved by a least counterexample among the
  subsets (`SubsetInduction`, whose predicate is a set); the lemmas the other
  modules use follow.

Assumptions on constants that the proofs rest on, and where the code has them: an environment
variable is of one provider's credentials (`RuntimeAssumption`; config/defaults.ts:50-65), the
mark of a provider left out is no status; the limits are numbers (`CaptureAssumption`,
`ContextAssumption`, `TailAssumption`); a table has one row for a worker (`IsTable`;
tui/runtime/aggregator.ts:151-155, the latest line of each task), its status one of the seven of line 11;
counts of tokens are natural numbers, -1 for an exact count that is missing
(`UsageAssumption`; provider-limits.ts:274-279 and usage.ts:91-92 add up no others that a run
writes); tasks, providers and files are finitely many. TLC evaluates each on its runs.

Only model-checked: the three liveness properties, `EveryCommandEnds`, `CrashedRunIsNoticed`
and `RunEnds` (fairness and ENABLED are beyond the prover), and what the violation runs show.
The prover knows nothing of `SelectSeq`, which is why filters are `RowsAt`.
`MutualExclusion`, `InterruptSweepsWorkspace`, `NoticesAreFree`, `NewerLeftAlone`, `LimitsAreReported`,
`LargestUsageKept` and the type invariants that no run checks are proved without a run of their own.

## What the documents say and the code does not do

* `stale_not_replaced`: plan.md:700, stale workers can be replaced. Nothing removes
  the lock directory of a killed run, so a task whose worker recover has found stale
  can never run again, also after a resume.
* `recover_wrong_run`: README.md:172, recover restores the state from the result that
  survived the crash. The surviving result may be the previous run's.
* `accept_failed_rerun`: plan.md:1056, the judge blocks failed validators. accept
  reads the saved verdict, which a rerun does not remove.
* `bundle_counts_as_work`: plan.md:713, a no-op diff check; tests/smoke-manual-task.test.ts:240.
  The bundle is copied into the workspace; under the globs a task has by default it is
  a changed file, and a worker that did nothing passes.
* `mixed_artifacts_pass`: plan.md:1023, manifest changes require approval. The gate reads the
  list of files in result.json, which is written before diff.patch: a rerun killed
  between the two leaves the patch of the run before it, with a changed manifest, under a list
  that names none. recover makes the task completed, and validate passes it.

The models also show, without a run of their own: state.json and queue.json are
unreadable after a kill between truncation and write; a pause and a run may
overlap in state.json; review needs no verdict; dry-run writes over a pause (so
`PauseBlocksReruns` is checked without it); an interrupt before registration or
after exit leaves the temp copy; a provider stopped by the output limit is
recorded completed if it had printed a message and changed a file. Also: two commands
lose one of two updates of queue.json or provider-status.json; the exit of a provider
alone unregisters it, so that a helper may survive an interrupt; a line appended to
the registry while a prune is under way would be gone, and one appended to a line cut short
makes every reader throw; a task whose enqueue failed is listed by a run that then ends before
its queue update; an override in provider-status.json is lost to whoever finds the file half
written; a terminal in the menu works with its old key after another one stored a new
one; a failed refresh empties a catalog that was good; overlapping
polls show lines twice; a rerun's row shows the result of the run before; a wake file stays
from one run to the next. The properties exclude exactly these cases, in their
text and in a history variable.

## Not modelled

* No state, or state nothing in the program reads back: the command line, prompts and
  onboarding, the scripts under `scripts/`, rendering, telemetry, the orchestrator guard (one flag, read
  by a hook outside the repository), redaction and prompt guards, estimates of text lengths.
* External: HTTP and CLI calls to providers. Their answers are free choices; the parsing
  of their spelling is left out.
* `taskList`, `taskDiff`, `taskEvents`, `taskPlan` and the doctors, which only read; `queue pause`,
  `resume` and `cancel` do what the task commands of the same name do.
* Below what a model can tell apart: the mtime caches of the aggregator and of provider
  limits, where two writes in one tick of the file system's clock look like one.
* Without a caller in the program: `core/heartbeat.ts`, `workspace/heartbeat.ts`,
  `workspace/git-worktree.ts`, `workspace/isolation-policy.ts`, `workspace/path-utils.ts`,
  the git branch of `captureWorkspaceDiff`, `createTempCopyWorkspace`, `runValidatorPipeline`, the
  command check, `buildDeltaReviewInput`, `compileContextBundle`, `chooseFromCandidates`,
  `blockReasons`, `recordAnthropicHeaders`.

## Plan

Done: task lifecycle, lock, recovery, queue and worker process; output, changes, catalog,
routing, context, registry, notices, settings and dashboard. All safety properties and both
refinements of the passing runs are proved.

Next:

1. Proofs: steps toward the liveness properties that are safety (a command that cannot move
   holds no lock; a run at its end has every timer off), and lemmas about the pure operators of
   `ModelCatalog` and `PlanDetection`.
2. `TaskLifecycle` over several tasks with one queue file, composed with `TaskQueue`.
3. The cache files of the model catalogs with their truncation, and the doctor's report.
