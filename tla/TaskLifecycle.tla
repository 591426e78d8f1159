---------------------------- MODULE TaskLifecycle ----------------------------
(***************************************************************************)
(* One task of the runtime directory and the agent-os processes that work  *)
(* on it.  Every CLI command is a process that reads and writes the task's *)
(* files (state.json, its queue item, the lock directory, the workers'     *)
(* artifacts and validation-result.json) with an await between any two     *)
(* accesses, so two terminals interleave there and a crash can fall there. *)
(* Only `task run` takes the task lock.                                    *)
(***************************************************************************)
EXTENDS Integers

CONSTANTS
    Procs,          \* the terminals
    Free, Abandoned,\* values of lock that are not a process
    NumWorkers,     \* worker directories <provider>-1, numbered in name order
    ManualWorker,   \* the number of manual-1; 0 if that provider is not used
    Ops,            \* the commands the terminals use
    OtherTasks,     \* other tasks' commands write queue.json meanwhile
    Captures,       \* what the workers may make of the files: [named, diff]
    MaxCmds,        \* bound: commands started, recover not counted
    MaxFaults       \* bound: processes killed and owner.json writes that fail

Workers  == 1 .. NumWorkers
NoWorker == 0       \* state.workerId is undefined
Keep     == -1      \* the patch given to updateState does not mention workerId

AllOps == {"run", "pause", "resume", "cancel", "reject", "rollback", "dry_run",
           "validate", "review", "accept", "recover"}

ASSUME ConstantsAssumption ==
    /\ NumWorkers \in Nat /\ ManualWorker \in Nat
    /\ Free \notin Procs /\ Abandoned \notin Procs /\ Free # Abandoned
    /\ Ops \subseteq AllOps /\ OtherTasks \in BOOLEAN
    /\ MaxCmds \in Nat /\ MaxFaults \in Nat

\* What result.json and diff.patch may say of one run's changes (see Files).  The
\* patch has no file that is not named, and lacks those changed back meanwhile.
Captured == {<<"none", "bad">>, <<"good", "bad">>, <<"good", "good">>,
             <<"gated", "bad">>, <<"gated", "good">>, <<"gated", "gated">>}

ASSUME CapturesAssumption == Captures \subseteq Captured

Statuses == {"created", "planned", "dry_run", "running", "paused", "completed",
             "validated", "reviewed", "accepted", "rejected", "cancelled",
             "stale", "failed"}

VARIABLES
    stateFile,   \* state.json
    queueStatus, \* the status of the task's item in queue.json
    lock,        \* who made the lock directory
    worker,      \* the artifacts in each worker directory
    validation,  \* validation/validation-result.json
    cmd, pc,     \* each process: its command and where it is in it
    upd,         \* each process: the arguments of its updateState call
    kept,        \* each process: the workerId of the state updateState read
    ctx,         \* each process: its other local values
    runs,        \* history: how many runs chose a route; names the runs
    hold,        \* history: a pause was written and no resume since
    passed,      \* history: the runs whose diff passed validation
    cmds, faults \* bounded counters

files  == <<stateFile, queueStatus, lock, worker, validation>>
locals == <<cmd, pc, upd, kept, ctx>>
counts == <<runs, hold, passed, cmds, faults>>
vars   == <<stateFile, queueStatus, lock, worker, validation,
            cmd, pc, upd, kept, ctx, runs, hold, passed, cmds, faults>>

(***************************************************************************)
(* Files.  writeFile truncates and then writes, so state.json may be seen  *)
(* empty; a process killed in between leaves it so, and two overlapping    *)
(* writes may leave the tail of the longer one behind the shorter.         *)
(* `fresh` says that the time stamp is inside the recovery window, `run`   *)
(* which run the contents speak of (0: none).                              *)
(*                                                                         *)
(* A worker's changes are in two files.  result.json names the changed     *)
(* files: none, only ones a worker may change as it likes (good), or also  *)
(* a manifest or too many (gated).  diff.patch has their text: it is bad   *)
(* if it is absent, blank, too large or leaks a secret; otherwise the      *)
(* files it changes are good or gated.                                     *)
(***************************************************************************)
Unreadable(form) == [form |-> form, status |-> "created", worker |-> NoWorker,
                     fresh |-> FALSE, run |-> 0]
Readable == stateFile.form = "json"

NoArtifacts == [made |-> FALSE, heartbeat |-> "none", fresh |-> FALSE,
                result |-> "none", resultRun |-> 0, named |-> "none",
                diff |-> "bad", diffRun |-> 0]

NoUpdate  == [status |-> "created", worker |-> Keep, run |-> 0, queued |-> FALSE,
              next |-> "done"]
NoContext == [worker |-> NoWorker, run |-> 0, fresh |-> FALSE, outcome |-> "failed",
              named |-> "none", diff |-> "bad"]

Init ==
    /\ stateFile = [form |-> "json", status |-> "created", worker |-> NoWorker,
                    fresh |-> TRUE, run |-> 0]
    /\ queueStatus = "created"
    /\ lock = Free
    /\ worker = [w \in Workers |-> NoArtifacts]
    /\ validation = [verdict |-> "none", run |-> 0]
    /\ cmd = [p \in Procs |-> "none"]
    /\ pc = [p \in Procs |-> "idle"]
    /\ upd = [p \in Procs |-> NoUpdate]
    /\ kept = [p \in Procs |-> NoWorker]
    /\ ctx = [p \in Procs |-> NoContext]
    /\ runs = 0 /\ hold = FALSE /\ passed = {} /\ cmds = 0 /\ faults = 0

(***************************************************************************)
(* Control of a process.                                                   *)
(***************************************************************************)
At(p, op, place) == cmd[p] = op /\ pc[p] = place
Goto(p, place)   == pc' = [pc EXCEPT ![p] = place]

\* The command returns or throws outside the lock: the process is gone.
Finish(p) ==
    /\ cmd' = [cmd EXCEPT ![p] = "none"]
    /\ pc' = [pc EXCEPT ![p] = "idle"]
    /\ upd' = [upd EXCEPT ![p] = NoUpdate]
    /\ kept' = [kept EXCEPT ![p] = NoWorker]
    /\ ctx' = [ctx EXCEPT ![p] = NoContext]

\* Mutant of Throw: withTaskLock without its finally.
ThrowLeaksLock(p) == Goto(p, "done") /\ UNCHANGED <<cmd, upd, kept, ctx>>

\* The command throws inside withTaskLock: its finally block runs next.
Throw(p) == Goto(p, "release") /\ UNCHANGED <<cmd, upd, kept, ctx>>

\* Calls updateState and, when queued, TaskQueue.update after it.
Update(p, status, w, run, queued, next) ==
    /\ upd' = [upd EXCEPT ![p] = [status |-> status, worker |-> w, run |-> run,
                                  queued |-> queued, next |-> next]]
    /\ Goto(p, "u_read")

EntryPoint(op) ==
    CASE op = "run" -> "lock"
      [] op \in {"pause", "resume", "validate", "review", "recover"} -> "read"
      [] op = "accept" -> "judge"
      [] OTHER -> "write"

Start(p, op) ==
    /\ pc[p] = "idle"
    /\ op \in Ops
    /\ IF op = "recover" THEN UNCHANGED cmds
                         ELSE cmds < MaxCmds /\ cmds' = cmds + 1
    /\ cmd' = [cmd EXCEPT ![p] = op]
    /\ Goto(p, EntryPoint(op))
    /\ UNCHANGED <<files, upd, kept, ctx, runs, hold, passed, faults>>

(***************************************************************************)
(* updateState and the queue update that follows it.  Neither is locked.   *)
(***************************************************************************)
\* A state that cannot be read counts as one without a workerId.
UpdateRead(p) ==
    /\ pc[p] = "u_read"
    /\ kept' = [kept EXCEPT ![p] = stateFile.worker]
    /\ Goto(p, "u_open")
    /\ UNCHANGED <<files, cmd, upd, ctx, counts>>

UpdateOpen(p) ==
    /\ pc[p] = "u_open"
    /\ stateFile' = Unreadable("empty")
    /\ Goto(p, "u_write")
    /\ UNCHANGED <<queueStatus, lock, worker, validation, cmd, upd, kept, ctx, counts>>

\* Mutant of Merged: the previous workerId is not spread into the new state.
MergedWithoutPrevious(p) == upd[p].worker

Merged(p) == IF upd[p].worker = Keep THEN kept[p] ELSE upd[p].worker

UpdateWrite(p) ==
    /\ pc[p] = "u_write"
    /\ \/ stateFile' = [form |-> "json", status |-> upd[p].status,
                        worker |-> Merged(p), fresh |-> TRUE, run |-> upd[p].run]
       \/ stateFile.form # "empty" /\ stateFile' = Unreadable("corrupt")
    /\ hold' = IF cmd[p] \in {"pause", "resume"} THEN cmd[p] = "pause" ELSE hold
    /\ Goto(p, IF upd[p].queued THEN "queue" ELSE upd[p].next)
    /\ UNCHANGED <<queueStatus, lock, worker, validation, cmd, upd, kept, ctx,
                   runs, passed, cmds, faults>>

QueueUpdate(p) ==
    /\ pc[p] = "queue"
    /\ queueStatus' = upd[p].status
    /\ Goto(p, upd[p].next)
    /\ UNCHANGED <<stateFile, lock, worker, validation, cmd, upd, kept, ctx, counts>>

\* queue.json is read while another task's command is writing it: JSON.parse
\* throws, and so does the command.
QueueThrows(p) ==
    /\ OtherTasks /\ pc[p] = "queue"
    /\ IF cmd[p] = "run" THEN Throw(p) ELSE Finish(p)
    /\ UNCHANGED <<files, counts>>

Return(p) ==
    /\ pc[p] = "done"
    /\ Finish(p)
    /\ UNCHANGED <<files, counts>>

(***************************************************************************)
(* Commands that read the state and refuse some of them.                   *)
(***************************************************************************)
Unpausable == {"completed", "validated", "reviewed", "accepted", "rejected", "cancelled"}
Resumable  == {"paused", "stale", "failed", "cancelled"}

Admits(op) ==
    /\ Readable
    /\ op = "pause"                => stateFile.status \notin Unpausable
    /\ op = "resume"               => stateFile.status \in Resumable
    /\ op \in {"validate", "review"} => stateFile.worker # NoWorker
    /\ op = "recover"              => stateFile.status = "running"

Refuse(p) ==
    /\ pc[p] = "read" /\ ~Admits(cmd[p])
    /\ Finish(p)
    /\ UNCHANGED <<files, counts>>

Pause(p) ==
    /\ At(p, "pause", "read") /\ Admits("pause")
    /\ Update(p, "paused", Keep, 0, TRUE, "done")
    /\ UNCHANGED <<files, cmd, kept, ctx, counts>>

Resume(p) ==
    /\ At(p, "resume", "read") /\ Admits("resume")
    /\ Update(p, "planned", NoWorker, 0, TRUE, "done")
    /\ UNCHANGED <<files, cmd, kept, ctx, counts>>

(* cancel, reject, rollback and dry-run write their status over any other.
   dry-run throws before that when no route or launch command is found. *)
Imposed == [cancel |-> "cancelled", reject |-> "rejected", rollback |-> "planned",
            dry_run |-> "dry_run"]

Overwrite(p) ==
    /\ pc[p] = "write"
    /\ \/ Update(p, Imposed[cmd[p]], Keep, 0, TRUE, "done") /\ UNCHANGED <<cmd, kept, ctx>>
       \/ cmd[p] = "dry_run" /\ Finish(p)
    /\ UNCHANGED <<files, counts>>

(***************************************************************************)
(* validate, review, accept.                                               *)
(***************************************************************************)
ReadForValidation(p) ==
    /\ At(p, "validate", "read") /\ Admits("validate")
    /\ ctx' = [ctx EXCEPT ![p].worker = stateFile.worker]
    /\ Goto(p, "validators")
    /\ UNCHANGED <<files, cmd, upd, kept, counts>>

\* The files that are judged: result.json's, or the patch's if it names none.
JudgedFiles(w) == IF worker[w].named = "none" THEN worker[w].diff ELSE worker[w].named

\* Mutant of ValidatorsPass: without the checks of the files.
TextPasses(w) == worker[w].result = "completed" /\ worker[w].diff # "bad"

ValidatorsPass(w) ==
    /\ worker[w].result = "completed"
    /\ worker[w].diff # "bad"
    /\ JudgedFiles(w) = "good"

RunValidators(p) ==
    /\ pc[p] = "validators"
    /\ LET w == ctx[p].worker
       IN  ctx' = [ctx EXCEPT ![p].outcome = IF ValidatorsPass(w) THEN "completed" ELSE "failed",
                              ![p].run = worker[w].diffRun]
    /\ Goto(p, "verdict")
    /\ UNCHANGED <<files, cmd, upd, kept, counts>>

WriteVerdict(p) ==
    /\ pc[p] = "verdict"
    /\ \/ /\ ctx[p].outcome = "completed"
          /\ validation' = [verdict |-> "passed", run |-> ctx[p].run]
          /\ passed' = passed \cup {ctx[p].run}
          /\ Update(p, "validated", Keep, ctx[p].run, TRUE, "done")
       \/ /\ ctx[p].outcome = "failed"
          /\ validation' = [verdict |-> "failed", run |-> ctx[p].run]
          /\ UNCHANGED passed
          /\ Update(p, "failed", Keep, ctx[p].run, TRUE, "done")
    /\ UNCHANGED <<stateFile, queueStatus, lock, worker, cmd, kept, ctx,
                   runs, hold, cmds, faults>>

Review(p) ==
    /\ At(p, "review", "read") /\ Admits("review")
    /\ Update(p, "reviewed", Keep, worker[stateFile.worker].diffRun, TRUE, "done")
    /\ UNCHANGED <<files, cmd, kept, ctx, counts>>

\* Mutant of JudgeApproves: any saved verdict will do.
JudgeApprovesAny == validation.verdict # "none"

\* judgeMerge(validation, true): nothing but the saved verdict is looked at.
JudgeApproves == validation.verdict = "passed"

Accept(p) ==
    /\ At(p, "accept", "judge")
    /\ \/ /\ JudgeApproves
          /\ Update(p, "accepted", Keep, validation.run, TRUE, "done")
          /\ UNCHANGED <<cmd, kept, ctx>>
       \/ ~JudgeApproves /\ Finish(p)
    /\ UNCHANGED <<files, counts>>

(***************************************************************************)
(* recover.  The artifacts of the chosen worker decide, and a result       *)
(* decides before any heartbeat does.                                      *)
(***************************************************************************)
ReadForRecovery(p) ==
    /\ At(p, "recover", "read") /\ Admits("recover")
    /\ ctx' = [ctx EXCEPT ![p].worker = stateFile.worker, ![p].run = stateFile.run,
                          ![p].fresh = stateFile.fresh]
    /\ Goto(p, "reconcile")
    /\ UNCHANGED <<files, cmd, upd, kept, counts>>

\* Mutant of RecoveryWorkers: a worker need not have left anything.
RecoveryWorkersByName(preferred) == IF preferred = NoWorker THEN Workers ELSE {preferred}

\* The preferred worker, or else the last by name, that left a heartbeat or a result.
RecoveryWorkers(preferred) ==
    {w \in IF preferred = NoWorker THEN Workers ELSE {preferred} :
        worker[w].heartbeat # "none" \/ worker[w].result # "none"}

IsRecoveryWorker(w, preferred) ==
    /\ w \in RecoveryWorkers(preferred)
    /\ \A v \in RecoveryWorkers(preferred) : v <= w

\* Mutant of RestoredStatus: the mere existence of a result is success.
RestoredAsCompleted(w) == "completed"

RestoredStatus(w) == worker[w].result

\* Mutant of HeartbeatLost: an old heartbeat is as good as a new one.
HeartbeatStopped(w) == worker[w].heartbeat # "running"

HeartbeatLost(w) == worker[w].heartbeat # "running" \/ ~worker[w].fresh

\* Mutant of RecoverStale: the queue item is forgotten.
RecoverStaleStateOnly(p, w) ==
    Update(p, "stale", w, 0, FALSE, "done") /\ UNCHANGED <<cmd, kept, ctx>>

RecoverStale(p, w) == Update(p, "stale", w, 0, TRUE, "done") /\ UNCHANGED <<cmd, kept, ctx>>

RecoverTask(p) ==
    /\ pc[p] = "reconcile"
    /\ \/ /\ RecoveryWorkers(ctx[p].worker) = {}
          /\ IF ctx[p].fresh THEN Finish(p) ELSE RecoverStale(p, Keep)
       \/ \E w \in Workers :
            /\ IsRecoveryWorker(w, ctx[p].worker)
            /\ \/ /\ worker[w].result # "none"
                  /\ Update(p, RestoredStatus(w), w, worker[w].resultRun, TRUE, "done")
                  /\ UNCHANGED <<cmd, kept, ctx>>
               \/ worker[w].result = "none" /\ HeartbeatLost(w) /\ RecoverStale(p, w)
               \/ worker[w].result = "none" /\ ~HeartbeatLost(w) /\ Finish(p)
    /\ UNCHANGED <<files, counts>>

(***************************************************************************)
(* run.                                                                    *)
(***************************************************************************)
\* Mutant of MakeLockDir: mkdir with recursive: true, which never reports EEXIST.
MakeLockDirRecursive(p) == lock' = p

MakeLockDir(p) == lock = Free /\ lock' = p

\* Mutant of LockedOut: the command retries instead of throwing.
LockedOutRetries(p) == lock # Free /\ UNCHANGED <<cmd, pc, upd, kept, ctx>>

\* "Task is locked"
LockedOut(p) == lock # Free /\ Finish(p)

AcquireTaskLock(p) ==
    /\ At(p, "run", "lock")
    /\ \/ /\ MakeLockDir(p)
          /\ Goto(p, "owner")
          /\ UNCHANGED <<cmd, upd, kept, ctx>>
       \/ LockedOut(p) /\ UNCHANGED lock
    /\ UNCHANGED <<stateFile, queueStatus, worker, validation, counts>>

WriteOwner(p) ==
    /\ pc[p] = "owner"
    /\ Goto(p, "check")
    /\ UNCHANGED <<files, cmd, upd, kept, ctx, counts>>

\* No handle was returned yet, so no finally block removes the directory.
WriteOwnerFails(p) ==
    /\ pc[p] = "owner" /\ faults < MaxFaults
    /\ lock' = Abandoned
    /\ Finish(p)
    /\ faults' = faults + 1
    /\ UNCHANGED <<stateFile, queueStatus, worker, validation, runs, hold, passed, cmds>>

\* Mutant of MayRun: the state is read and not looked at.
MayRunPaused == Readable

MayRun == Readable /\ stateFile.status # "paused"

CheckPaused(p) ==
    /\ pc[p] = "check"
    /\ \/ MayRun /\ Goto(p, "route") /\ UNCHANGED <<cmd, upd, kept, ctx>>
       \/ ~MayRun /\ Throw(p)
    /\ UNCHANGED <<files, counts>>

\* Context and route, either of which may throw.
ChooseRoute(p) ==
    /\ pc[p] = "route"
    /\ \/ \E w \in Workers :
            /\ runs' = runs + 1
            /\ ctx' = [ctx EXCEPT ![p].worker = w, ![p].run = runs + 1]
            /\ Update(p, "running", Keep, runs + 1, TRUE, "capable")
            /\ UNCHANGED <<cmd, kept>>
       \/ Throw(p) /\ UNCHANGED runs
    /\ UNCHANGED <<files, hold, passed, cmds, faults>>

\* A provider other than manual may turn out not to be launchable.
CheckCapable(p) ==
    /\ pc[p] = "capable"
    /\ \/ Goto(p, "workspace") /\ UNCHANGED upd
       \/ ctx[p].worker # ManualWorker /\ Update(p, "failed", Keep, ctx[p].run, TRUE, "release")
    /\ UNCHANGED <<files, cmd, kept, ctx, counts>>

MakeWorkerDir(p) ==
    /\ pc[p] = "workspace"
    /\ worker' = [worker EXCEPT ![ctx[p].worker].made = TRUE]
    /\ Goto(p, "prepare")
    /\ UNCHANGED <<stateFile, queueStatus, lock, validation, cmd, upd, kept, ctx, counts>>

\* manual: the bundle is read and the result is known.  Otherwise: the temp
\* copy is made and worker_prepared stores the workerId.  Both may throw,
\* which leaves the task "running".
PrepareWorker(p) ==
    /\ pc[p] = "prepare"
    /\ \/ /\ ctx[p].worker = ManualWorker
          /\ ctx' = [ctx EXCEPT ![p].outcome = "completed", ![p].named = "none", ![p].diff = "bad"]
          /\ Goto(p, "finish_heartbeat")
          /\ UNCHANGED <<cmd, upd, kept>>
       \/ /\ ctx[p].worker # ManualWorker
          /\ Update(p, "running", ctx[p].worker, ctx[p].run, FALSE, "launch")
          /\ UNCHANGED <<cmd, kept, ctx>>
       \/ Throw(p)
    /\ UNCHANGED <<files, counts>>

\* The worker directory's heartbeat.json is written, with the present time.
Heartbeat(p, status) ==
    worker' = [worker EXCEPT ![ctx[p].worker].heartbeat = status,
                             ![ctx[p].worker].fresh = TRUE]

Launch(p) ==
    /\ pc[p] = "launch"
    /\ \/ Heartbeat(p, "running") /\ Goto(p, "work") /\ UNCHANGED <<cmd, upd, kept, ctx>>
       \/ Throw(p) /\ UNCHANGED worker
    /\ UNCHANGED <<stateFile, queueStatus, lock, validation, counts>>

\* A heartbeat is written only when the worker prints something.
WorkerOutput(p) ==
    /\ pc[p] = "work"
    /\ Heartbeat(p, "running")
    /\ UNCHANGED <<stateFile, queueStatus, lock, validation, locals, counts>>

WorkerExit(p) ==
    /\ pc[p] = "work"
    /\ Heartbeat(p, "exited")
    /\ Goto(p, "collect")
    /\ UNCHANGED <<stateFile, queueStatus, lock, validation, cmd, upd, kept, ctx, counts>>

CollectDiff(p) ==
    /\ pc[p] = "collect"
    /\ \/ /\ \E outcome \in {"completed", "failed"}, changes \in Captures :
                ctx' = [ctx EXCEPT ![p].outcome = outcome, ![p].named = changes[1],
                                   ![p].diff = changes[2]]
          /\ Goto(p, "finish_heartbeat") /\ UNCHANGED <<cmd, upd, kept>>
       \/ Throw(p)
    /\ UNCHANGED <<files, counts>>

FinishHeartbeat(p) ==
    /\ pc[p] = "finish_heartbeat"
    /\ Heartbeat(p, "finished")
    /\ Goto(p, "finish_result")
    /\ UNCHANGED <<stateFile, queueStatus, lock, validation, cmd, upd, kept, ctx, counts>>

FinishResult(p) ==
    /\ pc[p] = "finish_result"
    /\ worker' = [worker EXCEPT ![ctx[p].worker].result = ctx[p].outcome,
                                ![ctx[p].worker].resultRun = ctx[p].run,
                                ![ctx[p].worker].named = ctx[p].named]
    /\ Goto(p, "finish_diff")
    /\ UNCHANGED <<stateFile, queueStatus, lock, validation, cmd, upd, kept, ctx, counts>>

FinishDiff(p) ==
    /\ pc[p] = "finish_diff"
    /\ worker' = [worker EXCEPT ![ctx[p].worker].diff = ctx[p].diff,
                                ![ctx[p].worker].diffRun = ctx[p].run]
    /\ Update(p, ctx[p].outcome, ctx[p].worker, ctx[p].run, TRUE, "release")
    /\ UNCHANGED <<stateFile, queueStatus, lock, validation, cmd, kept, ctx, counts>>

ReleaseLock(p) ==
    /\ pc[p] = "release"
    /\ lock' = Free
    /\ Finish(p)
    /\ UNCHANGED <<stateFile, queueStatus, worker, validation, counts>>

(***************************************************************************)
(* The environment: a terminal is killed, and the recovery window passes.  *)
(***************************************************************************)
HoldsLock(p) == cmd[p] = "run" /\ pc[p] # "lock"

Kill(p) ==
    /\ pc[p] # "idle" /\ faults < MaxFaults
    /\ faults' = faults + 1
    /\ lock' = IF HoldsLock(p) THEN Abandoned ELSE lock
    /\ Finish(p)
    /\ UNCHANGED <<stateFile, queueStatus, worker, validation, runs, hold, passed, cmds>>

WindowPasses ==
    /\ stateFile.fresh \/ \E w \in Workers : worker[w].fresh
    /\ stateFile' = [stateFile EXCEPT !.fresh = FALSE]
    /\ worker' = [w \in Workers |-> [worker[w] EXCEPT !.fresh = FALSE]]
    /\ UNCHANGED <<queueStatus, lock, validation, locals, counts>>

UpdateStep(p) ==
    \/ UpdateRead(p) \/ UpdateOpen(p) \/ UpdateWrite(p)
    \/ QueueUpdate(p) \/ QueueThrows(p) \/ Return(p)

UserStep(p) ==
    \/ Refuse(p) \/ Pause(p) \/ Resume(p) \/ Overwrite(p)
    \/ ReadForValidation(p) \/ RunValidators(p) \/ WriteVerdict(p)
    \/ Review(p) \/ Accept(p) \/ ReadForRecovery(p) \/ RecoverTask(p)

RunStep(p) ==
    \/ AcquireTaskLock(p) \/ WriteOwner(p) \/ CheckPaused(p) \/ ChooseRoute(p)
    \/ CheckCapable(p) \/ MakeWorkerDir(p) \/ PrepareWorker(p) \/ Launch(p)
    \/ WorkerExit(p) \/ CollectDiff(p) \/ FinishHeartbeat(p) \/ FinishResult(p)
    \/ FinishDiff(p) \/ ReleaseLock(p)

Step(p) == UpdateStep(p) \/ UserStep(p) \/ RunStep(p)

Next ==
    \/ WindowPasses
    \/ \E p \in Procs :
        \/ \E op \in Ops : Start(p, op)
        \/ Step(p) \/ WorkerOutput(p) \/ WriteOwnerFails(p) \/ Kill(p)

Spec == Init /\ [][Next]_vars

(***************************************************************************)
(* Fairness.  Node's event loop keeps an unkilled command going, and the   *)
(* provider timeout ends a worker, so Step is fair; nobody has to start a  *)
(* command or be killed.  RecoverySpec also assumes an operator who keeps  *)
(* calling recover, and that time passes.                                  *)
(***************************************************************************)
FairSpec == Spec /\ \A p \in Procs : WF_vars(Step(p))

RecoverySpec ==
    /\ FairSpec
    /\ WF_vars(WindowPasses)
    /\ \A p \in Procs : WF_vars(Start(p, "recover"))

(***************************************************************************)
(* Type invariant.                                                         *)
(***************************************************************************)
Places == {"idle", "u_read", "u_open", "u_write", "queue", "done", "read", "write",
           "validators", "verdict", "judge", "reconcile", "lock", "owner", "check",
           "route", "capable", "workspace", "prepare", "launch", "work", "collect",
           "finish_heartbeat", "finish_result", "finish_diff", "release"}

MaybeWorker == Workers \cup {NoWorker}

StateFiles == [form : {"json", "empty", "corrupt"}, status : Statuses,
               worker : MaybeWorker, fresh : BOOLEAN, run : Nat]
ArtifactSets == [made : BOOLEAN, heartbeat : {"none", "running", "exited", "finished"},
                 fresh : BOOLEAN, result : {"none", "completed", "failed"}, resultRun : Nat,
                 named : {"none", "good", "gated"}, diff : {"bad", "good", "gated"}, diffRun : Nat]
Verdicts == [verdict : {"none", "passed", "failed"}, run : Nat]
Updates  == [status : Statuses, worker : MaybeWorker \cup {Keep}, run : Nat,
             queued : BOOLEAN, next : Places]
Contexts == [worker : MaybeWorker, run : Nat, fresh : BOOLEAN,
             outcome : {"completed", "failed"}, named : {"none", "good", "gated"},
             diff : {"bad", "good", "gated"}]

FilesOK ==
    /\ stateFile \in StateFiles /\ queueStatus \in Statuses
    /\ lock \in Procs \cup {Free, Abandoned}
    /\ worker \in [Workers -> ArtifactSets] /\ validation \in Verdicts

LocalsOK ==
    /\ cmd \in [Procs -> AllOps \cup {"none"}] /\ pc \in [Procs -> Places]
    /\ upd \in [Procs -> Updates] /\ kept \in [Procs -> MaybeWorker]
    /\ ctx \in [Procs -> Contexts]

CountsOK ==
    /\ runs \in Nat /\ hold \in BOOLEAN /\ passed \subseteq Nat
    /\ cmds \in Nat /\ faults \in Nat

(* Every file holds a value of the code's types, every process is at one of
   its control points, and an artifact is only handled for a chosen worker. *)
TypeOK == FilesOK /\ LocalsOK /\ CountsOK

(***************************************************************************)
(* Properties of any number of terminals.                                  *)
(***************************************************************************)
(* The lock directory belongs to exactly the run that is inside
   withTaskLock, whichever way other runs end (refused, thrown, finished);
   one that belongs to nobody is left by a killed or failed command only. *)
LockOwnership ==
    /\ \A p \in Procs : HoldsLock(p) <=> lock = p
    /\ lock = Abandoned => faults > 0

(* Two `task run` commands are never both past their lock. *)
OneRunAtATime == \A p, q \in Procs : HoldsLock(p) /\ HoldsLock(q) => p = q

(* The lock behaves as core/locks.ts promises. *)
Lock == INSTANCE TaskLock
LockSpec == Lock!Spec

(* What a worker directory holds, apart from the passing of time, changes
   only by a step of the run that owns the lock. *)
Artifacts(w) == [worker[w] EXCEPT !.fresh = FALSE]
ArtifactsHaveOneWriter ==
    [][\A w \in Workers : Artifacts(w)' # Artifacts(w) =>
        \E p \in Procs : lock = p /\ pc'[p] # pc[p]]_vars

(* A workerId in state.json, or in the copy of it that an updateState call
   is about to write back, names a directory that was made: diff, validate
   and recover never look for a worker that was not there. *)
WorkerDirExists ==
    /\ stateFile.worker # NoWorker => worker[stateFile.worker].made
    /\ \A p \in Procs : kept[p] # NoWorker => worker[kept[p]].made

(* However commands interleave and crash, a task that says accepted was
   accepted on the verdict of a validation that passed. *)
AcceptedWasValidated == stateFile.status = "accepted" => stateFile.run \in passed

(* Every command ends, even when the lock is abandoned. *)
EveryCommandEnds == \A p \in Procs : pc[p] # "idle" ~> pc[p] = "idle"

(***************************************************************************)
(* Properties of one terminal, used sequentially.                          *)
(***************************************************************************)
Quiet == \A p \in Procs : pc[p] = "idle"

(* Between commands the queue shows the task's status, unless a command was
   killed before it could say so. *)
QueueAgrees == Quiet /\ faults = 0 => queueStatus = stateFile.status

(* Between commands a completed task has a worker whose result says so,
   and the status speaks of the same run as the result, crashes or not. *)
ResultBacksCompletion ==
    Quiet /\ stateFile.status = "completed" =>
        /\ stateFile.worker # NoWorker
        /\ worker[stateFile.worker].result = "completed"
        /\ worker[stateFile.worker].resultRun = stateFile.run

(* Between commands a validated task's current patch is the one that passed,
   with text that is in order.  It changes nothing that is gated, unless a
   crash left the patch of one run beside the result of another: then the
   files that were judged are not the patch's. *)
ValidatedDiffIsCurrent ==
    Quiet /\ stateFile.status = "validated" =>
        /\ stateFile.worker # NoWorker
        /\ LET w == worker[stateFile.worker] IN
              /\ validation.verdict = "passed" /\ w.diffRun = validation.run
              /\ w.diff # "bad"
              /\ w.diffRun = w.resultRun => w.diff = "good"

(* From a pause to the next resume no run gets past its check. *)
PauseBlocksReruns ==
    [][\A p \in Procs : pc[p] = "check" /\ pc'[p] = "route" => ~hold]_vars

(* A task left "running" with no live run does not stay so while the
   operator keeps calling recover. *)
LeftRunning == stateFile.status = "running" /\ \A p \in Procs : ~HoldsLock(p)
CrashedRunIsNoticed == LeftRunning ~> ~LeftRunning

(***************************************************************************)
(* What the documents say and the code does not do (the violation runs).   *)
(***************************************************************************)
(* plan.md:700: "stale workers can be resumed, cancelled, or replaced".  When
   recover has found a worker stale and no command is active, a run of the
   task can take its lock. *)
StaleTaskCanRun ==
    Quiet /\ stateFile.status = "stale" /\ stateFile.worker # NoWorker => lock = Free

(* plan.md:1023: "package/lockfile changes require approval".  Between commands
   the patch of a task whose validation passed changes nothing that is gated. *)
ManifestsAreGated ==
    Quiet /\ stateFile.status = "validated" /\ stateFile.worker # NoWorker =>
        worker[stateFile.worker].diff # "gated"

(* README.md:172: recover restores the status of the run that crashed. *)
RecoverRestoresThatRun ==
    \A p \in Procs :
        /\ cmd[p] = "recover" /\ pc[p] = "u_write"
        /\ upd[p].status \in {"completed", "failed"}
        => upd[p].run = ctx[p].run

(* plan.md:1056: the merge judge blocks failed validators.  The validators
   would pass what an accepted task's worker holds. *)
AcceptedWorkPasses ==
    Quiet /\ stateFile.status = "accepted" /\ stateFile.worker # NoWorker =>
        ValidatorsPass(stateFile.worker)
=============================================================================
