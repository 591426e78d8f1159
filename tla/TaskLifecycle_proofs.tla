------------------------ MODULE TaskLifecycle_proofs ------------------------
(***************************************************************************)
(* Theorems about TaskLifecycle, for any terminals, workers and bounds.    *)
(***************************************************************************)
EXTENDS TaskLifecycle, TLAPS

(***************************************************************************)
(* Control.  The places of `run` under its lock are reached by run only,   *)
(* and an updateState call returns to the command that made it.            *)
(***************************************************************************)
LockedPlaces == {"owner", "check", "route", "capable", "workspace", "prepare", "launch",
                 "work", "collect", "finish_heartbeat", "finish_result", "finish_diff",
                 "release"}
WorkerPlaces == {"capable", "workspace", "prepare", "launch", "work", "collect",
                 "finish_heartbeat", "finish_result", "finish_diff"}
UserPlaces   == {"read", "write", "validators", "verdict", "judge", "reconcile", "done"}
UpdatePlaces == {"u_read", "u_open", "u_write", "queue"}

Control(c, l, u, x) ==
    /\ l = "idle" <=> c = "none"
    /\ l \in LockedPlaces \cup {"lock"} => c = "run"
    /\ l \in UserPlaces => c \notin {"run", "none"}
    /\ l \in UpdatePlaces => u.next \in IF c = "run" THEN {"capable", "launch", "release"}
                                                     ELSE {"done"}
    /\ l \in WorkerPlaces => x.worker \in Workers
    /\ l \in UpdatePlaces /\ u.next \in WorkerPlaces => x.worker \in Workers
    /\ l = "validators" => x.worker \in Workers
    /\ l = "write" => c \in {"cancel", "reject", "rollback", "dry_run"}

ControlOK == \A p \in Procs : Control(cmd[p], pc[p], upd[p], ctx[p])

IInv == TypeOK /\ ControlOK

USE ConstantsAssumption DEF Workers, NoWorker, Keep, MaybeWorker

LEMMA InitIInv == Init => IInv
<1> SUFFICES ASSUME Init PROVE IInv
  OBVIOUS
<1>1. FilesOK
  <2>1. stateFile \in StateFiles /\ queueStatus \in Statuses /\ validation \in Verdicts
    BY DEF Init, StateFiles, Statuses, Verdicts
  <2>2. NoArtifacts \in ArtifactSets
    BY DEF NoArtifacts, ArtifactSets
  <2> QED BY <2>1, <2>2 DEF Init, FilesOK
<1>2. LocalsOK
  <2>1. NoUpdate \in Updates /\ NoContext \in Contexts
    BY DEF NoUpdate, NoContext, Updates, Contexts, Statuses, Places
  <2> QED BY <2>1 DEF Init, LocalsOK, Places
<1>3. CountsOK
  BY DEF Init, CountsOK
<1>4. ControlOK
  BY DEF Init, ControlOK, Control, LockedPlaces, WorkerPlaces, UserPlaces, UpdatePlaces
<1> QED BY <1>1, <1>2, <1>3, <1>4 DEF IInv, TypeOK

LEMMA FinishLocals ==
    ASSUME LocalsOK, ControlOK, NEW p \in Procs, Finish(p)
    PROVE  LocalsOK' /\ ControlOK'
<1>1. NoUpdate \in Updates /\ NoContext \in Contexts
  BY DEF NoUpdate, NoContext, Updates, Contexts, Statuses, Places
<1>2. LocalsOK'
  BY <1>1 DEF LocalsOK, Finish, Places
<1>3. ControlOK'
  BY DEF LocalsOK, ControlOK, Control, Finish, LockedPlaces, WorkerPlaces, UserPlaces, UpdatePlaces
<1> QED BY <1>2, <1>3

LEMMA UpdateLocals ==
    ASSUME LocalsOK, ControlOK, NEW p \in Procs,
           NEW status \in Statuses, NEW w \in MaybeWorker \cup {Keep}, NEW run \in Nat,
           NEW queued \in BOOLEAN, NEW next \in Places,
           Update(p, status, w, run, queued, next), UNCHANGED <<cmd, kept>>,
           ctx' \in [Procs -> Contexts], \A q \in Procs \ {p} : ctx'[q] = ctx[q],
           cmd[p] # "none",
           next \in IF cmd[p] = "run" THEN {"capable", "launch", "release"} ELSE {"done"},
           next \in WorkerPlaces => ctx'[p].worker \in Workers
    PROVE  LocalsOK' /\ ControlOK'
<1>1. LocalsOK'
  BY DEF LocalsOK, Update, Goto, Updates, Places
<1>2. ASSUME NEW q \in Procs PROVE Control(cmd[q], pc[q], upd[q], ctx[q])'
  <2>1. CASE q = p
    BY <2>1 DEF LocalsOK, Control, Update, Goto, LockedPlaces, UserPlaces, UpdatePlaces, WorkerPlaces
  <2>2. CASE q # p
    BY <2>2 DEF LocalsOK, ControlOK, Control, Update, Goto
  <2> QED BY <2>1, <2>2
<1> QED BY <1>1, <1>2 DEF ControlOK
LEMMA GotoLocals ==
    ASSUME LocalsOK, ControlOK, NEW p \in Procs, NEW place \in Places, Goto(p, place),
           UNCHANGED <<cmd, upd>>, kept' \in [Procs -> MaybeWorker],
           ctx' \in [Procs -> Contexts], \A q \in Procs \ {p} : ctx'[q] = ctx[q],
           Control(cmd[p], place, upd[p], ctx'[p])
    PROVE  LocalsOK' /\ ControlOK'
<1>1. LocalsOK'
  BY DEF LocalsOK, Goto
<1>2. ASSUME NEW q \in Procs PROVE Control(cmd[q], pc[q], upd[q], ctx[q])'
  <2>1. CASE q = p
    BY <2>1 DEF LocalsOK, Control, Goto
  <2>2. CASE q # p
    BY <2>2 DEF LocalsOK, ControlOK, Control, Goto
  <2> QED BY <2>1, <2>2
<1> QED BY <1>1, <1>2 DEF ControlOK

LEMMA ThrowLocals ==
    ASSUME LocalsOK, ControlOK, NEW p \in Procs, Throw(p), cmd[p] = "run"
    PROVE  LocalsOK' /\ ControlOK'
<1>1. Control(cmd[p], "release", upd[p], ctx[p])
  BY DEF Control, LockedPlaces, WorkerPlaces, UserPlaces, UpdatePlaces
<1> QED BY <1>1, GotoLocals DEF Throw, LocalsOK, Places

(***************************************************************************)
(* One lemma for each of the groups of actions that Next names.            *)
(***************************************************************************)
LEMMA StartIInv ==
    ASSUME IInv, NEW p \in Procs, NEW op \in Ops, Start(p, op)
    PROVE  IInv'
<1>1. FilesOK'
  BY DEF IInv, TypeOK, FilesOK, Start, files
<1>2. CountsOK'
  BY DEF IInv, TypeOK, CountsOK, Start
<1>3. EntryPoint(op) \in Places \ {"idle"}
  BY DEF EntryPoint, Places, AllOps
<1>4. LocalsOK'
  BY <1>3 DEF IInv, TypeOK, LocalsOK, Start, Goto
<1>5. ASSUME NEW q \in Procs PROVE Control(cmd[q], pc[q], upd[q], ctx[q])'
  <2>1. CASE q = p
    BY <2>1 DEF IInv, TypeOK, LocalsOK, Start, Goto, EntryPoint, AllOps, Control,
       LockedPlaces, WorkerPlaces, UserPlaces, UpdatePlaces
  <2>2. CASE q # p
    BY <2>2 DEF IInv, TypeOK, LocalsOK, ControlOK, Control, Start, Goto
  <2> QED BY <2>1, <2>2
<1> QED BY <1>1, <1>2, <1>4, <1>5 DEF IInv, TypeOK, ControlOK

LEMMA UpdateStepIInv ==
    ASSUME IInv, NEW p \in Procs, UpdateStep(p)
    PROVE  IInv'
<1> USE DEF IInv, TypeOK
<1>1. CASE UpdateRead(p)
  <2>1. FilesOK' /\ CountsOK'
    BY <1>1 DEF UpdateRead, FilesOK, CountsOK, files, counts
  <2>2. Control(cmd[p], "u_open", upd[p], ctx[p])
    BY <1>1 DEF UpdateRead, ControlOK, Control, LockedPlaces, WorkerPlaces, UserPlaces, UpdatePlaces
  <2>3. kept' \in [Procs -> MaybeWorker]
    BY <1>1 DEF UpdateRead, FilesOK, LocalsOK, StateFiles
  <2> QED BY <1>1, <2>1, <2>2, <2>3, GotoLocals DEF UpdateRead, LocalsOK, Places
<1>2. CASE UpdateOpen(p)
  <2>1. Unreadable("empty") \in StateFiles
    BY DEF Unreadable, StateFiles, Statuses
  <2>2. FilesOK' /\ CountsOK'
    BY <1>2, <2>1 DEF UpdateOpen, FilesOK, CountsOK, counts
  <2>3. Control(cmd[p], "u_write", upd[p], ctx[p])
    BY <1>2 DEF UpdateOpen, ControlOK, Control, LockedPlaces, WorkerPlaces, UserPlaces, UpdatePlaces
  <2> QED BY <1>2, <2>2, <2>3, GotoLocals DEF UpdateOpen, LocalsOK, Places
<1>3. CASE UpdateWrite(p)
  <2>1. Unreadable("corrupt") \in StateFiles
    BY DEF Unreadable, StateFiles, Statuses
  <2>2. upd[p] \in Updates /\ kept[p] \in MaybeWorker
    BY DEF LocalsOK
  <2>3. Merged(p) \in MaybeWorker
    BY <2>2 DEF Merged, Updates
  <2>4. FilesOK' /\ CountsOK'
    <3> DEFINE json == [form |-> "json", status |-> upd[p].status, worker |-> Merged(p),
                        fresh |-> TRUE, run |-> upd[p].run]
    <3>1. json \in StateFiles
      BY <2>2, <2>3 DEF StateFiles, Updates
    <3>2. stateFile' = json \/ stateFile' = Unreadable("corrupt")
      BY <1>3 DEF UpdateWrite
    <3>3. hold' \in BOOLEAN
      BY <1>3 DEF UpdateWrite, CountsOK
    <3> HIDE DEF json
    <3> QED BY <1>3, <2>1, <3>1, <3>2, <3>3 DEF UpdateWrite, FilesOK, CountsOK
  <2>5. CASE upd[p].queued
    <3>1. Control(cmd[p], "queue", upd[p], ctx[p])
      BY <1>3 DEF UpdateWrite, ControlOK, Control, LockedPlaces, WorkerPlaces, UserPlaces, UpdatePlaces
    <3> QED BY <1>3, <2>4, <2>5, <3>1, GotoLocals DEF UpdateWrite, LocalsOK, Places
  <2>6. CASE ~upd[p].queued
    <3>1. Control(cmd[p], upd[p].next, upd[p], ctx[p])
      BY <1>3 DEF UpdateWrite, LocalsOK, ControlOK, Control, AllOps, LockedPlaces, WorkerPlaces,
         UserPlaces, UpdatePlaces
    <3>2. upd[p].next \in Places
      BY <2>2 DEF Updates
    <3> QED BY <1>3, <2>4, <2>6, <3>1, <3>2, GotoLocals DEF UpdateWrite, LocalsOK
  <2> QED BY <2>5, <2>6
<1>4. CASE QueueUpdate(p)
  <2>1. upd[p] \in Updates
    BY DEF LocalsOK
  <2>2. FilesOK' /\ CountsOK'
    BY <1>4, <2>1 DEF QueueUpdate, FilesOK, CountsOK, Updates, counts
  <2>3. Control(cmd[p], upd[p].next, upd[p], ctx[p])
    BY <1>4 DEF QueueUpdate, LocalsOK, ControlOK, Control, AllOps, LockedPlaces, WorkerPlaces,
       UserPlaces, UpdatePlaces
  <2>4. upd[p].next \in Places
    BY <2>1 DEF Updates
  <2> QED BY <1>4, <2>2, <2>3, <2>4, GotoLocals DEF QueueUpdate, LocalsOK
<1>5. CASE QueueThrows(p)
  <2>1. FilesOK' /\ CountsOK'
    BY <1>5 DEF QueueThrows, FilesOK, CountsOK, files, counts
  <2> QED BY <1>5, <2>1, FinishLocals, ThrowLocals DEF QueueThrows
<1>6. CASE Return(p)
  <2>1. FilesOK' /\ CountsOK'
    BY <1>6 DEF Return, FilesOK, CountsOK, files, counts
  <2> QED BY <1>6, <2>1, FinishLocals DEF Return
<1> QED BY <1>1, <1>2, <1>3, <1>4, <1>5, <1>6 DEF UpdateStep

LEMMA UserStepIInv ==
    ASSUME IInv, NEW p \in Procs, UserStep(p)
    PROVE  IInv'
<1> USE DEF IInv, TypeOK
<1>a. upd[p] \in Updates /\ ctx[p] \in Contexts /\ stateFile.worker \in MaybeWorker
  BY DEF LocalsOK, FilesOK, StateFiles
<1>b. \A w \in Workers : worker[w] \in ArtifactSets
  BY DEF FilesOK
<1>c. ctx \in [Procs -> Contexts]
  BY DEF LocalsOK
<1>1. CASE Refuse(p)
  <2>1. FilesOK' /\ CountsOK'
    BY <1>1 DEF Refuse, FilesOK, CountsOK, files, counts
  <2> QED BY <1>1, <2>1, FinishLocals DEF Refuse
<1>2. CASE Pause(p)
  <2>1. FilesOK' /\ CountsOK'
    BY <1>2 DEF Pause, FilesOK, CountsOK, files, counts
  <2> QED BY <1>2, <1>c, <2>1, UpdateLocals DEF Pause, At, Statuses, Places, WorkerPlaces
<1>3. CASE Resume(p)
  <2>1. FilesOK' /\ CountsOK'
    BY <1>3 DEF Resume, FilesOK, CountsOK, files, counts
  <2> QED BY <1>3, <1>c, <2>1, UpdateLocals DEF Resume, At, Statuses, Places, WorkerPlaces
<1>4. CASE Overwrite(p)
  <2>1. FilesOK' /\ CountsOK'
    BY <1>4 DEF Overwrite, FilesOK, CountsOK, files, counts
  <2>2. CASE Update(p, Imposed[cmd[p]], Keep, 0, TRUE, "done") /\ UNCHANGED <<cmd, kept, ctx>>
    <3>1. cmd[p] \notin {"run", "none"}
      BY <1>4 DEF Overwrite, ControlOK, Control, UserPlaces
    <3>2. CASE Imposed[cmd[p]] \in Statuses
      BY <1>c, <2>1, <2>2, <3>1, <3>2, UpdateLocals DEF Places, WorkerPlaces
    <3>3. Imposed[cmd[p]] \in Statuses
      BY <1>4 DEF Overwrite, Imposed, Statuses, ControlOK, Control
    <3> QED BY <3>2, <3>3
  <2> QED BY <1>4, <2>1, <2>2, FinishLocals DEF Overwrite
<1>5. CASE ReadForValidation(p)
  <2>1. FilesOK' /\ CountsOK'
    BY <1>5 DEF ReadForValidation, FilesOK, CountsOK, files, counts
  <2>2. ctx' \in [Procs -> Contexts] /\ ctx'[p].worker \in Workers
    BY <1>5, <1>a DEF ReadForValidation, Admits, LocalsOK, Contexts
  <2>3. Control(cmd[p], "validators", upd[p], ctx'[p])
    BY <1>5, <2>2 DEF ReadForValidation, At, Control, LockedPlaces, WorkerPlaces, UserPlaces, UpdatePlaces
  <2> QED BY <1>5, <2>1, <2>2, <2>3, GotoLocals DEF ReadForValidation, LocalsOK, Places
<1>6. CASE RunValidators(p)
  <2>1. FilesOK' /\ CountsOK'
    BY <1>6 DEF RunValidators, FilesOK, CountsOK, files, counts
  <2>2. ctx[p].worker \in Workers /\ cmd[p] \notin {"run", "none"}
    BY <1>6 DEF RunValidators, ControlOK, Control, UserPlaces
  <2>3. worker[ctx[p].worker].diffRun \in Nat
    BY <1>b, <2>2 DEF ArtifactSets
  <2>4. ctx' \in [Procs -> Contexts] /\ \A q \in Procs \ {p} : ctx'[q] = ctx[q]
    <3> DEFINE o == IF ValidatorsPass(ctx[p].worker) THEN "completed" ELSE "failed"
               r == worker[ctx[p].worker].diffRun
    <3>1. ctx' = [ctx EXCEPT ![p] = [ctx[p] EXCEPT !.outcome = o, !.run = r]]
      BY <1>6, <1>c DEF RunValidators
    <3>2. o \in {"completed", "failed"}
      OBVIOUS
    <3> HIDE DEF o, r
    <3>3. [ctx[p] EXCEPT !.outcome = o, !.run = r] \in Contexts
      BY <1>a, <2>3, <3>2 DEF Contexts, r
    <3> QED BY <1>c, <3>1, <3>3
  <2>5. Control(cmd[p], "verdict", upd[p], ctx'[p])
    BY <2>2 DEF Control, LockedPlaces, WorkerPlaces, UserPlaces, UpdatePlaces
  <2> QED BY <1>6, <2>1, <2>4, <2>5, GotoLocals DEF RunValidators, LocalsOK, Places
<1>7. CASE WriteVerdict(p)
  <2>1. FilesOK' /\ CountsOK'
    <3>1. ctx[p].run \in Nat
      BY <1>a DEF Contexts
    <3>2. validation' \in Verdicts
      <4>1. PICK v \in {"passed", "failed"} : validation' = [verdict |-> v, run |-> ctx[p].run]
        BY <1>7 DEF WriteVerdict
      <4> QED BY <3>1, <4>1 DEF Verdicts
    <3>3. passed' \subseteq Nat
      BY <1>7, <3>1 DEF WriteVerdict, CountsOK
    <3> QED BY <1>7, <3>2, <3>3 DEF WriteVerdict, FilesOK, CountsOK
  <2>2. cmd[p] \notin {"run", "none"} /\ ctx[p].run \in Nat
    BY <1>7, <1>a DEF WriteVerdict, ControlOK, Control, UserPlaces, Contexts
  <2> QED BY <1>7, <1>c, <2>1, <2>2, UpdateLocals DEF WriteVerdict, Statuses, Places, WorkerPlaces
<1>8. CASE Review(p)
  <2>1. FilesOK' /\ CountsOK'
    BY <1>8 DEF Review, FilesOK, CountsOK, files, counts
  <2>2. worker[stateFile.worker].diffRun \in Nat
    BY <1>8, <1>a, <1>b DEF Review, Admits, ArtifactSets
  <2> QED BY <1>8, <1>c, <2>1, <2>2, UpdateLocals DEF Review, At, Statuses, Places, WorkerPlaces
<1>9. CASE Accept(p)
  <2>1. FilesOK' /\ CountsOK'
    BY <1>9 DEF Accept, FilesOK, CountsOK, files, counts
  <2>2. validation.run \in Nat
    BY DEF FilesOK, Verdicts
  <2> QED BY <1>9, <1>c, <2>1, <2>2, UpdateLocals, FinishLocals
       DEF Accept, At, Statuses, Places, WorkerPlaces
<1>10. CASE ReadForRecovery(p)
  <2>1. FilesOK' /\ CountsOK'
    BY <1>10 DEF ReadForRecovery, FilesOK, CountsOK, files, counts
  <2>2. ctx' \in [Procs -> Contexts] /\ \A q \in Procs \ {p} : ctx'[q] = ctx[q]
    BY <1>10, <1>a, <1>c DEF ReadForRecovery, FilesOK, StateFiles, Contexts
  <2>3. Control(cmd[p], "reconcile", upd[p], ctx'[p])
    BY <1>10 DEF ReadForRecovery, At, Control, LockedPlaces, WorkerPlaces, UserPlaces, UpdatePlaces
  <2> QED BY <1>10, <2>1, <2>2, <2>3, GotoLocals DEF ReadForRecovery, LocalsOK, Places
<1>11. CASE RecoverTask(p)
  <2>1. FilesOK' /\ CountsOK'
    BY <1>11 DEF RecoverTask, FilesOK, CountsOK, files, counts
  <2>2. cmd[p] \notin {"run", "none"}
    BY <1>11 DEF RecoverTask, ControlOK, Control, UserPlaces
  <2>3. ASSUME NEW w \in Workers \cup {Keep}, RecoverStale(p, w) PROVE LocalsOK' /\ ControlOK'
    BY <1>c, <2>2, <2>3, UpdateLocals DEF RecoverStale, Statuses, Places, WorkerPlaces
  <2>4. ASSUME NEW w \in Workers, worker[w].result # "none", UNCHANGED <<cmd, kept, ctx>>,
               Update(p, RestoredStatus(w), w, worker[w].resultRun, TRUE, "done")
        PROVE  LocalsOK' /\ ControlOK'
    <3>1. RestoredStatus(w) \in Statuses /\ worker[w].resultRun \in Nat
      BY <1>b, <2>4 DEF RestoredStatus, ArtifactSets, Statuses
    <3> QED BY <1>c, <2>2, <2>4, <3>1, UpdateLocals DEF Places, WorkerPlaces
  <2> QED BY <1>11, <2>1, <2>3, <2>4, FinishLocals DEF RecoverTask
<1> QED BY <1>1, <1>2, <1>3, <1>4, <1>5, <1>6, <1>7, <1>8, <1>9, <1>10, <1>11 DEF UserStep

\* Every place of `run` under the lock, and what Control says there.
LEMMA RunPlaceControl ==
    ASSUME NEW c, NEW l, NEW u, NEW x, c = "run", l \in LockedPlaces,
           l \in WorkerPlaces => x.worker \in Workers
    PROVE  Control(c, l, u, x)
BY DEF Control, LockedPlaces, WorkerPlaces, UserPlaces, UpdatePlaces

LEMMA HeartbeatFiles ==
    ASSUME FilesOK, NEW p \in Procs, ctx[p].worker \in Workers,
           NEW status \in {"running", "exited", "finished"}, Heartbeat(p, status),
           UNCHANGED <<stateFile, queueStatus, lock, validation>>
    PROVE  FilesOK'
<1> DEFINE w == ctx[p].worker
<1>1. worker' = [worker EXCEPT ![w] = [worker[w] EXCEPT !.heartbeat = status, !.fresh = TRUE]]
  BY DEF Heartbeat, FilesOK
<1>2. [worker[w] EXCEPT !.heartbeat = status, !.fresh = TRUE] \in ArtifactSets
  <2>1. worker[w] \in ArtifactSets
    BY DEF FilesOK
  <2> HIDE DEF w
  <2> QED BY <2>1 DEF ArtifactSets
<1> QED BY <1>1, <1>2 DEF FilesOK

LEMMA RunStepIInv ==
    ASSUME IInv, NEW p \in Procs, RunStep(p)
    PROVE  IInv'
<1> USE DEF IInv, TypeOK
<1>a. upd[p] \in Updates /\ ctx[p] \in Contexts /\ ctx \in [Procs -> Contexts]
  BY DEF LocalsOK
<1>b. \A w \in Workers : worker[w] \in ArtifactSets
  BY DEF FilesOK
<1>c. pc[p] \in LockedPlaces => cmd[p] = "run"
  BY DEF ControlOK, Control
<1>d. pc[p] \in WorkerPlaces => ctx[p].worker \in Workers
  BY DEF ControlOK, Control
<1>e. LockedPlaces \subseteq Places
  BY DEF LockedPlaces, Places
\* A step that only moves p to another place under the lock.
<1>f. ASSUME NEW l \in LockedPlaces, Goto(p, l), UNCHANGED <<cmd, upd, kept, ctx>>,
             cmd[p] = "run", l \in WorkerPlaces => ctx[p].worker \in Workers
      PROVE  LocalsOK' /\ ControlOK'
  <2>1. Control(cmd[p], l, upd[p], ctx'[p])
    BY <1>f, RunPlaceControl
  <2> QED BY <1>e, <1>f, <2>1, GotoLocals DEF LocalsOK
<1>1. CASE AcquireTaskLock(p)
  <2>1. FilesOK' /\ CountsOK'
    BY <1>1 DEF AcquireTaskLock, MakeLockDir, FilesOK, CountsOK, counts
  <2>2. cmd[p] = "run"
    BY <1>1 DEF AcquireTaskLock, At
  <2> QED BY <1>1, <1>f, <2>1, <2>2, FinishLocals
       DEF AcquireTaskLock, LockedOut, LockedPlaces, WorkerPlaces
<1>2. CASE WriteOwner(p)
  <2>1. FilesOK' /\ CountsOK'
    BY <1>2 DEF WriteOwner, FilesOK, CountsOK, files, counts
  <2> QED BY <1>2, <1>c, <1>f, <2>1 DEF WriteOwner, LockedPlaces, WorkerPlaces
<1>3. CASE CheckPaused(p)
  <2>1. FilesOK' /\ CountsOK'
    BY <1>3 DEF CheckPaused, FilesOK, CountsOK, files, counts
  <2> QED BY <1>3, <1>c, <1>f, <2>1, ThrowLocals DEF CheckPaused, LockedPlaces, WorkerPlaces
<1>4. CASE ChooseRoute(p)
  <2>1. FilesOK' /\ CountsOK'
    <3>1. runs' \in Nat
      <4>1. runs' \in {runs, runs + 1}
        BY <1>4 DEF ChooseRoute
      <4> QED BY <4>1 DEF CountsOK
    <3> QED BY <1>4, <3>1 DEF ChooseRoute, FilesOK, CountsOK, files
  <2>2. cmd[p] = "run" /\ runs + 1 \in Nat
    BY <1>4, <1>c DEF ChooseRoute, LockedPlaces, CountsOK
  <2>3. ASSUME NEW w \in Workers, UNCHANGED <<cmd, kept>>,
               ctx' = [ctx EXCEPT ![p].worker = w, ![p].run = runs + 1],
               Update(p, "running", Keep, runs + 1, TRUE, "capable")
        PROVE  LocalsOK' /\ ControlOK'
    <3>1. ctx' = [ctx EXCEPT ![p] = [ctx[p] EXCEPT !.worker = w, !.run = runs + 1]]
      BY <1>a, <2>3
    <3>2. [ctx[p] EXCEPT !.worker = w, !.run = runs + 1] \in Contexts
      BY <1>a, <2>2 DEF Contexts
    <3>3. /\ ctx' \in [Procs -> Contexts]
          /\ \A q \in Procs \ {p} : ctx'[q] = ctx[q]
      BY <1>a, <3>1, <3>2
    <3>4. ctx'[p].worker \in Workers
      BY <1>a, <3>1 DEF Contexts
    <3> QED BY <2>2, <2>3, <3>3, <3>4, UpdateLocals DEF Statuses, Places
  <2> QED BY <1>4, <2>1, <2>2, <2>3, ThrowLocals DEF ChooseRoute
<1>5. CASE CheckCapable(p)
  <2>1. FilesOK' /\ CountsOK'
    BY <1>5 DEF CheckCapable, FilesOK, CountsOK, files, counts
  <2>2. cmd[p] = "run" /\ ctx[p].worker \in Workers /\ ctx[p].run \in Nat
    BY <1>5, <1>a, <1>c, <1>d DEF CheckCapable, LockedPlaces, WorkerPlaces, Contexts
  <2>3. CASE Goto(p, "workspace") /\ UNCHANGED upd
    BY <1>5, <1>f, <2>1, <2>2, <2>3 DEF CheckCapable, LockedPlaces
  <2>4. CASE Update(p, "failed", Keep, ctx[p].run, TRUE, "release")
    BY <1>5, <1>a, <2>1, <2>2, <2>4, UpdateLocals DEF CheckCapable, Statuses, Places, WorkerPlaces
  <2> QED BY <1>5, <2>3, <2>4 DEF CheckCapable
<1>6. CASE MakeWorkerDir(p)
  <2>1. cmd[p] = "run" /\ ctx[p].worker \in Workers
    BY <1>6, <1>c, <1>d DEF MakeWorkerDir, LockedPlaces, WorkerPlaces
  <2>2. FilesOK' /\ CountsOK'
    BY <1>6, <1>b, <2>1 DEF MakeWorkerDir, FilesOK, CountsOK, counts, ArtifactSets
  <2> QED BY <1>6, <1>f, <2>1, <2>2 DEF MakeWorkerDir, LockedPlaces
<1>7. CASE PrepareWorker(p)
  <2>1. FilesOK' /\ CountsOK'
    BY <1>7 DEF PrepareWorker, FilesOK, CountsOK, files, counts
  <2>2. cmd[p] = "run" /\ ctx[p].worker \in Workers /\ ctx[p].run \in Nat
    BY <1>7, <1>a, <1>c, <1>d DEF PrepareWorker, LockedPlaces, WorkerPlaces, Contexts
  <2>3. CASE /\ ctx' = [ctx EXCEPT ![p].outcome = "completed", ![p].named = "none",
                                ![p].diff = "bad"]
             /\ Goto(p, "finish_heartbeat") /\ UNCHANGED <<cmd, upd, kept>>
    <3>1. /\ ctx' \in [Procs -> Contexts]
          /\ \A q \in Procs \ {p} : ctx'[q] = ctx[q]
          /\ ctx'[p].worker = ctx[p].worker
      BY <1>a, <2>3 DEF Contexts
    <3>2. Control(cmd[p], "finish_heartbeat", upd[p], ctx'[p])
      BY <2>2, <3>1, RunPlaceControl DEF LockedPlaces
    <3> QED BY <2>1, <2>3, <3>1, <3>2, GotoLocals DEF Places, LocalsOK
  <2>4. CASE /\ Update(p, "running", ctx[p].worker, ctx[p].run, FALSE, "launch")
             /\ UNCHANGED <<cmd, kept, ctx>>
    BY <1>a, <2>1, <2>2, <2>4, UpdateLocals DEF Statuses, Places
  <2> QED BY <1>7, <2>1, <2>2, <2>3, <2>4, ThrowLocals DEF PrepareWorker
<1>8. CASE Launch(p)
  <2>1. cmd[p] = "run" /\ ctx[p].worker \in Workers
    BY <1>8, <1>c, <1>d DEF Launch, LockedPlaces, WorkerPlaces
  <2>2. FilesOK' /\ CountsOK'
    BY <1>8, <2>1, HeartbeatFiles DEF Launch, FilesOK, CountsOK, counts
  <2> QED BY <1>8, <1>f, <2>1, <2>2, ThrowLocals DEF Launch, LockedPlaces
<1>9. CASE WorkerExit(p)
  <2>1. cmd[p] = "run" /\ ctx[p].worker \in Workers
    BY <1>9, <1>c, <1>d DEF WorkerExit, LockedPlaces, WorkerPlaces
  <2>2. FilesOK' /\ CountsOK'
    BY <1>9, <2>1, HeartbeatFiles DEF WorkerExit, CountsOK, counts
  <2> QED BY <1>9, <1>f, <2>1, <2>2 DEF WorkerExit, LockedPlaces
<1>10. CASE CollectDiff(p)
  <2>1. FilesOK' /\ CountsOK'
    BY <1>10 DEF CollectDiff, FilesOK, CountsOK, files, counts
  <2>2. cmd[p] = "run" /\ ctx[p].worker \in Workers
    BY <1>10, <1>c, <1>d DEF CollectDiff, LockedPlaces, WorkerPlaces
  <2>3. ASSUME NEW outcome \in {"completed", "failed"}, NEW changes \in Captures,
               ctx' = [ctx EXCEPT ![p].outcome = outcome, ![p].named = changes[1],
                                  ![p].diff = changes[2]],
               Goto(p, "finish_heartbeat"), UNCHANGED <<cmd, upd, kept>>
        PROVE  LocalsOK' /\ ControlOK'
    <3> DEFINE c == [ctx[p] EXCEPT !.outcome = outcome, !.named = changes[1], !.diff = changes[2]]
    <3>a. ctx' = [ctx EXCEPT ![p] = c]
      BY <1>a, <2>3
    <3>b. changes[1] \in {"none", "good", "gated"} /\ changes[2] \in {"bad", "good", "gated"}
      BY CapturesAssumption DEF Captured
    <3>c. c \in Contexts /\ c.worker = ctx[p].worker
      BY <1>a, <3>b DEF Contexts
    <3> HIDE DEF c
    <3>1. /\ ctx' \in [Procs -> Contexts]
          /\ \A q \in Procs \ {p} : ctx'[q] = ctx[q]
          /\ ctx'[p].worker = ctx[p].worker
      BY <1>a, <3>a, <3>c
    <3>2. Control(cmd[p], "finish_heartbeat", upd[p], ctx'[p])
      BY <2>2, <3>1, RunPlaceControl DEF LockedPlaces
    <3> QED BY <2>3, <3>1, <3>2, GotoLocals DEF Places, LocalsOK
  <2> QED BY <1>10, <2>1, <2>2, <2>3, ThrowLocals DEF CollectDiff
<1>11. CASE FinishHeartbeat(p)
  <2>1. cmd[p] = "run" /\ ctx[p].worker \in Workers
    BY <1>11, <1>c, <1>d DEF FinishHeartbeat, LockedPlaces, WorkerPlaces
  <2>2. FilesOK' /\ CountsOK'
    BY <1>11, <2>1, HeartbeatFiles DEF FinishHeartbeat, CountsOK, counts
  <2> QED BY <1>11, <1>f, <2>1, <2>2 DEF FinishHeartbeat, LockedPlaces
<1>12. CASE FinishResult(p)
  <2>1. cmd[p] = "run" /\ ctx[p].worker \in Workers
    BY <1>12, <1>c, <1>d DEF FinishResult, LockedPlaces, WorkerPlaces
  <2>2. FilesOK' /\ CountsOK'
    <3> DEFINE w == ctx[p].worker
               art == [worker[w] EXCEPT !.result = ctx[p].outcome, !.resultRun = ctx[p].run,
                                      !.named = ctx[p].named]
    <3>1. worker' = [worker EXCEPT ![w] = art]
      BY <1>12 DEF FinishResult, FilesOK
    <3>2. /\ ctx[p].outcome \in {"completed", "failed"} /\ ctx[p].run \in Nat
          /\ ctx[p].named \in {"none", "good", "gated"}
      BY <1>a DEF Contexts
    <3>3. art \in ArtifactSets
      BY <1>b, <2>1, <3>2 DEF ArtifactSets
    <3> QED BY <1>12, <3>1, <3>3 DEF FinishResult, FilesOK, CountsOK, counts
  <2> QED BY <1>12, <1>f, <2>1, <2>2 DEF FinishResult, LockedPlaces
<1>13. CASE FinishDiff(p)
  <2>1. cmd[p] = "run" /\ ctx[p].worker \in Workers /\ ctx[p].run \in Nat
    BY <1>13, <1>a, <1>c, <1>d DEF FinishDiff, LockedPlaces, WorkerPlaces, Contexts
  <2>2. FilesOK' /\ CountsOK'
    <3> DEFINE w == ctx[p].worker
               art == [worker[w] EXCEPT !.diff = ctx[p].diff, !.diffRun = ctx[p].run]
    <3>1. worker' = [worker EXCEPT ![w] = art]
      BY <1>13 DEF FinishDiff, FilesOK
    <3>2. ctx[p].diff \in {"bad", "good", "gated"}
      BY <1>a DEF Contexts
    <3>3. art \in ArtifactSets
      BY <1>b, <2>1, <3>2 DEF ArtifactSets
    <3> QED BY <1>13, <3>1, <3>3 DEF FinishDiff, FilesOK, CountsOK, counts
  <2>3. ctx[p].outcome \in Statuses
    BY <1>a DEF Contexts, Statuses
  <2> QED BY <1>13, <1>a, <2>1, <2>2, <2>3, UpdateLocals DEF FinishDiff, Places, WorkerPlaces
<1>14. CASE ReleaseLock(p)
  <2>1. FilesOK' /\ CountsOK'
    BY <1>14 DEF ReleaseLock, FilesOK, CountsOK, counts
  <2> QED BY <1>14, <2>1, FinishLocals DEF ReleaseLock
<1> QED BY <1>1, <1>2, <1>3, <1>4, <1>5, <1>6, <1>7, <1>8, <1>9, <1>10, <1>11, <1>12,
     <1>13, <1>14 DEF RunStep

LEMMA EnvironmentIInv ==
    ASSUME IInv,
           \/ WindowPasses
           \/ \E p \in Procs : WorkerOutput(p) \/ WriteOwnerFails(p) \/ Kill(p)
    PROVE  IInv'
<1> USE DEF IInv, TypeOK
<1>1. CASE WindowPasses
  <2>1. stateFile' \in StateFiles
    BY <1>1 DEF WindowPasses, FilesOK, StateFiles
  <2>2. \A w \in Workers : [worker[w] EXCEPT !.fresh = FALSE] \in ArtifactSets
    BY DEF FilesOK, ArtifactSets
  <2>3. FilesOK' /\ CountsOK'
    BY <1>1, <2>1, <2>2 DEF WindowPasses, FilesOK, CountsOK, counts
  <2>4. LocalsOK' /\ ControlOK'
    BY <1>1 DEF WindowPasses, LocalsOK, ControlOK, locals
  <2> QED BY <2>3, <2>4
<1>2. ASSUME NEW p \in Procs, WorkerOutput(p) PROVE IInv'
  <2>1. ctx[p].worker \in Workers
    BY <1>2 DEF WorkerOutput, ControlOK, Control, WorkerPlaces
  <2>2. FilesOK' /\ CountsOK'
    BY <1>2, <2>1, HeartbeatFiles DEF WorkerOutput, CountsOK, counts
  <2>3. LocalsOK' /\ ControlOK'
    BY <1>2 DEF WorkerOutput, LocalsOK, ControlOK, locals
  <2> QED BY <2>2, <2>3
<1>3. ASSUME NEW p \in Procs, WriteOwnerFails(p) PROVE IInv'
  <2>1. FilesOK' /\ CountsOK'
    BY <1>3 DEF WriteOwnerFails, FilesOK, CountsOK
  <2> QED BY <1>3, <2>1, FinishLocals DEF WriteOwnerFails
<1>4. ASSUME NEW p \in Procs, Kill(p) PROVE IInv'
  <2>1. FilesOK' /\ CountsOK'
    BY <1>4 DEF Kill, FilesOK, CountsOK
  <2> QED BY <1>4, <2>1, FinishLocals DEF Kill
<1> QED BY <1>1, <1>2, <1>3, <1>4

LEMMA NextIInv == IInv /\ [Next]_vars => IInv'
<1> SUFFICES ASSUME IInv, [Next]_vars PROVE IInv'
  OBVIOUS
<1>1. CASE UNCHANGED vars
  BY <1>1 DEF vars, IInv, TypeOK, FilesOK, LocalsOK, CountsOK, ControlOK
<1>2. CASE Next
  BY <1>2, StartIInv, UpdateStepIInv, UserStepIInv, RunStepIInv, EnvironmentIInv DEF Next, Step
<1> QED BY <1>1, <1>2

(* Every file holds a value of its type and every command is at a place of
   its own code, whatever interleaves, throws or is killed. *)
THEOREM TypeCorrect == Spec => []TypeOK
<1>1. IInv => TypeOK
  BY DEF IInv
<1> QED BY <1>1, InitIInv, NextIInv, PTL DEF Spec

(***************************************************************************)
(* The task lock.                                                          *)
(***************************************************************************)
\* What a step of p can be, as far as the lock goes: p stays inside it or
\* outside, takes it, leaves it, abandons it, or dies without it.
OthersStay(p) == \A q \in Procs \ {p} : cmd'[q] = cmd[q] /\ pc'[q] = pc[q]

Outside(p)  == UNCHANGED <<lock, faults>> /\ OthersStay(p) /\ (HoldsLock(p)' <=> HoldsLock(p))
Takes(p)    == lock = Free /\ lock' = p /\ OthersStay(p) /\ HoldsLock(p)' /\ UNCHANGED faults
Leaves(p)   == HoldsLock(p) /\ lock' = Free /\ OthersStay(p) /\ ~HoldsLock(p)' /\ UNCHANGED faults
Abandons(p) == /\ HoldsLock(p) /\ lock' = Abandoned /\ OthersStay(p) /\ ~HoldsLock(p)'
               /\ faults' = faults + 1
Dies(p)     == ~HoldsLock(p) /\ lock' = lock /\ OthersStay(p) /\ ~HoldsLock(p)' /\ faults' = faults + 1

LockAction(p) == Outside(p) \/ Takes(p) \/ Leaves(p) \/ Abandons(p) \/ Dies(p)

LEMMA FinishMoves ==
    ASSUME LocalsOK, NEW p \in Procs, Finish(p)
    PROVE  OthersStay(p) /\ ~HoldsLock(p)'
BY DEF LocalsOK, Finish, OthersStay, HoldsLock

LEMMA GotoMoves ==
    ASSUME LocalsOK, NEW p \in Procs, NEW l, l # "lock", Goto(p, l), UNCHANGED cmd, pc[p] # "lock"
    PROVE  OthersStay(p) /\ (HoldsLock(p)' <=> HoldsLock(p))
BY DEF LocalsOK, Goto, OthersStay, HoldsLock

LEMMA UserStepOutside ==
    ASSUME IInv, NEW p \in Procs, UserStep(p)
    PROVE  Outside(p)
<1>1. UNCHANGED <<lock, faults>> /\ pc[p] \in UserPlaces
  BY DEF UserStep, Refuse, Pause, Resume, Overwrite, ReadForValidation, RunValidators,
     WriteVerdict, Review, Accept, ReadForRecovery, RecoverTask, At, UserPlaces, files, counts
<1>2. ~HoldsLock(p)
  BY <1>1 DEF IInv, ControlOK, Control, HoldsLock
<1>3. \/ Finish(p)
      \/ UNCHANGED cmd /\ \E l \in Places \ {"lock"} : Goto(p, l)
  BY DEF UserStep, Refuse, Pause, Resume, Overwrite, ReadForValidation, RunValidators,
     WriteVerdict, Review, Accept, ReadForRecovery, RecoverTask, RecoverStale, Update, Places
<1> QED BY <1>1, <1>2, <1>3, FinishMoves, GotoMoves DEF IInv, TypeOK, Outside, UserPlaces

LEMMA UpdateStepOutside ==
    ASSUME IInv, NEW p \in Procs, UpdateStep(p)
    PROVE  Outside(p)
<1>1. /\ UNCHANGED <<lock, faults>>
      /\ pc[p] \in UpdatePlaces \cup {"done"}
  BY DEF UpdateStep, UpdateRead, UpdateOpen, UpdateWrite, QueueUpdate, QueueThrows, Return,
     UpdatePlaces, files, counts
<1>2. pc[p] \in UpdatePlaces => upd[p].next # "lock"
  BY DEF IInv, ControlOK, Control
<1>4. pc[p] = "done" => ~HoldsLock(p)
  BY DEF IInv, ControlOK, Control, HoldsLock, UserPlaces
<1>3. \/ Finish(p) /\ ~HoldsLock(p)
      \/ UNCHANGED cmd /\ \E l \in Places \ {"lock"} : Goto(p, l)
  <2>1. upd[p].next \in Places
    BY DEF IInv, TypeOK, LocalsOK, Updates
  <2> QED BY <1>2, <1>4, <2>1 DEF UpdateStep, UpdateRead, UpdateOpen, UpdateWrite, QueueUpdate,
       QueueThrows, Return, Throw, HoldsLock, Places, UpdatePlaces
<1> QED BY <1>1, <1>3, FinishMoves, GotoMoves DEF IInv, TypeOK, Outside, UpdatePlaces

LEMMA StartOutside ==
    ASSUME IInv, NEW p \in Procs, NEW op \in Ops, Start(p, op)
    PROVE  Outside(p)
<1>1. cmd[p] = "none" /\ (op = "run" => EntryPoint(op) = "lock")
  BY DEF Start, IInv, ControlOK, Control, EntryPoint
<1>2. OthersStay(p) /\ cmd'[p] = op /\ pc'[p] = EntryPoint(op)
  BY DEF Start, Goto, IInv, TypeOK, LocalsOK, OthersStay
<1> QED BY <1>1, <1>2 DEF Start, Outside, HoldsLock, files

LEMMA RunStepLock ==
    ASSUME IInv, NEW p \in Procs, RunStep(p)
    PROVE  LockAction(p)
<1> USE DEF IInv, TypeOK
<1>1. CASE AcquireTaskLock(p)
  <2>1. CASE MakeLockDir(p) /\ Goto(p, "owner") /\ UNCHANGED cmd
    BY <1>1, <2>1 DEF AcquireTaskLock, MakeLockDir, At, Goto, LocalsOK, Takes, OthersStay,
       HoldsLock, LockAction, counts
  <2>2. CASE LockedOut(p) /\ UNCHANGED lock
    BY <1>1, <2>2, FinishMoves DEF AcquireTaskLock, LockedOut, At, HoldsLock, Outside, LockAction, counts
  <2> QED BY <1>1, <2>1, <2>2 DEF AcquireTaskLock
<1>2. CASE ReleaseLock(p)
  <2>1. HoldsLock(p)
    BY <1>2 DEF ReleaseLock, ControlOK, Control, LockedPlaces, HoldsLock
  <2> QED BY <1>2, <2>1, FinishMoves DEF ReleaseLock, Leaves, LockAction, counts
<1>3. CASE RunStep(p) /\ ~AcquireTaskLock(p) /\ ~ReleaseLock(p)
  <2>1. UNCHANGED <<lock, faults>> /\ pc[p] # "lock"
    BY <1>3 DEF RunStep, WriteOwner, CheckPaused, ChooseRoute, CheckCapable, MakeWorkerDir,
       PrepareWorker, Launch, WorkerExit, CollectDiff, FinishHeartbeat, FinishResult, FinishDiff,
       files, counts
  <2>2. UNCHANGED cmd /\ \E l \in Places \ {"lock"} : Goto(p, l)
    BY <1>3 DEF RunStep, WriteOwner, CheckPaused, ChooseRoute, CheckCapable, MakeWorkerDir,
       PrepareWorker, Launch, WorkerExit, CollectDiff, FinishHeartbeat, FinishResult, FinishDiff,
       Throw, Update, Places
  <2> QED BY <2>1, <2>2, GotoMoves DEF Outside, LockAction
<1> QED BY <1>1, <1>2, <1>3

LEMMA NextLock ==
    ASSUME IInv, Next
    PROVE  \/ \E p \in Procs : LockAction(p)
           \/ UNCHANGED <<lock, faults, cmd, pc>>
<1> USE DEF IInv, TypeOK
<1>1. CASE WindowPasses
  BY <1>1 DEF WindowPasses, locals, counts
<1>2. ASSUME NEW p \in Procs, WorkerOutput(p) PROVE UNCHANGED <<lock, faults, cmd, pc>>
  BY <1>2 DEF WorkerOutput, locals, counts
<1>3. ASSUME NEW p \in Procs, WriteOwnerFails(p) PROVE LockAction(p)
  <2>1. HoldsLock(p)
    BY <1>3 DEF WriteOwnerFails, ControlOK, Control, LockedPlaces, HoldsLock
  <2> QED BY <1>3, <2>1, FinishMoves DEF WriteOwnerFails, Abandons, LockAction
<1>4. ASSUME NEW p \in Procs, Kill(p) PROVE LockAction(p)
  BY <1>4, FinishMoves DEF Kill, Abandons, Dies, LockAction
<1>5. ASSUME NEW p \in Procs, Step(p) PROVE LockAction(p)
  BY <1>5, UserStepOutside, UpdateStepOutside, RunStepLock DEF Step, LockAction
<1>6. ASSUME NEW p \in Procs, NEW op \in Ops, Start(p, op) PROVE LockAction(p)
  BY <1>6, StartOutside DEF LockAction
<1> QED BY <1>1, <1>2, <1>3, <1>4, <1>5, <1>6 DEF Next

LEMMA LockOwnershipStep == IInv /\ LockOwnership /\ [Next]_vars => LockOwnership'
<1> SUFFICES ASSUME IInv, LockOwnership, [Next]_vars PROVE LockOwnership'
  OBVIOUS
<1>1. CASE UNCHANGED <<lock, faults, cmd, pc>>
  BY <1>1 DEF LockOwnership, HoldsLock
<1>2. ASSUME NEW p \in Procs, LockAction(p) PROVE LockOwnership'
  <2>1. faults \in Nat /\ lock \in Procs \cup {Free, Abandoned}
    BY DEF IInv, TypeOK, FilesOK, CountsOK
  <2>2. \A q \in Procs \ {p} : HoldsLock(q)' <=> HoldsLock(q)
    BY <1>2 DEF LockAction, Outside, Takes, Leaves, Abandons, Dies, OthersStay, HoldsLock
  <2>3. CASE Outside(p)
    BY <2>2, <2>3 DEF Outside, LockOwnership
  <2>4. CASE Takes(p)
    BY <2>2, <2>4 DEF Takes, LockOwnership
  <2>5. CASE Leaves(p)
    BY <2>2, <2>5 DEF Leaves, LockOwnership
  <2>6. CASE Abandons(p)
    BY <2>1, <2>2, <2>6 DEF Abandons, LockOwnership
  <2>7. CASE Dies(p)
    BY <2>1, <2>2, <2>7 DEF Dies, LockOwnership
  <2> QED BY <1>2, <2>3, <2>4, <2>5, <2>6, <2>7 DEF LockAction
<1> QED BY <1>1, <1>2, NextLock DEF vars

LEMMA InitLockOwnership == Init => LockOwnership
BY DEF Init, LockOwnership, HoldsLock

(* The lock directory belongs to exactly the run inside withTaskLock; one
   that belongs to nobody was left by a killed or failed command. *)
THEOREM LockOwned == Spec => []LockOwnership
<1> QED BY InitIInv, NextIInv, InitLockOwnership, LockOwnershipStep, PTL DEF Spec

(* Two runs of one task are never both inside its lock, for any number of
   terminals, crashes and other commands. *)
THEOREM MutualExclusion == Spec => []OneRunAtATime
<1>1. LockOwnership => OneRunAtATime
  BY DEF LockOwnership, OneRunAtATime
<1> QED BY <1>1, LockOwned, PTL

LEMMA LockStepImplements == IInv /\ LockOwnership /\ [Next]_vars => [Lock!Next]_lock
<1> SUFFICES ASSUME IInv, LockOwnership, [Next]_vars PROVE [Lock!Next]_lock
  OBVIOUS
<1>1. ASSUME NEW p \in Procs, LockAction(p) PROVE [Lock!Next]_lock
  BY <1>1 DEF LockAction, Outside, Takes, Leaves, Abandons, Dies, LockOwnership,
     Lock!Next, Lock!Acquire, Lock!Release, Lock!Abandon
<1> QED BY <1>1, NextLock DEF vars

(* The commands together use the lock as core/locks.ts promises it: they
   implement the abstract lock. *)
THEOREM ImplementsLock == Spec => LockSpec
<1>1. Init => Lock!Init
  BY DEF Init, Lock!Init
<1> QED BY <1>1, InitIInv, NextIInv, InitLockOwnership, LockOwnershipStep, LockStepImplements, PTL
     DEF Spec, LockSpec, Lock!Spec

(***************************************************************************)
(* Acceptance.                                                             *)
(***************************************************************************)
\* A saved verdict, and an accept under way, stand for a run that passed.
AcceptInv ==
    /\ AcceptedWasValidated
    /\ validation.verdict = "passed" => validation.run \in passed
    /\ \A p \in Procs : upd[p].status = "accepted" => upd[p].run \in passed

\* What a step of p other than those two does to what AcceptInv speaks of.
StateKept == stateFile' = stateFile \/ stateFile'.status # "accepted"
UpdKept(p) ==
    \/ UNCHANGED upd
    \/ /\ \A q \in Procs \ {p} : upd'[q] = upd[q]
       /\ \/ upd'[p].status # "accepted"
          \/ validation.verdict = "passed" /\ upd'[p].run = validation.run

LEMMA AcceptKept ==
    ASSUME AcceptInv, NEW p \in Procs, StateKept, UpdKept(p), UNCHANGED <<validation, passed>>
    PROVE  AcceptInv'
BY DEF AcceptInv, AcceptedWasValidated, StateKept, UpdKept

LEMMA FinishUpd ==
    ASSUME LocalsOK, NEW p \in Procs, Finish(p)
    PROVE  UpdKept(p)
BY DEF LocalsOK, Finish, UpdKept, NoUpdate

LEMMA UpdateUpd ==
    ASSUME LocalsOK, NEW p \in Procs, NEW status, NEW w, NEW run, NEW queued, NEW next,
           Update(p, status, w, run, queued, next), status # "accepted"
    PROVE  UpdKept(p)
BY DEF LocalsOK, Update, UpdKept

LEMMA AcceptStep == IInv /\ AcceptInv /\ [Next]_vars => AcceptInv'
<1> SUFFICES ASSUME IInv, AcceptInv, [Next]_vars PROVE AcceptInv'
  OBVIOUS
<1> USE DEF IInv, TypeOK
<1>1. CASE UNCHANGED vars
  BY <1>1 DEF vars, AcceptInv, AcceptedWasValidated
<1>2. CASE WindowPasses
  BY <1>2 DEF WindowPasses, AcceptInv, AcceptedWasValidated, FilesOK, StateFiles, locals, counts
<1>3. ASSUME NEW p \in Procs, NEW op \in Ops, Start(p, op) PROVE AcceptInv'
  BY <1>3, AcceptKept DEF Start, StateKept, UpdKept, files
<1>4. ASSUME NEW p \in Procs, WorkerOutput(p) \/ WriteOwnerFails(p) \/ Kill(p) PROVE AcceptInv'
  BY <1>4, AcceptKept, FinishUpd
     DEF WorkerOutput, WriteOwnerFails, Kill, StateKept, UpdKept, locals, counts
<1>5. ASSUME NEW p \in Procs, UpdateWrite(p) PROVE AcceptInv'
  <2>1. \/ stateFile'.status = upd[p].status /\ stateFile'.run = upd[p].run
        \/ stateFile'.status = "created"
    BY <1>5 DEF UpdateWrite, Unreadable
  <2> QED BY <1>5, <2>1 DEF UpdateWrite, AcceptInv, AcceptedWasValidated
<1>6. ASSUME NEW p \in Procs, UpdateStep(p), ~UpdateWrite(p) PROVE AcceptInv'
  BY <1>6, AcceptKept, FinishUpd DEF UpdateStep, UpdateRead, UpdateOpen, QueueUpdate, QueueThrows,
     Return, Throw, Unreadable, StateKept, UpdKept, files, counts
<1>7. ASSUME NEW p \in Procs, WriteVerdict(p) PROVE AcceptInv'
  <2>1. UpdKept(p) /\ stateFile' = stateFile
    BY <1>7, UpdateUpd DEF WriteVerdict
  <2>2. passed \subseteq passed' /\ (validation'.verdict = "passed" => validation'.run \in passed')
    <3>1. \/ /\ validation' = [verdict |-> "passed", run |-> ctx[p].run]
             /\ passed' = passed \cup {ctx[p].run}
          \/ /\ validation' = [verdict |-> "failed", run |-> ctx[p].run]
             /\ passed' = passed
      BY <1>7 DEF WriteVerdict
    <3> QED BY <3>1
  <2> QED BY <2>1, <2>2 DEF AcceptInv, AcceptedWasValidated, UpdKept
<1>8. ASSUME NEW p \in Procs, Accept(p) PROVE AcceptInv'
  <2>1. UpdKept(p)
    <3>1. CASE JudgeApproves /\ Update(p, "accepted", Keep, validation.run, TRUE, "done")
      BY <3>1 DEF JudgeApproves, Update, UpdKept, LocalsOK
    <3> QED BY <1>8, <3>1, FinishUpd DEF Accept
  <2> QED BY <1>8, <2>1, AcceptKept DEF Accept, StateKept, files, counts
<1>9. ASSUME NEW p \in Procs, RecoverTask(p) PROVE AcceptInv'
  <2>1. \A w \in Workers : RestoredStatus(w) # "accepted"
    BY DEF RestoredStatus, FilesOK, ArtifactSets
  <2>2. UpdKept(p)
    BY <1>9, <2>1, FinishUpd, UpdateUpd DEF RecoverTask, RecoverStale
  <2> QED BY <1>9, <2>2, AcceptKept DEF RecoverTask, StateKept, files, counts
<1>10. ASSUME NEW p \in Procs, Overwrite(p) PROVE AcceptInv'
  <2>1. Imposed[cmd[p]] # "accepted"
    BY <1>10 DEF Overwrite, Imposed, ControlOK, Control
  <2> QED BY <1>10, <2>1, AcceptKept, FinishUpd, UpdateUpd DEF Overwrite, StateKept, files, counts
<1>11. ASSUME NEW p \in Procs, UserStep(p),
              ~WriteVerdict(p), ~Accept(p), ~RecoverTask(p), ~Overwrite(p)
       PROVE  AcceptInv'
  BY <1>11, AcceptKept, FinishUpd, UpdateUpd DEF UserStep, Refuse, Pause, Resume, ReadForValidation,
     RunValidators, Review, ReadForRecovery, StateKept, UpdKept, files, counts
<1>12. ASSUME NEW p \in Procs, RunStep(p) PROVE AcceptInv'
  <2>1. ctx[p].outcome # "accepted"
    BY DEF LocalsOK, Contexts
  <2>2. UpdKept(p)
    BY <1>12, <2>1, FinishUpd, UpdateUpd DEF RunStep, AcquireTaskLock, LockedOut, WriteOwner,
       CheckPaused, ChooseRoute, CheckCapable, MakeWorkerDir, PrepareWorker, Launch, WorkerExit,
       CollectDiff, FinishHeartbeat, FinishResult, FinishDiff, ReleaseLock, Throw, UpdKept
  <2>3. UNCHANGED <<stateFile, validation, passed>>
    BY <1>12 DEF RunStep, AcquireTaskLock, WriteOwner, CheckPaused, ChooseRoute, CheckCapable,
       MakeWorkerDir, PrepareWorker, Launch, WorkerExit, CollectDiff, FinishHeartbeat,
       FinishResult, FinishDiff, ReleaseLock, files, counts
  <2> QED BY <2>2, <2>3, AcceptKept DEF StateKept
<1> QED BY <1>1, <1>2, <1>3, <1>4, <1>5, <1>6, <1>7, <1>8, <1>9, <1>10, <1>11, <1>12
     DEF Next, Step

(* However commands interleave and are killed, a task that says accepted
   was accepted on the verdict of a validation that passed. *)
THEOREM AcceptanceIsValidated == Spec => []AcceptedWasValidated
<1>1. Init => AcceptInv
  BY DEF Init, AcceptInv, AcceptedWasValidated, NoUpdate
<1>2. AcceptInv => AcceptedWasValidated
  BY DEF AcceptInv
<1> QED BY <1>1, <1>2, InitIInv, NextIInv, AcceptStep, PTL DEF Spec

(***************************************************************************)
(* Worker directories.                                                     *)
(***************************************************************************)
\* While the worker works, its heartbeat says so.
WorkInv == \A p \in Procs : pc[p] = "work" => worker[ctx[p].worker].heartbeat = "running"

\* A step of p that leaves every directory as it is.
Elsewhere(p) ==
    /\ UNCHANGED worker
    /\ \E l \in Places \ {"work"} : Goto(p, l)
    /\ \A q \in Procs \ {p} : ctx'[q] = ctx[q]

LEMMA UserStepElsewhere ==
    ASSUME IInv, NEW p \in Procs, UserStep(p)
    PROVE  Elsewhere(p)
<1>1. UNCHANGED worker
  BY DEF UserStep, Refuse, Pause, Resume, Overwrite, ReadForValidation, RunValidators,
     WriteVerdict, Review, Accept, ReadForRecovery, RecoverTask, files
<1>2. \E l \in Places \ {"work"} : Goto(p, l)
  BY DEF UserStep, Refuse, Pause, Resume, Overwrite, ReadForValidation, RunValidators,
     WriteVerdict, Review, Accept, ReadForRecovery, RecoverTask, RecoverStale, Update, Finish, Goto, Places
<1>3. \A q \in Procs \ {p} : ctx'[q] = ctx[q]
  BY DEF UserStep, Refuse, Pause, Resume, Overwrite, ReadForValidation, RunValidators,
     WriteVerdict, Review, Accept, ReadForRecovery, RecoverTask, RecoverStale, Finish,
     IInv, TypeOK, LocalsOK
<1> QED BY <1>1, <1>2, <1>3 DEF Elsewhere

LEMMA UpdateStepElsewhere ==
    ASSUME IInv, NEW p \in Procs, UpdateStep(p)
    PROVE  Elsewhere(p)
<1>1. UNCHANGED worker
  BY DEF UpdateStep, UpdateRead, UpdateOpen, UpdateWrite, QueueUpdate, QueueThrows, Return, files
<1>2. \E l \in Places \ {"work"} : Goto(p, l)
  <2>1. pc[p] \in UpdatePlaces => upd[p].next \in Places \ {"work"}
    BY DEF IInv, ControlOK, Control, Places
  <2> QED BY <2>1 DEF UpdateStep, UpdateRead, UpdateOpen, UpdateWrite, QueueUpdate, QueueThrows, Return,
          Throw, Finish, Goto, Places, UpdatePlaces
<1>3. \A q \in Procs \ {p} : ctx'[q] = ctx[q]
  BY DEF UpdateStep, UpdateRead, UpdateOpen, UpdateWrite, QueueUpdate, QueueThrows, Return,
     Throw, Finish, IInv, TypeOK, LocalsOK
<1> QED BY <1>1, <1>2, <1>3 DEF Elsewhere

LEMMA OtherStepElsewhere ==
    ASSUME IInv, NEW p \in Procs,
           \/ \E op \in Ops : Start(p, op)
           \/ WriteOwnerFails(p) \/ Kill(p)
           \/ AcquireTaskLock(p) \/ WriteOwner(p) \/ CheckPaused(p) \/ ChooseRoute(p)
           \/ CheckCapable(p) \/ PrepareWorker(p) \/ CollectDiff(p) \/ ReleaseLock(p)
    PROVE  Elsewhere(p)
<1>1. UNCHANGED worker
  BY DEF Start, WriteOwnerFails, Kill, AcquireTaskLock, WriteOwner, CheckPaused, ChooseRoute,
     CheckCapable, PrepareWorker, CollectDiff, ReleaseLock, files
<1>2. \E l \in Places \ {"work"} : Goto(p, l)
  BY DEF Start, EntryPoint, WriteOwnerFails, Kill, AcquireTaskLock, LockedOut, WriteOwner, CheckPaused,
     ChooseRoute, CheckCapable, PrepareWorker, CollectDiff, ReleaseLock, Throw, Update, Finish, Goto, Places
<1>3. \A q \in Procs \ {p} : ctx'[q] = ctx[q]
  BY DEF Start, WriteOwnerFails, Kill, AcquireTaskLock, LockedOut, WriteOwner, CheckPaused, ChooseRoute,
     CheckCapable, PrepareWorker, CollectDiff, ReleaseLock, Throw, Finish, IInv, TypeOK, LocalsOK
<1> QED BY <1>1, <1>2, <1>3 DEF Elsewhere

\* The steps that write into a directory.
Writes(p) == MakeWorkerDir(p) \/ Launch(p) \/ WorkerExit(p) \/ FinishHeartbeat(p)
             \/ FinishResult(p) \/ FinishDiff(p)

LEMMA WriteStep ==
    ASSUME IInv, LockOwnership, NEW p \in Procs, Writes(p)
    PROVE  /\ lock = p /\ pc'[p] # pc[p]
           /\ \A q \in Procs \ {p} : pc'[q] # "work"
           /\ pc'[p] = "work" => worker'[ctx'[p].worker].heartbeat = "running"
<1>1. pc[p] \in {"workspace", "launch", "work", "finish_heartbeat", "finish_result", "finish_diff"}
  <2>1. \/ pc[p] = "workspace" \/ pc[p] = "launch" \/ pc[p] = "work"
        \/ pc[p] = "finish_heartbeat" \/ pc[p] = "finish_result" \/ pc[p] = "finish_diff"
    BY Zenon DEF Writes, MakeWorkerDir, Launch, WorkerExit, FinishHeartbeat, FinishResult, FinishDiff
  <2> QED BY <2>1
<1>2. cmd[p] = "run" /\ ctx[p].worker \in Workers
  BY <1>1 DEF IInv, ControlOK, Control, WorkerPlaces, LockedPlaces
<1>3. HoldsLock(p) /\ lock = p
  BY <1>1, <1>2 DEF HoldsLock, LockOwnership, WorkerPlaces
<1>4. pc \in [Procs -> Places] /\ worker \in [Workers -> ArtifactSets] /\ ctx \in [Procs -> Contexts]
  BY DEF IInv, TypeOK, FilesOK, LocalsOK
<1>5. \E l \in Places : Goto(p, l) /\ l # pc[p] /\ (l = "work" => Heartbeat(p, "running") /\ UNCHANGED ctx)
  BY DEF Writes, MakeWorkerDir, Launch, WorkerExit, FinishHeartbeat, FinishResult, FinishDiff,
     Throw, Update, Places
<1>6. \A q \in Procs \ {p} : pc[q] # "work"
  <2> SUFFICES ASSUME NEW q \in Procs \ {p}, pc[q] = "work" PROVE FALSE
    OBVIOUS
  <2>1. cmd[q] = "run"
    BY DEF IInv, ControlOK, Control, LockedPlaces
  <2> QED BY <1>3, <2>1 DEF HoldsLock, LockOwnership
<1>7. Heartbeat(p, "running") /\ UNCHANGED ctx => worker'[ctx'[p].worker].heartbeat = "running"
  BY <1>2, <1>4 DEF Heartbeat, ArtifactSets
<1> QED BY <1>3, <1>4, <1>5, <1>6, <1>7 DEF Goto

LEMMA SameButForTime ==
    ASSUME NEW a \in ArtifactSets, a.heartbeat = "running", NEW b,
           b = [[a EXCEPT !.heartbeat = "running"] EXCEPT !.fresh = TRUE]
    PROVE  b.heartbeat = a.heartbeat /\ [b EXCEPT !.fresh = FALSE] = [a EXCEPT !.fresh = FALSE]
BY DEF ArtifactSets

LEMMA OutputStep ==
    ASSUME IInv, WorkInv, NEW p \in Procs, WorkerOutput(p)
    PROVE  /\ UNCHANGED <<pc, ctx>>
           /\ \A w \in Workers : worker'[w].heartbeat = worker[w].heartbeat /\ Artifacts(w)' = Artifacts(w)
<1> DEFINE v == ctx[p].worker
<1>1. pc[p] = "work" /\ UNCHANGED <<pc, ctx>> /\ Heartbeat(p, "running")
  BY DEF WorkerOutput, locals
<1>2. v \in Workers /\ worker[v].heartbeat = "running"
  BY <1>1 DEF IInv, ControlOK, Control, WorkerPlaces, WorkInv
<1>3. worker \in [Workers -> ArtifactSets]
  BY DEF IInv, TypeOK, FilesOK
<1>4. \A w \in Workers \ {v} : worker'[w] = worker[w]
  BY <1>1, <1>2, <1>3 DEF Heartbeat
<1>5. worker'[v] = [[worker[v] EXCEPT !.heartbeat = "running"] EXCEPT !.fresh = TRUE]
  BY <1>1, <1>2, <1>3 DEF Heartbeat
<1>6. worker[v] \in ArtifactSets
  BY <1>2, <1>3
<1>7. worker'[v].heartbeat = worker[v].heartbeat
      /\ [worker'[v] EXCEPT !.fresh = FALSE] = [worker[v] EXCEPT !.fresh = FALSE]
  BY <1>2, <1>5, <1>6, SameButForTime
<1> QED BY <1>1, <1>4, <1>7 DEF Artifacts

LEMMA WindowStep ==
    ASSUME IInv, WindowPasses
    PROVE  /\ UNCHANGED <<pc, ctx>>
           /\ \A w \in Workers : worker'[w].heartbeat = worker[w].heartbeat /\ Artifacts(w)' = Artifacts(w)
<1>1. worker \in [Workers -> ArtifactSets]
  BY DEF IInv, TypeOK, FilesOK
<1>2. \A w \in Workers : worker'[w] = [worker[w] EXCEPT !.fresh = FALSE]
  BY DEF WindowPasses
<1> QED BY <1>1, <1>2 DEF WindowPasses, locals, Artifacts, ArtifactSets

LEMMA ArtifactStep ==
    IInv /\ LockOwnership /\ WorkInv /\ [Next]_vars =>
        /\ WorkInv'
        /\ \A w \in Workers : Artifacts(w)' # Artifacts(w) => \E p \in Procs : lock = p /\ pc'[p] # pc[p]
<1> SUFFICES ASSUME IInv, LockOwnership, WorkInv, [Next]_vars
             PROVE  /\ WorkInv'
                    /\ \A w \in Workers : Artifacts(w)' # Artifacts(w) =>
                           \E p \in Procs : lock = p /\ pc'[p] # pc[p]
  OBVIOUS
<1>a. \A p \in Procs : pc[p] = "work" => ctx[p].worker \in Workers
  BY DEF IInv, ControlOK, Control, WorkerPlaces
<1>b. pc \in [Procs -> Places]
  BY DEF IInv, TypeOK, LocalsOK
<1>1. ASSUME NEW p \in Procs, Elsewhere(p)
      PROVE  WorkInv' /\ \A w \in Workers : Artifacts(w)' = Artifacts(w)
  BY <1>1, <1>b DEF Elsewhere, WorkInv, Goto, Artifacts
<1>2. ASSUME NEW p \in Procs, Writes(p)
      PROVE  WorkInv' /\ lock = p /\ pc'[p] # pc[p]
  BY <1>2, WriteStep DEF WorkInv
<1>3. ASSUME NEW p \in Procs, WorkerOutput(p)
      PROVE  WorkInv' /\ \A w \in Workers : Artifacts(w)' = Artifacts(w)
  BY <1>3, <1>a, OutputStep DEF WorkInv
<1>4. CASE WindowPasses
  BY <1>4, <1>a, WindowStep DEF WorkInv
<1>5. CASE UNCHANGED vars
  BY <1>5 DEF vars, files, locals, WorkInv, Artifacts
<1>6. ASSUME NEW p \in Procs, RunStep(p) PROVE Elsewhere(p) \/ Writes(p)
  BY <1>6, OtherStepElsewhere DEF RunStep, Writes
<1>7. ASSUME Next PROVE WindowPasses \/ \E p \in Procs : Elsewhere(p) \/ Writes(p) \/ WorkerOutput(p)
  BY <1>6, <1>7, UserStepElsewhere, UpdateStepElsewhere, OtherStepElsewhere DEF Next, Step
<1> QED BY <1>1, <1>2, <1>3, <1>4, <1>5, <1>7

(* runExternalProvider and the manual provider: a worker directory changes, apart from
   the passing of time, only by a step of the run that owns the task's lock. *)
THEOREM OneWriter == Spec => ArtifactsHaveOneWriter
<1>1. Init => WorkInv
  BY DEF Init, WorkInv
<1>2. IInv /\ LockOwnership /\ WorkInv /\ [Next]_vars =>
          [\A w \in Workers : Artifacts(w)' # Artifacts(w) => \E p \in Procs : lock = p /\ pc'[p] # pc[p]]_vars
  BY ArtifactStep
<1> QED BY <1>1, <1>2, InitIInv, NextIInv, InitLockOwnership, LockOwnershipStep, ArtifactStep, PTL
     DEF Spec, ArtifactsHaveOneWriter
-----------------------------------------------------------------------------
\* A directory is made before anything names it or is written into it.
MadePlaces == WorkerPlaces \ {"capable", "workspace"}

MadeFor(p) ==
    /\ kept[p] # NoWorker => worker[kept[p]].made
    /\ upd[p].worker \in Workers => worker[upd[p].worker].made
    /\ pc[p] \in MadePlaces => worker[ctx[p].worker].made
    /\ pc[p] \in UpdatePlaces /\ upd[p].next = "launch" => worker[ctx[p].worker].made

HasArtifacts(w) == worker[w].heartbeat # "none" \/ worker[w].result # "none"
StateMade == stateFile.worker # NoWorker => worker[stateFile.worker].made

MadeInv ==
    /\ StateMade
    /\ \A p \in Procs : MadeFor(p)
    /\ \A w \in Workers : HasArtifacts(w) => worker[w].made

\* What a step of p does to the other processes and to the directories.
OthersKept(p) == \A q \in Procs \ {p} :
    kept'[q] = kept[q] /\ upd'[q] = upd[q] /\ pc'[q] = pc[q] /\ ctx'[q] = ctx[q]
DirsKept == \A w \in Workers :
    /\ worker[w].made => worker'[w].made
    /\ HasArtifacts(w)' => worker'[w].made

LEMMA MadeStep ==
    ASSUME IInv, MadeInv, NEW p \in Procs, OthersKept(p), DirsKept, StateMade', MadeFor(p)'
    PROVE  MadeInv'
<1>1. \A q \in Procs : /\ kept[q] \in Workers \cup {NoWorker}
                       /\ pc[q] \in MadePlaces => ctx[q].worker \in Workers
                       /\ pc[q] \in UpdatePlaces /\ upd[q].next = "launch" => ctx[q].worker \in Workers
  BY DEF IInv, TypeOK, LocalsOK, ControlOK, Control, MadePlaces, WorkerPlaces
<1>2. ASSUME NEW q \in Procs \ {p} PROVE MadeFor(q)'
  BY <1>1, <1>2 DEF MadeInv, MadeFor, OthersKept, DirsKept
<1> QED BY <1>2 DEF MadeInv, DirsKept

\* When the directories stay as they are, only p's locals and the state matter.
LEMMA MadeElsewhere ==
    ASSUME IInv, MadeInv, NEW p \in Procs, OthersKept(p), UNCHANGED worker,
           stateFile'.worker \in {NoWorker, stateFile.worker}, MadeFor(p)'
    PROVE  MadeInv'
<1>1. DirsKept
  BY DEF DirsKept, MadeInv, HasArtifacts
<1>2. StateMade'
  BY DEF MadeInv, StateMade
<1> QED BY <1>1, <1>2, MadeStep

LEMMA FinishMade ==
    ASSUME IInv, NEW p \in Procs, Finish(p)
    PROVE  OthersKept(p) /\ MadeFor(p)'
<1>1. /\ kept'[p] = NoWorker /\ upd'[p] = NoUpdate /\ pc'[p] = "idle"
      /\ OthersKept(p)
  BY DEF Finish, OthersKept, IInv, TypeOK, LocalsOK
<1>2. NoUpdate.worker \notin Workers
  BY DEF NoUpdate
<1> QED BY <1>1, <1>2 DEF MadeFor, MadePlaces, WorkerPlaces, UpdatePlaces

LEMMA GotoMade ==
    ASSUME IInv, MadeInv, NEW p \in Procs, NEW l \in Places, Goto(p, l), UNCHANGED <<worker, upd, kept>>,
           \A q \in Procs \ {p} : ctx'[q] = ctx[q],
           ctx'[p].worker = ctx[p].worker \/ l \notin MadePlaces,
           l \in MadePlaces => pc[p] \in MadePlaces \/ (pc[p] \in UpdatePlaces /\ upd[p].next = "launch" /\ l = "launch"),
           l \in UpdatePlaces => pc[p] \in UpdatePlaces /\ UNCHANGED ctx
    PROVE  OthersKept(p) /\ MadeFor(p)'
<1>1. OthersKept(p) /\ pc'[p] = l
  BY DEF Goto, OthersKept, IInv, TypeOK, LocalsOK
<1>2. MadeFor(p)
  BY DEF MadeInv
<1>3. l \in UpdatePlaces => l \notin MadePlaces
  BY DEF UpdatePlaces, MadePlaces, WorkerPlaces
<1> QED BY <1>1, <1>2, <1>3 DEF MadeFor

LEMMA UpdateMade ==
    ASSUME IInv, MadeInv, NEW p \in Procs, NEW status, NEW w, NEW run, NEW queued, NEW next,
           Update(p, status, w, run, queued, next), UNCHANGED <<worker, kept>>,
           \A q \in Procs \ {p} : ctx'[q] = ctx[q],
           w \in Workers => worker[w].made,
           next = "launch" => worker[ctx[p].worker].made /\ UNCHANGED ctx
    PROVE  OthersKept(p) /\ MadeFor(p)'
<1>1. OthersKept(p) /\ pc'[p] = "u_read" /\ upd'[p].worker = w /\ upd'[p].next = next
  BY DEF Update, Goto, OthersKept, IInv, TypeOK, LocalsOK
<1>2. MadeFor(p)
  BY DEF MadeInv
<1> QED BY <1>1, <1>2 DEF MadeFor, MadePlaces, WorkerPlaces

LEMMA UpdateStepMade ==
    ASSUME IInv, MadeInv, NEW p \in Procs, UpdateStep(p)
    PROVE  MadeInv'
<1>a. MadeFor(p) /\ StateMade /\ DirsKept
  <2>1. UNCHANGED worker
    BY DEF UpdateStep, UpdateRead, UpdateOpen, UpdateWrite, QueueUpdate, QueueThrows, Return, files
  <2> QED BY <2>1 DEF MadeInv, DirsKept, HasArtifacts
<1>b. /\ pc \in [Procs -> Places] /\ kept \in [Procs -> MaybeWorker]
      /\ upd[p].worker \in MaybeWorker \cup {Keep} /\ stateFile.worker \in MaybeWorker
      /\ pc[p] \in UpdatePlaces => upd[p].next \in {"capable", "launch", "release", "done"}
  BY DEF IInv, TypeOK, FilesOK, StateFiles, LocalsOK, Updates, ControlOK, Control
<1>1. CASE UpdateRead(p)
  <2>1. kept'[p] = stateFile.worker /\ pc'[p] = "u_open" /\ pc[p] = "u_read"
        /\ UNCHANGED <<stateFile, worker, upd, ctx>> /\ OthersKept(p)
    BY <1>1, <1>b DEF UpdateRead, Goto, files, OthersKept
  <2>2. MadeFor(p)'
    BY <1>a, <2>1 DEF MadeFor, StateMade, MadePlaces, WorkerPlaces, UpdatePlaces
  <2> QED BY <2>1, <2>2, MadeElsewhere
<1>2. CASE UpdateOpen(p)
  <2>1. stateFile'.worker = NoWorker /\ UNCHANGED worker
    BY <1>2 DEF UpdateOpen, Unreadable
  <2>2. OthersKept(p) /\ MadeFor(p)'
    BY <1>2, GotoMade DEF UpdateOpen, UpdatePlaces, MadePlaces, WorkerPlaces, Places
  <2> QED BY <2>1, <2>2, MadeElsewhere
<1>3. CASE UpdateWrite(p)
  <2>1. stateFile'.worker \in {NoWorker, Merged(p)} /\ UNCHANGED worker
    BY <1>3 DEF UpdateWrite, Unreadable
  <2>2. Merged(p) # NoWorker => worker[Merged(p)].made
    BY <1>a, <1>b DEF Merged, MadeFor
  <2>3. StateMade'
    BY <2>1, <2>2 DEF StateMade
  <2>4. pc[p] = "u_write" /\ UNCHANGED <<worker, upd, kept, ctx>>
        /\ \E l \in {"queue", upd[p].next} : Goto(p, l)
    BY <1>3 DEF UpdateWrite
  <2>5. OthersKept(p) /\ MadeFor(p)'
    BY <1>b, <2>4, GotoMade DEF UpdatePlaces, MadePlaces, WorkerPlaces, Places
  <2> QED BY <1>a, <2>3, <2>5, MadeStep
<1>4. CASE QueueUpdate(p)
  <2>1. pc[p] = "queue" /\ UNCHANGED <<stateFile, worker, upd, kept, ctx>> /\ Goto(p, upd[p].next)
    BY <1>4 DEF QueueUpdate
  <2>2. OthersKept(p) /\ MadeFor(p)'
    BY <1>b, <2>1, GotoMade DEF UpdatePlaces, MadePlaces, WorkerPlaces, Places
  <2> QED BY <2>1, <2>2, MadeElsewhere
<1>5. CASE QueueThrows(p) \/ Return(p)
  <2>1. UNCHANGED <<stateFile, worker>>
    BY <1>5 DEF QueueThrows, Return, files
  <2>2. Finish(p) \/ (Goto(p, "release") /\ UNCHANGED <<upd, kept, ctx>>)
    BY <1>5 DEF QueueThrows, Return, Throw
  <2>3. OthersKept(p) /\ MadeFor(p)'
    BY <2>1, <2>2, FinishMade, GotoMade DEF UpdatePlaces, MadePlaces, WorkerPlaces, Places
  <2> QED BY <2>1, <2>3, MadeElsewhere
<1> QED BY <1>1, <1>2, <1>3, <1>4, <1>5 DEF UpdateStep

LEMMA UserStepMade ==
    ASSUME IInv, MadeInv, NEW p \in Procs, UserStep(p)
    PROVE  MadeInv'
<1>1. UNCHANGED <<stateFile, worker>>
  BY DEF UserStep, Refuse, Pause, Resume, Overwrite, ReadForValidation, RunValidators,
     WriteVerdict, Review, Accept, ReadForRecovery, RecoverTask, files
<1>2. CASE Finish(p)
  BY <1>1, <1>2, FinishMade, MadeElsewhere
<1>3. CASE /\ UNCHANGED <<upd, kept>> /\ \A q \in Procs \ {p} : ctx'[q] = ctx[q]
           /\ \E l \in {"validators", "verdict", "reconcile"} : Goto(p, l)
  <2>1. OthersKept(p) /\ MadeFor(p)'
    BY <1>1, <1>3, GotoMade DEF UpdatePlaces, MadePlaces, WorkerPlaces, Places
  <2> QED BY <1>1, <2>1, MadeElsewhere
<1>4. CASE /\ UNCHANGED <<kept, ctx>>
           /\ \E status \in Statuses, w \in {Keep, NoWorker} \cup {v \in Workers : HasArtifacts(v)}, run \in Nat :
                  Update(p, status, w, run, TRUE, "done")
  <2>1. \A w \in Workers : HasArtifacts(w) => worker[w].made
    BY DEF MadeInv
  <2>2. OthersKept(p) /\ MadeFor(p)'
    <3>1. PICK status \in Statuses, w \in {Keep, NoWorker} \cup {v \in Workers : HasArtifacts(v)}, run \in Nat :
              Update(p, status, w, run, TRUE, "done")
      BY <1>4
    <3>2. w \in Workers => worker[w].made
      BY <2>1
    <3>3. UNCHANGED <<worker, kept, ctx>>
      BY <1>1, <1>4
    <3> QED BY <3>1, <3>2, <3>3, UpdateMade
  <2> QED BY <1>1, <2>2, MadeElsewhere
<1>a. /\ ctx \in [Procs -> Contexts] /\ stateFile.worker \in MaybeWorker /\ validation.run \in Nat
      /\ \A w \in Workers : worker[w] \in ArtifactSets
  BY DEF IInv, TypeOK, FilesOK, LocalsOK, StateFiles, Verdicts
<1>b. ctx[p] \in Contexts
  BY <1>a
<1>5. Refuse(p) => Finish(p)
  BY DEF Refuse
<1>6. ASSUME Pause(p) \/ Resume(p) PROVE MadeInv'
  BY <1>4, <1>6 DEF Pause, Resume, Statuses
<1>7. ASSUME Overwrite(p) PROVE MadeInv'
  <2>1. cmd[p] \in {"cancel", "reject", "rollback", "dry_run"}
    BY <1>7 DEF Overwrite, IInv, ControlOK, Control
  <2>2. Imposed[cmd[p]] \in Statuses
    BY <2>1 DEF Imposed, Statuses
  <2> QED BY <1>2, <1>4, <1>7, <2>2 DEF Overwrite
<1>8. ASSUME ReadForValidation(p) \/ RunValidators(p) \/ ReadForRecovery(p) PROVE MadeInv'
  <2>1. \A q \in Procs \ {p} : ctx'[q] = ctx[q]
    BY <1>8, <1>a DEF ReadForValidation, RunValidators, ReadForRecovery
  <2> QED BY <1>3, <1>8, <2>1 DEF ReadForValidation, RunValidators, ReadForRecovery
<1>9. ASSUME WriteVerdict(p) PROVE MadeInv'
  <2>1. ctx[p].run \in Nat
    BY <1>b DEF Contexts
  <2>2. /\ UNCHANGED <<kept, ctx>>
        /\ \E status \in {"validated", "failed"} : Update(p, status, Keep, ctx[p].run, TRUE, "done")
    BY <1>9 DEF WriteVerdict
  <2> QED BY <1>4, <2>1, <2>2 DEF Statuses
<1>10. ASSUME Review(p) PROVE MadeInv'
  <2>1. worker[stateFile.worker].diffRun \in Nat
    BY <1>10, <1>a DEF Review, Admits, ArtifactSets
  <2> QED BY <1>4, <1>10, <2>1 DEF Review, Statuses
<1>11. ASSUME Accept(p) PROVE MadeInv'
  BY <1>2, <1>4, <1>11, <1>a DEF Accept, Statuses
<1>12. ASSUME RecoverTask(p) PROVE MadeInv'
  <2>1. \A w \in Workers : IsRecoveryWorker(w, ctx[p].worker) => HasArtifacts(w)
    BY DEF IsRecoveryWorker, RecoveryWorkers, HasArtifacts
  <2>2. \A w \in Workers : worker[w].result # "none" =>
            RestoredStatus(w) \in Statuses /\ worker[w].resultRun \in Nat
    BY <1>a DEF RestoredStatus, ArtifactSets, Statuses
  <2>3. \/ Finish(p)
        \/ RecoverStale(p, Keep)
        \/ \E w \in Workers : IsRecoveryWorker(w, ctx[p].worker) /\ RecoverStale(p, w)
        \/ \E w \in Workers : /\ IsRecoveryWorker(w, ctx[p].worker) /\ worker[w].result # "none"
                              /\ Update(p, RestoredStatus(w), w, worker[w].resultRun, TRUE, "done")
                              /\ UNCHANGED <<cmd, kept, ctx>>
    BY <1>12 DEF RecoverTask
  <2>4. "stale" \in Statuses /\ 0 \in Nat
    BY DEF Statuses
  <2> QED BY <1>2, <1>4, <2>1, <2>2, <2>3, <2>4 DEF RecoverStale
<1> QED BY <1>2, <1>5, <1>6, <1>7, <1>8, <1>9, <1>10, <1>11, <1>12 DEF UserStep

LEMMA OwnWrite ==
    ASSUME IInv, MadeInv, NEW w \in Workers, worker[w].made,
           NEW a \in ArtifactSets, a.made, worker' = [worker EXCEPT ![w] = a]
    PROVE  DirsKept
BY DEF IInv, TypeOK, FilesOK, MadeInv, DirsKept, HasArtifacts

LEMMA ArtifactUpdates ==
    ASSUME NEW a \in ArtifactSets, a.made, NEW run \in Nat, NEW s \in {"completed", "failed"},
           NEW d \in {"bad", "good", "gated"}, NEW n \in {"none", "good", "gated"}, NEW h \in {"running", "exited", "finished"}
    PROVE  /\ [a EXCEPT !.heartbeat = h, !.fresh = TRUE] \in ArtifactSets
           /\ [a EXCEPT !.heartbeat = h, !.fresh = TRUE].made
           /\ [a EXCEPT !.result = s, !.resultRun = run, !.named = n] \in ArtifactSets
           /\ [a EXCEPT !.result = s, !.resultRun = run, !.named = n].made
           /\ [a EXCEPT !.diff = d, !.diffRun = run] \in ArtifactSets
           /\ [a EXCEPT !.diff = d, !.diffRun = run].made
BY DEF ArtifactSets

LEMMA RunStepMade ==
    ASSUME IInv, MadeInv, NEW p \in Procs, RunStep(p)
    PROVE  MadeInv'
<1> DEFINE v == ctx[p].worker
<1>a. /\ ctx \in [Procs -> Contexts] /\ ctx[p] \in Contexts /\ worker \in [Workers -> ArtifactSets]
      /\ pc[p] \in WorkerPlaces => v \in Workers
  BY DEF IInv, TypeOK, FilesOK, LocalsOK, ControlOK, Control
<1>b. pc[p] \in MadePlaces => v \in Workers /\ worker[v].made /\ worker[v] \in ArtifactSets
  BY <1>a DEF MadeInv, MadeFor, MadePlaces
<1>c. MadeInv => StateMade
  BY DEF MadeInv
<1>1. CASE /\ UNCHANGED <<stateFile, worker>>
           /\ \/ Finish(p)
              \/ UNCHANGED <<upd, kept, ctx>> /\ \E l \in {"owner", "check", "route", "workspace", "release"} : Goto(p, l)
  <2>1. OthersKept(p) /\ MadeFor(p)'
    BY <1>1, FinishMade, GotoMade DEF UpdatePlaces, MadePlaces, WorkerPlaces, Places
  <2> QED BY <1>1, <2>1, MadeElsewhere
<1>2. ASSUME AcquireTaskLock(p) \/ WriteOwner(p) \/ CheckPaused(p) \/ ReleaseLock(p) PROVE MadeInv'
  BY <1>1, <1>2 DEF AcquireTaskLock, LockedOut, WriteOwner, CheckPaused, Throw, ReleaseLock, files
<1>3. ASSUME ChooseRoute(p) PROVE MadeInv'
  <2>1. CASE Throw(p)
    BY <1>1, <1>3, <2>1 DEF ChooseRoute, Throw, files
  <2>2. CASE \E w \in Workers : /\ ctx' = [ctx EXCEPT ![p].worker = w, ![p].run = runs + 1]
                                /\ Update(p, "running", Keep, runs + 1, TRUE, "capable")
                                /\ UNCHANGED <<cmd, kept>>
    <3>1. UNCHANGED <<stateFile, worker>> /\ \A q \in Procs \ {p} : ctx'[q] = ctx[q]
      BY <1>3, <1>a, <2>2 DEF ChooseRoute, files
    <3>2. Keep \notin Workers
      OBVIOUS
    <3>3. UNCHANGED <<worker, kept>> /\ Update(p, "running", Keep, runs + 1, TRUE, "capable")
      BY <2>2, <3>1
    <3>4. OthersKept(p) /\ MadeFor(p)'
      BY <3>1, <3>2, <3>3, UpdateMade
    <3> QED BY <3>1, <3>4, MadeElsewhere
  <2> QED BY <1>3, <2>1, <2>2 DEF ChooseRoute
<1>4. ASSUME CheckCapable(p) PROVE MadeInv'
  <2>1. UNCHANGED <<stateFile, worker, kept, ctx>>
    BY <1>4 DEF CheckCapable, files
  <2>2. CASE Goto(p, "workspace") /\ UNCHANGED upd
    BY <1>1, <2>1, <2>2
  <2>3. CASE Update(p, "failed", Keep, ctx[p].run, TRUE, "release")
    <3>1. Keep \notin Workers
      OBVIOUS
    <3>2. OthersKept(p) /\ MadeFor(p)'
      BY <2>1, <2>3, <3>1, UpdateMade
    <3> QED BY <2>1, <3>2, MadeElsewhere
  <2> QED BY <1>4, <2>2, <2>3 DEF CheckCapable
<1>5. ASSUME MakeWorkerDir(p) PROVE MadeInv'
  <2>1. pc[p] = "workspace" /\ v \in Workers /\ worker[v] \in ArtifactSets
        /\ UNCHANGED <<stateFile, upd, kept, ctx>> /\ Goto(p, "prepare")
    BY <1>5, <1>a DEF MakeWorkerDir, WorkerPlaces
  <2>2. worker'[v].made /\ DirsKept
    <3>1. worker' = [worker EXCEPT ![v] = [worker[v] EXCEPT !.made = TRUE]]
      BY <1>5, <1>a DEF MakeWorkerDir
    <3>2. \A w \in Workers : w # v => worker'[w] = worker[w]
      BY <3>1, <1>a
    <3>3. worker'[v].made
      BY <2>1, <3>1, <1>a DEF ArtifactSets
    <3> QED BY <3>2, <3>3 DEF DirsKept, MadeInv, HasArtifacts
  <2>3. OthersKept(p) /\ pc'[p] = "prepare"
    BY <2>1 DEF Goto, OthersKept, IInv, TypeOK, LocalsOK
  <2>4. MadeFor(p)'
    <3>1. kept[p] \in MaybeWorker
      BY DEF IInv, TypeOK, LocalsOK
    <3> QED BY <2>1, <2>2, <2>3, <3>1 DEF MadeInv, MadeFor, DirsKept, UpdatePlaces
  <2>5. StateMade'
    <3>1. stateFile.worker \in MaybeWorker
      BY DEF IInv, TypeOK, FilesOK, StateFiles
    <3> QED BY <1>c, <2>1, <2>2, <3>1 DEF StateMade, DirsKept
  <2> QED BY <2>2, <2>3, <2>4, <2>5, MadeStep
<1>6. ASSUME PrepareWorker(p) PROVE MadeInv'
  <2>1. UNCHANGED <<stateFile, worker>> /\ pc[p] = "prepare"
    BY <1>6 DEF PrepareWorker, files
  <2>2. CASE Throw(p)
    BY <1>1, <2>1, <2>2 DEF Throw
  <2>3. CASE /\ ctx' = [ctx EXCEPT ![p].outcome = "completed", ![p].named = "none",
                                ![p].diff = "bad"]
             /\ Goto(p, "finish_heartbeat") /\ UNCHANGED <<cmd, upd, kept>>
    <3>1. ctx'[p].worker = ctx[p].worker /\ \A q \in Procs \ {p} : ctx'[q] = ctx[q]
      BY <1>a, <2>3 DEF Contexts
    <3>2. OthersKept(p) /\ MadeFor(p)'
      BY <2>1, <2>3, <3>1, GotoMade DEF UpdatePlaces, MadePlaces, WorkerPlaces, Places
    <3> QED BY <2>1, <3>2, MadeElsewhere
  <2>4. CASE Update(p, "running", v, ctx[p].run, FALSE, "launch") /\ UNCHANGED <<cmd, kept, ctx>>
    <3>1. worker[v].made
      BY <1>b, <2>1 DEF MadePlaces, WorkerPlaces
    <3>2. OthersKept(p) /\ MadeFor(p)'
      BY <2>1, <2>4, <3>1, UpdateMade
    <3> QED BY <2>1, <3>2, MadeElsewhere
  <2> QED BY <1>6, <2>2, <2>3, <2>4 DEF PrepareWorker
<1>7. ASSUME CollectDiff(p) PROVE MadeInv'
  <2>1. UNCHANGED <<stateFile, worker>> /\ pc[p] = "collect"
    BY <1>7 DEF CollectDiff, files
  <2>2. CASE Throw(p)
    BY <1>1, <2>1, <2>2 DEF Throw
  <2>3. CASE /\ \E outcome \in {"completed", "failed"}, changes \in Captures :
                    ctx' = [ctx EXCEPT ![p].outcome = outcome, ![p].named = changes[1],
                                       ![p].diff = changes[2]]
             /\ Goto(p, "finish_heartbeat") /\ UNCHANGED <<cmd, upd, kept>>
    <3>1. ctx'[p].worker = ctx[p].worker /\ \A q \in Procs \ {p} : ctx'[q] = ctx[q]
      BY <1>a, <2>3 DEF Contexts
    <3>2. OthersKept(p) /\ MadeFor(p)'
      BY <2>1, <2>3, <3>1, GotoMade DEF UpdatePlaces, MadePlaces, WorkerPlaces, Places
    <3> QED BY <2>1, <3>2, MadeElsewhere
  <2> QED BY <1>7, <2>2, <2>3 DEF CollectDiff
<1>8. ASSUME Launch(p) \/ WorkerExit(p) \/ FinishHeartbeat(p) \/ FinishResult(p) \/ FinishDiff(p) PROVE MadeInv'
  <2>1. pc[p] \in MadePlaces /\ UNCHANGED <<stateFile, kept, ctx>>
    BY <1>8 DEF Launch, WorkerExit, FinishHeartbeat, FinishResult, FinishDiff, Throw, MadePlaces, WorkerPlaces
  <2>2. v \in Workers /\ worker[v].made /\ worker[v] \in ArtifactSets /\ ctx[p] \in Contexts
    BY <1>a, <1>b, <2>1
  <2>3. UNCHANGED worker \/ \E a \in ArtifactSets : a.made /\ worker' = [worker EXCEPT ![v] = a]
    <3>1. CASE \E status \in {"running", "exited", "finished"} : Heartbeat(p, status)
      <4>1. PICK status \in {"running", "exited", "finished"} : Heartbeat(p, status)
        BY <3>1
      <4>2. worker' = [worker EXCEPT ![v] = [worker[v] EXCEPT !.heartbeat = status, !.fresh = TRUE]]
        BY <4>1, <1>a DEF Heartbeat
      <4> QED BY <2>2, <4>2, ArtifactUpdates
    <3>2. CASE FinishResult(p)
      <4>1. worker' = [worker EXCEPT ![v] = [worker[v] EXCEPT !.result = ctx[p].outcome, !.resultRun = ctx[p].run,
                                      !.named = ctx[p].named]]
        BY <3>2, <1>a DEF FinishResult
      <4> QED BY <2>2, <4>1, ArtifactUpdates DEF Contexts
    <3>3. CASE FinishDiff(p)
      <4>1. worker' = [worker EXCEPT ![v] = [worker[v] EXCEPT !.diff = ctx[p].diff, !.diffRun = ctx[p].run]]
        BY <3>3, <1>a DEF FinishDiff
      <4> QED BY <2>2, <4>1, ArtifactUpdates DEF Contexts
    <3> QED BY <1>8, <3>1, <3>2, <3>3 DEF Launch, WorkerExit, FinishHeartbeat
  <2>4. DirsKept
    <3>1. CASE UNCHANGED worker
      BY <3>1 DEF DirsKept, MadeInv, HasArtifacts
    <3> QED BY <2>2, <2>3, <3>1, OwnWrite
  <2>5. \/ UNCHANGED upd /\ \E l \in Places \ UpdatePlaces : Goto(p, l)
        \/ Update(p, ctx[p].outcome, v, ctx[p].run, TRUE, "release")
    BY <1>8 DEF Launch, WorkerExit, FinishHeartbeat, FinishResult, FinishDiff, Throw, Places, UpdatePlaces
  <2>6. OthersKept(p) /\ \/ UNCHANGED upd /\ pc'[p] \notin UpdatePlaces
                         \/ pc'[p] = "u_read" /\ upd'[p].worker = v /\ upd'[p].next = "release"
    BY <2>1, <2>5 DEF Goto, Update, OthersKept, IInv, TypeOK, LocalsOK
  <2>7. MadeFor(p)'
    <3>1. kept[p] \in MaybeWorker
      BY DEF IInv, TypeOK, LocalsOK
    <3>2. MadeFor(p) /\ worker'[v].made
      BY <2>2, <2>4 DEF MadeInv, DirsKept
    <3> QED BY <2>1, <2>4, <2>6, <3>1, <3>2 DEF MadeFor, DirsKept, MadePlaces, WorkerPlaces
  <2>8. StateMade'
    <3>1. stateFile.worker \in MaybeWorker
      BY DEF IInv, TypeOK, FilesOK, StateFiles
    <3> QED BY <1>c, <2>1, <2>4, <3>1 DEF StateMade, DirsKept
  <2> QED BY <2>4, <2>6, <2>7, <2>8, MadeStep
<1> QED BY <1>2, <1>3, <1>4, <1>5, <1>6, <1>7, <1>8 DEF RunStep

LEMMA EnvironmentMade ==
    ASSUME IInv, MadeInv, NEW p \in Procs,
           (\E op \in Ops : Start(p, op)) \/ WriteOwnerFails(p) \/ Kill(p)
    PROVE  MadeInv'
<1>1. CASE WriteOwnerFails(p) \/ Kill(p)
  <2>1. UNCHANGED <<stateFile, worker>> /\ Finish(p)
    BY <1>1 DEF WriteOwnerFails, Kill
  <2> QED BY <2>1, FinishMade, MadeElsewhere
<1>2. CASE \E op \in Ops : Start(p, op)
  <2>1. UNCHANGED <<stateFile, worker, upd, kept, ctx>>
        /\ \E l \in {"lock", "read", "judge", "write"} : Goto(p, l)
    BY <1>2 DEF Start, EntryPoint, files
  <2>2. OthersKept(p) /\ MadeFor(p)'
    BY <2>1, GotoMade DEF UpdatePlaces, MadePlaces, WorkerPlaces, Places
  <2> QED BY <2>1, <2>2, MadeElsewhere
<1> QED BY <1>1, <1>2

LEMMA NextMade == IInv /\ WorkInv /\ MadeInv /\ [Next]_vars => MadeInv'
<1> SUFFICES ASSUME IInv, WorkInv, MadeInv, [Next]_vars PROVE MadeInv'
  OBVIOUS
<1>a. worker \in [Workers -> ArtifactSets] /\ stateFile \in StateFiles /\ kept \in [Procs -> MaybeWorker]
      /\ \A p \in Procs : /\ pc[p] \in MadePlaces => ctx[p].worker \in Workers
                          /\ pc[p] \in UpdatePlaces /\ upd[p].next = "launch" => ctx[p].worker \in Workers
  BY DEF IInv, TypeOK, FilesOK, LocalsOK, ControlOK, Control, MadePlaces, WorkerPlaces
<1>1. ASSUME \A w \in Workers : /\ worker'[w].made = worker[w].made /\ HasArtifacts(w)' = HasArtifacts(w),
             stateFile'.worker = stateFile.worker, UNCHANGED <<upd, kept, pc, ctx>>
      PROVE  MadeInv'
  <2>1. StateMade'
    BY <1>1, <1>a DEF MadeInv, StateMade, StateFiles
  <2>2. \A p \in Procs : MadeFor(p)'
    BY <1>1, <1>a DEF MadeInv, MadeFor
  <2> QED BY <1>1, <2>1, <2>2 DEF MadeInv
<1>2. CASE WindowPasses
  <2>1. \A w \in Workers : worker'[w] = [worker[w] EXCEPT !.fresh = FALSE]
    BY <1>2 DEF WindowPasses
  <2>2. \A w \in Workers : worker'[w].made = worker[w].made /\ HasArtifacts(w)' = HasArtifacts(w)
    <3> SUFFICES ASSUME NEW w \in Workers
                 PROVE  worker'[w].made = worker[w].made /\ HasArtifacts(w)' = HasArtifacts(w)
      OBVIOUS
    <3>1. worker'[w].made = worker[w].made /\ worker'[w].heartbeat = worker[w].heartbeat
          /\ worker'[w].result = worker[w].result
      <4>1. worker[w] \in ArtifactSets /\ worker'[w] = [worker[w] EXCEPT !.fresh = FALSE]
        BY <1>a, <2>1
      <4> QED BY ONLY <4>1 DEF ArtifactSets
    <3> QED BY <3>1 DEF HasArtifacts
  <2>3. stateFile'.worker = stateFile.worker /\ UNCHANGED <<upd, kept, pc, ctx>>
    BY <1>2, <1>a DEF WindowPasses, StateFiles, locals
  <2> QED BY <1>1, <2>2, <2>3
<1>3. ASSUME NEW p \in Procs, WorkerOutput(p) PROVE MadeInv'
  <2> DEFINE v == ctx[p].worker
  <2>1. pc[p] = "work" /\ UNCHANGED <<stateFile, upd, kept, pc, ctx>> /\ Heartbeat(p, "running")
    BY <1>3 DEF WorkerOutput, locals
  <2>2. v \in Workers /\ worker[v].heartbeat = "running" /\ worker[v] \in ArtifactSets
    BY <1>a, <2>1 DEF WorkInv, MadePlaces, WorkerPlaces
  <2>3. worker' = [worker EXCEPT ![v] = [worker[v] EXCEPT !.heartbeat = "running", !.fresh = TRUE]]
    BY <1>a, <2>1 DEF Heartbeat
  <2>4. \A w \in Workers : w # v => worker'[w] = worker[w]
    BY <1>a, <2>3
  <2>5. worker'[v].made = worker[v].made /\ worker'[v].heartbeat = "running"
    BY <1>a, <2>2, <2>3 DEF ArtifactSets
  <2>6. \A w \in Workers : worker'[w].made = worker[w].made /\ HasArtifacts(w)' = HasArtifacts(w)
    BY <2>2, <2>4, <2>5 DEF HasArtifacts
  <2> QED BY <1>1, <2>1, <2>6
<1>4. CASE UNCHANGED vars
  BY <1>1, <1>4 DEF vars, HasArtifacts
<1> QED BY <1>2, <1>3, <1>4, UpdateStepMade, UserStepMade, RunStepMade, EnvironmentMade DEF Next, Step

(* createWorkerWorkspace comes before worker_prepared: a workerId in state.json, or in a
   copy of it that an updateState call will write back, names a directory that exists. *)
THEOREM WorkerDirsExist == Spec => []WorkerDirExists
<1>1. Init => MadeInv /\ WorkInv
  <2>1. \A w \in Workers : ~HasArtifacts(w) \/ ~Init
    BY DEF Init, HasArtifacts, NoArtifacts
  <2>2. NoUpdate.worker \notin Workers
    BY DEF NoUpdate
  <2> QED BY <2>1, <2>2 DEF Init, MadeInv, StateMade, MadeFor, MadePlaces, WorkerPlaces, UpdatePlaces, WorkInv
<1>2. MadeInv => WorkerDirExists
  BY DEF MadeInv, StateMade, MadeFor, WorkerDirExists
<1> QED BY <1>1, <1>2, InitIInv, NextIInv, InitLockOwnership, LockOwnershipStep, ArtifactStep, NextMade, PTL
     DEF Spec
=============================================================================
