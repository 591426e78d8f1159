------------------------- MODULE OneTerminal_proofs -------------------------
(***************************************************************************)
(* Theorems about TaskLifecycle for a task that one terminal works on: its *)
(* commands follow each other, any number of them, and any of them may be  *)
(* killed between two accesses to the files.                               *)
(***************************************************************************)
EXTENDS TaskLifecycle_proofs

(***************************************************************************)
(* The state file and the call of the process p, when p is alone.          *)
(***************************************************************************)
\* Worker w's result is a success of that run.
Backed(w, run) == w \in Workers /\ worker[w].result = "completed" /\ worker[w].resultRun = run

\* The saved verdict is a pass of what worker w holds now.
Sound(w) ==
    /\ w \in Workers /\ ValidatorsPass(w)
    /\ worker[w].diffRun = validation.run /\ validation.verdict = "passed"

CallPlaces == {"u_read", "u_open", "u_write"}

StateSound ==
    /\ stateFile.status = "completed" => Backed(stateFile.worker, stateFile.run)
    /\ stateFile.status = "validated" => Sound(stateFile.worker)

\* What updateState is about to write is as sound, and a run says nothing but running.
CallSound(p) == pc[p] \in CallPlaces =>
    /\ upd[p].status = "completed" => Backed(upd[p].worker, upd[p].run)
    /\ upd[p].status = "validated" =>
          upd[p].worker = Keep /\ Sound(IF pc[p] = "u_read" THEN stateFile.worker ELSE kept[p])
    /\ upd[p].next \in WorkerPlaces => upd[p].status = "running"

PlaceSound(p) ==
    /\ pc[p] \in WorkerPlaces => stateFile.status = "running"
    /\ pc[p] = "u_write" => stateFile.form = "empty"
    /\ pc[p] = "queue" => /\ stateFile.status = upd[p].status
                          /\ upd[p].next \in WorkerPlaces => upd[p].status = "running"
    /\ pc[p] \in {"validators", "verdict"} => ctx[p].worker = stateFile.worker
    /\ pc[p] = "verdict" =>
          /\ ctx[p].worker \in Workers
          /\ ctx[p].outcome = IF ValidatorsPass(ctx[p].worker) THEN "completed" ELSE "failed"
          /\ ctx[p].run = worker[ctx[p].worker].diffRun
    /\ pc[p] = "finish_diff" =>
          worker[ctx[p].worker].result = ctx[p].outcome /\ worker[ctx[p].worker].resultRun = ctx[p].run

AloneInv(p) == StateSound /\ CallSound(p) /\ PlaceSound(p)

(***************************************************************************)
(* The queue follows the state file as long as nothing was killed.         *)
(***************************************************************************)
QueueInv(p) == faults = 0 =>
    /\ pc[p] \notin UpdatePlaces => queueStatus = stateFile.status
    /\ pc[p] \in CallPlaces /\ ~upd[p].queued => queueStatus = upd[p].status

(***************************************************************************)
(* A pause that was written is still in the state file, or nothing is.     *)
(***************************************************************************)
PauseOps   == {"run", "pause", "resume", "recover"}
HoldPlaces == CallPlaces \cup WorkerPlaces \cup {"queue", "route", "reconcile"}
HoldInv(p) ==
    /\ hold => stateFile.form # "json" \/ stateFile.status = "paused"
    /\ pc[p] \in HoldPlaces /\ cmd[p] \in {"run", "recover"} => ~hold
    /\ pc[p] \in CallPlaces /\ cmd[p] = "pause" => upd[p].status = "paused"
    /\ cmd[p] \in PauseOps \cup {"none"}
    /\ pc[p] \notin {"validators", "verdict"} /\ (pc[p] = "reconcile" => cmd[p] = "recover")

USE ConstantsAssumption DEF Workers, NoWorker, Keep, MaybeWorker

LEMMA SameFiles ==
    ASSUME UNCHANGED <<worker, validation>>
    PROVE  /\ \A w, run : Backed(w, run)' = Backed(w, run)
           /\ \A w : Sound(w)' = Sound(w)
BY DEF Backed, Sound, ValidatorsPass, JudgedFiles

(***************************************************************************)
(* The three ways of moving that most actions have: the command ends, goes *)
(* on to a place of its own, or calls updateState.                         *)
(***************************************************************************)
LEMMA FinishAlone ==
    ASSUME IInv, NEW p \in Procs, AloneInv(p), Finish(p), UNCHANGED <<stateFile, worker, validation>>
    PROVE  AloneInv(p)'
<1>1. pc'[p] = "idle"
  BY DEF Finish, IInv, TypeOK, LocalsOK
<1>2. StateSound'
  BY SameFiles DEF AloneInv, StateSound
<1> QED BY <1>1, <1>2 DEF AloneInv, CallSound, PlaceSound, CallPlaces, WorkerPlaces

LEMMA GotoAlone ==
    ASSUME IInv, NEW p \in Procs, AloneInv(p), NEW l, Goto(p, l),
           UNCHANGED <<stateFile, worker, validation>>,
           l \notin UpdatePlaces \cup {"validators", "verdict", "finish_diff"},
           l \in WorkerPlaces => stateFile.status = "running"
    PROVE  AloneInv(p)'
<1>1. pc'[p] = l
  BY DEF Goto, IInv, TypeOK, LocalsOK
<1>2. StateSound'
  BY SameFiles DEF AloneInv, StateSound
<1> QED BY <1>1, <1>2 DEF AloneInv, CallSound, PlaceSound, CallPlaces, UpdatePlaces

LEMMA UpdateAlone ==
    ASSUME IInv, NEW p \in Procs, AloneInv(p),
           NEW status, NEW w, NEW run, NEW queued, NEW next,
           Update(p, status, w, run, queued, next), UNCHANGED <<stateFile, worker, validation>>,
           status = "completed" => Backed(w, run),
           status = "validated" => w = Keep /\ Sound(stateFile.worker),
           next \in WorkerPlaces => status = "running"
    PROVE  AloneInv(p)'
<1>1. pc'[p] = "u_read"
  BY DEF Update, Goto, IInv, TypeOK, LocalsOK
<1>2. upd'[p] = [status |-> status, worker |-> w, run |-> run, queued |-> queued, next |-> next]
  BY DEF Update, IInv, TypeOK, LocalsOK
<1>3. StateSound'
  BY SameFiles DEF AloneInv, StateSound
<1>4. CallSound(p)'
  BY <1>1, <1>2, SameFiles DEF CallSound
<1> QED BY <1>1, <1>3, <1>4 DEF AloneInv, PlaceSound, WorkerPlaces

(***************************************************************************)
(* updateState and the queue.                                              *)
(***************************************************************************)
LEMMA UpdateStepAlone ==
    ASSUME IInv, NEW p \in Procs, AloneInv(p), UpdateStep(p)
    PROVE  AloneInv(p)'
<1>a. /\ stateFile \in StateFiles /\ pc \in [Procs -> Places]
      /\ upd[p] \in Updates /\ kept \in [Procs -> MaybeWorker]
  BY DEF IInv, TypeOK, FilesOK, LocalsOK
<1>1. CASE UpdateRead(p)
  <2>1. /\ pc[p] = "u_read" /\ pc'[p] = "u_open" /\ kept'[p] = stateFile.worker
        /\ UNCHANGED <<stateFile, worker, validation, upd>>
    BY <1>1, <1>a DEF UpdateRead, Goto, files
  <2>2. StateSound'
    BY <2>1, SameFiles DEF AloneInv, StateSound
  <2>3. CallSound(p)'
    BY <2>1, SameFiles DEF AloneInv, CallSound, CallPlaces
  <2> QED BY <2>1, <2>2, <2>3 DEF AloneInv, PlaceSound, WorkerPlaces
<1>2. CASE UpdateOpen(p)
  <2>1. /\ pc[p] = "u_open" /\ pc'[p] = "u_write" /\ stateFile' = Unreadable("empty")
        /\ UNCHANGED <<worker, validation, upd, kept>>
    BY <1>2, <1>a DEF UpdateOpen, Goto
  <2>2. stateFile'.form = "empty" /\ stateFile'.status = "created"
    BY <2>1 DEF Unreadable
  <2>3. CallSound(p)'
    BY <2>1, SameFiles DEF AloneInv, CallSound, CallPlaces
  <2> QED BY <2>1, <2>2, <2>3 DEF AloneInv, StateSound, PlaceSound, WorkerPlaces
<1>3. CASE UpdateWrite(p)
  <2>1. /\ pc[p] = "u_write" /\ pc'[p] = IF upd[p].queued THEN "queue" ELSE upd[p].next
        /\ UNCHANGED <<worker, validation, upd, kept>>
    BY <1>3, <1>a DEF UpdateWrite, Goto
  <2>2. stateFile'.status = upd[p].status /\ stateFile'.worker = Merged(p) /\ stateFile'.run = upd[p].run
    BY <1>3, <2>1 DEF UpdateWrite, AloneInv, PlaceSound
  <2>3. upd[p].next \in {"done", "capable", "launch", "release"}
    BY <2>1 DEF IInv, ControlOK, Control, UpdatePlaces
  <2>4. CallSound(p)
    BY DEF AloneInv
  <2>5. StateSound'
    <3>1. ASSUME upd[p].status = "completed" PROVE Backed(stateFile.worker, stateFile.run)'
      <4>1. Backed(upd[p].worker, upd[p].run) /\ upd[p].worker # Keep
        BY <2>1, <2>4, <3>1 DEF CallSound, CallPlaces, Backed
      <4> QED BY <2>1, <2>2, <4>1 DEF Merged, Backed
    <3>2. ASSUME upd[p].status = "validated" PROVE Sound(stateFile.worker)'
      <4>1. Sound(kept[p]) /\ upd[p].worker = Keep
        BY <2>1, <2>4, <3>2 DEF CallSound, CallPlaces
      <4> QED BY <2>1, <2>2, <4>1 DEF Merged, Sound, ValidatorsPass, JudgedFiles
    <3> QED BY <2>2, <3>1, <3>2 DEF StateSound
  <2>6. upd[p].next \in WorkerPlaces => upd[p].status = "running"
    BY <2>1, <2>4 DEF CallSound, CallPlaces
  <2> QED BY <2>1, <2>2, <2>3, <2>5, <2>6 DEF AloneInv, CallSound, PlaceSound, CallPlaces, WorkerPlaces
<1>4. CASE QueueUpdate(p)
  <2>1. pc[p] = "queue" /\ Goto(p, upd[p].next) /\ UNCHANGED <<stateFile, worker, validation>>
    BY <1>4 DEF QueueUpdate
  <2>2. upd[p].next \in {"done", "capable", "launch", "release"}
    BY <2>1 DEF IInv, ControlOK, Control, UpdatePlaces
  <2>3. upd[p].next \in WorkerPlaces => stateFile.status = "running"
    BY <2>1 DEF AloneInv, PlaceSound
  <2> QED BY <2>1, <2>2, <2>3, GotoAlone DEF UpdatePlaces
<1>5. CASE QueueThrows(p) \/ Return(p)
  <2>1. (Finish(p) \/ Goto(p, "release")) /\ UNCHANGED <<stateFile, worker, validation>>
    BY <1>5 DEF QueueThrows, Return, Throw, files
  <2> QED BY <2>1, FinishAlone, GotoAlone DEF UpdatePlaces, WorkerPlaces
<1> QED BY <1>1, <1>2, <1>3, <1>4, <1>5 DEF UpdateStep

(***************************************************************************)
(* The commands that do not take the lock.                                 *)
(***************************************************************************)
LEMMA UserStepAlone ==
    ASSUME IInv, NEW p \in Procs, AloneInv(p), UserStep(p)
    PROVE  AloneInv(p)'
<1>a. /\ stateFile \in StateFiles /\ pc \in [Procs -> Places]
      /\ ctx \in [Procs -> Contexts] /\ ctx[p] \in Contexts
  BY DEF IInv, TypeOK, FilesOK, LocalsOK
<1>b. "done" \notin WorkerPlaces
  BY DEF WorkerPlaces
\* A call with a status that claims nothing.
<1>c. ASSUME NEW status \in Statuses \ {"completed", "validated"}, NEW w, NEW run,
             Update(p, status, w, run, TRUE, "done"), UNCHANGED <<stateFile, worker, validation>>
      PROVE  AloneInv(p)'
  BY <1>b, <1>c, UpdateAlone
<1>1. CASE Refuse(p)
  BY <1>1, FinishAlone DEF Refuse, files
<1>2. CASE Pause(p) \/ Resume(p) \/ Review(p)
  <2>1. UNCHANGED <<stateFile, worker, validation>>
    BY <1>2 DEF Pause, Resume, Review, files
  <2> QED BY <1>2, <1>c, <2>1 DEF Pause, Resume, Review, Statuses
<1>3. CASE Overwrite(p)
  <2>1. UNCHANGED <<stateFile, worker, validation>>
    BY <1>3 DEF Overwrite, files
  <2>2. Imposed[cmd[p]] \in Statuses \ {"completed", "validated"}
    BY <1>3 DEF Overwrite, Imposed, Statuses, IInv, ControlOK, Control
  <2> QED BY <1>3, <1>c, <2>1, <2>2, FinishAlone DEF Overwrite
<1>4. CASE ReadForValidation(p)
  <2>1. /\ pc'[p] = "validators" /\ ctx'[p].worker = stateFile.worker
        /\ UNCHANGED <<stateFile, worker, validation>>
    BY <1>4, <1>a DEF ReadForValidation, Goto, files, Contexts
  <2>2. StateSound'
    BY <2>1, SameFiles DEF AloneInv, StateSound
  <2> QED BY <2>1, <2>2 DEF AloneInv, CallSound, PlaceSound, CallPlaces, WorkerPlaces
<1>5. CASE RunValidators(p)
  <2> DEFINE w == stateFile.worker
  <2>1. /\ pc[p] = "validators" /\ pc'[p] = "verdict" /\ UNCHANGED <<stateFile, worker, validation>>
    BY <1>5, <1>a DEF RunValidators, Goto, files
  <2>2. ctx[p].worker = w /\ w \in Workers
    BY <2>1 DEF AloneInv, PlaceSound, IInv, ControlOK, Control
  <2>3. /\ ctx'[p].worker = w /\ ctx'[p].run = worker[w].diffRun
        /\ ctx'[p].outcome = IF ValidatorsPass(w) THEN "completed" ELSE "failed"
    BY <1>5, <1>a, <2>2 DEF RunValidators, Contexts
  <2>4. StateSound'
    BY <2>1, SameFiles DEF AloneInv, StateSound
  <2>5. PlaceSound(p)'
    BY <2>1, <2>2, <2>3 DEF PlaceSound, WorkerPlaces, ValidatorsPass, JudgedFiles
  <2> QED BY <2>1, <2>4, <2>5 DEF AloneInv, CallSound, CallPlaces
<1>6. CASE WriteVerdict(p)
  <2> DEFINE w == stateFile.worker
  <2>1. /\ pc[p] = "verdict" /\ pc'[p] = "u_read" /\ UNCHANGED <<stateFile, worker>>
    BY <1>6, <1>a DEF WriteVerdict, Update, Goto
  <2>2. /\ w \in Workers /\ ctx[p].run = worker[w].diffRun
        /\ ctx[p].outcome = IF ValidatorsPass(w) THEN "completed" ELSE "failed"
    BY <2>1 DEF AloneInv, PlaceSound
  <2>3. CASE ValidatorsPass(w)
    <3>1. /\ validation' = [verdict |-> "passed", run |-> ctx[p].run]
          /\ Update(p, "validated", Keep, ctx[p].run, TRUE, "done")
      BY <1>6, <2>2, <2>3 DEF WriteVerdict
    <3>2. Sound(stateFile.worker)'
      BY <2>1, <2>2, <2>3, <3>1 DEF Sound, ValidatorsPass, JudgedFiles
    <3>3. upd'[p].status = "validated" /\ upd'[p].worker = Keep /\ upd'[p].next = "done"
      BY <3>1 DEF Update, IInv, TypeOK, LocalsOK
    <3>4. StateSound'
      BY <2>1, <3>2 DEF AloneInv, StateSound, Backed
    <3>5. CallSound(p)'
      BY <1>b, <2>1, <3>2, <3>3 DEF CallSound
    <3> QED BY <2>1, <3>4, <3>5 DEF AloneInv, PlaceSound, WorkerPlaces
  <2>4. CASE ~ValidatorsPass(w)
    <3>1. Update(p, "failed", Keep, ctx[p].run, TRUE, "done")
      BY <1>6, <2>2, <2>4 DEF WriteVerdict
    <3>2. stateFile.status # "validated"
      BY <2>4 DEF AloneInv, StateSound, Sound
    <3>3. upd'[p].status = "failed" /\ upd'[p].next = "done"
      BY <3>1 DEF Update, IInv, TypeOK, LocalsOK
    <3>4. StateSound'
      BY <2>1, <3>2 DEF AloneInv, StateSound, Backed
    <3>5. CallSound(p)'
      BY <1>b, <3>3 DEF CallSound
    <3> QED BY <2>1, <3>4, <3>5 DEF AloneInv, PlaceSound, WorkerPlaces
  <2> QED BY <2>3, <2>4
<1>7. CASE Accept(p)
  <2>1. UNCHANGED <<stateFile, worker, validation>>
    BY <1>7 DEF Accept, files
  <2> QED BY <1>7, <1>c, <2>1, FinishAlone DEF Accept, Statuses
<1>8. CASE ReadForRecovery(p)
  <2>1. Goto(p, "reconcile") /\ UNCHANGED <<stateFile, worker, validation>>
    BY <1>8 DEF ReadForRecovery, files
  <2> QED BY <2>1, GotoAlone DEF UpdatePlaces, WorkerPlaces
<1>9. CASE RecoverTask(p)
  <2>1. UNCHANGED <<stateFile, worker, validation>>
    BY <1>9 DEF RecoverTask, files
  <2>2. \A w : RecoverStale(p, w) => AloneInv(p)'
    BY <1>c, <2>1 DEF RecoverStale, Statuses
  <2>3. ASSUME NEW w \in Workers, Update(p, RestoredStatus(w), w, worker[w].resultRun, TRUE, "done"),
               worker[w].result # "none"
        PROVE  AloneInv(p)'
    <3>1. RestoredStatus(w) \in {"completed", "failed"}
      BY <2>3 DEF RestoredStatus, IInv, TypeOK, FilesOK, ArtifactSets
    <3>2. RestoredStatus(w) = "completed" => Backed(w, worker[w].resultRun)
      BY DEF RestoredStatus, Backed
    <3> QED BY <1>b, <2>1, <2>3, <3>1, <3>2, UpdateAlone
  <2>4. \/ Finish(p) \/ \E w : RecoverStale(p, w)
        \/ \E w \in Workers : worker[w].result # "none"
              /\ Update(p, RestoredStatus(w), w, worker[w].resultRun, TRUE, "done")
    BY <1>9 DEF RecoverTask
  <2> QED BY <2>1, <2>2, <2>3, <2>4, FinishAlone
<1> QED BY <1>1, <1>2, <1>3, <1>4, <1>5, <1>6, <1>7, <1>8, <1>9 DEF UserStep

(***************************************************************************)
(* run.  While it is at work the state file says running, so that nothing  *)
(* is claimed of the artifacts that it is about to replace.                *)
(***************************************************************************)
\* What a run may do to the directory of its worker before the result counts.
LEMMA ArtifactsAlone ==
    ASSUME IInv, NEW p \in Procs, AloneInv(p), pc[p] \in WorkerPlaces, NEW l, Goto(p, l),
           UNCHANGED stateFile,
           l \in WorkerPlaces \ {"finish_diff"}
    PROVE  AloneInv(p)'
<1>1. pc'[p] = l /\ stateFile.status = "running"
  BY DEF AloneInv, PlaceSound, Goto, IInv, TypeOK, LocalsOK
<1>2. StateSound'
  BY <1>1 DEF StateSound
<1> QED BY <1>1, <1>2 DEF AloneInv, CallSound, PlaceSound, CallPlaces, WorkerPlaces

LEMMA RunStepAlone ==
    ASSUME IInv, NEW p \in Procs, AloneInv(p), RunStep(p)
    PROVE  AloneInv(p)'
<1> DEFINE v == ctx[p].worker
<1>a. /\ pc \in [Procs -> Places] /\ upd \in [Procs -> Updates] /\ ctx[p] \in Contexts
      /\ worker \in [Workers -> ArtifactSets]
      /\ pc[p] \in WorkerPlaces => v \in Workers
  BY DEF IInv, TypeOK, FilesOK, LocalsOK, ControlOK, Control
<1>b. pc[p] \in WorkerPlaces => stateFile.status = "running"
  BY DEF AloneInv, PlaceSound
<1>c. UNCHANGED <<stateFile, worker, validation>> /\ Throw(p) => AloneInv(p)'
  BY GotoAlone DEF Throw, UpdatePlaces, WorkerPlaces
\* A call with a status that claims nothing.
<1>d. ASSUME NEW status \in {"running", "failed"}, NEW w, NEW run, NEW queued, NEW next,
             Update(p, status, w, run, queued, next), UNCHANGED <<stateFile, worker, validation>>,
             next \in WorkerPlaces => status = "running"
      PROVE  AloneInv(p)'
  BY <1>d, UpdateAlone
<1>1. CASE AcquireTaskLock(p) \/ WriteOwner(p) \/ CheckPaused(p) \/ ReleaseLock(p)
  <2>1. /\ UNCHANGED <<stateFile, worker, validation>>
        /\ Finish(p) \/ \E l \in {"owner", "check", "route", "release"} : Goto(p, l)
    BY <1>1 DEF AcquireTaskLock, LockedOut, WriteOwner, CheckPaused, Throw, ReleaseLock, files
  <2> QED BY <2>1, FinishAlone, GotoAlone DEF UpdatePlaces, WorkerPlaces
<1>2. CASE ChooseRoute(p)
  <2>1. UNCHANGED <<stateFile, worker, validation>>
    BY <1>2 DEF ChooseRoute, files
  <2>2. Throw(p) \/ Update(p, "running", Keep, runs + 1, TRUE, "capable")
    BY <1>2 DEF ChooseRoute
  <2> QED BY <1>c, <1>d, <2>1, <2>2
<1>3. CASE CheckCapable(p)
  <2>1. pc[p] = "capable" /\ UNCHANGED <<stateFile, worker, validation>>
    BY <1>3 DEF CheckCapable, files
  <2>2. Goto(p, "workspace") \/ Update(p, "failed", Keep, ctx[p].run, TRUE, "release")
    BY <1>3 DEF CheckCapable
  <2>3. "release" \notin WorkerPlaces /\ pc[p] \in WorkerPlaces
    BY <2>1 DEF WorkerPlaces
  <2>4. CASE Goto(p, "workspace")
    BY <1>b, <2>1, <2>3, <2>4, GotoAlone DEF UpdatePlaces
  <2> QED BY <1>d, <2>1, <2>2, <2>3, <2>4
<1>4. CASE PrepareWorker(p)
  <2>1. pc[p] \in WorkerPlaces /\ UNCHANGED <<stateFile, worker, validation>>
    BY <1>4 DEF PrepareWorker, files, WorkerPlaces
  <2>2. Goto(p, "finish_heartbeat") \/ Update(p, "running", v, ctx[p].run, FALSE, "launch") \/ Throw(p)
    BY <1>4 DEF PrepareWorker
  <2>3. CASE Goto(p, "finish_heartbeat")
    BY <1>b, <2>1, <2>3, GotoAlone DEF UpdatePlaces
  <2> QED BY <1>c, <1>d, <2>1, <2>2, <2>3
<1>5. CASE MakeWorkerDir(p) \/ Launch(p) \/ WorkerExit(p) \/ CollectDiff(p) \/ FinishHeartbeat(p)
  <2>1. pc[p] \in WorkerPlaces /\ UNCHANGED <<stateFile, validation>>
    BY <1>5 DEF MakeWorkerDir, Launch, WorkerExit, CollectDiff, FinishHeartbeat, WorkerPlaces, files
  <2>2. \/ Throw(p) /\ UNCHANGED worker
        \/ \E l \in WorkerPlaces \ {"finish_diff"} : Goto(p, l)
    BY <1>5 DEF MakeWorkerDir, Launch, WorkerExit, CollectDiff, FinishHeartbeat, WorkerPlaces, files
  <2> QED BY <1>c, <2>1, <2>2, ArtifactsAlone
<1>6. CASE FinishResult(p)
  <2>1. /\ pc[p] = "finish_result" /\ pc'[p] = "finish_diff" /\ UNCHANGED <<stateFile, ctx>>
    BY <1>6, <1>a DEF FinishResult, Goto
  <2>2. stateFile.status = "running" /\ v \in Workers
    BY <1>a, <1>b, <2>1 DEF WorkerPlaces
  <2>3. worker'[v].result = ctx[p].outcome /\ worker'[v].resultRun = ctx[p].run
    <3>1. worker' = [worker EXCEPT ![v] = [worker[v] EXCEPT !.result = ctx[p].outcome, !.resultRun = ctx[p].run,
                                                    !.named = ctx[p].named]]
      BY <1>6, <1>a DEF FinishResult
    <3>2. worker[v] \in ArtifactSets
      BY <1>a, <2>2
    <3> QED BY <1>a, <2>2, <3>1, <3>2 DEF ArtifactSets
  <2>4. StateSound'
    BY <2>1, <2>2 DEF StateSound
  <2> QED BY <2>1, <2>2, <2>3, <2>4 DEF AloneInv, CallSound, PlaceSound, CallPlaces
<1>7. CASE FinishDiff(p)
  <2>1. /\ pc[p] = "finish_diff" /\ pc'[p] = "u_read" /\ UNCHANGED <<stateFile, ctx>>
        /\ Update(p, ctx[p].outcome, v, ctx[p].run, TRUE, "release")
    BY <1>7, <1>a DEF FinishDiff, Update, Goto
  <2>2. stateFile.status = "running" /\ v \in Workers
    BY <1>a, <1>b, <2>1 DEF WorkerPlaces
  <2>3. worker[v].result = ctx[p].outcome /\ worker[v].resultRun = ctx[p].run
    BY <2>1 DEF AloneInv, PlaceSound
  <2>4. worker'[v].result = worker[v].result /\ worker'[v].resultRun = worker[v].resultRun
    <3>1. worker' = [worker EXCEPT ![v] = [worker[v] EXCEPT !.diff = ctx[p].diff, !.diffRun = ctx[p].run]]
      BY <1>7, <1>a DEF FinishDiff
    <3>2. worker[v] \in ArtifactSets
      BY <1>a, <2>2
    <3> QED BY <1>a, <2>2, <3>1, <3>2 DEF ArtifactSets
  <2>5. /\ upd'[p].status = ctx[p].outcome /\ upd'[p].worker = v
        /\ upd'[p].run = ctx[p].run /\ upd'[p].next = "release"
    BY <1>a, <2>1 DEF Update
  <2>6. CallSound(p)'
    <3>1. ctx[p].outcome \in {"completed", "failed"}
      BY <1>a DEF Contexts
    <3>2. ctx[p].outcome = "completed" => Backed(upd[p].worker, upd[p].run)'
      BY <2>2, <2>3, <2>4, <2>5 DEF Backed
    <3> QED BY <2>5, <3>1, <3>2 DEF CallSound, WorkerPlaces
  <2>7. StateSound'
    BY <2>1, <2>2 DEF StateSound
  <2> QED BY <2>1, <2>6, <2>7 DEF AloneInv, PlaceSound, WorkerPlaces
<1> QED BY <1>1, <1>2, <1>3, <1>4, <1>5, <1>6, <1>7 DEF RunStep

(***************************************************************************)
(* Everything else, and the terminal whose steps these are.                *)
(***************************************************************************)
LEMMA WorkAlone ==
    ASSUME IInv, NEW p \in Procs, AloneInv(p), pc[p] = "work", UNCHANGED <<stateFile, pc>>
    PROVE  AloneInv(p)'
<1>1. stateFile.status = "running"
  BY DEF AloneInv, PlaceSound, WorkerPlaces
<1> QED BY <1>1 DEF AloneInv, StateSound, CallSound, PlaceSound, CallPlaces

\* All that the passing of time changes is what calls itself fresh.
LEMMA WindowAlone ==
    ASSUME IInv, NEW p \in Procs, AloneInv(p), WindowPasses
    PROVE  AloneInv(p)'
<1>1. /\ UNCHANGED <<validation, pc, upd, kept, ctx>>
      /\ stateFile'.form = stateFile.form /\ stateFile'.status = stateFile.status
      /\ stateFile'.worker = stateFile.worker /\ stateFile'.run = stateFile.run
  BY DEF WindowPasses, locals, IInv, TypeOK, FilesOK, StateFiles
<1>2. ASSUME NEW w \in Workers
      PROVE  /\ worker'[w].result = worker[w].result /\ worker'[w].resultRun = worker[w].resultRun
             /\ worker'[w].diff = worker[w].diff /\ worker'[w].diffRun = worker[w].diffRun
             /\ worker'[w].named = worker[w].named
  BY DEF WindowPasses, IInv, TypeOK, FilesOK, ArtifactSets
<1>3. \A w \in Workers : ValidatorsPass(w)' = ValidatorsPass(w)
  BY <1>2 DEF ValidatorsPass, JudgedFiles
<1>4. \A w, run : Backed(w, run)' = Backed(w, run)
  BY <1>2 DEF Backed
<1>5. \A w : Sound(w)' = Sound(w)
  BY <1>1, <1>2, <1>3 DEF Sound
<1>6. StateSound'
  BY <1>1, <1>4, <1>5 DEF AloneInv, StateSound
<1>7. CallSound(p)'
  BY <1>1, <1>4, <1>5 DEF AloneInv, CallSound
<1>8. pc[p] = "finish_diff" => ctx[p].worker \in Workers
  BY DEF IInv, ControlOK, Control, WorkerPlaces
<1>9. PlaceSound(p)'
  BY <1>1, <1>2, <1>3, <1>8 DEF AloneInv, PlaceSound
<1> QED BY <1>6, <1>7, <1>9 DEF AloneInv

LEMMA NextAlone ==
    ASSUME NEW t, Procs = {t}, IInv, AloneInv(t), [Next]_vars
    PROVE  AloneInv(t)'
<1>a. t \in Procs /\ pc \in [Procs -> Places]
  BY DEF IInv, TypeOK, LocalsOK
<1>1. ASSUME NEW op \in Ops, Start(t, op) PROVE AloneInv(t)'
  <2>1. UNCHANGED <<stateFile, worker, validation>>
    BY <1>1 DEF Start, files
  <2>2. Goto(t, EntryPoint(op)) /\ EntryPoint(op) \in {"lock", "read", "judge", "write"}
    BY <1>1 DEF Start, EntryPoint
  <2> QED BY <1>a, <2>1, <2>2, GotoAlone DEF UpdatePlaces, WorkerPlaces
<1>2. WorkerOutput(t) => AloneInv(t)'
  BY <1>a, WorkAlone DEF WorkerOutput, locals
<1>3. WriteOwnerFails(t) \/ Kill(t) => AloneInv(t)'
  BY <1>a, FinishAlone DEF WriteOwnerFails, Kill
<1>4. CASE UNCHANGED vars
  <2>1. StateSound' /\ CallSound(t)' /\ PlaceSound(t)'
    BY <1>4 DEF vars, AloneInv, StateSound, CallSound, PlaceSound, Backed, Sound, ValidatorsPass, JudgedFiles
  <2> QED BY <2>1 DEF AloneInv
<1>5. CASE Next
  BY <1>a, <1>1, <1>2, <1>3, <1>5, WindowAlone, UpdateStepAlone, UserStepAlone, RunStepAlone DEF Next, Step
<1> QED BY <1>4, <1>5

LEMMA InitAlone ==
    ASSUME NEW t \in Procs, Init
    PROVE  AloneInv(t)
BY DEF Init, AloneInv, StateSound, CallSound, PlaceSound, CallPlaces, WorkerPlaces

LEMMA AlwaysAlone ==
    ASSUME NEW t, Procs = {t}
    PROVE  Spec => [](IInv /\ AloneInv(t))
<1>1. Init => AloneInv(t)
  BY InitAlone
<1>2. IInv /\ AloneInv(t) /\ [Next]_vars => AloneInv(t)'
  BY NextAlone
<1> QED BY <1>1, <1>2, InitIInv, NextIInv, PTL DEF Spec

(* finishWorkerOutput writes the result before updateState names the run, and recover
   takes the status from the result: with one terminal a completed task has, crashes or
   not, a worker whose result says so, of the run that the status speaks of. *)
THEOREM CompletionIsBacked ==
    ASSUME NEW t, Procs = {t}
    PROVE  Spec => []ResultBacksCompletion
<1>1. AloneInv(t) => ResultBacksCompletion
  BY DEF AloneInv, StateSound, Backed, ResultBacksCompletion
<1> QED BY <1>1, AlwaysAlone, PTL

(***************************************************************************)
(* The result and the patch of a run belong together, and a run that is at *)
(* work is the only one with its number.                                   *)
(***************************************************************************)
InWork(p) == \/ pc[p] \in WorkerPlaces
             \/ pc[p] \in UpdatePlaces /\ upd[p].next \in WorkerPlaces

Matched(w) ==
    /\ worker[w].diffRun <= runs
    /\ worker[w].diffRun = worker[w].resultRun => <<worker[w].named, worker[w].diff>> \in Captured

MatchInv(p) ==
    /\ \A w \in Workers : Matched(w)
    /\ InWork(p) => ctx[p].run = runs /\ \A w \in Workers : worker[w].diffRun < runs
    /\ pc[p] \in {"finish_heartbeat", "finish_result", "finish_diff"} =>
          <<ctx[p].named, ctx[p].diff>> \in Captured
    /\ pc[p] = "finish_diff" => /\ worker[ctx[p].worker].named = ctx[p].named
                                /\ worker[ctx[p].worker].resultRun = ctx[p].run

\* The process stops working on a run, and no artifact changes.
LEMMA MatchStop ==
    ASSUME NEW p \in Procs, MatchInv(p), UNCHANGED <<worker, runs>>, ~InWork(p)'
    PROVE  MatchInv(p)'
<1>1. \A w \in Workers : Matched(w)'
  BY DEF MatchInv, Matched
<1>2. pc'[p] \notin {"finish_heartbeat", "finish_result", "finish_diff"}
  BY DEF InWork, WorkerPlaces
<1> QED BY <1>1, <1>2 DEF MatchInv

\* The process goes on with its run, and no file of changes is touched.
LEMMA MatchGoOn ==
    ASSUME NEW p \in Procs, MatchInv(p), InWork(p), UNCHANGED runs,
           \A w \in Workers : /\ worker'[w].named = worker[w].named /\ worker'[w].diff = worker[w].diff
                              /\ worker'[w].diffRun = worker[w].diffRun
                              /\ worker'[w].resultRun = worker[w].resultRun,
           ctx'[p].run = ctx[p].run,
           pc'[p] \in {"finish_heartbeat", "finish_result"} => <<ctx'[p].named, ctx'[p].diff>> \in Captured,
           pc'[p] # "finish_diff"
    PROVE  MatchInv(p)'
<1>1. \A w \in Workers : Matched(w)' /\ worker'[w].diffRun < runs'
  BY DEF MatchInv, Matched
<1>2. ctx'[p].run = runs'
  BY DEF MatchInv
<1> QED BY <1>1, <1>2 DEF MatchInv

LEMMA UpdateStepMatch ==
    ASSUME IInv, NEW p \in Procs, MatchInv(p), UpdateStep(p)
    PROVE  MatchInv(p)'
<1>a. pc \in [Procs -> Places] /\ UNCHANGED <<worker, runs>>
  BY DEF IInv, TypeOK, LocalsOK, UpdateStep, UpdateRead, UpdateOpen, UpdateWrite, QueueUpdate,
     QueueThrows, Return, files, counts
<1>1. CASE QueueThrows(p) \/ Return(p)
  <2>1. pc'[p] \in {"idle", "release"}
    BY <1>1, <1>a DEF QueueThrows, Return, Throw, Goto, Finish
  <2> QED BY <1>a, <2>1, MatchStop DEF InWork, WorkerPlaces, UpdatePlaces
<1>2. CASE UpdateRead(p) \/ UpdateOpen(p) \/ UpdateWrite(p) \/ QueueUpdate(p)
  <2>1. /\ UNCHANGED <<upd, ctx>> /\ pc[p] \in UpdatePlaces
        /\ pc'[p] \in UpdatePlaces \/ pc'[p] = upd[p].next
    BY <1>2, <1>a DEF UpdateRead, UpdateOpen, UpdateWrite, QueueUpdate, Goto, UpdatePlaces
  <2>2. upd[p].next \in {"capable", "launch", "release", "done"}
    BY <2>1 DEF IInv, ControlOK, Control
  <2>3. InWork(p)' => InWork(p)
    BY <2>1, <2>2 DEF InWork, WorkerPlaces, UpdatePlaces
  <2>4. pc'[p] \notin {"finish_heartbeat", "finish_result", "finish_diff"}
    BY <2>1, <2>2 DEF UpdatePlaces
  <2> QED BY <1>a, <2>1, <2>3, <2>4, MatchStop, MatchGoOn
<1> QED BY <1>1, <1>2 DEF UpdateStep

LEMMA UserStepMatch ==
    ASSUME IInv, NEW p \in Procs, MatchInv(p), UserStep(p)
    PROVE  MatchInv(p)'
<1>1. UNCHANGED <<worker, runs>>
  BY DEF UserStep, Refuse, Pause, Resume, Overwrite, ReadForValidation, RunValidators, WriteVerdict,
     Review, Accept, ReadForRecovery, RecoverTask, files, counts
<1>2. \/ Finish(p) \/ \E l \in {"validators", "verdict", "reconcile"} : Goto(p, l)
      \/ \E status, w, run : Update(p, status, w, run, TRUE, "done")
  BY DEF UserStep, Refuse, Pause, Resume, Overwrite, ReadForValidation, RunValidators, WriteVerdict,
     Review, Accept, ReadForRecovery, RecoverTask, RecoverStale
<1>3. \/ pc'[p] \in {"idle", "validators", "verdict", "reconcile"}
      \/ pc'[p] = "u_read" /\ upd'[p].next = "done"
  BY <1>2 DEF Finish, Goto, Update, IInv, TypeOK, LocalsOK
<1> QED BY <1>1, <1>3, MatchStop DEF InWork, WorkerPlaces, UpdatePlaces

LEMMA RunStepMatch ==
    ASSUME IInv, NEW p \in Procs, MatchInv(p), RunStep(p)
    PROVE  MatchInv(p)'
<1> DEFINE v == ctx[p].worker
<1>a. /\ pc \in [Procs -> Places] /\ upd \in [Procs -> Updates] /\ ctx \in [Procs -> Contexts]
      /\ worker \in [Workers -> ArtifactSets] /\ runs \in Nat
      /\ pc[p] \in WorkerPlaces => v \in Workers
  BY DEF IInv, TypeOK, FilesOK, LocalsOK, CountsOK, ControlOK, Control
\* A move to a place of the run outside its work.
<1>b. ASSUME UNCHANGED <<worker, runs>>,
             Finish(p) \/ \E l \in {"owner", "check", "route", "release"} : Goto(p, l)
      PROVE  MatchInv(p)'
  <2>1. pc'[p] \in {"idle", "owner", "check", "route", "release"}
    BY <1>a, <1>b DEF Finish, Goto
  <2> QED BY <1>b, <2>1, MatchStop DEF InWork, WorkerPlaces, UpdatePlaces
\* A move within the work that writes no file of changes.
<1>c. ASSUME pc[p] \in WorkerPlaces, UNCHANGED <<runs, ctx>>,
             \A w \in Workers : /\ worker'[w].named = worker[w].named /\ worker'[w].diff = worker[w].diff
                                /\ worker'[w].diffRun = worker[w].diffRun
                                /\ worker'[w].resultRun = worker[w].resultRun,
             \/ \E l \in {"workspace", "prepare", "work", "collect"} : Goto(p, l)
             \/ pc[p] = "finish_heartbeat" /\ Goto(p, "finish_result")
             \/ \E status, w, run, queued, next : Update(p, status, w, run, queued, next)
      PROVE  MatchInv(p)'
  <2>1. \/ pc'[p] \in {"workspace", "prepare", "work", "collect", "u_read"}
        \/ pc[p] = "finish_heartbeat" /\ pc'[p] = "finish_result"
    BY <1>a, <1>c DEF Goto, Update
  <2>2. pc'[p] = "finish_result" => <<ctx'[p].named, ctx'[p].diff>> \in Captured
    BY <1>c, <2>1 DEF MatchInv
  <2>3. InWork(p) /\ pc'[p] # "finish_diff" /\ ctx'[p].run = ctx[p].run
    BY <1>c, <2>1 DEF InWork
  <2>4. pc'[p] \in {"finish_heartbeat", "finish_result"} => <<ctx'[p].named, ctx'[p].diff>> \in Captured
    BY <2>1, <2>2
  <2> QED BY <1>c, <2>3, <2>4, MatchGoOn
<1>1. CASE AcquireTaskLock(p) \/ WriteOwner(p) \/ CheckPaused(p) \/ ReleaseLock(p)
  BY <1>1, <1>b DEF AcquireTaskLock, LockedOut, WriteOwner, CheckPaused, Throw, ReleaseLock, files, counts
<1>2. CASE ChooseRoute(p)
  <2>1. UNCHANGED worker
    BY <1>2 DEF ChooseRoute, files
  <2>2. CASE Throw(p) /\ UNCHANGED runs
    BY <1>b, <2>1, <2>2 DEF Throw
  <2>3. CASE runs' = runs + 1 /\ \E w \in Workers :
                /\ ctx' = [ctx EXCEPT ![p].worker = w, ![p].run = runs + 1]
                /\ Update(p, "running", Keep, runs + 1, TRUE, "capable")
    <3>1. pc'[p] = "u_read" /\ ctx'[p].run = runs'
      BY <1>a, <2>3 DEF Update, Goto, Contexts
    <3>2. \A w \in Workers : worker[w].diffRun \in Nat /\ worker[w].diffRun <= runs
      BY <1>a DEF MatchInv, Matched, ArtifactSets
    <3>3. \A w \in Workers : Matched(w)' /\ worker'[w].diffRun < runs'
      BY <1>a, <2>1, <2>3, <3>2 DEF MatchInv, Matched
    <3> QED BY <3>1, <3>3 DEF MatchInv
  <2> QED BY <1>2, <2>2, <2>3 DEF ChooseRoute
<1>3. CASE CheckCapable(p) \/ MakeWorkerDir(p)
  <2>1. /\ pc[p] \in WorkerPlaces /\ UNCHANGED <<runs, ctx>>
        /\ UNCHANGED worker \/ worker' = [worker EXCEPT ![v].made = TRUE]
    BY <1>3 DEF CheckCapable, MakeWorkerDir, WorkerPlaces, files, counts
  <2>2. \A w \in Workers : /\ worker'[w].named = worker[w].named /\ worker'[w].diff = worker[w].diff
                           /\ worker'[w].diffRun = worker[w].diffRun
                           /\ worker'[w].resultRun = worker[w].resultRun
    <3>1. \A w \in Workers : worker[w] \in ArtifactSets
      BY <1>a
    <3>2. \A w \in Workers : worker'[w] = worker[w] \/ worker'[w] = [worker[w] EXCEPT !.made = TRUE]
      BY <1>a, <2>1
    <3> QED BY ONLY <3>1, <3>2 DEF ArtifactSets
  <2>3. \/ \E l \in {"workspace", "prepare"} : Goto(p, l)
        \/ Update(p, "failed", Keep, ctx[p].run, TRUE, "release")
    BY <1>3 DEF CheckCapable, MakeWorkerDir
  <2> QED BY <1>c, <2>1, <2>2, <2>3
<1>4. CASE PrepareWorker(p)
  <2>1. pc[p] \in WorkerPlaces /\ UNCHANGED <<worker, runs>>
    BY <1>4 DEF PrepareWorker, WorkerPlaces, files, counts
  <2>2. CASE /\ ctx' = [ctx EXCEPT ![p].outcome = "completed", ![p].named = "none", ![p].diff = "bad"]
             /\ Goto(p, "finish_heartbeat")
    <3>1. /\ pc'[p] = "finish_heartbeat" /\ ctx'[p].run = ctx[p].run
          /\ ctx'[p].named = "none" /\ ctx'[p].diff = "bad"
      BY <1>a, <2>2 DEF Goto, Contexts
    <3>2. InWork(p) /\ <<ctx'[p].named, ctx'[p].diff>> \in Captured
      BY <2>1, <3>1 DEF InWork, Captured
    <3> QED BY <2>1, <3>1, <3>2, MatchGoOn
  <2> QED BY <1>4, <1>b, <1>c, <2>1, <2>2 DEF PrepareWorker, Throw
<1>5. CASE Launch(p) \/ WorkerExit(p) \/ FinishHeartbeat(p)
  <2>1. /\ pc[p] \in WorkerPlaces /\ UNCHANGED <<runs, ctx>>
        /\ UNCHANGED worker \/ \E status : Heartbeat(p, status)
    BY <1>5 DEF Launch, WorkerExit, FinishHeartbeat, Throw, WorkerPlaces, counts
  <2>2. \A w \in Workers : /\ worker'[w].named = worker[w].named /\ worker'[w].diff = worker[w].diff
                           /\ worker'[w].diffRun = worker[w].diffRun
                           /\ worker'[w].resultRun = worker[w].resultRun
    <3>1. \A w \in Workers : worker[w] \in ArtifactSets
      BY <1>a
    <3>2. \A w \in Workers : \/ worker'[w] = worker[w]
                            \/ \E h : worker'[w] = [worker[w] EXCEPT !.heartbeat = h, !.fresh = TRUE]
      BY <1>a, <2>1 DEF Heartbeat
    <3> QED BY ONLY <3>1, <3>2 DEF ArtifactSets
  <2>3. \/ Throw(p) /\ UNCHANGED worker
        \/ \E l \in {"work", "collect"} : Goto(p, l)
        \/ pc[p] = "finish_heartbeat" /\ Goto(p, "finish_result")
    BY <1>5 DEF Launch, WorkerExit, FinishHeartbeat
  <2> QED BY <1>b, <1>c, <2>1, <2>2, <2>3 DEF Throw
<1>6. CASE CollectDiff(p)
  <2>1. pc[p] \in WorkerPlaces /\ UNCHANGED <<worker, runs>>
    BY <1>6 DEF CollectDiff, WorkerPlaces, files, counts
  <2>2. CASE /\ \E outcome \in {"completed", "failed"}, changes \in Captures :
                    ctx' = [ctx EXCEPT ![p].outcome = outcome, ![p].named = changes[1],
                                       ![p].diff = changes[2]]
             /\ Goto(p, "finish_heartbeat")
    <3>1. PICK outcome \in {"completed", "failed"}, changes \in Captures :
                  ctx' = [ctx EXCEPT ![p].outcome = outcome, ![p].named = changes[1],
                                     ![p].diff = changes[2]]
      BY <2>2
    <3>2. /\ pc'[p] = "finish_heartbeat" /\ ctx'[p].run = ctx[p].run
          /\ ctx'[p].named = changes[1] /\ ctx'[p].diff = changes[2]
      BY <1>a, <2>2, <3>1 DEF Goto, Contexts
    <3>3. <<changes[1], changes[2]>> = changes /\ changes \in Captured
      BY CapturesAssumption DEF Captured
    <3>4. InWork(p) /\ <<ctx'[p].named, ctx'[p].diff>> \in Captured
      BY <2>1, <3>2, <3>3 DEF InWork
    <3> QED BY <2>1, <3>2, <3>4, MatchGoOn
  <2> QED BY <1>6, <1>b, <2>1, <2>2 DEF CollectDiff, Throw
<1>7. CASE FinishResult(p)
  <2>1. /\ pc[p] = "finish_result" /\ pc'[p] = "finish_diff" /\ UNCHANGED <<runs, ctx>> /\ v \in Workers
    BY <1>7, <1>a DEF FinishResult, Goto, WorkerPlaces, counts
  <2>2. /\ \A w \in Workers \ {v} : worker'[w] = worker[w]
        /\ worker'[v].resultRun = ctx[p].run /\ worker'[v].named = ctx[p].named
        /\ worker'[v].diffRun = worker[v].diffRun
    <3> DEFINE a == [worker[v] EXCEPT !.result = ctx[p].outcome, !.resultRun = ctx[p].run,
                                      !.named = ctx[p].named]
    <3>1. worker' = [worker EXCEPT ![v] = a]
      BY <1>7, <1>a DEF FinishResult
    <3>2. a.resultRun = ctx[p].run /\ a.named = ctx[p].named /\ a.diffRun = worker[v].diffRun
      BY <1>a, <2>1 DEF ArtifactSets
    <3> HIDE DEF a
    <3> QED BY <1>a, <2>1, <3>1, <3>2
  <2>3. ctx[p].run = runs /\ \A w \in Workers : worker'[w].diffRun < runs
    <3>1. InWork(p)
      BY <2>1 DEF InWork, WorkerPlaces
    <3>2. ctx[p].run = runs /\ \A w \in Workers : worker[w].diffRun < runs
      BY <3>1 DEF MatchInv
    <3> QED BY <2>1, <2>2, <3>2
  <2>4. worker'[v].diffRun # worker'[v].resultRun
    BY <1>a, <2>1, <2>2, <2>3 DEF ArtifactSets
  <2>5. \A w \in Workers : Matched(w)'
    BY <2>1, <2>2, <2>4 DEF MatchInv, Matched
  <2> QED BY <2>1, <2>2, <2>3, <2>5 DEF MatchInv
<1>8. CASE FinishDiff(p)
  <2>1. /\ pc[p] = "finish_diff" /\ pc'[p] = "u_read" /\ UNCHANGED <<runs, ctx>> /\ v \in Workers
        /\ upd'[p].next = "release"
    BY <1>8, <1>a DEF FinishDiff, Update, Goto, WorkerPlaces, counts
  <2>2. /\ \A w \in Workers \ {v} : worker'[w] = worker[w]
        /\ worker'[v].diffRun = ctx[p].run /\ worker'[v].diff = ctx[p].diff
        /\ worker'[v].named = worker[v].named
    <3> DEFINE a == [worker[v] EXCEPT !.diff = ctx[p].diff, !.diffRun = ctx[p].run]
    <3>1. worker' = [worker EXCEPT ![v] = a]
      BY <1>8, <1>a DEF FinishDiff
    <3>2. a.diff = ctx[p].diff /\ a.diffRun = ctx[p].run /\ a.named = worker[v].named
      BY <1>a, <2>1 DEF ArtifactSets
    <3> HIDE DEF a
    <3> QED BY <1>a, <2>1, <3>1, <3>2
  <2>3. /\ ctx[p].run = runs /\ <<ctx[p].named, ctx[p].diff>> \in Captured
        /\ worker[v].named = ctx[p].named /\ worker[v].resultRun = runs
        /\ \A w \in Workers : worker[w].diffRun < runs
    <3>1. InWork(p)
      BY <2>1 DEF InWork, WorkerPlaces
    <3> QED BY <2>1, <3>1 DEF MatchInv
  <2>4. \A w \in Workers : Matched(w)'
    BY <1>a, <2>1, <2>2, <2>3 DEF MatchInv, Matched
  <2> QED BY <2>1, <2>4 DEF MatchInv, InWork, WorkerPlaces
<1> QED BY <1>1, <1>2, <1>3, <1>4, <1>5, <1>6, <1>7, <1>8 DEF RunStep

LEMMA NextMatch ==
    ASSUME NEW t, Procs = {t}, IInv, MatchInv(t), [Next]_vars
    PROVE  MatchInv(t)'
<1>a. t \in Procs /\ pc \in [Procs -> Places] /\ worker \in [Workers -> ArtifactSets]
  BY DEF IInv, TypeOK, FilesOK, LocalsOK
<1>1. ASSUME (\E op \in Ops : Start(t, op)) \/ WriteOwnerFails(t) \/ Kill(t) PROVE MatchInv(t)'
  <2>1. UNCHANGED <<worker, runs>> /\ pc'[t] \in {"lock", "read", "judge", "write", "idle"}
    BY <1>a, <1>1 DEF Start, EntryPoint, Goto, WriteOwnerFails, Kill, Finish, files
  <2> QED BY <1>a, <2>1, MatchStop DEF InWork, WorkerPlaces, UpdatePlaces
<1>2. ASSUME UNCHANGED <<pc, upd, ctx, runs>>,
             \A w \in Workers : /\ worker'[w].named = worker[w].named /\ worker'[w].diff = worker[w].diff
                                /\ worker'[w].diffRun = worker[w].diffRun
                                /\ worker'[w].resultRun = worker[w].resultRun
      PROVE  MatchInv(t)'
  <2>1. (\A w \in Workers : Matched(w)') /\ InWork(t)' = InWork(t)
    BY <1>2 DEF MatchInv, Matched, InWork
  <2>2. pc[t] = "finish_diff" => ctx[t].worker \in Workers
    BY <1>a DEF IInv, ControlOK, Control, WorkerPlaces
  <2> QED BY <1>2, <2>1, <2>2 DEF MatchInv
<1>3. CASE WindowPasses \/ WorkerOutput(t) \/ UNCHANGED vars
  <2>1. UNCHANGED <<pc, upd, ctx, runs>>
    BY <1>3 DEF WindowPasses, WorkerOutput, vars, locals, counts
  <2>2. \A w \in Workers : /\ worker'[w].named = worker[w].named /\ worker'[w].diff = worker[w].diff
                           /\ worker'[w].diffRun = worker[w].diffRun
                           /\ worker'[w].resultRun = worker[w].resultRun
    BY <1>a, <1>3 DEF WindowPasses, WorkerOutput, Heartbeat, vars, ArtifactSets
  <2> QED BY <1>2, <2>1, <2>2
<1> QED BY <1>a, <1>1, <1>3, UpdateStepMatch, UserStepMatch, RunStepMatch DEF Next, Step

(* validateTask reads the workerId, the artifacts and, in updateState, the state once more: with
   one terminal a validated task's worker still holds the patch that passed, in order, and that
   changes nothing gated if the result it was judged by is of the same run.  Between the writes
   of result.json and diff.patch a crash may leave two runs' halves, and then nothing is said of
   the patch's files. *)
THEOREM ValidationIsCurrent ==
    ASSUME NEW t, Procs = {t}
    PROVE  Spec => []ValidatedDiffIsCurrent
<1>1. Init => MatchInv(t)
  BY DEF Init, MatchInv, Matched, InWork, NoArtifacts, WorkerPlaces, UpdatePlaces, Captured
<1>2. IInv /\ MatchInv(t) /\ [Next]_vars => MatchInv(t)'
  BY NextMatch
<1>3. AloneInv(t) /\ MatchInv(t) => ValidatedDiffIsCurrent
  <2> SUFFICES ASSUME AloneInv(t), MatchInv(t), stateFile.status = "validated"
               PROVE  /\ stateFile.worker # NoWorker
                      /\ LET w == worker[stateFile.worker] IN
                            /\ validation.verdict = "passed" /\ w.diffRun = validation.run
                            /\ w.diff # "bad"
                            /\ w.diffRun = w.resultRun => w.diff = "good"
    BY DEF ValidatedDiffIsCurrent
  <2>1. Sound(stateFile.worker) /\ Matched(stateFile.worker)
    BY DEF AloneInv, StateSound, Sound, MatchInv
  <2> QED BY <2>1 DEF Sound, ValidatorsPass, JudgedFiles, Matched, Captured
<1> QED BY <1>1, <1>2, <1>3, AlwaysAlone, PTL DEF Spec

(***************************************************************************)
(* The queue.                                                              *)
(***************************************************************************)
\* Any move that leaves the status in both files alone and was no queue update.
LEMMA QueueMove ==
    ASSUME IInv, NEW p \in Procs, QueueInv(p), pc[p] \notin UpdatePlaces,
           UNCHANGED <<stateFile, queueStatus, faults>>,
           \/ Finish(p)
           \/ \E l : l \notin UpdatePlaces /\ Goto(p, l)
           \/ \E status, w, run, next : Update(p, status, w, run, TRUE, next)
    PROVE  QueueInv(p)'
<1>1. \/ pc'[p] \notin UpdatePlaces
      \/ pc'[p] = "u_read" /\ upd'[p].queued
  BY DEF Finish, Goto, Update, UpdatePlaces, IInv, TypeOK, LocalsOK
<1> QED BY <1>1 DEF QueueInv, CallPlaces, UpdatePlaces

LEMMA UpdateStepQueue ==
    ASSUME ~OtherTasks, IInv, NEW p \in Procs, AloneInv(p), QueueInv(p), UpdateStep(p)
    PROVE  QueueInv(p)'
<1>a. pc \in [Procs -> Places] /\ upd[p] \in Updates
  BY DEF IInv, TypeOK, LocalsOK
<1>b. pc[p] \in UpdatePlaces => upd[p].next \notin UpdatePlaces
  BY DEF IInv, ControlOK, Control, UpdatePlaces
<1>1. CASE UpdateRead(p) \/ UpdateOpen(p)
  <2>1. /\ pc[p] \in CallPlaces /\ pc'[p] \in CallPlaces /\ UNCHANGED <<queueStatus, upd, faults>>
    BY <1>1, <1>a DEF UpdateRead, UpdateOpen, Goto, CallPlaces, files, counts
  <2> QED BY <2>1 DEF QueueInv, CallPlaces, UpdatePlaces
<1>2. CASE UpdateWrite(p)
  <2>1. /\ pc[p] = "u_write" /\ pc'[p] = IF upd[p].queued THEN "queue" ELSE upd[p].next
        /\ UNCHANGED <<queueStatus, upd, faults>>
    BY <1>2, <1>a DEF UpdateWrite, Goto
  <2>2. stateFile'.status = upd[p].status
    BY <1>2, <2>1 DEF UpdateWrite, AloneInv, PlaceSound
  <2> QED BY <1>b, <2>1, <2>2 DEF QueueInv, CallPlaces, UpdatePlaces
<1>3. CASE QueueUpdate(p)
  <2>1. /\ pc[p] = "queue" /\ pc'[p] = upd[p].next /\ queueStatus' = upd[p].status
        /\ UNCHANGED stateFile
    BY <1>3, <1>a DEF QueueUpdate, Goto
  <2>2. stateFile.status = upd[p].status
    BY <2>1 DEF AloneInv, PlaceSound
  <2> QED BY <1>b, <2>1, <2>2 DEF QueueInv, CallPlaces, UpdatePlaces
<1>4. CASE QueueThrows(p)
  BY <1>4 DEF QueueThrows
<1>5. CASE Return(p)
  BY <1>5, QueueMove DEF Return, files, counts, UpdatePlaces
<1> QED BY <1>1, <1>2, <1>3, <1>4, <1>5 DEF UpdateStep

LEMMA UserStepQueue ==
    ASSUME IInv, NEW p \in Procs, QueueInv(p), UserStep(p)
    PROVE  QueueInv(p)'
<1>1. UNCHANGED <<stateFile, queueStatus, faults>> /\ pc[p] \notin UpdatePlaces
  BY DEF UserStep, Refuse, Pause, Resume, Overwrite, ReadForValidation, RunValidators, WriteVerdict,
     Review, Accept, ReadForRecovery, RecoverTask, At, files, counts, UpdatePlaces
<1>2. CASE \/ Refuse(p) \/ Pause(p) \/ Resume(p) \/ Overwrite(p) \/ ReadForValidation(p)
           \/ RunValidators(p) \/ WriteVerdict(p)
  BY <1>1, <1>2, QueueMove DEF Refuse, Pause, Resume, Overwrite, ReadForValidation, RunValidators,
     WriteVerdict, UpdatePlaces
<1>3. CASE Review(p) \/ Accept(p) \/ ReadForRecovery(p) \/ RecoverTask(p)
  BY <1>1, <1>3, QueueMove DEF Review, Accept, ReadForRecovery, RecoverTask, RecoverStale, UpdatePlaces
<1> QED BY <1>2, <1>3 DEF UserStep

LEMMA RunStepQueue ==
    ASSUME IInv, NEW p \in Procs, AloneInv(p), QueueInv(p), RunStep(p)
    PROVE  QueueInv(p)'
<1>1. UNCHANGED <<stateFile, queueStatus, faults>> /\ pc[p] \notin UpdatePlaces
  <2>1. CASE \/ AcquireTaskLock(p) \/ WriteOwner(p) \/ CheckPaused(p) \/ ChooseRoute(p)
             \/ CheckCapable(p) \/ MakeWorkerDir(p) \/ PrepareWorker(p)
    BY <2>1 DEF AcquireTaskLock, WriteOwner, CheckPaused, ChooseRoute, CheckCapable, MakeWorkerDir,
       PrepareWorker, At, files, counts, UpdatePlaces
  <2>2. CASE \/ Launch(p) \/ WorkerExit(p) \/ CollectDiff(p) \/ FinishHeartbeat(p) \/ FinishResult(p)
             \/ FinishDiff(p) \/ ReleaseLock(p)
    BY <2>2 DEF Launch, WorkerExit, CollectDiff, FinishHeartbeat, FinishResult, FinishDiff, ReleaseLock,
       files, counts, UpdatePlaces
  <2> QED BY <2>1, <2>2 DEF RunStep
<1>2. CASE PrepareWorker(p)
  <2>1. CASE Update(p, "running", ctx[p].worker, ctx[p].run, FALSE, "launch")
    <3>1. pc'[p] = "u_read" /\ upd'[p].status = "running" /\ stateFile.status = "running"
      BY <1>2, <2>1 DEF PrepareWorker, Update, Goto, IInv, TypeOK, LocalsOK, AloneInv, PlaceSound, WorkerPlaces
    <3> QED BY <1>1, <3>1 DEF QueueInv, UpdatePlaces
  <2>2. CASE \E l : l \notin UpdatePlaces /\ Goto(p, l)
    BY <1>1, <2>2, QueueMove
  <2> QED BY <1>2, <2>1, <2>2 DEF PrepareWorker, Throw, UpdatePlaces
<1>3. CASE AcquireTaskLock(p) \/ WriteOwner(p) \/ CheckPaused(p) \/ ChooseRoute(p) \/ CheckCapable(p) \/ MakeWorkerDir(p)
  BY <1>1, <1>3, QueueMove DEF AcquireTaskLock, LockedOut, WriteOwner, CheckPaused, ChooseRoute, CheckCapable,
     MakeWorkerDir, Throw, UpdatePlaces
<1>4. CASE \/ Launch(p) \/ WorkerExit(p) \/ CollectDiff(p) \/ FinishHeartbeat(p) \/ FinishResult(p)
           \/ FinishDiff(p) \/ ReleaseLock(p)
  BY <1>1, <1>4, QueueMove DEF Launch, WorkerExit, CollectDiff, FinishHeartbeat, FinishResult, FinishDiff,
     ReleaseLock, Throw, UpdatePlaces
<1> QED BY <1>2, <1>3, <1>4 DEF RunStep

LEMMA NextQueue ==
    ASSUME ~OtherTasks, NEW t, Procs = {t}, IInv, AloneInv(t), QueueInv(t), [Next]_vars
    PROVE  QueueInv(t)'
<1>a. t \in Procs
  OBVIOUS
<1>1. ASSUME NEW op \in Ops, Start(t, op) PROVE QueueInv(t)'
  <2>1. /\ UNCHANGED <<stateFile, queueStatus, faults>> /\ pc[t] \notin UpdatePlaces
        /\ Goto(t, EntryPoint(op)) /\ EntryPoint(op) \notin UpdatePlaces
    BY <1>1 DEF Start, EntryPoint, files, UpdatePlaces
  <2> QED BY <1>a, <2>1, QueueMove
<1>2. ASSUME WriteOwnerFails(t) \/ Kill(t) PROVE QueueInv(t)'
  BY <1>2 DEF WriteOwnerFails, Kill, QueueInv, IInv, TypeOK, CountsOK
<1>3. CASE WindowPasses \/ WorkerOutput(t) \/ UNCHANGED vars
  <2>1. stateFile'.status = stateFile.status /\ UNCHANGED <<queueStatus, faults, pc, upd>>
    BY <1>3 DEF WindowPasses, WorkerOutput, vars, locals, counts, IInv, TypeOK, FilesOK, StateFiles
  <2> QED BY <2>1 DEF QueueInv
<1> QED BY <1>a, <1>1, <1>2, <1>3, UpdateStepQueue, UserStepQueue, RunStepQueue DEF Next, Step

(* updateState writes state.json and TaskQueue.update the queue after it, except for the
   worker_prepared write of a run that is queued as running already: with one terminal and
   nobody else at queue.json, the two agree between commands unless one was killed. *)
THEOREM QueueFollowsState ==
    ASSUME NEW t, Procs = {t}, ~OtherTasks
    PROVE  Spec => []QueueAgrees
<1>1. Init => QueueInv(t)
  BY DEF Init, QueueInv, CallPlaces
<1>2. IInv /\ AloneInv(t) /\ QueueInv(t) /\ [Next]_vars => QueueInv(t)'
  BY NextQueue
<1>3. QueueInv(t) => QueueAgrees
  BY DEF QueueInv, QueueAgrees, Quiet, UpdatePlaces
<1> QED BY <1>1, <1>2, <1>3, AlwaysAlone, PTL DEF Spec

(***************************************************************************)
(* The pause.                                                              *)
(***************************************************************************)
\* Any move that leaves the state file and what is held alone.
LEMMA HoldMove ==
    ASSUME IInv, NEW p \in Procs, HoldInv(p), UNCHANGED <<stateFile, hold, cmd>>,
           NEW l, pc'[p] = l, l \notin {"validators", "verdict"}, l = "reconcile" => cmd[p] = "recover",
           l \in HoldPlaces /\ cmd[p] \in {"run", "recover"} => ~hold,
           l \in CallPlaces /\ cmd[p] = "pause" => upd'[p].status = "paused"
    PROVE  HoldInv(p)'
BY DEF HoldInv

LEMMA HoldFinish ==
    ASSUME IInv, NEW p \in Procs, HoldInv(p), UNCHANGED <<stateFile, hold>>, Finish(p)
    PROVE  HoldInv(p)'
<1>1. cmd'[p] = "none" /\ pc'[p] = "idle"
  BY DEF Finish, IInv, TypeOK, LocalsOK
<1> QED BY <1>1 DEF HoldInv, CallPlaces

LEMMA UpdateStepHold ==
    ASSUME IInv, NEW p \in Procs, AloneInv(p), HoldInv(p), UpdateStep(p)
    PROVE  HoldInv(p)'
<1>a. pc \in [Procs -> Places] /\ upd[p] \in Updates
  BY DEF IInv, TypeOK, LocalsOK
<1>b. pc[p] \in UpdatePlaces => /\ upd[p].next \in {"capable", "launch", "release", "done"}
                              /\ pc[p] \in HoldPlaces /\ cmd[p] # "none"
  BY DEF IInv, ControlOK, Control, UpdatePlaces, HoldPlaces, CallPlaces
<1>1. CASE UpdateRead(p)
  <2>1. /\ pc[p] = "u_read" /\ pc'[p] = "u_open" /\ UNCHANGED <<stateFile, hold, cmd, upd>>
    BY <1>1, <1>a DEF UpdateRead, Goto, files, counts
  <2> QED BY <2>1 DEF HoldInv, HoldPlaces, CallPlaces
<1>2. CASE UpdateOpen(p)
  <2>1. /\ pc[p] = "u_open" /\ pc'[p] = "u_write" /\ UNCHANGED <<hold, cmd, upd>> /\ stateFile'.form = "empty"
    BY <1>2, <1>a DEF UpdateOpen, Goto, counts, Unreadable
  <2> QED BY <2>1 DEF HoldInv, HoldPlaces, CallPlaces
<1>3. CASE UpdateWrite(p)
  <2>1. /\ pc[p] = "u_write" /\ pc'[p] = IF upd[p].queued THEN "queue" ELSE upd[p].next
        /\ hold' = (IF cmd[p] \in {"pause", "resume"} THEN cmd[p] = "pause" ELSE hold)
        /\ UNCHANGED cmd
    BY <1>3, <1>a DEF UpdateWrite, Goto
  <2>2. stateFile'.status = upd[p].status
    BY <1>3, <2>1 DEF UpdateWrite, AloneInv, PlaceSound
  <2>3. pc'[p] \in {"queue", "capable", "launch", "release", "done"} /\ cmd[p] \in PauseOps
    BY <1>b, <2>1 DEF UpdatePlaces, HoldInv
  <2>4. cmd[p] \in {"run", "recover"} => ~hold
    BY <2>1 DEF HoldInv, HoldPlaces, CallPlaces
  <2>5. cmd[p] = "pause" => upd[p].status = "paused"
    BY <2>1 DEF HoldInv, CallPlaces
  <2>6. CASE cmd[p] = "pause"
    BY <2>1, <2>2, <2>3, <2>5, <2>6 DEF HoldInv, CallPlaces
  <2>7. CASE cmd[p] \in {"resume", "run", "recover"}
    <3>1. ~hold'
      BY <2>1, <2>4, <2>7
    <3> QED BY <2>1, <2>3, <2>7, <3>1 DEF HoldInv, CallPlaces
  <2> QED BY <2>3, <2>6, <2>7 DEF PauseOps
<1>4. CASE QueueUpdate(p)
  <2>1. /\ pc[p] = "queue" /\ pc'[p] = upd[p].next /\ UNCHANGED <<stateFile, hold, cmd>>
    BY <1>4, <1>a DEF QueueUpdate, Goto, counts
  <2> QED BY <1>b, <2>1, HoldMove DEF HoldInv, HoldPlaces, CallPlaces, UpdatePlaces
<1>5. CASE QueueThrows(p) \/ Return(p)
  <2>1. UNCHANGED <<stateFile, hold>> /\ (Finish(p) \/ Throw(p))
    BY <1>5 DEF QueueThrows, Return, files, counts
  <2>2. CASE Throw(p)
    <3>1. pc'[p] = "release" /\ UNCHANGED cmd
      BY <1>a, <2>2 DEF Throw, Goto
    <3> QED BY <2>1, <3>1, HoldMove DEF HoldPlaces, CallPlaces, WorkerPlaces
  <2> QED BY <2>1, <2>2, HoldFinish
<1> QED BY <1>1, <1>2, <1>3, <1>4, <1>5 DEF UpdateStep

LEMMA UserStepHold ==
    ASSUME IInv, NEW p \in Procs, HoldInv(p), UserStep(p)
    PROVE  HoldInv(p)'
<1>a. /\ UNCHANGED <<stateFile, hold>> /\ pc \in [Procs -> Places] /\ upd \in [Procs -> Updates]
  BY DEF UserStep, Refuse, Pause, Resume, Overwrite, ReadForValidation, RunValidators, WriteVerdict,
     Review, Accept, ReadForRecovery, RecoverTask, files, counts, IInv, TypeOK, LocalsOK
<1>1. ~\E x \in {"cancel", "reject", "rollback", "dry_run", "validate", "review", "accept"} : cmd[p] = x
  BY DEF HoldInv, PauseOps
<1>2. ~(Overwrite(p) \/ ReadForValidation(p) \/ RunValidators(p) \/ WriteVerdict(p) \/ Review(p) \/ Accept(p))
  <2>1. pc[p] # "write"
    BY <1>1 DEF IInv, ControlOK, Control
  <2>2. pc[p] \notin {"validators", "verdict"}
    BY DEF HoldInv
  <2> QED BY <1>1, <2>1, <2>2 DEF Overwrite, ReadForValidation, RunValidators, WriteVerdict, Review, Accept, At
<1>3. CASE Pause(p)
  <2>1. cmd[p] = "pause" /\ UNCHANGED cmd /\ pc'[p] = "u_read" /\ upd'[p].status = "paused"
    BY <1>3, <1>a DEF Pause, At, Update, Goto
  <2> QED BY <1>a, <2>1, HoldMove
<1>4. CASE Resume(p)
  <2>1. cmd[p] = "resume" /\ UNCHANGED cmd /\ pc'[p] = "u_read"
    BY <1>4, <1>a DEF Resume, At, Update, Goto
  <2> QED BY <1>a, <2>1, HoldMove
<1>5. CASE ReadForRecovery(p)
  <2>1. cmd[p] = "recover" /\ UNCHANGED cmd /\ pc'[p] = "reconcile"
    BY <1>5, <1>a DEF ReadForRecovery, At, Goto
  <2>2. ~hold
    BY <1>5 DEF ReadForRecovery, Admits, Readable, HoldInv
  <2> QED BY <1>a, <2>1, <2>2, HoldMove
<1>6. CASE RecoverTask(p)
  <2>1. pc[p] = "reconcile" /\ cmd[p] = "recover" /\ ~hold
    BY <1>6 DEF RecoverTask, HoldInv, HoldPlaces
  <2>2. \/ Finish(p)
        \/ UNCHANGED cmd /\ \E status, w, run : Update(p, status, w, run, TRUE, "done")
    BY <1>6 DEF RecoverTask, RecoverStale
  <2>3. CASE UNCHANGED cmd /\ \E status, w, run : Update(p, status, w, run, TRUE, "done")
    <3>1. pc'[p] = "u_read"
      BY <1>a, <2>3 DEF Update, Goto
    <3> QED BY <1>a, <2>1, <2>3, <3>1, HoldMove
  <2> QED BY <1>a, <2>2, <2>3, HoldFinish
<1>7. CASE Refuse(p)
  BY <1>7, <1>a, HoldFinish DEF Refuse
<1> QED BY <1>2, <1>3, <1>4, <1>5, <1>6, <1>7 DEF UserStep

LEMMA RunStepHold ==
    ASSUME IInv, NEW p \in Procs, HoldInv(p), RunStep(p)
    PROVE  HoldInv(p)'
<1>a. pc \in [Procs -> Places] /\ (pc[p] \in LockedPlaces \cup {"lock"} => cmd[p] = "run")
  BY DEF IInv, TypeOK, LocalsOK, ControlOK, Control
<1>b. UNCHANGED <<stateFile, hold>> /\ pc[p] \in LockedPlaces \cup {"lock"}
  <2>1. CASE \/ AcquireTaskLock(p) \/ WriteOwner(p) \/ CheckPaused(p) \/ ChooseRoute(p)
             \/ CheckCapable(p) \/ MakeWorkerDir(p) \/ PrepareWorker(p)
    BY <2>1 DEF AcquireTaskLock, WriteOwner, CheckPaused, ChooseRoute, CheckCapable, MakeWorkerDir,
       PrepareWorker, At, files, counts, LockedPlaces
  <2>2. CASE \/ Launch(p) \/ WorkerExit(p) \/ CollectDiff(p) \/ FinishHeartbeat(p) \/ FinishResult(p)
             \/ FinishDiff(p) \/ ReleaseLock(p)
    BY <2>2 DEF Launch, WorkerExit, CollectDiff, FinishHeartbeat, FinishResult, FinishDiff, ReleaseLock,
       files, counts, LockedPlaces
  <2> QED BY <2>1, <2>2 DEF RunStep
<1>1. ASSUME NEW l, l \notin {"validators", "verdict", "reconcile"}, Goto(p, l), UNCHANGED cmd,
             l \in HoldPlaces => ~hold
      PROVE  HoldInv(p)'
  <2>1. pc'[p] = l /\ cmd[p] = "run"
    BY <1>a, <1>b, <1>1 DEF Goto
  <2> QED BY <1>b, <1>1, <2>1, HoldMove
<1>2. ASSUME pc[p] \in WorkerPlaces \cup {"route"}, UNCHANGED cmd,
             \/ \E l \in WorkerPlaces \cup {"release"} : Goto(p, l)
             \/ \E status, w, run, queued, next : Update(p, status, w, run, queued, next)
      PROVE  HoldInv(p)'
  <2>1. ~hold
    BY <1>a, <1>2 DEF HoldInv, HoldPlaces, WorkerPlaces, LockedPlaces
  <2>2. PICK l \in WorkerPlaces \cup {"release", "u_read"} : Goto(p, l)
    BY <1>2 DEF Update
  <2> QED BY <1>1, <1>2, <2>1, <2>2 DEF WorkerPlaces
<1>3. CASE AcquireTaskLock(p)
  BY <1>3, <1>b, <1>1, HoldFinish DEF AcquireTaskLock, LockedOut, HoldPlaces, CallPlaces, WorkerPlaces
<1>4. CASE WriteOwner(p)
  BY <1>4, <1>1 DEF WriteOwner, HoldPlaces, CallPlaces, WorkerPlaces
<1>5. CASE CheckPaused(p)
  <2>1. MayRun => ~hold
    BY DEF MayRun, Readable, HoldInv
  <2> QED BY <1>5, <1>1, <2>1 DEF CheckPaused, Throw, HoldPlaces, CallPlaces, WorkerPlaces
<1>6. CASE ChooseRoute(p) \/ CheckCapable(p) \/ MakeWorkerDir(p) \/ PrepareWorker(p)
  BY <1>6, <1>2 DEF ChooseRoute, CheckCapable, MakeWorkerDir, PrepareWorker, Throw, WorkerPlaces
<1>7. CASE \/ Launch(p) \/ WorkerExit(p) \/ CollectDiff(p) \/ FinishHeartbeat(p) \/ FinishResult(p) \/ FinishDiff(p)
  BY <1>7, <1>2 DEF Launch, WorkerExit, CollectDiff, FinishHeartbeat, FinishResult, FinishDiff, Throw, WorkerPlaces
<1>8. CASE ReleaseLock(p)
  BY <1>8, <1>b, HoldFinish DEF ReleaseLock
<1> QED BY <1>3, <1>4, <1>5, <1>6, <1>7, <1>8 DEF RunStep

LEMMA NextHold ==
    ASSUME Ops \subseteq PauseOps, NEW t, Procs = {t}, IInv, AloneInv(t), HoldInv(t), [Next]_vars
    PROVE  HoldInv(t)'
<1>a. t \in Procs
  OBVIOUS
<1>1. ASSUME NEW op \in Ops, Start(t, op) PROVE HoldInv(t)'
  <2>1. UNCHANGED <<stateFile, hold>> /\ cmd'[t] \in PauseOps /\ pc'[t] \in {"lock", "read", "judge", "write"}
    BY <1>1 DEF Start, Goto, EntryPoint, files, IInv, TypeOK, LocalsOK
  <2> QED BY <2>1 DEF HoldInv, HoldPlaces, CallPlaces, WorkerPlaces
<1>2. WriteOwnerFails(t) \/ Kill(t) => HoldInv(t)'
  BY <1>a, HoldFinish DEF WriteOwnerFails, Kill
<1>3. CASE WindowPasses \/ WorkerOutput(t) \/ UNCHANGED vars
  <2>1. /\ stateFile'.status = stateFile.status /\ stateFile'.form = stateFile.form
        /\ UNCHANGED <<hold, cmd, pc, upd>>
    BY <1>3 DEF WindowPasses, WorkerOutput, vars, locals, counts, IInv, TypeOK, FilesOK, StateFiles
  <2> QED BY <2>1 DEF HoldInv
<1> QED BY <1>a, <1>1, <1>2, <1>3, UpdateStepHold, UserStepHold, RunStepHold DEF Next, Step

(* pauseTask writes its status through updateState, and runTask reads the status after it took
   the lock: with one terminal that only runs, pauses, resumes and recovers, crashes or not, no
   run gets past that check between a pause and the next resume.  The other commands write
   their status over a pause. *)
THEOREM PausedIsNotRun ==
    ASSUME NEW t, Procs = {t}, Ops \subseteq PauseOps
    PROVE  Spec => PauseBlocksReruns
<1>1. Init => HoldInv(t)
  BY DEF Init, HoldInv, HoldPlaces, CallPlaces, WorkerPlaces
<1>2. IInv /\ AloneInv(t) /\ HoldInv(t) /\ [Next]_vars => HoldInv(t)'
  BY NextHold
<1>3. IInv /\ HoldInv(t) /\ [Next]_vars => [\A p \in Procs : pc[p] = "check" /\ pc'[p] = "route" => ~hold]_vars
  <2> SUFFICES ASSUME IInv, HoldInv(t), Next, pc[t] = "check", pc'[t] = "route" PROVE ~hold
    OBVIOUS
  <2>1. MayRun
    <3>1. pc \in [Procs -> Places]
      BY DEF IInv, TypeOK, LocalsOK
    <3>2. ~UpdateStep(t) /\ ~UserStep(t)
      BY DEF UpdateStep, UpdateRead, UpdateOpen, UpdateWrite, QueueUpdate, QueueThrows, Return,
         UserStep, Refuse, Pause, Resume, Overwrite, ReadForValidation, RunValidators, WriteVerdict,
         Review, Accept, ReadForRecovery, RecoverTask, At
    <3>3. RunStep(t) => CheckPaused(t)
      BY DEF RunStep, AcquireTaskLock, WriteOwner, ChooseRoute, CheckCapable, MakeWorkerDir, PrepareWorker,
         Launch, WorkerExit, CollectDiff, FinishHeartbeat, FinishResult, FinishDiff, ReleaseLock, At
    <3>4. ~WindowPasses /\ ~WorkerOutput(t) /\ ~WriteOwnerFails(t) /\ ~Kill(t) /\ \A op \in Ops : ~Start(t, op)
      BY <3>1 DEF WindowPasses, WorkerOutput, WriteOwnerFails, Kill, Finish, Start, locals
    <3>5. CheckPaused(t)
      BY <3>2, <3>3, <3>4 DEF Next, Step
    <3> QED BY <3>1, <3>5 DEF CheckPaused, Throw, Goto
  <2> QED BY <2>1 DEF MayRun, Readable, HoldInv
<1> QED BY <1>1, <1>2, <1>3, AlwaysAlone, PTL DEF Spec, PauseBlocksReruns
=============================================================================
