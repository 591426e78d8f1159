------------------------- MODULE WorkerRunner_proofs -------------------------
(***************************************************************************)
(* The callbacks of runProcess and the signal handler, for any limits: no  *)
(* timer outlives the process, an interrupt leaves neither the provider    *)
(* nor a registered workspace behind, and heartbeat.json never goes back.  *)
(***************************************************************************)
EXTENDS WorkerRunner, TLAPS

\* What the event order guarantees: between spawn and exit the provider is
\* registered, and after its exit it is not in the group.
Registration ==
    /\ tracked => stage = "process"
    /\ stage = "process" /\ ~exited => tracked
    /\ stage = "setup" => group = {} /\ ~exited /\ ~closed
    /\ stage \in {"collect", "done"} => closed
    /\ exited => "child" \notin group
    /\ closed => exited /\ ~tracked
    /\ cli = "gone" /\ tracked => ~workspace

\* Before close only "running" is queued; close queues "exited" behind it.
RunningQueued(n) == \A i \in 1 .. n : pending[i] = "running"

WriteOrder ==
    /\ stage = "setup" => heartbeat = "none" /\ pending = <<>> /\ ~closed
    /\ stage = "process" /\ ~closed => heartbeat = "running" /\ RunningQueued(Len(pending))
    /\ stage = "process" /\ closed =>
        \/ pending = <<>> /\ heartbeat \in {"running", "exited"}
        \/ /\ heartbeat = "running" /\ Len(pending) > 0
           /\ RunningQueued(Len(pending) - 1) /\ pending[Len(pending)] = "exited"
    /\ stage \in {"collect", "done"} => closed /\ pending = <<>>
    /\ stage = "collect" => heartbeat \in {"running", "exited"}
    /\ stage = "done" => heartbeat = "finished"

IInv == TypeOK /\ Registration /\ NoTimerOutlivesProcess /\ ProviderSwept /\ WriteOrder

-----------------------------------------------------------------------------
LEMMA TypeStep == TypeOK /\ [Next]_vars => TypeOK'
<1> SUFFICES ASSUME TypeOK, [Next]_vars PROVE TypeOK'
  OBVIOUS
<1> USE RunnerAssumption DEF TypeOK, Heartbeats, events, outer, record
<1>1. CASE CreateWorkspace
  BY <1>1 DEF CreateWorkspace
<1>2. CASE Spawn
  BY <1>2 DEF Spawn, IdleTimer
<1>3. CASE KillTimer
  BY <1>3 DEF KillTimer
<1>4. CASE Exit
  BY <1>4 DEF Exit, Sweep
<1>5. CASE Close
  <2>1. pending' \in Seq({"running", "exited"})
    BY <1>5 DEF Close
  <2>2. timers' \subseteq timers
    BY <1>5 DEF Close, CloseTimers
  <2>3. QED
    BY <1>5, <2>1, <2>2 DEF Close
<1>6. CASE Write
  <2>1. pending' \in Seq({"running", "exited"}) /\ Head(pending) \in {"running", "exited"}
    BY <1>6 DEF Write
  <2>2. QED
    BY <1>6, <2>1 DEF Write
<1>7. CASE Resolve
  BY <1>7 DEF Resolve
<1>8. CASE FinishRun
  <2>1. \A parsed \in {"completed", "failed"}, limited, changed \in BOOLEAN :
            Outcome(parsed, limited, changed) \in {"completed", "failed", "limited"}
    BY DEF Outcome
  <2>2. QED
    BY <1>8, <2>1 DEF FinishRun
<1>9. CASE GraceTimer
  BY <1>9 DEF GraceTimer, Straggler, Sweep
<1>10. ASSUME NEW why \in {"timeout", "idle"}, StopTimer(why) PROVE TypeOK'
  BY <1>10 DEF StopTimer, RequestStop
<1>11. CASE Data
  <2>1. pending' \in Seq({"running", "exited"})
    BY <1>11 DEF Data
  <2>2. timers' \subseteq timers \cup IdleTimer \cup {"kill"}
    BY <1>11 DEF Data, RequestStop
  <2>3. stops' \subseteq stops \cup {"limit", "output"}
    BY <1>11 DEF Data, RequestStop
  <2>4. QED
    BY <1>11, <2>1, <2>2, <2>3 DEF Data, IdleTimer
<1>12. CASE Fork
  BY <1>12 DEF Fork
<1>13. CASE Interrupt
  BY <1>13 DEF Interrupt, Sweep
<1>14. ASSUME NEW x \in {"child", "helper"}, Die(x) PROVE TypeOK'
  BY <1>14 DEF Die
<1>15. CASE UNCHANGED vars
  BY <1>15 DEF vars
<1>16. QED
  BY <1>1, <1>2, <1>3, <1>4, <1>5, <1>6, <1>7, <1>8, <1>9, <1>10, <1>11, <1>12,
     <1>13, <1>14, <1>15 DEF Next, Callback

LEMMA RegistrationStep ==
    TypeOK /\ Registration /\ ProviderSwept /\ [Next]_vars => Registration' /\ ProviderSwept'
<1> SUFFICES ASSUME TypeOK, Registration, ProviderSwept, [Next]_vars
             PROVE  Registration' /\ ProviderSwept'
  OBVIOUS
<1> USE DEF TypeOK, Registration, ProviderSwept, Up, events, outer, record
<1>1. CASE CreateWorkspace
  BY <1>1 DEF CreateWorkspace
<1>2. CASE Spawn
  <2>1. stage = "setup" /\ stage' = "process" /\ cli # "gone" /\ cli' = cli /\ tracked'
    BY <1>2 DEF Spawn
  <2>2. ~closed /\ closed' = closed /\ ~exited
    BY <1>2, <2>1 DEF Spawn
  <2>3. \/ group' = {"child"} /\ exited' = exited
        \/ group' = {} /\ exited'
    BY <1>2 DEF Spawn
  <2>4. QED
    BY <2>1, <2>2, <2>3
<1>3. CASE KillTimer
  BY <1>3 DEF KillTimer
<1>4. CASE Exit
  BY <1>4 DEF Exit, Sweep
<1>5. CASE Close
  <2>1. stage = "process" /\ cli # "gone" /\ exited
    BY <1>5 DEF Close
  <2>2. UNCHANGED <<stage, cli, workspace, group, exited>> /\ ~tracked'
    BY <1>5 DEF Close
  <2>3. QED
    BY <2>1, <2>2
<1>6. CASE Write
  BY <1>6 DEF Write
<1>7. CASE Resolve
  <2>1. stage = "process" /\ closed /\ stage' = "collect"
    BY <1>7 DEF Resolve
  <2>2. UNCHANGED <<cli, workspace, group, exited, closed, tracked>>
    BY <1>7 DEF Resolve
  <2>3. QED
    BY <2>1, <2>2
<1>8. CASE FinishRun
  BY <1>8 DEF FinishRun
<1>9. CASE GraceTimer
  BY <1>9 DEF GraceTimer, Straggler, Sweep
<1>10. ASSUME NEW why \in {"timeout", "idle"}, StopTimer(why)
       PROVE  Registration' /\ ProviderSwept'
  BY <1>10 DEF StopTimer
<1>11. CASE Data
  BY <1>11 DEF Data
<1>12. CASE Fork
  BY <1>12 DEF Fork
<1>13. CASE Interrupt
  BY <1>13 DEF Interrupt, Sweep
<1>14. ASSUME NEW x \in {"child", "helper"}, Die(x) PROVE Registration' /\ ProviderSwept'
  BY <1>14 DEF Die
<1>15. CASE UNCHANGED vars
  BY <1>15 DEF vars
<1>16. QED
  BY <1>1, <1>2, <1>3, <1>4, <1>5, <1>6, <1>7, <1>8, <1>9, <1>10, <1>11, <1>12,
     <1>13, <1>14, <1>15 DEF Next, Callback

LEMMA TimersStep ==
    TypeOK /\ NoTimerOutlivesProcess /\ WriteOrder /\ [Next]_vars => NoTimerOutlivesProcess'
<1> SUFFICES ASSUME TypeOK, NoTimerOutlivesProcess, WriteOrder, [Next]_vars
             PROVE  NoTimerOutlivesProcess'
  OBVIOUS
<1> USE DEF NoTimerOutlivesProcess, WriteOrder, Up, events, outer, record
<1>1. CASE CreateWorkspace
  BY <1>1 DEF CreateWorkspace
<1>2. CASE Spawn
  BY <1>2 DEF Spawn
<1>3. CASE KillTimer
  BY <1>3 DEF KillTimer
<1>4. CASE Exit
  BY <1>4 DEF Exit, Sweep
<1>5. CASE Close
  BY <1>5 DEF Close, CloseTimers, TypeOK
<1>6. CASE Write
  BY <1>6 DEF Write
<1>7. CASE Resolve
  BY <1>7 DEF Resolve
<1>8. CASE FinishRun
  BY <1>8 DEF FinishRun
<1>9. CASE GraceTimer
  BY <1>9 DEF GraceTimer, Sweep
<1>10. ASSUME NEW why \in {"timeout", "idle"}, StopTimer(why) PROVE NoTimerOutlivesProcess'
  BY <1>10 DEF StopTimer
<1>11. CASE Data
  BY <1>11 DEF Data
<1>12. CASE Fork
  BY <1>12 DEF Fork
<1>13. CASE Interrupt
  BY <1>13 DEF Interrupt, Sweep
<1>14. ASSUME NEW x \in {"child", "helper"}, Die(x) PROVE NoTimerOutlivesProcess'
  BY <1>14 DEF Die
<1>15. CASE UNCHANGED vars
  BY <1>15 DEF vars
<1>16. QED
  BY <1>1, <1>2, <1>3, <1>4, <1>5, <1>6, <1>7, <1>8, <1>9, <1>10, <1>11, <1>12,
     <1>13, <1>14, <1>15 DEF Next, Callback

LEMMA WriteOrderStep ==
    TypeOK /\ WriteOrder /\ [Next]_vars =>
        WriteOrder' /\ Rank(heartbeat') >= Rank(heartbeat)
<1> SUFFICES ASSUME TypeOK, WriteOrder, [Next]_vars
             PROVE  WriteOrder' /\ Rank(heartbeat') >= Rank(heartbeat)
  OBVIOUS
<1> DEFINE Goal == WriteOrder' /\ Rank(heartbeat') >= Rank(heartbeat)
<1>0. ASSUME heartbeat' = heartbeat PROVE Rank(heartbeat') >= Rank(heartbeat)
  BY <1>0 DEF Rank, TypeOK, Heartbeats
<1>a. ASSUME UNCHANGED <<stage, closed, pending, heartbeat>> PROVE Goal
  BY <1>0, <1>a DEF WriteOrder, RunningQueued
<1>1. CASE CreateWorkspace
  BY <1>a, <1>1 DEF CreateWorkspace, events, record
<1>2. CASE Spawn
  <2>1. stage = "setup" /\ heartbeat = "none" /\ pending = <<>> /\ ~closed
    BY <1>2 DEF Spawn, WriteOrder
  <2>2. stage' = "process" /\ heartbeat' = "running" /\ pending' = <<>> /\ ~closed'
    BY <1>2, <2>1 DEF Spawn
  <2>3. QED
    BY <2>1, <2>2 DEF WriteOrder, RunningQueued, Rank
<1>3. CASE KillTimer
  BY <1>a, <1>3 DEF KillTimer, events, outer, record
<1>4. CASE Exit
  BY <1>a, <1>4 DEF Exit, record
<1>5. CASE Close
  <2>1. stage = "process" /\ ~closed /\ closed' /\ heartbeat = "running"
    BY <1>5 DEF Close, WriteOrder
  <2>2. stage' = stage /\ heartbeat' = heartbeat /\ pending' = Append(pending, "exited")
    BY <1>5 DEF Close, outer
  <2>3. /\ Len(pending') = Len(pending) + 1 /\ pending'[Len(pending')] = "exited"
        /\ \A i \in 1 .. Len(pending) : pending'[i] = "running"
    BY <2>1, <2>2 DEF WriteOrder, RunningQueued, TypeOK
  <2>4. Len(pending) \in Nat
    BY DEF TypeOK
  <2>5. RunningQueued(Len(pending) - 1)'
    BY <2>3, <2>4 DEF RunningQueued
  <2>6. QED
    BY <1>0, <2>1, <2>2, <2>3, <2>4, <2>5 DEF WriteOrder
<1>6. CASE Write
  <2>1. pending # <<>> /\ pending' = Tail(pending) /\ heartbeat' \in {heartbeat, Head(pending)}
    BY <1>6 DEF Write
  <2>2. stage' = stage /\ closed' = closed
    BY <1>6 DEF Write, outer, events
  <2>3. stage = "process" /\ heartbeat = "running"
    BY <2>1 DEF WriteOrder, TypeOK
  <2>4. /\ Len(pending) \in Nat \ {0} /\ Len(pending') = Len(pending) - 1
        /\ Head(pending) = pending[1]
        /\ \A i \in 1 .. Len(pending) - 1 : pending'[i] = pending[i + 1]
    BY <2>1 DEF TypeOK
  <2>5. CASE ~closed
    <3>1. heartbeat' = "running"
      BY <2>1, <2>3, <2>4, <2>5 DEF WriteOrder, RunningQueued
    <3>2. RunningQueued(Len(pending))'
      BY <2>3, <2>4, <2>5 DEF WriteOrder, RunningQueued
    <3>3. QED
      BY <1>0, <2>2, <2>3, <2>5, <3>1, <3>2 DEF WriteOrder
  <2>6. CASE closed /\ Len(pending) = 1
    <3>1. pending[1] = "exited"
      BY <2>1, <2>3, <2>6 DEF WriteOrder
    <3>2. pending' = <<>>
      BY <2>1, <2>4, <2>6 DEF TypeOK
    <3>3. heartbeat' \in {"running", "exited"}
      BY <2>1, <2>3, <2>4, <3>1
    <3>4. QED
      BY <2>2, <2>3, <2>6, <3>2, <3>3 DEF WriteOrder, Rank
  <2>7. CASE closed /\ Len(pending) # 1
    <3>1. RunningQueued(Len(pending) - 1) /\ pending[Len(pending)] = "exited"
      BY <2>1, <2>3, <2>7 DEF WriteOrder
    <3>2. heartbeat' = "running"
      BY <2>1, <2>3, <2>4, <2>7, <3>1 DEF RunningQueued
    <3>3. RunningQueued(Len(pending) - 1)'
      BY <2>4, <2>7, <3>1 DEF RunningQueued
    <3>4. pending'[Len(pending')] = "exited" /\ Len(pending') > 0
      BY <2>4, <2>7, <3>1
    <3>5. QED
      BY <1>0, <2>2, <2>3, <2>7, <3>2, <3>3, <3>4 DEF WriteOrder
  <2>8. QED
    BY <2>5, <2>6, <2>7
<1>7. CASE Resolve
  <2>1. stage = "process" /\ closed /\ pending = <<>> /\ stage' = "collect"
    BY <1>7 DEF Resolve, WritesDone
  <2>2. UNCHANGED <<closed, pending, heartbeat>>
    BY <1>7 DEF Resolve, events, record
  <2>3. heartbeat \in {"running", "exited"}
    BY <2>1 DEF WriteOrder
  <2>4. QED
    BY <1>0, <2>1, <2>2, <2>3 DEF WriteOrder
<1>8. CASE FinishRun
  <2>1. stage = "collect" /\ stage' = "done" /\ heartbeat' = "finished"
    BY <1>8 DEF FinishRun
  <2>2. UNCHANGED <<closed, pending>>
    BY <1>8 DEF FinishRun, events
  <2>3. QED
    BY <2>1, <2>2 DEF WriteOrder, Rank
<1>9. CASE GraceTimer
  BY <1>a, <1>9 DEF GraceTimer, events, record
<1>10. ASSUME NEW why \in {"timeout", "idle"}, StopTimer(why) PROVE Goal
  BY <1>a, <1>10 DEF StopTimer, outer, events, record
<1>11. CASE Data
  <2>1. stage = "process" /\ ~closed /\ heartbeat = "running" /\ RunningQueued(Len(pending))
    BY <1>11 DEF Data, WriteOrder
  <2>2. UNCHANGED <<stage, closed, heartbeat>>
    BY <1>11 DEF Data, outer, events
  <2>3. pending' = pending \/ pending' = Append(pending, "running")
    BY <1>11 DEF Data
  <2>4. RunningQueued(Len(pending))'
    <3>1. CASE pending' = pending
      BY <2>1, <3>1 DEF RunningQueued
    <3>2. CASE pending' = Append(pending, "running")
      BY <2>1, <3>2 DEF RunningQueued, TypeOK
    <3>3. QED
      BY <2>3, <3>1, <3>2
  <2>5. QED
    BY <1>0, <2>1, <2>2, <2>4 DEF WriteOrder
<1>12. CASE Fork
  BY <1>a, <1>12 DEF Fork, outer, events, record
<1>13. CASE Interrupt
  BY <1>a, <1>13 DEF Interrupt, events, record
<1>14. ASSUME NEW x \in {"child", "helper"}, Die(x) PROVE Goal
  BY <1>a, <1>14 DEF Die, outer, events, record
<1>15. CASE UNCHANGED vars
  BY <1>a, <1>15 DEF vars
<1>16. QED
  BY <1>1, <1>2, <1>3, <1>4, <1>5, <1>6, <1>7, <1>8, <1>9, <1>10, <1>11, <1>12,
     <1>13, <1>14, <1>15 DEF Next, Callback

LEMMA Inductive == Spec => []IInv
<1>1. Init => IInv
  <2> SUFFICES ASSUME Init PROVE IInv
    OBVIOUS
  <2> USE DEF Init
  <2>0. <<>> \in Seq({"running", "exited"})
    OBVIOUS
  <2>1. TypeOK
    BY <2>0 DEF TypeOK, Heartbeats
  <2>2. Registration /\ ProviderSwept
    BY DEF Registration, ProviderSwept
  <2>3. NoTimerOutlivesProcess
    BY DEF NoTimerOutlivesProcess
  <2>4. WriteOrder
    BY DEF WriteOrder
  <2>5. QED
    BY <2>1, <2>2, <2>3, <2>4 DEF IInv
<1>2. IInv /\ [Next]_vars => IInv'
  BY TypeStep, RegistrationStep, TimersStep, WriteOrderStep DEF IInv
<1>3. QED
  BY <1>1, <1>2, PTL DEF Spec

-----------------------------------------------------------------------------
(* The callbacks keep every variable of runProcess within its type. *)
THEOREM RunnerTypeCorrect == Spec => []TypeOK
<1>1. IInv => TypeOK
  BY DEF IInv
<1>2. QED
  BY <1>1, Inductive, PTL

(* Once close was handled, or agent-os is gone, no timer of runProcess is
   armed that would signal the process group's number. *)
THEOREM TimersEndWithProcess == Spec => []NoTimerOutlivesProcess
<1>1. IInv => NoTimerOutlivesProcess
  BY DEF IInv
<1>2. QED
  BY <1>1, Inductive, PTL

(* Whenever the interrupt comes, agent-os is not gone before the provider
   it spawned: it is registered from spawn to exit, and a straggler is
   killed. *)
THEOREM InterruptSweepsProvider == Spec => []ProviderSwept
<1>1. IInv => ProviderSwept
  BY DEF IInv
<1>2. QED
  BY <1>1, Inductive, PTL

(* An interrupt that finds the provider registered removes its workspace. *)
THEOREM InterruptSweepsWorkspace == Spec => WorkspaceSwept
<1>1. IInv /\ IInv' /\ [Next]_vars => [cli' = "gone" /\ tracked => ~workspace']_vars
  <2> SUFFICES ASSUME IInv, IInv', Next, cli' = "gone", tracked PROVE ~workspace'
    BY DEF IInv
  <2> USE DEF IInv, TypeOK, Registration, Up, events, outer, record
  <2>1. CASE cli = "gone"
    <3>1. ~workspace
      BY <2>1
    <3>2. CASE Fork
      BY <3>1, <3>2 DEF Fork
    <3>3. ASSUME NEW x \in {"child", "helper"}, Die(x) PROVE ~workspace'
      BY <3>1, <3>3 DEF Die
    <3>4. QED
      BY <2>1, <3>2, <3>3 DEF Next, Callback, CreateWorkspace, Spawn, KillTimer, Exit, Close,
         Write, Resolve, FinishRun, GraceTimer, StopTimer, Data, Interrupt
  <2>2. CASE cli # "gone"
    <3>1. Exit \/ GraceTimer \/ Interrupt
      BY <2>2 DEF Next, Callback, CreateWorkspace, Spawn, KillTimer, Close, Write, Resolve,
         FinishRun, StopTimer, Data, Fork, Die
    <3>2. QED
      BY <2>2, <3>1 DEF Exit, GraceTimer, Interrupt, Sweep
  <2>3. QED
    BY <2>1, <2>2
<1>2. QED
  BY <1>1, Inductive, PTL DEF Spec, WorkspaceSwept

(* Queued heartbeats and the direct write of the finished run reach
   heartbeat.json in their order. *)
THEOREM HeartbeatNeverGoesBack == Spec => HeartbeatAdvances
<1>1. IInv /\ [Next]_vars => [Rank(heartbeat') >= Rank(heartbeat)]_vars
  BY WriteOrderStep DEF IInv
<1>2. QED
  BY <1>1, Inductive, PTL DEF Spec, HeartbeatAdvances
=============================================================================
