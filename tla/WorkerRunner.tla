----------------------------- MODULE WorkerRunner -----------------------------
(***************************************************************************)
(* One provider process under one `task run`: the callbacks of runProcess  *)
(* (data, exit, close, three timers and the queue of log writes) and the   *)
(* handler of SIGINT, which sweeps what is registered and exits.  The      *)
(* process leads its own group and may start a helper that shares its      *)
(* pipes and outlives it.                                                  *)
(***************************************************************************)
EXTENDS Naturals, Sequences

CONSTANTS
    IdleTimeout,  \* whether AGENT_OS_PROVIDER_IDLE_TIMEOUT_MS is set
    OutputLimit,  \* chunks of output that providerMaxOutputBytes allows
    MaxOutput     \* bound: chunks the provider prints

ASSUME RunnerAssumption ==
    IdleTimeout \in BOOLEAN /\ OutputLimit \in Nat /\ MaxOutput \in Nat

VARIABLES
    stage,      \* of runExternalProvider: before spawn, in runProcess, after it
    cli,        \* the agent-os process: up, sweeping after a signal, gone
    workspace,  \* the temp copy exists
    group,      \* the living processes of the provider's group
    exited, closed, \* its exit and close events were handled
    exitCode,   \* of the provider itself
    tracked,    \* in liveWorkers
    timers,     \* those that are armed
    stops,      \* why requestStop was called; timedOut and the like
    output,     \* chunks received
    pending,    \* pendingWrites: heartbeats to be written, in order
    heartbeat,  \* heartbeat.json
    result      \* result.json

events == <<exited, closed, exitCode, tracked>>
outer  == <<stage, cli, workspace>>
record == <<pending, heartbeat, result>>
vars   == <<stage, cli, workspace, group, exited, closed, exitCode, tracked,
            timers, stops, output, pending, heartbeat, result>>

Init ==
    /\ stage = "setup" /\ cli = "up" /\ workspace = FALSE
    /\ group = {} /\ exited = FALSE /\ closed = FALSE /\ exitCode = 0
    /\ tracked = FALSE
    /\ timers = {} /\ stops = {} /\ output = 0
    /\ pending = <<>> /\ heartbeat = "none" /\ result = "none"

Up == cli # "gone"

IdleTimer == IF IdleTimeout THEN {"idle"} ELSE {}

(***************************************************************************)
(* Before the process.                                                     *)
(***************************************************************************)
CreateWorkspace ==
    /\ Up /\ stage = "setup" /\ ~workspace
    /\ workspace' = TRUE
    /\ UNCHANGED <<stage, cli, group, events, timers, stops, output, record>>

\* A command that cannot be spawned reports error and then close, and has no pid.
Spawn ==
    /\ Up /\ stage = "setup" /\ workspace
    /\ stage' = "process"
    /\ heartbeat' = "running"
    /\ tracked' = TRUE
    /\ timers' = {"timeout"} \cup IdleTimer
    /\ \/ group' = {"child"} /\ UNCHANGED <<exited, exitCode>>
       \/ group' = {} /\ exited' = TRUE /\ exitCode' = 1
    /\ UNCHANGED <<cli, workspace, closed, stops, output, pending, result>>

(***************************************************************************)
(* The provider and its helper.  SIGTERM may end them, now or later, and   *)
(* so may anything else: Die needs no reason.                              *)
(***************************************************************************)
Fork ==
    /\ "child" \in group /\ "helper" \notin group
    /\ group' = group \cup {"helper"}
    /\ UNCHANGED <<outer, events, timers, stops, output, record>>

Die(x) ==
    /\ x \in group
    /\ group' = group \ {x}
    /\ UNCHANGED <<outer, events, timers, stops, output, record>>

(***************************************************************************)
(* The callbacks.                                                          *)
(***************************************************************************)
\* Mutant of RequestStop: SIGTERM alone.
RequestStopOnce(why, armed) == stops' = stops \cup why /\ timers' = armed

\* SIGTERM, and one SIGKILL later however often a stop is requested.
RequestStop(why, armed) ==
    /\ stops' = stops \cup why
    /\ timers' = armed \cup (IF stops = {} /\ why # {} THEN {"kill"} ELSE {})

Data ==
    /\ Up /\ stage = "process" /\ ~closed /\ group # {} /\ output < MaxOutput
    /\ output' = output + 1
    /\ pending' \in {pending, Append(pending, "running")}
    /\ \E limitText \in {{}, {"limit"}} :
        RequestStop(limitText \cup (IF output' > OutputLimit THEN {"output"} ELSE {}),
                    timers \cup IdleTimer)
    /\ UNCHANGED <<outer, group, events, heartbeat, result>>

StopTimer(why) ==
    /\ Up /\ why \in timers
    /\ RequestStop({why}, timers \ {why})
    /\ UNCHANGED <<outer, group, events, output, record>>

KillTimer ==
    /\ Up /\ "kill" \in timers
    /\ timers' = timers \ {"kill"}
    /\ group' = {}
    /\ UNCHANGED <<outer, events, stops, output, record>>

\* cleanupWorkers after the wait: the workspace goes, process.exit follows.
Sweep == workspace' = FALSE /\ cli' = "gone" /\ timers' = {}

Exit ==
    /\ Up /\ stage = "process" /\ ~exited /\ "child" \notin group
    /\ exited' = TRUE /\ tracked' = FALSE /\ exitCode' \in {0, 1}
    /\ IF cli = "cleaning" THEN Sweep ELSE UNCHANGED <<cli, workspace, timers>>
    /\ UNCHANGED <<stage, group, closed, stops, output, record>>

\* Mutant of CloseTimers: the kill timer is not cleared.
CloseTimersButKill == timers \ {"timeout", "idle"}

CloseTimers == timers \ {"timeout", "idle", "kill"}

\* All pipes have ended, the helper's too.
Close ==
    /\ Up /\ stage = "process" /\ exited /\ ~closed /\ group = {}
    /\ closed' = TRUE /\ tracked' = FALSE
    /\ timers' = CloseTimers
    /\ pending' = Append(pending, "exited")
    /\ UNCHANGED <<outer, group, exited, exitCode, stops, output, heartbeat, result>>

\* A write that fails is swallowed; the next one follows all the same.
Write ==
    /\ Up /\ pending # <<>>
    /\ pending' = Tail(pending)
    /\ heartbeat' \in {heartbeat, Head(pending)}
    /\ UNCHANGED <<outer, group, events, timers, stops, output, result>>

\* Mutant of WritesDone: runProcess resolves without awaiting pendingWrites.
WritesAnywhere == TRUE

WritesDone == pending = <<>>

Resolve ==
    /\ Up /\ stage = "process" /\ closed /\ WritesDone
    /\ stage' = "collect"
    /\ UNCHANGED <<cli, workspace, group, events, timers, stops, output, record>>

(***************************************************************************)
(* After the process.  What the adapter makes of the output (parsed,       *)
(* limited) and whether the workspace changed is the provider's choice.    *)
(***************************************************************************)
ProcessFailed == stops \cap {"timeout", "idle", "output"} # {} \/ exitCode # 0

Outcome(parsed, limited, changed) ==
    CASE parsed = "completed" /\ changed -> "completed"
      [] ~(parsed = "completed" /\ changed) /\ limited -> "limited"
      [] ~(parsed = "completed" /\ changed) /\ ~limited /\ ProcessFailed -> "failed"
      [] OTHER -> parsed

FinishRun ==
    /\ Up /\ stage = "collect"
    /\ stage' = "done"
    /\ heartbeat' = "finished"
    /\ \E parsed \in {"completed", "failed"}, limited, changed \in BOOLEAN :
        result' = Outcome(parsed, limited, changed)
    /\ UNCHANGED <<cli, workspace, group, events, timers, stops, output, pending>>

(***************************************************************************)
(* SIGINT or SIGTERM to agent-os; a second one is ignored.                 *)
(***************************************************************************)
Interrupt ==
    /\ cli = "up" /\ stage # "done"
    /\ \/ ~tracked /\ cli' = "gone" /\ timers' = {} /\ UNCHANGED workspace
       \/ tracked /\ exited /\ Sweep
       \/ /\ tracked /\ ~exited
          /\ cli' = "cleaning" /\ timers' = timers \cup {"grace"}
          /\ UNCHANGED workspace
    /\ UNCHANGED <<stage, group, events, stops, output, record>>

\* Mutant of Straggler: SIGTERM again, which the provider may ignore.
StragglerTerm(g) == g

\* SIGKILL, to the whole group.
Straggler(g) == {}

GraceTimer ==
    /\ Up /\ "grace" \in timers
    /\ group' = Straggler(group)
    /\ Sweep
    /\ UNCHANGED <<stage, events, stops, output, record>>

Callback ==
    \/ CreateWorkspace \/ Spawn \/ KillTimer \/ Exit \/ Close \/ Write \/ Resolve
    \/ FinishRun \/ GraceTimer \/ \E why \in {"timeout", "idle"} : StopTimer(why)

Next ==
    \/ Callback \/ Data \/ Fork \/ Interrupt
    \/ \E x \in {"child", "helper"} : Die(x)

Spec == Init /\ [][Next]_vars

(***************************************************************************)
(* Fairness.  Armed timers fire and events are handled; the provider need  *)
(* neither print nor end, and nobody need interrupt.                       *)
(***************************************************************************)
FairSpec ==
    /\ Spec
    /\ WF_vars(CreateWorkspace) /\ WF_vars(Spawn)
    /\ WF_vars(StopTimer("timeout")) /\ WF_vars(KillTimer) /\ WF_vars(GraceTimer)
    /\ WF_vars(Exit) /\ WF_vars(Close) /\ WF_vars(Write)
    /\ WF_vars(Resolve) /\ WF_vars(FinishRun)

(***************************************************************************)
(* Properties.                                                             *)
(***************************************************************************)
Heartbeats == {"none", "running", "exited", "finished"}

(* Every variable holds a value the code can give it; no idle timer runs
   unless it is asked for. *)
TypeOK ==
    /\ stage \in {"setup", "process", "collect", "done"}
    /\ cli \in {"up", "cleaning", "gone"} /\ workspace \in BOOLEAN
    /\ group \subseteq {"child", "helper"}
    /\ exited \in BOOLEAN /\ closed \in BOOLEAN /\ exitCode \in {0, 1}
    /\ tracked \in BOOLEAN
    /\ timers \subseteq {"timeout", "idle", "kill", "grace"}
    /\ "idle" \in timers => IdleTimeout
    /\ stops \subseteq {"timeout", "idle", "output", "limit"}
    /\ output \in Nat
    /\ pending \in Seq({"running", "exited"})
    /\ heartbeat \in Heartbeats
    /\ result \in {"none", "completed", "failed", "limited"}

(* Once the process is closed, or agent-os is gone, no timer is left that
   would signal its process group: its number may be another's by then. *)
NoTimerOutlivesProcess == closed \/ cli = "gone" => timers \subseteq {"grace"}

Rank(h) == CASE h = "none" -> 0 [] h = "running" -> 1 [] h = "exited" -> 2 [] h = "finished" -> 3

(* heartbeat.json never goes back, though its writes are queued and those of
   the finished run are not: no late running hides that a worker exited. *)
HeartbeatAdvances == [][Rank(heartbeat') >= Rank(heartbeat)]_vars

(* When agent-os is gone, whenever it was interrupted, the provider it
   started is too: SIGKILL follows a SIGTERM that was ignored. *)
ProviderSwept == cli = "gone" => "child" \notin group

(* When agent-os goes while a provider is registered, the provider's
   workspace goes with it. *)
WorkspaceSwept == [][cli' = "gone" /\ tracked => ~workspace']_vars

(* A run under a provider that ignores SIGTERM ends all the same. *)
RunEnds == stage = "process" ~> stage = "done" \/ cli = "gone"
=============================================================================
