------------------------------- MODULE WakeFiles -------------------------------
(***************************************************************************)
(* The wake files an orchestrator waits for.  A run writes                 *)
(* wakeups/<task>-<worker>.json when its worker has finished, and over it  *)
(* when the task is recorded completed, if the settings say so: they are   *)
(* read again each time, from two files and the environment, and the user  *)
(* may edit them in between.                                               *)
(***************************************************************************)
EXTENDS Naturals

CONSTANTS NoticeWorkers, MaxNoticeRuns  \* the workers of a task; bound

Switches == {"unset", "on", "off"}
\* A file may also hold something that is not JSON.
Configs  == Switches \cup {"invalid"}
NoWake   == [status |-> "none", run |-> 0]

VARIABLES
    env,                        \* AGENT_OS_NOTIFY_WAKEFILES in the run's terminal
    userConfig, projectConfig,  \* wakeFiles in the two notifications.json
    wake,                       \* each worker's wake file
    run,                        \* the run under way
    notice,                     \* its notification: what it tells, what it has read
    finished,   \* history: runs recorded as completed
    lastRun     \* history: how the last run went

wakeVars == <<env, userConfig, projectConfig, wake, run, notice, finished, lastRun>>

NoRun    == [at |-> "idle", number |-> 0, worker |-> "none", outcome |-> "none"]
NoNotice == [tells |-> "none", project |-> "unset"]

WakeInit ==
    /\ env \in Switches /\ userConfig \in Configs /\ projectConfig \in Configs
    /\ wake = [w \in NoticeWorkers |-> NoWake]
    /\ run = NoRun /\ notice = NoNotice
    /\ finished = {}
    /\ lastRun = [steady |-> TRUE, written |-> TRUE, ended |-> "none"]

(***************************************************************************)
(* Switches.                                                               *)
(***************************************************************************)
\* Mutant of Merged: the user's file lies over the project's.
MergedUserLast(project, user) ==
    IF env # "unset" THEN env = "on"
    ELSE IF user \in {"on", "off"} THEN user = "on"
    ELSE IF project \in {"on", "off"} THEN project = "on"
    ELSE TRUE

\* A file that is not JSON is one without settings.
Merged(project, user) ==
    IF env # "unset" THEN env = "on"
    ELSE IF project \in {"on", "off"} THEN project = "on"
    ELSE IF user \in {"on", "off"} THEN user = "on"
    ELSE TRUE

\* At most once between two runs (a bound).
EditConfig ==
    /\ \/ userConfig' \in Configs \ {userConfig} /\ UNCHANGED projectConfig
       \/ projectConfig' \in Configs \ {projectConfig} /\ UNCHANGED userConfig
    /\ lastRun.steady
    /\ lastRun' = [lastRun EXCEPT !.steady = FALSE]
    /\ UNCHANGED <<env, wake, run, notice, finished>>

(***************************************************************************)
(* A run.                                                                  *)
(***************************************************************************)
StartNoticeRun(w) ==
    /\ run.at = "idle" /\ run.number < MaxNoticeRuns
    /\ run' = [at |-> "working", number |-> run.number + 1, worker |-> w, outcome |-> "none"]
    /\ lastRun' = [steady |-> TRUE, written |-> TRUE, ended |-> "none"]
    /\ UNCHANGED <<env, userConfig, projectConfig, wake, notice, finished>>

\* A worker that cannot be launched, or whose run throws, is told to nobody.
NeverLaunched ==
    /\ run.at = "working"
    /\ run' = [run EXCEPT !.at = "idle"]
    /\ lastRun' = [lastRun EXCEPT !.ended = "threw"]
    /\ UNCHANGED <<env, userConfig, projectConfig, wake, notice, finished>>

FinishWorker(outcome) ==
    /\ run.at = "working"
    /\ run' = [run EXCEPT !.at = "project", !.outcome = outcome]
    /\ notice' = [notice EXCEPT !.tells = "worker_finished"]
    /\ UNCHANGED <<env, userConfig, projectConfig, wake, finished, lastRun>>

\* What follows a notification.
AfterNotice == IF notice.tells = "worker_finished" THEN "record" ELSE "return"

ReadProjectConfig ==
    /\ run.at = "project"
    /\ notice' = [notice EXCEPT !.project = projectConfig]
    /\ run' = [run EXCEPT !.at = "user"]
    /\ UNCHANGED <<env, userConfig, projectConfig, wake, finished, lastRun>>

ReadUserConfig ==
    /\ run.at = "user"
    /\ run' = [run EXCEPT !.at = IF Merged(notice.project, userConfig) THEN "open" ELSE AfterNotice]
    /\ UNCHANGED <<env, userConfig, projectConfig, wake, notice, finished, lastRun>>

OpenWake ==
    /\ run.at = "open"
    /\ wake' = [wake EXCEPT ![run.worker] = [status |-> "torn", run |-> run.number]]
    /\ run' = [run EXCEPT !.at = "fill"]
    /\ UNCHANGED <<env, userConfig, projectConfig, notice, finished, lastRun>>

\* Mutant of Payload: one notice for both, as soon as the outcome is known.
PayloadOfOutcome == IF run.outcome = "completed" THEN "task_completed" ELSE notice.tells
Payload == notice.tells

FillWake ==
    /\ run.at = "fill"
    /\ wake' = [wake EXCEPT ![run.worker].status = Payload]
    /\ run' = [run EXCEPT !.at = AfterNotice]
    /\ UNCHANGED <<env, userConfig, projectConfig, notice, finished, lastRun>>

\* The error is printed, and the run goes on.
AfterError == AfterNotice

WakeFails ==
    /\ run.at \in {"open", "fill"}
    /\ lastRun' = [lastRun EXCEPT !.written = FALSE]
    /\ run' = [run EXCEPT !.at = AfterError]
    /\ UNCHANGED <<env, userConfig, projectConfig, wake, notice, finished>>

\* state.json and the queue, or what throws there.
RecordOutcome ==
    /\ run.at = "record"
    /\ \/ /\ finished' = IF run.outcome = "completed" THEN finished \cup {run.number} ELSE finished
          /\ IF run.outcome = "completed"
             THEN /\ notice' = [notice EXCEPT !.tells = "task_completed"]
                  /\ run' = [run EXCEPT !.at = "project"]
             ELSE run' = [run EXCEPT !.at = "return"] /\ UNCHANGED notice
          /\ UNCHANGED lastRun
       \/ /\ run' = [run EXCEPT !.at = "idle"]
          /\ lastRun' = [lastRun EXCEPT !.ended = "threw"]
          /\ notice' = NoNotice /\ UNCHANGED finished
    /\ UNCHANGED <<env, userConfig, projectConfig, wake>>

ReturnOutcome ==
    /\ run.at = "return"
    /\ run' = [run EXCEPT !.at = "idle"]
    /\ notice' = NoNotice
    /\ lastRun' = [lastRun EXCEPT !.ended = run.outcome]
    /\ UNCHANGED <<env, userConfig, projectConfig, wake, finished>>

KillNoticeRun ==
    /\ run.at # "idle"
    /\ run' = [run EXCEPT !.at = "idle"]
    /\ notice' = NoNotice
    /\ lastRun' = [lastRun EXCEPT !.ended = "killed"]
    /\ UNCHANGED <<env, userConfig, projectConfig, wake, finished>>

WakeNext ==
    \/ EditConfig
    \/ \E w \in NoticeWorkers : StartNoticeRun(w)
    \/ \E outcome \in {"completed", "failed"} : FinishWorker(outcome)
    \/ NeverLaunched \/ ReadProjectConfig \/ ReadUserConfig
    \/ OpenWake \/ FillWake \/ WakeFails \/ RecordOutcome \/ ReturnOutcome \/ KillNoticeRun

WakeSpec == WakeInit /\ [][WakeNext]_wakeVars

(***************************************************************************)
(* Properties.                                                             *)
(***************************************************************************)
(* taskRun tells task_completed after state.json and the queue say so: an
   orchestrator that reads it finds the task completed, whenever a run dies. *)
CompletedWakeIsBacked ==
    \A w \in NoticeWorkers : wake[w].status = "task_completed" => wake[w].run \in finished

\* notifications.ts:8-18: what the layers of settings promise together.
Layers == <<env, projectConfig, userConfig>>
Asked(i) == Layers[i] \in {"on", "off"}
WakePromised ==
    \/ \A i \in 1..3 : ~Asked(i)
    \/ \E i \in 1..3 : Layers[i] = "on" /\ \A j \in 1..(i - 1) : ~Asked(j)

(* A run under settings nobody edits leaves its wake file if and only if they
   ask for one: the last notice of the run, and never another run's. *)
WakeFollowsSettings ==
    run.at = "idle" /\ lastRun.steady /\ lastRun.written /\ lastRun.ended \in {"completed", "failed"} =>
        IF WakePromised
        THEN wake[run.worker] =
                 [status |-> IF lastRun.ended = "completed" THEN "task_completed" ELSE "worker_finished",
                  run    |-> run.number]
        ELSE wake[run.worker].run # run.number

(* A notice that cannot be written costs the run nothing: what it returns as
   completed is recorded as completed. *)
NoticeCostsNothing ==
    run.at = "idle" /\ lastRun.ended = "completed" => run.number \in finished
=============================================================================
