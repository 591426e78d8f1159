------------------------------- MODULE TaskRows -------------------------------
(***************************************************************************)
(* What the dashboard makes of a task's files while a run writes them.  A  *)
(* read takes state.json, then the worker directories, then the files of   *)
(* the worker in any order, and looks last whether the recorded process is *)
(* alive.  writeFile empties a file before it fills it: a file read in     *)
(* between counts as absent.  One task, of one provider: every run of it   *)
(* has the same worker directory.                                          *)
(***************************************************************************)
EXTENDS Naturals, Sequences

CONSTANTS MaxRowRuns, MaxReads, MaxCrashes      \* bounds

RunNames == <<"first", "second", "third">>  \* the process of each run
ASSUME RowsAssumption == MaxRowRuns <= Len(RunNames)

Torn == "torn"
None == "none"
WorkerFiles == {"workspace", "heartbeat", "result"}

VARIABLES
    disk,       \* each file's content: what its fields tell apart
    dirMade,    \* the worker directory exists
    runner,     \* the run under way: its number, place, process, outcome; idle when it has ended
    alive,      \* the worker processes that are alive
    reader,     \* the read under way: place, what it has read
    row,        \* the row shown
    ended,      \* history: what came of the workers whose exit a run saw
    rowBounds   \* [reads, crashes]

rowVars == <<disk, dirMade, runner, alive, reader, row, ended, rowBounds>>

Outcomes == {"completed", "failed", "limited"}
StateAfter(outcome) == IF outcome = "completed" THEN "completed" ELSE "failed"
Idle == [number |-> 0, at |-> "idle", pid |-> None, outcome |-> None]
NoRead == [at |-> "idle", got |-> <<>>]
NoRow == [status |-> None]

RowsInit ==
    /\ disk = [f \in {"state"} \cup WorkerFiles |-> IF f = "state" THEN "created" ELSE None]
    /\ dirMade = FALSE
    /\ runner = Idle /\ alive = {}
    /\ reader = NoRead /\ row = NoRow
    /\ ended = {} /\ rowBounds = [reads |-> 0, crashes |-> 0]

(***************************************************************************)
(* A run: the writes of taskRun and runExternalProvider, in order.         *)
(***************************************************************************)
Process == RunNames[runner.number]

\* What a place writes, if it is a write, and the place after it.  While the worker
\* works, and at its exit, runProcess awaits its writes one after the other.
Writing(at) ==
    CASE at = "start"    -> [file |-> "state", content |-> "running", next |-> "prepare"]
      [] at = "launch"   -> [file |-> "heartbeat", content |-> "running", next |-> "spawn"]
      [] at = "pid"      -> [file |-> "workspace", content |-> runner.pid, next |-> "work"]
      [] at = "beat"     -> [file |-> "heartbeat", content |-> "running", next |-> "work"]
      [] at = "exit"     -> [file |-> "heartbeat", content |-> "exited", next |-> "record"]
      [] at = "record"   -> [file |-> "workspace", content |-> runner.pid, next |-> "finish"]
      [] at = "finish"   -> [file |-> "heartbeat", content |-> "finished", next |-> "report"]
      [] at = "report"   -> [file |-> "result", content |-> runner.outcome, next |-> "settle"]
      [] at = "settle"   -> [file |-> "state", content |-> StateAfter(runner.outcome), next |-> "end"]
      [] at = "stale"    -> [file |-> "state", content |-> "stale", next |-> "recovered"]
      [] OTHER           -> [file |-> None, content |-> None, next |-> None]

quietRun == <<reader, row, rowBounds>>

StartRowRun ==
    /\ runner.at = "idle" /\ runner.number < MaxRowRuns
    /\ runner' = [number |-> runner.number + 1, at |-> "start", pid |-> None, outcome |-> None]
    /\ UNCHANGED <<disk, dirMade, alive, ended, quietRun>>

TruncateFile ==
    LET w == Writing(runner.at) IN
    /\ w.file # None /\ disk[w.file] # Torn
    /\ disk' = [disk EXCEPT ![w.file] = Torn]
    /\ UNCHANGED <<dirMade, runner, alive, ended, quietRun>>

WriteRowFile ==
    LET w == Writing(runner.at) IN
    /\ w.file # None /\ disk[w.file] = Torn
    /\ disk' = [disk EXCEPT ![w.file] = w.content]
    /\ runner' = IF w.next \in {"end", "recovered"} THEN [runner EXCEPT !.at = "idle"]
                 ELSE [runner EXCEPT !.at = w.next]
    /\ UNCHANGED <<dirMade, alive, ended, quietRun>>

MakeWorkerDir ==
    /\ runner.at = "prepare"
    /\ dirMade' = TRUE /\ runner' = [runner EXCEPT !.at = "launch"]
    /\ UNCHANGED <<disk, alive, ended, quietRun>>

\* A spawn that fails has no pid to write, and only the close is heard of.
SpawnWorker ==
    /\ runner.at = "spawn"
    /\ \/ alive' = alive \cup {Process} /\ runner' = [runner EXCEPT !.at = "pid", !.pid = Process]
       \/ UNCHANGED alive /\ runner' = [runner EXCEPT !.at = "work"]
    /\ UNCHANGED <<disk, dirMade, ended, quietRun>>

\* Output makes a heartbeat due.
WorkerPrints ==
    /\ runner.at = "work" /\ runner.pid \in alive
    /\ runner' = [runner EXCEPT !.at = "beat"]
    /\ UNCHANGED <<disk, dirMade, alive, ended, quietRun>>

\* A worker process ends, whether its command still waits for it or was killed.
ProcessEnds(process) ==
    /\ alive' = alive \ {process}
    /\ UNCHANGED <<disk, dirMade, runner, ended, quietRun>>

\* Its close is handled behind the writes that are due.
WorkerExits(outcome) ==
    /\ runner.at = "work" /\ runner.pid \notin alive
    /\ outcome = "completed" => runner.pid # None
    /\ runner' = [runner EXCEPT !.at = "exit", !.outcome = outcome]
    /\ ended' = ended \cup {outcome}
    /\ UNCHANGED <<disk, dirMade, alive, quietRun>>

\* The command is killed, with its worker or leaving it; a file may stay torn.
CommandDies ==
    /\ runner.at \notin {"idle", "dead"} /\ rowBounds.crashes < MaxCrashes
    /\ rowBounds' = [rowBounds EXCEPT !.crashes = @ + 1]
    /\ runner' = [runner EXCEPT !.at = "dead"]
    /\ UNCHANGED <<disk, dirMade, alive, ended, reader, row>>

\* `task recover` takes the status of a result that is there, or marks the task stale;
\* it can be run again, once its lock was removed by hand.
RecoverRow ==
    /\ runner.at = "dead" /\ disk["state"] = "running"
    /\ runner' = IF disk["result"] \in Outcomes
                 THEN [runner EXCEPT !.at = "settle", !.outcome = disk["result"]]
                 ELSE [runner EXCEPT !.at = "stale"]
    /\ UNCHANGED <<disk, dirMade, alive, ended, quietRun>>

(***************************************************************************)
(* A read.                                                                 *)
(***************************************************************************)
Got(f) == IF disk[f] = Torn THEN None ELSE disk[f]

ReadTaskState ==
    /\ reader.at = "idle" /\ rowBounds.reads < MaxReads
    /\ rowBounds' = [rowBounds EXCEPT !.reads = @ + 1]
    /\ reader' = [at |-> "workers", got |-> [f \in {"state"} |-> Got(f)]]
    /\ UNCHANGED <<disk, dirMade, runner, alive, row, ended>>

\* A task without a worker directory is a row of its own.
ReadWorkerIds ==
    /\ reader.at = "workers"
    /\ reader' = [reader EXCEPT !.at = "files",
           !.got = IF dirMade THEN @ ELSE [f \in {"state"} \cup WorkerFiles |->
                                              IF f = "state" THEN reader.got["state"] ELSE None]]
    /\ UNCHANGED <<disk, dirMade, runner, alive, row, ended, rowBounds>>

ReadWorkerFile(f) ==
    /\ reader.at = "files" /\ f \notin DOMAIN reader.got
    /\ reader' = [reader EXCEPT !.got = [g \in DOMAIN @ \cup {f} |-> IF g = f THEN Got(f) ELSE @[g]]]
    /\ UNCHANGED <<disk, dirMade, runner, alive, row, ended, rowBounds>>

\* Mutant of WorkerStatus: a heartbeat that is not running means done.
WorkerStatusByHeartbeat(got) ==
    IF got["state"] \in {"paused", "cancelled", "stale"} THEN got["state"]
    ELSE IF got["heartbeat"] = "finished" THEN "completed"
    ELSE IF got["result"] = "failed" \/ got["state"] = "failed" THEN "failed"
    ELSE IF got["result"] = "completed" \/ got["state"] = "completed" THEN "completed"
    ELSE IF "running" \in {got["heartbeat"], got["state"]} THEN "running"
    ELSE "queued"

WorkerStatus(got) ==
    IF got["state"] \in {"paused", "cancelled", "stale"} THEN got["state"]
    ELSE IF got["result"] = "failed" \/ got["state"] = "failed" THEN "failed"
    ELSE IF got["result"] = "completed" \/ got["state"] = "completed" THEN "completed"
    ELSE IF "running" \in {got["heartbeat"], got["state"]} THEN "running"
    ELSE "queued"

\* annotateProcessStats: a running worker whose recorded process is gone.
Annotated(status, pid) ==
    IF status = "running" /\ pid # None /\ pid \notin alive THEN "stale" ELSE status

ShowRow ==
    /\ reader.at = "files" /\ DOMAIN reader.got = {"state"} \cup WorkerFiles
    /\ row' = [status |-> Annotated(WorkerStatus(reader.got), reader.got["workspace"])]
    /\ reader' = NoRead
    /\ UNCHANGED <<disk, dirMade, runner, alive, ended, rowBounds>>

RowsNext ==
    \/ StartRowRun \/ TruncateFile \/ WriteRowFile \/ MakeWorkerDir \/ SpawnWorker
    \/ WorkerPrints \/ (\E process \in alive : ProcessEnds(process))
    \/ (\E o \in Outcomes : WorkerExits(o)) \/ CommandDies \/ RecoverRow
    \/ ReadTaskState \/ ReadWorkerIds \/ (\E f \in WorkerFiles : ReadWorkerFile(f)) \/ ShowRow

RowsSpec == RowsInit /\ [][RowsNext]_rowVars

(***************************************************************************)
(* Properties.                                                             *)
(***************************************************************************)
(* However the reads fall between the writes, a task is shown completed only if
   the worker of some run of it had completed. *)
CompletedRowIsBacked ==
    row.status = "completed" => "completed" \in ended
=============================================================================
