---------------------------- MODULE GlobalRegistry ----------------------------
(***************************************************************************)
(* The lines about the tasks of every repository on the machine.           *)
(* `task create` appends one last of all, and every run another before its *)
(* queue item, under no lock; pruneRegistry, which no command calls yet,   *)
(* reads it all, writes what it keeps to a sibling and renames that over   *)
(* it.                                                                     *)
(***************************************************************************)
EXTENDS Naturals

CONSTANTS
    NewTasks, OldTasks, \* tasks created now, and ones older than any cut-off
    MaxPrunes           \* bound

Garbage == "garbage"    \* a line that does not parse
Lines   == NewTasks \cup OldTasks \cup {Garbage}

ASSUME RegistryAssumption ==
    NewTasks \cap OldTasks = {} /\ Garbage \notin NewTasks \cup OldTasks /\ MaxPrunes \in Nat

VARIABLES
    registry,   \* the whole lines, told apart by their task
    cut,        \* what follows the last of them is a line cut short
    creating,   \* each new task: where its create command is
    running,    \* each new task: where its run is
    created,    \* tasks that have their directory
    queued,     \* tasks whose item was put into queue.json
    prune,      \* the prune under way: place, what it keeps
    prunes,
    registered, \* history: tasks whose line was appended whole
    stopped,    \* history: tasks that had a run end between its line and its queue item
    raced       \* history: a line was appended while a prune was under way

regLines == <<registry, cut, registered, raced>>
regVars  == <<regLines, creating, running, created, queued, prune, prunes, stopped>>

NoPrune == [at |-> "idle", kept |-> {}]

RegistryInit ==
    /\ registry \in {{}, OldTasks} /\ cut = FALSE
    /\ creating = [t \in NewTasks |-> "start"]
    /\ running = [t \in NewTasks |-> "idle"]
    /\ created = {} /\ queued = {}
    /\ prune = NoPrune /\ prunes = 0
    /\ registered = {} /\ stopped = {} /\ raced = FALSE

\* What is appended to a line that was cut short becomes part of it.
Appended(t) == registry \cup {IF cut THEN Garbage ELSE t}

\* One write of one line: whole, skipped for want of permission, or cut short.
AppendEntry(t) ==
    \/ /\ registry' = Appended(t) /\ cut' = FALSE
       /\ registered' = IF cut THEN registered ELSE registered \cup {t}
       /\ raced' = (raced \/ prune.at # "idle")
    \/ UNCHANGED regLines
    \/ cut' = TRUE /\ UNCHANGED <<registry, registered, raced>>

(***************************************************************************)
(* Create.                                                                 *)
(***************************************************************************)
CreateTask(t) ==
    /\ creating[t] = "start"
    /\ created' = created \cup {t}
    /\ creating' = [creating EXCEPT ![t] = "enqueue"]
    /\ UNCHANGED <<regLines, running, queued, prune, prunes, stopped>>

\* An unreadable queue.json, or a kill, ends the command.
Enqueue(t) ==
    /\ creating[t] = "enqueue"
    /\ \/ queued' = queued \cup {t} /\ creating' = [creating EXCEPT ![t] = "append"]
       \/ creating' = [creating EXCEPT ![t] = "failed"] /\ UNCHANGED queued
    /\ UNCHANGED <<regLines, running, created, prune, prunes, stopped>>

\* Mutant of Announce: the line is there before the queue item.
AnnounceEarly(t) ==
    /\ creating[t] \in {"enqueue", "append"} /\ AppendEntry(t)
    /\ creating' = [creating EXCEPT ![t] = IF @ = "append" THEN "done" ELSE "enqueue"]
    /\ UNCHANGED <<running, created, queued, prune, prunes, stopped>>

Announce(t) ==
    /\ creating[t] = "append" /\ AppendEntry(t)
    /\ creating' = [creating EXCEPT ![t] = "done"]
    /\ UNCHANGED <<running, created, queued, prune, prunes, stopped>>

(***************************************************************************)
(* Runs.  One asks for no more than the task's directory; the task lock    *)
(* keeps a second one out.                                                 *)
(***************************************************************************)
RunTask(t) ==
    /\ t \in created /\ running[t] = "idle"
    /\ running' = [running EXCEPT ![t] = "append"]
    /\ UNCHANGED <<regLines, creating, created, queued, prune, prunes, stopped>>

AnnounceRoute(t) ==
    /\ running[t] = "append" /\ AppendEntry(t)
    /\ running' = [running EXCEPT ![t] = "update"]
    /\ UNCHANGED <<creating, created, queued, prune, prunes, stopped>>

\* TaskQueue.update makes the item if it is not there.
UpdateQueueItem(t) ==
    /\ running[t] = "update"
    /\ queued' = queued \cup {t}
    /\ running' = [running EXCEPT ![t] = "idle"]
    /\ UNCHANGED <<regLines, creating, created, prune, prunes, stopped>>

\* It is killed, or something that it calls throws.
RunStops(t) ==
    /\ running[t] # "idle"
    /\ running' = [running EXCEPT ![t] = "idle"]
    /\ stopped' = IF running[t] = "update" THEN stopped \cup {t} ELSE stopped
    /\ UNCHANGED <<regLines, creating, created, queued, prune, prunes>>

(***************************************************************************)
(* Prunes.                                                                 *)
(***************************************************************************)
\* A reader skips a line cut short at the end; any other one makes it throw.
RegistryParses == Garbage \notin registry

\* Mutant of Kept: the test of the age is the wrong way round.
KeptOld(entries) == entries \cap OldTasks

Kept(entries) == entries \cap NewTasks

PruneRead ==
    /\ prune.at = "idle" /\ prunes < MaxPrunes
    /\ prunes' = prunes + 1
    /\ prune' = IF RegistryParses THEN [at |-> "write", kept |-> Kept(registry)] ELSE NoPrune
    /\ UNCHANGED <<regLines, creating, running, created, queued, stopped>>

\* The sibling is written and renamed, or removed again.
PruneReplace ==
    /\ prune.at = "write"
    /\ \/ registry' = prune.kept /\ cut' = FALSE
       \/ UNCHANGED <<registry, cut>>
    /\ prune' = NoPrune
    /\ UNCHANGED <<creating, running, created, queued, prunes, registered, stopped, raced>>

RegistryNext ==
    \/ \E t \in NewTasks :
        \/ CreateTask(t) \/ Enqueue(t) \/ Announce(t)
        \/ RunTask(t) \/ AnnounceRoute(t) \/ UpdateQueueItem(t) \/ RunStops(t)
    \/ PruneRead \/ PruneReplace

RegistrySpec == RegistryInit /\ [][RegistryNext]_regVars

(* taskCreate appends its line behind the queue item and taskRun before it: a task that
   the dashboard finds in the registry has its directory, and its queue item too unless a
   run of it is between the two, or has ended there. *)
ListedTasksAreQueued ==
    \A t \in NewTasks : t \in registry \cup prune.kept =>
        /\ t \in created
        /\ t \in queued \/ running[t] = "update" \/ t \in stopped

(* Nothing that was appended whole is ever missing, prunes or not, as long as
   no append fell between a prune's read and its rename. *)
RegistryKeepsTasks == raced \/ registered \subseteq registry
=============================================================================
