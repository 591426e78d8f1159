------------------------------ MODULE TaskQueue ------------------------------
(***************************************************************************)
(* queue.json: one file with an item for every task, read and rewritten    *)
(* whole by every command of every task, without any lock.                 *)
(***************************************************************************)
EXTENDS Naturals, Sequences

CONSTANTS
    Procs,      \* processes of the agent-os CLI on one runtime directory
    Tasks, Statuses,
    NoCall,     \* a process has not called upsert yet
    MaxCalls,   \* bound: calls of upsert
    MaxKills    \* bound: processes killed

ASSUME QueueAssumption ==
    MaxCalls \in Nat /\ MaxKills \in Nat /\ NoCall \notin [task : Tasks, status : Statuses]

VARIABLES
    file,       \* queue.json
    pc,         \* each process: where in upsert it is
    arg,        \* each process: the task and status it upserts
    copy,       \* each process: the items it read
    acked,      \* history: the items of the calls that returned, in order
    overlapped, \* history: a call began while another was under way
    calls, kills

vars == <<file, pc, arg, copy, acked, overlapped, calls, kills>>

Memory == INSTANCE InMemoryQueue WITH items <- file.items

Upserted(s, t, st) == Memory!Upserted(s, t, st)

Args == [task : Tasks, status : Statuses]
Forms == {"missing", "json", "empty", "corrupt"}

Init ==
    /\ file = [form |-> "missing", items |-> <<>>]
    /\ pc = [p \in Procs |-> "idle"]
    /\ arg = [p \in Procs |-> NoCall]
    /\ copy = [p \in Procs |-> <<>>]
    /\ acked = <<>> /\ overlapped = FALSE /\ calls = 0 /\ kills = 0

Goto(p, place) == pc' = [pc EXCEPT ![p] = place]

Call(p, t, st) ==
    /\ pc[p] = "idle" /\ calls < MaxCalls
    /\ calls' = calls + 1
    /\ arg' = [arg EXCEPT ![p] = [task |-> t, status |-> st]]
    /\ Goto(p, "read")
    /\ overlapped' = (overlapped \/ \E q \in Procs : pc[q] # "idle")
    /\ UNCHANGED <<file, copy, acked, kills>>

\* Mutant of Parses: an unreadable file counts as an empty queue.
ParsesAnything == TRUE

\* A missing file is an empty queue; one that does not parse throws.
Parses == file.form \in {"missing", "json"}

ReadState(p) ==
    /\ pc[p] = "read"
    /\ \/ /\ Parses
          /\ copy' = [copy EXCEPT ![p] = file.items]
          /\ Goto(p, "open")
       \/ ~Parses /\ Goto(p, "idle") /\ UNCHANGED copy
    /\ UNCHANGED <<file, arg, acked, overlapped, calls, kills>>

\* writeFile truncates ...
OpenFile(p) ==
    /\ pc[p] = "open"
    /\ file' = [form |-> "empty", items |-> <<>>]
    /\ Goto(p, "write")
    /\ UNCHANGED <<arg, copy, acked, overlapped, calls, kills>>

\* ... and then writes.  Another's contents are already there when both have
\* truncated before either wrote: the longer one's tail may then remain.
WriteFile(p) ==
    /\ pc[p] = "write"
    /\ \/ file' = [form |-> "json", items |-> Upserted(copy[p], arg[p].task, arg[p].status)]
       \/ file.form # "empty" /\ file' = [form |-> "corrupt", items |-> <<>>]
    /\ acked' = Upserted(acked, arg[p].task, arg[p].status)
    /\ Goto(p, "idle")
    /\ copy' = [copy EXCEPT ![p] = <<>>]
    /\ UNCHANGED <<arg, overlapped, calls, kills>>

Kill(p) ==
    /\ pc[p] # "idle" /\ kills < MaxKills
    /\ kills' = kills + 1
    /\ Goto(p, "idle")
    /\ copy' = [copy EXCEPT ![p] = <<>>]
    /\ UNCHANGED <<file, arg, acked, overlapped, calls>>

Next == \E p \in Procs :
    \/ \E t \in Tasks, st \in Statuses : Call(p, t, st)
    \/ ReadState(p) \/ OpenFile(p) \/ WriteFile(p) \/ Kill(p)

Spec == Init /\ [][Next]_vars

(***************************************************************************)
(* Properties.                                                             *)
(***************************************************************************)
Places == {"idle", "read", "open", "write"}

(* queue.json, every copy of it and every call hold values of the code's
   types, and only a process that was called is inside upsert. *)
TypeOK ==
    /\ file \in [form : Forms, items : Seq(Args)]
    /\ pc \in [Procs -> Places]
    /\ arg \in [Procs -> Args \cup {NoCall}]
    /\ \A p \in Procs : pc[p] # "idle" => arg[p] # NoCall
    /\ copy \in [Procs -> Seq(Args)]
    /\ acked \in Seq(Args)
    /\ overlapped \in BOOLEAN /\ calls \in Nat /\ kills \in Nat

(* Whoever writes when, and whoever is killed, no task has two items in
   queue.json, nor in what a process is about to write there. *)
NoDuplicates ==
    /\ Memory!OneItemPerTask(file.items)
    /\ \A p \in Procs : Memory!OneItemPerTask(copy[p])

(* As long as no two calls overlapped, of one process or of several, killed or
   not: what can be read of queue.json is the queue in memory, every upsert
   taking effect at once, and a file that cannot be read is never taken for an
   empty queue and started over. *)
Abstract == INSTANCE InMemoryQueue
                WITH items <- IF ~overlapped /\ Parses THEN file.items ELSE acked
ImplementsMemory == Abstract!Spec
=============================================================================
