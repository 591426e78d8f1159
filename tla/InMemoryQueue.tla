---------------------------- MODULE InMemoryQueue ----------------------------
(***************************************************************************)
(* The queue of tasks as one process sees it, with no file behind it:      *)
(* enqueue and update both insert or replace the task's item in place, and *)
(* dequeue takes the oldest.  It is also what TaskQueue, which keeps the   *)
(* items in queue.json, promises: every upsert is one indivisible step.    *)
(***************************************************************************)
EXTENDS Naturals, Sequences

CONSTANTS Tasks, Statuses

VARIABLE items     \* in the order of their first insertion

IsFirst(s, t, i) == s[i].task = t /\ \A j \in 1 .. i - 1 : s[j].task # t

\* Mutant of Upserted: an item is pushed without looking for an older one.
Pushed(s, t, st) == Append(s, [task |-> t, status |-> st])

\* items.find(taskId), then either its fields are set or an item is pushed.
Upserted(s, t, st) ==
    IF \E i \in DOMAIN s : s[i].task = t
    THEN [i \in DOMAIN s |-> IF IsFirst(s, t, i) THEN [task |-> t, status |-> st] ELSE s[i]]
    ELSE Append(s, [task |-> t, status |-> st])

Init == items = <<>>

\* enqueue and update call each other for the case they do not handle.
Upsert(t, st) == items' = Upserted(items, t, st)

Dequeue == items # <<>> /\ items' = Tail(items)

Next == Dequeue \/ \E t \in Tasks, st \in Statuses : Upsert(t, st)

Spec == Init /\ [][Next]_items

(* A task is queued at most once, however often it is enqueued. *)
OneItemPerTask(s) == \A i, j \in DOMAIN s : s[i].task = s[j].task => i = j
=============================================================================
