------------------------------ MODULE TaskLock ------------------------------
(***************************************************************************)
(* What core/locks.ts promises about one task's lock directory: at most    *)
(* one holder; only the holder gives the lock up; and a lock whose holder  *)
(* is gone stays taken, since nothing in the code ever breaks a lock.      *)
(* TaskLifecycle implements this specification.                            *)
(***************************************************************************)
CONSTANTS
    Procs,      \* the CLI processes that may ask for the lock
    Free,       \* there is no lock directory
    Abandoned   \* there is a lock directory that no process will remove

VARIABLE lock

(* mkdir(lockDir) succeeds only where the directory does not exist; EEXIST
   is reported as "Task is locked". *)
Acquire(p) == lock = Free /\ lock' = p

(* The handle's release, which withTaskLock calls in its finally block. *)
Release(p) == lock = p /\ lock' = Free

(* The holder is killed, or fails to write owner.json after its mkdir: the
   directory stays and no handle to it is left. *)
Abandon(p) == lock = p /\ lock' = Abandoned

Init == lock = Free

Next == \E p \in Procs: Acquire(p) \/ Release(p) \/ Abandon(p)

Spec == Init /\ [][Next]_lock
=============================================================================
