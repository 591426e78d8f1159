--------------------------- MODULE TaskQueue_proofs ---------------------------
(***************************************************************************)
(* For any processes, tasks and statuses: queue.json is well formed and no *)
(* task ever has two items in it.                                          *)
(***************************************************************************)
EXTENDS TaskQueue, TLAPS

\* Where find stops is where the task's only item is.
LEMMA UpsertedType ==
    ASSUME NEW s \in Seq(Args), NEW t \in Tasks, NEW st \in Statuses
    PROVE  Upserted(s, t, st) \in Seq(Args)
<1> DEFINE new == [task |-> t, status |-> st]
<1>1. new \in Args
  BY DEF Args
<1>2. CASE \E i \in DOMAIN s : s[i].task = t
  <2>1. DOMAIN s = 1 .. Len(s) /\ Len(s) \in Nat /\ \A i \in DOMAIN s : s[i] \in Args
    OBVIOUS
  <2>2. Upserted(s, t, st) = [i \in 1 .. Len(s) |-> IF Memory!IsFirst(s, t, i) THEN new ELSE s[i]]
    BY <1>2, <2>1 DEF Upserted, Memory!Upserted
  <2>3. \A i \in 1 .. Len(s) : (IF Memory!IsFirst(s, t, i) THEN new ELSE s[i]) \in Args
    BY <1>1, <2>1
  <2> HIDE DEF new
  <2>4. QED
    BY <2>1, <2>2, <2>3
<1>3. CASE ~\E i \in DOMAIN s : s[i].task = t
  BY <1>1, <1>3 DEF Upserted, Memory!Upserted
<1>4. QED
  BY <1>2, <1>3

\* An upsert gives no task a second item.
LEMMA UpsertedKeepsTasksApart ==
    ASSUME NEW s \in Seq(Args), NEW t \in Tasks, NEW st \in Statuses,
           Memory!OneItemPerTask(s)
    PROVE  Memory!OneItemPerTask(Upserted(s, t, st))
<1> DEFINE new == [task |-> t, status |-> st]
           u   == Upserted(s, t, st)
<1>1. new.task = t
  OBVIOUS
<1>2. CASE \E i \in DOMAIN s : s[i].task = t
  <2>1. u = [i \in DOMAIN s |-> IF Memory!IsFirst(s, t, i) THEN new ELSE s[i]]
    BY <1>2 DEF Upserted, Memory!Upserted
  <2>2. DOMAIN u = DOMAIN s
    BY <2>1
  <2>3. \A i \in DOMAIN s : u[i].task = s[i].task
    <3> TAKE i \in DOMAIN s
    <3>1. CASE Memory!IsFirst(s, t, i)
      BY <1>1, <2>1, <3>1 DEF Memory!IsFirst
    <3>2. CASE ~Memory!IsFirst(s, t, i)
      BY <2>1, <3>2
    <3>3. QED
      BY <3>1, <3>2
  <2> HIDE DEF u
  <2>4. QED
    BY <2>2, <2>3 DEF Memory!OneItemPerTask, u
<1>3. CASE ~\E i \in DOMAIN s : s[i].task = t
  <2>1. u = Append(s, new)
    BY <1>3 DEF Upserted, Memory!Upserted
  <2>2. DOMAIN u = 1 .. Len(s) + 1 /\ DOMAIN s = 1 .. Len(s) /\ Len(s) \in Nat
    BY <2>1
  <2>3. u[Len(s) + 1] = new /\ \A i \in DOMAIN s : u[i] = s[i]
    BY <2>1
  <2> HIDE DEF u, new
  <2>4. ASSUME NEW i \in DOMAIN u, NEW j \in DOMAIN u, u[i].task = u[j].task
        PROVE  i = j
    <3>1. CASE i \in DOMAIN s /\ j \in DOMAIN s
      BY <2>3, <2>4, <3>1 DEF Memory!OneItemPerTask
    <3>2. CASE i \notin DOMAIN s /\ j \in DOMAIN s
      BY <1>1, <1>3, <2>2, <2>3, <2>4, <3>2
    <3>3. CASE i \in DOMAIN s /\ j \notin DOMAIN s
      BY <1>1, <1>3, <2>2, <2>3, <2>4, <3>3
    <3>4. CASE i \notin DOMAIN s /\ j \notin DOMAIN s
      BY <2>2, <3>4
    <3>5. QED
      BY <3>1, <3>2, <3>3, <3>4
  <2>5. QED
    BY <2>4 DEF Memory!OneItemPerTask, u
<1>4. QED
  BY <1>2, <1>3

-----------------------------------------------------------------------------
(***************************************************************************)
(* The types are inductive by themselves; with them, so is NoDuplicates.   *)
(***************************************************************************)
LEMMA TypeStep == TypeOK /\ [Next]_vars => TypeOK'
<1> SUFFICES ASSUME TypeOK, [Next]_vars PROVE TypeOK'
  OBVIOUS
<1> USE DEF TypeOK, Places, Forms
<1>1. ASSUME NEW p \in Procs, NEW t \in Tasks, NEW st \in Statuses, Call(p, t, st)
      PROVE  TypeOK'
  <2>1. [task |-> t, status |-> st] \in Args
    BY DEF Args
  <2>2. NoCall \notin Args
    BY QueueAssumption DEF Args
  <2>3. arg' = [arg EXCEPT ![p] = [task |-> t, status |-> st]] /\ pc' = [pc EXCEPT ![p] = "read"]
    BY <1>1 DEF Call, Goto
  <2>4. arg' \in [Procs -> Args \cup {NoCall}]
    BY <2>1, <2>3
  <2>5. \A q \in Procs : pc'[q] # "idle" => arg'[q] # NoCall
    BY <2>1, <2>2, <2>3
  <2>6. QED
    BY <1>1, <2>3, <2>4, <2>5 DEF Call
<1>2. ASSUME NEW p \in Procs, ReadState(p) PROVE TypeOK'
  BY <1>2 DEF ReadState, Goto
<1>3. ASSUME NEW p \in Procs, OpenFile(p) PROVE TypeOK'
  BY <1>3 DEF OpenFile, Goto
<1>4. ASSUME NEW p \in Procs, WriteFile(p) PROVE TypeOK'
  <2>1. arg[p] \in Args
    BY <1>4 DEF WriteFile
  <2>2. arg[p].task \in Tasks /\ arg[p].status \in Statuses
    BY <2>1 DEF Args
  <2>3. Upserted(copy[p], arg[p].task, arg[p].status) \in Seq(Args)
    BY <2>2, UpsertedType
  <2>4. Upserted(acked, arg[p].task, arg[p].status) \in Seq(Args)
    BY <2>2, UpsertedType
  <2>5. file' \in [form : Forms, items : Seq(Args)]
    <3>1. \E items \in Seq(Args), form \in Forms : file' = [form |-> form, items |-> items]
      <4>1. <<>> \in Seq(Args)
        OBVIOUS
      <4>2. \/ file' = [form |-> "json", items |-> Upserted(copy[p], arg[p].task, arg[p].status)]
            \/ file' = [form |-> "corrupt", items |-> <<>>]
        BY <1>4 DEF WriteFile
      <4>3. QED
        BY <2>3, <4>1, <4>2
    <3>2. QED
      BY <3>1
  <2>6. QED
    BY <1>4, <2>4, <2>5 DEF WriteFile, Goto
<1>5. ASSUME NEW p \in Procs, Kill(p) PROVE TypeOK'
  BY <1>5 DEF Kill, Goto
<1>6. CASE UNCHANGED vars
  BY <1>6 DEF vars
<1>7. QED
  BY <1>1, <1>2, <1>3, <1>4, <1>5, <1>6 DEF Next

LEMMA NoDuplicatesStep == TypeOK /\ NoDuplicates /\ [Next]_vars => NoDuplicates'
<1> SUFFICES ASSUME TypeOK, NoDuplicates, [Next]_vars PROVE NoDuplicates'
  OBVIOUS
<1>0. Memory!OneItemPerTask(<<>>)
  BY DEF Memory!OneItemPerTask
<1>1. ASSUME NEW p \in Procs, NEW t \in Tasks, NEW st \in Statuses, Call(p, t, st)
      PROVE  NoDuplicates'
  BY <1>1 DEF Call, NoDuplicates
<1>2. ASSUME NEW p \in Procs, ReadState(p) PROVE NoDuplicates'
  BY <1>2 DEF ReadState, NoDuplicates, TypeOK
<1>3. ASSUME NEW p \in Procs, OpenFile(p) PROVE NoDuplicates'
  BY <1>0, <1>3 DEF OpenFile, NoDuplicates
<1>4. ASSUME NEW p \in Procs, WriteFile(p) PROVE NoDuplicates'
  <2>1. arg[p] \in Args
    BY <1>4 DEF WriteFile, TypeOK
  <2>2. arg[p].task \in Tasks /\ arg[p].status \in Statuses
    BY <2>1 DEF Args
  <2>3. Memory!OneItemPerTask(Upserted(copy[p], arg[p].task, arg[p].status))
    BY <2>2, UpsertedKeepsTasksApart DEF TypeOK, NoDuplicates
  <2>4. Memory!OneItemPerTask(file'.items)
    BY <1>0, <1>4, <2>3 DEF WriteFile
  <2>5. \A q \in Procs : Memory!OneItemPerTask(copy'[q])
    BY <1>0, <1>4 DEF WriteFile, TypeOK, NoDuplicates
  <2>6. QED
    BY <2>4, <2>5 DEF NoDuplicates
<1>5. ASSUME NEW p \in Procs, Kill(p) PROVE NoDuplicates'
  BY <1>0, <1>5 DEF Kill, NoDuplicates, TypeOK
<1>6. CASE UNCHANGED vars
  BY <1>6 DEF vars, NoDuplicates
<1>7. QED
  BY <1>1, <1>2, <1>3, <1>4, <1>5, <1>6 DEF Next

(* upsert keeps queue.json, its copies and its callers well typed, whoever
   interleaves with it or is killed. *)
THEOREM QueueTypeCorrect == Spec => []TypeOK
<1>1. Init => TypeOK
  <2> SUFFICES ASSUME Init PROVE TypeOK
    OBVIOUS
  <2>1. overlapped \in BOOLEAN
    BY DEF Init
  <2>2. file \in [form : Forms, items : Seq(Args)] /\ acked \in Seq(Args)
    BY DEF Init, Forms
  <2>3. pc \in [Procs -> Places] /\ \A p \in Procs : pc[p] = "idle"
    BY DEF Init, Places
  <2>4. arg \in [Procs -> Args \cup {NoCall}] /\ copy \in [Procs -> Seq(Args)]
    BY DEF Init
  <2>5. calls \in Nat /\ kills \in Nat
    BY DEF Init
  <2>6. QED
    BY <2>1, <2>2, <2>3, <2>4, <2>5 DEF TypeOK
<1>2. QED
  BY <1>1, TypeStep, PTL DEF Spec

(* However many unlocked commands read and rewrite queue.json, no task is in
   it twice: the find of upsert is enough for that, if not against losses. *)
THEOREM TasksQueuedOnce == Spec => []NoDuplicates
<1>1. Init => NoDuplicates
  BY DEF Init, NoDuplicates, Memory!OneItemPerTask
<1>2. QED
  BY <1>1, NoDuplicatesStep, QueueTypeCorrect, PTL DEF Spec

-----------------------------------------------------------------------------
(* A lone caller's upsert takes effect when it returns.  Whoever comes after it finds in
   queue.json what the calls that returned left there, or a file that does not parse; the
   one under way holds that, and from its truncation to its write nothing can be read. *)

Lone == \A p, q \in Procs : pc[p] # "idle" /\ pc[q] # "idle" => p = q

FileAcked ==
    /\ Parses => file.items = acked
    /\ \A p \in Procs :
           /\ pc[p] = "open" => Parses
           /\ pc[p] \in {"open", "write"} => copy[p] = acked
           /\ pc[p] = "write" => file.form = "empty"

RefineInv == ~overlapped => Lone /\ FileAcked

LEMMA RefineInit == Init => RefineInv
  BY DEF Init, RefineInv, Lone, FileAcked

LEMMA RefineStep == TypeOK /\ RefineInv /\ [Next]_vars => RefineInv'
<1> SUFFICES ASSUME TypeOK, RefineInv, [Next]_vars, ~overlapped' PROVE Lone' /\ FileAcked'
  BY DEF RefineInv
<1>types. pc \in [Procs -> Places] /\ copy \in [Procs -> Seq(Args)]
  BY DEF TypeOK
<1>before. Lone /\ FileAcked
  BY DEF RefineInv, Next, vars, Call, ReadState, OpenFile, WriteFile, Kill
<1>lone. ASSUME NEW p \in Procs, pc[p] # "idle", NEW place, Goto(p, place)
         PROVE  /\ Lone' /\ pc'[p] = place
                /\ \A r \in Procs \ {p} : pc[r] = "idle" /\ pc'[r] = "idle"
  BY <1>lone, <1>before, <1>types DEF Lone, Goto
<1>1. ASSUME NEW p \in Procs, NEW t \in Tasks, NEW st \in Statuses, Call(p, t, st)
      PROVE  Lone' /\ FileAcked'
  <2>1. \A q \in Procs : pc[q] = "idle"
    BY <1>1 DEF Call
  <2>2. pc'[p] = "read" /\ \A q \in Procs \ {p} : pc'[q] = "idle"
    BY <1>1, <2>1, <1>types DEF Call, Goto
  <2>3. Lone'
    BY <2>2 DEF Lone
  <2>4. FileAcked'
    BY <1>1, <2>2, <1>before DEF Call, FileAcked, Parses
  <2>5. QED
    BY <2>3, <2>4
<1>2. ASSUME NEW p \in Procs, ReadState(p) PROVE Lone' /\ FileAcked'
  <2>1. pc[p] = "read" /\ UNCHANGED <<file, acked>>
    BY <1>2 DEF ReadState
  <2>2. CASE Parses /\ copy' = [copy EXCEPT ![p] = file.items] /\ Goto(p, "open")
    <3>1. copy'[p] = acked
      BY <2>2, <1>before, <1>types DEF FileAcked
    <3>2. QED
      BY <2>1, <2>2, <3>1, <1>lone, <1>before DEF FileAcked, Parses
  <2>3. CASE ~Parses /\ Goto(p, "idle") /\ UNCHANGED copy
    BY <2>1, <2>3, <1>lone, <1>before DEF FileAcked, Parses
  <2>4. QED
    BY <1>2, <2>2, <2>3 DEF ReadState
<1>3. ASSUME NEW p \in Procs, OpenFile(p) PROVE Lone' /\ FileAcked'
  <2>1. /\ pc[p] = "open" /\ Goto(p, "write") /\ file' = [form |-> "empty", items |-> <<>>]
        /\ UNCHANGED <<acked, copy>>
    BY <1>3 DEF OpenFile
  <2>2. ~Parses'
    BY <2>1 DEF Parses
  <2>3. QED
    BY <2>1, <2>2, <1>lone, <1>before DEF FileAcked
<1>4. ASSUME NEW p \in Procs, WriteFile(p) PROVE Lone' /\ FileAcked'
  <2>1. pc[p] = "write" /\ Goto(p, "idle") /\ file.form = "empty" /\ copy[p] = acked
    BY <1>4, <1>before DEF WriteFile, FileAcked
  <2>2. /\ file'.items = Upserted(acked, arg[p].task, arg[p].status)
        /\ acked' = Upserted(acked, arg[p].task, arg[p].status)
    BY <1>4, <2>1 DEF WriteFile
  <2>3. QED
    BY <2>1, <2>2, <1>lone DEF FileAcked
<1>5. ASSUME NEW p \in Procs, Kill(p) PROVE Lone' /\ FileAcked'
  <2>1. pc[p] # "idle" /\ Goto(p, "idle") /\ UNCHANGED <<file, acked>>
    BY <1>5 DEF Kill
  <2>2. QED
    BY <2>1, <1>lone, <1>before DEF FileAcked, Parses
<1>6. CASE UNCHANGED vars
  BY <1>6, <1>before DEF vars, Lone, FileAcked, Parses
<1>7. QED
  BY <1>1, <1>2, <1>3, <1>4, <1>5, <1>6 DEF Next

\* What is read of queue.json is what the calls that returned left there.
ReadItems == IF ~overlapped /\ Parses THEN file.items ELSE acked

LEMMA ReadsWhatReturned == RefineInv => ReadItems = acked
  BY DEF RefineInv, FileAcked, ReadItems

(* A return maps to an upsert of the queue in memory; every other step leaves it alone. *)
LEMMA StepsImplementMemory ==
    TypeOK /\ RefineInv /\ RefineInv' /\ [Next]_vars => [Abstract!Next]_ReadItems
<1> SUFFICES ASSUME TypeOK, RefineInv, RefineInv', [Next]_vars PROVE [Abstract!Next]_ReadItems
  OBVIOUS
<1>1. ReadItems = acked /\ ReadItems' = acked'
  BY DEF RefineInv, FileAcked, ReadItems
<1>2. ASSUME NEW p \in Procs, WriteFile(p) PROVE Abstract!Next
  <2>1. pc[p] = "write" /\ arg[p] \in Args
    BY <1>2 DEF WriteFile, TypeOK
  <2>2. arg[p].task \in Tasks /\ arg[p].status \in Statuses
    BY <2>1 DEF Args
  <2>3. acked' = Abstract!Upserted(acked, arg[p].task, arg[p].status)
    BY <1>2 DEF WriteFile, Upserted, Memory!Upserted, Abstract!Upserted, Memory!IsFirst, Abstract!IsFirst
  <2>4. ReadItems' = Abstract!Upserted(ReadItems, arg[p].task, arg[p].status)
    BY <1>1, <2>3
  <2>5. Abstract!Upsert(arg[p].task, arg[p].status)
    BY <2>4 DEF Abstract!Upsert, ReadItems
  <2>6. QED
    BY <2>2, <2>5 DEF Abstract!Next
<1>3. ASSUME UNCHANGED acked PROVE UNCHANGED ReadItems
  BY <1>1, <1>3
<1>4. QED
  BY <1>2, <1>3 DEF Next, vars, Call, ReadState, OpenFile, Kill

(* FileTaskQueue.upsert, the file and the processes behind it, implements the queue in memory:
   as long as calls do not overlap, for any number of processes and of kills in the middle of
   a write, every upsert takes effect at once, in the order in which they return. *)
THEOREM QueueImplementsMemory == Spec => ImplementsMemory
<1>1. Init => Abstract!Init
  BY DEF Init, Abstract!Init
<1>2. TypeOK /\ RefineInv /\ RefineInv' /\ [Next]_vars => [Abstract!Next]_ReadItems
  BY StepsImplementMemory
<1>3. QED
  BY <1>1, <1>2, RefineInit, RefineStep, QueueTypeCorrect, PTL
     DEF Spec, ImplementsMemory, Abstract!Spec, ReadItems
=============================================================================
