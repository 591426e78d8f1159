---------------------------- MODULE Dashboard_proofs ----------------------------
(***************************************************************************)
(* The parts of the dashboard, each for any bounds and constants: the      *)
(* intervals of the watch screen, its selection and its log, the rows it   *)
(* makes of a task's files, the plans that it remembers, the activity log  *)
(* and the report of the tokens used.                                      *)
(***************************************************************************)
EXTENDS WatchScreen, TaskRows, PlanDetection, ActivityTail, UsageReport,
        SumLemmas, SequenceTheorems, FunctionTheorems, TLAPS

(***************************************************************************)
(* The watch screen: an interval never outlives its effect.                *)
(***************************************************************************)
EffectTypes ==
    /\ effects \in [Effects -> {"none", "starting", "ticking", "off"}]
    /\ current \in 0 .. MaxEffects
    /\ \A b \in builds : b.of \in 0 .. MaxEffects

IntervalInv == EffectTypes /\ OneInterval

LEMMA IntervalInit == WatchInit => IntervalInv
  BY WatchAssumption DEF WatchInit, IntervalInv, EffectTypes, OneInterval, Effects

(* The cleanup of the current effect leaves no interval at all. *)
LEMMA NoneAfterCleanup ==
    ASSUME IntervalInv, current # 0
    PROVE  /\ Ended \in [Effects -> {"none", "starting", "ticking", "off"}]
           /\ \A e \in Effects : Ended[e] # "ticking"
  BY DEF IntervalInv, EffectTypes, OneInterval, Ended, Effects

LEMMA IntervalStep == IntervalInv /\ [WatchNext]_watchVars => IntervalInv'
<1> SUFFICES ASSUME IntervalInv, [WatchNext]_watchVars PROVE IntervalInv'
  OBVIOUS
<1> USE DEF IntervalInv, EffectTypes, OneInterval
<1>1. ASSUME NEW e \in Effects, IntervalFires(e) PROVE IntervalInv'
  BY <1>1 DEF IntervalFires, Effects
<1>2. ASSUME NEW b \in builds, BuildEnds(b) PROVE IntervalInv'
  <2>1. b.of \in Effects /\ b.of # 0
    BY <1>2 DEF BuildEnds, Refresh, Effects
  <2>2. effects'[b.of] = (IF effects[b.of] = "starting" THEN AfterFirstBuild(b.of) ELSE effects[b.of])
        /\ \A e \in Effects \ {b.of} : effects'[e] = effects[e]
    BY <1>2, <2>1 DEF BuildEnds
  <2>3. current' = current /\ builds' \subseteq builds
    BY <1>2 DEF BuildEnds
  <2>4. effects' \in [Effects -> {"none", "starting", "ticking", "off"}]
    BY <1>2, <2>1 DEF BuildEnds, AfterFirstBuild
  <2>5. QED
    BY <2>1, <2>2, <2>3, <2>4 DEF AfterFirstBuild
<1>3. ASSUME NEW b \in builds, RefreshEnds(b) PROVE IntervalInv'
  BY <1>3 DEF RefreshEnds
<1>4. CASE PressPause
  <2>1. current # 0 /\ current < MaxEffects /\ current' = current + 1
        /\ effects' = [Ended EXCEPT ![current + 1] = "starting"]
        /\ builds' = builds \cup {[of |-> current + 1, found |-> fleet]}
    BY <1>4 DEF PressPause, Key
  <2>2. current + 1 \in Effects /\ current + 1 \in 0 .. MaxEffects
    BY <2>1, WatchAssumption DEF Effects
  <2>3. \A e \in Effects : effects'[e] # "ticking"
    BY <2>1, NoneAfterCleanup
  <2>4. QED
    BY <2>1, <2>2, <2>3, NoneAfterCleanup
<1>5. CASE PressQuit
  <2>1. current # 0 /\ effects' = Ended /\ current' = 0 /\ builds' = builds
    BY <1>5 DEF PressQuit, Key
  <2>2. QED
    BY <2>1, NoneAfterCleanup, WatchAssumption
<1>6. CASE PressRefresh
  <2>1. UNCHANGED <<effects, current>> /\ builds' = builds \cup {[of |-> 0, found |-> fleet]}
    BY <1>6 DEF PressRefresh, Refresh
  <2>2. \A b \in builds' : b.of \in 0 .. MaxEffects
    BY <2>1, WatchAssumption
  <2>3. QED
    BY <2>1, <2>2
<1>7. CASE \/ FleetChanges \/ LogGrows \/ PressSort \/ PressTab
           \/ \E step \in {-1, 1} : PressWorker(step)
           \/ \E by \in {-Window, -1, 1, Window} : PressScroll(by)
  BY <1>7 DEF FleetChanges, LogGrows, PressSort, PressTab, PressWorker, PressScroll
<1>8. CASE UNCHANGED watchVars
  BY <1>8 DEF watchVars
<1>9. QED
  BY <1>1, <1>2, <1>3, <1>4, <1>5, <1>6, <1>7, <1>8 DEF WatchNext

(* "callers can stop cleanly during tests or TUI unmount" (aggregator.ts): an interval
   runs only for the current effect, however late the first build of an earlier one
   ended, and none after the screen is closed. *)
THEOREM IntervalsStop == WatchSpec => []OneInterval
<1>1. IntervalInv => OneInterval
  BY DEF IntervalInv
<1>2. QED
  BY <1>1, IntervalInit, IntervalStep, PTL DEF WatchSpec

(***************************************************************************)
(* The rows.  "completed" comes into the files with a worker's exit only,  *)
(* and whatever a read puts together it found in some file.                *)
(***************************************************************************)
RowFiles == {"state"} \cup WorkerFiles
Places == {"idle", "start", "prepare", "launch", "spawn", "pid", "work", "beat", "exit", "record",
           "finish", "report", "settle", "stale", "dead"}

RowTypes ==
    /\ DOMAIN disk = RowFiles
    /\ runner \in [number : Nat, at : Places, pid : {runner.pid}, outcome : Outcomes \cup {None}]
    /\ reader.at # "idle" => "state" \in DOMAIN reader.got
    /\ reader = [at |-> reader.at, got |-> reader.got]

Completed == "completed" \in ended

\* No file, and nothing read or shown, is ahead of the workers.
OnlyWhatEnded ==
    /\ runner.outcome = "completed" => Completed
    /\ \A f \in {"state", "result"} :
          /\ disk[f] = "completed" => Completed
          /\ f \in DOMAIN reader.got /\ reader.got[f] = "completed" => Completed
    /\ row.status = "completed" => Completed

RowInv == RowTypes /\ OnlyWhatEnded

LEMMA RowInit == RowsInit => RowInv
  BY DEF RowsInit, RowInv, RowTypes, OnlyWhatEnded, RowFiles, Places, WorkerFiles, Idle, NoRead, NoRow, None

\* What the run writes into the two files that may say completed.
LEMMA WritingContent ==
    ASSUME RowInv, runner.at \in Places
    PROVE  LET w == Writing(runner.at) IN
           /\ w.file \in {"state", "result"} /\ w.content = "completed" => runner.outcome = "completed"
           /\ w.file # None => w.next \in (Places \ {"idle"}) \cup {"end", "recovered"}
  BY DEF Writing, StateAfter, RowInv, RowTypes, Outcomes, None, Places

LEMMA RowStep == RowInv /\ [RowsNext]_rowVars => RowInv'
<1> SUFFICES ASSUME RowInv, [RowsNext]_rowVars PROVE RowInv'
  OBVIOUS
<1> USE DEF RowInv, RowTypes, OnlyWhatEnded, Completed, RowFiles, WorkerFiles, Places, quietRun
<1>1. CASE StartRowRun
  BY <1>1 DEF StartRowRun, None
<1>2. CASE TruncateFile
  BY <1>2 DEF TruncateFile, Torn
<1>3. CASE WriteRowFile
  <2> DEFINE w == Writing(runner.at)
  <2>1. /\ w.file # None /\ disk' = [disk EXCEPT ![w.file] = w.content]
        /\ runner' = (IF w.next \in {"end", "recovered"} THEN [runner EXCEPT !.at = "idle"]
                                                         ELSE [runner EXCEPT !.at = w.next])
        /\ UNCHANGED <<ended, reader, row>>
    BY <1>3 DEF WriteRowFile
  <2>2. /\ w.file \in {"state", "result"} /\ w.content = "completed" => runner.outcome = "completed"
        /\ w.file # None => w.next \in (Places \ {"idle"}) \cup {"end", "recovered"}
    BY WritingContent
  <2> HIDE DEF w
  <2>3. RowTypes' /\ runner'.outcome = runner.outcome
    BY <2>1, <2>2
  <2>4. \A f \in {"state", "result"} : disk'[f] = "completed" => Completed
    BY <2>1, <2>2
  <2> QED BY <2>1, <2>3, <2>4
<1>4. CASE MakeWorkerDir \/ SpawnWorker \/ WorkerPrints
  BY <1>4 DEF MakeWorkerDir, SpawnWorker, WorkerPrints
<1>5. ASSUME NEW o \in Outcomes, WorkerExits(o) PROVE RowInv'
  BY <1>5 DEF WorkerExits
<1>6. CASE CommandDies \/ RecoverRow \/ \E process \in alive : ProcessEnds(process)
  BY <1>6 DEF CommandDies, RecoverRow, ProcessEnds
<1>7. CASE ReadTaskState
  BY <1>7 DEF ReadTaskState, Got, None
<1>8. CASE ReadWorkerIds
  <2>1. reader'.got = reader.got \/ reader'.got = [f \in RowFiles |-> IF f = "state" THEN reader.got["state"] ELSE None]
    BY <1>8 DEF ReadWorkerIds
  <2> QED BY <1>8, <2>1 DEF ReadWorkerIds, None
<1>9. ASSUME NEW f \in WorkerFiles, ReadWorkerFile(f) PROVE RowInv'
  BY <1>9 DEF ReadWorkerFile, Got, None
<1>10. CASE ShowRow
  <2>1. row'.status = "completed" => \E f \in {"state", "result"} : reader.got[f] = "completed"
    BY <1>10 DEF ShowRow, Annotated, WorkerStatus
  <2> QED BY <1>10, <2>1 DEF ShowRow, NoRead
<1>11. CASE UNCHANGED rowVars
  BY <1>11 DEF rowVars
<1> QED BY <1>1, <1>2, <1>3, <1>4, <1>5, <1>6, <1>7, <1>8, <1>9, <1>10, <1>11 DEF RowsNext

(* readTask puts a row together from files that are read one by one while a run writes them and
   may die at any of them: whichever it finds, a task is shown completed only if the worker of
   some run of it had completed. *)
THEOREM RowsAreBacked == RowsSpec => []CompletedRowIsBacked
<1>1. RowInv => CompletedRowIsBacked
  BY DEF RowInv, OnlyWhatEnded, Completed, CompletedRowIsBacked
<1> QED BY <1>1, RowInit, RowStep, PTL DEF RowsSpec

(***************************************************************************)
(* The plans.  A tick reads after it asked and remembers from when it      *)
(* asked, so what is remembered expires before it is too old.              *)
(***************************************************************************)
IsTick(x) == x \in [at : {x.at}, asked : Nat, keychain : {x.keychain}, value : {x.value}, readAt : Nat]

PlanTypes ==
    /\ clock \in Nat /\ age \in Nat
    /\ ticks = [t \in Ticks |-> ticks[t]] /\ \A t \in Ticks : IsTick(ticks[t])
    /\ known.readAt \in Nat /\ known.expiresAt \in Nat

ReadAfterAsking(x) ==
    /\ x.at \in {"read", "files", "answer"} => x.asked <= clock
    /\ x.at \in {"files", "answer"} => x.asked <= x.readAt /\ x.readAt <= clock

PlanInv ==
    /\ PlanTypes /\ PlanIsRecent
    /\ \A t \in Ticks : ReadAfterAsking(ticks[t])
    /\ known.readAt <= clock /\ known.expiresAt <= known.readAt + Ttl

LEMMA PlanInvInit == PlanInit => PlanInv
  BY PlanAssumption DEF IsTick, PlanInit, PlanInv, PlanTypes, PlanIsRecent, ReadAfterAsking, NoPlan, NoTick

\* What a tick's step makes of its record.
LEMMA TickFields ==
    ASSUME NEW y, IsTick(y), NEW at, NEW asked \in Nat, NEW k, NEW v, NEW r \in Nat
    PROVE  /\ LET x == [y EXCEPT !.at = at, !.asked = asked] IN
              IsTick(x) /\ x.at = at /\ x.asked = asked
           /\ LET x == [y EXCEPT !.at = at, !.keychain = k, !.readAt = r] IN
              IsTick(x) /\ x.at = at /\ x.asked = y.asked /\ x.readAt = r
           /\ LET x == [y EXCEPT !.at = at, !.value = v] IN
              IsTick(x) /\ x.at = at /\ x.asked = y.asked /\ x.readAt = y.readAt
           /\ LET x == [y EXCEPT !.at = at, !.value = v, !.readAt = r] IN
              IsTick(x) /\ x.at = at /\ x.asked = y.asked /\ x.readAt = r
<1>1. PICK A, K, V : y \in [at : A, asked : Nat, keychain : K, value : V, readAt : Nat]
  BY DEF IsTick
<1> QED BY <1>1 DEF IsTick

\* A step that gives one tick a new record.
LEMMA OneTick ==
    ASSUME PlanInv, NEW t \in Ticks, NEW x, IsTick(x), ReadAfterAsking(x),
           ticks' = [ticks EXCEPT ![t] = x], UNCHANGED clock
    PROVE  /\ \A u \in Ticks : ReadAfterAsking(ticks[u])'
           /\ ticks' = [u \in Ticks |-> ticks'[u]] /\ \A u \in Ticks : IsTick(ticks[u])'
<1>1. \A u \in Ticks : ticks'[u] = IF u = t THEN x ELSE ticks[u]
  BY DEF PlanInv, PlanTypes
<1>2. \A u \in Ticks : IsTick(ticks[u]) /\ ReadAfterAsking(ticks[u])
  BY DEF PlanInv, PlanTypes
<1>3. ticks' = [u \in Ticks |-> ticks'[u]]
  BY DEF PlanInv, PlanTypes
<1> QED BY <1>1, <1>2, <1>3 DEF IsTick, ReadAfterAsking

\* The same, when nothing else changes that the invariant is about.
LEMMA OnlyOneTick ==
    ASSUME PlanInv, NEW t \in Ticks, NEW x, IsTick(x), ReadAfterAsking(x),
           ticks' = [ticks EXCEPT ![t] = x], UNCHANGED <<clock, known, age>>
    PROVE  PlanInv'
<1>1. PlanTypes'
  BY OneTick DEF PlanInv, PlanTypes
<1> QED BY <1>1, OneTick DEF PlanInv, PlanIsRecent

LEMMA PlanStep == PlanInv /\ [PlanNext]_planVars => PlanInv'
<1> SUFFICES ASSUME PlanInv, [PlanNext]_planVars PROVE PlanInv'
  OBVIOUS
<1> USE PlanAssumption
<1>1. CASE PlanClock
  BY <1>1 DEF PlanClock, PlanInv, PlanTypes, PlanIsRecent, ReadAfterAsking, IsTick
<1>2. CASE LoginChanges
  BY <1>2 DEF LoginChanges, PlanInv, PlanTypes, PlanIsRecent, ReadAfterAsking
<1>3. ASSUME NEW t \in Ticks, AskPlan(t) PROVE PlanInv'
  <2>1. CASE known.expiresAt > clock
    <3>1. age' = clock - known.readAt /\ UNCHANGED <<clock, known, ticks>>
      BY <1>3, <2>1 DEF AskPlan
    <3> QED BY <2>1, <3>1 DEF PlanInv, PlanTypes, PlanIsRecent, ReadAfterAsking
  <2>2. CASE ~(known.expiresAt > clock)
    <3> DEFINE x == [NoTick EXCEPT !.at = "read", !.asked = clock]
    <3>1. UNCHANGED <<clock, known, age>> /\ ticks' = [ticks EXCEPT ![t] = x]
      BY <1>3, <2>2 DEF AskPlan
    <3>2. IsTick(x) /\ x.asked = clock /\ x.at = "read"
      <4>1. IsTick(NoTick)
        BY DEF NoTick, IsTick
      <4> QED BY <4>1, TickFields DEF IsTick, PlanInv, PlanTypes
    <3>3. ReadAfterAsking(x)
      BY <3>2 DEF ReadAfterAsking, PlanInv, PlanTypes
    <3> HIDE DEF x
    <3> QED BY <1>3, <3>1, <3>2, <3>3, OnlyOneTick
  <2> QED BY <2>1, <2>2
<1>4. ASSUME NEW t \in Ticks, ReadKeychain(t) PROVE PlanInv'
  <2> DEFINE x == [ticks[t] EXCEPT !.at = "files", !.keychain = login.keychain, !.readAt = clock]
  <2>1. ticks[t].at = "read" /\ UNCHANGED <<clock, known, age>> /\ ticks' = [ticks EXCEPT ![t] = x]
    BY <1>4 DEF ReadKeychain, PlanInv, PlanTypes
  <2>2. IsTick(x) /\ x.asked = ticks[t].asked /\ x.readAt = clock /\ x.at = "files"
    <3>1. IsTick(ticks[t]) /\ clock \in Nat
      BY <1>4 DEF PlanInv, PlanTypes
    <3> QED BY <3>1, TickFields DEF IsTick
  <2>3. ReadAfterAsking(x)
    BY <2>1, <2>2 DEF ReadAfterAsking, PlanInv, PlanTypes
  <2> HIDE DEF x
  <2> QED BY <1>4, <2>1, <2>2, <2>3, OnlyOneTick
<1>5. ASSUME NEW t \in Ticks, ReadLogin(t) PROVE PlanInv'
  <2>1. UNCHANGED <<clock, known, age>> /\ IsTick(ticks[t])
    BY <1>5 DEF ReadLogin, PlanInv, PlanTypes
  <2>2. CASE ticks[t].at = "files"
    <3> DEFINE value == Claude([login EXCEPT !.keychain = ticks[t].keychain])
               x == [ticks[t] EXCEPT !.at = "answer", !.value = value]
    <3>1. ticks' = [ticks EXCEPT ![t] = x]
      BY <1>5, <2>2 DEF ReadLogin, PlanInv, PlanTypes
    <3> HIDE DEF value
    <3>2. IsTick(x) /\ x.asked = ticks[t].asked /\ x.readAt = ticks[t].readAt
      BY <2>1, TickFields DEF IsTick
    <3>3. ReadAfterAsking(x)
      BY <1>5, <2>2, <3>2 DEF ReadAfterAsking, PlanInv, PlanTypes
    <3> HIDE DEF x
    <3> QED BY <1>5, <2>1, <3>1, <3>2, <3>3, OnlyOneTick
  <2>3. CASE ticks[t].at = "read"
    <3> DEFINE value == Found(provider, login)
               x == [ticks[t] EXCEPT !.at = "answer", !.value = value, !.readAt = clock]
    <3>1. ticks' = [ticks EXCEPT ![t] = x]
      BY <1>5, <2>3 DEF ReadLogin, PlanInv, PlanTypes
    <3> HIDE DEF value
    <3>2. IsTick(x) /\ x.asked = ticks[t].asked /\ x.readAt = clock
      BY <2>1, TickFields DEF IsTick, PlanInv, PlanTypes
    <3>3. ReadAfterAsking(x)
      BY <1>5, <2>3, <3>2 DEF ReadAfterAsking, PlanInv, PlanTypes
    <3> HIDE DEF x
    <3> QED BY <1>5, <2>1, <3>1, <3>2, <3>3, OnlyOneTick
  <2> QED BY <1>5, <2>2, <2>3 DEF ReadLogin
<1>6. ASSUME NEW t \in Ticks, RememberPlan(t) PROVE PlanInv'
  <2>1. /\ ticks[t].at = "answer" /\ UNCHANGED <<clock, age>> /\ ticks' = [ticks EXCEPT ![t] = NoTick]
        /\ known'.readAt = ticks[t].readAt /\ known'.expiresAt = ticks[t].asked + Ttl
    BY <1>6 DEF RememberPlan, Expiry
  <2>2. IsTick(NoTick) /\ ReadAfterAsking(NoTick)
    BY DEF NoTick, IsTick, ReadAfterAsking
  <2>3. IsTick(ticks[t]) /\ ReadAfterAsking(ticks[t])
    BY <1>6 DEF PlanInv, PlanTypes
  <2>4. known'.readAt \in Nat /\ known'.expiresAt \in Nat
        /\ known'.readAt <= clock /\ known'.expiresAt <= known'.readAt + Ttl
    BY <2>1, <2>3 DEF IsTick, ReadAfterAsking, PlanInv, PlanTypes
  <2>5. PlanTypes'
    BY <1>6, <2>1, <2>2, <2>4, OneTick DEF PlanInv, PlanTypes
  <2> QED BY <1>6, <2>1, <2>2, <2>4, <2>5, OneTick DEF PlanInv, PlanIsRecent
<1>7. CASE UNCHANGED planVars
  BY <1>7 DEF planVars, PlanInv, PlanTypes, PlanIsRecent, ReadAfterAsking
<1> QED BY <1>1, <1>2, <1>3, <1>4, <1>5, <1>6, <1>7 DEF PlanNext

(* detectPlanForProvider takes the time before it reads anything: whichever ticks are still
   looking, no answer is given from memory that was read longer ago than CACHE_TTL_MS. *)
THEOREM RememberedPlanIsRecent == PlanSpec => []PlanIsRecent
<1>1. PlanInv => PlanIsRecent
  BY DEF PlanInv
<1> QED BY <1>1, PlanInvInit, PlanStep, PTL DEF PlanSpec

(***************************************************************************)
(* The watch screen: the rows at some places of a table, what is selected  *)
(* among those shown, and the log that goes with it.                       *)
(***************************************************************************)
LEMMA NthIsThere ==
    ASSUME NEW m \in Nat, NEW I \in SUBSET (1 .. m)
    PROVE  /\ IsFiniteSet(I) /\ Cardinality(I) \in Nat
           /\ \A n \in 1 .. Cardinality(I) :
                  NthOf(I, n) \in I /\ Cardinality({j \in I : j <= NthOf(I, n)}) = n
           /\ \A i \in I : \E n \in 1 .. Cardinality(I) : NthOf(I, n) = i
<1> DEFINE Up(i) == {j \in I : j <= i}
           rank == [i \in I |-> Cardinality(Up(i))]
           N == 1 .. Cardinality(I)
<1>1. IsFiniteSet(1 .. m)
  BY FS_Interval
<1>2. IsFiniteSet(I)
  BY <1>1, FS_Subset
<1>3. Cardinality(I) \in Nat
  BY <1>2, FS_CardinalityType
<1>4. \A i \in I : Up(i) \in SUBSET I /\ i \in Up(i) /\ I \in SUBSET Nat
  OBVIOUS
<1>5. \A i \in I : IsFiniteSet(Up(i)) /\ Cardinality(Up(i)) \in N
  <2> SUFFICES ASSUME NEW i \in I PROVE IsFiniteSet(Up(i)) /\ Cardinality(Up(i)) \in N
    OBVIOUS
  <2>1. IsFiniteSet(Up(i)) /\ Cardinality(Up(i)) <= Cardinality(I)
    BY <1>2, <1>4, FS_Subset
  <2>2. Cardinality(Up(i)) \in Nat /\ Cardinality(Up(i)) # 0
    BY <1>4, <2>1, FS_CardinalityType, FS_EmptySet
  <2> QED
    BY <1>3, <2>1, <2>2
<1>6. \A i, k \in I : Cardinality(Up(i)) = Cardinality(Up(k)) => i = k
  <2> SUFFICES ASSUME NEW i \in I, NEW k \in I, Cardinality(Up(i)) = Cardinality(Up(k)), i < k PROVE FALSE
    BY <1>4
  <2>1. Up(i) \in SUBSET Up(k) /\ k \notin Up(i) /\ k \in Up(k)
    <3>1. \A j \in I : j \in Nat
      OBVIOUS
    <3>2. \A j \in I : j <= i => j <= k
      BY <3>1
    <3>3. ~(k <= i) /\ k <= k
      BY <3>1
    <3> QED
      BY <3>2, <3>3
  <2> QED
    BY <1>5, <2>1, FS_Subset
<1>7. rank \in Injection(I, N)
  BY <1>5, <1>6 DEF Injection, IsInjective
<1>8. IsFiniteSet(N) /\ Cardinality(N) = Cardinality(I)
  BY <1>3, FS_Interval
<1>9. rank \in Surjection(I, N)
  BY <1>7, <1>8, FS_Injection
<1>10. \A n \in N : \E i \in I : Cardinality(Up(i)) = n
  BY <1>9 DEF Surjection
<1>11. \A n \in N : NthOf(I, n) \in I /\ Cardinality(Up(NthOf(I, n))) = n
  BY <1>10 DEF NthOf
<1>12. \A i \in I : Cardinality(Up(i)) \in N /\ NthOf(I, Cardinality(Up(i))) = i
  BY <1>5, <1>6, <1>11
<1> QED
  BY <1>2, <1>3, <1>11, <1>12

\* They are rows of the table, all that are meant, and each once.
LEMMA RowsAtFacts ==
    ASSUME NEW f, IsTable(f), NEW I \in SUBSET DOMAIN f
    PROVE  /\ IsTable(RowsAt(f, I)) /\ RowsAt(f, I) \in Seq({f[i] : i \in DOMAIN f})
           /\ Len(RowsAt(f, I)) = Cardinality(I) /\ Cardinality(I) \in Nat /\ IsFiniteSet(I)
           /\ \A n \in DOMAIN RowsAt(f, I) : \E i \in I : RowsAt(f, I)[n] = f[i]
           /\ \A i \in I : \E n \in DOMAIN RowsAt(f, I) : RowsAt(f, I)[n] = f[i]
<1> DEFINE rows == RowsAt(f, I)
<1>1. Len(f) \in Nat /\ I \in SUBSET (1 .. Len(f))
  BY DEF IsTable
<1>2. /\ IsFiniteSet(I) /\ Cardinality(I) \in Nat
      /\ \A n \in 1 .. Cardinality(I) : NthOf(I, n) \in I
      /\ \A n, k \in 1 .. Cardinality(I) : NthOf(I, n) = NthOf(I, k) => n = k
      /\ \A i \in I : \E n \in 1 .. Cardinality(I) : NthOf(I, n) = i
  <2>1. /\ IsFiniteSet(I) /\ Cardinality(I) \in Nat
        /\ \A n \in 1 .. Cardinality(I) :
               NthOf(I, n) \in I /\ Cardinality({j \in I : j <= NthOf(I, n)}) = n
        /\ \A i \in I : \E n \in 1 .. Cardinality(I) : NthOf(I, n) = i
    BY <1>1, NthIsThere
  <2>2. ASSUME NEW n \in 1 .. Cardinality(I), NEW k \in 1 .. Cardinality(I), NthOf(I, n) = NthOf(I, k)
        PROVE  n = k
    BY <2>1, <2>2
  <2> QED
    BY <2>1, <2>2
<1>3. rows = [n \in 1 .. Cardinality(I) |-> f[NthOf(I, n)]]
  BY DEF RowsAt
<1>4. rows \in [1 .. Cardinality(I) -> {f[i] : i \in DOMAIN f}]
  BY <1>2, <1>3
<1>5. rows \in Seq({f[i] : i \in DOMAIN f}) /\ Len(rows) = Cardinality(I) /\ DOMAIN rows = 1 .. Cardinality(I)
  BY <1>2, <1>4
<1>6. \A n \in 1 .. Cardinality(I) : rows[n] = f[NthOf(I, n)]
  BY <1>3
<1> HIDE DEF rows
<1>7. IsTable(rows)
  <2>1. \A n \in DOMAIN rows : rows[n].status \in RowStatuses
    BY <1>2, <1>5, <1>6 DEF IsTable
  <2>2. \A n, k \in DOMAIN rows : rows[n].worker = rows[k].worker => n = k
    BY <1>2, <1>5, <1>6 DEF IsTable
  <2> QED
    BY <1>2, <1>5, <2>1, <2>2 DEF IsTable
<1>8. /\ \A n \in DOMAIN rows : \E i \in I : rows[n] = f[i]
      /\ \A i \in I : \E n \in DOMAIN rows : rows[n] = f[i]
  BY <1>2, <1>5, <1>6
<1> QED
  BY <1>2, <1>5, <1>7, <1>8 DEF rows

LEMMA VisibleFacts ==
    ASSUME NEW f \in Fleets
    PROVE  IsTable(Visible(f)) /\ \A n \in DOMAIN Visible(f) : Visible(f)[n].worker \in Workers
<1> DEFINE I == {i \in DOMAIN f : f[i].worker \in TaskFilter}
<1>1. IsTable(f) /\ I \in SUBSET DOMAIN f
  BY WatchAssumption
<1>2. \A i \in DOMAIN f : f[i].worker \in Workers
  BY DEF Workers
<1>3. Visible(f) = RowsAt(f, I)
  BY DEF Visible
<1> HIDE DEF I
<1>4. IsTable(RowsAt(f, I)) /\ \A n \in DOMAIN RowsAt(f, I) : \E i \in I : RowsAt(f, I)[n] = f[i]
  BY <1>1, RowsAtFacts
<1>5. \A n \in DOMAIN RowsAt(f, I) : RowsAt(f, I)[n].worker \in Workers
  BY <1>1, <1>2, <1>4
<1> QED
  BY <1>3, <1>4, <1>5

\* Sorting loses no row.
LEMMA SortedFacts ==
    ASSUME NEW rows, IsTable(rows), NEW m
    PROVE  /\ Len(Sorted(rows, m)) = Len(rows) /\ DOMAIN Sorted(rows, m) = 1 .. Len(rows)
           /\ Sorted(rows, m) = <<>> <=> rows = <<>>
<1> DEFINE I == Running(rows)
           J == DOMAIN rows \ Running(rows)
           a == RowsAt(rows, I)
           b == RowsAt(rows, J)
<1>0. Len(rows) \in Nat /\ DOMAIN rows = 1 .. Len(rows)
  BY DEF IsTable
<1>1. CASE m = "default"
  BY <1>0, <1>1 DEF Sorted
<1>2. CASE m # "default"
  <2>1. Sorted(rows, m) = a \o b
    BY <1>2 DEF Sorted
  <2>2. I \in SUBSET DOMAIN rows /\ J \in SUBSET DOMAIN rows
    BY DEF Running
  <2>3. /\ a \in Seq({rows[i] : i \in DOMAIN rows}) /\ Len(a) = Cardinality(I) /\ IsFiniteSet(I) /\ Cardinality(I) \in Nat
        /\ b \in Seq({rows[i] : i \in DOMAIN rows}) /\ Len(b) = Cardinality(J) /\ IsFiniteSet(J) /\ Cardinality(J) \in Nat
    <3> HIDE DEF I, J
    <3> QED
      BY <2>2, RowsAtFacts
  <2>4. Cardinality(I) + Cardinality(J) = Len(rows)
    <3> DEFINE n == Len(rows)
    <3>0. n \in Nat
      BY <1>0
    <3> HIDE DEF n
    <3>1. Cardinality(1 .. n) = n /\ IsFiniteSet(1 .. n)
      BY <3>0, FS_Interval
    <3>2. (1 .. n) \cap I = I /\ J = (1 .. n) \ I
      BY <1>0, <2>2 DEF n
    <3> HIDE DEF I, J
    <3>3. Cardinality(J) = Cardinality(1 .. n) - Cardinality((1 .. n) \cap I)
      BY <3>1, <3>2, FS_Difference
    <3>4. Cardinality((1 .. n) \cap I) = Cardinality(I)
      BY <3>2
    <3>5. Cardinality(I) + Cardinality(J) = n
      BY <2>3, <3>0, <3>1, <3>3, <3>4
    <3> QED
      BY <3>5 DEF n
  <2> HIDE DEF a, b
  <2>5. a \o b \in Seq({rows[i] : i \in DOMAIN rows}) /\ Len(a \o b) = Len(rows)
    BY <2>3, <2>4
  <2>6. DOMAIN (a \o b) = 1 .. Len(rows)
    BY <2>5
  <2>7. a \o b = <<>> <=> rows = <<>>
    <3>1. a \o b = <<>> <=> Len(rows) = 0
      BY <2>5
    <3>2. rows = <<>> <=> Len(rows) = 0
      BY <1>0
    <3> QED
      BY <3>1, <3>2
  <2> QED
    BY <2>1, <2>5, <2>6, <2>7
<1> QED
  BY <1>1, <1>2

LEMMA ScrollFacts ==
    ASSUME NEW at \in Int, NEW n \in Nat PROVE InRange(at, n) \in 0 .. Greater(0, n - Window)
  BY WatchAssumption DEF InRange, Greater, Lesser

LEMMA SelectionFacts ==
    ASSUME NEW rows, IsTable(rows), NEW m, NEW at \in Nat
    PROVE  LET sorted == Sorted(rows, m) IN
           /\ Selection(sorted, at) \in 0 .. Greater(0, Len(rows) - 1)
           /\ ~picked /\ Running(sorted) # {} => sorted[Selection(sorted, at) + 1].status = "running"
<1> DEFINE sorted == Sorted(rows, m)
           n == Len(rows)
<1>1. n \in Nat /\ Len(sorted) = n /\ DOMAIN sorted = 1 .. n /\ (sorted = <<>> <=> rows = <<>>)
  BY SortedFacts DEF IsTable
<1>2. rows = <<>> <=> n = 0
  BY DEF IsTable
<1> HIDE DEF sorted, n
<1>3. CASE sorted = <<>>
  <2>1. Running(sorted) = {}
    BY <1>3 DEF Running
  <2>2. Selection(sorted, at) = 0
    BY <1>3 DEF Selection
  <2> QED
    BY <1>1, <1>2, <1>3, <2>1, <2>2 DEF sorted, n, Greater
<1>4. CASE sorted # <<>> /\ picked
  <2>1. Selection(sorted, at) = Lesser(at, n - 1)
    BY <1>1, <1>4 DEF Selection
  <2>2. n - 1 \in Nat
    BY <1>1, <1>2, <1>4
  <2>3. Lesser(at, n - 1) \in 0 .. Greater(0, n - 1)
    BY <2>2 DEF Lesser, Greater
  <2> QED
    BY <1>4, <2>1, <2>3 DEF sorted, n
<1>5. CASE sorted # <<>> /\ ~picked /\ Running(sorted) = {}
  <2>1. Selection(sorted, at) = 0
    BY <1>5 DEF Selection
  <2>2. 0 \in 0 .. Greater(0, n - 1)
    BY <1>1 DEF Greater
  <2> QED
    BY <1>5, <2>1, <2>2 DEF sorted, n
<1>6. CASE sorted # <<>> /\ ~picked /\ Running(sorted) # {}
  <2> DEFINE first == CHOOSE i \in Running(sorted) : \A j \in Running(sorted) : i <= j
  <2>1. Running(sorted) \in SUBSET Nat /\ Running(sorted) \in SUBSET (1 .. n)
    BY <1>1 DEF Running
  <2>2. \E i \in Running(sorted) : \A j \in Running(sorted) : i <= j
    BY <1>6, <2>1, LeastNumber
  <2>3. first \in Running(sorted)
    BY <2>2
  <2>4. Selection(sorted, at) = first - 1
    BY <1>6 DEF Selection
  <2> HIDE DEF first
  <2>5. first \in 1 .. n /\ first - 1 + 1 = first /\ first - 1 \in 0 .. Greater(0, n - 1)
    BY <1>1, <2>1, <2>3 DEF Greater
  <2>6. sorted[first].status = "running"
    BY <2>3 DEF Running
  <2> QED
    BY <2>4, <2>5, <2>6 DEF sorted, n
<1> QED
  BY <1>3, <1>4, <1>5, <1>6

-----------------------------------------------------------------------------
(* What is on screen. *)

Told == RowStatuses \cup {Untold, Spawned}

ScreenTypes ==
    /\ fleet \in Fleets /\ \A b \in builds : b.found \in Fleets
    /\ IsTable(screen) /\ \A i \in DOMAIN screen : screen[i].worker \in Workers
    /\ focus \in Panes /\ entries \in Nat
    /\ offset \in [Panes -> Int]
    /\ lastLine \in [Workers -> Told] /\ firstSeen \in [Workers -> Told]
    /\ blanked \in BOOLEAN

\* What the next snapshot is compared with is what is shown, and a first one finds no line.
LogInv ==
    /\ previous = screen
    /\ screen = <<>> => blanked \/ \A w \in Workers : lastLine[w] = Untold
    /\ LogKeepsUp

ScreenInv == ScreenTypes /\ SelectionInRange /\ LogInv

LEMMA ScreenInit == WatchInit => ScreenInv
<1> SUFFICES ASSUME WatchInit PROVE ScreenInv
  OBVIOUS
<1>1. IsTable(<<>>) /\ DOMAIN <<>> = {} /\ Len(<<>>) = 0
  BY DEF IsTable
<1>2. ScreenTypes
  <2>1. offset \in [Panes -> Int] /\ \A b \in builds : b.found \in Fleets
    BY DEF WatchInit, Panes
  <2> QED
    BY <1>1, <2>1 DEF WatchInit, ScreenTypes, Told, Panes
<1>3. SelectionInRange
  <2>1. Greater(0, 0 - 1) = 0 /\ Greater(0, 0 - Window) = 0
    BY WatchAssumption DEF Greater
  <2>2. Running(Sorted(<<>>, "default")) = {}
    BY <1>1 DEF Sorted, Running
  <2>3. 0 \in 0 .. 0
    OBVIOUS
  <2>4. screen = <<>> /\ mode = "default" /\ selected = 0 /\ entries = 0 /\ \A p \in Panes : offset[p] = 0
    BY DEF WatchInit
  <2> QED
    BY <1>1, <2>1, <2>2, <2>3, <2>4 DEF SelectionInRange, Length
<1>4. LogInv
  BY <1>1 DEF WatchInit, LogInv, LogKeepsUp
<1> QED
  BY <1>2, <1>3, <1>4 DEF ScreenInv

LEMMA StatusFacts ==
    ASSUME NEW rows, IsTable(rows), NEW i \in DOMAIN rows
    PROVE  StatusOf(rows, rows[i].worker) = {rows[i].status}
  BY DEF IsTable, StatusOf

LEMMA ShowStep ==
    ASSUME ScreenInv, NEW f \in Fleets, Show(f), UNCHANGED <<mode, picked, focus, entries>>
    PROVE  /\ IsTable(screen') /\ \A i \in DOMAIN screen' : screen'[i].worker \in Workers
           /\ offset' \in [Panes -> Int] /\ lastLine' \in [Workers -> Told] /\ firstSeen' \in [Workers -> Told]
           /\ blanked' \in BOOLEAN
           /\ SelectionInRange' /\ LogInv'
<1> DEFINE rows == Visible(f)
<1>1. IsTable(rows) /\ \A i \in DOMAIN rows : rows[i].worker \in Workers
  BY VisibleFacts
<1> HIDE DEF rows
<1>2. /\ screen' = rows /\ previous' = rows
      /\ blanked' = (blanked \/ (screen # <<>> /\ rows = <<>>))
      /\ selected' = Selection(Sorted(rows, mode), selected)
      /\ offset' = [offset EXCEPT !["table"] = InRange(@, Len(rows))]
  BY DEF Show, Remembered, rows
<1>3. /\ lastLine' = [w \in Workers |->
             IF StatusOf(rows, w) = {} THEN lastLine[w]
             ELSE Line(w, CHOOSE s \in StatusOf(rows, w) : TRUE)]
      /\ firstSeen' = [w \in Workers |->
             IF StatusOf(rows, w) # {} /\ StatusOf(screen, w) = {}
             THEN CHOOSE s \in StatusOf(rows, w) : TRUE ELSE firstSeen[w]]
  BY DEF Show, rows
<1>before. /\ IsTable(screen) /\ lastLine \in [Workers -> Told] /\ firstSeen \in [Workers -> Told]
           /\ previous = screen /\ SelectionInRange /\ LogKeepsUp /\ LogInv
           /\ offset \in [Panes -> Int] /\ entries \in Nat /\ blanked \in BOOLEAN
  BY DEF ScreenInv, ScreenTypes, LogInv
<1>4. \A w \in Workers : StatusOf(rows, w) # {} => (CHOOSE s \in StatusOf(rows, w) : TRUE) \in RowStatuses
  <2>1. \A w \in Workers : StatusOf(rows, w) \in SUBSET RowStatuses
    BY <1>1 DEF StatusOf, IsTable
  <2> QED
    BY <2>1
<1>5. lastLine' \in [Workers -> Told] /\ firstSeen' \in [Workers -> Told]
  <2>1. \A w \in Workers, s \in RowStatuses : Line(w, s) \in Told
    BY <1>before DEF Line, Told
  <2> QED
    BY <1>3, <1>4, <1>before, <2>1 DEF Told
<1>6. \A i \in DOMAIN rows : LET w == rows[i].worker IN
          /\ lastLine'[w] = Line(w, rows[i].status)
          /\ firstSeen'[w] = IF StatusOf(screen, w) = {} THEN rows[i].status ELSE firstSeen[w]
  <2> SUFFICES ASSUME NEW i \in DOMAIN rows
               PROVE  LET w == rows[i].worker IN
                      /\ lastLine'[w] = Line(w, rows[i].status)
                      /\ firstSeen'[w] = IF StatusOf(screen, w) = {} THEN rows[i].status ELSE firstSeen[w]
    OBVIOUS
  <2>1. StatusOf(rows, rows[i].worker) = {rows[i].status} /\ rows[i].worker \in Workers
    BY <1>1, StatusFacts
  <2>2. (CHOOSE s \in StatusOf(rows, rows[i].worker) : TRUE) = rows[i].status
    BY <2>1
  <2> QED
    BY <1>3, <2>1, <2>2
<1>7. LogInv'
  <2>1. \A i \in DOMAIN screen : LET w == screen[i].worker IN
            blanked \/ IF lastLine[w] \in {Untold, Spawned} THEN screen[i].status = firstSeen[w]
                       ELSE screen[i].status = lastLine[w]
    BY <1>before DEF LogKeepsUp
  <2>2. ASSUME NEW i \in DOMAIN rows, ~blanked'
        PROVE  LET w == rows[i].worker IN
               IF lastLine'[w] \in {Untold, Spawned} THEN rows[i].status = firstSeen'[w]
               ELSE rows[i].status = lastLine'[w]
    <3> DEFINE w == rows[i].worker
               st == rows[i].status
    <3>1. w \in Workers /\ st \in RowStatuses /\ ~blanked
      BY <1>1, <1>2, <1>before, <2>2 DEF IsTable
    <3>2. lastLine'[w] = Line(w, st) /\ firstSeen'[w] = IF StatusOf(screen, w) = {} THEN st ELSE firstSeen[w]
      BY <1>6
    <3>3. Was(w) = StatusOf(screen, w)
      BY <1>before DEF Was, StatusOf
    <3> HIDE DEF w, st
    <3>4. CASE previous = <<>>
      <4>1. screen = <<>> /\ DOMAIN screen = {}
        BY <1>before, <3>4
      <4>2. StatusOf(screen, w) = {} /\ lastLine[w] = Untold
        BY <1>before, <3>1, <4>1 DEF StatusOf, LogInv
      <4> QED
        BY <3>2, <3>4, <4>2 DEF Line, w, st
    <3>5. CASE previous # <<>> /\ StatusOf(screen, w) = {}
      BY <3>2, <3>3, <3>5 DEF Line, w, st
    <3>6. CASE previous # <<>> /\ StatusOf(screen, w) # {}
      <4>1. PICK j \in DOMAIN screen : screen[j].worker = w
        BY <3>6 DEF StatusOf
      <4>2. StatusOf(screen, w) = {screen[j].status}
        BY <1>before, <4>1, StatusFacts
      <4>3. IF lastLine[w] \in {Untold, Spawned} THEN screen[j].status = firstSeen[w]
            ELSE screen[j].status = lastLine[w]
        BY <2>1, <3>1, <4>1
      <4>4. CASE screen[j].status = st
        BY <3>2, <3>3, <3>6, <4>2, <4>3, <4>4 DEF Line, w, st
      <4>5. CASE screen[j].status # st
        <5>1. lastLine'[w] = st
          BY <3>2, <3>3, <3>6, <4>2, <4>5 DEF Line
        <5>2. st \notin {Untold, Spawned}
          BY <3>1 DEF RowStatuses, Untold, Spawned
        <5> QED
          BY <5>1, <5>2 DEF w, st
      <4> QED
        BY <4>4, <4>5
    <3> QED
      BY <3>4, <3>5, <3>6
  <2>3. LogKeepsUp'
    BY <1>2, <2>2 DEF LogKeepsUp
  <2>4. ASSUME rows = <<>>, ~blanked' PROVE \A w \in Workers : lastLine'[w] = Untold
    <3>1. screen = <<>> /\ ~blanked
      BY <1>2, <1>before, <2>4
    <3>2. \A w \in Workers : StatusOf(rows, w) = {}
      <4>1. DOMAIN rows = {}
        BY <2>4
      <4> QED
        BY <4>1 DEF StatusOf
    <3> QED
      BY <1>3, <1>before, <3>1, <3>2 DEF LogInv
  <2> QED
    BY <1>2, <2>3, <2>4 DEF LogInv
<1>8. Len(rows) \in Nat
  BY <1>1 DEF IsTable
<1>9. offset' \in [Panes -> Int] /\ \A p \in Panes : offset'[p] =
          IF p = "table" THEN InRange(offset[p], Len(rows)) ELSE offset[p]
  <2>1. "table" \in Panes /\ InRange(offset["table"], Len(rows)) \in Int
    BY <1>8, <1>before, WatchAssumption DEF Panes, InRange, Greater, Lesser
  <2> QED
    BY <1>2, <1>before, <2>1
<1>10. SelectionInRange'
  <2>1. selected \in Nat
    BY <1>before DEF SelectionInRange
  <2>2. /\ selected' \in 0 .. Greater(0, Len(rows) - 1)
        /\ ~picked /\ Running(Sorted(rows, mode)) # {} => Sorted(rows, mode)[selected' + 1].status = "running"
    BY <1>1, <1>2, <2>1, SelectionFacts
  <2>3. \A p \in Panes : offset'[p] \in 0 .. Greater(0, (IF p = "table" THEN Len(rows) ELSE entries) - Window)
    <3>1. InRange(offset["table"], Len(rows)) \in 0 .. Greater(0, Len(rows) - Window)
      BY <1>8, <1>before, ScrollFacts DEF Panes
    <3>2. offset["log"] \in 0 .. Greater(0, entries - Window)
      BY <1>before DEF SelectionInRange, Panes, Length
    <3> QED
      BY <1>9, <3>1, <3>2 DEF Panes
  <2> QED
    BY <1>2, <2>2, <2>3 DEF SelectionInRange, Length
<1> QED
  BY <1>1, <1>2, <1>5, <1>7, <1>9, <1>10, <1>before

LEMMA ScreenStep == ScreenInv /\ [WatchNext]_watchVars => ScreenInv'
<1> SUFFICES ASSUME ScreenInv, [WatchNext]_watchVars PROVE ScreenInv'
  OBVIOUS
<1> USE DEF shownVars, panes, history
<1>types. /\ fleet \in Fleets /\ \A b \in builds : b.found \in Fleets
          /\ IsTable(screen) /\ \A i \in DOMAIN screen : screen[i].worker \in Workers
          /\ focus \in Panes /\ entries \in Nat /\ offset \in [Panes -> Int]
          /\ Len(screen) \in Nat /\ selected \in Nat
          /\ \A p \in Panes : offset[p] \in 0 .. Greater(0, Length(p) - Window)
  BY DEF ScreenInv, ScreenTypes, SelectionInRange, IsTable
\* What the screen shows stays as it is.
<1>same. ASSUME fleet' \in Fleets, \A b \in builds' : b.found \in Fleets,
                UNCHANGED <<shownVars, mode, picked, focus, entries, offset>>
         PROVE  ScreenInv'
  BY <1>same DEF ScreenInv, ScreenTypes, SelectionInRange, LogInv, LogKeepsUp, Length
<1>shows. ASSUME UNCHANGED <<fleet, mode, picked, focus, entries>>, \A b \in builds' : b.found \in Fleets,
                 NEW f \in Fleets, Show(f)
          PROVE  ScreenInv'
  <2>1. ScreenTypes'
    BY <1>shows, <1>types, ShowStep DEF ScreenTypes
  <2> QED
    BY <1>shows, <2>1, ShowStep DEF ScreenInv
<1>1. CASE FleetChanges \/ (\E e \in Effects : IntervalFires(e)) \/ PressPause \/ PressQuit \/ PressRefresh
           \/ UNCHANGED watchVars
  <2>1. fleet' \in Fleets /\ \A b \in builds' : b.found \in Fleets
    BY <1>1, <1>types DEF FleetChanges, IntervalFires, PressPause, PressQuit, PressRefresh, watchVars
  <2>2. UNCHANGED <<shownVars, mode, picked, focus, entries, offset>>
    BY <1>1 DEF FleetChanges, IntervalFires, PressPause, PressQuit, PressRefresh, watchVars
  <2> QED
    BY <2>1, <2>2, <1>same
<1>2. ASSUME NEW b \in builds, BuildEnds(b) \/ RefreshEnds(b) PROVE ScreenInv'
  <2>1. /\ UNCHANGED <<fleet, mode, picked, focus, entries>> /\ \A c \in builds' : c.found \in Fleets
        /\ b.found \in Fleets
    BY <1>2, <1>types DEF BuildEnds, RefreshEnds
  <2>2. Show(b.found) \/ UNCHANGED <<shownVars, offset>>
    BY <1>2 DEF BuildEnds, RefreshEnds
  <2>3. CASE Show(b.found)
    BY <2>1, <2>3, <1>shows
  <2>4. CASE UNCHANGED <<shownVars, offset>>
    BY <2>1, <2>4, <1>types, <1>same
  <2> QED
    BY <2>2, <2>3, <2>4
<1>3. CASE LogGrows
  <2> DEFINE n == entries + 1
  <2>1. /\ entries' = n /\ offset' = [offset EXCEPT !["log"] = InRange(@, n)]
        /\ UNCHANGED <<fleet, builds, shownVars, mode, picked, focus>>
    BY <1>3 DEF LogGrows
  <2>n. n \in Nat /\ offset["log"] \in Int
    BY <1>types DEF Panes
  <2> HIDE DEF n
  <2>2. InRange(offset["log"], n) \in 0 .. Greater(0, n - Window)
    BY <2>n, ScrollFacts
  <2>3. offset' \in [Panes -> Int] /\ \A p \in Panes :
            offset'[p] = IF p = "log" THEN InRange(offset["log"], n) ELSE offset[p]
    <3>1. InRange(offset["log"], n) \in Int
      BY <2>n, WatchAssumption DEF InRange, Greater, Lesser
    <3> QED
      BY <1>types, <2>1, <3>1 DEF Panes
  <2>4. \A p \in Panes : offset'[p] \in 0 .. Greater(0, (IF p = "table" THEN Len(screen) ELSE entries') - Window)
    <3>1. offset["table"] \in 0 .. Greater(0, Len(screen) - Window)
      BY <1>types DEF Panes, Length
    <3>2. offset'["table"] = offset["table"] /\ offset'["log"] = InRange(offset["log"], n)
      BY <2>3 DEF Panes
    <3>3. offset'["log"] \in 0 .. Greater(0, entries' - Window)
      BY <2>1, <2>2, <3>2
    <3> QED
      BY <3>1, <3>2, <3>3 DEF Panes
  <2>5. SelectionInRange'
    BY <2>1, <2>4 DEF ScreenInv, SelectionInRange, Length
  <2> QED
    BY <2>n, <2>1, <2>3, <2>5 DEF ScreenInv, ScreenTypes, LogInv, LogKeepsUp
<1>4. CASE PressSort
  <2>1. /\ selected' = Selection(Sorted(screen, mode'), selected)
        /\ UNCHANGED <<fleet, builds, screen, previous, history, picked, panes>>
    BY <1>4 DEF PressSort
  <2> DEFINE m == mode'
  <2>2. /\ selected' \in 0 .. Greater(0, Len(screen) - 1)
        /\ ~picked /\ Running(Sorted(screen, m)) # {} => Sorted(screen, m)[selected' + 1].status = "running"
    BY <1>types, <2>1, SelectionFacts
  <2>3. SelectionInRange'
    BY <2>1, <2>2 DEF ScreenInv, SelectionInRange, Length
  <2> QED
    BY <2>1, <2>3 DEF ScreenInv, ScreenTypes, LogInv, LogKeepsUp
<1>5. ASSUME NEW step \in {-1, 1}, PressWorker(step) PROVE ScreenInv'
  <2>1. /\ picked' = TRUE /\ selected' = Greater(0, Lesser(Len(screen) - 1, selected + step))
        /\ UNCHANGED <<fleet, builds, screen, previous, history, mode, panes>>
    BY <1>5 DEF PressWorker
  <2>2. Greater(0, Lesser(Len(screen) - 1, selected + step)) \in 0 .. Greater(0, Len(screen) - 1)
    BY <1>types DEF Greater, Lesser
  <2>3. SelectionInRange'
    BY <2>1, <2>2 DEF ScreenInv, SelectionInRange, Length
  <2> QED
    BY <2>1, <2>3 DEF ScreenInv, ScreenTypes, LogInv, LogKeepsUp
<1>6. CASE PressTab
  <2>1. focus' \in Panes /\ UNCHANGED <<fleet, builds, shownVars, mode, picked, offset, entries>>
    BY <1>6 DEF PressTab, Panes
  <2> QED
    BY <2>1 DEF ScreenInv, ScreenTypes, SelectionInRange, LogInv, LogKeepsUp, Length
<1>7. ASSUME NEW by \in {-Window, -1, 1, Window}, PressScroll(by) PROVE ScreenInv'
  <2>1. /\ offset' = [offset EXCEPT ![focus] = InRange(@ + by, Length(focus))]
        /\ UNCHANGED <<fleet, builds, shownVars, mode, picked, focus, entries>>
    BY <1>7 DEF PressScroll
  <2>2. \A p \in Panes : Length(p) \in Nat /\ Length(p)' = Length(p)
    BY <1>types, <2>1 DEF Length
  <2>3. offset[focus] + by \in Int
    BY <1>types, WatchAssumption
  <2>4. InRange(offset[focus] + by, Length(focus)) \in 0 .. Greater(0, Length(focus) - Window)
    BY <1>types, <2>2, <2>3, ScrollFacts
  <2>5. Greater(0, Length(focus) - Window) \in Int
    BY <1>types, <2>2, WatchAssumption DEF Greater
  <2>6. offset' \in [Panes -> Int] /\ \A p \in Panes : offset'[p] \in 0 .. Greater(0, Length(p) - Window)
    BY <1>types, <2>1, <2>4, <2>5
  <2>7. SelectionInRange'
    <3>1. \A p \in Panes : offset'[p] \in 0 .. Greater(0, Length(p)' - Window)
      BY <2>2, <2>6
    <3> QED
      BY <2>1, <3>1 DEF ScreenInv, SelectionInRange
  <2> QED
    BY <2>1, <2>6, <2>7 DEF ScreenInv, ScreenTypes, LogInv, LogKeepsUp
<1>8. QED
  BY <1>1, <1>2, <1>3, <1>4, <1>5, <1>6, <1>7 DEF WatchNext

LEMMA ScreenInvHolds == WatchSpec => []ScreenInv
  BY ScreenInit, ScreenStep, PTL DEF WatchSpec

(* For snapshots of any number of workers, windows of any height and any keys, the selection
   points at a row, at a running one until the user picks, and no pane is scrolled past
   its end, whichever builds end late. *)
THEOREM SelectionStaysInRange == WatchSpec => []SelectionInRange
<1>1. ScreenInv => SelectionInRange
  BY DEF ScreenInv
<1>2. QED
  BY <1>1, ScreenInvHolds, PTL

(* recordStatusChanges, for any snapshots in any order: as long as the table was never
   emptied, the last line about a worker on screen has the status it is shown with. *)
THEOREM LogStaysCurrent == WatchSpec => []LogKeepsUp
<1>1. ScreenInv => LogKeepsUp
  BY DEF ScreenInv, LogInv
<1>2. QED
  BY <1>1, ScreenInvHolds, PTL

(***************************************************************************)
(* The activity log: while no two polls overlap, every line of a directory *)
(* that was not cut is shown once.                                         *)
(***************************************************************************)
Watches == [dir : WorkerDirs \cup {NoDir}, offset : Nat, by : Nat]
Polls == [at : {"idle", "next", "stat", "read"}, todo : SUBSET WorkerDirs, seen : SUBSET Ids,
          entry : Watches, number : Nat]
Entries == [dir : WorkerDirs, line : Nat]

TailTypes ==
    /\ logSize \in [WorkerDirs -> Nat] /\ live \subseteq WorkerDirs
    /\ watched \in [Ids -> Watches] /\ poll \in [Pollers -> Polls]
    /\ buffer \in Seq(Entries)
    /\ shown \in [WorkerDirs -> SUBSET Nat] /\ since \in [WorkerDirs -> Nat]
    /\ shrunk \subseteq WorkerDirs /\ overlapped \in BOOLEAN
    /\ tailBounds \in [polls : Nat, shrinks : Nat]

\* A watch is kept under the id of the directory it watches, and a poll is at one that is left.
WatchesOwnDir == \A id \in Ids :
    watched[id] # Unwatched => watched[id].dir \in WorkerDirs /\ IdOf[watched[id].dir] = id
PollsHaveWork == \A p \in Pollers :
    /\ poll[p].at \in {"stat", "read"} => poll[p].todo # {}
    /\ poll[p].at = "read" => poll[p].entry.dir \in WorkerDirs

\* What is read next was not shown, and what was shown is in the log.
OffsetIsShown == \A id \in Ids :
    LET w == watched[id] IN
    w # Unwatched /\ w.dir \notin shrunk =>
        /\ w.offset <= logSize[w.dir]
        /\ \A n \in Nat : since[w.dir] < n /\ n <= w.offset => n \in shown[w.dir]
        /\ \A i \in DOMAIN buffer : buffer[i].dir = w.dir => buffer[i].line <= w.offset
BufferIsPrinted == \A i \in DOMAIN buffer :
    buffer[i].dir \notin shrunk => buffer[i].line <= logSize[buffer[i].dir]

LonePoll == \A p, q \in Pollers : poll[p].at # "idle" /\ poll[q].at # "idle" => p = q
EntryIsWatched == \A p \in Pollers :
    poll[p].at = "read" => poll[p].entry = watched[IdOf[NextOf(poll[p].todo)]]

ExactInv == LonePoll /\ EntryIsWatched /\ OffsetIsShown /\ BufferIsPrinted /\ ShownOnce

TailInv == TailTypes /\ WatchesOwnDir /\ PollsHaveWork /\ (overlapped \/ ExactInv)

LEMMA NextIsLeft ==
    ASSUME NEW dirs \in SUBSET WorkerDirs, dirs # {} PROVE NextOf(dirs) \in dirs
<1> DEFINE I == {i \in DOMAIN Dirs : Dirs[i] \in dirs}
<1>1. I \in SUBSET Nat /\ I # {}
  BY TailAssumption DEF WorkerDirs
<1>2. PICK i \in I : \A j \in I : i <= j
  BY <1>1, LeastNumber
<1>3. i \in DOMAIN Dirs /\ Dirs[i] \in dirs /\ \A j \in 1 .. i - 1 : Dirs[j] \notin dirs
  BY <1>2, TailAssumption
<1> QED
  BY <1>3 DEF NextOf

LEMMA NewestEntries ==
    ASSUME NEW R, NEW s \in Seq(R)
    PROVE  /\ Newest(s) \in Seq(R)
           /\ \E k \in Nat : \A i \in DOMAIN Newest(s) : i + k \in DOMAIN s /\ Newest(s)[i] = s[i + k]
<1>1. CASE Len(s) > Cap
  <2> DEFINE k == Len(s) - Cap
             n == SubSeq(s, k + 1, Len(s))
  <2>1. Newest(s) = n /\ k \in Nat /\ Len(s) \in Nat
    BY <1>1, TailAssumption DEF Newest
  <2>2. n \in Seq(R)
    BY <2>1
  <2>3. Len(n) = Cap
    BY <2>1, <1>1, TailAssumption
  <2>4. DOMAIN n = 1 .. Cap
    BY <2>2, <2>3
  <2>5. \A i \in 1 .. Cap : i + k \in DOMAIN s /\ n[i] = s[i + k]
    BY <2>1, TailAssumption, SubSeqProperties
  <2> QED
    BY <2>1, <2>2, <2>4, <2>5
<1>2. CASE ~(Len(s) > Cap)
  <2>1. Newest(s) = s
    BY <1>2 DEF Newest
  <2>2. \A i \in DOMAIN s : i + 0 \in DOMAIN s /\ s[i] = s[i + 0]
    OBVIOUS
  <2> QED
    BY <2>1, <2>2
<1> QED
  BY <1>1, <1>2

LEMMA ReadBounds ==
    ASSUME TailTypes, NEW e \in Watches, e.dir \in WorkerDirs
    PROVE  /\ ReadFrom(e) \in Nat /\ ReadTo(e) \in Nat
           /\ ReadFrom(e) <= ReadTo(e) /\ ReadTo(e) <= logSize[e.dir]
           /\ e.offset <= logSize[e.dir] => ReadFrom(e) = e.offset
           /\ LinesRead(e) = [i \in 1 .. (ReadTo(e) - ReadFrom(e)) |->
                                 [dir |-> e.dir, line |-> ReadFrom(e) + i]]
<1>1. logSize[e.dir] \in Nat /\ e.offset \in Nat
  BY DEF TailTypes, Watches
<1>2. ReadFrom(e) \in Nat /\ ReadFrom(e) <= logSize[e.dir]
  BY <1>1 DEF ReadFrom
<1>3. ReadTo(e) \in Nat /\ ReadFrom(e) <= ReadTo(e) /\ ReadTo(e) <= logSize[e.dir]
  BY <1>1, <1>2, TailAssumption DEF ReadTo
<1>4. (IF logSize[e.dir] < ReadFrom(e) + MaxRead THEN logSize[e.dir] - ReadFrom(e) ELSE MaxRead)
          = ReadTo(e) - ReadFrom(e)
  BY <1>1, <1>2, TailAssumption DEF ReadTo
<1>5. ReadTo(e) - (ReadTo(e) - ReadFrom(e)) = ReadFrom(e)
  BY <1>2, <1>3
<1>6. LinesRead(e) = [i \in 1 .. (ReadTo(e) - ReadFrom(e)) |->
                         [dir |-> e.dir, line |-> ReadFrom(e) + i]]
  BY <1>4, <1>5 DEF LinesRead
<1> QED
  BY <1>1, <1>2, <1>3, <1>6 DEF ReadFrom

LEMMA TailInvInit == TailInit => TailInv
<1> SUFFICES ASSUME TailInit PROVE TailInv
  OBVIOUS
<1>1. Unwatched \in Watches /\ NoPoll \in Polls
  BY DEF Unwatched, Watches, NoPoll, Polls
<1>2. buffer \in Seq(Entries) /\ DOMAIN buffer = {}
  BY DEF TailInit
<1>3. TailTypes
  BY <1>1, <1>2 DEF TailInit, TailTypes
<1>4. /\ \A id \in Ids : watched[id] = Unwatched
      /\ \A p \in Pollers : poll[p].at = "idle"
  BY DEF TailInit, NoPoll
<1> QED
  BY <1>2, <1>3, <1>4 DEF TailInv, WatchesOwnDir, PollsHaveWork, ExactInv, LonePoll, EntryIsWatched,
     OffsetIsShown, BufferIsPrinted, ShownOnce

LEMMA TailRead ==
    ASSUME TailInv, NEW p \in Pollers, ReadAppended(p)
    PROVE  TailInv'
<1> DEFINE e == poll[p].entry
           id == IdOf[NextOf(poll[p].todo)]
           new == LinesRead(e)
           all == buffer \o new
           from == ReadFrom(e)
           to == ReadTo(e)
<1>1. /\ poll[p] \in Polls /\ poll[p].at = "read" /\ poll[p].todo # {} /\ e.dir \in WorkerDirs
      /\ logSize \in [WorkerDirs -> Nat] /\ watched \in [Ids -> Watches] /\ poll \in [Pollers -> Polls]
      /\ buffer \in Seq(Entries) /\ shown \in [WorkerDirs -> SUBSET Nat] /\ TailTypes
  BY DEF TailInv, TailTypes, PollsHaveWork, ReadAppended
<1>2. e \in Watches /\ poll[p].todo \in SUBSET WorkerDirs
  BY <1>1 DEF Polls
<1>3. NextOf(poll[p].todo) \in WorkerDirs /\ id \in Ids
  BY <1>1, <1>2, NextIsLeft DEF Ids
<1>4. /\ from \in Nat /\ to \in Nat /\ from <= to /\ to <= logSize[e.dir]
      /\ e.offset <= logSize[e.dir] => from = e.offset
      /\ new = [i \in 1 .. (to - from) |-> [dir |-> e.dir, line |-> from + i]]
  BY <1>1, <1>2, ReadBounds
<1>5. /\ buffer' = Newest(all)
      /\ shown' = [shown EXCEPT ![e.dir] = @ \cup {new[i].line : i \in DOMAIN new}]
      /\ watched' = IF watched[id].by = e.by /\ watched[id].dir = e.dir
                    THEN [watched EXCEPT ![id].offset = to] ELSE watched
      /\ poll' = NextDir(p) /\ UNCHANGED <<logSize, live, since, shrunk, overlapped, tailBounds>>
  BY DEF ReadAppended
<1> HIDE DEF from, to
<1>6. new \in Seq(Entries) /\ DOMAIN new = 1 .. (to - from) /\ Len(new) = to - from
  <2>1. \A i \in 1 .. (to - from) : from + i \in Nat
    BY <1>4
  <2>2. new \in [1 .. (to - from) -> Entries]
    BY <1>1, <1>4, <2>1 DEF Entries
  <2>3. to - from \in Nat
    BY <1>4
  <2> QED
    BY <2>2, <2>3
<1>7. \A i \in DOMAIN new : new[i].dir = e.dir /\ new[i].line = from + i
  BY <1>4, <1>6
<1> HIDE DEF new
<1>8. all \in Seq(Entries)
  BY <1>1, <1>6
<1>9. \A i \in DOMAIN all : \/ i \in DOMAIN buffer /\ all[i] = buffer[i]
                            \/ i - Len(buffer) \in DOMAIN new /\ all[i] = new[i - Len(buffer)]
  BY <1>1, <1>6, <1>8
<1>10. PICK k \in Nat : \A i \in DOMAIN buffer' : i + k \in DOMAIN all /\ buffer'[i] = all[i + k]
  BY <1>5, <1>8, NewestEntries
<1>11. buffer' \in Seq(Entries)
  BY <1>5, <1>8, NewestEntries
<1>12. DOMAIN buffer' \in SUBSET Nat /\ Len(buffer) \in Nat /\ DOMAIN buffer = 1 .. Len(buffer)
       /\ \A i \in DOMAIN all : i \in Nat /\ 1 <= i
  BY <1>1, <1>8, <1>11
<1>lines. \A i \in DOMAIN buffer : buffer[i].line \in Nat
  <2>1. \A i \in DOMAIN buffer : buffer[i] \in Entries
    BY <1>1
  <2> QED
    BY <2>1 DEF Entries
<1> HIDE DEF all
<1>13. shown' \in [WorkerDirs -> SUBSET Nat] /\ shown'[e.dir] = shown[e.dir] \cup {from + i : i \in DOMAIN new}
       /\ \A d \in WorkerDirs \ {e.dir} : shown'[d] = shown[d]
  <2>1. {new[i].line : i \in DOMAIN new} = {from + i : i \in DOMAIN new}
    BY <1>7
  <2>2. {from + i : i \in DOMAIN new} \in SUBSET Nat
    BY <1>4, <1>6
  <2> QED
    BY <1>1, <1>5, <2>1, <2>2
<1>14. /\ watched' \in [Ids -> Watches]
       /\ \A i \in Ids : watched'[i].dir = watched[i].dir
       /\ \A i \in Ids : watched'[i] # Unwatched => watched[i] # Unwatched
  <2>1. CASE watched[id].by = e.by /\ watched[id].dir = e.dir
    <3>1. watched' = [watched EXCEPT ![id].offset = to]
      BY <1>5, <2>1
    <3>2. watched'[id] = [watched[id] EXCEPT !.offset = to] /\ \A i \in Ids \ {id} : watched'[i] = watched[i]
      BY <1>1, <1>3, <3>1
    <3>3. watched[id].dir # NoDir
      BY <1>1, <2>1, TailAssumption
    <3>4. watched[id] # Unwatched
      BY <3>3 DEF Unwatched
    <3>5. watched' \in [Ids -> Watches]
      BY <1>1, <1>3, <1>4, <3>1 DEF Watches
    <3>6. watched'[id].dir = watched[id].dir
      BY <1>1, <1>3, <3>2 DEF Watches
    <3> QED
      BY <3>2, <3>4, <3>5, <3>6
  <2>2. CASE ~(watched[id].by = e.by /\ watched[id].dir = e.dir)
    BY <1>1, <1>5, <2>2
  <2> QED
    BY <2>1, <2>2
<1>15. /\ poll' \in [Pollers -> Polls] /\ poll'[p].at = "next"
       /\ \A q \in Pollers \ {p} : poll'[q] = poll[q]
  <2>1. Unwatched \in Watches
    BY DEF Unwatched, Watches
  <2> QED
    BY <1>1, <1>5, <2>1 DEF NextDir, Polls
<1>16. TailTypes'
  BY <1>1, <1>5, <1>11, <1>13, <1>14, <1>15 DEF TailTypes
<1>17. WatchesOwnDir'
  BY <1>14 DEF TailInv, WatchesOwnDir
<1>18. PollsHaveWork'
  BY <1>15 DEF TailInv, PollsHaveWork
<1>19. ASSUME ExactInv PROVE ExactInv'
  <2>1. LonePoll' /\ EntryIsWatched'
    <3>1. \A q \in Pollers \ {p} : poll[q].at = "idle"
      BY <1>1, <1>19 DEF ExactInv, LonePoll
    <3> QED
      BY <1>15, <3>1 DEF LonePoll, EntryIsWatched
  <2>2. e = watched[id]
    BY <1>1, <1>19 DEF ExactInv, EntryIsWatched
  <2>3. watched' = [watched EXCEPT ![id].offset = to]
    BY <1>5, <2>2
  <2>4. watched'[id].offset = to /\ \A i \in Ids \ {id} : watched'[i] = watched[i]
    BY <1>1, <1>3, <2>3 DEF Watches
  <2>a. watched[id] # Unwatched
    <3>1. e.dir # NoDir
      BY <1>1, TailAssumption
    <3> QED
      BY <2>2, <3>1 DEF Unwatched
  <2>b. e.dir \notin shrunk =>
            /\ e.offset <= logSize[e.dir]
            /\ \A n \in Nat : since[e.dir] < n /\ n <= e.offset => n \in shown[e.dir]
            /\ \A i \in DOMAIN buffer : buffer[i].dir = e.dir => buffer[i].line <= e.offset
    BY <1>3, <1>19, <2>2, <2>a DEF ExactInv, OffsetIsShown
  <2>5. e.dir \notin shrunk => from = e.offset
    BY <1>4, <2>b
  \* What is new comes after what is there.
  <2>6. \A i \in DOMAIN buffer : buffer[i].dir = e.dir /\ e.dir \notin shrunk => buffer[i].line <= from
    BY <2>b, <2>5
  <2>7. \A i \in DOMAIN all : all[i] \in Entries /\ (all[i].dir \notin shrunk =>
            all[i].line <= (IF all[i].dir = e.dir THEN to ELSE logSize[all[i].dir]))
    <3> SUFFICES ASSUME NEW i \in DOMAIN all, all[i].dir \notin shrunk
                 PROVE  all[i].line <= (IF all[i].dir = e.dir THEN to ELSE logSize[all[i].dir])
      BY <1>8
    <3>1. CASE i \in DOMAIN buffer /\ all[i] = buffer[i]
      <4>1. buffer[i].line \in Nat
        BY <1>lines, <3>1
      <4>2. buffer[i].line <= logSize[buffer[i].dir]
        BY <1>19, <3>1 DEF ExactInv, BufferIsPrinted
      <4>3. CASE buffer[i].dir = e.dir
        <5>1. buffer[i].line <= from
          BY <2>6, <3>1, <4>3
        <5> QED
          BY <1>4, <3>1, <4>1, <4>3, <5>1
      <4>4. CASE buffer[i].dir # e.dir
        BY <3>1, <4>2, <4>4
      <4> QED
        BY <4>3, <4>4
    <3>2. CASE i - Len(buffer) \in DOMAIN new /\ all[i] = new[i - Len(buffer)]
      BY <1>4, <1>6, <1>7, <3>2
    <3> QED
      BY <1>9, <3>1, <3>2
  <2>8. \A i, j \in DOMAIN all : i < j /\ all[i].dir = all[j].dir /\ all[i].dir \notin shrunk
            => all[i].line < all[j].line
    <3> SUFFICES ASSUME NEW i \in DOMAIN all, NEW j \in DOMAIN all, i < j, all[i].dir = all[j].dir,
                        all[i].dir \notin shrunk
                 PROVE  all[i].line < all[j].line
      OBVIOUS
    <3>1. CASE j \in DOMAIN buffer /\ all[j] = buffer[j]
      <4>1. i \in DOMAIN buffer /\ i - Len(buffer) \notin DOMAIN new
        BY <1>6, <1>12, <3>1
      <4>2. all[i] = buffer[i]
        BY <1>9, <4>1
      <4> QED
        BY <1>19, <3>1, <4>1, <4>2 DEF ExactInv, ShownOnce
    <3>2. CASE j - Len(buffer) \in DOMAIN new /\ all[j] = new[j - Len(buffer)]
      <4>1. all[j].dir = e.dir /\ all[j].line = from + (j - Len(buffer)) /\ j - Len(buffer) \in 1 .. (to - from)
        BY <1>6, <1>7, <3>2
      <4>2. CASE i \in DOMAIN buffer /\ all[i] = buffer[i]
        <5>1. buffer[i].line \in Nat /\ buffer[i].line <= from
          BY <1>lines, <2>6, <4>1, <4>2, <3>2
        <5> QED
          BY <1>4, <1>12, <4>1, <4>2, <5>1
      <4>3. CASE i - Len(buffer) \in DOMAIN new /\ all[i] = new[i - Len(buffer)]
        <5>1. all[i].line = from + (i - Len(buffer)) /\ i - Len(buffer) \in 1 .. (to - from)
          BY <1>6, <1>7, <4>3
        <5> QED
          BY <1>4, <1>12, <4>1, <5>1
      <4> QED
        BY <1>9, <4>2, <4>3
    <3> QED
      BY <1>9, <3>1, <3>2
  <2>9. ShownOnce'
    <3> SUFFICES ASSUME NEW i \in DOMAIN buffer', NEW j \in DOMAIN buffer', i < j,
                        buffer'[i].dir = buffer'[j].dir, buffer'[i].dir \notin shrunk
                 PROVE  buffer'[i].line < buffer'[j].line
      BY <1>5 DEF ShownOnce
    <3>1. i + k \in DOMAIN all /\ j + k \in DOMAIN all /\ i + k < j + k
      BY <1>10, <1>12
    <3> QED
      BY <1>10, <2>8, <3>1
  <2>10. BufferIsPrinted'
    <3> SUFFICES ASSUME NEW i \in DOMAIN buffer', buffer'[i].dir \notin shrunk
                 PROVE  buffer'[i].line <= logSize[buffer'[i].dir]
      BY <1>5 DEF BufferIsPrinted
    <3>1. i + k \in DOMAIN all /\ buffer'[i] = all[i + k]
      BY <1>10
    <3>2. all[i + k].line \in Nat /\ logSize[all[i + k].dir] \in Nat
      BY <1>1, <2>7, <3>1 DEF Entries
    <3> QED
      BY <1>4, <2>7, <3>1, <3>2
  <2>11. OffsetIsShown'
    <3> SUFFICES ASSUME NEW c \in Ids, watched'[c] # Unwatched, watched'[c].dir \notin shrunk
                 PROVE  LET w == watched'[c] IN
                        /\ w.offset <= logSize[w.dir]
                        /\ \A n \in Nat : since[w.dir] < n /\ n <= w.offset => n \in shown'[w.dir]
                        /\ \A i \in DOMAIN buffer' : buffer'[i].dir = w.dir => buffer'[i].line <= w.offset
      BY <1>5 DEF OffsetIsShown
    <3>1. \A i \in DOMAIN buffer' : i + k \in DOMAIN all /\ buffer'[i] = all[i + k]
      BY <1>10
    <3>2. CASE c = id
      <4>1. watched'[c].dir = e.dir /\ watched'[c].offset = to
        BY <1>3, <1>14, <2>2, <2>4, <3>2
      <4>2. \A n \in Nat : since[e.dir] < n /\ n <= to => n \in shown'[e.dir]
        <5> SUFFICES ASSUME NEW n \in Nat, since[e.dir] < n, n <= to PROVE n \in shown'[e.dir]
          OBVIOUS
        <5>1. CASE n <= from
          BY <1>13, <2>b, <2>5, <4>1, <5>1
        <5>2. CASE n > from
          <6>1. n - from \in DOMAIN new /\ n = from + (n - from)
            BY <1>4, <1>6, <5>2
          <6> QED
            BY <1>13, <6>1
        <5> QED
          BY <1>4, <5>1, <5>2
      <4>3. \A i \in DOMAIN buffer' : buffer'[i].dir = e.dir => buffer'[i].line <= to
        BY <2>7, <3>1, <4>1
      <4> QED
        BY <1>4, <4>1, <4>2, <4>3
    <3>3. CASE c # id
      <4>1. watched'[c] = watched[c] /\ watched[c].dir \in WorkerDirs /\ IdOf[watched[c].dir] = c
        BY <2>4, <3>3 DEF TailInv, WatchesOwnDir
      <4>2. watched[c].dir # e.dir
        BY <1>3, <2>2, <2>a, <3>3, <4>1 DEF TailInv, WatchesOwnDir
      <4>3. /\ watched[c].offset <= logSize[watched[c].dir]
            /\ \A n \in Nat : since[watched[c].dir] < n /\ n <= watched[c].offset => n \in shown[watched[c].dir]
            /\ \A i \in DOMAIN buffer : buffer[i].dir = watched[c].dir => buffer[i].line <= watched[c].offset
        BY <1>19, <4>1 DEF ExactInv, OffsetIsShown
      <4>4. \A i \in DOMAIN all : all[i].dir = watched[c].dir => all[i].line <= watched[c].offset
        BY <1>7, <1>9, <4>2, <4>3
      <4> QED
        BY <1>13, <3>1, <4>1, <4>2, <4>3, <4>4
    <3> QED
      BY <3>2, <3>3
  <2> QED
    BY <2>1, <2>9, <2>10, <2>11 DEF ExactInv
<1> QED
  BY <1>5, <1>16, <1>17, <1>18, <1>19 DEF TailInv

\* Only the logs move.
LEMMA TailLogs ==
    ASSUME TailInv, NEW d \in WorkerDirs, PrintLine(d) \/ Empty(d)
    PROVE  TailInv'
<1>1. /\ UNCHANGED <<live, watched, poll, buffer, shown, since, overlapped>>
      /\ shrunk \subseteq shrunk' /\ tailBounds' \in [polls : Nat, shrinks : Nat] /\ shrunk' \subseteq WorkerDirs
      /\ logSize' \in [WorkerDirs -> Nat]
      /\ \A c \in WorkerDirs : c \notin shrunk' => logSize[c] <= logSize'[c]
  <2>1. logSize \in [WorkerDirs -> Nat] /\ tailBounds \in [polls : Nat, shrinks : Nat] /\ shrunk \subseteq WorkerDirs
    BY DEF TailInv, TailTypes
  <2>2. CASE PrintLine(d)
    BY <2>1, <2>2 DEF PrintLine
  <2>3. CASE Empty(d)
    <3>1. logSize' = [logSize EXCEPT ![d] = 0] /\ shrunk' = shrunk \cup {d}
          /\ UNCHANGED <<live, watched, poll, buffer, shown, since, overlapped>>
      BY <2>3 DEF Empty
    <3>2. tailBounds' \in [polls : Nat, shrinks : Nat]
      BY <2>1, <2>3 DEF Empty
    <3>3. logSize' \in [WorkerDirs -> Nat] /\ shrunk' \subseteq WorkerDirs /\ shrunk \subseteq shrunk'
      BY <2>1, <3>1
    <3>4. \A c \in WorkerDirs : c \notin shrunk' => logSize[c] <= logSize'[c]
      BY <2>1, <3>1
    <3> QED
      BY <3>1, <3>2, <3>3, <3>4
  <2> QED
    BY <2>2, <2>3
<1>2. TailTypes'
  BY <1>1 DEF TailInv, TailTypes
<1>3. WatchesOwnDir' /\ PollsHaveWork'
  BY <1>1 DEF TailInv, WatchesOwnDir, PollsHaveWork
<1>4. ASSUME ExactInv PROVE ExactInv'
  <2>1. LonePoll' /\ EntryIsWatched' /\ ShownOnce'
    BY <1>1, <1>4 DEF ExactInv, LonePoll, EntryIsWatched, ShownOnce
  <2>2. \A i \in DOMAIN buffer : buffer[i].dir \in WorkerDirs /\ buffer[i].line \in Nat
    <3>1. \A i \in DOMAIN buffer : buffer[i] \in Entries
      BY DEF TailInv, TailTypes
    <3> QED
      BY <3>1 DEF Entries
  <2>3. \A c \in WorkerDirs : logSize[c] \in Nat /\ logSize'[c] \in Nat
    BY <1>1 DEF TailInv, TailTypes
  <2>4. BufferIsPrinted'
    <3> SUFFICES ASSUME NEW i \in DOMAIN buffer, buffer[i].dir \notin shrunk'
                 PROVE  buffer[i].line <= logSize'[buffer[i].dir]
      BY <1>1 DEF BufferIsPrinted
    <3>1. buffer[i].line <= logSize[buffer[i].dir]
      BY <1>1, <1>4 DEF ExactInv, BufferIsPrinted
    <3> QED
      BY <1>1, <2>2, <2>3, <3>1
  <2>5. OffsetIsShown'
    <3> SUFFICES ASSUME NEW c \in Ids, watched[c] # Unwatched, watched[c].dir \notin shrunk'
                 PROVE  LET w == watched[c] IN
                        /\ w.offset <= logSize'[w.dir]
                        /\ \A n \in Nat : since[w.dir] < n /\ n <= w.offset => n \in shown[w.dir]
                        /\ \A i \in DOMAIN buffer : buffer[i].dir = w.dir => buffer[i].line <= w.offset
      BY <1>1 DEF OffsetIsShown
    <3>1. watched[c].dir \in WorkerDirs /\ watched[c].offset \in Nat
      BY DEF TailInv, WatchesOwnDir, TailTypes, Watches
    <3>2. watched[c].dir \notin shrunk
      BY <1>1
    <3> HIDE DEF TailInv
    <3>3. watched[c].offset <= logSize[watched[c].dir]
      BY <1>4, <3>2 DEF ExactInv, OffsetIsShown
    <3>4. watched[c].offset <= logSize'[watched[c].dir]
      BY <1>1, <2>3, <3>1, <3>3
    <3> QED
      BY <1>4, <3>2, <3>4 DEF ExactInv, OffsetIsShown
  <2> QED
    BY <2>1, <2>4, <2>5 DEF ExactInv
<1> QED
  BY <1>1, <1>2, <1>3, <1>4 DEF TailInv

LEMMA TailBegin ==
    ASSUME TailInv, NEW p \in Pollers, BeginPoll(p)
    PROVE  TailInv'
<1>1. /\ UNCHANGED <<logSize, live, watched, buffer, shown, since, shrunk>>
      /\ overlapped' = (overlapped \/ \E q \in Pollers : poll[q].at # "idle")
      /\ tailBounds' \in [polls : Nat, shrinks : Nat] /\ tailBounds.polls \in Nat
      /\ live \in SUBSET WorkerDirs /\ poll \in [Pollers -> Polls]
  <2>1. tailBounds \in [polls : Nat, shrinks : Nat] /\ live \in SUBSET WorkerDirs /\ poll \in [Pollers -> Polls]
    BY DEF TailInv, TailTypes
  <2>2. tailBounds' = [tailBounds EXCEPT !.polls = @ + 1]
    BY DEF BeginPoll
  <2>3. tailBounds' \in [polls : Nat, shrinks : Nat]
    BY <2>1, <2>2
  <2> QED
    BY <2>1, <2>3 DEF BeginPoll
<1>2. /\ poll' \in [Pollers -> Polls] /\ poll'[p].at = "next"
      /\ \A q \in Pollers \ {p} : poll'[q] = poll[q]
  <2> DEFINE Begun(n, m) == [n EXCEPT !.at = "next", !.todo = live, !.number = m]
             new == Begun(NoPoll, tailBounds.polls + 1)
  <2>1. NoPoll \in Polls
    BY DEF NoPoll, Polls, Unwatched, Watches
  <2>2. ASSUME NEW n \in Polls, NEW m \in Nat
        PROVE  Begun(n, m) \in Polls /\ Begun(n, m).at = "next"
    BY <1>1, <2>2 DEF Polls
  <2>3. tailBounds.polls + 1 \in Nat
    BY <1>1
  <2>4. poll' = [poll EXCEPT ![p] = new]
    BY DEF BeginPoll
  <2> HIDE DEF Begun
  <2>5. new \in Polls /\ new.at = "next"
    BY <2>1, <2>2, <2>3
  <2> HIDE DEF new
  <2> QED
    BY <1>1, <2>4, <2>5
<1>3. TailTypes'
  BY <1>1, <1>2 DEF TailInv, TailTypes
<1>4. WatchesOwnDir' /\ PollsHaveWork'
  BY <1>1, <1>2 DEF TailInv, WatchesOwnDir, PollsHaveWork
<1>5. ASSUME ~overlapped' PROVE ExactInv'
  <2>1. ExactInv /\ \A q \in Pollers : poll[q].at = "idle"
    BY <1>1, <1>5 DEF TailInv
  <2>2. LonePoll' /\ EntryIsWatched'
    BY <1>2, <2>1 DEF LonePoll, EntryIsWatched
  <2> QED
    BY <1>1, <2>1, <2>2 DEF ExactInv, OffsetIsShown, BufferIsPrinted, ShownOnce
<1> QED
  BY <1>3, <1>4, <1>5 DEF TailInv

LEMMA TailLookUp ==
    ASSUME TailInv, NEW p \in Pollers, LookUp(p)
    PROVE  TailInv'
<1> DEFINE id == IdOf[NextOf(poll[p].todo)]
<1>1. /\ UNCHANGED <<logSize, live, watched, buffer, shown, since, shrunk, overlapped, tailBounds>>
      /\ poll[p].at = "next" /\ poll[p].todo # {} /\ poll[p] \in Polls /\ watched \in [Ids -> Watches]
  BY DEF LookUp, TailInv, TailTypes
<1>2. id \in Ids
  <2>1. NextOf(poll[p].todo) \in WorkerDirs
    BY <1>1, NextIsLeft DEF Polls
  <2> QED
    BY <2>1 DEF Ids
<1>3. /\ poll' \in [Pollers -> Polls]
      /\ poll'[p].todo = poll[p].todo /\ poll'[p].entry = watched[id]
      /\ poll'[p].at = IF watched[id] = Unwatched THEN "stat" ELSE "read"
      /\ \A q \in Pollers \ {p} : poll'[q] = poll[q]
  <2> DEFINE new == [poll[p] EXCEPT !.seen = @ \cup {id}, !.entry = watched[id],
                                    !.at = IF watched[id] = Unwatched THEN "stat" ELSE "read"]
  <2>1. poll' = [poll EXCEPT ![p] = new]
    BY DEF LookUp
  <2>2. /\ new \in Polls /\ new.todo = poll[p].todo /\ new.entry = watched[id]
        /\ new.at = IF watched[id] = Unwatched THEN "stat" ELSE "read"
    BY <1>1, <1>2 DEF Polls
  <2> HIDE DEF new
  <2> QED
    BY <2>1, <2>2 DEF TailInv, TailTypes
<1> HIDE DEF id
<1>4. TailTypes'
  BY <1>1, <1>3 DEF TailInv, TailTypes
<1>5. WatchesOwnDir'
  BY <1>1 DEF TailInv, WatchesOwnDir
<1>6. PollsHaveWork'
  <2>1. watched[id] # Unwatched => watched[id].dir \in WorkerDirs
    BY <1>2 DEF TailInv, WatchesOwnDir
  <2> QED
    BY <1>1, <1>3, <2>1 DEF TailInv, PollsHaveWork
<1>7. ASSUME ExactInv PROVE ExactInv'
  <2>1. LonePoll' /\ EntryIsWatched'
    <3>1. \A q \in Pollers \ {p} : poll[q].at = "idle"
      BY <1>1, <1>7 DEF ExactInv, LonePoll
    <3> QED
      BY <1>1, <1>3, <3>1 DEF LonePoll, EntryIsWatched, id
  <2> QED
    BY <1>1, <1>7, <2>1 DEF ExactInv, OffsetIsShown, BufferIsPrinted, ShownOnce
<1> QED
  BY <1>1, <1>4, <1>5, <1>6, <1>7 DEF TailInv

LEMMA TailStart ==
    ASSUME TailInv, NEW p \in Pollers, StartWatch(p)
    PROVE  TailInv'
<1> DEFINE d == NextOf(poll[p].todo)
           w == [dir |-> d, offset |-> logSize[d], by |-> poll[p].number]
<1>1. /\ UNCHANGED <<logSize, live, buffer, shown, shrunk, overlapped, tailBounds>>
      /\ poll[p].at = "stat" /\ poll[p].todo # {} /\ poll[p] \in Polls
      /\ watched \in [Ids -> Watches] /\ poll \in [Pollers -> Polls] /\ since \in [WorkerDirs -> Nat]
      /\ logSize \in [WorkerDirs -> Nat]
      /\ watched' = [watched EXCEPT ![IdOf[d]] = w] /\ since' = [since EXCEPT ![d] = logSize[d]]
      /\ poll' = NextDir(p)
  BY DEF StartWatch, TailInv, TailTypes, PollsHaveWork
<1>2. d \in WorkerDirs /\ IdOf[d] \in Ids
  <2>1. d \in WorkerDirs
    BY <1>1, NextIsLeft DEF Polls
  <2> QED
    BY <2>1 DEF Ids
<1>3. w \in Watches /\ w.dir = d /\ w.offset = logSize[d]
  BY <1>1, <1>2 DEF Watches, Polls
<1> HIDE DEF w, d
<1>4. /\ watched' \in [Ids -> Watches] /\ watched'[IdOf[d]] = w
      /\ \A i \in Ids \ {IdOf[d]} : watched'[i] = watched[i]
  BY <1>1, <1>2, <1>3
<1>5. /\ since' \in [WorkerDirs -> Nat] /\ since'[d] = logSize[d]
      /\ \A c \in WorkerDirs \ {d} : since'[c] = since[c]
  BY <1>1, <1>2
<1>6. /\ poll' \in [Pollers -> Polls] /\ poll'[p].at = "next"
      /\ \A q \in Pollers \ {p} : poll'[q] = poll[q]
  <2>1. Unwatched \in Watches
    BY DEF Unwatched, Watches
  <2> QED
    BY <1>1, <2>1 DEF NextDir, Polls
<1>7. TailTypes'
  BY <1>1, <1>4, <1>5, <1>6 DEF TailInv, TailTypes
<1>8. WatchesOwnDir' /\ PollsHaveWork'
  BY <1>2, <1>3, <1>4, <1>6 DEF TailInv, WatchesOwnDir, PollsHaveWork
<1>9. ASSUME ExactInv PROVE ExactInv'
  <2>1. LonePoll' /\ EntryIsWatched'
    <3>1. \A q \in Pollers \ {p} : poll[q].at = "idle"
      BY <1>1, <1>9 DEF ExactInv, LonePoll
    <3> QED
      BY <1>6, <3>1 DEF LonePoll, EntryIsWatched
  <2>2. OffsetIsShown'
    <3> SUFFICES ASSUME NEW c \in Ids, watched'[c] # Unwatched, watched'[c].dir \notin shrunk
                 PROVE  LET x == watched'[c] IN
                        /\ x.offset <= logSize[x.dir]
                        /\ \A n \in Nat : since'[x.dir] < n /\ n <= x.offset => n \in shown[x.dir]
                        /\ \A i \in DOMAIN buffer : buffer[i].dir = x.dir => buffer[i].line <= x.offset
      BY <1>1 DEF OffsetIsShown
    <3>1. CASE c = IdOf[d]
      <4>1. watched'[c].dir = d /\ watched'[c].offset = logSize[d] /\ logSize[d] \in Nat /\ since'[d] = logSize[d]
        BY <1>1, <1>2, <1>3, <1>4, <1>5, <3>1
      <4>2. \A i \in DOMAIN buffer : buffer[i].dir = d => buffer[i].line <= logSize[d]
        BY <1>9, <4>1 DEF ExactInv, BufferIsPrinted
      <4> QED
        BY <4>1, <4>2
    <3>2. CASE c # IdOf[d]
      <4>1. watched'[c] = watched[c] /\ watched[c].dir \in WorkerDirs /\ watched[c].dir # d
        BY <1>4, <3>2 DEF TailInv, WatchesOwnDir
      <4> QED
        BY <1>5, <1>9, <4>1 DEF ExactInv, OffsetIsShown
    <3> QED
      BY <3>1, <3>2
  <2> QED
    BY <1>1, <1>9, <2>1, <2>2 DEF ExactInv, BufferIsPrinted, ShownOnce
<1> QED
  BY <1>1, <1>7, <1>8, <1>9 DEF TailInv

LEMMA TailEnd ==
    ASSUME TailInv, NEW p \in Pollers, EndPoll(p)
    PROVE  TailInv'
<1>1. /\ UNCHANGED <<logSize, live, buffer, shown, since, shrunk, overlapped, tailBounds>>
      /\ poll[p].at = "next"
  BY DEF EndPoll
<1>2. /\ watched' \in [Ids -> Watches] /\ \A i \in Ids : watched'[i] \in {watched[i], Unwatched}
  BY DEF EndPoll, TailInv, TailTypes, Unwatched, Watches
<1>3. /\ poll' \in [Pollers -> Polls] /\ poll'[p].at = "idle"
      /\ \A q \in Pollers \ {p} : poll'[q] = poll[q]
  <2>1. NoPoll \in Polls /\ NoPoll.at = "idle"
    BY DEF NoPoll, Polls, Unwatched, Watches
  <2> QED
    BY <2>1 DEF EndPoll, TailInv, TailTypes
<1>4. TailTypes'
  BY <1>1, <1>2, <1>3 DEF TailInv, TailTypes
<1>5. WatchesOwnDir' /\ PollsHaveWork'
  BY <1>2, <1>3 DEF TailInv, WatchesOwnDir, PollsHaveWork
<1>6. ASSUME ExactInv PROVE ExactInv'
  <2>1. LonePoll' /\ EntryIsWatched'
    <3>1. \A q \in Pollers \ {p} : poll[q].at = "idle"
      BY <1>1, <1>6 DEF ExactInv, LonePoll
    <3> QED
      BY <1>3, <3>1 DEF LonePoll, EntryIsWatched
  <2>2. OffsetIsShown'
    BY <1>1, <1>2, <1>6 DEF ExactInv, OffsetIsShown
  <2> QED
    BY <1>1, <1>6, <2>1, <2>2 DEF ExactInv, BufferIsPrinted, ShownOnce
<1> QED
  BY <1>1, <1>4, <1>5, <1>6 DEF TailInv

LEMMA TailStep == TailInv /\ [TailNext]_tailVars => TailInv'
<1> SUFFICES ASSUME TailInv, [TailNext]_tailVars PROVE TailInv'
  OBVIOUS
<1>1. CASE (\E dirs \in SUBSET WorkerDirs : SnapshotShows(dirs)) \/ UNCHANGED tailVars
  <2>1. /\ UNCHANGED <<logSize, watched, poll, buffer, shown, since, shrunk, overlapped, tailBounds>>
        /\ live' \subseteq WorkerDirs
    BY <1>1 DEF SnapshotShows, tailVars, TailInv, TailTypes
  <2> QED
    BY <2>1 DEF TailInv, TailTypes, WatchesOwnDir, PollsHaveWork, ExactInv, LonePoll, EntryIsWatched,
       OffsetIsShown, BufferIsPrinted, ShownOnce
<1>2. QED
  BY <1>1, TailLogs, TailBegin, TailLookUp, TailStart, TailRead, TailEnd DEF TailNext

(* pollWorkerLogs, for any number of polls, workers and lines, of any cap and any reading size:
   while no two polls were under way at once, the log has each worker's lines in their
   order and once, and none of those that a watch has passed is missing. *)
THEOREM LogIsExact == TailSpec => []TailIsExact
<1>1. TailInv => TailIsExact
  <2> SUFFICES ASSUME TailInv, ~overlapped, NEW id \in Ids, watched[id] # Unwatched,
                      watched[id].dir \notin shrunk
               PROVE  (since[watched[id].dir] + 1) .. watched[id].offset \subseteq shown[watched[id].dir]
    BY DEF TailInv, ExactInv, TailIsExact, NonePassedOver
  <2>1. since[watched[id].dir] \in Nat /\ watched[id].offset \in Nat
    BY DEF TailInv, TailTypes, WatchesOwnDir, Watches
  <2>2. \A n \in Nat : since[watched[id].dir] < n /\ n <= watched[id].offset => n \in shown[watched[id].dir]
    BY DEF TailInv, ExactInv, OffsetIsShown
  <2> QED
    BY <2>1, <2>2
<1>2. QED
  BY <1>1, TailInvInit, TailStep, PTL DEF TailSpec

(***************************************************************************)
(* UsageReport.                                                            *)
(***************************************************************************)
UsageLines  == [task : UsageTasks, provider : UsageProviders, at : Nat]
UsageEvents == [task : UsageTasks, provider : UsageProviders, at : Nat, used : Counts]

UsageTypes ==
    /\ time \in Nat /\ missed \in BOOLEAN /\ unread \in SUBSET UsageTasks
    /\ regLines \in Seq(UsageLines) /\ events \in Seq(UsageEvents)
    /\ files \in [UsageTasks -> [UsageProviders -> Counts \cup {NoFile}]]
    /\ runOf \in [UsageTasks -> [at : {"idle", "running", "written"},
                                 provider : UsageProviders \cup {"none"},
                                 used : Counts \cup {NotRunning.used}]]

\* A run knows its provider, and what it wrote is in its file.
RunHasFile(t) ==
    /\ runOf[t].at # "idle" => runOf[t].provider \in UsageProviders
    /\ runOf[t].at = "written" => /\ runOf[t].used \in Counts
                                  /\ files[t][runOf[t].provider] = runOf[t].used

\* What a file shows is in an event, unless its run has yet to tell.
FileToldOf(t, p) ==
    \/ FileTokens(files[t][p]) = 0
    \/ runOf[t].at = "written" /\ runOf[t].provider = p
    \/ \E i \in DOMAIN events :
          events[i].task = t /\ events[i].provider = p /\ events[i].used = files[t][p]

UsageInv ==
    /\ UsageTypes
    /\ \A t \in UsageTasks : RunHasFile(t)
    /\ ~missed => unread = {} /\ \A t \in UsageTasks, p \in UsageProviders : FileToldOf(t, p)

LEMMA UsageInvInit == UsageInit => UsageInv
<1> SUFFICES ASSUME UsageInit PROVE UsageInv
  OBVIOUS
<1>1. UsageTypes
  <2>1. regLines \in Seq(UsageLines) /\ events \in Seq(UsageEvents)
    BY DEF UsageInit
  <2>2. NotRunning \in [at : {"idle", "running", "written"}, provider : UsageProviders \cup {"none"},
                        used : Counts \cup {NotRunning.used}]
    BY DEF NotRunning
  <2>3. runOf = [t \in UsageTasks |-> NotRunning]
        /\ files = [t \in UsageTasks |-> [p \in UsageProviders |-> NoFile]]
    BY DEF UsageInit
  <2>4. files \in [UsageTasks -> [UsageProviders -> Counts \cup {NoFile}]]
    BY <2>3
  <2>5. runOf \in [UsageTasks -> [at : {"idle", "running", "written"},
                                  provider : UsageProviders \cup {"none"},
                                  used : Counts \cup {NotRunning.used}]]
    <3> HIDE DEF NotRunning
    <3> QED
      BY <2>2, <2>3
  <2> QED
    BY <2>1, <2>4, <2>5 DEF UsageInit, UsageTypes
<1>2. \A t \in UsageTasks : runOf[t].at = "idle" /\ \A p \in UsageProviders : files[t][p] = NoFile
  BY DEF UsageInit, NotRunning
<1>3. FileTokens(NoFile) = 0
  BY DEF FileTokens, NoFile
<1> QED
  BY <1>1, <1>2, <1>3 DEF UsageInit, UsageInv, RunHasFile, FileToldOf

LEMMA EventsGrow ==
    ASSUME events \in Seq(UsageEvents), NEW e \in UsageEvents, events' = Append(events, e)
    PROVE  /\ events' \in Seq(UsageEvents)
           /\ \A i \in DOMAIN events : i \in DOMAIN events' /\ events'[i] = events[i]
           /\ \E i \in DOMAIN events' : events'[i] = e
<1>1. /\ events' \in Seq(UsageEvents) /\ Len(events') = Len(events) + 1
      /\ \A i \in 1 .. Len(events) : events'[i] = events[i]
      /\ events'[Len(events) + 1] = e
  BY AppendProperties
<1>2. Len(events) \in Nat /\ DOMAIN events = 1 .. Len(events) /\ DOMAIN events' = 1 .. Len(events')
  BY <1>1, LenProperties
<1> QED
  BY <1>1, <1>2

LEMMA UsageStep == UsageInv /\ [UsageNext]_usageVars => UsageInv'
<1> SUFFICES ASSUME UsageInv, [UsageNext]_usageVars PROVE UsageInv'
  OBVIOUS
<1> USE UsageAssumption
<1>1. CASE UNCHANGED usageVars
  BY <1>1 DEF UsageInv, UsageTypes, RunHasFile, FileToldOf, FileTokens, usageVars
<1>2. CASE TimePasses
  BY <1>2 DEF TimePasses, UsageInv, UsageTypes, RunHasFile, FileToldOf, FileTokens
<1>3. ASSUME NEW t \in UsageTasks, NEW p \in UsageProviders, RouteRun(t, p) PROVE UsageInv'
  <2>1. runOf[t].at = "idle" /\ UNCHANGED <<time, files, events, unread, missed>>
    BY <1>3 DEF RouteRun
  <2>2. regLines' \in Seq(UsageLines)
    <3>1. [task |-> t, provider |-> p, at |-> time] \in UsageLines
      BY DEF UsageInv, UsageTypes, UsageLines
    <3>2. regLines \in Seq(UsageLines)
      BY DEF UsageInv, UsageTypes
    <3> QED
      BY <1>3, <3>1, <3>2, AppendProperties DEF RouteRun
  <2> DEFINE r == [NotRunning EXCEPT !.at = "running", !.provider = p]
  <2>3. /\ r \in [at : {"idle", "running", "written"}, provider : UsageProviders \cup {"none"},
                  used : Counts \cup {NotRunning.used}]
        /\ r.at = "running" /\ r.provider = p
    BY DEF NotRunning
  <2>4. runOf' = [runOf EXCEPT ![t] = r]
    BY <1>3 DEF RouteRun
  <2> HIDE DEF r
  <2>5. UsageTypes'
    BY <2>1, <2>2, <2>3, <2>4 DEF UsageInv, UsageTypes
  <2>6. runOf'[t] = r /\ \A u \in UsageTasks \ {t} : runOf'[u] = runOf[u]
    BY <2>4 DEF UsageInv, UsageTypes
  <2>7. \A u \in UsageTasks : RunHasFile(u)'
    BY <2>1, <2>3, <2>6 DEF UsageInv, RunHasFile
  <2>8. ASSUME NEW u \in UsageTasks, NEW q \in UsageProviders, FileToldOf(u, q) PROVE FileToldOf(u, q)'
    <3>1. u = t \/ runOf'[u] = runOf[u]
      BY <2>6
    <3> QED
      BY <2>1, <2>8, <3>1 DEF FileToldOf, FileTokens
  <2> QED
    BY <2>1, <2>5, <2>7, <2>8 DEF UsageInv
<1>4. ASSUME NEW t \in UsageTasks, NEW n \in Counts, WriteUsage(t, n) PROVE UsageInv'
  <2> DEFINE p == runOf[t].provider
             r == [runOf[t] EXCEPT !.at = "written", !.used = n]
  <2>1. /\ runOf[t].at = "running" /\ p \in UsageProviders
        /\ UNCHANGED <<time, regLines, events, unread, missed>>
    BY <1>4 DEF WriteUsage, UsageInv, RunHasFile
  <2>2. /\ r \in [at : {"idle", "running", "written"}, provider : UsageProviders \cup {"none"},
                  used : Counts \cup {NotRunning.used}]
        /\ r.at = "written" /\ r.provider = p /\ r.used = n
    BY DEF UsageInv, UsageTypes
  <2>3. runOf' = [runOf EXCEPT ![t] = r]
    BY <1>4 DEF WriteUsage, UsageInv, UsageTypes
  <2>4. files' = [files EXCEPT ![t] = [files[t] EXCEPT ![p] = n]]
    BY <1>4 DEF WriteUsage
  <2> HIDE DEF r, p
  <2>5. runOf'[t] = r /\ \A u \in UsageTasks \ {t} : runOf'[u] = runOf[u]
    BY <2>3 DEF UsageInv, UsageTypes
  <2>6. /\ files'[t][p] = n
        /\ \A u \in UsageTasks, q \in UsageProviders : (u # t \/ q # p) => files'[u][q] = files[u][q]
    BY <2>1, <2>4 DEF UsageInv, UsageTypes
  <2>7. files' \in [UsageTasks -> [UsageProviders -> Counts \cup {NoFile}]]
    <3>1. [files[t] EXCEPT ![p] = n] \in [UsageProviders -> Counts \cup {NoFile}]
      BY DEF UsageInv, UsageTypes
    <3> QED
      BY <2>4, <3>1 DEF UsageInv, UsageTypes
  <2>8. UsageTypes'
    BY <2>1, <2>2, <2>3, <2>7 DEF UsageInv, UsageTypes
  <2>9. \A u \in UsageTasks : RunHasFile(u)'
    <3> SUFFICES ASSUME NEW u \in UsageTasks PROVE RunHasFile(u)'
      OBVIOUS
    <3>1. CASE u = t
      BY <2>1, <2>2, <2>5, <2>6, <3>1 DEF RunHasFile
    <3>2. CASE u # t
      BY <2>5, <2>6, <3>2 DEF RunHasFile, UsageInv
    <3> QED
      BY <3>1, <3>2
  <2>10. ASSUME NEW u \in UsageTasks, NEW q \in UsageProviders, FileToldOf(u, q) PROVE FileToldOf(u, q)'
    <3>1. CASE u = t /\ q = p
      BY <2>2, <2>5, <3>1 DEF FileToldOf
    <3>2. CASE u # t
      BY <2>1, <2>5, <2>6, <2>10, <3>2 DEF FileToldOf, FileTokens
    <3>3. CASE u = t /\ q # p
      BY <2>1, <2>6, <2>10, <3>3 DEF FileToldOf, FileTokens
    <3> QED
      BY <3>1, <3>2, <3>3
  <2> QED
    BY <2>1, <2>8, <2>9, <2>10 DEF UsageInv
<1>5. ASSUME NEW t \in UsageTasks, AppendFinished(t) PROVE UsageInv'
  <2> DEFINE e == [task |-> t, provider |-> runOf[t].provider, at |-> time, used |-> runOf[t].used]
  <2>1. /\ runOf[t].at = "written" /\ runOf[t].provider \in UsageProviders /\ runOf[t].used \in Counts
        /\ files[t][runOf[t].provider] = runOf[t].used
        /\ events' = Append(events, e) /\ runOf' = [runOf EXCEPT ![t] = NotRunning]
        /\ UNCHANGED <<time, regLines, files, unread, missed>>
    BY <1>5 DEF AppendFinished, UsageInv, RunHasFile
  <2>2. e \in UsageEvents /\ e.task = t /\ e.provider = runOf[t].provider /\ e.used = runOf[t].used
    BY <2>1 DEF UsageEvents, UsageInv, UsageTypes
  <2> HIDE DEF e
  <2>3. /\ events' \in Seq(UsageEvents)
        /\ \A i \in DOMAIN events : i \in DOMAIN events' /\ events'[i] = events[i]
        /\ \E i \in DOMAIN events' : events'[i] = e
    BY <2>1, <2>2, EventsGrow DEF UsageInv, UsageTypes
  <2>4. runOf'[t] = NotRunning /\ \A u \in UsageTasks \ {t} : runOf'[u] = runOf[u]
    BY <2>1 DEF UsageInv, UsageTypes
  <2>5. NotRunning.at = "idle" /\ NotRunning \in [at : {"idle", "running", "written"},
                  provider : UsageProviders \cup {"none"}, used : Counts \cup {NotRunning.used}]
    BY DEF NotRunning
  <2>6. UsageTypes'
    BY <2>1, <2>3, <2>5 DEF UsageInv, UsageTypes
  <2>7. \A u \in UsageTasks : RunHasFile(u)'
    BY <2>1, <2>4, <2>5 DEF UsageInv, RunHasFile
  <2>8. ASSUME NEW u \in UsageTasks, NEW q \in UsageProviders, FileToldOf(u, q) PROVE FileToldOf(u, q)'
    <3>1. CASE u = t /\ q = runOf[t].provider
      BY <2>1, <2>2, <2>3, <3>1 DEF FileToldOf
    <3>2. CASE u # t \/ q # runOf[t].provider
      <4>1. \/ FileTokens(files[u][q]) = 0
            \/ u # t /\ runOf[u].at = "written" /\ runOf[u].provider = q
            \/ \E i \in DOMAIN events :
                  events[i].task = u /\ events[i].provider = q /\ events[i].used = files[u][q]
        BY <2>8, <3>2 DEF FileToldOf
      <4> QED
        BY <2>1, <2>3, <2>4, <4>1 DEF FileToldOf, FileTokens
    <3> QED
      BY <3>1, <3>2
  <2> QED
    BY <2>1, <2>6, <2>7, <2>8 DEF UsageInv
<1>6. ASSUME NEW t \in UsageTasks, KillRun(t) PROVE UsageInv'
  <2>1. /\ runOf' = [runOf EXCEPT ![t] = NotRunning]
        /\ missed' = (missed \/ runOf[t].at = "written")
        /\ unread' \in SUBSET UsageTasks /\ (unread' = unread \/ runOf[t].at = "written")
        /\ UNCHANGED <<time, regLines, files, events>>
    BY <1>6 DEF KillRun, UsageInv, UsageTypes
  <2>2. runOf'[t] = NotRunning /\ \A u \in UsageTasks \ {t} : runOf'[u] = runOf[u]
    BY <2>1 DEF UsageInv, UsageTypes
  <2>3. NotRunning.at = "idle" /\ NotRunning \in [at : {"idle", "running", "written"},
                  provider : UsageProviders \cup {"none"}, used : Counts \cup {NotRunning.used}]
    BY DEF NotRunning
  <2>4. UsageTypes'
    BY <2>1, <2>3 DEF UsageInv, UsageTypes
  <2>5. \A u \in UsageTasks : RunHasFile(u)'
    BY <2>1, <2>2, <2>3 DEF UsageInv, RunHasFile
  <2>6. ~missed' => ~missed /\ unread' = unread /\ runOf[t].at # "written"
    BY <2>1
  <2>7. ASSUME NEW u \in UsageTasks, NEW q \in UsageProviders, FileToldOf(u, q), ~missed'
        PROVE  FileToldOf(u, q)'
    <3>1. u # t \/ runOf[u].at # "written"
      BY <2>6, <2>7
    <3> QED
      BY <2>1, <2>2, <2>7, <3>1 DEF FileToldOf, FileTokens
  <2> QED
    BY <2>4, <2>5, <2>6, <2>7 DEF UsageInv
<1> QED
  BY <1>1, <1>2, <1>3, <1>4, <1>5, <1>6 DEF UsageNext

LEMMA UsageInvariant == UsageSpec => []UsageInv
  BY UsageInvInit, UsageStep, PTL DEF UsageSpec

-----------------------------------------------------------------------------
\* The sums of the two reports, by line and by event.
FileSums(t)   == [p \in UsageProviders |-> FileTokens(files[t][p])]
TaskSums      == [t \in UsageTasks |-> TaskTokens(t)]
LineTokens(I) == [i \in I |-> TaskTokens(regLines[i].task)]
LineSums(w)   == [p \in UsageProviders |-> TokensUsed(p, w)]
EventCount(e) == (IF e.used.exact # -1 THEN e.used.exact ELSE 0) + e.used.estimated
Costs(I)      == [i \in I |-> EventCount(events[i])]
TellsOf(p)    == {i \in DOMAIN events : Counted(i) /\ events[i].provider = p /\ events[i].at >= 0}
ReportSums    == [p \in UsageProviders |-> Reported(p, 0)]

LEMMA SumsAreSums ==
    /\ \A t \in UsageTasks : TaskTokens(t) = SumOf(FileSums(t), UsageProviders)
    /\ \A p, w : TokensUsed(p, w) = SumOf(LineTokens(LinesOf(p, w)), LinesOf(p, w))
    /\ \A w : Shown(w) = SumOf(LineSums(w), UsageProviders)
    /\ \A p : Reported(p, 0) = SumOf(Costs(TellsOf(p)), TellsOf(p))
    /\ MapThenSumSet(LAMBDA p : Reported(p, 0), UsageProviders) = SumOf(ReportSums, UsageProviders)
<1>1. ASSUME NEW t \in UsageTasks PROVE TaskTokens(t) = SumOf(FileSums(t), UsageProviders)
  BY Zenon DEF TaskTokens, MapThenSumSet, MapThenFoldSet, SumOf, PartialSums, IsSumOver, Picked, FileSums
<1>2. ASSUME NEW p, NEW w PROVE TokensUsed(p, w) = SumOf(LineTokens(LinesOf(p, w)), LinesOf(p, w))
  BY Zenon DEF TokensUsed, MapThenSumSet, MapThenFoldSet, SumOf, PartialSums, IsSumOver, Picked, LineTokens
<1>3. ASSUME NEW w PROVE Shown(w) = SumOf(LineSums(w), UsageProviders)
  BY Zenon DEF Shown, MapThenSumSet, MapThenFoldSet, SumOf, PartialSums, IsSumOver, Picked, LineSums
<1>4. ASSUME NEW p PROVE Reported(p, 0) = SumOf(Costs(TellsOf(p)), TellsOf(p))
  BY Zenon DEF Reported, MapThenSumSet, MapThenFoldSet, SumOf, PartialSums, IsSumOver, Picked,
               Costs, EventCount, TellsOf
<1>5. MapThenSumSet(LAMBDA p : Reported(p, 0), UsageProviders) = SumOf(ReportSums, UsageProviders)
  BY Zenon DEF MapThenSumSet, MapThenFoldSet, SumOf, PartialSums, IsSumOver, Picked, ReportSums
<1> QED
  BY <1>1, <1>2, <1>3, <1>4, <1>5

LEMMA UsageFacts ==
    ASSUME UsageInv
    PROVE  /\ \A t \in UsageTasks, p \in UsageProviders : FileTokens(files[t][p]) \in Nat
           /\ \A t \in UsageTasks : TaskTokens(t) \in Nat
           /\ \A i \in DOMAIN events :
                 /\ events[i].task \in UsageTasks /\ events[i].provider \in UsageProviders
                 /\ events[i].at \in Nat /\ EventCount(events[i]) \in Nat
                 /\ FileTokens(events[i].used) \in Nat /\ FileTokens(events[i].used) <= EventCount(events[i])
           /\ \A i \in DOMAIN regLines :
                 regLines[i].task \in UsageTasks /\ regLines[i].provider \in UsageProviders
           /\ IsFiniteSet(DOMAIN events) /\ IsFiniteSet(DOMAIN regLines) /\ (DOMAIN regLines) \subseteq Nat
<1> USE UsageAssumption
<1>1. ASSUME NEW t \in UsageTasks, NEW p \in UsageProviders PROVE FileTokens(files[t][p]) \in Nat
  <2>1. files[t][p] \in Counts \cup {NoFile}
    BY DEF UsageInv, UsageTypes
  <2>2. files[t][p] \in [exact : Nat \cup {-1}, estimated : Nat]
    BY <2>1 DEF NoFile
  <2> QED
    BY <2>2 DEF FileTokens
<1>2. ASSUME NEW t \in UsageTasks PROVE TaskTokens(t) \in Nat
  <2>1. \A p \in UsageProviders : FileSums(t)[p] \in Nat
    BY <1>1 DEF FileSums
  <2>2. SumOf(FileSums(t), UsageProviders) \in Nat
    BY <2>1, SumOfNaturals
  <2> QED
    BY <2>2, SumsAreSums
<1>3. /\ regLines \in Seq(UsageLines) /\ events \in Seq(UsageEvents)
      /\ DOMAIN events = 1 .. Len(events) /\ Len(events) \in Nat
      /\ DOMAIN regLines = 1 .. Len(regLines) /\ Len(regLines) \in Nat
  BY LenProperties DEF UsageInv, UsageTypes
<1>4. /\ \A i \in DOMAIN events : events[i] \in UsageEvents
      /\ \A i \in DOMAIN regLines : regLines[i] \in UsageLines
  BY <1>3, ElementOfSeq
<1>5. ASSUME NEW i \in DOMAIN events
      PROVE  /\ events[i].task \in UsageTasks /\ events[i].provider \in UsageProviders
             /\ events[i].at \in Nat /\ EventCount(events[i]) \in Nat
             /\ FileTokens(events[i].used) \in Nat /\ FileTokens(events[i].used) <= EventCount(events[i])
  <2>1. /\ events[i].task \in UsageTasks /\ events[i].provider \in UsageProviders
        /\ events[i].at \in Nat /\ events[i].used \in Counts
    BY <1>4 DEF UsageEvents
  <2>2. events[i].used.exact \in Nat \cup {-1} /\ events[i].used.estimated \in Nat
    BY <2>1
  <2> QED
    BY <2>1, <2>2 DEF EventCount, FileTokens
<1>6. IsFiniteSet(DOMAIN events) /\ IsFiniteSet(DOMAIN regLines) /\ (DOMAIN regLines) \subseteq Nat
  BY <1>3, FS_Interval
<1> QED
  BY <1>1, <1>2, <1>4, <1>5, <1>6 DEF UsageLines

\* The dashboard shows no more than the files of all tasks hold.
LEMMA ShownIsInFiles ==
    ASSUME UsageInv, NEW w
    PROVE  /\ Shown(w) \in Int /\ SumOf(TaskSums, UsageTasks) \in Int
           /\ Shown(w) <= SumOf(TaskSums, UsageTasks)
<1> DEFINE V == {i \in LatestLines : InWindow(regLines[i], w)}
           by == [i \in DOMAIN regLines |-> regLines[i].provider]
           of == [i \in DOMAIN regLines |-> regLines[i].task]
           g == LineTokens(V)
           perTask == [t \in UsageTasks |-> SumOf(g, {i \in V : of[i] = t})]
<1> USE UsageAssumption
<1>1. /\ V \subseteq DOMAIN regLines /\ V \subseteq Nat /\ IsFiniteSet(V)
      /\ \A i \in V, j \in V : of[i] = of[j] => i <= j
  BY UsageFacts, FS_Subset DEF LatestLines
<1>2. \A i \in V : g[i] \in Nat /\ by[i] \in UsageProviders /\ of[i] \in UsageTasks
                   /\ g[i] = TaskTokens(of[i])
  BY <1>1, UsageFacts DEF LineTokens
<1>3. \A p \in UsageProviders : LinesOf(p, w) = {i \in V : by[i] = p}
  BY DEF LinesOf, LatestLines
<1> HIDE DEF V, by, of, g
<1>4. ASSUME NEW p \in UsageProviders PROVE TokensUsed(p, w) = SumOf(g, {i \in V : by[i] = p})
  <2> DEFINE I == LinesOf(p, w)
  <2>1. I = {i \in V : by[i] = p}
    BY <1>3
  <2>2. IsFiniteSet(I) /\ I \subseteq V
    BY <1>1, <2>1, FS_Subset
  <2>3. \A i \in I : LineTokens(I)[i] = g[i]
    BY <2>2 DEF LineTokens, g
  <2> HIDE DEF I
  <2>4. SumOf(LineTokens(I), I) = SumOf(g, I)
    BY <2>2, <2>3, SumAgrees
  <2>5. TokensUsed(p, w) = SumOf(LineTokens(I), I)
    BY SumsAreSums DEF I
  <2> QED
    BY <2>1, <2>4, <2>5
<1>5. LineSums(w) = [p \in UsageProviders |-> SumOf(g, {i \in V : by[i] = p})]
  BY <1>4 DEF LineSums
<1>6. \A i \in V : g[i] \in Int /\ by[i] \in UsageProviders /\ of[i] \in UsageTasks
  BY <1>2
<1>7. SumOf([p \in UsageProviders |-> SumOf(g, {i \in V : by[i] = p})], UsageProviders) = SumOf(g, V)
  BY <1>1, <1>6, SumByKey
<1>8. SumOf(perTask, UsageTasks) = SumOf(g, V)
  BY <1>1, <1>6, SumByKey
<1>9. ASSUME NEW t \in UsageTasks
      PROVE  /\ perTask[t] \in Int /\ TaskSums[t] \in Int /\ perTask[t] <= TaskSums[t]
  <2> DEFINE F == {i \in V : of[i] = t}
  <2>1. perTask[t] = SumOf(g, F) /\ TaskSums[t] = TaskTokens(t) /\ TaskTokens(t) \in Nat
    BY UsageFacts DEF TaskSums
  <2>2. CASE F = {}
    BY <2>1, <2>2, SumOfNothing
  <2>3. CASE F # {}
    <3>1. PICK i \in F : TRUE
      BY <2>3
    <3>2. F = {i}
      <4>1. \A j \in F : i <= j /\ j <= i /\ i \in Nat /\ j \in Nat
        BY <1>1, <3>1
      <4>2. \A j \in F : i = j
        BY <4>1
      <4> QED
        BY <3>1, <4>2
    <3>3. g[i] = TaskTokens(t) /\ i \in V
      BY <1>2, <3>1
    <3>4. SumOf(g, {i}) = g[i] + SumOf(g, {i} \ {i})
      <4>1. IsFiniteSet({i}) /\ i \in {i} /\ \A x \in {i} : g[x] \in Int
        <5>1. IsFiniteSet({i}) /\ g[i] \in Nat
          BY <1>2, <3>3, FS_Singleton
        <5> QED
          BY <5>1
      <4> QED
        BY <4>1, SumWithout
    <3>5. SumOf(g, {i} \ {i}) = 0
      BY SumOfNothing, {i} \ {i} = {}
    <3>6. SumOf(g, F) = SumOf(g, {i})
      BY <3>2
    <3> HIDE DEF F, perTask
    <3>7. g[i] \in Int
      BY <2>1, <3>3
    <3> QED
      BY <2>1, <3>3, <3>4, <3>5, <3>6, <3>7
  <2> QED
    BY <2>2, <2>3
<1> HIDE DEF perTask
<1>10. SumOf(perTask, UsageTasks) <= SumOf(TaskSums, UsageTasks)
  BY <1>9, SumMonotone
<1>11. SumOf(g, V) \in Int /\ SumOf(TaskSums, UsageTasks) \in Int
  BY <1>1, <1>6, <1>9, SumType
<1> QED
  BY <1>5, <1>7, <1>8, <1>10, <1>11, SumsAreSums

\* The files of all tasks hold no more than the events that `usage` adds up.
LEMMA FilesAreReported ==
    ASSUME UsageInv, ~missed, \A t \in UsageTasks : runOf[t].at # "written"
    PROVE  /\ SumOf(ReportSums, UsageProviders) \in Int
           /\ SumOf(TaskSums, UsageTasks) <= SumOf(ReportSums, UsageProviders)
<1> DEFINE D == DOMAIN events
           by == [i \in D |-> events[i].provider]
           of == [i \in D |-> events[i].task]
           g == Costs(D)
           Ev(t) == {i \in D : of[i] = t}
           perTask == [t \in UsageTasks |-> SumOf(g, Ev(t))]
<1> USE UsageAssumption
<1>1. /\ IsFiniteSet(D)
      /\ \A i \in D : /\ g[i] \in Nat /\ g[i] \in Int /\ by[i] \in UsageProviders /\ of[i] \in UsageTasks
                      /\ FileTokens(events[i].used) <= g[i]
  BY UsageFacts DEF Costs
<1>2. \A p \in UsageProviders : TellsOf(p) = {i \in D : by[i] = p}
  BY UsageFacts DEF TellsOf, Counted, UsageInv
<1>3. ASSUME NEW t \in UsageTasks, NEW p \in UsageProviders
      PROVE  FileTokens(files[t][p]) <= SumOf(g, {i \in Ev(t) : by[i] = p})
  <2> DEFINE F == {i \in Ev(t) : by[i] = p}
  <2>1. F \subseteq D /\ IsFiniteSet(F) /\ \A i \in F : g[i] \in Nat
    BY <1>1, FS_Subset
  <2>2. \/ FileTokens(files[t][p]) = 0
        \/ \E i \in F : FileTokens(files[t][p]) <= g[i]
    <3>1. FileToldOf(t, p)
      BY DEF UsageInv
    <3> QED
      BY <1>1, <3>1 DEF FileToldOf
  <2> HIDE DEF F, g
  <2>3. SumOf(g, F) \in Nat /\ \A i \in F : g[i] <= SumOf(g, F)
    BY <2>1, SumOfNaturals
  <2>4. FileTokens(files[t][p]) \in Nat
    BY UsageFacts
  <2>5. FileTokens(files[t][p]) <= SumOf(g, F)
    BY <2>1, <2>2, <2>3, <2>4
  <2> QED
    BY <2>5 DEF F
<1> HIDE DEF D, by, of, g
<1>4. \A t \in UsageTasks : IsFiniteSet(Ev(t)) /\ \A i \in Ev(t) : g[i] \in Int /\ by[i] \in UsageProviders
  BY <1>1, FS_Subset
<1>5. ASSUME NEW t \in UsageTasks
      PROVE  perTask[t] \in Int /\ TaskSums[t] \in Int /\ TaskSums[t] <= perTask[t]
  <2> DEFINE h == [p \in UsageProviders |-> SumOf(g, {i \in Ev(t) : by[i] = p})]
  <2>1. SumOf(h, UsageProviders) = SumOf(g, Ev(t))
    <3> DEFINE E == Ev(t)
    <3>1. IsFiniteSet(E) /\ \A i \in E : g[i] \in Int /\ by[i] \in UsageProviders
      BY <1>4
    <3> HIDE DEF E
    <3>2. SumOf([p \in UsageProviders |-> SumOf(g, {i \in E : by[i] = p})], UsageProviders) = SumOf(g, E)
      BY <3>1, SumByKey
    <3> QED
      BY <3>2 DEF E
  <2>2. \A p \in UsageProviders : FileSums(t)[p] \in Int /\ h[p] \in Int /\ FileSums(t)[p] <= h[p]
    <3>1. ASSUME NEW p \in UsageProviders PROVE SumOf(g, {i \in Ev(t) : by[i] = p}) \in Int
      <4> DEFINE F == {i \in Ev(t) : by[i] = p}
      <4>1. IsFiniteSet(F) /\ \A i \in F : g[i] \in Int
        BY <1>4, FS_Subset
      <4> HIDE DEF F
      <4>2. SumOf(g, F) \in Int
        BY <4>1, SumType
      <4> QED
        BY <4>2 DEF F
    <3> QED
      BY <1>3, <3>1, UsageFacts DEF FileSums
  <2> HIDE DEF h
  <2>3. SumOf(FileSums(t), UsageProviders) <= SumOf(h, UsageProviders)
    BY <2>2, SumMonotone
  <2>4. SumOf(h, UsageProviders) \in Int
    BY <2>2, SumType
  <2>5. TaskSums[t] = SumOf(FileSums(t), UsageProviders) /\ TaskSums[t] \in Int
    BY SumsAreSums, UsageFacts DEF TaskSums
  <2>6. perTask[t] = SumOf(g, Ev(t))
    OBVIOUS
  <2> QED
    BY <2>1, <2>3, <2>4, <2>5, <2>6
<1>6. SumOf(perTask, UsageTasks) = SumOf(g, D)
  BY <1>1, SumByKey
<1> HIDE DEF perTask
<1>7. SumOf(TaskSums, UsageTasks) <= SumOf(perTask, UsageTasks)
  BY <1>5, SumMonotone
<1>8. ASSUME NEW p \in UsageProviders PROVE Reported(p, 0) = SumOf(g, {i \in D : by[i] = p})
  <2> DEFINE I == TellsOf(p)
  <2>1. I = {i \in D : by[i] = p}
    BY <1>2
  <2>2. IsFiniteSet(I) /\ I \subseteq D
    BY <1>1, <2>1, FS_Subset
  <2>3. \A i \in I : Costs(I)[i] = g[i]
    BY <2>2 DEF Costs, g
  <2> HIDE DEF I
  <2>4. SumOf(Costs(I), I) = SumOf(g, I)
    BY <2>2, <2>3, SumAgrees
  <2>5. Reported(p, 0) = SumOf(Costs(I), I)
    BY SumsAreSums DEF I
  <2> QED
    BY <2>1, <2>4, <2>5
<1>9. ReportSums = [p \in UsageProviders |-> SumOf(g, {i \in D : by[i] = p})]
  BY <1>8 DEF ReportSums
<1>10. SumOf([p \in UsageProviders |-> SumOf(g, {i \in D : by[i] = p})], UsageProviders) = SumOf(g, D)
  BY <1>1, SumByKey
<1>11. SumOf(g, D) \in Int
  BY <1>1, SumType
<1> QED
  BY <1>6, <1>7, <1>9, <1>10, <1>11

(* For any tasks, providers, counts and windows: as long as every run that wrote
   its usage also told of it, the dashboard shows for no window more than `usage`
   adds up over all runs. *)
THEOREM DashboardIsWithin == UsageSpec => []DashboardWithinReport
<1>1. ASSUME UsageInv PROVE DashboardWithinReport
  <2> SUFFICES ASSUME ~missed, \A t \in UsageTasks : runOf[t].at # "written", NEW w \in Windows
               PROVE  Shown(w) <= MapThenSumSet(LAMBDA p : Reported(p, 0), UsageProviders)
    BY DEF DashboardWithinReport
  <2>1. Shown(w) \in Int /\ SumOf(TaskSums, UsageTasks) \in Int /\ Shown(w) <= SumOf(TaskSums, UsageTasks)
    BY <1>1, ShownIsInFiles
  <2>2. SumOf(ReportSums, UsageProviders) \in Int /\ SumOf(TaskSums, UsageTasks) <= SumOf(ReportSums, UsageProviders)
    BY <1>1, FilesAreReported
  <2> QED
    BY <2>1, <2>2, SumsAreSums
<1> QED
  BY <1>1, UsageInvariant, PTL
=============================================================================
