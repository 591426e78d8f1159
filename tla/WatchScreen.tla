------------------------------ MODULE WatchScreen ------------------------------
(***************************************************************************)
(* The dashboard's screen.  An effect builds a snapshot, then one at every *)
(* interval, for as long as it is the current one; `p` ends it and starts  *)
(* another.  A build takes what there is when it starts and ends any time  *)
(* later, so two may end in the other order.  What a build shows is told   *)
(* in the activity log and moves the selection and the scroll offsets.     *)
(***************************************************************************)
EXTENDS Integers, Sequences, FiniteSets

CONSTANTS
    Fleets,         \* what may be found: sequences of rows [worker, status]
    TaskFilter,     \* the workers of the task asked for, or all of them
    Window,         \* WINDOW_SIZE, and of the log ACTIVITY_WINDOW: rows shown at once
    MaxEffects, MaxBuilds, MaxKeys, MaxEntries  \* bounds

Workers == UNION {{f[i].worker : i \in DOMAIN f} : f \in Fleets}
Effects == 1 .. MaxEffects
Refresh == 0        \* a build that `r` started belongs to no effect
Panes == {"table", "log"}

RowStatuses == {"running", "queued", "completed", "failed", "paused", "stale", "cancelled"}

\* A worker has one row: the aggregator takes each task's latest line and each of its
\* worker directories once.
IsTable(f) ==
    /\ Len(f) \in Nat /\ DOMAIN f = 1 .. Len(f)
    /\ \A i \in DOMAIN f : f[i].status \in RowStatuses
    /\ \A i, j \in DOMAIN f : f[i].worker = f[j].worker => i = j

ASSUME WatchAssumption ==
    /\ <<>> \in Fleets /\ \A f \in Fleets : IsTable(f)
    /\ Window \in Nat \ {0} /\ MaxEffects \in Nat \ {0}

VARIABLES
    fleet,      \* what a build would find now
    effects,    \* of each: "none", then its first build "starting", "ticking", "off"
    current,    \* the effect that is active, 0 once the screen is closed
    builds,     \* builds under way: whose, found what
    paused,
    screen,     \* the rows shown, filtered and in the snapshot's order
    mode,       \* sortMode
    previous,   \* previousWorkers
    selected, picked,   \* the selected row, counted from 0; hasUserSelection
    offset, focus, entries, \* each pane's scroll offset, the focused pane, the log's length
    lastLine,   \* history: of each worker, what the last line about it says, if any
    firstSeen,  \* history: the status it had when it came on screen
    blanked,    \* history: the table became empty
    watchBounds \* [builds, keys]

panes == <<offset, focus, entries>>
history == <<lastLine, firstSeen, blanked>>
shownVars == <<screen, previous, selected, lastLine, firstSeen, blanked>>
watchVars == <<fleet, effects, current, builds, paused, shownVars, mode, picked, panes, watchBounds>>

Untold == "untold"
Spawned == "spawned"

WatchInit ==
    /\ fleet \in Fleets
    /\ effects = [e \in Effects |-> IF e = 1 THEN "starting" ELSE "none"]
    /\ current = 1 /\ paused = FALSE
    /\ builds = {[of |-> 1, found |-> fleet]}
    /\ screen = <<>> /\ mode = "default" /\ previous = <<>>
    /\ selected = 0 /\ picked = FALSE
    /\ offset = [p \in Panes |-> 0] /\ focus = "table" /\ entries = 0
    /\ lastLine = [w \in Workers |-> Untold] /\ firstSeen = lastLine /\ blanked = FALSE
    /\ watchBounds = [builds |-> 0, keys |-> 0]

Lesser(a, b) == IF a < b THEN a ELSE b
Greater(a, b) == IF a > b THEN a ELSE b

(***************************************************************************)
(* Showing a snapshot.                                                     *)
(***************************************************************************)
\* The rows at some places of a table, in their order.
NthOf(I, n) == CHOOSE i \in I : Cardinality({j \in I : j <= i}) = n
RowsAt(f, I) == [n \in 1 .. Cardinality(I) |-> f[NthOf(I, n)]]

Visible(f) == RowsAt(f, {i \in DOMAIN f : f[i].worker \in TaskFilter})

Running(rows) == {i \in DOMAIN rows : rows[i].status = "running"}

\* sortWorkers: as found, or the running ones first.
Sorted(rows, m) ==
    IF m = "default" THEN rows
    ELSE RowsAt(rows, Running(rows)) \o RowsAt(rows, DOMAIN rows \ Running(rows))

\* Mutant of Selection: the user's row is kept whatever becomes of it.
SelectionAsItWas(rows, at) ==
    IF rows = <<>> THEN 0
    ELSE IF picked THEN at
    ELSE IF Running(rows) = {} THEN 0 ELSE (CHOOSE i \in Running(rows) : \A j \in Running(rows) : i <= j) - 1

\* The first running row until the user picks one, then that row's place.
Selection(rows, at) ==
    IF rows = <<>> THEN 0
    ELSE IF picked THEN Lesser(at, Len(rows) - 1)
    ELSE IF Running(rows) = {} THEN 0 ELSE (CHOOSE i \in Running(rows) : \A j \in Running(rows) : i <= j) - 1

InRange(at, length) == Greater(0, Lesser(Greater(0, length - Window), at))

Was(w) == {previous[i].status : i \in {j \in DOMAIN previous : previous[j].worker = w}}

\* recordStatusChanges: a line for each worker that is new or has changed, none
\* when there was nothing on screen before.
Line(w, status) ==
    IF previous = <<>> \/ Was(w) = {status} THEN lastLine[w]
    ELSE IF Was(w) = {} THEN Spawned ELSE status

StatusOf(rows, w) == {rows[i].status : i \in {j \in DOMAIN rows : rows[j].worker = w}}

\* Mutant of Remembered: a worker is remembered as it came.
RememberedFirst(rows) == previous \o RowsAt(rows, {i \in DOMAIN rows : Was(rows[i].worker) = {}})
Remembered(rows) == rows

Show(found) ==
    LET rows == Visible(found) IN
    /\ screen' = rows
    /\ previous' = Remembered(rows)
    /\ lastLine' = [w \in Workers |->
           IF StatusOf(rows, w) = {} THEN lastLine[w]
           ELSE Line(w, CHOOSE s \in StatusOf(rows, w) : TRUE)]
    /\ firstSeen' = [w \in Workers |->
           IF StatusOf(rows, w) # {} /\ StatusOf(screen, w) = {}
           THEN CHOOSE s \in StatusOf(rows, w) : TRUE ELSE firstSeen[w]]
    /\ blanked' = (blanked \/ (screen # <<>> /\ rows = <<>>))
    /\ selected' = Selection(Sorted(rows, mode), selected)
    /\ offset' = [offset EXCEPT !["table"] = InRange(@, Len(rows))]

(***************************************************************************)
(* Builds.                                                                 *)
(***************************************************************************)
FleetChanges ==
    /\ fleet' \in Fleets \ {fleet}
    /\ UNCHANGED <<effects, current, builds, paused, shownVars, mode, picked, panes, watchBounds>>

\* The interval does not wait for the build before.
IntervalFires(e) ==
    /\ effects[e] = "ticking" /\ watchBounds.builds < MaxBuilds
    /\ watchBounds' = [watchBounds EXCEPT !.builds = @ + 1]
    /\ builds' = builds \cup {[of |-> e, found |-> fleet]}
    /\ UNCHANGED <<fleet, effects, current, paused, shownVars, mode, picked, panes>>

\* `active && !paused`: the effect under way is the one of this value of paused.
Listens(e) == e = current /\ ~paused

\* Mutant of AfterFirstBuild: an effect that was ended meanwhile starts its interval.
AfterFirstBuildAlways(e) == "ticking"

\* The handle comes with the first build: its interval is stopped at once if
\* the effect has ended.
AfterFirstBuild(e) == IF e = current THEN "ticking" ELSE "off"

BuildEnds(b) ==
    /\ b \in builds /\ b.of # Refresh
    /\ builds' = builds \ {b}
    /\ effects' = [effects EXCEPT ![b.of] = IF @ = "starting" THEN AfterFirstBuild(b.of) ELSE @]
    /\ IF Listens(b.of) THEN Show(b.found) ELSE UNCHANGED <<shownVars, offset>>
    /\ UNCHANGED <<fleet, current, paused, mode, picked, focus, entries, watchBounds>>

\* A refresh is shown whether the screen is paused or not.
RefreshEnds(b) ==
    /\ b \in builds /\ b.of = Refresh
    /\ builds' = builds \ {b}
    /\ IF current # 0 THEN Show(b.found) ELSE UNCHANGED <<shownVars, offset>>
    /\ UNCHANGED <<fleet, effects, current, paused, mode, picked, focus, entries, watchBounds>>

\* The poll of the workers' logs ends: the buffer has grown.
LogGrows ==
    /\ current # 0 /\ entries < MaxEntries
    /\ entries' = entries + 1
    /\ offset' = [offset EXCEPT !["log"] = InRange(@, entries + 1)]
    /\ UNCHANGED <<fleet, effects, current, builds, paused, shownVars, mode, picked, focus, watchBounds>>

(***************************************************************************)
(* Keys.                                                                   *)
(***************************************************************************)
Key == /\ current # 0 /\ watchBounds.keys < MaxKeys
       /\ watchBounds' = [watchBounds EXCEPT !.keys = @ + 1]

\* The cleanup of the current effect.
Ended == [effects EXCEPT ![current] = IF @ = "ticking" THEN "off" ELSE @]

PressPause ==
    /\ Key /\ current < MaxEffects
    /\ paused' = ~paused
    /\ effects' = [Ended EXCEPT ![current + 1] = "starting"]
    /\ current' = current + 1
    /\ builds' = builds \cup {[of |-> current + 1, found |-> fleet]}
    /\ UNCHANGED <<fleet, shownVars, mode, picked, panes>>

PressQuit ==
    /\ Key
    /\ effects' = Ended /\ current' = 0
    /\ UNCHANGED <<fleet, builds, paused, shownVars, mode, picked, panes>>

PressRefresh ==
    /\ Key
    /\ builds' = builds \cup {[of |-> Refresh, found |-> fleet]}
    /\ UNCHANGED <<fleet, effects, current, paused, shownVars, mode, picked, panes>>

PressSort ==
    /\ Key
    /\ mode' = IF mode = "default" THEN "status" ELSE "default"
    /\ selected' = Selection(Sorted(screen, mode'), selected)
    /\ UNCHANGED <<fleet, effects, current, builds, paused, screen, previous, history, picked, panes>>

PressWorker(step) ==
    /\ Key
    /\ picked' = TRUE
    /\ selected' = Greater(0, Lesser(Len(screen) - 1, selected + step))
    /\ UNCHANGED <<fleet, effects, current, builds, paused, screen, previous, history, mode, panes>>

PressTab ==
    /\ Key
    /\ focus' = IF focus = "table" THEN "log" ELSE "table"
    /\ UNCHANGED <<fleet, effects, current, builds, paused, shownVars, mode, picked, offset, entries>>

Length(pane) == IF pane = "table" THEN Len(screen) ELSE entries

\* An arrow or a page; g and G go as far as enough of these do.
PressScroll(by) ==
    /\ Key
    /\ offset' = [offset EXCEPT ![focus] = InRange(@ + by, Length(focus))]
    /\ UNCHANGED <<fleet, effects, current, builds, paused, shownVars, mode, picked, focus, entries>>

WatchNext ==
    \/ FleetChanges \/ LogGrows
    \/ \E e \in Effects : IntervalFires(e)
    \/ \E b \in builds : BuildEnds(b) \/ RefreshEnds(b)
    \/ PressPause \/ PressQuit \/ PressRefresh \/ PressSort \/ PressTab
    \/ \E step \in {-1, 1} : PressWorker(step)
    \/ \E by \in {-Window, -1, 1, Window} : PressScroll(by)

WatchSpec == WatchInit /\ [][WatchNext]_watchVars

(***************************************************************************)
(* Properties.                                                             *)
(***************************************************************************)
(* "callers can stop cleanly during tests or TUI unmount" (aggregator.ts): an
   interval runs only for the current effect, however late the first build of an
   earlier one ended, and none after the screen is closed. *)
OneInterval == \A e \in Effects : effects[e] = "ticking" => e = current

(* Whatever the snapshots, the sort and the keys do to the table, the selected row
   is one of its rows, a running one until the user picks, and no pane is
   scrolled past its end. *)
SelectionInRange ==
    /\ selected \in 0 .. Greater(0, Len(screen) - 1)
    /\ LET rows == Sorted(screen, mode) IN
       ~picked /\ Running(rows) # {} => rows[selected + 1].status = "running"
    /\ \A p \in Panes : offset[p] \in 0 .. Greater(0, Length(p) - Window)

(* The activity log keeps up with the table: unless the table was empty in between, the
   last line about a worker says the status it is shown with, and one without a
   line has the status it came with. *)
LogKeepsUp ==
    blanked \/ \A i \in DOMAIN screen :
        LET w == screen[i].worker IN
        IF lastLine[w] \in {Untold, Spawned} THEN screen[i].status = firstSeen[w]
        ELSE screen[i].status = lastLine[w]
=============================================================================
