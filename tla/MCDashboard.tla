------------------------------ MODULE MCDashboard ------------------------------
(***************************************************************************)
(* The dashboard, each part by itself: `part` is the one that moves, the   *)
(* others stay where they begin.  They share no state that is modelled, so *)
(* this is every behaviour of each.                                        *)
(***************************************************************************)
EXTENDS ActivityTail, WatchScreen, TaskRows, UsageReport, PlanDetection, TLC

VARIABLE part

LogDirs == <<"dirOne">>
DirIds  == [d \in {"dirOne"} |-> d]

Row(w, s) == [worker |-> w, status |-> s]
SomeFleets == {<<>>,
               <<Row("one", "running")>>,
               <<Row("one", "completed"), Row("two", "running")>>,
               <<Row("one", "running"), Row("two", "queued"), Row("three", "completed")>>}

PlanWords == "max_20x" :> {"Max"}

TokenCounts == {[exact |-> 2, estimated |-> 1], [exact |-> -1, estimated |-> 3]}

(***************************************************************************)
(* One part moves.                                                         *)
(***************************************************************************)
Parts == {"tail", "screen", "rows", "usage", "plans"}

DashboardInit ==
    /\ part \in Parts
    /\ TailInit /\ RowsInit /\ UsageInit
    /\ WatchInit /\ (part = "screen" \/ fleet = <<>>)
    /\ PlanInit  /\ (part = "plans" \/ <<provider, login>> = <<"kilo", [auth |-> FALSE]>>)

Only(p) ==
    /\ part = p /\ UNCHANGED part
    /\ p = "tail"   \/ UNCHANGED tailVars
    /\ p = "screen" \/ UNCHANGED watchVars
    /\ p = "rows"   \/ UNCHANGED rowVars
    /\ p = "usage"  \/ UNCHANGED usageVars
    /\ p = "plans"  \/ UNCHANGED planVars

DashboardNext ==
    \/ Only("tail")   /\ TailNext
    \/ Only("screen") /\ WatchNext
    \/ Only("rows")   /\ RowsNext
    \/ Only("usage")  /\ UsageNext
    \/ Only("plans")  /\ PlanNext

DashboardSpec ==
    DashboardInit /\ [][DashboardNext]_<<part, tailVars, watchVars, rowVars, usageVars, planVars>>
=============================================================================
