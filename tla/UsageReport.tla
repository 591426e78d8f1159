------------------------------ MODULE UsageReport ------------------------------
(***************************************************************************)
(* Two reports of the tokens that were used: the dashboard's, which takes  *)
(* the usage.json of each worker directory and puts all of a task's under  *)
(* the provider and the time of its latest registry line, and              *)
(* `usage`'s, which adds up the worker_finished events of every run.       *)
(***************************************************************************)
EXTENDS Integers, Sequences, FiniteSetsExt

CONSTANTS
    UsageTasks, UsageProviders,
    Counts,             \* what a run may use: [exact, estimated], exact -1 if unknown
    Windows,            \* lengths of the windows looked at, 0 for one without end
    MaxTime, MaxRuns    \* bounds

ASSUME UsageAssumption ==
    /\ IsFiniteSet(UsageTasks) /\ IsFiniteSet(UsageProviders)
    /\ Counts \subseteq [exact : Nat \cup {-1}, estimated : Nat]
    /\ Windows \subseteq Nat /\ 0 \in Windows

VARIABLES
    time,
    runOf,      \* of each task, its run under way: provider and place
    regLines,   \* the registry's lines
    files,      \* usage.json of each task's worker directories, one per provider
    events,     \* worker_finished, of all tasks
    unread,     \* tasks whose events.jsonl does not parse: they count as none
    runCount,
    missed      \* history: a run wrote its file and no event

usageVars == <<time, runOf, regLines, files, events, unread, runCount, missed>>

NotRunning == [at |-> "idle", provider |-> "none", used |-> [exact |-> -1, estimated |-> 0]]
NoFile == [exact |-> 0, estimated |-> 0]

UsageInit ==
    /\ time = 0 /\ runOf = [t \in UsageTasks |-> NotRunning]
    /\ regLines = <<>> /\ events = <<>>
    /\ files = [t \in UsageTasks |-> [p \in UsageProviders |-> NoFile]]
    /\ unread = {} /\ runCount = 0 /\ missed = FALSE

TimePasses ==
    /\ time < MaxTime /\ time' = time + 1
    /\ UNCHANGED <<runOf, regLines, files, events, unread, runCount, missed>>

\* The line is skipped where the registry may not be written.
RouteRun(t, p) ==
    /\ runOf[t].at = "idle" /\ runCount < MaxRuns
    /\ runCount' = runCount + 1
    /\ regLines' \in {Append(regLines, [task |-> t, provider |-> p, at |-> time]), regLines}
    /\ runOf' = [runOf EXCEPT ![t] = [NotRunning EXCEPT !.at = "running", !.provider = p]]
    /\ UNCHANGED <<time, files, events, unread, missed>>

\* A provider's next run of the task writes over the file of the one before.
WriteUsage(t, n) ==
    /\ runOf[t].at = "running"
    /\ files' = [files EXCEPT ![t][runOf[t].provider] = n]
    /\ runOf' = [runOf EXCEPT ![t].at = "written", ![t].used = n]
    /\ UNCHANGED <<time, regLines, events, unread, runCount, missed>>

AppendFinished(t) ==
    /\ runOf[t].at = "written"
    /\ events' = Append(events, [task |-> t, provider |-> runOf[t].provider, at |-> time,
                                 used |-> runOf[t].used])
    /\ runOf' = [runOf EXCEPT ![t] = NotRunning]
    /\ UNCHANGED <<time, regLines, files, unread, runCount, missed>>

\* The command is killed: before its event, or with the line half written.
KillRun(t) ==
    /\ runOf[t].at # "idle"
    /\ \/ UNCHANGED unread
       \/ runOf[t].at = "written" /\ unread' = unread \cup {t}
    /\ missed' = (missed \/ runOf[t].at = "written")
    /\ runOf' = [runOf EXCEPT ![t] = NotRunning]
    /\ UNCHANGED <<time, regLines, files, events, runCount>>

UsageNext ==
    \/ TimePasses
    \/ \E t \in UsageTasks :
          \/ \E p \in UsageProviders : RouteRun(t, p)
          \/ \E n \in Counts : WriteUsage(t, n)
          \/ AppendFinished(t) \/ KillRun(t)

UsageSpec == UsageInit /\ [][UsageNext]_usageVars

(***************************************************************************)
(* The dashboard's report.                                                 *)
(***************************************************************************)
LatestLines == {i \in DOMAIN regLines :
                    \A j \in DOMAIN regLines : regLines[j].task = regLines[i].task => j <= i}

\* parseTokens
FileTokens(f) == IF f.exact # -1 THEN f.exact ELSE f.estimated

TaskTokens(t) == MapThenSumSet(LAMBDA p : FileTokens(files[t][p]), UsageProviders)

InWindow(e, w) == w = 0 \/ (time - w <= e.at /\ e.at <= time)

LinesOf(p, w) == {i \in LatestLines : regLines[i].provider = p /\ InWindow(regLines[i], w)}
TokensUsed(p, w) == MapThenSumSet(LAMBDA i : TaskTokens(regLines[i].task), LinesOf(p, w))

(***************************************************************************)
(* The report of `usage`: summarizeUsage over the events since a time.     *)
(***************************************************************************)
\* Mutant of Counted: only the last event of a task counts.
CountedLast(i) == \A j \in DOMAIN events : events[j].task = events[i].task => j <= i
Counted(i) == events[i].task \notin unread

Reported(p, since) ==
    MapThenSumSet(LAMBDA i : (IF events[i].used.exact # -1 THEN events[i].used.exact ELSE 0)
                             + events[i].used.estimated,
                  {i \in DOMAIN events : Counted(i) /\ events[i].provider = p /\ events[i].at >= since})

(***************************************************************************)
(* Properties.                                                             *)
(***************************************************************************)
Shown(w) == MapThenSumSet(LAMBDA p : TokensUsed(p, w), UsageProviders)

(* As long as every run that wrote its usage also told of it, the dashboard shows
   for no window more than `usage` counts and estimates over all runs: a task's
   tokens are counted once, however many lines, runs and providers it had. *)
DashboardWithinReport ==
    missed \/ (\E t \in UsageTasks : runOf[t].at = "written")
    \/ \A w \in Windows : Shown(w) <= MapThenSumSet(LAMBDA p : Reported(p, 0), UsageProviders)
=============================================================================
