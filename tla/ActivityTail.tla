------------------------------ MODULE ActivityTail ------------------------------
(***************************************************************************)
(* The dashboard's log of what the workers print: polls that read, from    *)
(* each running worker's log, what was appended since the poll before.     *)
(* Every snapshot and every second starts one, whether or not the one      *)
(* before has ended.  A log is a number of lines; stderr.log is read like  *)
(* stdout.log.                                                             *)
(***************************************************************************)
EXTENDS Naturals, Sequences

CONSTANTS
    Pollers,            \* polls that may be under way at once
    Dirs,               \* worker directories, in the order of the snapshot: a sequence
    IdOf,               \* the worker id of each: <provider>-1
    MaxRead,            \* lines in 64 KiB
    Cap,                \* BUFFER_CAP
    MaxLog, MaxShrinks, MaxPolls  \* bounds

WorkerDirs == {Dirs[i] : i \in DOMAIN Dirs}
Ids == {IdOf[d] : d \in WorkerDirs}
NoDir == "none"

ASSUME TailAssumption ==
    /\ Len(Dirs) \in Nat /\ DOMAIN Dirs = 1 .. Len(Dirs)
    /\ NoDir \notin WorkerDirs
    /\ Cap \in Nat \ {0} /\ MaxRead \in Nat \ {0}

VARIABLES
    logSize,    \* lines in each directory's log
    live,       \* the directories of the running workers on screen
    watched,    \* of each worker id: directory, offset, and the poll that made it
    poll,       \* of each poller: the directories left, ids seen, the read under way
    buffer,     \* the entries
    shown,      \* history: lines that entered the buffer
    since,      \* history: where the watch of a directory began
    shrunk,     \* history: logs that were emptied, by a rerun or to be written anew
    overlapped, \* history: two polls were under way at once
    tailBounds  \* [polls, shrinks]

tailVars == <<logSize, live, watched, poll, buffer, shown, since, shrunk, overlapped, tailBounds>>

Unwatched == [dir |-> NoDir, offset |-> 0, by |-> 0]
NoPoll == [at |-> "idle", todo |-> {}, seen |-> {}, entry |-> Unwatched, number |-> 0]

TailInit ==
    /\ logSize = [d \in WorkerDirs |-> 0]
    /\ live = {}
    /\ watched = [i \in Ids |-> Unwatched]
    /\ poll = [p \in Pollers |-> NoPoll]
    /\ buffer = <<>>
    /\ shown = [d \in WorkerDirs |-> {}] /\ since = [d \in WorkerDirs |-> 0]
    /\ shrunk = {} /\ overlapped = FALSE
    /\ tailBounds = [polls |-> 0, shrinks |-> 0]

PrintLine(d) ==
    /\ logSize[d] < MaxLog
    /\ logSize' = [logSize EXCEPT ![d] = @ + 1]
    /\ UNCHANGED <<live, watched, poll, buffer, shown, since, shrunk, overlapped, tailBounds>>

\* A rerun empties the log; a finished run's is emptied and written whole.
Empty(d) ==
    /\ tailBounds.shrinks < MaxShrinks /\ logSize[d] > 0
    /\ tailBounds' = [tailBounds EXCEPT !.shrinks = @ + 1]
    /\ logSize' = [logSize EXCEPT ![d] = 0]
    /\ shrunk' = shrunk \cup {d}
    /\ UNCHANGED <<live, watched, poll, buffer, shown, since, overlapped>>

SnapshotShows(dirs) ==
    /\ live # dirs /\ live' = dirs
    /\ UNCHANGED <<logSize, watched, poll, buffer, shown, since, shrunk, overlapped, tailBounds>>

BeginPoll(p) ==
    /\ poll[p].at = "idle" /\ tailBounds.polls < MaxPolls
    /\ tailBounds' = [tailBounds EXCEPT !.polls = @ + 1]
    /\ poll' = [poll EXCEPT ![p] = [NoPoll EXCEPT
            !.at = "next", !.todo = live,
            !.number = tailBounds.polls + 1]]
    /\ overlapped' = (overlapped \/ \E q \in Pollers : poll[q].at # "idle")
    /\ UNCHANGED <<logSize, live, watched, buffer, shown, since, shrunk>>

\* The running workers are taken in the order of the snapshot.
NextOf(dirs) ==
    Dirs[CHOOSE i \in DOMAIN Dirs : Dirs[i] \in dirs /\ \A j \in 1 .. i - 1 : Dirs[j] \notin dirs]

\* The entry is looked up under the worker's id alone.
LookUp(p) ==
    /\ poll[p].at = "next" /\ poll[p].todo # {}
    /\ LET id == IdOf[NextOf(poll[p].todo)] IN
       poll' = [poll EXCEPT ![p].seen = @ \cup {id}, ![p].entry = watched[id],
                            ![p].at = IF watched[id] = Unwatched THEN "stat" ELSE "read"]
    /\ UNCHANGED <<logSize, live, watched, buffer, shown, since, shrunk, overlapped, tailBounds>>

NextDir(p) == [poll EXCEPT ![p].todo = @ \ {NextOf(@)}, ![p].at = "next", ![p].entry = Unwatched]

\* A worker seen for the first time is read from the end of its log on.
StartWatch(p) ==
    /\ poll[p].at = "stat"
    /\ LET d == NextOf(poll[p].todo) IN
       /\ watched' = [watched EXCEPT ![IdOf[d]] =
                          [dir |-> d, offset |-> logSize[d], by |-> poll[p].number]]
       /\ since' = [since EXCEPT ![d] = logSize[d]]
    /\ poll' = NextDir(p)
    /\ UNCHANGED <<logSize, live, buffer, shown, shrunk, overlapped, tailBounds>>

\* readSince: after the offset, or from the start of a log that is shorter.
ReadFrom(entry) == IF logSize[entry.dir] < entry.offset THEN 0 ELSE entry.offset

\* Mutant of ReadTo: what lies beyond the 64 KiB is passed over.
ReadToEnd(entry) == logSize[entry.dir]

ReadTo(entry) ==
    LET end == ReadFrom(entry) + MaxRead IN
    IF logSize[entry.dir] < end THEN logSize[entry.dir] ELSE end

Newest(s) == IF Len(s) > Cap THEN SubSeq(s, Len(s) - Cap + 1, Len(s)) ELSE s

LinesRead(entry) ==
    LET from == ReadFrom(entry)
        count == IF logSize[entry.dir] < from + MaxRead THEN logSize[entry.dir] - from ELSE MaxRead
        passed == ReadTo(entry) - count  \* 0 lines before these, unless some are passed over
    IN [i \in 1 .. count |-> [dir |-> entry.dir, line |-> passed + i]]

ReadAppended(p) ==
    /\ poll[p].at = "read"
    /\ LET e == poll[p].entry
           id == IdOf[NextOf(poll[p].todo)]
           new == LinesRead(e)
       IN  /\ buffer' = Newest(buffer \o new)
           /\ shown' = [shown EXCEPT ![e.dir] = @ \cup {new[i].line : i \in DOMAIN new}]
           /\ watched' = IF watched[id].by = e.by /\ watched[id].dir = e.dir
                         THEN [watched EXCEPT ![id].offset = ReadTo(e)] ELSE watched
    /\ poll' = NextDir(p)
    /\ UNCHANGED <<logSize, live, since, shrunk, overlapped, tailBounds>>

\* Those it has not seen are no longer watched.
StillWatched(p, i) == i \in poll[p].seen

EndPoll(p) ==
    /\ poll[p].at = "next" /\ poll[p].todo = {}
    /\ watched' = [i \in Ids |-> IF StillWatched(p, i) THEN watched[i] ELSE Unwatched]
    /\ poll' = [poll EXCEPT ![p] = NoPoll]
    /\ UNCHANGED <<logSize, live, buffer, shown, since, shrunk, overlapped, tailBounds>>

TailNext ==
    \/ \E d \in WorkerDirs : PrintLine(d) \/ Empty(d)
    \/ \E dirs \in SUBSET WorkerDirs : SnapshotShows(dirs)
    \/ \E p \in Pollers : BeginPoll(p) \/ LookUp(p) \/ StartWatch(p) \/ ReadAppended(p) \/ EndPoll(p)

TailSpec == TailInit /\ [][TailNext]_tailVars

(***************************************************************************)
(* Properties.                                                             *)
(***************************************************************************)
(* activity-stream.ts:10: what was appended is read, and only that.  As long as no
   poll began while another was under way, a worker's lines keep their order and
   none is shown twice, and nothing between the start of a watch and its offset
   is passed over, however much was printed at once; a log that was emptied is
   left out. *)
ShownOnce ==
    \A i, j \in DOMAIN buffer :
        i < j /\ buffer[i].dir = buffer[j].dir /\ buffer[i].dir \notin shrunk
            => buffer[i].line < buffer[j].line
NonePassedOver ==
    \A id \in Ids : LET w == watched[id] IN
        w # Unwatched /\ w.dir \notin shrunk => (since[w.dir] + 1) .. w.offset \subseteq shown[w.dir]
TailIsExact == overlapped \/ (ShownOnce /\ NonePassedOver)
=============================================================================
