------------------------------ MODULE ContextPack ------------------------------
(***************************************************************************)
(* What a worker is told of the repository: the allowed files, the highest *)
(* score first, each in full while there is room, else as a summary, else  *)
(* not at all; and the cache of summaries, read at the start and written   *)
(* back whole at the end of every compilation.  Several commands may be    *)
(* compiling while the files are edited.                                   *)
(***************************************************************************)
EXTENDS Integers, FiniteSets, FiniteSetsExt

CONSTANTS
    Compilations,   \* dry-runs and runs, each compiles once
    Files,          \* files the task's globs match
    Contents,       \* what a file may hold, after redaction
    TooLong,        \* those of more than 64 KiB
    FullSize, SummarySize,  \* of a content: bytes when wrapped, bytes of its summary
    FileScore,      \* of a file and its content; ties go by path
    PathOrder,      \* of a file
    Settings,       \* the environment's AGENT_OS_CONTEXT_MAX_*: files, bytes, summaries
    MaxEdits        \* bound

Absent == "absent"
Unread == "unread"

ASSUME ContextAssumption ==
    /\ IsFiniteSet(Files) /\ TooLong \subseteq Contents
    /\ Absent \notin Contents /\ Unread \notin Contents
    /\ FullSize \in [Contents -> Nat] /\ SummarySize \in [Contents -> Nat]
    /\ Settings \in [{"files", "bytes", "summaries"} -> Int]
    /\ MaxEdits \in Nat

PositiveInteger(value, fallback) == IF value > 0 THEN value ELSE fallback
MaxFiles     == PositiveInteger(Settings.files, 20)
BudgetBytes  == PositiveInteger(Settings.bytes, 192 * 1024)
MaxSummaries == PositiveInteger(Settings.summaries, 20)

VARIABLES
    repo,       \* the content of each file
    saved,      \* file-summaries.json
    stage,      \* of each compilation
    known,      \* its cache: path to summary and hash
    readAs,     \* the content it read of each file
    summary,    \* the content each summary was made from
    toRank, toPlace,  \* files still to be read, still to be placed
    mode,       \* where it placed each file
    used,       \* bytes
    edits

packVars == <<repo, saved, stage, known, readAs, summary, toRank, toPlace, mode, used, edits>>

NoSummary == [hash |-> Unread, text |-> Unread]
NothingKnown == [f \in Files |-> NoSummary]
NoFile == [form |-> "none", entries |-> NothingKnown]

PackInit ==
    /\ repo \in [Files -> Contents]
    /\ saved = NoFile
    /\ stage = [c \in Compilations |-> "start"]
    /\ known = [c \in Compilations |-> NothingKnown]
    /\ readAs = [c \in Compilations |-> [f \in Files |-> Unread]]
    /\ summary = [c \in Compilations |-> [f \in Files |-> Unread]]
    /\ toRank = [c \in Compilations |-> {}]
    /\ toPlace = [c \in Compilations |-> {}]
    /\ mode = [c \in Compilations |-> [f \in Files |-> "none"]]
    /\ used = [c \in Compilations |-> 0]
    /\ edits = 0

Edit(f, content) ==
    /\ edits < MaxEdits /\ repo[f] # content
    /\ repo' = [repo EXCEPT ![f] = content]
    /\ edits' = edits + 1
    /\ UNCHANGED <<saved, stage, known, readAs, summary, toRank, toPlace, mode, used>>

\* The list of files, then the cache; one that does not parse is an error.
Load(c) ==
    /\ stage[c] = "start"
    /\ IF saved.form = "torn"
       THEN stage' = [stage EXCEPT ![c] = "failed"] /\ UNCHANGED <<known, toRank, toPlace>>
       ELSE LET listed == {f \in Files : repo[f] \notin TooLong \cup {Absent}} IN
            /\ stage' = [stage EXCEPT ![c] = "rank"]
            /\ known' = [known EXCEPT ![c] = saved.entries]
            /\ toRank' = [toRank EXCEPT ![c] = listed]
            /\ toPlace' = [toPlace EXCEPT ![c] = listed]
    /\ UNCHANGED <<repo, saved, readAs, summary, mode, used, edits>>

\* Mutant of Summarized: a cached summary is good for its path.
SummarizedByPath(entry, content) == IF entry = NoSummary THEN content ELSE entry.text

Summarized(entry, content) == IF entry.hash = content THEN entry.text ELSE content

\* All at once, so in any order; a file that has gone is an error.
Rank(c, f) ==
    /\ stage[c] = "rank" /\ f \in toRank[c]
    /\ IF repo[f] = Absent
       THEN stage' = [stage EXCEPT ![c] = "failed"] /\ UNCHANGED <<known, readAs, summary, toRank>>
       ELSE LET text == Summarized(known[c][f], repo[f]) IN
            /\ readAs' = [readAs EXCEPT ![c][f] = repo[f]]
            /\ summary' = [summary EXCEPT ![c][f] = text]
            /\ known' = [known EXCEPT ![c][f] = [hash |-> repo[f], text |-> text]]
            /\ toRank' = [toRank EXCEPT ![c] = @ \ {f}]
            /\ UNCHANGED stage
    /\ UNCHANGED <<repo, saved, toPlace, mode, used, edits>>

Placed(c, m) == {f \in Files : mode[c][f] = m}
Before(c, f, g) ==
    LET score(h) == FileScore[h, readAs[c][h]] IN
    score(f) > score(g) \/ (score(f) = score(g) /\ PathOrder[f] <= PathOrder[g])

FitsFull(c, f) ==
    Cardinality(Placed(c, "full")) < MaxFiles /\ used[c] + FullSize[readAs[c][f]] <= BudgetBytes

\* Mutant of FitsSummary: the last byte is not used.
FitsSummaryBelow(c, f) ==
    /\ Cardinality(Placed(c, "summary")) < MaxSummaries
    /\ used[c] + SummarySize[summary[c][f]] < BudgetBytes

FitsSummary(c, f) ==
    /\ Cardinality(Placed(c, "summary")) < MaxSummaries
    /\ used[c] + SummarySize[summary[c][f]] <= BudgetBytes

Put(c, f, m, bytes) ==
    /\ mode' = [mode EXCEPT ![c][f] = m]
    /\ used' = [used EXCEPT ![c] = @ + bytes]

Place(c, f) ==
    /\ stage[c] = "rank" /\ toRank[c] = {}
    /\ f \in toPlace[c] /\ \A g \in toPlace[c] : Before(c, f, g)
    /\ \/ FitsFull(c, f) /\ Put(c, f, "full", FullSize[readAs[c][f]])
       \/ /\ ~FitsFull(c, f) /\ FitsSummary(c, f)
          /\ Put(c, f, "summary", SummarySize[summary[c][f]])
       \/ /\ ~FitsFull(c, f) /\ ~FitsSummary(c, f)
          /\ Put(c, f, IF Cardinality(Placed(c, "full")) >= MaxFiles THEN "max_files" ELSE "byte_budget", 0)
    /\ toPlace' = [toPlace EXCEPT ![c] = @ \ {f}]
    /\ UNCHANGED <<repo, saved, stage, known, readAs, summary, toRank, edits>>

\* The bundle is written; the file of summaries is emptied, then filled.
WriteBundle(c) ==
    /\ stage[c] = "rank" /\ toPlace[c] = {}
    /\ saved' = [form |-> "torn", entries |-> NothingKnown]
    /\ stage' = [stage EXCEPT ![c] = "save"]
    /\ UNCHANGED <<repo, known, readAs, summary, toRank, toPlace, mode, used, edits>>

SaveSummaries(c) ==
    /\ stage[c] = "save"
    /\ saved' = [form |-> "ok", entries |-> known[c]]
    /\ stage' = [stage EXCEPT ![c] = "done"]
    /\ UNCHANGED <<repo, known, readAs, summary, toRank, toPlace, mode, used, edits>>

KillCompilation(c) ==
    /\ stage[c] = "save"
    /\ stage' = [stage EXCEPT ![c] = "killed"]
    /\ UNCHANGED <<repo, saved, known, readAs, summary, toRank, toPlace, mode, used, edits>>

PackNext ==
    \/ \E f \in Files, content \in Contents \cup {Absent} : Edit(f, content)
    \/ \E c \in Compilations :
          \/ Load(c) \/ WriteBundle(c) \/ SaveSummaries(c) \/ KillCompilation(c)
          \/ \E f \in Files : Rank(c, f) \/ Place(c, f)

PackSpec == PackInit /\ [][PackNext]_packVars

(***************************************************************************)
(* Properties.                                                             *)
(***************************************************************************)
BytesOf(c, f) ==
    IF mode[c][f] = "full" THEN FullSize[readAs[c][f]]
    ELSE IF mode[c][f] = "summary" THEN SummarySize[summary[c][f]] ELSE 0

(* A bundle makes the most of its limits: its files and summaries are together no
   longer than the budget and no more than their numbers, and what was left out
   would not fit into the finished bundle either, in full or as a summary, so
   that the order of the scores costs no file its place. *)
WithinLimits(c) ==
    /\ MapThenSumSet(LAMBDA f : BytesOf(c, f), Files) <= BudgetBytes
    /\ Cardinality(Placed(c, "full")) <= MaxFiles
    /\ Cardinality(Placed(c, "summary")) <= MaxSummaries
NoRoomFor(c, f) ==
    /\ \/ Cardinality(Placed(c, "full")) >= MaxFiles
       \/ used[c] + FullSize[readAs[c][f]] > BudgetBytes
    /\ \/ Cardinality(Placed(c, "summary")) >= MaxSummaries
       \/ used[c] + SummarySize[summary[c][f]] > BudgetBytes
BundleIsMaximal ==
    \A c \in Compilations :
        /\ WithinLimits(c)
        /\ \A f \in Placed(c, "max_files") \cup Placed(c, "byte_budget") : NoRoomFor(c, f)

(* A summary in a bundle is one of the content that the same compilation read,
   though the summaries on disk are from before edits and other commands. *)
SummaryIsCurrent ==
    \A c \in Compilations : \A f \in Placed(c, "summary") : summary[c][f] = readAs[c][f]
=============================================================================
