----------------------------- MODULE WorkerOutput -----------------------------
(***************************************************************************)
(* What a worker's output makes of its run.  The adapter of each provider  *)
(* reads stdout line by line and remembers a little; from that, the exit   *)
(* code, talk of limits and the changed files comes the result.  The       *)
(* tokens of the run are those of the line that speaks of the most; lines  *)
(* of stderr are read for tokens as if they were the last ones of stdout.  *)
(***************************************************************************)
EXTENDS Integers, Sequences

CONSTANTS
    Adapters,       \* the ways output is read, among those of Parsers
    Scores,         \* usageScore of what a line says of tokens
    MaxLines        \* bound

Parsers == {"claude", "direct", "gemini", "codex", "opencode"}
Results == {"success", "failure", "otherResult"}    \* a result event, by its status
LineKinds == Results \cup {"say", "error", "plain"} \* a message, an error event, no event
NoUsage == -1

ASSUME OutputAssumption == Adapters \subseteq Parsers /\ Scores \subseteq Nat

VARIABLES
    adapter,    \* how this worker's output is read
    lines,      \* stdout so far: what each line is, and what it says of tokens
    parse,      \* what the adapter remembers of them
    usage,      \* the best usage so far
    complained, \* something was printed to stderr
    limited,    \* quota, rate limit or credit was spoken of in either
    result      \* the run's: status, whether files changed

outputVars == <<adapter, lines, parse, usage, complained, limited, result>>

NotYet == [status |-> "none", changed |-> FALSE]

OutputInit ==
    /\ adapter \in Adapters
    /\ lines = <<>> /\ usage = NoUsage
    /\ parse = [completed |-> FALSE, failed |-> FALSE, word |-> "", said |-> FALSE]
    /\ complained = FALSE /\ limited = FALSE /\ result = NotYet

(***************************************************************************)
(* A line of stdout.                                                       *)
(***************************************************************************)
\* Mutant of FailedAfter: a later result overrules the failure.
FailedAfterLast(kind) == IF kind \in Results THEN kind = "failure" ELSE parse.failed \/ kind = "error"

\* For kilo and cline a failure stays one; for claude and zai a result overrules it.
FailedAfter(kind) ==
    IF adapter = "claude" /\ kind \in Results THEN kind = "failure"
    ELSE parse.failed \/ kind = "error" \/ (adapter # "opencode" /\ kind = "failure")

AfterLine(kind) ==
    [completed |-> IF kind \in Results THEN kind = "success" ELSE parse.completed,
     failed    |-> FailedAfter(kind),
     word      |-> IF kind \in Results THEN kind ELSE parse.word,
     said      |-> parse.said \/ kind = "say" \/ (adapter = "direct" /\ kind \in Results)]

\* preferUsage
Better(old, new) == IF new >= old THEN new ELSE old

PrintsLine(kind, tokens, ofLimit) ==
    /\ result = NotYet /\ Len(lines) < MaxLines
    /\ lines' = Append(lines, [kind |-> kind, tokens |-> tokens])
    /\ parse' = AfterLine(kind)
    /\ usage' = Better(usage, tokens)
    /\ limited' = (limited \/ ofLimit)
    /\ UNCHANGED <<adapter, complained, result>>

Complains(ofLimit) ==
    /\ result = NotYet
    /\ complained' = TRUE /\ limited' = (limited \/ ofLimit)
    /\ UNCHANGED <<adapter, lines, parse, usage, result>>

(***************************************************************************)
(* The end of the run.                                                     *)
(***************************************************************************)
AnyOutput == IF lines # <<>> THEN "completed" ELSE "failed"

ClaudeParsed   == IF parse.completed THEN "completed" ELSE IF parse.failed THEN "failed" ELSE AnyOutput
DirectParsed   == IF parse.failed THEN "failed" ELSE IF parse.completed \/ parse.said THEN "completed" ELSE AnyOutput
GeminiParsed   == IF parse.word = "success" THEN "completed" ELSE IF parse.word = "failure" THEN "failed" ELSE AnyOutput
CodexParsed    == IF complained /\ ~parse.said THEN "failed" ELSE "completed"
OpencodeParsed == IF parse.failed \/ complained THEN "failed" ELSE "completed"

\* parseOutput
Parsed ==
    CASE adapter = "claude" -> ClaudeParsed [] adapter = "direct" -> DirectParsed
      [] adapter = "gemini" -> GeminiParsed [] adapter = "codex" -> CodexParsed
      [] adapter = "opencode" -> OpencodeParsed

\* buildProviderResult: completed work counts whatever else was said.
ProviderStatus(exitedBadly, changed) ==
    IF Parsed = "completed" /\ changed THEN "completed"
    ELSE IF limited THEN "limited"
    ELSE IF exitedBadly THEN "failed" ELSE Parsed

Finishes(exitedBadly, changed) ==
    /\ result = NotYet
    /\ result' = [status |-> ProviderStatus(exitedBadly, changed), changed |-> changed]
    /\ UNCHANGED <<adapter, lines, parse, usage, complained, limited>>

OutputNext ==
    \/ \E kind \in LineKinds, tokens \in Scores \cup {NoUsage}, ofLimit \in BOOLEAN :
           PrintsLine(kind, tokens, ofLimit)
    \/ \E ofLimit \in BOOLEAN : Complains(ofLimit)
    \/ \E exitedBadly, changed \in BOOLEAN : Finishes(exitedBadly, changed)

OutputSpec == OutputInit /\ [][OutputNext]_outputVars

(***************************************************************************)
(* Properties.                                                             *)
(***************************************************************************)
Printed(kind) == {i \in DOMAIN lines : lines[i].kind = kind}
LastIs(kind) == \E i \in Printed(kind) : \A j \in DOMAIN lines : lines[j].kind \in Results => j <= i

(* A completed run is never one whose stream reported, by the rules of its
   provider, that it failed: for kilo and cline no failure and no error anywhere,
   for claude, zai and gemini no failing result as the last one, for opencode no
   error. *)
NoFailureIsCompleted ==
    result.status = "completed" =>
        /\ adapter = "direct" => Printed("failure") \cup Printed("error") = {}
        /\ adapter \in {"claude", "gemini"} => ~LastIs("failure")
        /\ adapter = "opencode" => Printed("error") = {} /\ ~complained

(* A provider that spoke of its limit and changed nothing leaves a limited run,
   so that the retry advice is about the limit, whatever the exit code. *)
LimitIsReported == result # NotYet /\ limited /\ ~result.changed => result.status = "limited"

(* The tokens of a run are the most any one line speaks of, in whatever order
   partial and final counts come. *)
UsageIsTheLargest ==
    LET said == {lines[i].tokens : i \in DOMAIN lines} \ {NoUsage} IN
    IF said = {} THEN usage = NoUsage ELSE usage \in said /\ \A n \in said : n <= usage
=============================================================================
