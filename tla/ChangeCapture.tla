----------------------------- MODULE ChangeCapture -----------------------------
(***************************************************************************)
(* From the copy a worker is given to the verdict on what it did: the      *)
(* files of its task are compared with the repository as it is at the end, *)
(* one after another, then read again for the patch, while the user goes   *)
(* on editing and a helper of the worker may still write to its copy.      *)
(***************************************************************************)
EXTENDS Integers, FiniteSets, FiniteSetsExt

CONSTANTS
    Paths, Scope,       \* files, and those the task's globs match
    NotCopied,          \* below .git, .agent-os, node_modules, dist, coverage
    NotListed,          \* below the first four of them
    BundlePath,         \* agent-os-bundle.md
    Manifests,          \* package.json, lockfiles ...
    Repositories,       \* what each file holds at first
    Texts, Secrets,     \* what a file may hold; what looks like a secret
    BundleText,
    TextSize, MaxPatchSize, MaxChangedFiles,
    MaxUserEdits, MaxWorkerEdits  \* bounds

NoText == "no file"

ASSUME CaptureAssumption ==
    /\ IsFiniteSet(Paths)
    /\ Scope \subseteq Paths /\ NotListed \subseteq NotCopied /\ Manifests \subseteq Paths
    /\ BundlePath \in Paths /\ NoText \notin Texts /\ Secrets \subseteq Texts
    /\ Repositories \subseteq {t \in [Paths -> Texts \cup {NoText}] : t[BundlePath] = NoText}
    /\ TextSize \in [Texts -> Nat] /\ MaxChangedFiles \in Nat

VARIABLES
    source,     \* the repository
    workspace,  \* the worker's copy
    phase,
    toCompare, changed, \* files not compared yet; those found to differ
    toPatch, patch,     \* files to read again; each file's part of diff.patch
    outcome,    \* the status in result.json
    verdict,
    given,      \* history: the workspace as the worker got it
    touched,    \* history: files edited since by the user
    late,       \* history: files written while the diff was captured
    writes      \* [user, worker]

captureVars == <<source, workspace, phase, toCompare, changed, toPatch, patch, outcome, verdict,
                 given, touched, late, writes>>
captured == <<toCompare, changed, toPatch, patch, outcome, verdict>>

NoPart == [before |-> NoText, after |-> NoText]

CaptureInit ==
    /\ source \in Repositories
    /\ workspace = [f \in Paths |-> NoText] /\ given = workspace
    /\ phase = "copy"
    /\ toCompare = {} /\ changed = {} /\ toPatch = {}
    /\ patch = [f \in Paths |-> NoPart]
    /\ outcome = "none" /\ verdict = "none"
    /\ touched = {} /\ late = {}
    /\ writes = [user |-> 0, worker |-> 0]

\* createTempCopy into an empty directory, then the bundle next to it.
CopyTree ==
    /\ phase = "copy"
    /\ workspace' = [f \in Paths |-> IF f = BundlePath THEN BundleText
                                ELSE IF f \in NotCopied THEN NoText ELSE source[f]]
    /\ given' = workspace'
    /\ phase' = "work"
    /\ UNCHANGED <<source, captured, touched, late, writes>>

Capturing == phase \in {"list", "compare", "patch"}

UserEdit(f, text) ==
    /\ writes.user < MaxUserEdits /\ f # BundlePath /\ source[f] # text
    /\ source' = [source EXCEPT ![f] = text]
    /\ touched' = touched \cup {f}
    /\ late' = IF Capturing THEN late \cup {f} ELSE late
    /\ writes' = [writes EXCEPT !.user = @ + 1]
    /\ UNCHANGED <<workspace, phase, captured, given>>

\* The worker, or what it left running.
WorkerEdit(f, text) ==
    /\ phase \in {"work", "list", "compare", "patch"}
    /\ writes.worker < MaxWorkerEdits /\ workspace[f] # text
    /\ workspace' = [workspace EXCEPT ![f] = text]
    /\ late' = IF Capturing THEN late \cup {f} ELSE late
    /\ writes' = [writes EXCEPT !.worker = @ + 1]
    /\ UNCHANGED <<source, phase, captured, given, touched>>

WorkerExits ==
    /\ phase = "work" /\ phase' = "list"
    /\ UNCHANGED <<source, workspace, captured, given, touched, late, writes>>

ListTrees ==
    /\ phase = "list"
    /\ toCompare' = {f \in Scope \ NotListed : source[f] # NoText \/ workspace[f] # NoText}
    /\ phase' = "compare"
    /\ UNCHANGED <<source, workspace, changed, toPatch, patch, outcome, verdict, given, touched, late, writes>>

\* Mutant of Differs: whatever is there counts.
DiffersIfThere(f) == workspace[f] # NoText

\* A file the worker removed is passed over.
Differs(f) == workspace[f] # NoText /\ source[f] # workspace[f]

Compare(f) ==
    /\ phase = "compare" /\ f \in toCompare
    /\ changed' = IF Differs(f) THEN changed \cup {f} ELSE changed
    /\ toCompare' = toCompare \ {f}
    /\ UNCHANGED <<source, workspace, phase, toPatch, patch, outcome, verdict, given, touched, late, writes>>

Compared ==
    /\ phase = "compare" /\ toCompare = {}
    /\ toPatch' = changed /\ phase' = "patch"
    /\ UNCHANGED <<source, workspace, toCompare, changed, patch, outcome, verdict, given, touched, late, writes>>

\* The whole of both texts; nothing if they have become the same.
Part(f) == IF source[f] = workspace[f] THEN NoPart ELSE [before |-> source[f], after |-> workspace[f]]

\* One that has gone from the workspace by now is an error that ends the command.
PatchFile(f) ==
    /\ phase = "patch" /\ f \in toPatch
    /\ IF workspace[f] = NoText THEN phase' = "failed" /\ UNCHANGED patch
       ELSE patch' = [patch EXCEPT ![f] = Part(f)] /\ UNCHANGED phase
    /\ toPatch' = toPatch \ {f}
    /\ UNCHANGED <<source, workspace, toCompare, changed, outcome, verdict, given, touched, late, writes>>

\* A completed answer with changes counts, whatever the exit code or the limits.
ResultStatus(parsed, exited, limited) ==
    IF parsed = "completed" /\ changed # {} THEN "completed"
    ELSE IF limited THEN "limited"
    ELSE IF ~exited THEN "failed"
    ELSE parsed

WriteResult ==
    /\ phase = "patch" /\ toPatch = {}
    /\ \E parsed \in {"completed", "failed", "limited"}, exited, limited \in BOOLEAN :
          outcome' = ResultStatus(parsed, exited, limited)
    /\ phase' = "validate"
    /\ UNCHANGED <<source, workspace, toCompare, changed, toPatch, patch, verdict, given, touched, late, writes>>

Patched == {f \in Paths : patch[f] # NoPart}
FilesToCheck == IF changed # {} THEN changed ELSE Patched
SizeOf(text) == IF text = NoText THEN 0 ELSE TextSize[text]
PatchSize == MapThenSumSet(LAMBDA f : SizeOf(patch[f].before) + SizeOf(patch[f].after), Patched)

InScope == FilesToCheck \subseteq Scope
NoSecrets == \A f \in Patched : {patch[f].before, patch[f].after} \cap Secrets = {}
\* Mutant of DependencyGate: a look at the files alone that no patch has.
DependencyGateOfUnpatched == (FilesToCheck \ Patched) \cap Manifests = {}
DependencyGate == FilesToCheck \cap Manifests = {}
NotNoop == FilesToCheck # {} /\ Patched # {}
ChangeSize == Cardinality(FilesToCheck) <= MaxChangedFiles /\ PatchSize <= MaxPatchSize
ResultSchema == outcome = "completed"

Validate ==
    /\ phase = "validate"
    /\ verdict' = IF ResultSchema /\ InScope /\ NoSecrets /\ DependencyGate /\ NotNoop /\ ChangeSize
                  THEN "passed" ELSE "failed"
    /\ phase' = "done"
    /\ UNCHANGED <<source, workspace, toCompare, changed, toPatch, patch, outcome, given, touched, late, writes>>

CaptureNext ==
    \/ \E f \in Paths, text \in Texts \cup {NoText} : UserEdit(f, text) \/ WorkerEdit(f, text)
    \/ CopyTree \/ WorkerExits \/ ListTrees \/ Compared \/ WriteResult \/ Validate
    \/ \E f \in Paths : Compare(f) \/ PatchFile(f)

CaptureSpec == CaptureInit /\ [][CaptureNext]_captureVars

(***************************************************************************)
(* Properties.                                                             *)
(***************************************************************************)
(* README.md:59 and plan.md:713: what passes validation has something of the
   worker's in it, unless the user edited the repository meanwhile. *)
NoWorkFails ==
    verdict = "passed" /\ touched = {} => \E f \in Patched : patch[f].after # given[f]

(* The files the result reports and the files of the patch, which are found in
   two readings of both trees, are the same unless one was written meanwhile. *)
ReportMatchesPatch ==
    phase \in {"validate", "done"} => Patched \subseteq changed /\ changed \subseteq Patched \cup late

(* Whatever was written while the diff was taken, a patch that passed keeps to
   the task's files, touches no manifest and shows no secret. *)
PassedPatchIsSafe ==
    verdict = "passed" =>
        /\ Patched \subseteq Scope \ Manifests
        /\ \A f \in Patched : patch[f].before \notin Secrets /\ patch[f].after \notin Secrets
        /\ Cardinality(Patched) <= MaxChangedFiles
=============================================================================
