----------------------------- MODULE RuntimeFiles -----------------------------
(***************************************************************************)
(* The settings under .agent-os: runtime.json, provider-status.json and    *)
(* provider-credentials.json.  Every command of every terminal checks,     *)
(* migrates and completes them before it does anything of its own          *)
(* (ensureRuntime), rewrites them whole and in place, and takes no lock.   *)
(* A terminal may stay in the menu: its environment outlives its commands. *)
(***************************************************************************)
EXTENDS Naturals

CONSTANTS
    Procs,          \* the terminals
    Providers,
    Vars,           \* environment variables that may hold a key
    Allowed,        \* provider -> the variables it reads its key from
    Keys, NoKey,    \* API keys; NoKey: unset, or blank when typed
    Overrides,      \* what a user sets a provider to
    Unset,          \* a provider status.json does not mention
    Inherited,      \* terminal -> the environment it was started with
    Typed,          \* the commands the terminals use
    MaxCmds, MaxKills \* bounds

Current == 1        \* CURRENT_RUNTIME_VERSION
Default == "unknown"
NoCredential == [var |-> "none", key |-> NoKey]
Credentials == [var : Vars, key : Keys] \cup {NoCredential}
Availabilities == Overrides \cup {Default, Unset}

NoCommand == [op |-> "none"]
Commands ==
    [op : {"status", "upgrade"}]
    \cup [op : {"set_status"}, provider : Providers, to : Overrides \cup {Default}]
    \cup [op : {"set_key"}, provider : Providers, var : Vars, key : Keys \cup {NoKey}]
    \cup [op : {"clear_key"}, provider : Providers]

ASSUME RuntimeAssumption ==
    /\ Allowed \in [Providers -> SUBSET Vars]
    /\ \A q, r \in Providers : q # r => Allowed[q] \cap Allowed[r] = {}
    /\ NoCredential.var \notin Vars
    /\ NoKey \notin Keys
    /\ Unset \notin Overrides \cup {Default}
    /\ Inherited \in [Procs -> [Vars -> Keys \cup {NoKey}]]
    /\ Typed \subseteq Commands
    /\ MaxCmds \in Nat /\ MaxKills \in Nat

VARIABLES
    info, backedUp,     \* runtime.json; a whole copy of the one found is in backups/
    status, creds,      \* the two settings files
    env,                \* each terminal: process.env
    cmd, pc, stage,     \* each terminal: its command, its place, who called it
    statusCopy, credsCopy, \* each terminal: what it read
    older,              \* history: runtime.json was there and needs migrating
    saved, savedKeys,   \* history: what completed commands left in the settings
    session,            \* history: each terminal's view of the credentials, and where
                        \* it had a key as another terminal changed them
    trouble,            \* history: commands overlapped, or one died in a write
    cmds, kills

files   == <<info, backedUp, status, creds>>
locals  == <<cmd, pc, stage, statusCopy, credsCopy>>
history == <<older, saved, savedKeys, session, trouble>>
vars    == <<info, backedUp, status, creds, env, cmd, pc, stage, statusCopy,
             credsCopy, older, saved, savedKeys, session, trouble, cmds, kills>>

NewSession == [view |-> "fresh", held |-> {}]

Completed(map) == [q \in Providers |-> IF map[q] = Unset THEN Default ELSE map[q]]
Defaults == [q \in Providers |-> Default]
NoKeys   == [q \in Providers |-> NoCredential]

\* A file found at the start is missing or whole; the status file may be of a
\* CLI that knew fewer providers.
Init ==
    /\ info \in [form : {"json"}, version : 0 .. 2] \cup {[form |-> "none", version |-> 0]}
    /\ backedUp = FALSE
    /\ status \in {[form |-> "none", map |-> Defaults]}
                  \cup [form : {"json"}, map : [Providers -> Availabilities]]
    /\ creds = [form |-> "none", map |-> NoKeys]
    /\ env = Inherited
    /\ cmd = [p \in Procs |-> NoCommand] /\ pc = [p \in Procs |-> "idle"]
    /\ stage = [p \in Procs |-> "init"]
    /\ statusCopy = [p \in Procs |-> Defaults] /\ credsCopy = [p \in Procs |-> NoKeys]
    /\ older = (info.form = "json" /\ info.version < Current)
    /\ saved = Completed(status.map) /\ savedKeys = NoKeys
    /\ session = [p \in Procs |-> NewSession]
    /\ trouble = {} /\ cmds = 0 /\ kills = 0

Goto(p, place) == pc' = [pc EXCEPT ![p] = place]
Done(p) == Goto(p, "idle") /\ cmd' = [cmd EXCEPT ![p] = NoCommand]
Others(p) == {q \in Procs \ {p} : pc[q] # "idle"}

\* writeFile truncates ...
Torn(file) == [file EXCEPT !.form = "torn"]
\* ... and then writes.  What another wrote in between may stick out behind it.
Filled(file, map) == {[form |-> "json", map |-> map]}
                     \cup (IF file.form = "torn" THEN {} ELSE {Torn(file)})

Start(p, c) ==
    /\ pc[p] = "idle" /\ cmds < MaxCmds
    /\ cmds' = cmds + 1
    /\ cmd' = [cmd EXCEPT ![p] = c]
    /\ Goto(p, "info")
    /\ stage' = [stage EXCEPT ![p] = IF c.op = "upgrade" THEN "upgrade" ELSE "init"]
    /\ trouble' = IF Others(p) = {} THEN trouble ELSE trouble \cup {"overlap"}
    /\ UNCHANGED <<files, env, statusCopy, credsCopy, older, saved, savedKeys, session, kills>>

\* upgrade() migrates first and then runs init(), which looks again.
AfterMigration(p) ==
    IF stage[p] = "upgrade" THEN "info" ELSE "ensure"

\* Mutant of ReadInfo: the file is migrated without a copy of it.
ReadInfoNoBackup(p) ==
    /\ pc[p] = "info"
    /\ IF info.form = "none" \/ (info.form = "json" /\ info.version < Current)
       THEN Goto(p, "info_open") /\ UNCHANGED <<cmd, stage>>
       ELSE IF info.form = "json" /\ info.version = Current
       THEN Goto(p, AfterMigration(p)) /\ stage' = [stage EXCEPT ![p] = "init"] /\ UNCHANGED cmd
       ELSE Done(p) /\ UNCHANGED stage
    /\ UNCHANGED <<files, env, statusCopy, credsCopy, history, cmds, kills>>

\* A missing file is created, an older one copied and migrated, a newer one
\* or one that does not parse ends the command.
ReadInfo(p) ==
    /\ pc[p] = "info"
    /\ \/ info.form = "none" /\ Goto(p, "info_open") /\ UNCHANGED <<cmd, stage>>
       \/ /\ info.form = "json" /\ info.version < Current
          /\ Goto(p, "backup") /\ UNCHANGED <<cmd, stage>>
       \/ /\ info.form = "json" /\ info.version = Current
          /\ Goto(p, AfterMigration(p))
          /\ stage' = [stage EXCEPT ![p] = "init"] /\ UNCHANGED cmd
       \/ /\ info.form = "torn" \/ info.version > Current
          /\ Done(p) /\ UNCHANGED stage
    /\ UNCHANGED <<files, env, statusCopy, credsCopy, history, cmds, kills>>

\* The backup's name has the time in it: it is written over no other.
BackUp(p) ==
    /\ pc[p] = "backup"
    /\ backedUp' = TRUE
    /\ Goto(p, "info_open")
    /\ UNCHANGED <<info, status, creds, env, cmd, stage, statusCopy, credsCopy, history, cmds, kills>>

OpenInfo(p) ==
    /\ pc[p] = "info_open"
    /\ info' = [form |-> "torn", version |-> 0]
    /\ Goto(p, "info_fill")
    /\ UNCHANGED <<backedUp, status, creds, env, cmd, stage, statusCopy, credsCopy, history, cmds, kills>>

\* Whoever writes it writes the same version: an overlap leaves it whole.
FillInfo(p) ==
    /\ pc[p] = "info_fill"
    /\ info' = [form |-> "json", version |-> Current]
    /\ Goto(p, AfterMigration(p))
    /\ stage' = [stage EXCEPT ![p] = "init"]
    /\ UNCHANGED <<backedUp, status, creds, env, cmd, statusCopy, credsCopy, history, cmds, kills>>

(***************************************************************************)
(* provider-status.json.                                                   *)
(***************************************************************************)
AfterEnsure(p) == IF stage[p] = "init" THEN "apply" ELSE "status_read"
Whole(file) == file.form = "json" /\ \A q \in Providers : file.map[q] # Unset

\* Mutant of Ensured: one missing provider makes the file start over.
EnsuredAfresh(file) == Defaults

\* Mutant of Ensured: what is missing stays missing.
EnsuredAsRead(file) == IF file.form = "json" THEN file.map ELSE Defaults

\* A whole file is completed; one that is missing or does not parse starts over.
Ensured(file) == IF file.form = "json" THEN Completed(file.map) ELSE Defaults

Ensure(p) ==
    /\ pc[p] = "ensure"
    /\ \/ Whole(status) /\ Goto(p, AfterEnsure(p)) /\ UNCHANGED statusCopy
       \/ /\ ~Whole(status)
          /\ statusCopy' = [statusCopy EXCEPT ![p] = Ensured(status)]
          /\ Goto(p, "ensure_open")
    /\ UNCHANGED <<files, env, cmd, stage, credsCopy, history, cmds, kills>>

OpenStatus(p) ==
    /\ pc[p] \in {"ensure_open", "status_open"}
    /\ status' = Torn(status)
    /\ Goto(p, IF pc[p] = "ensure_open" THEN "ensure_fill" ELSE "status_fill")
    /\ UNCHANGED <<info, backedUp, creds, env, cmd, stage, statusCopy, credsCopy, history, cmds, kills>>

FillEnsured(p) ==
    /\ pc[p] = "ensure_fill"
    /\ status' \in Filled(status, statusCopy[p])
    /\ Goto(p, AfterEnsure(p))
    /\ UNCHANGED <<info, backedUp, creds, env, cmd, stage, statusCopy, credsCopy, history, cmds, kills>>

ReadStatus(p) ==
    /\ pc[p] = "status_read"
    /\ \/ /\ status.form = "json" /\ cmd[p].op = "set_status"
          /\ statusCopy' = [statusCopy EXCEPT ![p] = [status.map EXCEPT ![cmd[p].provider] = cmd[p].to]]
          /\ Goto(p, "status_open") /\ UNCHANGED cmd
       \/ /\ status.form # "json" \/ cmd[p].op = "status"
          /\ Done(p) /\ UNCHANGED statusCopy
    /\ UNCHANGED <<files, env, stage, credsCopy, history, cmds, kills>>

FillStatus(p) ==
    /\ pc[p] = "status_fill"
    /\ status' \in Filled(status, statusCopy[p])
    /\ saved' = [saved EXCEPT ![cmd[p].provider] = cmd[p].to]
    /\ Done(p)
    /\ UNCHANGED <<info, backedUp, creds, env, stage, statusCopy, credsCopy,
                   older, savedKeys, session, trouble, cmds, kills>>

(***************************************************************************)
(* provider-credentials.json and the environment.                          *)
(***************************************************************************)
\* Unreadable credentials are none.
Stored == IF creds.form = "json" THEN creds.map ELSE NoKeys

\* Mutant of Applied: a stored key waits for the next set.
AppliedNever(e, map) == e

\* A stored key goes where no key is; an inherited one wins.
Applied(e, map) ==
    [v \in Vars |-> IF e[v] = NoKey /\ \E q \in Providers : map[q].var = v
                    THEN map[CHOOSE q \in Providers : map[q].var = v].key ELSE e[v]]

Apply(p) ==
    /\ pc[p] = "apply"
    /\ env' = [env EXCEPT ![p] = Applied(env[p], Stored)]
    /\ session' = [session EXCEPT ![p].view = "synced"]
    /\ \/ cmd[p].op = "upgrade" /\ Done(p) /\ UNCHANGED stage
       \/ /\ cmd[p].op \in {"status", "set_status"}
          /\ stage' = [stage EXCEPT ![p] = "command"]
          /\ Goto(p, "ensure") /\ UNCHANGED cmd
       \/ /\ cmd[p].op \in {"set_key", "clear_key"}
          /\ Goto(p, "creds_read") /\ UNCHANGED <<cmd, stage>>
    /\ UNCHANGED <<files, statusCopy, credsCopy, older, saved, savedKeys, trouble, cmds, kills>>

\* A variable the provider does not read and a blank key are refused.
ReadCredentials(p) ==
    /\ pc[p] = "creds_read"
    /\ LET c == cmd[p]
           refused == c.op = "set_key" /\ (c.var \notin Allowed[c.provider] \/ c.key = NoKey)
       IN \/ refused /\ Done(p) /\ UNCHANGED credsCopy
          \/ /\ ~refused
             /\ credsCopy' = [credsCopy EXCEPT ![p] = Stored]
             /\ Goto(p, "creds_open") /\ UNCHANGED cmd
    /\ UNCHANGED <<files, env, stage, statusCopy, history, cmds, kills>>

OpenCredentials(p) ==
    /\ pc[p] = "creds_open"
    /\ creds' = Torn(creds)
    /\ Goto(p, "creds_fill")
    /\ UNCHANGED <<info, backedUp, status, env, cmd, stage, statusCopy, credsCopy, history, cmds, kills>>

NewCredential(c) ==
    IF c.op = "set_key" THEN [var |-> c.var, key |-> c.key] ELSE NoCredential

WithKey(map, q, k) == [map EXCEPT ![q] = k]

\* process.env after the write: the new key, or none where the old one was.
EnvAfter(e, old, c) ==
    [v \in Vars |-> IF c.op = "set_key" /\ v = c.var THEN c.key
                    ELSE IF c.op = "clear_key" /\ old = [var |-> v, key |-> e[v]] THEN NoKey
                    ELSE e[v]]

\* A terminal that has run a command does not see another one's change.
SessionAfter(p, q) ==
    IF q = p THEN [session[p] EXCEPT !.held = IF cmd[p].op = "set_key" THEN @ \ {cmd[p].var} ELSE @]
    ELSE IF session[q].view = "fresh" THEN session[q]
    ELSE [view |-> "stale", held |-> {v \in Vars : env[q][v] # NoKey}]

FillCredentials(p) ==
    /\ pc[p] = "creds_fill"
    /\ LET c == cmd[p] IN
       /\ creds' \in Filled(creds, WithKey(credsCopy[p], c.provider, NewCredential(c)))
       /\ env' = [env EXCEPT ![p] = EnvAfter(env[p], credsCopy[p][c.provider], c)]
       /\ savedKeys' = [savedKeys EXCEPT ![c.provider] = NewCredential(c)]
       /\ \/ c.op = "set_key" /\ Goto(p, "reapply") /\ UNCHANGED cmd
          \/ c.op = "clear_key" /\ Done(p)
    /\ session' = [q \in Procs |-> SessionAfter(p, q)]
    /\ UNCHANGED <<info, backedUp, status, stage, statusCopy, credsCopy, older, saved, trouble, cmds, kills>>

\* The provider's key is read back and put over the one in the environment.
Reapply(p) ==
    /\ pc[p] = "reapply"
    /\ LET k == Stored[cmd[p].provider] IN
       env' = IF k = NoCredential THEN env ELSE [env EXCEPT ![p][k.var] = k.key]
    /\ Done(p)
    /\ UNCHANGED <<files, stage, statusCopy, credsCopy, history, cmds, kills>>

(***************************************************************************)
(* The end of a terminal, between commands or in the middle of one.        *)
(***************************************************************************)
Leave(p) ==
    /\ env' = [env EXCEPT ![p] = Inherited[p]]
    /\ session' = [session EXCEPT ![p] = NewSession]

Exit(p) ==
    /\ pc[p] = "idle" /\ session[p].view # "fresh"
    /\ Leave(p)
    /\ UNCHANGED <<files, locals, older, saved, savedKeys, trouble, cmds, kills>>

Kill(p) ==
    /\ pc[p] # "idle" /\ kills < MaxKills
    /\ kills' = kills + 1
    /\ Done(p) /\ Leave(p)
    /\ trouble' = IF pc[p] \in {"ensure_fill", "status_fill", "creds_fill"}
                  THEN trouble \cup {"torn"} ELSE trouble
    /\ UNCHANGED <<files, stage, statusCopy, credsCopy, older, saved, savedKeys, cmds>>

Next == \E p \in Procs :
    \/ \E c \in Typed : Start(p, c)
    \/ ReadInfo(p) \/ BackUp(p) \/ OpenInfo(p) \/ FillInfo(p)
    \/ Ensure(p) \/ OpenStatus(p) \/ FillEnsured(p) \/ ReadStatus(p) \/ FillStatus(p)
    \/ Apply(p) \/ ReadCredentials(p) \/ OpenCredentials(p) \/ FillCredentials(p) \/ Reapply(p)
    \/ Exit(p) \/ Kill(p)

Spec == Init /\ [][Next]_vars

(***************************************************************************)
(* Properties.                                                             *)
(***************************************************************************)
Places == {"idle", "info", "backup", "info_open", "info_fill", "ensure", "ensure_open",
           "ensure_fill", "apply", "status_read", "status_open", "status_fill",
           "creds_read", "creds_open", "creds_fill", "reapply"}
Forms == {"none", "torn", "json"}

(* The files hold values of the code's types and every command is at one of
   its own places. *)
TypeOK ==
    /\ info \in [form : Forms, version : 0 .. 2] /\ backedUp \in BOOLEAN
    /\ status \in [form : Forms, map : [Providers -> Availabilities]]
    /\ creds \in [form : Forms, map : [Providers -> Credentials]]
    /\ env \in [Procs -> [Vars -> Keys \cup {NoKey}]]
    /\ cmd \in [Procs -> Commands \cup {NoCommand}]
    /\ pc \in [Procs -> Places]
    /\ stage \in [Procs -> {"upgrade", "init", "command"}]
    /\ statusCopy \in [Procs -> [Providers -> Availabilities]]
    /\ credsCopy \in [Procs -> [Providers -> Credentials]]
    /\ older \in BOOLEAN
    /\ saved \in [Providers -> Availabilities]
    /\ savedKeys \in [Providers -> Credentials]
    /\ session \in [Procs -> [view : {"fresh", "synced", "stale"}, held : SUBSET Vars]]
    /\ trouble \subseteq {"overlap", "torn"}
    /\ cmds \in Nat /\ kills \in Nat

(* upgradeRuntime: an older runtime.json is gone, truncated or migrated, only
   once a whole copy of it is in backups/, whichever terminal dies when. *)
BackedUp == older => backedUp \/ info = [form |-> "json", version |-> 0]

(* A runtime of a newer CLI stops every command of this one before it has
   touched a file or the environment. *)
NewerUntouched == [][info.version > Current => UNCHANGED <<files, env>>]_vars

(* While commands come one after another and none dies in the middle of a
   write, the settings are what the commands that completed made them, also
   where an older CLI left providers out. *)
SettingsKept ==
    (trouble = {} /\ \A p \in Procs : pc[p] = "idle") =>
        /\ status.form # "torn" /\ Completed(status.map) = saved
        /\ creds.form # "torn" /\ creds.map = savedKeys

(* Even after a crash, a lone command that has been through
   ensureProviderStatus stands before a status file that can be read and
   names every provider. *)
StatusHeals ==
    "overlap" \notin trouble =>
        \A p \in Procs : pc[p] \in {"apply", "status_read"} => Whole(status)

(* A terminal that has run a command since it was opened and since another one
   last changed the credentials works with the keys the file has.  Excepted is a
   variable in which it was started with a key, and one in which it had a key when
   another terminal changed the credentials: applyProviderCredentialEnv overwrites
   nothing, so there the old key stays until the terminal is closed or sets the
   key itself. *)
StoredKeyInUse ==
    \A p \in Procs, q \in Providers : session[p].view = "synced" =>
        LET k == Stored[q] IN
        \/ k = NoCredential
        \/ Inherited[p][k.var] # NoKey \/ k.var \in session[p].held
        \/ env[p][k.var] = k.key
=============================================================================
