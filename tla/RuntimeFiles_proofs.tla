-------------------------- MODULE RuntimeFiles_proofs --------------------------
(***************************************************************************)
(* For any number of terminals, providers, keys and kills: the types of    *)
(* the settings, the backup of a migrated runtime.json, what a command     *)
(* finds when a newer CLI was there before, and the provider status a lone *)
(* command stands before.                                                  *)
(***************************************************************************)
EXTENDS RuntimeFiles, TLAPS

\* A command writes only what it is about.
ControlOK == \A p \in Procs :
    /\ pc[p] \in {"status_open", "status_fill"} => cmd[p].op = "set_status"
    /\ pc[p] \in {"creds_read", "creds_open", "creds_fill", "reapply"} =>
           cmd[p].op \in {"set_key", "clear_key"}
    /\ pc[p] \in {"creds_open", "creds_fill"} /\ cmd[p].op = "set_key" => cmd[p].key # NoKey

TypeInv == TypeOK /\ ControlOK

-----------------------------------------------------------------------------
(* What the commands hold. *)

LEMMA SetStatusFields ==
    ASSUME NEW c \in Commands \cup {NoCommand}, c.op = "set_status"
    PROVE  c.provider \in Providers /\ c.to \in Availabilities
  BY DEF Commands, NoCommand, Availabilities

LEMMA SetKeyFields ==
    ASSUME NEW c \in Commands \cup {NoCommand}, c.op = "set_key"
    PROVE  c.provider \in Providers /\ c.var \in Vars /\ c.key \in Keys \cup {NoKey}
  BY DEF Commands, NoCommand

LEMMA ClearKeyFields ==
    ASSUME NEW c \in Commands \cup {NoCommand}, c.op = "clear_key"
    PROVE  c.provider \in Providers
  BY DEF Commands, NoCommand

LEMMA KeyOfCredential ==
    ASSUME NEW k \in Credentials
    PROVE  k.key \in Keys \cup {NoKey} /\ (k # NoCredential => k.var \in Vars)
  BY DEF Credentials, NoCredential

LEMMA StoredType == TypeOK => Stored \in [Providers -> Credentials]
  BY DEF TypeOK, Stored, NoKeys, Credentials

LEMMA FilledType ==
    ASSUME NEW S, NEW file \in [form : Forms, map : S], NEW map \in S, NEW f \in Filled(file, map)
    PROVE  f \in [form : Forms, map : S]
  BY DEF Filled, Torn, Forms

(* Keys of the file go to the environment, whichever provider is chosen. *)
LEMMA AppliedType ==
    ASSUME NEW e \in [Vars -> Keys \cup {NoKey}], NEW map \in [Providers -> Credentials]
    PROVE  Applied(e, map) \in [Vars -> Keys \cup {NoKey}]
<1>1. ASSUME NEW v \in Vars, \E q \in Providers : map[q].var = v
      PROVE  map[CHOOSE q \in Providers : map[q].var = v].key \in Keys \cup {NoKey}
  <2> DEFINE r == CHOOSE q \in Providers : map[q].var = v
  <2>1. r \in Providers
    BY <1>1
  <2>2. QED
    BY <2>1, KeyOfCredential
<1>2. QED
  BY <1>1 DEF Applied

LEMMA CompletedType ==
    ASSUME NEW map \in [Providers -> Availabilities]
    PROVE  /\ Completed(map) \in [Providers -> Availabilities]
           /\ \A q \in Providers : Completed(map)[q] # Unset
  BY RuntimeAssumption DEF Completed, Availabilities

LEMMA EnsuredType ==
    ASSUME NEW file \in [form : Forms, map : [Providers -> Availabilities]]
    PROVE  /\ Ensured(file) \in [Providers -> Availabilities]
           /\ \A q \in Providers : Ensured(file)[q] # Unset
  BY CompletedType, RuntimeAssumption DEF Ensured, Defaults, Availabilities

-----------------------------------------------------------------------------
(* Types. *)

LEMMA TypeInit == Init => TypeInv
<1> SUFFICES ASSUME Init PROVE TypeInv
  OBVIOUS
<1>1. status \in {[form |-> "none", map |-> Defaults]}
                 \cup [form : {"json"}, map : [Providers -> Availabilities]]
  BY DEF Init
<1>2. status \in [form : Forms, map : [Providers -> Availabilities]]
  BY <1>1 DEF Defaults, Availabilities, Forms
<1>3. saved \in [Providers -> Availabilities]
  BY <1>2, CompletedType DEF Init
<1>4. NoKeys \in [Providers -> Credentials] /\ Defaults \in [Providers -> Availabilities]
  BY DEF NoKeys, Credentials, Defaults, Availabilities
<1>5. info \in [form : Forms, version : 0 .. 2]
  BY DEF Init, Forms
<1>6. QED
  BY <1>2, <1>3, <1>4, <1>5, RuntimeAssumption
     DEF Init, TypeInv, TypeOK, ControlOK, Places, Forms, NewSession

\* Where a command writes, it was checked on the way.
Writing == {"status_open", "status_fill", "creds_read", "creds_open", "creds_fill", "reapply"}

LEMMA Moves ==
    ASSUME TypeInv, NEW p \in Procs, NEW place \in Places \ Writing, Goto(p, place), UNCHANGED cmd
    PROVE  /\ pc' \in [Procs -> Places] /\ cmd' \in [Procs -> Commands \cup {NoCommand}]
           /\ ControlOK'
  BY DEF TypeInv, TypeOK, ControlOK, Goto, Writing

LEMMA Finishes ==
    ASSUME TypeInv, NEW p \in Procs, Done(p)
    PROVE  /\ pc' \in [Procs -> Places] /\ cmd' \in [Procs -> Commands \cup {NoCommand}]
           /\ ControlOK'
  BY DEF TypeInv, TypeOK, ControlOK, Done, Goto, Places

LEMMA TypeStep == TypeInv /\ [Next]_vars => TypeInv'
<1> SUFFICES ASSUME TypeInv, [Next]_vars PROVE TypeInv'
  OBVIOUS
<1> USE DEF TypeInv, TypeOK, ControlOK, Places, files, locals, history
<1>1. ASSUME NEW p \in Procs, NEW c \in Typed, Start(p, c) PROVE TypeInv'
  BY <1>1, RuntimeAssumption DEF Start, Goto
<1>2. ASSUME NEW p \in Procs, ReadInfo(p) PROVE TypeInv'
  <2>1. CASE Done(p) /\ UNCHANGED stage
    BY <1>2, <2>1, Finishes DEF ReadInfo
  <2>2. CASE /\ stage' \in {stage, [stage EXCEPT ![p] = "init"]}
             /\ UNCHANGED cmd
             /\ \E place \in {"info_open", "backup", "info", "ensure"} : Goto(p, place)
    BY <1>2, <2>2, Moves DEF ReadInfo, Writing
  <2>3. QED
    BY <1>2, <2>1, <2>2 DEF ReadInfo, AfterMigration
<1>3. ASSUME NEW p \in Procs, BackUp(p) PROVE TypeInv'
  BY <1>3 DEF BackUp, Goto
<1>4. ASSUME NEW p \in Procs, OpenInfo(p) PROVE TypeInv'
  BY <1>4 DEF OpenInfo, Goto, Forms
<1>5. ASSUME NEW p \in Procs, FillInfo(p) PROVE TypeInv'
  BY <1>5 DEF FillInfo, Goto, AfterMigration, Forms, Current
<1>6. ASSUME NEW p \in Procs, Ensure(p) PROVE TypeInv'
  <2>1. Ensured(status) \in [Providers -> Availabilities]
    BY EnsuredType
  <2>2. statusCopy' \in [Procs -> [Providers -> Availabilities]]
    BY <1>6, <2>1 DEF Ensure
  <2>3. \E place \in {"apply", "status_read", "ensure_open"} : Goto(p, place)
    BY <1>6 DEF Ensure, AfterEnsure
  <2>4. QED
    BY <1>6, <2>2, <2>3, Moves DEF Ensure, Writing
<1>7. ASSUME NEW p \in Procs, OpenStatus(p) PROVE TypeInv'
  <2>1. status' \in [form : Forms, map : [Providers -> Availabilities]]
    BY <1>7 DEF OpenStatus, Torn, Forms
  <2>2. pc' \in [Procs -> Places] /\ ControlOK'
    BY <1>7 DEF OpenStatus, Goto
  <2>3. QED
    BY <1>7, <2>1, <2>2 DEF OpenStatus
<1>8. ASSUME NEW p \in Procs, FillEnsured(p) PROVE TypeInv'
  <2>1. status' \in [form : Forms, map : [Providers -> Availabilities]]
    BY <1>8, FilledType DEF FillEnsured
  <2>2. \E place \in {"apply", "status_read"} : Goto(p, place)
    BY <1>8 DEF FillEnsured, AfterEnsure
  <2>3. QED
    BY <1>8, <2>1, <2>2, Moves DEF FillEnsured, Writing
<1>9. ASSUME NEW p \in Procs, ReadStatus(p) PROVE TypeInv'
  <2>1. CASE Done(p) /\ UNCHANGED statusCopy
    BY <1>9, <2>1, Finishes DEF ReadStatus
  <2>2. CASE /\ cmd[p].op = "set_status"
             /\ statusCopy' = [statusCopy EXCEPT ![p] = [status.map EXCEPT ![cmd[p].provider] = cmd[p].to]]
             /\ Goto(p, "status_open") /\ UNCHANGED cmd
    <3>1. cmd[p].provider \in Providers /\ cmd[p].to \in Availabilities
      BY <2>2, SetStatusFields
    <3>2. statusCopy' \in [Procs -> [Providers -> Availabilities]]
      BY <2>2, <3>1
    <3>3. QED
      BY <1>9, <2>2, <3>2 DEF ReadStatus, Goto
  <2>3. QED
    BY <1>9, <2>1, <2>2 DEF ReadStatus
<1>10. ASSUME NEW p \in Procs, FillStatus(p) PROVE TypeInv'
  <2>1. status' \in [form : Forms, map : [Providers -> Availabilities]]
    BY <1>10, FilledType DEF FillStatus
  <2>2. cmd[p].provider \in Providers /\ cmd[p].to \in Availabilities
    BY <1>10, SetStatusFields DEF FillStatus
  <2>3. saved' \in [Providers -> Availabilities]
    BY <1>10, <2>2 DEF FillStatus
  <2>4. QED
    BY <1>10, <2>1, <2>3, Finishes DEF FillStatus
<1>11. ASSUME NEW p \in Procs, Apply(p) PROVE TypeInv'
  <2>1. Applied(env[p], Stored) \in [Vars -> Keys \cup {NoKey}]
    BY AppliedType, StoredType
  <2>2. env' \in [Procs -> [Vars -> Keys \cup {NoKey}]]
    BY <1>11, <2>1 DEF Apply
  <2>3. session' \in [Procs -> [view : {"fresh", "synced", "stale"}, held : SUBSET Vars]]
    BY <1>11 DEF Apply
  <2>4. stage' \in [Procs -> {"upgrade", "init", "command"}]
    BY <1>11 DEF Apply
  <2>5. pc' \in [Procs -> Places] /\ cmd' \in [Procs -> Commands \cup {NoCommand}] /\ ControlOK'
    <3>1. CASE Done(p)
      BY <3>1, Finishes
    <3>2. CASE Goto(p, "ensure") /\ UNCHANGED cmd
      BY <3>2, Moves DEF Writing
    <3>3. CASE cmd[p].op \in {"set_key", "clear_key"} /\ Goto(p, "creds_read") /\ UNCHANGED cmd
      BY <3>3 DEF Goto
    <3>4. QED
      BY <1>11, <3>1, <3>2, <3>3 DEF Apply
  <2>6. QED
    BY <1>11, <2>2, <2>3, <2>4, <2>5 DEF Apply
<1>12. ASSUME NEW p \in Procs, ReadCredentials(p) PROVE TypeInv'
  <2>1. CASE Done(p) /\ UNCHANGED credsCopy
    BY <1>12, <2>1, Finishes DEF ReadCredentials
  <2>2. CASE /\ ~(cmd[p].op = "set_key" /\ (cmd[p].var \notin Allowed[cmd[p].provider] \/ cmd[p].key = NoKey))
             /\ credsCopy' = [credsCopy EXCEPT ![p] = Stored]
             /\ Goto(p, "creds_open") /\ UNCHANGED cmd
    <3>1. credsCopy' \in [Procs -> [Providers -> Credentials]]
      BY <2>2, StoredType
    <3>2. pc[p] = "creds_read"
      BY <1>12 DEF ReadCredentials
    <3>3. pc' \in [Procs -> Places] /\ ControlOK'
      BY <2>2, <3>2 DEF Goto
    <3>4. QED
      BY <1>12, <2>2, <3>1, <3>3 DEF ReadCredentials
  <2>3. QED
    BY <1>12, <2>1, <2>2 DEF ReadCredentials
<1>13. ASSUME NEW p \in Procs, OpenCredentials(p) PROVE TypeInv'
  <2>1. creds' \in [form : Forms, map : [Providers -> Credentials]]
    BY <1>13 DEF OpenCredentials, Torn, Forms
  <2>2. pc' \in [Procs -> Places] /\ ControlOK'
    BY <1>13 DEF OpenCredentials, Goto
  <2>3. QED
    BY <1>13, <2>1, <2>2 DEF OpenCredentials
<1>14. ASSUME NEW p \in Procs, FillCredentials(p) PROVE TypeInv'
  <2> DEFINE c == cmd[p]
             new == WithKey(credsCopy[p], c.provider, NewCredential(c))
  <2>1. pc[p] = "creds_fill" /\ c.op \in {"set_key", "clear_key"} /\ c \in Commands \cup {NoCommand}
    BY <1>14 DEF FillCredentials
  <2>2. c.op = "set_key" => c.provider \in Providers /\ c.var \in Vars /\ c.key \in Keys
    BY <2>1, SetKeyFields
  <2>3. c.provider \in Providers
    BY <2>1, <2>2, ClearKeyFields
  <2>4. NewCredential(c) \in Credentials
    BY <2>2 DEF NewCredential, Credentials
  <2>5. new \in [Providers -> Credentials]
    BY <2>3, <2>4 DEF WithKey
  <2>6. creds' \in [form : Forms, map : [Providers -> Credentials]]
    <3>1. creds' \in Filled(creds, new)
      BY <1>14 DEF FillCredentials
    <3>2. QED
      BY <2>5, <3>1, FilledType
  <2>7. env' \in [Procs -> [Vars -> Keys \cup {NoKey}]]
    <3>1. EnvAfter(env[p], credsCopy[p][c.provider], c) \in [Vars -> Keys \cup {NoKey}]
      BY <2>2 DEF EnvAfter
    <3>2. QED
      BY <1>14, <3>1 DEF FillCredentials
  <2>8. savedKeys' \in [Providers -> Credentials]
    BY <1>14, <2>3, <2>4 DEF FillCredentials
  <2>9. session' \in [Procs -> [view : {"fresh", "synced", "stale"}, held : SUBSET Vars]]
    BY <1>14 DEF FillCredentials, SessionAfter
  <2>10. pc' \in [Procs -> Places] /\ cmd' \in [Procs -> Commands \cup {NoCommand}] /\ ControlOK'
    <3>1. CASE Done(p)
      BY <3>1, Finishes
    <3>2. CASE c.op = "set_key" /\ Goto(p, "reapply") /\ UNCHANGED cmd
      BY <3>2 DEF Goto
    <3>3. QED
      BY <1>14, <3>1, <3>2 DEF FillCredentials
  <2>11. QED
    BY <1>14, <2>6, <2>7, <2>8, <2>9, <2>10 DEF FillCredentials
<1>15. ASSUME NEW p \in Procs, Reapply(p) PROVE TypeInv'
  <2> DEFINE k == Stored[cmd[p].provider]
  <2>1. cmd[p].provider \in Providers
    <3>1. cmd[p].op \in {"set_key", "clear_key"} /\ cmd[p] \in Commands \cup {NoCommand}
      BY <1>15 DEF Reapply
    <3>2. QED
      BY <3>1, SetKeyFields, ClearKeyFields
  <2>2. k \in Credentials
    BY <2>1, StoredType
  <2>3. k.key \in Keys \cup {NoKey} /\ (k # NoCredential => k.var \in Vars)
    BY <2>2, KeyOfCredential
  <2>4. env' \in [Procs -> [Vars -> Keys \cup {NoKey}]]
    BY <1>15, <2>3 DEF Reapply
  <2>5. QED
    BY <1>15, <2>4, Finishes DEF Reapply
<1>16. ASSUME NEW p \in Procs, Exit(p) PROVE TypeInv'
  BY <1>16, RuntimeAssumption DEF Exit, Leave, NewSession
<1>17. ASSUME NEW p \in Procs, Kill(p) PROVE TypeInv'
  <2>1. env' \in [Procs -> [Vars -> Keys \cup {NoKey}]] /\ session' \in [Procs -> [view : {"fresh", "synced", "stale"}, held : SUBSET Vars]]
    BY <1>17, RuntimeAssumption DEF Kill, Leave, NewSession
  <2>2. trouble' \subseteq {"overlap", "torn"} /\ kills' \in Nat
    BY <1>17 DEF Kill
  <2>3. pc' \in [Procs -> Places] /\ cmd' \in [Procs -> Commands \cup {NoCommand}] /\ ControlOK'
    BY <1>17, Finishes DEF Kill
  <2>4. QED
    BY <1>17, <2>1, <2>2, <2>3 DEF Kill
<1>18. CASE UNCHANGED vars
  BY <1>18 DEF vars
<1>19. QED
  BY <1>1, <1>2, <1>3, <1>4, <1>5, <1>6, <1>7, <1>8, <1>9, <1>10, <1>11, <1>12, <1>13,
     <1>14, <1>15, <1>16, <1>17, <1>18 DEF Next

LEMMA TypeInvHolds == Spec => []TypeInv
  BY TypeInit, TypeStep, PTL DEF Spec

(* Whatever terminals interleave or die, files and locals keep the types of the code. *)
THEOREM TypeCorrect == Spec => []TypeOK
<1>1. TypeInv => TypeOK
  BY DEF TypeInv
<1>2. QED
  BY <1>1, TypeInvHolds, PTL

-----------------------------------------------------------------------------
(* A migrated runtime.json has a copy. *)

BackupInv ==
    /\ older => info.form # "none"
    /\ older /\ (\E p \in Procs : pc[p] \in {"info_open", "info_fill"}) => backedUp
    /\ BackedUp

LEMMA BackupInit == Init => BackupInv
<1> SUFFICES ASSUME Init PROVE BackupInv
  OBVIOUS
<1>1. ASSUME older PROVE info = [form |-> "json", version |-> 0]
  <2>1. info.form = "json" /\ info.version < Current
    BY <1>1, Zenon DEF Init
  <2>2. info \in [form : {"json"}, version : 0 .. 2]
    BY <2>1 DEF Init
  <2>3. info.version = 0
    BY <2>1, <2>2 DEF Current
  <2>4. QED
    BY <2>2, <2>3
<1>2. QED
  BY <1>1 DEF Init, BackupInv, BackedUp

LEMMA BackupStep == TypeInv /\ BackupInv /\ [Next]_vars => BackupInv'
<1> SUFFICES ASSUME TypeInv, BackupInv, [Next]_vars PROVE BackupInv'
  OBVIOUS
<1> USE DEF BackupInv, BackedUp, files, locals, history
<1>types. info \in [form : Forms, version : 0 .. 2] /\ pc \in [Procs -> Places]
  BY DEF TypeInv, TypeOK
<1>keeps. ASSUME UNCHANGED <<info, backedUp, older>>,
                 \A p \in Procs : pc'[p] \in {"info_open", "info_fill"} => pc[p] \in {"info_open", "info_fill"}
          PROVE  BackupInv'
  BY <1>keeps
<1>1. ASSUME NEW p \in Procs, ReadInfo(p) PROVE BackupInv'
  <2>1. UNCHANGED <<info, backedUp, older>>
    BY <1>1 DEF ReadInfo
  <2>2. CASE info.form = "none"
    BY <2>1, <2>2
  <2>3. CASE info.form # "none"
    <3>1. \A q \in Procs : pc'[q] \in {"info_open", "info_fill"} => pc[q] \in {"info_open", "info_fill"}
      BY <1>1, <1>types, <2>3 DEF ReadInfo, Goto, Done, AfterMigration
    <3>2. QED
      BY <2>1, <3>1, <1>keeps
  <2>4. QED
    BY <2>2, <2>3
<1>2. ASSUME NEW p \in Procs, BackUp(p) PROVE BackupInv'
  BY <1>2 DEF BackUp
<1>3. ASSUME NEW p \in Procs, OpenInfo(p) PROVE BackupInv'
  BY <1>3, <1>types DEF OpenInfo, Goto
<1>4. ASSUME NEW p \in Procs, FillInfo(p) PROVE BackupInv'
  BY <1>4, <1>types DEF FillInfo, Goto, AfterMigration
<1>5. ASSUME NEW p \in Procs,
             \/ \E c \in Typed : Start(p, c)
             \/ Ensure(p) \/ OpenStatus(p) \/ FillEnsured(p) \/ ReadStatus(p) \/ FillStatus(p)
             \/ Apply(p) \/ ReadCredentials(p) \/ OpenCredentials(p) \/ FillCredentials(p)
             \/ Reapply(p) \/ Exit(p) \/ Kill(p)
      PROVE  BackupInv'
  <2>1. UNCHANGED <<info, backedUp, older>>
    BY <1>5 DEF Start, Ensure, OpenStatus, FillEnsured, ReadStatus, FillStatus, Apply,
                ReadCredentials, OpenCredentials, FillCredentials, Reapply, Exit, Kill
  <2>2. UNCHANGED pc \/ \E place \in Places \ {"info_open", "info_fill"} : Goto(p, place)
    BY <1>5 DEF Start, Ensure, OpenStatus, FillEnsured, ReadStatus, FillStatus, Apply, AfterEnsure,
                ReadCredentials, OpenCredentials, FillCredentials, Reapply, Exit, Kill, Done, Places
  <2>3. \A q \in Procs : pc'[q] \in {"info_open", "info_fill"} => pc[q] \in {"info_open", "info_fill"}
    BY <2>2, <1>types DEF Goto
  <2>4. QED
    BY <2>1, <2>3, <1>keeps
<1>6. CASE UNCHANGED vars
  BY <1>6 DEF vars
<1>7. QED
  BY <1>1, <1>2, <1>3, <1>4, <1>5, <1>6 DEF Next

(* upgradeRuntime copies before it writes: an older runtime.json is never gone without
   a copy, whichever terminal dies when. *)
THEOREM MigrationIsBackedUp == Spec => []BackedUp
<1>1. BackupInv => BackedUp
  BY DEF BackupInv
<1>2. QED
  BY <1>1, TypeInvHolds, BackupInit, BackupStep, PTL DEF Spec

-----------------------------------------------------------------------------
(* A newer CLI was here. *)

\* Every command is at the check or over, and no terminal has applied a key.
NewerInv ==
    info.version > Current =>
        /\ info.form = "json"
        /\ env = Inherited
        /\ \A p \in Procs : pc[p] \in {"idle", "info"} /\ session[p] = NewSession

LEMMA NewerInit == Init => NewerInv
  BY DEF Init, NewerInv, Current

LEMMA NewerStep == TypeInv /\ NewerInv /\ [Next]_vars => NewerInv' /\ (info.version > Current => UNCHANGED <<files, env>>)
<1> SUFFICES ASSUME TypeInv, NewerInv, [Next]_vars
             PROVE  NewerInv' /\ (info.version > Current => UNCHANGED <<files, env>>)
  OBVIOUS
<1>types. info \in [form : Forms, version : 0 .. 2] /\ pc \in [Procs -> Places]
          /\ session \in [Procs -> [view : {"fresh", "synced", "stale"}, held : SUBSET Vars]]
          /\ env \in [Procs -> [Vars -> Keys \cup {NoKey}]]
  BY DEF TypeInv, TypeOK
<1>1. CASE info.version > Current
  <2>1. /\ info.form = "json" /\ env = Inherited
        /\ \A p \in Procs : pc[p] \in {"idle", "info"} /\ session[p] = NewSession
    BY <1>1 DEF NewerInv
  <2>2. \/ \E p \in Procs : (\E c \in Typed : Start(p, c)) \/ ReadInfo(p) \/ Kill(p)
        \/ UNCHANGED vars
    BY <2>1 DEF Next, BackUp, OpenInfo, FillInfo, Ensure, OpenStatus, FillEnsured, ReadStatus, FillStatus,
                Apply, ReadCredentials, OpenCredentials, FillCredentials, Reapply, Exit, NewSession
  <2>3. ASSUME NEW p \in Procs, NEW c \in Typed, Start(p, c)
        PROVE  NewerInv' /\ UNCHANGED <<files, env>>
    BY <2>1, <2>3, <1>types DEF Start, Goto, NewerInv, files
  <2>4. ASSUME NEW p \in Procs, ReadInfo(p) PROVE NewerInv' /\ UNCHANGED <<files, env>>
    <3>1. Done(p) /\ UNCHANGED <<files, env, session>>
      BY <1>1, <2>1, <2>4, <1>types DEF ReadInfo, Current, history
    <3>2. QED
      BY <2>1, <3>1, <1>types DEF Done, Goto, NewerInv, files
  <2>5. ASSUME NEW p \in Procs, Kill(p) PROVE NewerInv' /\ UNCHANGED <<files, env>>
    <3>1. Done(p) /\ UNCHANGED files /\ env' = [env EXCEPT ![p] = Inherited[p]]
          /\ session' = [session EXCEPT ![p] = NewSession]
      BY <2>5 DEF Kill, Leave
    <3>2. UNCHANGED <<env, session>>
      BY <2>1, <3>1, <1>types
    <3>3. QED
      BY <2>1, <3>1, <3>2, <1>types DEF Done, Goto, NewerInv, files
  <2>6. CASE UNCHANGED vars
    BY <2>6 DEF vars, files, NewerInv
  <2>7. QED
    BY <2>2, <2>3, <2>4, <2>5, <2>6
<1>2. CASE ~(info.version > Current)
  <2>1. ~(info'.version > Current)
    <3>1. UNCHANGED info \/ info' = [form |-> "torn", version |-> 0] \/ info' = [form |-> "json", version |-> Current]
      BY DEF Next, vars, files, Start, ReadInfo, BackUp, OpenInfo, FillInfo, Ensure, OpenStatus, FillEnsured,
             ReadStatus, FillStatus, Apply, ReadCredentials, OpenCredentials, FillCredentials, Reapply, Exit, Kill
    <3>2. QED
      BY <1>2, <3>1 DEF Current
  <2>2. QED
    BY <1>2, <2>1 DEF NewerInv
<1>3. QED
  BY <1>1, <1>2

(* The check of the version comes first in every command: a runtime of a newer CLI
   is left as it is, and so are the settings and the environment. *)
THEOREM NewerLeftAlone == Spec => NewerUntouched
<1>1. TypeInv /\ NewerInv /\ [Next]_vars => [info.version > Current => UNCHANGED <<files, env>>]_vars
  BY NewerStep
<1>2. QED
  BY <1>1, TypeInvHolds, NewerInit, NewerStep, PTL DEF Spec, NewerUntouched

-----------------------------------------------------------------------------
(* A lone command stands before a status file that names every provider. *)

Alone == \A p, q \in Procs : pc[p] # "idle" /\ pc[q] # "idle" => p = q

\* What a command is about to write names every provider, and nobody's text is in the file.
Heals == \A p \in Procs :
    /\ pc[p] \in {"ensure_open", "ensure_fill"} => \A q \in Providers : statusCopy[p][q] # Unset
    /\ pc[p] = "ensure_fill" => status.form = "torn"
    /\ pc[p] \in {"apply", "status_read"} => Whole(status)

HealInv == "overlap" \notin trouble => Alone /\ Heals

LEMMA HealInit == Init => HealInv
  BY DEF Init, HealInv, Alone, Heals

(* A step of a command that was alone, seen from its place alone. *)
LEMMA LoneStep ==
    ASSUME TypeInv, Alone, NEW p \in Procs, pc[p] # "idle", NEW place \in Places,
           Goto(p, place),
           place \in {"ensure_open", "ensure_fill"} => \A q \in Providers : statusCopy'[p][q] # Unset,
           place = "ensure_fill" => status'.form = "torn",
           place \in {"apply", "status_read"} => Whole(status')
    PROVE  Alone' /\ Heals'
<1>1. \A r \in Procs : pc'[r] = IF r = p THEN place ELSE "idle"
  BY DEF TypeInv, TypeOK, Alone, Goto
<1>2. QED
  BY <1>1 DEF Alone, Heals, Whole

LEMMA HealStep == TypeInv /\ HealInv /\ [Next]_vars => HealInv'
<1> SUFFICES ASSUME TypeInv, HealInv, [Next]_vars, "overlap" \notin trouble' PROVE Alone' /\ Heals'
  BY DEF HealInv
<1> USE DEF files, locals, history
<1>types. /\ pc \in [Procs -> Places] /\ status \in [form : Forms, map : [Providers -> Availabilities]]
          /\ statusCopy \in [Procs -> [Providers -> Availabilities]]
  BY DEF TypeInv, TypeOK
<1>before. Alone /\ Heals
  <2>1. trouble \subseteq trouble'
    BY DEF Next, vars, Start, ReadInfo, BackUp, OpenInfo, FillInfo, Ensure, OpenStatus, FillEnsured,
           ReadStatus, FillStatus, Apply, ReadCredentials, OpenCredentials, FillCredentials, Reapply, Exit, Kill
  <2>2. QED
    BY <2>1 DEF HealInv
<1>1. ASSUME NEW p \in Procs, NEW c \in Typed, Start(p, c) PROVE Alone' /\ Heals'
  <2>1. Others(p) = {} /\ pc[p] = "idle" /\ Goto(p, "info")
    BY <1>1 DEF Start
  <2>2. \A r \in Procs : pc'[r] = IF r = p THEN "info" ELSE "idle"
    BY <2>1, <1>types DEF Others, Goto
  <2>3. QED
    BY <2>2 DEF Alone, Heals
<1>2. ASSUME NEW p \in Procs, Ensure(p) PROVE Alone' /\ Heals'
  <2>1. CASE Whole(status)
    <3>1. \E place \in {"apply", "status_read"} : Goto(p, place)
      BY <1>2, <2>1 DEF Ensure, AfterEnsure
    <3>2. QED
      BY <1>2, <2>1, <3>1, <1>before, LoneStep DEF Ensure, Places, Whole
  <2>2. CASE ~Whole(status)
    <3>1. statusCopy'[p] = Ensured(status) /\ Goto(p, "ensure_open")
      BY <1>2, <2>2, <1>types DEF Ensure
    <3>2. \A q \in Providers : statusCopy'[p][q] # Unset
      BY <3>1, <1>types, EnsuredType
    <3>3. QED
      BY <1>2, <3>1, <3>2, <1>before, LoneStep DEF Ensure, Places
  <2>3. QED
    BY <2>1, <2>2
<1>3. ASSUME NEW p \in Procs, OpenStatus(p) PROVE Alone' /\ Heals'
  <2>1. status'.form = "torn"
    BY <1>3, <1>types DEF OpenStatus, Torn
  <2>2. CASE pc[p] = "ensure_open"
    BY <1>3, <2>1, <2>2, <1>before, LoneStep DEF OpenStatus, Places, Heals
  <2>3. CASE pc[p] = "status_open"
    BY <1>3, <2>3, <1>before, LoneStep DEF OpenStatus, Places
  <2>4. QED
    BY <1>3, <2>2, <2>3 DEF OpenStatus
<1>4. ASSUME NEW p \in Procs, FillEnsured(p) PROVE Alone' /\ Heals'
  <2>1. pc[p] = "ensure_fill" /\ status.form = "torn" /\ \A q \in Providers : statusCopy[p][q] # Unset
    BY <1>4, <1>before DEF FillEnsured, Heals
  <2>2. status' = [form |-> "json", map |-> statusCopy[p]]
    BY <1>4, <2>1 DEF FillEnsured, Filled
  <2>3. Whole(status')
    BY <2>1, <2>2 DEF Whole
  <2>4. \E place \in {"apply", "status_read"} : Goto(p, place)
    BY <1>4 DEF FillEnsured, AfterEnsure
  <2>5. QED
    BY <2>1, <2>3, <2>4, <1>before, LoneStep DEF Places
<1>5. ASSUME NEW p \in Procs,
             \/ ReadInfo(p) \/ BackUp(p) \/ OpenInfo(p) \/ FillInfo(p) \/ ReadStatus(p) \/ FillStatus(p)
             \/ Apply(p) \/ ReadCredentials(p) \/ OpenCredentials(p) \/ FillCredentials(p)
             \/ Reapply(p) \/ Kill(p)
      PROVE  Alone' /\ Heals'
  <2>1. \E place \in Places \ {"ensure_open", "ensure_fill", "apply", "status_read"} : Goto(p, place)
    BY <1>5 DEF ReadInfo, BackUp, OpenInfo, FillInfo, ReadStatus, FillStatus, Apply, AfterMigration,
                ReadCredentials, OpenCredentials, FillCredentials, Reapply, Kill, Done, Places
  <2>2. pc[p] # "idle"
    BY <1>5 DEF ReadInfo, BackUp, OpenInfo, FillInfo, ReadStatus, FillStatus, Apply,
                ReadCredentials, OpenCredentials, FillCredentials, Reapply, Kill
  <2>3. QED
    BY <2>1, <2>2, <1>before, LoneStep
<1>6. ASSUME NEW p \in Procs, Exit(p) PROVE Alone' /\ Heals'
  BY <1>6, <1>before DEF Exit, Alone, Heals, Whole
<1>7. CASE UNCHANGED vars
  BY <1>7, <1>before DEF vars, Alone, Heals, Whole
<1>8. QED
  BY <1>1, <1>2, <1>3, <1>4, <1>5, <1>6, <1>7 DEF Next

(* ensureProviderStatus: after a crash in the middle of a write, too, a command that no
   other one overlaps stands before a status file that names every provider. *)
THEOREM LoneCommandHeals == Spec => []StatusHeals
<1>1. HealInv => StatusHeals
  BY DEF HealInv, Heals, StatusHeals
<1>2. QED
  BY <1>1, TypeInvHolds, HealInit, HealStep, PTL DEF Spec

-----------------------------------------------------------------------------
(* Commands one after another lose no setting. *)

\* While one fills the status file it has what will be saved; else the file has it.
StatusKept ==
    /\ \A q \in Providers : saved[q] # Unset
    /\ status.form = "none" => Completed(status.map) = Defaults
    /\ (\A p \in Procs : pc[p] \notin {"ensure_fill", "status_fill"}) =>
           status.form # "torn" /\ Completed(status.map) = saved
    /\ \A p \in Procs :
           /\ pc[p] \in {"ensure_fill", "status_fill"} => status.form = "torn"
           /\ pc[p] \in {"ensure_open", "ensure_fill"} => statusCopy[p] = saved
           /\ pc[p] \in {"status_open", "status_fill"} =>
                  /\ cmd[p].to # Unset
                  /\ statusCopy[p] = [saved EXCEPT ![cmd[p].provider] = cmd[p].to]

KeysKept ==
    /\ creds.form = "none" => creds.map = NoKeys
    /\ (\A p \in Procs : pc[p] # "creds_fill") => creds.form # "torn" /\ creds.map = savedKeys
    /\ \A p \in Procs :
           /\ pc[p] = "creds_fill" => creds.form = "torn"
           /\ pc[p] \in {"creds_open", "creds_fill"} => credsCopy[p] = savedKeys

KeptInv == trouble = {} => StatusKept /\ KeysKept

LEMMA SavedStatusIsSet ==
    ASSUME NEW c \in Commands \cup {NoCommand}, c.op = "set_status"
    PROVE  c.to # Unset
  BY RuntimeAssumption DEF Commands, NoCommand

LEMMA CompletedWhole ==
    ASSUME NEW map \in [Providers -> Availabilities], \A q \in Providers : map[q] # Unset
    PROVE  Completed(map) = map
  BY DEF Completed

LEMMA KeptInit == Init => KeptInv
<1> SUFFICES ASSUME Init PROVE StatusKept /\ KeysKept
  BY DEF KeptInv
<1>1. status \in {[form |-> "none", map |-> Defaults]}
                 \cup [form : {"json"}, map : [Providers -> Availabilities]]
  BY DEF Init
<1>2. status.map \in [Providers -> Availabilities]
  BY <1>1 DEF Defaults, Availabilities
<1>3. \A q \in Providers : Completed(status.map)[q] # Unset
  BY <1>2, CompletedType
<1>4. status.form = "none" => Completed(status.map) = Defaults
  <2>1. Completed(Defaults) = Defaults
    BY RuntimeAssumption DEF Completed, Defaults
  <2>2. QED
    BY <1>1, <2>1
<1>5. status.form # "torn"
  BY <1>1
<1>6. StatusKept
  BY <1>3, <1>4, <1>5 DEF Init, StatusKept
<1>7. KeysKept
  BY DEF Init, KeysKept
<1>8. QED
  BY <1>6, <1>7

LEMMA KeptStep == TypeInv /\ HealInv /\ KeptInv /\ [Next]_vars => KeptInv'
<1> SUFFICES ASSUME TypeInv, HealInv, KeptInv, [Next]_vars, trouble' = {} PROVE StatusKept' /\ KeysKept'
  BY DEF KeptInv
<1> USE DEF files, locals, history
<1>types. /\ pc \in [Procs -> Places] /\ cmd \in [Procs -> Commands \cup {NoCommand}]
          /\ status \in [form : Forms, map : [Providers -> Availabilities]]
          /\ creds \in [form : Forms, map : [Providers -> Credentials]]
          /\ statusCopy \in [Procs -> [Providers -> Availabilities]]
          /\ credsCopy \in [Procs -> [Providers -> Credentials]]
          /\ saved \in [Providers -> Availabilities] /\ savedKeys \in [Providers -> Credentials]
  BY DEF TypeInv, TypeOK
<1>before. Alone /\ Heals /\ StatusKept /\ KeysKept
  <2>1. trouble \subseteq trouble'
    BY DEF Next, vars, Start, ReadInfo, BackUp, OpenInfo, FillInfo, Ensure, OpenStatus, FillEnsured,
           ReadStatus, FillStatus, Apply, ReadCredentials, OpenCredentials, FillCredentials, Reapply, Exit, Kill
  <2>2. QED
    BY <2>1 DEF HealInv, KeptInv
<1>lone. ASSUME NEW p \in Procs, pc[p] # "idle" PROVE \A r \in Procs : r # p => pc[r] = "idle"
  BY <1>lone, <1>before DEF Alone
<1>1. ASSUME NEW p \in Procs, OpenStatus(p) PROVE StatusKept' /\ KeysKept'
  <2>1. status'.form = "torn" /\ UNCHANGED <<creds, saved, savedKeys, statusCopy, credsCopy, cmd>>
    BY <1>1, <1>types DEF OpenStatus, Torn
  <2>2. \/ pc[p] = "ensure_open" /\ Goto(p, "ensure_fill")
        \/ pc[p] = "status_open" /\ Goto(p, "status_fill")
    BY <1>1 DEF OpenStatus
  <2>3. \A r \in Procs : r # p => pc[r] = "idle"
    BY <2>2, <1>lone
  <2>4. StatusKept'
    BY <2>1, <2>2, <2>3, <1>before, <1>types DEF StatusKept, Goto
  <2>5. KeysKept'
    BY <2>1, <2>2, <2>3, <1>before, <1>types DEF KeysKept, Goto
  <2>6. QED
    BY <2>4, <2>5
<1>2. ASSUME NEW p \in Procs, Ensure(p) PROVE StatusKept' /\ KeysKept'
  <2>1. /\ pc[p] = "ensure" /\ UNCHANGED <<status, creds, saved, savedKeys, credsCopy, cmd>>
        /\ \E place \in {"apply", "status_read", "ensure_open"} : Goto(p, place)
    BY <1>2 DEF Ensure, AfterEnsure
  <2>2. \A r \in Procs : r # p => pc[r] = "idle"
    BY <2>1, <1>lone
  <2>3. Ensured(status) = saved
    BY <2>1, <2>2, <1>before, <1>types DEF StatusKept, Ensured, Forms
  <2>4. pc'[p] = "ensure_open" => statusCopy'[p] = saved
    BY <1>2, <2>3, <1>types DEF Ensure, Goto, AfterEnsure
  <2>5. StatusKept'
    BY <2>1, <2>2, <2>4, <1>before, <1>types DEF StatusKept, Goto
  <2>6. KeysKept'
    BY <2>1, <2>2, <1>before, <1>types DEF KeysKept, Goto
  <2>7. QED
    BY <2>5, <2>6
<1>3. ASSUME NEW p \in Procs, FillEnsured(p) PROVE StatusKept' /\ KeysKept'
  <2>1. /\ pc[p] = "ensure_fill" /\ UNCHANGED <<creds, saved, savedKeys, statusCopy, credsCopy, cmd>>
        /\ \E place \in {"apply", "status_read"} : Goto(p, place)
    BY <1>3 DEF FillEnsured, AfterEnsure
  <2>2. \A r \in Procs : r # p => pc[r] = "idle"
    BY <2>1, <1>lone
  <2>3. statusCopy[p] = saved /\ status.form = "torn"
    BY <2>1, <1>before DEF StatusKept
  <2>4. status' = [form |-> "json", map |-> saved]
    BY <1>3, <2>3 DEF FillEnsured, Filled
  <2>5. Completed(saved) = saved
    BY <1>before, <1>types, CompletedWhole DEF StatusKept
  <2>6. StatusKept'
    BY <2>1, <2>2, <2>4, <2>5, <1>before, <1>types DEF StatusKept, Goto
  <2>7. KeysKept'
    BY <2>1, <2>2, <1>before, <1>types DEF KeysKept, Goto
  <2>8. QED
    BY <2>6, <2>7
<1>4. ASSUME NEW p \in Procs, ReadStatus(p) PROVE StatusKept' /\ KeysKept'
  <2>1. pc[p] = "status_read" /\ UNCHANGED <<status, creds, saved, savedKeys, credsCopy>>
    BY <1>4 DEF ReadStatus
  <2>2. \A r \in Procs : r # p => pc[r] = "idle"
    BY <2>1, <1>lone
  <2>3. status.map = saved
    <3>1. Whole(status)
      BY <2>1, <1>before DEF Heals
    <3>2. Completed(status.map) = status.map
      BY <3>1, <1>types, CompletedWhole DEF Whole
    <3>3. QED
      BY <2>1, <2>2, <3>2, <1>before DEF StatusKept
  <2>4. CASE Done(p)
    <3>1. \A r \in Procs : pc'[r] = "idle"
      BY <2>2, <2>4, <1>types DEF Done, Goto
    <3>2. QED
      BY <2>1, <2>2, <3>1, <1>before DEF StatusKept, KeysKept
  <2>5. CASE /\ cmd[p].op = "set_status" /\ Goto(p, "status_open") /\ UNCHANGED cmd
             /\ statusCopy' = [statusCopy EXCEPT ![p] = [status.map EXCEPT ![cmd[p].provider] = cmd[p].to]]
    <3>1. cmd[p].to # Unset
      BY <2>5, <1>types, SavedStatusIsSet
    <3>2. statusCopy'[p] = [saved EXCEPT ![cmd[p].provider] = cmd[p].to]
      BY <2>3, <2>5, <1>types
    <3>3. StatusKept'
      BY <2>1, <2>2, <2>5, <3>1, <3>2, <1>before, <1>types DEF StatusKept, Goto
    <3>4. KeysKept'
      BY <2>1, <2>2, <2>5, <1>before, <1>types DEF KeysKept, Goto
    <3>5. QED
      BY <3>3, <3>4
  <2>6. QED
    BY <1>4, <2>4, <2>5 DEF ReadStatus
<1>5. ASSUME NEW p \in Procs, FillStatus(p) PROVE StatusKept' /\ KeysKept'
  <2> DEFINE new == [saved EXCEPT ![cmd[p].provider] = cmd[p].to]
  <2>1. pc[p] = "status_fill" /\ UNCHANGED <<creds, savedKeys, credsCopy>> /\ Done(p)
    BY <1>5 DEF FillStatus
  <2>2. \A r \in Procs : pc'[r] = "idle"
    BY <2>1, <1>lone, <1>types DEF Done, Goto
  <2>3. statusCopy[p] = new /\ status.form = "torn" /\ cmd[p].to # Unset
    BY <2>1, <1>before DEF StatusKept
  <2>4. status' = [form |-> "json", map |-> new] /\ saved' = new
    BY <1>5, <2>3 DEF FillStatus, Filled
  <2> HIDE DEF new
  <2>5. new \in [Providers -> Availabilities]
    BY <2>3, <1>types
  <2>6. \A q \in Providers : new[q] # Unset
    BY <2>3, <1>before, <1>types DEF StatusKept, new
  <2>7. Completed(new) = new
    BY <2>5, <2>6, CompletedWhole
  <2>8. StatusKept'
    BY <2>2, <2>4, <2>6, <2>7 DEF StatusKept
  <2>9. KeysKept'
    BY <2>1, <2>2, <1>lone, <1>before DEF KeysKept
  <2>10. QED
    BY <2>8, <2>9
<1>6. ASSUME NEW p \in Procs, ReadCredentials(p) PROVE StatusKept' /\ KeysKept'
  <2>1. pc[p] = "creds_read" /\ UNCHANGED <<status, creds, saved, savedKeys, statusCopy>>
    BY <1>6 DEF ReadCredentials
  <2>2. \A r \in Procs : r # p => pc[r] = "idle"
    BY <2>1, <1>lone
  <2>3. Stored = savedKeys
    BY <2>1, <2>2, <1>before, <1>types DEF KeysKept, Stored, Forms
  <2>4. CASE Done(p)
    <3>1. \A r \in Procs : pc'[r] = "idle"
      BY <2>2, <2>4, <1>types DEF Done, Goto
    <3>2. QED
      BY <2>1, <2>2, <3>1, <1>before DEF StatusKept, KeysKept
  <2>5. CASE /\ credsCopy' = [credsCopy EXCEPT ![p] = Stored] /\ Goto(p, "creds_open") /\ UNCHANGED cmd
    <3>1. StatusKept'
      BY <2>1, <2>2, <2>5, <1>before, <1>types DEF StatusKept, Goto
    <3>2. KeysKept'
      BY <2>1, <2>2, <2>3, <2>5, <1>before, <1>types DEF KeysKept, Goto
    <3>3. QED
      BY <3>1, <3>2
  <2>6. QED
    BY <1>6, <2>4, <2>5 DEF ReadCredentials
<1>7. ASSUME NEW p \in Procs, OpenCredentials(p) PROVE StatusKept' /\ KeysKept'
  <2>1. /\ pc[p] = "creds_open" /\ UNCHANGED <<status, saved, savedKeys, statusCopy, credsCopy, cmd>>
        /\ Goto(p, "creds_fill") /\ creds'.form = "torn"
    BY <1>7, <1>types DEF OpenCredentials, Torn
  <2>2. \A r \in Procs : r # p => pc[r] = "idle"
    BY <2>1, <1>lone
  <2>3. StatusKept'
    BY <2>1, <2>2, <1>before, <1>types DEF StatusKept, Goto
  <2>4. KeysKept'
    BY <2>1, <2>2, <1>before, <1>types DEF KeysKept, Goto
  <2>5. QED
    BY <2>3, <2>4
<1>8. ASSUME NEW p \in Procs, FillCredentials(p) PROVE StatusKept' /\ KeysKept'
  <2> DEFINE new == [savedKeys EXCEPT ![cmd[p].provider] = NewCredential(cmd[p])]
  <2>1. /\ pc[p] = "creds_fill" /\ UNCHANGED <<status, saved, statusCopy>>
        /\ \E place \in {"reapply", "idle"} : Goto(p, place)
    BY <1>8 DEF FillCredentials, Done
  <2>2. \A r \in Procs : pc'[r] \in {"reapply", "idle"}
    BY <2>1, <1>lone, <1>types DEF Goto
  <2>3. credsCopy[p] = savedKeys /\ creds.form = "torn"
    BY <2>1, <1>before DEF KeysKept
  <2>4. creds' = [form |-> "json", map |-> new] /\ savedKeys' = new
    BY <1>8, <2>3 DEF FillCredentials, Filled, WithKey
  <2> HIDE DEF new
  <2>5. \A r \in Procs : pc[r] \in {"creds_fill", "idle"}
    BY <2>1, <1>lone
  <2>6. StatusKept'
    BY <2>1, <2>2, <2>5, <1>before DEF StatusKept
  <2>7. KeysKept'
    BY <2>2, <2>4 DEF KeysKept
  <2>8. QED
    BY <2>6, <2>7
<1>9. ASSUME NEW p \in Procs,
             \/ \E c \in Typed : Start(p, c)
             \/ ReadInfo(p) \/ BackUp(p) \/ OpenInfo(p) \/ FillInfo(p) \/ Apply(p) \/ Reapply(p) \/ Kill(p)
      PROVE  StatusKept' /\ KeysKept'
  <2>1. /\ UNCHANGED <<status, creds, saved, savedKeys, statusCopy, credsCopy>>
        /\ \E place \in Places \ {"ensure_open", "ensure_fill", "status_open", "status_fill",
                                  "creds_open", "creds_fill"} : Goto(p, place)
    BY <1>9 DEF Start, ReadInfo, BackUp, OpenInfo, FillInfo, Apply, Reapply, Kill, Done, Places, AfterMigration
  <2>2. pc[p] \notin {"ensure_fill", "status_fill", "creds_fill"}
    BY <1>9 DEF Start, ReadInfo, BackUp, OpenInfo, FillInfo, Apply, Reapply, Kill
  <2>3. \A r \in Procs : r # p => cmd'[r] = cmd[r]
    BY <1>9, <1>types DEF Start, ReadInfo, BackUp, OpenInfo, FillInfo, Apply, Reapply, Kill, Done
  <2>4. StatusKept'
    BY <2>1, <2>2, <2>3, <1>before, <1>types DEF StatusKept, Goto
  <2>5. KeysKept'
    BY <2>1, <2>2, <1>before, <1>types DEF KeysKept, Goto
  <2>6. QED
    BY <2>4, <2>5
<1>10. ASSUME NEW p \in Procs, Exit(p) PROVE StatusKept' /\ KeysKept'
  BY <1>10, <1>before DEF Exit, StatusKept, KeysKept
<1>11. CASE UNCHANGED vars
  BY <1>11, <1>before DEF vars, StatusKept, KeysKept
<1>12. QED
  BY <1>1, <1>2, <1>3, <1>4, <1>5, <1>6, <1>7, <1>8, <1>9, <1>10, <1>11 DEF Next

(* setProviderAvailability, setProviderApiKey and clearProviderApiKey, by any number of
   terminals: while no two overlap and none dies in a write, the files have what the
   commands that completed left there. *)
THEOREM SettingsAreKept == Spec => []SettingsKept
<1>1. KeptInv => SettingsKept
  BY DEF KeptInv, StatusKept, KeysKept, SettingsKept
<1>2. QED
  BY <1>1, TypeInvHolds, HealInit, HealStep, KeptInit, KeptStep, PTL DEF Spec

-----------------------------------------------------------------------------
(* A terminal works with the stored keys. *)

\* A provider has its key in one of its own variables.
Own(map) == \A q \in Providers : map[q] = NoCredential \/ map[q].var \in Allowed[q]
InUse(p, k) ==
    k = NoCredential \/ Inherited[p][k.var] # NoKey \/ k.var \in session[p].held \/ env[p][k.var] = k.key

\* What a terminal lacks while it is behind: the next command puts it there.
InUseOrNone(p, k) == InUse(p, k) \/ env[p][k.var] = NoKey

AtTheKeys == {"creds_read", "creds_open", "creds_fill", "reapply"}

KeysAgree(p) ==
    /\ session[p].view = "fresh" => env[p] = Inherited[p]
    /\ pc[p] \in AtTheKeys => session[p].view # "fresh"
    /\ pc[p] \in {"creds_open", "creds_fill"} /\ cmd[p].op = "set_key" =>
           cmd[p].var \in Allowed[cmd[p].provider]
    /\ session[p].view # "fresh" =>
           /\ \A q \in Providers : InUseOrNone(p, Stored[q])
           /\ pc[p] \in {"creds_open", "creds_fill"} => \A q \in Providers : InUseOrNone(p, credsCopy[p][q])
    /\ session[p].view = "synced" =>
           /\ \A q \in Providers : InUse(p, Stored[q])
           /\ pc[p] \in {"creds_open", "creds_fill"} => \A q \in Providers : InUse(p, credsCopy[p][q])

KeysInv ==
    /\ Own(creds.map)
    /\ \A p \in Procs : Own(credsCopy[p]) /\ KeysAgree(p)

LEMMA KeysInit == Init => KeysInv
  BY DEF Init, KeysInv, KeysAgree, Own, NoKeys, AtTheKeys, NewSession

LEMMA OwnStored == KeysInv => Own(Stored)
  BY DEF KeysInv, Own, Stored, NoKeys

LEMMA AppliedKeys ==
    ASSUME NEW e \in [Vars -> Keys \cup {NoKey}], NEW map \in [Providers -> Credentials], Own(map),
           NEW q \in Providers, map[q] # NoCredential
    PROVE  /\ map[q].var \in Vars
           /\ Applied(e, map)[map[q].var] = IF e[map[q].var] = NoKey THEN map[q].key ELSE e[map[q].var]
<1> DEFINE v == map[q].var
           r == CHOOSE s \in Providers : map[s].var = v
<1>1. v \in Vars
  BY KeyOfCredential
<1>2. r \in Providers /\ map[r].var = v
  OBVIOUS
<1>3. map[r] # NoCredential
  BY <1>1, <1>2, RuntimeAssumption
<1>4. r = q
  BY <1>2, <1>3, RuntimeAssumption DEF Own
<1> QED
  BY <1>1, <1>4 DEF Applied

\* A terminal whose session, place, command and environment stay agrees with files that stay.
LEMMA SameKeys ==
    ASSUME NEW p, KeysAgree(p), Stored' = Stored, credsCopy'[p] = credsCopy[p], env'[p] = env[p],
           session'[p] = session[p],
           pc'[p] \notin AtTheKeys \/ (pc'[p] = pc[p] /\ cmd'[p] = cmd[p])
    PROVE  KeysAgree(p)'
  BY DEF KeysAgree, InUse, InUseOrNone, AtTheKeys

\* One that another terminal's change leaves behind, too: where it has a key, it is excused.
LEMMA OldView ==
    ASSUME TypeInv, KeysInv, NEW p, NEW r \in Procs \ {p}, Own(creds.map)',
           credsCopy' = credsCopy, env'[r] = env[r], env[r] \in [Vars -> Keys \cup {NoKey}],
           session'[r] = SessionAfter(p, r), pc'[r] = pc[r], cmd'[r] = cmd[r]
    PROVE  KeysAgree(r)'
<1>1. KeysAgree(r) /\ Own(credsCopy[r])
  BY DEF KeysInv
<1>2. CASE session[r].view = "fresh"
  BY <1>1, <1>2 DEF KeysAgree, SessionAfter, AtTheKeys
<1>3. CASE session[r].view # "fresh"
  <2>1. session'[r].view = "stale" /\ session'[r].held = {v \in Vars : env[r][v] # NoKey}
    BY <1>3 DEF SessionAfter
  <2>2. \A k : k = NoCredential \/ k.var \in Vars => InUseOrNone(r, k)'
    BY <2>1 DEF InUseOrNone, InUse
  <2>3. \A q \in Providers : credsCopy[r][q] = NoCredential \/ credsCopy[r][q].var \in Vars
    BY <1>1, RuntimeAssumption DEF Own
  <2>4. \A q \in Providers : Stored'[q] = NoCredential \/ Stored'[q].var \in Vars
    BY RuntimeAssumption DEF Own, Stored, NoKeys
  <2>5. \A q \in Providers : InUseOrNone(r, Stored[q])'
    BY <2>2, <2>4
  <2>6. \A q \in Providers : InUseOrNone(r, credsCopy[r][q])'
    BY <2>2, <2>3
  <2> QED
    BY <1>1, <1>3, <2>1, <2>5, <2>6 DEF KeysAgree
<1> QED
  BY <1>2, <1>3

LEMMA QuietKeys ==
    ASSUME TypeInv, KeysInv, NEW p \in Procs,
           UNCHANGED <<creds, env, session, credsCopy>>,
           NEW place \in Places \ AtTheKeys, Goto(p, place),
           \A r \in Procs \ {p} : cmd'[r] = cmd[r]
    PROVE  KeysInv'
<1>1. Stored' = Stored
  BY DEF Stored
<1>2. \A r \in Procs : pc'[r] \notin AtTheKeys \/ (pc'[r] = pc[r] /\ cmd'[r] = cmd[r])
  BY DEF Goto, TypeInv, TypeOK
<1> QED
  BY <1>1, <1>2, SameKeys DEF KeysInv

LEMMA LeftKeys ==
    ASSUME TypeInv, KeysInv, NEW p \in Procs, Leave(p), UNCHANGED <<creds, credsCopy>>,
           pc'[p] = "idle", \A r \in Procs \ {p} : pc'[r] = pc[r] /\ cmd'[r] = cmd[r]
    PROVE  KeysInv'
<1>1. Stored' = Stored
  BY DEF Stored
<1>2. /\ env'[p] = Inherited[p] /\ session'[p] = NewSession
      /\ \A r \in Procs \ {p} : env'[r] = env[r] /\ session'[r] = session[r]
  BY DEF Leave, TypeInv, TypeOK
<1>3. KeysAgree(p)'
  BY <1>2 DEF KeysAgree, AtTheKeys, NewSession
<1>4. \A r \in Procs \ {p} : KeysAgree(r)'
  BY <1>1, <1>2, SameKeys DEF KeysInv
<1> QED
  BY <1>3, <1>4 DEF KeysInv

\* An environment that agrees with a synced session after the provider's own key went in:
\* what another provider has is in another variable.
LEMMA OtherProvidersKey ==
    ASSUME NEW map \in [Providers -> Credentials], Own(map), NEW q \in Providers, NEW r \in Providers,
           q # r, map[q] # NoCredential
    PROVE  map[q].var \in Vars /\ map[q].var \notin Allowed[r] /\ map[q].key # NoKey
<1>1. map[q].var \in Allowed[q]
  BY DEF Own
<1>2. map[q].var \in Vars /\ map[q].key \in Keys
  BY DEF Credentials, NoCredential
<1> QED
  BY <1>1, <1>2, RuntimeAssumption

LEMMA KeysApply ==
    ASSUME TypeInv, KeysInv, NEW p \in Procs, Apply(p)
    PROVE  KeysInv'
<1>1. /\ UNCHANGED <<creds, credsCopy>> /\ Stored' = Stored
      /\ \A r \in Procs \ {p} : env'[r] = env[r] /\ session'[r] = session[r] /\ pc'[r] = pc[r] /\ cmd'[r] = cmd[r]
  BY DEF Apply, files, Stored, Done, Goto, TypeInv, TypeOK
<1>2. /\ env'[p] = Applied(env[p], Stored)
      /\ session'[p].view = "synced" /\ session'[p].held = session[p].held
      /\ pc'[p] \in {"idle", "ensure", "creds_read"}
  BY DEF Apply, Done, Goto, TypeInv, TypeOK
<1>3. Stored \in [Providers -> Credentials] /\ Own(Stored) /\ env[p] \in [Vars -> Keys \cup {NoKey}]
  BY StoredType, OwnStored DEF TypeInv, TypeOK
<1>4. ASSUME NEW q \in Providers PROVE InUse(p, Stored[q])'
  <2>1. CASE Stored[q] = NoCredential
    BY <1>1, <2>1 DEF InUse
  <2>2. CASE Stored[q] # NoCredential
    <3>1. env'[p][Stored[q].var] =
              IF env[p][Stored[q].var] = NoKey THEN Stored[q].key ELSE env[p][Stored[q].var]
      BY <1>2, <1>3, <2>2, AppliedKeys
    <3>2. CASE session[p].view = "fresh"
      BY <1>1, <3>1, <3>2 DEF KeysInv, KeysAgree, InUse
    <3>3. CASE session[p].view # "fresh"
      <4>1. InUseOrNone(p, Stored[q])
        BY <3>3 DEF KeysInv, KeysAgree
      <4>2. QED
        BY <1>1, <1>2, <2>2, <3>1, <4>1 DEF InUse, InUseOrNone
    <3>4. QED
      BY <3>2, <3>3
  <2>3. QED
    BY <2>1, <2>2
<1>5. KeysAgree(p)'
  <2>1. session'[p].view # "fresh"
    BY <1>2
  <2>2. \A q \in Providers : InUse(p, Stored[q])' /\ InUseOrNone(p, Stored[q])'
    BY <1>4 DEF InUseOrNone
  <2>3. pc'[p] \notin {"creds_open", "creds_fill"}
    BY <1>2
  <2>4. QED
    BY <2>1, <2>2, <2>3 DEF KeysAgree
<1>6. \A r \in Procs \ {p} : KeysAgree(r)'
  BY <1>1, SameKeys DEF KeysInv
<1> QED
  BY <1>1, <1>5, <1>6 DEF KeysInv

LEMMA KeysRead ==
    ASSUME TypeInv, KeysInv, NEW p \in Procs, ReadCredentials(p)
    PROVE  KeysInv'
<1>1. /\ UNCHANGED <<creds, env, session>> /\ Stored' = Stored
      /\ \A r \in Procs \ {p} : credsCopy'[r] = credsCopy[r] /\ pc'[r] = pc[r] /\ cmd'[r] = cmd[r]
  BY DEF ReadCredentials, files, history, Stored, Done, Goto, TypeInv, TypeOK
<1>2. \A r \in Procs \ {p} : KeysAgree(r)' /\ Own(credsCopy[r])'
  BY <1>1, SameKeys DEF KeysInv, Own
<1>3. CASE Done(p) /\ UNCHANGED credsCopy
  <2>1. pc'[p] = "idle"
    BY <1>3 DEF Done, Goto, TypeInv, TypeOK
  <2>2. KeysAgree(p)'
    BY <1>1, <1>3, <2>1, SameKeys DEF KeysInv, AtTheKeys
  <2>3. QED
    BY <1>1, <1>2, <1>3, <2>2 DEF KeysInv, Own
<1>4. CASE /\ ~(cmd[p].op = "set_key" /\ (cmd[p].var \notin Allowed[cmd[p].provider] \/ cmd[p].key = NoKey))
           /\ credsCopy' = [credsCopy EXCEPT ![p] = Stored]
           /\ Goto(p, "creds_open") /\ UNCHANGED cmd
  <2>1. pc'[p] = "creds_open" /\ credsCopy'[p] = Stored /\ pc[p] = "creds_read"
    BY <1>4 DEF ReadCredentials, Goto, TypeInv, TypeOK
  <2>2. KeysAgree(p)
    BY DEF KeysInv
  <2>3. KeysAgree(p)'
    BY <1>1, <1>4, <2>1, <2>2 DEF KeysAgree, InUse, InUseOrNone, AtTheKeys
  <2>4. Own(credsCopy[p])'
    BY <2>1, OwnStored DEF Own
  <2>5. Own(creds.map)'
    BY <1>1 DEF KeysInv
  <2>6. QED
    BY <1>2, <2>3, <2>4, <2>5 DEF KeysInv
<1> QED
  BY <1>3, <1>4 DEF ReadCredentials

LEMMA KeysOpen ==
    ASSUME TypeInv, KeysInv, NEW p \in Procs, OpenCredentials(p)
    PROVE  KeysInv'
<1>1. /\ UNCHANGED <<cmd, env, session, credsCopy>> /\ pc[p] = "creds_open" /\ pc'[p] = "creds_fill"
      /\ \A r \in Procs \ {p} : pc'[r] = pc[r]
  BY DEF OpenCredentials, history, Goto, TypeInv, TypeOK
<1>2. creds'.form = "torn" /\ creds'.map = creds.map
  BY DEF OpenCredentials, Torn, TypeInv, TypeOK
<1>3. \A q \in Providers : Stored'[q] = NoCredential
  BY <1>2 DEF Stored, NoKeys
<1>4. ASSUME NEW r \in Procs PROVE KeysAgree(r)'
  <2>1. KeysAgree(r)
    BY DEF KeysInv
  <2>2. \A q \in Providers : InUse(r, Stored[q])' /\ InUseOrNone(r, Stored[q])'
    BY <1>3 DEF InUse, InUseOrNone
  <2>3. \A q \in Providers : /\ InUse(r, credsCopy[r][q])' = InUse(r, credsCopy[r][q])
                             /\ InUseOrNone(r, credsCopy[r][q])' = InUseOrNone(r, credsCopy[r][q])
    BY <1>1 DEF InUse, InUseOrNone
  <2>4. \/ pc'[r] = pc[r]
        \/ pc[r] = "creds_open" /\ pc'[r] = "creds_fill"
    BY <1>1
  <2>5. QED
    BY <1>1, <2>1, <2>2, <2>3, <2>4 DEF KeysAgree, AtTheKeys
<1> QED
  BY <1>1, <1>2, <1>4 DEF KeysInv

LEMMA KeysFill ==
    ASSUME TypeInv, KeysInv, NEW p \in Procs, FillCredentials(p)
    PROVE  KeysInv'
<1> DEFINE c == cmd[p]
           old == credsCopy[p]
           new == WithKey(old, c.provider, NewCredential(c))
<1>types. /\ creds \in [form : Forms, map : [Providers -> Credentials]]
          /\ old \in [Providers -> Credentials] /\ c \in Commands \cup {NoCommand}
          /\ env[p] \in [Vars -> Keys \cup {NoKey}]
  BY DEF TypeInv, TypeOK
<1>1. pc[p] = "creds_fill" /\ c.op \in {"set_key", "clear_key"} /\ Own(old) /\ KeysAgree(p)
  BY DEF FillCredentials, TypeInv, ControlOK, KeysInv
<1>2. c.op = "set_key" => /\ c.provider \in Providers /\ c.var \in Vars
                          /\ c.var \in Allowed[c.provider]
  BY <1>types, <1>1, SetKeyFields DEF KeysAgree
<1>3. c.provider \in Providers
  BY <1>types, <1>1, <1>2, ClearKeyFields
<1>4. /\ new[c.provider] = NewCredential(c)
      /\ \A q \in Providers \ {c.provider} : new[q] = old[q]
  BY <1>types, <1>3 DEF WithKey
<1>5. creds' \in Filled(creds, new)
  BY DEF FillCredentials
<1>6. /\ credsCopy' = credsCopy
      /\ env'[p] = EnvAfter(env[p], old[c.provider], c)
      /\ \A r \in Procs \ {p} : env'[r] = env[r] /\ pc'[r] = pc[r] /\ cmd'[r] = cmd[r]
      /\ pc'[p] \in {"reapply", "idle"}
  BY DEF FillCredentials, Done, Goto, TypeInv, TypeOK
<1>7. /\ session'[p].view = session[p].view
      /\ session'[p].held = IF c.op = "set_key" THEN session[p].held \ {c.var} ELSE session[p].held
      /\ \A r \in Procs \ {p} : session'[r] = SessionAfter(p, r)
  BY DEF FillCredentials, SessionAfter, TypeInv, TypeOK
<1>8. Own(new)
  BY <1>1, <1>2, <1>3, <1>4 DEF Own, NewCredential
<1>9. Own(creds'.map)
  BY <1>5, <1>8, <1>types DEF KeysInv, Filled, Torn
<1>10. ASSUME NEW q \in Providers, new[q] # NoCredential
       PROVE  \/ env'[p][new[q].var] = new[q].key
              \/ /\ new[q] = old[q]
                 /\ env'[p][new[q].var] = env[p][new[q].var]
                 /\ new[q].var \in session[p].held => new[q].var \in session'[p].held
  <2>1. CASE q = c.provider
    <3>1. CASE c.op = "set_key"
      <4>1. new[q] = [var |-> c.var, key |-> c.key]
        BY <1>4, <2>1, <3>1 DEF NewCredential
      <4>2. env'[p][c.var] = c.key
        BY <1>2, <1>6, <3>1 DEF EnvAfter
      <4>3. QED
        BY <4>1, <4>2
    <3>2. CASE c.op = "clear_key"
      BY <1>4, <1>10, <2>1, <3>2 DEF NewCredential
    <3>3. QED
      BY <1>1, <3>1, <3>2
  <2>2. CASE q # c.provider /\ old[q] # NoCredential
    <3>1. new[q] = old[q]
      BY <1>4, <2>2
    <3>2. old[q].var \in Vars /\ old[q].var \notin Allowed[c.provider]
      BY <1>types, <1>1, <1>3, <2>2, OtherProvidersKey
    <3>4. ~(c.op = "set_key" /\ old[q].var = c.var)
      BY <1>2, <3>2
    <3>5. old[c.provider] # [var |-> old[q].var, key |-> env[p][old[q].var]]
      <4>1. SUFFICES ASSUME old[c.provider] = [var |-> old[q].var, key |-> env[p][old[q].var]] PROVE FALSE
        OBVIOUS
      <4>2. old[c.provider].var = old[q].var
        BY <4>1
      <4>3. old[c.provider] # NoCredential
        BY <3>2, <4>2, RuntimeAssumption
      <4>4. old[c.provider].var \in Allowed[c.provider]
        BY <1>1, <1>3, <4>3 DEF Own
      <4>5. QED
        BY <3>2, <4>2, <4>4
    <3>6. env'[p][old[q].var] = env[p][old[q].var]
      BY <1>6, <3>2, <3>4, <3>5 DEF EnvAfter
    <3>7. old[q].var \in session[p].held => old[q].var \in session'[p].held
      BY <1>7, <3>4
    <3>8. QED
      BY <3>1, <3>6, <3>7
  <2>3. CASE q # c.provider /\ old[q] = NoCredential
    BY <1>4, <1>10, <2>3
  <2>4. QED
    BY <2>1, <2>2, <2>3
<1>11. KeysAgree(p)'
  <2>1. session[p].view # "fresh" /\ \A q \in Providers : InUseOrNone(p, old[q])
    BY <1>1 DEF KeysAgree, AtTheKeys
  <2>2. session[p].view = "synced" => \A q \in Providers : InUse(p, old[q])
    BY <1>1 DEF KeysAgree
  <2>3. ASSUME NEW q \in Providers
        PROVE  InUseOrNone(p, Stored[q])' /\ (session[p].view = "synced" => InUse(p, Stored[q])')
    <3>1. CASE Stored'[q] = NoCredential
      BY <3>1 DEF InUseOrNone, InUse
    <3>2. CASE Stored'[q] # NoCredential
      <4>1. creds'.form = "torn" => Stored'[q] = NoCredential
        BY DEF Stored, NoKeys
      <4>2. creds' # Torn(creds)
        BY <1>types, <3>2, <4>1 DEF Torn
      <4>3. creds' = [form |-> "json", map |-> new]
        BY <1>5, <4>2 DEF Filled
      <4>4. Stored' = new
        BY <4>3 DEF Stored
      <4>5. new[q] # NoCredential
        BY <3>2, <4>4
      <4> HIDE DEF new, old
      <4>6. CASE env'[p][new[q].var] = new[q].key
        BY <4>4, <4>6 DEF InUseOrNone, InUse
      <4>7. CASE /\ new[q] = old[q]
                 /\ env'[p][new[q].var] = env[p][new[q].var]
                 /\ new[q].var \in session[p].held => new[q].var \in session'[p].held
        BY <2>1, <2>2, <4>4, <4>7 DEF InUseOrNone, InUse
      <4> QED
        BY <1>10, <4>5, <4>6, <4>7
    <3> QED
      BY <3>1, <3>2
  <2> QED
    BY <1>6, <1>7, <2>1, <2>3 DEF KeysAgree
<1>12. ASSUME NEW r \in Procs \ {p} PROVE KeysAgree(r)'
  <2>1. env[r] \in [Vars -> Keys \cup {NoKey}]
    BY DEF TypeInv, TypeOK
  <2> QED
    BY <1>6, <1>7, <1>9, <2>1, OldView
<1> HIDE DEF c, old, new
<1> QED
  BY <1>6, <1>9, <1>11, <1>12 DEF KeysInv, Own

LEMMA KeysReapply ==
    ASSUME TypeInv, KeysInv, NEW p \in Procs, Reapply(p)
    PROVE  KeysInv'
<1> DEFINE own == cmd[p].provider
           k == Stored[own]
<1>1. /\ UNCHANGED <<creds, credsCopy, session>> /\ Stored' = Stored /\ pc[p] = "reapply" /\ pc'[p] = "idle"
      /\ \A r \in Procs \ {p} : env'[r] = env[r] /\ pc'[r] = pc[r] /\ cmd'[r] = cmd[r]
  BY DEF Reapply, files, history, Stored, Done, Goto, TypeInv, TypeOK
<1>2. own \in Providers
  <2>1. cmd[p].op \in {"set_key", "clear_key"} /\ cmd[p] \in Commands \cup {NoCommand}
    BY <1>1 DEF TypeInv, TypeOK, ControlOK
  <2>2. QED
    BY <2>1, SetKeyFields, ClearKeyFields
<1>3. Stored \in [Providers -> Credentials] /\ Own(Stored) /\ env \in [Procs -> [Vars -> Keys \cup {NoKey}]]
  BY StoredType, OwnStored DEF TypeInv, TypeOK
<1>4. KeysAgree(p)
  BY DEF KeysInv
<1>5. CASE k = NoCredential
  <2>1. env' = env
    BY <1>5 DEF Reapply
  <2>2. KeysAgree(p)'
    BY <1>1, <1>4, <2>1, SameKeys DEF AtTheKeys
  <2>3. QED
    BY <1>1, <2>1, <2>2, SameKeys DEF KeysInv
<1>6. CASE k # NoCredential
  <2>1. k.var \in Vars /\ k.var \in Allowed[own]
    <3>1. k.var \in Vars
      BY <1>2, <1>3, <1>6, KeyOfCredential
    <3>2. QED
      BY <1>2, <1>3, <1>6, <3>1 DEF Own
  <2>2. env'[p] = [env[p] EXCEPT ![k.var] = k.key]
    BY <1>3, <1>6 DEF Reapply
  <2>3. ASSUME NEW q \in Providers
        PROVE  InUseOrNone(p, Stored[q])' /\ (session[p].view = "synced" => InUse(p, Stored[q])')
    <3>1. CASE q = own
      <4>1. env'[p][k.var] = k.key
        BY <1>3, <2>1, <2>2
      <4>2. QED
        BY <1>1, <3>1, <4>1 DEF InUse, InUseOrNone
    <3>2. CASE q # own /\ Stored[q] # NoCredential
      <4>1. Stored[q].var \in Vars /\ Stored[q].var \notin Allowed[own]
        BY <1>2, <1>3, <3>2, OtherProvidersKey
      <4>2. env'[p][Stored[q].var] = env[p][Stored[q].var]
        BY <1>3, <2>1, <2>2, <4>1
      <4>3. InUseOrNone(p, Stored[q]) /\ (session[p].view = "synced" => InUse(p, Stored[q]))
        BY <1>1, <1>4 DEF KeysAgree, AtTheKeys
      <4>4. QED
        BY <1>1, <4>2, <4>3 DEF InUse, InUseOrNone
    <3>3. CASE Stored[q] = NoCredential
      BY <1>1, <3>3 DEF InUse, InUseOrNone
    <3>4. QED
      BY <3>1, <3>2, <3>3
  <2>4. session[p].view # "fresh"
    BY <1>1, <1>4 DEF KeysAgree, AtTheKeys
  <2>5. KeysAgree(p)'
    BY <1>1, <2>3, <2>4 DEF KeysAgree
  <2>6. \A r \in Procs \ {p} : KeysAgree(r)'
    BY <1>1, SameKeys DEF KeysInv
  <2>7. QED
    BY <1>1, <2>5, <2>6 DEF KeysInv
<1> QED
  BY <1>5, <1>6

LEMMA KeysStep == TypeInv /\ KeysInv /\ [Next]_vars => KeysInv'
<1> SUFFICES ASSUME TypeInv, KeysInv, [Next]_vars PROVE KeysInv'
  OBVIOUS
<1>types. cmd \in [Procs -> Commands \cup {NoCommand}] /\ pc \in [Procs -> Places]
  BY DEF TypeInv, TypeOK
<1>1. ASSUME NEW p \in Procs,
             \/ \E c \in Typed : Start(p, c)
             \/ ReadInfo(p) \/ BackUp(p) \/ OpenInfo(p) \/ FillInfo(p)
             \/ Ensure(p) \/ OpenStatus(p) \/ FillEnsured(p) \/ ReadStatus(p) \/ FillStatus(p)
      PROVE  KeysInv'
  <2>1. UNCHANGED <<creds, env, session, credsCopy>>
    BY <1>1 DEF Start, ReadInfo, BackUp, OpenInfo, FillInfo, Ensure, OpenStatus, FillEnsured,
                ReadStatus, FillStatus, files, history
  <2>2. \E place \in Places \ AtTheKeys : Goto(p, place)
    BY <1>1 DEF Start, ReadInfo, BackUp, OpenInfo, FillInfo, Ensure, OpenStatus, FillEnsured,
                ReadStatus, FillStatus, Done, AfterMigration, AfterEnsure, Places, AtTheKeys
  <2>3. \A r \in Procs \ {p} : cmd'[r] = cmd[r]
    BY <1>1, <1>types DEF Start, ReadInfo, BackUp, OpenInfo, FillInfo, Ensure, OpenStatus, FillEnsured,
                ReadStatus, FillStatus, Done
  <2>4. QED
    BY <2>1, <2>2, <2>3, QuietKeys
<1>2. ASSUME NEW p \in Procs, Exit(p) \/ Kill(p) PROVE KeysInv'
  <2>1. Leave(p) /\ UNCHANGED <<creds, credsCopy>>
    BY <1>2 DEF Exit, Kill, files, locals
  <2>2. pc'[p] = "idle" /\ \A r \in Procs \ {p} : pc'[r] = pc[r] /\ cmd'[r] = cmd[r]
    BY <1>2, <1>types DEF Exit, Kill, locals, Done, Goto
  <2>3. QED
    BY <2>1, <2>2, LeftKeys
<1>3. CASE UNCHANGED vars
  <2>1. Stored' = Stored
    BY <1>3 DEF vars, Stored
  <2>2. QED
    BY <1>3, <2>1, SameKeys DEF vars, KeysInv
<1>4. QED
  BY <1>1, <1>2, <1>3, KeysApply, KeysRead, KeysOpen, KeysFill, KeysReapply DEF Next

(* applyProviderCredentialEnv, setProviderApiKey and clearProviderApiKey, by any number
   of terminals that interleave and die: a terminal that has applied the stored keys since
   it was opened, and since another one last rewrote them, works with the key the file has
   for each provider, unless it was started with a key in that variable or had one there
   when another terminal rewrote them: that one is never overwritten. *)
THEOREM StoredKeysInUse == Spec => []StoredKeyInUse
<1>1. KeysInv => StoredKeyInUse
  BY DEF KeysInv, KeysAgree, InUse, StoredKeyInUse
<1>2. QED
  BY <1>1, TypeInvHolds, KeysInit, KeysStep, PTL DEF Spec
=============================================================================
