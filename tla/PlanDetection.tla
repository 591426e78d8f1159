---------------------------- MODULE PlanDetection ----------------------------
(***************************************************************************)
(* The plan the dashboard shows for a provider, found in the files its CLI *)
(* leaves on this machine.  Every tick asks for it and waits for no other  *)
(* tick; an answer is remembered for a minute, counted from the moment it  *)
(* was asked for.                                                          *)
(***************************************************************************)
EXTENDS Naturals, FiniteSets

CONSTANTS
    Detected,           \* providers whose row is followed
    RawPlans, WordsIn,  \* names of plans, the tier words in each
    Ticks,              \* ticks that can be under way at once
    Ttl,                \* CACHE_TTL_MS
    MaxClock, MaxLoginChanges \* bounds

Blank == "no name"      \* a field that is absent or empty
Names == RawPlans \cup {Blank}

ASSUME PlanAssumption ==
    /\ Blank \notin RawPlans /\ Ttl \in Nat \ {0} /\ MaxClock \in Nat
    /\ WordsIn \in [RawPlans -> SUBSET {"Max", "Team", "Pro", "Plus", "Free"}]

\* The most specific word wins; a name without one is shown as it is.
Normalized(raw) ==
    IF raw = Blank THEN "?"
    ELSE LET Has(word) == word \in WordsIn[raw] IN
         IF Has("Max") THEN "Max" ELSE IF Has("Team") THEN "Team" ELSE IF Has("Pro") THEN "Pro"
         ELSE IF Has("Plus") THEN "Plus" ELSE IF Has("Free") THEN "Free" ELSE raw

Plan(active, plan) == [active |-> active, plan |-> plan]
Inactive == Plan(FALSE, "none")

(***************************************************************************)
(* What a login leaves behind, by provider, and what is read from it.  A   *)
(* file that cannot be read or parsed is absent.                           *)
(***************************************************************************)
Blobs == {"absent"} \cup Names     \* credentials, with or without a plan
Logins(p) ==
    CASE p = "claude" -> [keychain : Blobs, file : Blobs, token : BOOLEAN, projects : BOOLEAN]
      [] p = "codex"  -> [file : BOOLEAN, access : {"none"} \cup Names, id : {"none"} \cup Names]
      [] p = "gemini" -> [oauth : BOOLEAN, mode : {"unset", "oauth-personal", "vertex-ai"}]
      [] p = "cline"  -> [auth : BOOLEAN, model : Names]
      [] p = "kilo"   -> [auth : BOOLEAN]
      [] p = "opencode" -> [file : {"absent", "empty", "others", "own"}]
      [] p = "zai"    -> [files : SUBSET {".zai", ".glm"}]

Claude(a) ==
    IF a.keychain \in RawPlans THEN Plan(TRUE, Normalized(a.keychain))
    ELSE IF a.file \in RawPlans THEN Plan(TRUE, Normalized(a.file))
    ELSE IF a.token \/ a.projects \/ a.file # "absent" THEN Plan(TRUE, "?") ELSE Inactive

\* The access token's claims, or the id token's if there is no other.
Codex(a) ==
    IF ~a.file \/ (a.access = "none" /\ a.id = "none") THEN Inactive
    ELSE Plan(TRUE, Normalized(IF a.access # "none" THEN a.access ELSE a.id))

Gemini(a) ==
    IF ~a.oauth THEN Inactive
    ELSE Plan(TRUE, IF a.mode = "vertex-ai" THEN "?" ELSE "Pro")

Cline(a) ==
    IF ~a.auth THEN Inactive
    ELSE Plan(TRUE, IF a.model = Blank THEN "Free" ELSE Normalized(a.model))

Kilo(a)     == IF a.auth THEN Plan(TRUE, "Free") ELSE Inactive
\* Anything in the file is a login, another provider's too.
Opencode(a) == IF a.file \in {"others", "own"} THEN Plan(TRUE, "Free") ELSE Inactive
Zai(a)      == IF a.files # {} THEN Plan(TRUE, "?") ELSE Inactive

Found(p, a) ==
    CASE p = "claude" -> Claude(a) [] p = "codex" -> Codex(a) [] p = "gemini" -> Gemini(a)
      [] p = "cline" -> Cline(a) [] p = "kilo" -> Kilo(a) [] p = "opencode" -> Opencode(a)
      [] p = "zai" -> Zai(a)

(***************************************************************************)
(* The ticks.                                                              *)
(***************************************************************************)
VARIABLES
    provider, login,    \* the row followed, what its CLI has left by now
    clock, loginChanges,
    known,              \* the remembered answer, and when it expires
    ticks,              \* each tick: its place, what it read, when
    answered,           \* the last answer a tick was given
    age                 \* history: how old the last remembered one was when given

planVars == <<provider, login, clock, loginChanges, known, ticks, answered, age>>

NoPlan == [value |-> Inactive, readAt |-> 0, expiresAt |-> 0]
NoTick == [at |-> "idle", asked |-> 0, keychain |-> "absent", value |-> Inactive, readAt |-> 0]

PlanInit ==
    /\ provider \in Detected /\ login \in Logins(provider)
    /\ clock = 1 /\ loginChanges = 0
    /\ known = NoPlan
    /\ ticks = [t \in Ticks |-> NoTick]
    /\ answered = Inactive /\ age = 0

PlanClock ==
    /\ clock < MaxClock /\ clock' = clock + 1
    /\ UNCHANGED <<provider, login, loginChanges, known, ticks, answered, age>>

\* The CLI logs in or out, or changes its plan.
LoginChanges ==
    /\ loginChanges < MaxLoginChanges /\ loginChanges' = loginChanges + 1
    /\ login' \in Logins(provider) \ {login}
    /\ UNCHANGED <<provider, clock, known, ticks, answered, age>>

\* A tick asks: what is known and has not expired is the answer.
AskPlan(t) ==
    /\ ticks[t].at = "idle"
    /\ IF known.expiresAt > clock
       THEN answered' = known.value /\ age' = clock - known.readAt /\ UNCHANGED ticks
       ELSE /\ ticks' = [ticks EXCEPT ![t] = [NoTick EXCEPT !.at = "read", !.asked = clock]]
            /\ UNCHANGED <<answered, age>>
    /\ UNCHANGED <<provider, login, clock, loginChanges, known>>

\* The keychain is asked before the files are read.
ReadKeychain(t) ==
    /\ ticks[t].at = "read" /\ provider = "claude"
    /\ ticks' = [ticks EXCEPT ![t].at = "files", ![t].keychain = login.keychain, ![t].readAt = clock]
    /\ UNCHANGED <<provider, login, clock, loginChanges, known, answered, age>>

ReadLogin(t) ==
    /\ \/ /\ ticks[t].at = "files"
          /\ ticks' = [ticks EXCEPT ![t].at = "answer",
                ![t].value = Claude([login EXCEPT !.keychain = ticks[t].keychain])]
       \/ /\ ticks[t].at = "read" /\ provider # "claude"
          /\ ticks' = [ticks EXCEPT ![t].at = "answer", ![t].value = Found(provider, login),
                                   ![t].readAt = clock]
    /\ UNCHANGED <<provider, login, clock, loginChanges, known, answered, age>>

\* Mutant of Expiry: the minute begins when the answer comes.
ExpiryFromAnswer(t) == clock + Ttl
Expiry(t) == ticks[t].asked + Ttl

RememberPlan(t) ==
    /\ ticks[t].at = "answer"
    /\ known' = [value |-> ticks[t].value, readAt |-> ticks[t].readAt, expiresAt |-> Expiry(t)]
    /\ answered' = ticks[t].value
    /\ ticks' = [ticks EXCEPT ![t] = NoTick]
    /\ UNCHANGED <<provider, login, clock, loginChanges, age>>

PlanNext ==
    \/ PlanClock \/ LoginChanges
    \/ \E t \in Ticks : AskPlan(t) \/ ReadKeychain(t) \/ ReadLogin(t) \/ RememberPlan(t)

PlanSpec == PlanInit /\ [][PlanNext]_planVars

(***************************************************************************)
(* Properties.                                                             *)
(***************************************************************************)
(* dispatch.ts:4-7: whatever was still being looked up when, no remembered
   answer is given that is older than the time it may be remembered. *)
PlanIsRecent == age <= Ttl

=============================================================================
