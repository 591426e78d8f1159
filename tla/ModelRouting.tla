----------------------------- MODULE ModelRouting -----------------------------
(***************************************************************************)
(* The choice of provider and model for a run: the cached catalogs, which  *)
(* grow stale and are replaced by every refresh, and the broker, which     *)
(* looks at one candidate after another with an await at each, so that     *)
(* another terminal's override may fall between two of them, or be half    *)
(* written when it looks.                                                  *)
(***************************************************************************)
EXTENDS ModelCatalog, Sequences, Functions

CONSTANTS
    Installed,      \* the providers that may be other than unavailable
    Advertised,     \* what each may advertise: sequences of models
    Requests,       \* [risk, provider, model] of the runs; "any" if not given
    MaxChanges      \* bound: refreshes, overrides, expiries

ASSUME RoutingAssumption ==
    /\ "manual" \in Installed /\ Installed \subseteq AllProviders
    /\ Advertised \in [Installed -> SUBSET Seq(AdvertisedModels)]
    /\ \A r \in Requests : r.provider \in Installed \cup {"any"}
    /\ MaxChanges \in Nat

Availability == {"available", "limited", "unavailable", "unknown"}

VARIABLES
    catalog,    \* each provider's cache file
    expired,    \* providers whose catalog is past its day
    override,   \* provider-status.json: json, or torn while it is written
    setting,    \* another terminal's new override: place, what it writes
    probe,      \* what each adapter says of its provider
    request, models, left, scored, \* the broker's request, list, candidates, scores
    at,         \* its place in the look at a candidate
    route,      \* its answer
    excluded,   \* history: providers the file has had unavailable since the request
    fresh,      \* history: providers whose catalog was in date when listed
    changes

routingVars == <<catalog, expired, override, setting, probe, request, models, left, scored,
                 at, route, excluded, fresh, changes>>
caches   == <<catalog, expired, probe>>
broker   == <<request, models, left, scored, at, route, fresh>>

NoRequest == [risk |-> "none", provider |-> "any", model |-> "any"]
NoRoute   == [kind |-> "none", provider |-> "none", model |-> NoModel]
Answer(kind, p, m) == [kind |-> kind, provider |-> p, model |-> m]
NothingListed == [p \in Installed |-> <<>>]
ManualFallback == Answer("fallback", "manual", NoModel)
NoSetting == [at |-> "idle", map |-> <<>>]
Defaults  == [p \in Installed |-> IF p = "manual" THEN "available" ELSE "unknown"]

\* A CLI is there or not; a key says that its service is limited; manual's own
\* status is the override's.
Probed(p) ==
    IF p = "manual" THEN {"available"}
    ELSE {"unavailable", IF p \in DirectLaunch THEN "available" ELSE "limited"}

RoutingInit ==
    /\ catalog = [p \in Installed |-> NoCatalog]
    /\ expired = {}
    /\ override = [form |-> "json", map |-> Defaults] /\ setting = NoSetting
    /\ probe \in {f \in [Installed -> Availability] : \A p \in Installed : f[p] \in Probed(p)}
    /\ request = NoRequest /\ models = NothingListed /\ left = {} /\ scored = <<>>
    /\ at = "ensure" /\ route = NoRoute /\ excluded = {} /\ fresh = {} /\ changes = 0

Change == changes < MaxChanges /\ changes' = changes + 1

\* A refresh that fails leaves an empty catalog where a good one may have been.
Refresh(p) ==
    /\ Change
    /\ \/ \E a \in Advertised[p] : catalog' = [catalog EXCEPT ![p] = CatalogOf(p, a)]
       \/ catalog' = [catalog EXCEPT ![p] = FailedCatalog]
    /\ expired' = expired \ {p}
    /\ UNCHANGED <<override, setting, probe, excluded, broker>>

Expire(p) ==
    /\ Change
    /\ catalog[p] # NoCatalog /\ p \notin expired
    /\ expired' = expired \cup {p}
    /\ UNCHANGED <<catalog, override, setting, probe, excluded, broker>>

(***************************************************************************)
(* provider-status.json.  Whoever writes it empties it and then fills it,  *)
(* and what another wrote in between may stick out behind.  One that does  *)
(* not parse is started over by the next to look at it.                    *)
(***************************************************************************)
Torn == [override EXCEPT !.form = "torn"]
Filled(map) == {[form |-> "json", map |-> map]} \cup (IF override = Torn THEN {} ELSE {Torn})

Fill(map) ==
    /\ override' \in Filled(map)
    /\ excluded' = {p \in excluded : override'.map[p] = "unavailable"}

SetOverride(p, a) ==
    /\ Change
    /\ setting = NoSetting /\ override.form = "json" /\ override.map[p] # a
    /\ setting' = [at |-> "open", map |-> [override.map EXCEPT ![p] = a]]
    /\ UNCHANGED <<override, excluded, caches, broker>>

OpenOverride ==
    /\ setting.at = "open"
    /\ override' = Torn /\ setting' = [setting EXCEPT !.at = "fill"]
    /\ UNCHANGED <<excluded, changes, caches, broker>>

FillOverride ==
    /\ setting.at = "fill"
    /\ Fill(setting.map) /\ setting' = NoSetting
    /\ UNCHANGED <<changes, caches, broker>>

\* The terminal is killed.
SettingDies ==
    /\ setting # NoSetting /\ setting' = NoSetting
    /\ UNCHANGED <<override, excluded, changes, caches, broker>>

\* Any command of another terminal.
StartOver ==
    /\ Change
    /\ override.form = "torn" /\ Fill(Defaults)
    /\ UNCHANGED <<setting, caches, broker>>

\* listModels: every provider's entries as they are today.
Listed(p) ==
    [i \in DOMAIN catalog[p].entries |-> MarkStale(catalog[p].entries[i], p \in expired)]

\* Of those not installed none can win.
Candidates(r) ==
    IF r.provider # "any" THEN {r.provider} ELSE Range(FallbackProviders(r.risk)) \cap Installed

Ask(r) ==
    /\ left = {} /\ scored = <<>>
    /\ route' = NoRoute
    /\ request' = r /\ models' = [p \in Installed |-> Listed(p)] /\ left' = Candidates(r)
    /\ excluded' = {p \in Installed : override.map[p] = "unavailable"}
    /\ fresh' = Installed \ expired
    /\ UNCHANGED <<override, setting, scored, at, changes, caches>>

MayRoute(e) == e.eligible /\ ~e.approval
GoodAt(p)   == {i \in DOMAIN models[p] : MayRoute(models[p][i])}
FirstOf(S)  == {i \in S : \A j \in S : i <= j}

\* models.find: the provider's first entry that passed the gate unapproved.
ModelFor(p) ==
    IF GoodAt(p) = {} THEN {NoModel} ELSE {models[p][i] : i \in FirstOf(GoodAt(p))}

\* Where a candidate comes in the order of the fallbacks.
RankOf(p) == {i \in DOMAIN FallbackProviders(request.risk) : FallbackProviders(request.risk)[i] = p}
IsNext(p) == \A q \in left \ {p} : \A i \in RankOf(p), j \in RankOf(q) : i < j

\* A model asked for by name: what the candidates list under it.
MatchesAt(p) == {i \in DOMAIN models[p] : models[p][i].id = request.model /\ Shown(models[p][i])}
WithMatch == {p \in left : MatchesAt(p) # {}}
WithGood  == {p \in left : MatchesAt(p) \cap GoodAt(p) # {}}
\* The list has the providers in the order of DEFAULT_PROVIDERS.
ListedFirst(S) == {p \in S : \A q \in S : DefaultOrder[p] <= DefaultOrder[q]}

(***************************************************************************)
(* The look at a provider: ensureProviderStatus, and then the file.        *)
(***************************************************************************)
\* One nobody has heard of is passed on to a CLI that was asked for by name.
Uncached == WithMatch = {} /\ request.provider \in DirectLaunch

EnsureStatus ==
    /\ left # {} /\ at = "ensure"
    /\ request.model = "any" \/ Uncached \/ WithGood # {}
    /\ at' = IF override.form = "json" THEN "read" ELSE "open"
    /\ UNCHANGED <<override, setting, excluded, changes, caches, request, models, left, scored, route, fresh>>

OpenDefaults ==
    /\ at = "open"
    /\ override' = Torn /\ at' = "fill"
    /\ UNCHANGED <<setting, excluded, changes, caches, request, models, left, scored, route, fresh>>

FillDefaults ==
    /\ at = "fill"
    /\ Fill(Defaults) /\ at' = "read"
    /\ UNCHANGED <<setting, changes, caches, request, models, left, scored, route, fresh>>

\* Mutant of RouteAvailability: an installed CLI beats the override.
RouteAvailabilityProbed(p) == IF probe[p] = "available" THEN "available" ELSE override.map[p]

\* The override counts unless it is unknown; manual's own status is the file's.
RouteAvailability(p) ==
    IF override.map[p] # "unknown" THEN override.map[p]
    ELSE IF p = "manual" THEN "unknown" ELSE probe[p]

Looks == at = "read" /\ override.form = "json" /\ at' = "ensure"

ScoreCandidate(p) ==
    /\ p \in left /\ IsNext(p) /\ request.model = "any"
    /\ Looks
    /\ \E m \in ModelFor(p) :
          LET a == RouteAvailability(p) IN
          scored' = Append(scored, [provider |-> p, model |-> m, availability |-> a,
                                    score |-> Score(a, request.risk, m)])
    /\ left' = left \ {p}
    /\ UNCHANGED <<override, setting, excluded, changes, caches, request, models, route, fresh>>

(***************************************************************************)
(* The answer.                                                             *)
(***************************************************************************)
EndsRequest ==
    /\ left' = {} /\ scored' = <<>> /\ request' = NoRequest /\ models' = NothingListed
    /\ UNCHANGED <<override, setting, excluded, changes, caches, fresh>>

\* The file was emptied between the two: JSON.parse throws, and so does the run.
ReadThrows ==
    /\ at = "read" /\ override.form = "torn" /\ at' = "ensure"
    /\ route' = Answer("unreadable", "none", NoModel)
    /\ EndsRequest

\* The sort is stable: of equals, the first.
IsBest(i) ==
    /\ \A j \in DOMAIN scored : scored[j].score <= scored[i].score
    /\ \A j \in DOMAIN scored : j < i => scored[j].score < scored[i].score

AnswerWith(best) ==
    IF best.score < 0 THEN ManualFallback
    ELSE IF best.model = NoModel /\ best.provider # "manual"
    THEN Answer("missing_model", best.provider, NoModel)
    ELSE Answer("routed", best.provider, best.model)

ChooseBest ==
    /\ left = {} /\ scored # <<>>
    /\ \E i \in DOMAIN scored : IsBest(i) /\ route' = AnswerWith(scored[i])
    /\ UNCHANGED at /\ EndsRequest

RouteTo(p, m, kind) ==
    /\ Looks
    /\ route' = IF Score(RouteAvailability(p), request.risk, m) < 0 THEN ManualFallback
                ELSE Answer(kind, p, m)

RouteRequested ==
    /\ left # {} /\ request.model # "any"
    /\ \/ Uncached /\ RouteTo(request.provider, NoModel, "uncached")
       \/ /\ WithMatch = {} /\ ~Uncached /\ UNCHANGED at
          /\ route' = Answer("not_found", "none", NoModel)
       \/ /\ WithMatch # {} /\ WithGood = {} /\ UNCHANGED at
          /\ route' = Answer("not_eligible", "none", NoModel)
       \/ \E p \in ListedFirst(WithGood) : \E i \in FirstOf(MatchesAt(p) \cap GoodAt(p)) :
             RouteTo(p, models[p][i], "routed")
    /\ EndsRequest

RoutingNext ==
    \/ \E p \in Installed \ {"manual"} : Refresh(p) \/ Expire(p)
    \/ \E p \in Installed, a \in Availability : SetOverride(p, a)
    \/ OpenOverride \/ FillOverride \/ SettingDies \/ StartOver
    \/ \E r \in Requests : Ask(r)
    \/ EnsureStatus \/ OpenDefaults \/ FillDefaults
    \/ \E p \in Installed : ScoreCandidate(p)
    \/ ReadThrows \/ ChooseBest \/ RouteRequested

RoutingSpec == RoutingInit /\ [][RoutingNext]_routingVars

(***************************************************************************)
(* Properties.                                                             *)
(***************************************************************************)
(* plan.md:1154: a cached model a run is given passed the gate, needs nobody's
   approval, and if it is paid its price was in date when the models were
   listed, whatever was refreshed or expired before. *)
RoutedModelIsAllowed ==
    route.kind = "routed" /\ route.model # NoModel =>
        /\ MayRoute(route.model) /\ route.model.cost # "unknown"
        /\ route.model.cost = "paid_api" => route.provider \in fresh

(* A provider that the status file has unavailable from the request to the answer
   does not get the run, unless everything failed and it goes to manual.  If the
   file is found in the middle of a write and started over, by the broker itself
   or by another command, the override is gone and nothing is said of it. *)
OverrideRespected ==
    route.kind \in {"routed", "uncached"} => route.provider \notin excluded
=============================================================================
