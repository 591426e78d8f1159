---------------------------- MODULE RunParts_proofs ----------------------------
(***************************************************************************)
(* The parts a run of a task passes through, each by itself, for every     *)
(* value of its constants: routing, context, changes, output, the registry *)
(* and the wake files.                                                     *)
(***************************************************************************)
EXTENDS ModelRouting, ContextPack, ChangeCapture, WorkerOutput, GlobalRegistry, WakeFiles, SumLemmas

(***************************************************************************)
(* ModelRouting: the broker reads one list of models and, one await after  *)
(* another, the providers' states: the answer keeps to both.               *)
(***************************************************************************)
Costs == {"none", "unknown", "paid_api", "free_api", "free_quota", "subscription"}
Names == STRING \cup {"none", "account-catalog-unavailable"}
CatalogEntries ==
    {e \in [provider : AllProviders \cup {"none"}, id : Names, cost : Costs,
            approval : BOOLEAN, eligible : BOOLEAN] : e.eligible => e.cost # "unknown"}
CachedLists == UNION {[D -> CatalogEntries] : D \in SUBSET Nat}
CatalogFiles == [form : {"none", "error", "ok"}, entries : CachedLists]

\* What is in the list for a provider: no paid model passes whose price is old.
ListedEntries(p) == {e \in CatalogEntries : e.eligible /\ e.cost = "paid_api" => p \in fresh}

Routable(p) == {e \in ListedEntries(p) : MayRoute(e)} \cup {NoModel}
RouteScores ==
    UNION {[provider : {p}, model : Routable(p), availability : Availability, score : Int] :
               p \in Installed}

RoutingTypes ==
    /\ catalog \in [Installed -> CatalogFiles]
    /\ expired \subseteq Installed /\ excluded \subseteq Installed /\ fresh \subseteq Installed
    /\ override \in [form : {"json", "torn"}, map : [Installed -> Availability]]
    /\ setting = NoSetting \/ setting.map \in [Installed -> Availability]
    /\ probe \in [Installed -> Availability]
    /\ request.provider \in Installed \cup {"any"}
    /\ left \subseteq Installed
    /\ \A p \in Installed : models[p] \in UNION {[D -> ListedEntries(p)] : D \in SUBSET Nat}
    /\ scored \in Seq(RouteScores)

\* One that the file has had unavailable all the time has no score.
ExcludedLoses ==
    /\ \A p \in excluded : override.map[p] = "unavailable"
    /\ \A i \in DOMAIN scored : scored[i].provider \in excluded => scored[i].score < 0

RoutingInv == RoutingTypes /\ ExcludedLoses /\ RoutedModelIsAllowed /\ OverrideRespected

-----------------------------------------------------------------------------
LEMMA EntryIsListed ==
    ASSUME NEW p \in AllProviders, NEW m \in AdvertisedModels PROVE EntryOf(p, m) \in CatalogEntries
<1> USE DEF CatalogEntries, Names, Costs, AdvertisedModels
<1>1. \A q \in AllProviders, n \in AdvertisedModels, c \in Costs : Gated(q, n, c) \in CatalogEntries
  BY DEF Gated, PassesGate, RequiresApproval
<1>2. \A q \in AllProviders, n \in AdvertisedModels, c \in Costs : Plain(q, n, c) \in CatalogEntries
  BY DEF Plain
<1>3. Placeholder(p) \in CatalogEntries
  BY DEF Placeholder
<1>4. Long(m) \in AdvertisedModels /\ [Long(m) EXCEPT !.coding = TRUE] \in AdvertisedModels
      /\ [m EXCEPT !.vision = FALSE, !.tools = m.coding, !.long = m.coding] \in AdvertisedModels
  BY DEF Long
<1>5. PriceCategory(m.prices) \in Costs /\ AccountCost(m) \in Costs /\ "free_quota" \in Costs /\ "subscription" \in Costs
  BY DEF PriceCategory, AccountCost
<1>6. \A q \in {"openrouter", "github-models", "nvidia-nim", "gemini", "mistral", "groq", "codex",
                "opencode", "kilo", "cline"} : q \in AllProviders
  BY DEF AllProviders, DefaultProviders
<1> HIDE DEF CatalogEntries, Names, Costs, AdvertisedModels
<1> QED
  BY <1>1, <1>2, <1>3, <1>4, <1>5, <1>6
  DEF EntryOf, OpenRouterEntry, GitHubEntry, NvidiaEntry, GeminiEntry, MistralEntry, GroqEntry,
      CodexEntry, OpencodeEntry, KiloEntry, ClineEntry

LEMMA MarkedIsListed ==
    ASSUME NEW e \in CatalogEntries, NEW stale
    PROVE  /\ MarkStale(e, stale) \in CatalogEntries
           /\ MarkStale(e, stale).eligible /\ MarkStale(e, stale).cost = "paid_api" => ~stale
  BY DEF MarkStale, CatalogEntries

LEMMA CatalogIsTyped ==
    ASSUME NEW p \in Installed
    PROVE  /\ NoCatalog \in CatalogFiles
           /\ FailedCatalog \in CatalogFiles
           /\ \A a \in Advertised[p] :
                 CatalogOf(p, a) \in CatalogFiles
<1>1. <<>> \in CachedLists
  <2>1. <<>> \in [{} -> CatalogEntries]
    OBVIOUS
  <2> QED
    BY <2>1 DEF CachedLists
<1>2. ASSUME NEW a \in Advertised[p] PROVE Entries(p, a) \in CachedLists
  <2>1. a \in Seq(AdvertisedModels) /\ DOMAIN a \in SUBSET Nat /\ \A i \in DOMAIN a : a[i] \in AdvertisedModels
    BY RoutingAssumption
  <2>2. \A i \in DOMAIN a : EntryOf(p, a[i]) \in CatalogEntries
    BY <2>1, EntryIsListed, RoutingAssumption
  <2>3. Entries(p, a) \in [DOMAIN a -> CatalogEntries]
    BY <2>2 DEF Entries
  <2> QED
    BY <2>1, <2>3 DEF CachedLists
<1>3. NoCatalog \in CatalogFiles /\ FailedCatalog \in CatalogFiles
  BY <1>1 DEF NoCatalog, FailedCatalog, CatalogFiles
<1>4. \A a \in Advertised[p] : CatalogOf(p, a) \in CatalogFiles
  BY <1>2 DEF CatalogOf, CatalogFiles
<1> QED
  BY <1>3, <1>4

LEMMA ScoreIsNumber ==
    ASSUME NEW a, NEW risk, NEW m
    PROVE  Score(a, risk, m) \in Int /\ (a = "unavailable" => Score(a, risk, m) < 0)
<1>1. CostBonus(m.cost) \in Int
  BY DEF CostBonus
<1> QED
  BY <1>1 DEF Score

LEMMA RoutingInvInit == RoutingInit => RoutingInv
<1> SUFFICES ASSUME RoutingInit PROVE RoutingInv
  OBVIOUS
<1>1. catalog \in [Installed -> CatalogFiles]
  BY CatalogIsTyped DEF RoutingInit
<1>2. \A p \in Installed : models[p] \in UNION {[D -> ListedEntries(p)] : D \in SUBSET Nat}
  <2> SUFFICES ASSUME NEW p \in Installed PROVE <<>> \in UNION {[D -> ListedEntries(p)] : D \in SUBSET Nat}
    BY DEF RoutingInit, NothingListed
  <2>1. <<>> \in [{} -> ListedEntries(p)]
    OBVIOUS
  <2> QED
    BY <2>1
<1>3. /\ override \in [form : {"json", "torn"}, map : [Installed -> Availability]] /\ setting = NoSetting
      /\ probe \in [Installed -> Availability]
  BY DEF RoutingInit, Availability, Defaults
<1>4. RoutingTypes
  BY <1>1, <1>2, <1>3 DEF RoutingInit, RoutingTypes, NoRequest
<1>5. ExcludedLoses /\ RoutedModelIsAllowed /\ OverrideRespected
  BY DEF RoutingInit, ExcludedLoses, RoutedModelIsAllowed, OverrideRespected, NoRoute
<1> QED
  BY <1>4, <1>5 DEF RoutingInv

\* What is read from the caches today.
LEMMA ListedIsListed ==
    ASSUME RoutingTypes, NEW p \in Installed, fresh' = Installed \ expired
    PROVE  Listed(p) \in UNION {[D -> ListedEntries(p)'] : D \in SUBSET Nat}
<1>1. PICK D \in SUBSET Nat : catalog[p].entries \in [D -> CatalogEntries]
  <2>1. catalog[p].entries \in CachedLists
    BY DEF RoutingTypes, CatalogFiles
  <2> QED
    BY <2>1 DEF CachedLists
<1>2. ASSUME NEW i \in D PROVE MarkStale(catalog[p].entries[i], p \in expired) \in ListedEntries(p)'
  <2> DEFINE stale == p \in expired
  <2>1. catalog[p].entries[i] \in CatalogEntries
    BY <1>1
  <2>2. ~stale => p \in fresh'
    OBVIOUS
  <2> HIDE DEF stale
  <2>3. MarkStale(catalog[p].entries[i], stale) \in ListedEntries(p)'
    BY <2>1, <2>2, MarkedIsListed DEF ListedEntries
  <2> QED
    BY <2>3 DEF stale
<1>3. Listed(p) \in [D -> ListedEntries(p)']
  BY <1>1, <1>2 DEF Listed
<1> QED
  BY <1>3

\* The first good entry of a provider, if it has one.
LEMMA ModelIsRoutable ==
    ASSUME RoutingTypes, NEW p \in Installed
    PROVE  /\ ModelFor(p) \subseteq Routable(p)
           /\ \A i \in GoodAt(p) : models[p][i] \in Routable(p)
<1>1. PICK D \in SUBSET Nat : models[p] \in [D -> ListedEntries(p)]
  BY DEF RoutingTypes
<1>2. \A i \in GoodAt(p) : models[p][i] \in Routable(p)
  BY <1>1 DEF GoodAt, Routable
<1>3. ModelFor(p) \subseteq Routable(p)
  BY <1>2 DEF ModelFor, FirstOf, Routable
<1> QED
  BY <1>2, <1>3

LEMMA RoutableIsAllowed ==
    ASSUME NEW p, NEW m \in Routable(p), m # NoModel
    PROVE  MayRoute(m) /\ m.cost # "unknown" /\ (m.cost = "paid_api" => p \in fresh)
  BY DEF Routable, ListedEntries, CatalogEntries, MayRoute

\* What is written to the file has a state for every provider, and may take some off
\* the excluded.
LEMMA FillExcludes ==
    ASSUME RoutingTypes, ExcludedLoses, NEW map \in [Installed -> Availability], Fill(map)
    PROVE  /\ override' \in [form : {"json", "torn"}, map : [Installed -> Availability]]
           /\ excluded' \subseteq excluded
           /\ \A p \in excluded' : override'.map[p] = "unavailable"
  BY DEF Fill, Filled, Torn, RoutingTypes

LEMMA OverrideKeeps ==
    ASSUME RoutingInv, UNCHANGED <<caches, request, models, left, scored, route, fresh>>,
           override' \in [form : {"json", "torn"}, map : [Installed -> Availability]],
           setting' = NoSetting \/ setting'.map \in [Installed -> Availability],
           excluded' \subseteq excluded, \A p \in excluded' : override'.map[p] = "unavailable"
    PROVE  RoutingInv'
<1> USE DEF RoutingInv, caches
<1>1. RouteScores' = RouteScores /\ \A q : ListedEntries(q)' = ListedEntries(q)
  BY DEF RouteScores, Routable, ListedEntries
<1>2. RoutingTypes'
  BY <1>1 DEF RoutingTypes
<1>3. ExcludedLoses'
  BY DEF ExcludedLoses
<1> QED
  BY <1>2, <1>3 DEF RoutedModelIsAllowed, OverrideRespected

\* The file while it is emptied, and while it is left alone.
LEMMA FileKeeps ==
    ASSUME RoutingInv, override' \in {override, Torn}, UNCHANGED excluded
    PROVE  /\ override' \in [form : {"json", "torn"}, map : [Installed -> Availability]]
           /\ \A p \in excluded' : override'.map[p] = "unavailable"
  BY DEF RoutingInv, RoutingTypes, ExcludedLoses, Torn

LEMMA SettingKeeps ==
    ASSUME RoutingInv,
           \/ \E p \in Installed, a \in Availability : SetOverride(p, a)
           \/ OpenOverride \/ FillOverride \/ SettingDies \/ StartOver
    PROVE  RoutingInv'
<1> USE DEF RoutingInv
<1>1. Defaults \in [Installed -> Availability]
  BY DEF Defaults, Availability
<1>2. ASSUME NEW p \in Installed, NEW a \in Availability, SetOverride(p, a) PROVE RoutingInv'
  <2>1. override' = override /\ excluded' = excluded /\ UNCHANGED <<caches, broker>>
    BY <1>2 DEF SetOverride
  <2>2. setting'.map \in [Installed -> Availability]
    BY <1>2 DEF SetOverride, RoutingTypes
  <2> QED
    BY <2>1, <2>2, FileKeeps, OverrideKeeps DEF broker
<1>3. CASE OpenOverride
  <2>1. override' = Torn /\ excluded' = excluded /\ UNCHANGED <<caches, broker>>
    BY <1>3 DEF OpenOverride
  <2>2. setting'.map \in [Installed -> Availability]
    BY <1>3 DEF OpenOverride, RoutingTypes, NoSetting
  <2> QED
    BY <2>1, <2>2, FileKeeps, OverrideKeeps DEF broker
<1>4. CASE FillOverride
  <2>1. setting.map \in [Installed -> Availability]
    BY <1>4 DEF FillOverride, RoutingTypes, NoSetting
  <2>2. Fill(setting.map) /\ setting' = NoSetting /\ UNCHANGED <<caches, broker>>
    BY <1>4 DEF FillOverride
  <2> QED
    BY <2>1, <2>2, FillExcludes, OverrideKeeps DEF broker
<1>5. CASE SettingDies
  <2>1. override' = override /\ excluded' = excluded /\ setting' = NoSetting /\ UNCHANGED <<caches, broker>>
    BY <1>5 DEF SettingDies
  <2> QED
    BY <2>1, FileKeeps, OverrideKeeps DEF broker
<1>6. CASE StartOver
  <2>1. Fill(Defaults) /\ setting' = setting /\ UNCHANGED <<caches, broker>>
    BY <1>6 DEF StartOver
  <2>2. setting' = NoSetting \/ setting'.map \in [Installed -> Availability]
    BY <2>1 DEF RoutingTypes
  <2> QED
    BY <1>1, <2>1, <2>2, FillExcludes, OverrideKeeps DEF broker
<1> QED
  BY <1>2, <1>3, <1>4, <1>5, <1>6

\* The broker's own look at the file: it may be the one that starts it over.
LEMMA LookKeeps ==
    ASSUME RoutingInv, EnsureStatus \/ OpenDefaults \/ FillDefaults PROVE RoutingInv'
<1> USE DEF RoutingInv
<1>1. Defaults \in [Installed -> Availability]
  BY DEF Defaults, Availability
<1>2. setting' = setting /\ UNCHANGED <<caches, request, models, left, scored, route, fresh>>
  BY DEF EnsureStatus, OpenDefaults, FillDefaults
<1>3. setting' = NoSetting \/ setting'.map \in [Installed -> Availability]
  BY <1>2 DEF RoutingTypes
<1>4. CASE EnsureStatus \/ OpenDefaults
  <2>1. override' \in {override, Torn} /\ excluded' = excluded
    BY <1>4 DEF EnsureStatus, OpenDefaults
  <2> QED
    BY <1>2, <1>3, <2>1, FileKeeps, OverrideKeeps
<1>5. CASE FillDefaults
  <2>1. Fill(Defaults)
    BY <1>5 DEF FillDefaults
  <2> QED
    BY <1>1, <1>2, <1>3, <2>1, FillExcludes, OverrideKeeps
<1> QED
  BY <1>4, <1>5

LEMMA AskKeeps == ASSUME RoutingInv, NEW r \in Requests, Ask(r) PROVE RoutingInv'
<1> USE DEF RoutingInv
<1>1. /\ scored = <<>> /\ route' = NoRoute /\ request' = r
      /\ models' = [p \in Installed |-> Listed(p)] /\ left' = Candidates(r)
      /\ excluded' = {p \in Installed : override.map[p] = "unavailable"} /\ fresh' = Installed \ expired
      /\ UNCHANGED <<catalog, expired, override, setting, probe, scored>>
  BY DEF Ask, caches
<1>2. Candidates(r) \subseteq Installed /\ r.provider \in Installed \cup {"any"}
  BY RoutingAssumption DEF Candidates
<1>3. \A p \in Installed : models'[p] \in UNION {[D -> ListedEntries(p)'] : D \in SUBSET Nat}
  BY <1>1, ListedIsListed
<1>4. RoutingTypes'
  BY <1>1, <1>2, <1>3 DEF RoutingTypes
<1>5. ExcludedLoses'
  BY <1>1 DEF ExcludedLoses
<1> QED
  BY <1>1, <1>4, <1>5 DEF RoutedModelIsAllowed, OverrideRespected, NoRoute

\* The availability a provider has while it is excluded.
LEMMA ExcludedIsUnavailable ==
    ASSUME ExcludedLoses, NEW p \in excluded PROVE RouteAvailability(p) = "unavailable"
  BY DEF ExcludedLoses, RouteAvailability

LEMMA ScoreKeeps ==
    ASSUME RoutingInv, NEW p \in Installed, ScoreCandidate(p) PROVE RoutingInv'
<1> USE DEF RoutingInv
<1> DEFINE a == RouteAvailability(p)
<1>1. PICK m \in ModelFor(p) :
          scored' = Append(scored, [provider |-> p, model |-> m, availability |-> a,
                                    score |-> Score(a, request.risk, m)])
  BY DEF ScoreCandidate
<1>2. /\ left' = left \ {p}
      /\ UNCHANGED <<catalog, expired, override, setting, probe, excluded, request, models, route, fresh>>
  BY DEF ScoreCandidate, caches
<1>3. a \in Availability
  BY DEF RouteAvailability, RoutingTypes, Availability
<1> DEFINE new == [provider |-> p, model |-> m, availability |-> a, score |-> Score(a, request.risk, m)]
<1>4. new \in RouteScores
  BY <1>3, ModelIsRoutable, ScoreIsNumber DEF RouteScores
<1>5. p \in excluded => new.score < 0
  BY ExcludedIsUnavailable, ScoreIsNumber
<1>6. new.provider = p
  OBVIOUS
<1> HIDE DEF new, a
<1>7. RouteScores' = RouteScores /\ \A q : ListedEntries(q)' = ListedEntries(q)
  BY <1>2 DEF RouteScores, Routable, ListedEntries
<1>8. scored \in Seq(RouteScores) /\ scored' = Append(scored, new)
  BY <1>1 DEF RoutingTypes, new
<1>9. RoutingTypes'
  BY <1>2, <1>4, <1>7, <1>8 DEF RoutingTypes
<1>10. ExcludedLoses'
  BY <1>2, <1>4, <1>5, <1>6, <1>8 DEF ExcludedLoses
<1> QED
  BY <1>2, <1>9, <1>10 DEF RoutedModelIsAllowed, OverrideRespected

\* The answer puts an end to the request.
LEMMA AnswerKeeps ==
    ASSUME RoutingInv, EndsRequest, RoutedModelIsAllowed', OverrideRespected'
    PROVE  RoutingInv'
<1> USE DEF RoutingInv
<1>0. /\ request' = NoRequest /\ models' = NothingListed /\ left' = {} /\ scored' = <<>>
      /\ UNCHANGED <<catalog, expired, override, setting, probe, excluded, fresh>>
  BY DEF EndsRequest, caches
<1>2. \A p \in Installed : models'[p] \in UNION {[D -> ListedEntries(p)'] : D \in SUBSET Nat}
  <2> SUFFICES ASSUME NEW p \in Installed PROVE <<>> \in UNION {[D -> ListedEntries(p)'] : D \in SUBSET Nat}
    BY <1>0 DEF NothingListed
  <2>1. <<>> \in [{} -> ListedEntries(p)']
    OBVIOUS
  <2> QED
    BY <2>1
<1>3. RoutingTypes'
  <2>1. scored' \in Seq(RouteScores')
    BY <1>0
  <2>2. request'.provider \in Installed \cup {"any"}
    BY <1>0 DEF NoRequest
  <2> QED
    BY <1>0, <1>2, <2>1, <2>2 DEF RoutingTypes
<1>4. ExcludedLoses'
  BY <1>0 DEF ExcludedLoses
<1> QED
  BY <1>3, <1>4

LEMMA ChooseKeeps == ASSUME RoutingInv, ChooseBest PROVE RoutingInv'
<1> USE DEF RoutingInv
<1>1. PICK i \in DOMAIN scored : route' = AnswerWith(scored[i])
  BY DEF ChooseBest
<1>2. EndsRequest /\ UNCHANGED <<excluded, fresh>>
  BY DEF ChooseBest, EndsRequest
<1> DEFINE best == scored[i]
<1>3. best \in RouteScores
  BY DEF RoutingTypes
<1>4. best.provider \in excluded => best.score < 0
  BY DEF ExcludedLoses
<1> HIDE DEF best
<1>5. best.model \in Routable(best.provider)
  BY <1>3 DEF RouteScores
<1>6. route' = AnswerWith(best)
  BY <1>1 DEF best
<1>7. route'.kind \in {"routed", "uncached"} =>
         best.score >= 0 /\ route'.provider = best.provider /\ route'.model = best.model
  BY <1>3, <1>6 DEF AnswerWith, Answer, ManualFallback, RouteScores
<1>8. OverrideRespected'
  BY <1>2, <1>3, <1>4, <1>7 DEF OverrideRespected, RouteScores
<1>9. RoutedModelIsAllowed'
  BY <1>2, <1>5, <1>7, RoutableIsAllowed DEF RoutedModelIsAllowed
<1> QED
  BY <1>2, <1>8, <1>9, AnswerKeeps

LEMMA RequestedKeeps == ASSUME RoutingInv, RouteRequested PROVE RoutingInv'
<1> USE DEF RoutingInv
<1>1. EndsRequest /\ UNCHANGED <<excluded, fresh>>
  BY DEF RouteRequested, EndsRequest
<1>2. ASSUME NEW p, NEW m, NEW kind, RouteTo(p, m, kind), route'.kind \in {"routed", "uncached"}
      PROVE  p \notin excluded /\ route'.provider = p /\ route'.model = m
  BY <1>2, ExcludedIsUnavailable, ScoreIsNumber DEF RouteTo, Answer, ManualFallback
<1>3. OverrideRespected' /\ RoutedModelIsAllowed'
  <2>1. CASE route'.kind \notin {"routed", "uncached"}
    BY <2>1 DEF OverrideRespected, RoutedModelIsAllowed
  <2>2. CASE RouteTo(request.provider, NoModel, "uncached")
    BY <1>1, <1>2, <2>1, <2>2 DEF OverrideRespected, RoutedModelIsAllowed
  <2>3. CASE route' \in {Answer("not_found", "none", NoModel), Answer("not_eligible", "none", NoModel)}
    BY <2>1, <2>3 DEF Answer
  <2>4. ASSUME NEW p \in ListedFirst(WithGood), NEW i \in FirstOf(MatchesAt(p) \cap GoodAt(p)),
               RouteTo(p, models[p][i], "routed")
        PROVE  OverrideRespected' /\ RoutedModelIsAllowed'
    <3>1. p \in Installed /\ i \in GoodAt(p)
      BY DEF ListedFirst, WithGood, FirstOf, RoutingTypes
    <3>2. models[p][i] \in Routable(p)
      BY <3>1, ModelIsRoutable
    <3> QED
      BY <1>1, <1>2, <2>1, <2>4, <3>2, RoutableIsAllowed DEF OverrideRespected, RoutedModelIsAllowed
  <2> QED
    BY <2>2, <2>3, <2>4 DEF RouteRequested
<1> QED
  BY <1>1, <1>3, AnswerKeeps

LEMMA ThrowKeeps == ASSUME RoutingInv, ReadThrows PROVE RoutingInv'
<1>1. EndsRequest /\ route'.kind = "unreadable"
  BY DEF ReadThrows, Answer
<1> QED
  BY <1>1, AnswerKeeps DEF RoutedModelIsAllowed, OverrideRespected

LEMMA RoutingInvStep == RoutingInv /\ [RoutingNext]_routingVars => RoutingInv'
<1> SUFFICES ASSUME RoutingInv, [RoutingNext]_routingVars PROVE RoutingInv'
  OBVIOUS
<1>0. ASSUME UNCHANGED <<override, setting, probe, request, models, left, scored, route, excluded, fresh>>,
             catalog' \in [Installed -> CatalogFiles], expired' \subseteq Installed
      PROVE  RoutingInv'
  <2>1. RouteScores' = RouteScores /\ \A q : ListedEntries(q)' = ListedEntries(q)
    BY <1>0 DEF RouteScores, Routable, ListedEntries
  <2>2. RoutingTypes'
    BY <1>0, <2>1 DEF RoutingInv, RoutingTypes
  <2> QED
    BY <1>0, <2>2 DEF RoutingInv, ExcludedLoses, RoutedModelIsAllowed, OverrideRespected
<1>1. ASSUME NEW p \in Installed, Refresh(p) PROVE RoutingInv'
  BY <1>0, <1>1, CatalogIsTyped DEF Refresh, broker, RoutingInv, RoutingTypes
<1>2. ASSUME NEW p \in Installed, Expire(p) PROVE RoutingInv'
  BY <1>0, <1>2 DEF Expire, broker, RoutingInv, RoutingTypes
<1>3. CASE UNCHANGED routingVars
  BY <1>0, <1>3 DEF routingVars, RoutingInv, RoutingTypes
<1> QED
  BY <1>1, <1>2, <1>3, SettingKeeps, LookKeeps, AskKeeps, ScoreKeeps, ThrowKeeps, ChooseKeeps, RequestedKeeps
  DEF RoutingNext

LEMMA RoutingInvariant == RoutingSpec => []RoutingInv
  BY RoutingInvInit, RoutingInvStep, PTL DEF RoutingSpec

(* For any catalogs, refreshes and expiries: a listed model that is given to a run
   passed the gate and, if paid, had its price in date when it was listed. *)
THEOREM RoutesAreAllowed == RoutingSpec => []RoutedModelIsAllowed
<1>1. RoutingInv => RoutedModelIsAllowed
  BY DEF RoutingInv
<1> QED
  BY <1>1, RoutingInvariant, PTL

(* A provider that the status file has unavailable for the whole of a request is not
   its answer, at whatever await another terminal empties and fills the file, unless
   the file was found in the middle of a write and started over: then the override
   is lost. *)
THEOREM OverridesAreRespected == RoutingSpec => []OverrideRespected
<1>1. RoutingInv => OverrideRespected
  BY DEF RoutingInv
<1> QED
  BY <1>1, RoutingInvariant, PTL

(***************************************************************************)
(* ContextPack: a file is read before it is placed, so that what a file was *)
(* summarised as is what was read, and the running total is the sum.       *)
(***************************************************************************)
BytesPlaced(c) == [f \in Files |-> BytesOf(c, f)]

Modes == {"none", "full", "summary", "max_files", "byte_budget"}
SummaryEntries == {e \in [hash : Contents \cup {Unread}, text : Contents \cup {Unread}] : e.hash = e.text}

PackTypes ==
    /\ repo \in [Files -> Contents \cup {Absent}]
    /\ saved.entries \in [Files -> SummaryEntries]
    /\ stage \in [Compilations -> {"start", "rank", "save", "done", "failed", "killed"}]
    /\ known \in [Compilations -> [Files -> SummaryEntries]]
    /\ readAs \in [Compilations -> [Files -> Contents \cup {Unread}]]
    /\ summary = readAs
    /\ toRank \in [Compilations -> SUBSET Files] /\ toPlace \in [Compilations -> SUBSET Files]
    /\ mode \in [Compilations -> [Files -> Modes]]
    /\ used \in [Compilations -> Int]

\* A file is read before it is placed, and placed once.
ReadThenPlaced(c) ==
    /\ toRank[c] \subseteq toPlace[c]
    /\ stage[c] = "start" => toPlace[c] = {} /\ \A f \in Files : mode[c][f] = "none"
    /\ \A f \in toPlace[c] : mode[c][f] = "none"
    /\ \A f \in toPlace[c] \ toRank[c] : readAs[c][f] \in Contents
    /\ \A f \in Files : mode[c][f] # "none" => readAs[c][f] \in Contents

\* The running total is the sum, and what was left out is left out for good.
LimitsKept(c) ==
    /\ used[c] = SumOf(BytesPlaced(c), Files)
    /\ used[c] <= BudgetBytes
    /\ Cardinality(Placed(c, "full")) <= MaxFiles
    /\ Cardinality(Placed(c, "summary")) <= MaxSummaries
    /\ \A f \in Placed(c, "max_files") \cup Placed(c, "byte_budget") : NoRoomFor(c, f)

PackInv == PackTypes /\ \A c \in Compilations : ReadThenPlaced(c) /\ LimitsKept(c)

-----------------------------------------------------------------------------
LEMMA PackLimitsAreNumbers ==
    /\ MaxFiles \in Nat /\ MaxSummaries \in Nat /\ BudgetBytes \in Nat
  BY ContextAssumption DEF MaxFiles, MaxSummaries, BudgetBytes, PositiveInteger

LEMMA PlacedIsFinite ==
    \A c, m : IsFiniteSet(Placed(c, m)) /\ Cardinality(Placed(c, m)) \in Nat
<1>1. \A c, m : Placed(c, m) \in SUBSET Files
  BY DEF Placed
<1> QED
  BY <1>1, ContextAssumption, FS_Subset, FS_CardinalityType

LEMMA BytesAreNumbers ==
    ASSUME PackTypes, NEW c \in Compilations, ReadThenPlaced(c) PROVE \A f \in Files : BytesPlaced(c)[f] \in Nat
  BY ContextAssumption DEF PackTypes, ReadThenPlaced, BytesPlaced, BytesOf

\* A compilation that neither reads nor places stays as it is.
LEMMA OtherCompilation ==
    ASSUME NEW c, readAs'[c] = readAs[c], summary'[c] = summary[c], mode'[c] = mode[c], used'[c] = used[c]
    PROVE  LimitsKept(c)' = LimitsKept(c)
<1>1. BytesPlaced(c)' = BytesPlaced(c)
  BY DEF BytesPlaced, BytesOf
<1>2. \A m : Placed(c, m)' = Placed(c, m)
  BY DEF Placed
<1>3. \A f : NoRoomFor(c, f)' = NoRoomFor(c, f)
  BY <1>2 DEF NoRoomFor
<1> QED
  BY <1>1, <1>2, <1>3 DEF LimitsKept

LEMMA PackInvInit == PackInit => PackInv
<1> SUFFICES ASSUME PackInit PROVE PackInv
  OBVIOUS
<1>1. PackTypes
  BY DEF PackInit, PackTypes, NoFile, NothingKnown, NoSummary, SummaryEntries, Modes
<1>2. ASSUME NEW c \in Compilations PROVE ReadThenPlaced(c)
  BY DEF PackInit, ReadThenPlaced
<1>3. ASSUME NEW c \in Compilations PROVE LimitsKept(c)
  <2>1. \A m \in Modes \ {"none"} : Placed(c, m) = {}
    BY DEF PackInit, Placed
  <2>2. \A f \in Files : BytesPlaced(c)[f] = 0
    BY DEF PackInit, BytesPlaced, BytesOf
  <2>3. SumOf(BytesPlaced(c), Files) = 0
    BY <2>2, SumOfZeros, ContextAssumption
  <2>4. Cardinality(Placed(c, "full")) = 0 /\ Cardinality(Placed(c, "summary")) = 0
    BY <2>1, FS_EmptySet DEF Modes
  <2> QED
    BY <2>1, <2>3, <2>4, PackLimitsAreNumbers DEF PackInit, LimitsKept, Modes
<1> QED
  BY <1>1, <1>2, <1>3 DEF PackInv

\* A step that leaves reading and placing alone.
LEMMA SameFiles ==
    ASSUME PackInv, PackTypes', UNCHANGED <<readAs, summary, mode, used>>,
           \A c \in Compilations : ReadThenPlaced(c)'
    PROVE  PackInv'
  BY OtherCompilation DEF PackInv

LEMMA RankKeeps ==
    ASSUME PackInv, NEW c \in Compilations, NEW f \in Files, Rank(c, f) PROVE PackInv'
<1> USE DEF PackInv
<1>1. CASE repo[f] = Absent
  <2>1. PackTypes' /\ UNCHANGED <<readAs, summary, mode, used>>
    BY <1>1 DEF Rank, PackTypes
  <2>2. \A d \in Compilations : ReadThenPlaced(d)'
    BY <1>1 DEF Rank, PackTypes, ReadThenPlaced
  <2> QED
    BY <2>1, <2>2, SameFiles
<1>2. CASE repo[f] # Absent
  <2> DEFINE text == Summarized(known[c][f], repo[f])
  <2>1. text = repo[f] /\ repo[f] \in Contents
    BY <1>2 DEF Summarized, PackTypes, SummaryEntries
  <2> HIDE DEF text
  <2>2. /\ readAs' = [readAs EXCEPT ![c][f] = repo[f]]
        /\ summary' = [summary EXCEPT ![c][f] = repo[f]]
        /\ known' = [known EXCEPT ![c][f] = [hash |-> repo[f], text |-> repo[f]]]
        /\ toRank' = [toRank EXCEPT ![c] = @ \ {f}]
        /\ UNCHANGED <<repo, saved, stage, toPlace, mode, used>>
    BY <1>2, <2>1 DEF Rank, text
  <2>3. f \in toRank[c]
    BY DEF Rank
  <2>4. [hash |-> repo[f], text |-> repo[f]] \in SummaryEntries
    BY <2>1 DEF SummaryEntries
  <2>5. PackTypes'
    BY <2>1, <2>2, <2>4 DEF PackTypes
  <2>6. \A d \in Compilations, g \in Files :
           d # c \/ g # f => readAs'[d][g] = readAs[d][g] /\ summary'[d][g] = summary[d][g]
    BY <2>2 DEF PackTypes
  <2>7. readAs'[c][f] \in Contents
    BY <2>1, <2>2 DEF PackTypes
  <2>8. \A d \in Compilations : ReadThenPlaced(d)'
    BY <2>2, <2>6, <2>7 DEF PackTypes, ReadThenPlaced
  <2>9. mode[c][f] = "none"
    BY <2>3 DEF ReadThenPlaced
  <2>10. ASSUME NEW d \in Compilations PROVE LimitsKept(d)'
    <3>1. \A m : Placed(d, m)' = Placed(d, m)
      BY <2>2 DEF Placed
    <3>2. \A g \in Files : BytesOf(d, g)' = BytesOf(d, g)
      BY <2>2, <2>6, <2>9 DEF BytesOf
    <3>3. BytesPlaced(d)' = BytesPlaced(d)
      BY <3>2 DEF BytesPlaced
    <3>4. \A g \in Placed(d, "max_files") \cup Placed(d, "byte_budget") : g \in Files /\ (d # c \/ g # f)
      BY <2>9 DEF Placed
    <3>5. \A g \in Placed(d, "max_files") \cup Placed(d, "byte_budget") : NoRoomFor(d, g)'
      BY <2>2, <2>6, <3>1, <3>4 DEF NoRoomFor, LimitsKept
    <3> QED
      BY <2>2, <3>1, <3>3, <3>5 DEF LimitsKept
  <2> QED
    BY <2>5, <2>8, <2>10
<1> QED
  BY <1>1, <1>2

\* The byte limit: what a file takes is added to the running total.
LEMMA PutAdds ==
    ASSUME PackInv, NEW c \in Compilations, NEW f \in Files, mode[c][f] = "none",
           NEW m \in Modes, NEW bytes \in Int, Put(c, f, m, bytes), UNCHANGED <<readAs, summary>>,
           readAs[c][f] \in Contents, bytes = BytesOf(c, f)'
    PROVE  used'[c] = SumOf(BytesPlaced(c), Files)'
<1> USE DEF PackInv
<1> DEFINE g == BytesPlaced(c)
           h == BytesPlaced(c)'
<1>1. mode' = [mode EXCEPT ![c][f] = m] /\ used'[c] = used[c] + bytes
  BY DEF Put, PackTypes
<1>2. \A x \in Files \ {f} : h[x] = g[x]
  BY <1>1 DEF BytesPlaced, BytesOf, PackTypes
<1>3. \A x \in Files : g[x] \in Int
  BY BytesAreNumbers
<1>4. h[f] = bytes /\ g[f] = 0
  BY DEF BytesPlaced, BytesOf
<1>5. used[c] = SumOf(g, Files) /\ SumOf(g, Files) \in Int
  BY <1>3, ContextAssumption, SumType DEF LimitsKept
<1> HIDE DEF g, h
<1>a. IsFiniteSet(Files)
  BY ContextAssumption
<1>b. h[f] \in Int
  BY <1>4
<1>6. SumOf(h, Files) = SumOf(g, Files) - g[f] + h[f]
  BY <1>2, <1>3, <1>a, <1>b, SumUpdate
<1>7. used'[c] = SumOf(h, Files)
  BY <1>1, <1>4, <1>5, <1>6
<1> QED
  BY <1>7 DEF h

\* The numbers of files: only those of the place the file got grow, by one.
LEMMA PutCounts ==
    ASSUME PackTypes, NEW c \in Compilations, NEW f \in Files, mode[c][f] = "none",
           NEW m \in Modes \ {"none"}, mode' = [mode EXCEPT ![c][f] = m]
    PROVE  /\ Placed(c, m)' = Placed(c, m) \cup {f}
           /\ Cardinality(Placed(c, m))' = Cardinality(Placed(c, m)) + 1
           /\ \A k \in Modes \ {"none", m} : Placed(c, k)' = Placed(c, k)
<1>1. Placed(c, m)' = Placed(c, m) \cup {f} /\ f \notin Placed(c, m)
  BY DEF Placed, PackTypes
<1>2. \A k \in Modes \ {"none", m} : Placed(c, k)' = Placed(c, k)
  BY DEF Placed, PackTypes
<1> QED
  BY <1>1, <1>2, PlacedIsFinite, FS_AddElement

LEMMA PlaceKeeps ==
    ASSUME PackInv, NEW c \in Compilations, NEW f \in Files, Place(c, f) PROVE PackInv'
<1> USE DEF PackInv
<1>1. /\ stage[c] = "rank" /\ toRank[c] = {} /\ f \in toPlace[c]
      /\ toPlace' = [toPlace EXCEPT ![c] = @ \ {f}]
      /\ UNCHANGED <<repo, saved, stage, known, readAs, summary, toRank, edits>>
  BY DEF Place
<1>2. mode[c][f] = "none" /\ readAs[c][f] \in Contents /\ summary[c][f] = readAs[c][f]
  BY <1>1 DEF ReadThenPlaced, PackTypes
<1>3. FullSize[readAs[c][f]] \in Nat /\ SummarySize[summary[c][f]] \in Nat
  BY <1>2, ContextAssumption
<1>4. PICK m \in Modes \ {"none"}, bytes \in Nat :
          /\ Put(c, f, m, bytes)
          /\ m = "full" => FitsFull(c, f) /\ bytes = FullSize[readAs[c][f]]
          /\ m # "full" => ~FitsFull(c, f)
          /\ m = "summary" => FitsSummary(c, f) /\ bytes = SummarySize[summary[c][f]]
          /\ m \notin {"full", "summary"} => ~FitsSummary(c, f) /\ bytes = 0
  <2>1. CASE FitsFull(c, f) /\ Put(c, f, "full", FullSize[readAs[c][f]])
    BY <1>3, <2>1, "full" \in Modes \ {"none"} DEF Modes
  <2>2. CASE ~FitsFull(c, f) /\ FitsSummary(c, f) /\ Put(c, f, "summary", SummarySize[summary[c][f]])
    BY <1>3, <2>2, "summary" \in Modes \ {"none"} DEF Modes
  <2>3. CASE /\ ~FitsFull(c, f) /\ ~FitsSummary(c, f)
             /\ Put(c, f, IF Cardinality(Placed(c, "full")) >= MaxFiles THEN "max_files" ELSE "byte_budget", 0)
    <3>1. PICK m \in {"max_files", "byte_budget"} : Put(c, f, m, 0)
      BY <2>3
    <3> QED
      BY <2>3, <3>1 DEF Modes
  <2> QED
    BY <2>1, <2>2, <2>3 DEF Place
<1>5. mode' = [mode EXCEPT ![c][f] = m] /\ used' = [used EXCEPT ![c] = @ + bytes]
  BY <1>4 DEF Put
<1>6. PackTypes'
  BY <1>1, <1>5 DEF PackTypes
<1>7. \A d \in Compilations : ReadThenPlaced(d)'
  BY <1>1, <1>2, <1>5 DEF ReadThenPlaced, PackTypes
<1>8. \A d \in Compilations \ {c} : LimitsKept(d)'
  <2>1. \A d \in Compilations \ {c} :
           /\ mode'[d] = mode[d] /\ used'[d] = used[d]
           /\ readAs'[d] = readAs[d] /\ summary'[d] = summary[d]
    BY <1>1, <1>5 DEF PackTypes
  <2> QED
    BY <2>1, OtherCompilation
<1>9. LimitsKept(c)'
  <2> DEFINE full == Cardinality(Placed(c, "full"))
             summaries == Cardinality(Placed(c, "summary"))
  <2>1. used'[c] = used[c] + bytes /\ used[c] \in Int /\ bytes \in Nat /\ used[c] <= used'[c]
    BY <1>4, <1>5 DEF PackTypes
  <2>2. /\ full \in Nat /\ summaries \in Nat
        /\ full' = IF m = "full" THEN full + 1 ELSE full
        /\ summaries' = IF m = "summary" THEN summaries + 1 ELSE summaries
    BY <1>2, <1>5, PutCounts, PlacedIsFinite DEF Modes
  <2>3. \A g \in Placed(c, "max_files")' \cup Placed(c, "byte_budget")' :
           (g = f /\ m \in {"max_files", "byte_budget"}) \/ g \in Placed(c, "max_files") \cup Placed(c, "byte_budget")
    BY <1>5 DEF Placed, PackTypes
  <2> HIDE DEF full, summaries
  <2>4. bytes = BytesOf(c, f)'
    BY <1>1, <1>4, <1>5 DEF BytesOf, PackTypes
  <2>5. used'[c] = SumOf(BytesPlaced(c), Files)'
    BY <1>1, <1>2, <1>4, <2>4, PutAdds
  <2>6. used'[c] <= BudgetBytes
    BY <1>4, <2>1, PackLimitsAreNumbers DEF FitsFull, FitsSummary, LimitsKept
  <2>7. full' <= MaxFiles /\ summaries' <= MaxSummaries
    BY <1>4, <2>2, PackLimitsAreNumbers DEF FitsFull, FitsSummary, LimitsKept, full, summaries
  <2>8. ASSUME NEW g \in Placed(c, "max_files")' \cup Placed(c, "byte_budget")' PROVE NoRoomFor(c, g)'
    <3>1. FullSize[readAs[c][g]] \in Nat /\ SummarySize[summary[c][g]] \in Nat
      <4>1. g \in Files /\ (g = f \/ mode[c][g] # "none")
        BY <2>3 DEF Placed
      <4> QED
        BY <1>2, <4>1, ContextAssumption DEF ReadThenPlaced, PackTypes
    <3>2. CASE g = f /\ m \in {"max_files", "byte_budget"}
      BY <1>1, <1>4, <2>1, <2>2, <3>1, <3>2, PackLimitsAreNumbers
      DEF NoRoomFor, FitsFull, FitsSummary, full, summaries
    <3>3. CASE g \in Placed(c, "max_files") \cup Placed(c, "byte_budget")
      <4>1. NoRoomFor(c, g)
        BY <3>3 DEF LimitsKept
      <4> QED
        BY <1>1, <2>1, <2>2, <3>1, <4>1, PackLimitsAreNumbers DEF NoRoomFor, full, summaries
    <3> QED
      BY <2>3, <3>2, <3>3
  <2> QED
    BY <2>5, <2>6, <2>7, <2>8 DEF LimitsKept, full, summaries
<1> QED
  BY <1>6, <1>7, <1>8, <1>9

LEMMA PackInvStep == PackInv /\ [PackNext]_packVars => PackInv'
<1> SUFFICES ASSUME PackInv, [PackNext]_packVars PROVE PackInv'
  OBVIOUS
<1> USE DEF PackInv
<1>1. CASE UNCHANGED packVars
  BY <1>1, SameFiles DEF packVars, PackTypes, ReadThenPlaced
<1>2. ASSUME NEW f \in Files, NEW content \in Contents \cup {Absent}, Edit(f, content) PROVE PackInv'
  BY <1>2, SameFiles DEF Edit, PackTypes, ReadThenPlaced
<1>3. ASSUME NEW c \in Compilations, Load(c) PROVE PackInv'
  <2> DEFINE listed == {f \in Files : repo[f] \notin TooLong \cup {Absent}}
  <2>0. listed \in SUBSET Files
    OBVIOUS
  <2> HIDE DEF listed
  <2>a. \/ /\ stage' = [stage EXCEPT ![c] = "failed"] /\ UNCHANGED <<known, toRank, toPlace>>
        \/ /\ stage' = [stage EXCEPT ![c] = "rank"]
           /\ known' = [known EXCEPT ![c] = saved.entries]
           /\ toRank' = [toRank EXCEPT ![c] = listed]
           /\ toPlace' = [toPlace EXCEPT ![c] = listed]
    BY <1>3 DEF Load, listed
  <2>b. stage[c] = "start" /\ UNCHANGED <<repo, saved, readAs, summary, mode, used>>
    BY <1>3 DEF Load
  <2>1. PackTypes'
    BY <2>0, <2>a, <2>b DEF PackTypes
  <2>2. \A d \in Compilations : ReadThenPlaced(d)'
    BY <2>0, <2>a, <2>b DEF PackTypes, ReadThenPlaced
  <2> QED
    BY <2>b, <2>1, <2>2, SameFiles
<1>4. ASSUME NEW c \in Compilations, WriteBundle(c) \/ SaveSummaries(c) \/ KillCompilation(c) PROVE PackInv'
  <2>a. /\ UNCHANGED <<repo, known, readAs, summary, toRank, toPlace, mode, used>>
        /\ \E s \in {"save", "done", "killed"} : stage' = [stage EXCEPT ![c] = s]
        /\ saved'.entries \in {NothingKnown, known[c], saved.entries}
    BY <1>4 DEF WriteBundle, SaveSummaries, KillCompilation
  <2>b. NothingKnown \in [Files -> SummaryEntries]
    BY DEF NothingKnown, NoSummary, SummaryEntries
  <2>c. saved'.entries \in [Files -> SummaryEntries]
    BY <2>a, <2>b DEF PackTypes
  <2>1. PackTypes' /\ UNCHANGED <<readAs, summary, mode, used>>
    BY <2>a, <2>c DEF PackTypes
  <2>2. \A d \in Compilations : ReadThenPlaced(d)'
    BY <2>a DEF PackTypes, ReadThenPlaced
  <2> QED
    BY <2>1, <2>2, SameFiles
<1> QED
  BY <1>1, <1>2, <1>3, <1>4, RankKeeps, PlaceKeeps DEF PackNext

LEMMA PackInvariant == PackSpec => []PackInv
  BY PackInvInit, PackInvStep, PTL DEF PackSpec

(* Whatever the cache on disk holds and however many commands compile at once, a
   summary in a bundle is of the content the same compilation read. *)
THEOREM SummariesAreCurrent == PackSpec => []SummaryIsCurrent
<1>1. PackInv => SummaryIsCurrent
  BY DEF PackInv, PackTypes, SummaryIsCurrent
<1> QED
  BY <1>1, PackInvariant, PTL

(* For any limits, sizes and scores: the files of a bundle keep to the budget and
   the numbers, and nothing that was left out would have fitted. *)
THEOREM BundlesAreMaximal == PackSpec => []BundleIsMaximal
<1>1. ASSUME NEW c \in Compilations
      PROVE  MapThenSumSet(LAMBDA f : BytesOf(c, f), Files) = SumOf(BytesPlaced(c), Files)
  BY Zenon DEF MapThenSumSet, MapThenFoldSet, SumOf, PartialSums, IsSumOver, Picked, BytesPlaced
<1>2. PackInv => BundleIsMaximal
  BY <1>1 DEF PackInv, LimitsKept, BundleIsMaximal, WithinLimits
<1> QED
  BY <1>2, PackInvariant, PTL

(***************************************************************************)
(* ChangeCapture: two readings of the files, one for the report and one for *)
(* the patch.                                                              *)
(***************************************************************************)
FileTexts == Texts \cup {NoText, BundleText}

CaptureTypes ==
    /\ source \in [Paths -> FileTexts] /\ workspace \in [Paths -> FileTexts]
    /\ patch \in [Paths -> [before : FileTexts, after : FileTexts]]
    /\ phase \in {"copy", "work", "list", "compare", "patch", "failed", "validate", "done"}
    /\ toCompare \subseteq Scope /\ changed \subseteq Scope /\ toPatch \subseteq changed
    /\ verdict \in {"none", "passed", "failed"}

\* The two readings of a file agree unless it was written between them.
ReadingsAgree ==
    /\ phase \in {"copy", "work", "list"} => changed = {}
    /\ Patched \subseteq changed
    /\ phase \in {"compare", "patch"} => \A f \in changed \ late : Differs(f)
    /\ phase \in {"patch", "validate", "done"} => changed \subseteq Patched \cup late \cup toPatch
    /\ phase \in {"validate", "done"} => toPatch = {}
    /\ phase # "done" => verdict = "none"

CaptureInv == CaptureTypes /\ ReadingsAgree /\ PassedPatchIsSafe

LEMMA CaptureInvInit == CaptureInit => CaptureInv
<1> SUFFICES ASSUME CaptureInit PROVE CaptureInv
  OBVIOUS
<1>1. Patched = {}
  BY DEF Patched, CaptureInit
<1>2. CaptureTypes
  BY CaptureAssumption DEF CaptureInit, CaptureTypes, FileTexts, NoPart
<1>3. ReadingsAgree /\ PassedPatchIsSafe
  BY <1>1 DEF CaptureInit, ReadingsAgree, PassedPatchIsSafe
<1> QED
  BY <1>2, <1>3 DEF CaptureInv

\* What Validate looks at is at least what is in the patch.
LEMMA SafeByTheGates ==
    ASSUME CaptureInv, InScope, NoSecrets, DependencyGate, ChangeSize
    PROVE  /\ Patched \subseteq Scope \ Manifests
           /\ \A f \in Patched : patch[f].before \notin Secrets /\ patch[f].after \notin Secrets
           /\ Cardinality(Patched) <= MaxChangedFiles
<1>1. Patched \subseteq FilesToCheck
  BY DEF FilesToCheck, CaptureInv, ReadingsAgree
<1>2. FilesToCheck \subseteq Paths
  BY CaptureAssumption DEF FilesToCheck, CaptureInv, CaptureTypes, Patched
<1>3. IsFiniteSet(FilesToCheck)
  BY <1>2, CaptureAssumption, FS_Subset
<1>4. Cardinality(Patched) <= Cardinality(FilesToCheck)
  BY <1>1, <1>3, FS_Subset
<1>5. IsFiniteSet(Patched) 
  BY <1>1, <1>3, FS_Subset
<1>6. Cardinality(Patched) \in Nat /\ Cardinality(FilesToCheck) \in Nat
  BY <1>3, <1>5, FS_CardinalityType
<1>7. Cardinality(Patched) <= MaxChangedFiles
  BY <1>4, <1>6, CaptureAssumption DEF ChangeSize
<1>8. Patched \subseteq Scope \ Manifests
  BY <1>1 DEF InScope, DependencyGate
<1> QED
  BY <1>7, <1>8 DEF NoSecrets

LEMMA CaptureInvStep == CaptureInv /\ [CaptureNext]_captureVars => CaptureInv'
<1> SUFFICES ASSUME CaptureInv, [CaptureNext]_captureVars PROVE CaptureInv'
  OBVIOUS
<1> USE DEF CaptureInv
<1>a. CASE UNCHANGED captureVars
  BY <1>a DEF captureVars, CaptureTypes, ReadingsAgree, PassedPatchIsSafe, Patched, Differs
<1>0. ASSUME UNCHANGED <<patch, changed, verdict>> PROVE Patched' = Patched /\ (PassedPatchIsSafe => PassedPatchIsSafe')
  BY <1>0 DEF PassedPatchIsSafe, Patched
<1>1. ASSUME NEW f \in Paths, NEW text \in Texts \cup {NoText}, UserEdit(f, text) \/ WorkerEdit(f, text)
      PROVE  CaptureInv'
  <2>1. UNCHANGED <<phase, captured>> /\ late \subseteq late'
    BY <1>1 DEF UserEdit, WorkerEdit
  <2>2. CaptureTypes'
    BY <1>1 DEF UserEdit, WorkerEdit, CaptureTypes, captured, FileTexts
  <2>3. Patched' = Patched /\ PassedPatchIsSafe'
    BY <1>0, <2>1 DEF captured
  <2>4. phase \in {"compare", "patch"} =>
           \A g \in Paths \ late' : source'[g] = source[g] /\ workspace'[g] = workspace[g]
    BY <1>1 DEF UserEdit, WorkerEdit, Capturing, CaptureTypes
  <2>5. ReadingsAgree'
    BY <2>1, <2>3, <2>4, CaptureAssumption DEF ReadingsAgree, captured, Differs, CaptureTypes
  <2> QED
    BY <2>2, <2>3, <2>5
<1>2. CASE CopyTree
  <2>1. CaptureTypes'
    BY <1>2 DEF CopyTree, CaptureTypes, captured, FileTexts
  <2> QED
    BY <1>0, <1>2, <2>1 DEF CopyTree, captured, ReadingsAgree
<1>3. CASE WorkerExits
  BY <1>0, <1>3 DEF WorkerExits, captured, ReadingsAgree, CaptureTypes
<1>4. CASE ListTrees
  BY <1>0, <1>4 DEF ListTrees, ReadingsAgree, CaptureTypes
<1>5. ASSUME NEW f \in Paths, Compare(f) PROVE CaptureInv'
  <2>1. CaptureTypes'
    BY <1>5 DEF Compare, CaptureTypes
  <2>2. Patched' = Patched
    BY <1>5 DEF Compare, Patched
  <2>3. PassedPatchIsSafe'
    BY <1>5, <2>2 DEF Compare, PassedPatchIsSafe
  <2>4. ReadingsAgree'
    BY <1>5, <2>2 DEF Compare, ReadingsAgree, Differs, CaptureTypes
  <2> QED
    BY <2>1, <2>3, <2>4
<1>6. CASE Compared
  BY <1>0, <1>6 DEF Compared, ReadingsAgree, CaptureTypes, Differs
<1>7. ASSUME NEW f \in Paths, PatchFile(f) PROVE CaptureInv'
  <2>1. CASE workspace[f] = NoText
    BY <1>7, <1>0, <2>1 DEF PatchFile, ReadingsAgree, CaptureTypes
  <2>2. CASE workspace[f] # NoText
    <3>1. Part(f) \in [before : FileTexts, after : FileTexts]
      BY DEF Part, NoPart, CaptureTypes, FileTexts
    <3>2. CaptureTypes'
      BY <1>7, <2>2, <3>1 DEF PatchFile, CaptureTypes
    <3>3. Differs(f) => Part(f) # NoPart
      BY DEF Differs, Part, NoPart
    <3>4. Patched \ {f} = Patched' \ {f}
      BY <1>7, <2>2 DEF PatchFile, CaptureTypes, Patched
    <3>5. Part(f) # NoPart => f \in Patched'
      BY <1>7, <2>2 DEF PatchFile, CaptureTypes, Patched
    <3>6. f \in changed \ late => f \in Patched'
      BY <1>7, <3>3, <3>5 DEF PatchFile, ReadingsAgree
    <3>7. ReadingsAgree'
      BY <1>7, <2>2, <3>4, <3>6 DEF PatchFile, ReadingsAgree, CaptureTypes, Differs
    <3>8. PassedPatchIsSafe'
      BY <1>7 DEF PatchFile, ReadingsAgree, PassedPatchIsSafe
    <3> QED
      BY <3>2, <3>7, <3>8
  <2> QED
    BY <2>1, <2>2
<1>8. CASE WriteResult
  BY <1>0, <1>8 DEF WriteResult, ReadingsAgree, CaptureTypes
<1>9. CASE Validate
  <2>1. Patched' = Patched
    BY <1>9 DEF Validate, Patched
  <2>2. CaptureTypes' /\ ReadingsAgree'
    BY <1>9, <2>1 DEF Validate, CaptureTypes, ReadingsAgree
  <2>3. PassedPatchIsSafe'
    <3> SUFFICES ASSUME verdict' = "passed"
                 PROVE  /\ Patched \subseteq Scope \ Manifests
                        /\ \A f \in Patched : patch[f].before \notin Secrets /\ patch[f].after \notin Secrets
                        /\ Cardinality(Patched) <= MaxChangedFiles
      BY <1>9, <2>1 DEF Validate, PassedPatchIsSafe
    <3>1. InScope /\ NoSecrets /\ DependencyGate /\ ChangeSize
      BY <1>9 DEF Validate
    <3> QED
      BY <3>1, SafeByTheGates
  <2> QED
    BY <2>2, <2>3
<1> QED
  BY <1>a, <1>1, <1>2, <1>3, <1>4, <1>5, <1>6, <1>7, <1>8, <1>9 DEF CaptureNext

LEMMA CaptureInvariant == CaptureSpec => []CaptureInv
  BY CaptureInvInit, CaptureInvStep, PTL DEF CaptureSpec

(* However many edits fall between the two readings, the files the result reports
   and those of the patch differ only in files that were written meanwhile. *)
THEOREM ReportAgrees == CaptureSpec => []ReportMatchesPatch
<1>1. CaptureInv => ReportMatchesPatch
  BY DEF CaptureInv, ReadingsAgree, ReportMatchesPatch
<1> QED
  BY <1>1, CaptureInvariant, PTL

(* For any files, scope and limits: what passed validation stays in the task's
   files, changes no manifest, shows no secret and is no longer than allowed. *)
THEOREM PassedIsSafe == CaptureSpec => []PassedPatchIsSafe
<1>1. CaptureInv => PassedPatchIsSafe
  BY DEF CaptureInv
<1> QED
  BY <1>1, CaptureInvariant, PTL

(***************************************************************************)
(* WorkerOutput: for output of any length, read in any of the five ways: what *)
(* an adapter remembers is enough to never call a reported failure completed, *)
(* a limit is not hidden by the exit code, and the tokens kept are the most *)
(* any line speaks of.                                                     *)
(***************************************************************************)
Said == [kind : LineKinds, tokens : Scores \cup {NoUsage}]

OutputTypes ==
    /\ adapter \in Parsers
    /\ lines \in Seq(Said)
    /\ parse \in [completed : BOOLEAN, failed : BOOLEAN, word : Results \cup {""}, said : BOOLEAN]
    /\ usage \in Scores \cup {NoUsage}
    /\ complained \in BOOLEAN /\ limited \in BOOLEAN
    /\ result \in [status : {"none", "completed", "limited", "failed"}, changed : BOOLEAN]

\* The flags of each way of reading keep its failures.
Remembers ==
    /\ adapter = "direct" /\ Printed("failure") \cup Printed("error") # {} => parse.failed
    /\ adapter = "opencode" /\ Printed("error") # {} => parse.failed
    /\ adapter = "claude" /\ LastIs("failure") => parse.failed /\ ~parse.completed
    /\ adapter = "gemini" /\ LastIs("failure") => parse.word = "failure"

OutputInv == OutputTypes /\ Remembers /\ NoFailureIsCompleted /\ LimitIsReported /\ UsageIsTheLargest

-----------------------------------------------------------------------------
LEMMA AppendedLine ==
    ASSUME NEW s \in Seq(Said), NEW e \in Said
    PROVE  /\ Append(s, e) \in Seq(Said)
           /\ DOMAIN Append(s, e) = DOMAIN s \cup {Len(s) + 1}
           /\ Len(s) + 1 \notin DOMAIN s
           /\ \A i \in DOMAIN s : Append(s, e)[i] = s[i] /\ i < Len(s) + 1
           /\ Append(s, e)[Len(s) + 1] = e
  OBVIOUS

LEMMA OutputInvInit == OutputInit => OutputInv
<1> SUFFICES ASSUME OutputInit PROVE OutputInv
  OBVIOUS
<1>1. lines = <<>> /\ DOMAIN lines = {} /\ lines \in Seq(Said)
  <2>1. lines = <<>>
    BY DEF OutputInit
  <2>2. DOMAIN <<>> = {} /\ <<>> \in Seq(Said)
    OBVIOUS
  <2>3. QED
    BY <2>1, <2>2
<1>2. OutputTypes
  BY <1>1, OutputAssumption DEF OutputInit, OutputTypes, NotYet
<1>3. Remembers
  BY <1>1 DEF Remembers, Printed, LastIs
<1>4. NoFailureIsCompleted /\ LimitIsReported
  BY DEF OutputInit, NotYet, NoFailureIsCompleted, LimitIsReported
<1>5. UsageIsTheLargest
  BY <1>1 DEF OutputInit, UsageIsTheLargest
<1>6. QED
  BY <1>2, <1>3, <1>4, <1>5 DEF OutputInv

(* A line of stdout. *)
LEMMA LineKeepsInv ==
    ASSUME OutputInv, NEW kind \in LineKinds, NEW tokens \in Scores \cup {NoUsage}, NEW ofLimit \in BOOLEAN,
           PrintsLine(kind, tokens, ofLimit)
    PROVE  OutputInv'
<1> DEFINE new == [kind |-> kind, tokens |-> tokens]
           end == Len(lines) + 1
<1>types. OutputTypes
  BY DEF OutputInv
<1>1. new \in Said /\ lines' = Append(lines, new)
  BY DEF Said, PrintsLine
<1>2. /\ lines' \in Seq(Said) /\ DOMAIN lines' = DOMAIN lines \cup {end} /\ end \notin DOMAIN lines
      /\ \A i \in DOMAIN lines : lines'[i] = lines[i] /\ i < end
      /\ lines'[end].kind = kind /\ lines'[end].tokens = tokens /\ end \in Nat
  <2>1. lines \in Seq(Said) /\ end \in Nat
    <3>1. lines \in Seq(Said)
      BY <1>types DEF OutputTypes
    <3>2. QED
      BY <3>1
  <2>2. new.kind = kind /\ new.tokens = tokens
    OBVIOUS
  <2> HIDE DEF new
  <2>3. /\ lines' \in Seq(Said) /\ DOMAIN lines' = DOMAIN lines \cup {end} /\ end \notin DOMAIN lines
        /\ \A i \in DOMAIN lines : lines'[i] = lines[i] /\ i < end
        /\ lines'[end] = new
    BY <1>1, <2>1, AppendedLine
  <2>4. QED
    BY <2>1, <2>2, <2>3
<1>indices. ASSUME NEW i \in DOMAIN lines PROVE i \in Nat /\ lines[i] \in Said
  <2>1. lines \in Seq(Said)
    BY <1>types DEF OutputTypes
  <2>2. QED
    BY <2>1, <1>indices
<1> HIDE DEF end, new
<1>3. OutputTypes'
  BY <1>2, <1>types DEF OutputTypes, PrintsLine, AfterLine, FailedAfter, Better, Results, LineKinds
<1>4. \A k : Printed(k)' = IF k = kind THEN Printed(k) \cup {end} ELSE Printed(k)
  BY <1>2 DEF Printed
<1>5. ASSUME LastIs("failure")'
      PROVE  kind = "failure" \/ (kind \notin Results /\ LastIs("failure"))
  <2>1. PICK i \in Printed("failure")' : \A j \in DOMAIN lines' : lines'[j].kind \in Results => j <= i
    BY <1>5 DEF LastIs
  <2>2. CASE i = end
    BY <1>2, <2>1, <2>2 DEF Printed
  <2>3. CASE i # end
    <3>1. i \in Printed("failure") /\ i < end /\ i \in DOMAIN lines
      BY <1>2, <2>1, <2>3 DEF Printed
    <3>2. i \in Nat
      BY <3>1, <1>indices
    <3>3. kind \notin Results
      BY <1>2, <2>1, <3>1, <3>2
    <3>4. \A j \in DOMAIN lines : lines[j].kind \in Results => j <= i
      BY <1>2, <2>1
    <3>5. QED
      BY <3>1, <3>3, <3>4 DEF LastIs
  <2>4. QED
    BY <2>2, <2>3
<1>6. Remembers'
  <2>1. parse' = AfterLine(kind) /\ adapter' = adapter
    BY DEF PrintsLine
  <2>2. parse'.failed = FailedAfter(kind) /\ parse'.completed = (IF kind \in Results THEN kind = "success" ELSE parse.completed)
        /\ parse'.word = (IF kind \in Results THEN kind ELSE parse.word)
    BY <2>1 DEF AfterLine
  <2>3. CASE adapter = "direct"
    BY <1>4, <2>1, <2>2, <2>3 DEF OutputInv, Remembers, FailedAfter
  <2>4. CASE adapter = "opencode"
    BY <1>4, <2>1, <2>2, <2>4 DEF OutputInv, Remembers, FailedAfter
  <2>5. CASE adapter = "claude"
    BY <1>5, <2>1, <2>2, <2>5 DEF OutputInv, Remembers, FailedAfter, Results
  <2>6. CASE adapter = "gemini"
    BY <1>5, <2>1, <2>2, <2>6 DEF OutputInv, Remembers, Results
  <2>7. QED
    BY <2>1, <2>3, <2>4, <2>5, <2>6 DEF Remembers
<1>7. NoFailureIsCompleted' /\ LimitIsReported'
  BY DEF PrintsLine, NotYet, NoFailureIsCompleted, LimitIsReported
<1>8. UsageIsTheLargest'
  <2> DEFINE said == {lines[i].tokens : i \in DOMAIN lines} \ {NoUsage}
             says == {lines'[i].tokens : i \in DOMAIN lines'} \ {NoUsage}
  <2>1. says = said \cup ({tokens} \ {NoUsage})
    BY <1>2
  <2>2. IF said = {} THEN usage = NoUsage ELSE usage \in said /\ \A n \in said : n <= usage
    BY DEF OutputInv, UsageIsTheLargest
  <2>3. said \subseteq Nat
    <3>1. \A i \in DOMAIN lines : lines[i].tokens \in Scores \cup {NoUsage}
      BY <1>indices DEF Said
    <3>2. QED
      BY <3>1, OutputAssumption
  <2>4. tokens \in Nat \cup {NoUsage} /\ usage' = IF tokens >= usage THEN tokens ELSE usage
    BY OutputAssumption DEF PrintsLine, Better
  <2> HIDE DEF said, says
  <2>5. IF says = {} THEN usage' = NoUsage ELSE usage' \in says /\ \A n \in says : n <= usage'
    <3>1. CASE tokens = NoUsage
      <4>1. says = said
        BY <2>1, <3>1
      <4>2. usage' = usage
        <5>1. usage \in Nat \/ usage = NoUsage
          BY <2>2, <2>3
        <5>2. QED
          BY <2>4, <3>1, <5>1 DEF NoUsage
      <4>3. QED
        BY <2>2, <4>1, <4>2
    <3>2. CASE tokens # NoUsage /\ said = {}
      BY <2>1, <2>2, <2>4, <3>2 DEF NoUsage
    <3>3. CASE tokens # NoUsage /\ said # {}
      <4>1. usage \in said /\ (\A n \in said : n <= usage) /\ usage \in Nat /\ tokens \in Nat
        BY <2>2, <2>3, <2>4, <3>3
      <4>2. says = said \cup {tokens}
        BY <2>1, <3>3
      <4>3. CASE tokens >= usage
        BY <2>3, <2>4, <4>1, <4>2, <4>3
      <4>4. CASE ~(tokens >= usage)
        BY <2>3, <2>4, <4>1, <4>2, <4>4
      <4>5. QED
        BY <4>3, <4>4
    <3>4. QED
      BY <3>1, <3>2, <3>3
  <2>6. QED
    BY <2>5 DEF UsageIsTheLargest, says
<1>9. QED
  BY <1>3, <1>6, <1>7, <1>8 DEF OutputInv

(* The end of the run. *)
LEMMA EndKeepsInv ==
    ASSUME OutputInv, NEW exitedBadly \in BOOLEAN, NEW didChange \in BOOLEAN, Finishes(exitedBadly, didChange)
    PROVE  OutputInv'
<1>1. UNCHANGED <<adapter, lines, parse, usage, complained, limited>>
  BY DEF Finishes
<1>2. result' = [status |-> ProviderStatus(exitedBadly, didChange), changed |-> didChange]
  BY DEF Finishes
<1>types. OutputTypes
  BY DEF OutputInv
<1>3. Parsed \in {"completed", "failed"}
  BY <1>types DEF OutputTypes, Parsers, Parsed, ClaudeParsed, DirectParsed, GeminiParsed, CodexParsed,
     OpencodeParsed, AnyOutput
<1>4. OutputTypes'
  BY <1>1, <1>2, <1>3, <1>types DEF OutputTypes, ProviderStatus
<1>5. Remembers' /\ UsageIsTheLargest'
  BY <1>1 DEF OutputInv, Remembers, UsageIsTheLargest, Printed, LastIs
<1>6. LimitIsReported'
  BY <1>1, <1>2 DEF LimitIsReported, ProviderStatus
<1>7. NoFailureIsCompleted'
  <2> SUFFICES ASSUME Parsed = "completed"
               PROVE  /\ adapter = "direct" => Printed("failure") \cup Printed("error") = {}
                      /\ adapter \in {"claude", "gemini"} => ~LastIs("failure")
                      /\ adapter = "opencode" => Printed("error") = {} /\ ~complained
    BY <1>1, <1>2, <1>3 DEF NoFailureIsCompleted, ProviderStatus, Printed, LastIs
  <2>1. CASE adapter = "direct"
    BY <2>1 DEF OutputInv, Remembers, Parsed, DirectParsed
  <2>2. CASE adapter = "claude"
    BY <2>2 DEF OutputInv, Remembers, Parsed, ClaudeParsed
  <2>3. CASE adapter = "gemini"
    BY <2>3 DEF OutputInv, Remembers, Parsed, GeminiParsed
  <2>4. CASE adapter = "opencode"
    BY <2>4 DEF OutputInv, Remembers, Parsed, OpencodeParsed
  <2>5. QED
    BY <2>1, <2>2, <2>3, <2>4
<1>8. QED
  BY <1>4, <1>5, <1>6, <1>7 DEF OutputInv

LEMMA OutputInvStep == OutputInv /\ [OutputNext]_outputVars => OutputInv'
<1> SUFFICES ASSUME OutputInv, [OutputNext]_outputVars PROVE OutputInv'
  OBVIOUS
<1>1. ASSUME NEW kind \in LineKinds, NEW tokens \in Scores \cup {NoUsage}, NEW ofLimit \in BOOLEAN,
             PrintsLine(kind, tokens, ofLimit)
      PROVE  OutputInv'
  BY <1>1, LineKeepsInv
<1>2. ASSUME NEW ofLimit \in BOOLEAN, Complains(ofLimit) PROVE OutputInv'
  BY <1>2 DEF Complains, OutputInv, OutputTypes, Remembers, NoFailureIsCompleted, LimitIsReported,
              UsageIsTheLargest, Printed, LastIs, NotYet
<1>3. ASSUME NEW exitedBadly \in BOOLEAN, NEW didChange \in BOOLEAN, Finishes(exitedBadly, didChange)
      PROVE  OutputInv'
  BY <1>3, EndKeepsInv
<1>4. CASE UNCHANGED outputVars
  <2>1. OutputTypes' /\ LimitIsReported' /\ UsageIsTheLargest'
    BY <1>4 DEF outputVars, OutputInv, OutputTypes, LimitIsReported, UsageIsTheLargest
  <2>2. Remembers' /\ NoFailureIsCompleted'
    BY <1>4 DEF outputVars, OutputInv, Remembers, NoFailureIsCompleted, Printed, LastIs
  <2>3. QED
    BY <2>1, <2>2 DEF OutputInv
<1>5. QED
  BY <1>1, <1>2, <1>3, <1>4 DEF OutputNext

LEMMA OutputInvHolds == OutputSpec => []OutputInv
  BY OutputInvInit, OutputInvStep, PTL DEF OutputSpec

-----------------------------------------------------------------------------
(* parseOutput of the five adapters: a completed run never had, by the rules of its
   provider, a failure in its stream, however long that was. *)
THEOREM NoFailureCompletes == OutputSpec => []NoFailureIsCompleted
<1>1. OutputInv => NoFailureIsCompleted
  BY DEF OutputInv
<1>2. QED
  BY <1>1, OutputInvHolds, PTL

(* buildProviderResult: a limit spoken of in a run that changed nothing is its status. *)
THEOREM LimitsAreReported == OutputSpec => []LimitIsReported
<1>1. OutputInv => LimitIsReported
  BY DEF OutputInv
<1>2. QED
  BY <1>1, OutputInvHolds, PTL

(* preferUsage: in whatever order partial and final counts come, the run keeps the most
   any one line speaks of. *)
THEOREM LargestUsageKept == OutputSpec => []UsageIsTheLargest
<1>1. OutputInv => UsageIsTheLargest
  BY DEF OutputInv
<1>2. QED
  BY <1>1, OutputInvHolds, PTL

(***************************************************************************)
(* GlobalRegistry: a line is appended last, and a prune writes back what it *)
(* read.                                                                   *)
(***************************************************************************)
CreatePlaces == {"start", "enqueue", "append", "done", "failed"}

RegistryTypes ==
    /\ registry \subseteq Lines /\ registered \subseteq NewTasks
    /\ creating \in [NewTasks -> CreatePlaces]
    /\ running \in [NewTasks -> {"idle", "append", "update"}]
    /\ prune \in [at : {"idle", "write"}, kept : SUBSET NewTasks]
    /\ raced \in BOOLEAN

\* A create is past its queue item when it appends, and what a prune is about to write
\* back has every line it has not raced with.
LinesFollow ==
    /\ \A t \in NewTasks : creating[t] # "start" => t \in created
    /\ \A t \in NewTasks : creating[t] \in {"append", "done"} => t \in queued
    /\ \A t \in NewTasks : running[t] # "idle" => t \in created
    /\ ~raced /\ prune.at = "write" => registered \subseteq prune.kept

RegistryInv == RegistryTypes /\ LinesFollow /\ ListedTasksAreQueued /\ RegistryKeepsTasks

LEMMA RegistryInvInit == RegistryInit => RegistryInv
<1> SUFFICES ASSUME RegistryInit PROVE RegistryInv
  OBVIOUS
<1>1. RegistryTypes
  BY DEF RegistryInit, RegistryTypes, NoPrune, Lines, CreatePlaces
<1>2. LinesFollow /\ ListedTasksAreQueued /\ RegistryKeepsTasks
  BY RegistryAssumption
  DEF RegistryInit, LinesFollow, ListedTasksAreQueued, RegistryKeepsTasks, NoPrune
<1> QED
  BY <1>1, <1>2 DEF RegistryInv

LEMMA RegistryInvStep == RegistryInv /\ [RegistryNext]_regVars => RegistryInv'
<1> SUFFICES ASSUME RegistryInv, [RegistryNext]_regVars PROVE RegistryInv'
  OBVIOUS
<1> USE RegistryAssumption DEF RegistryInv, RegistryTypes, LinesFollow, ListedTasksAreQueued,
                               RegistryKeepsTasks, Lines, CreatePlaces
<1>a. ASSUME NEW t \in NewTasks, AppendEntry(t), UNCHANGED prune
      PROVE  /\ registry' \subseteq registry \cup {t, Garbage} /\ registered' \subseteq NewTasks
             /\ raced' \in BOOLEAN /\ RegistryKeepsTasks'
             /\ ~raced' /\ prune.at = "write" => registered' \subseteq prune.kept
  BY <1>a DEF AppendEntry, Appended, regLines
<1>1. ASSUME NEW t \in NewTasks, CreateTask(t) PROVE RegistryInv'
  BY <1>1 DEF CreateTask, regLines
<1>2. ASSUME NEW t \in NewTasks, Enqueue(t) PROVE RegistryInv'
  BY <1>2 DEF Enqueue, regLines
<1>3. ASSUME NEW t \in NewTasks, RunTask(t) \/ UpdateQueueItem(t) \/ RunStops(t) PROVE RegistryInv'
  BY <1>3 DEF RunTask, UpdateQueueItem, RunStops, regLines
<1>4. ASSUME NEW t \in NewTasks, Announce(t) PROVE RegistryInv'
  <2>1. /\ UNCHANGED <<running, created, queued, prune, stopped>> /\ t \in created \cap queued
        /\ creating' = [creating EXCEPT ![t] = "done"] /\ AppendEntry(t)
    BY <1>4 DEF Announce
  <2> QED
    BY <1>a, <2>1
<1>8. ASSUME NEW t \in NewTasks, AnnounceRoute(t) PROVE RegistryInv'
  <2>1. /\ UNCHANGED <<creating, created, queued, prune, stopped>> /\ t \in created
        /\ running' = [running EXCEPT ![t] = "update"] /\ AppendEntry(t)
    BY <1>8 DEF AnnounceRoute
  <2>2. \A u \in NewTasks \ {t} : running'[u] = running[u]
    BY <2>1
  <2> QED
    BY <1>a, <2>1, <2>2
<1>5. CASE PruneRead
  BY <1>5 DEF PruneRead, NoPrune, Kept, regLines
<1>6. CASE PruneReplace
  BY <1>6 DEF PruneReplace, NoPrune
<1>7. CASE UNCHANGED regVars
  BY <1>7 DEF regVars, regLines
<1> QED
  BY <1>1, <1>2, <1>3, <1>4, <1>5, <1>6, <1>7, <1>8 DEF RegistryNext

LEMMA RegistryInvariant == RegistrySpec => []RegistryInv
  BY RegistryInvInit, RegistryInvStep, PTL DEF RegistrySpec

(* For any tasks, wherever their create and run commands are ended: one whose line can be found
   has its directory, and its queue item too, unless a run of it is between its line and its
   queue item, or has ended there. *)
THEOREM ListedAreQueued == RegistrySpec => []ListedTasksAreQueued
<1>1. RegistryInv => ListedTasksAreQueued
  BY DEF RegistryInv
<1> QED
  BY <1>1, RegistryInvariant, PTL

(* Any number of prunes loses no line, but for one appended between a prune's read
   and its rename. *)
THEOREM LinesAreKept == RegistrySpec => []RegistryKeepsTasks
<1>1. RegistryInv => RegistryKeepsTasks
  BY DEF RegistryInv
<1> QED
  BY <1>1, RegistryInvariant, PTL

(***************************************************************************)
(* WakeFiles: for any workers, any number of runs and any settings: a wake *)
(* file never says that a task is completed before its record does, and a  *)
(* notice that cannot be written changes nothing of the run's outcome.     *)
(***************************************************************************)
Notices == {"none", "worker_finished", "task_completed"}

RunTypes ==
    /\ wake \in [NoticeWorkers -> [status : Notices \cup {"torn"}, run : Nat]]
    /\ run \in [at : {"idle", "working", "project", "user", "open", "fill", "record", "return"},
                number : Nat, worker : NoticeWorkers \cup {"none"},
                outcome : {"none", "completed", "failed"}]
    /\ env \in Switches /\ projectConfig \in Configs /\ userConfig \in Configs
    /\ notice \in [tells : Notices, project : Configs]
    /\ lastRun \in [steady : BOOLEAN, written : BOOLEAN,
                    ended : {"none", "threw", "killed", "completed", "failed"}]

Notifying == run.at \in {"project", "user", "open", "fill"}

\* What is told is true by then.
TellsTheTruth ==
    /\ run.at # "idle" => run.worker \in NoticeWorkers
    /\ Notifying => notice.tells # "none"
    /\ Notifying /\ notice.tells = "task_completed" => run.number \in finished
    /\ run.at = "fill" => wake[run.worker].run = run.number

\* So is what is returned.
ReturnsTheTruth ==
    /\ run.at = "return" /\ run.outcome = "completed" => run.number \in finished
    /\ run.at = "idle" /\ lastRun.ended = "completed" => run.number \in finished

WakeInv == RunTypes /\ TellsTheTruth /\ ReturnsTheTruth /\ CompletedWakeIsBacked

LEMMA WakeInvInit == WakeInit => WakeInv
  BY DEF WakeInit, WakeInv, RunTypes, Notifying, TellsTheTruth, ReturnsTheTruth, CompletedWakeIsBacked,
     NoWake, NoRun, NoNotice, Configs, Switches, Notices

LEMMA WakeInvStep == WakeInv /\ [WakeNext]_wakeVars => WakeInv'
<1> SUFFICES ASSUME WakeInv, [WakeNext]_wakeVars PROVE WakeInv'
  OBVIOUS
<1> USE DEF WakeInv, RunTypes, TellsTheTruth, ReturnsTheTruth, CompletedWakeIsBacked, Notifying, Notices
<1>1. CASE EditConfig
  BY <1>1 DEF EditConfig
<1>2. ASSUME NEW w \in NoticeWorkers, StartNoticeRun(w) PROVE WakeInv'
  BY <1>2 DEF StartNoticeRun
<1>3. ASSUME NEW o \in {"completed", "failed"}, FinishWorker(o) PROVE WakeInv'
  BY <1>3 DEF FinishWorker
<1>4. CASE NeverLaunched
  BY <1>4 DEF NeverLaunched
<1>5. CASE ReadProjectConfig
  BY <1>5 DEF ReadProjectConfig
<1>6. CASE ReadUserConfig
  BY <1>6 DEF ReadUserConfig, AfterNotice
<1>7. CASE OpenWake
  BY <1>7 DEF OpenWake
<1>8. CASE FillWake
  BY <1>8 DEF FillWake, Payload, AfterNotice
<1>9. CASE WakeFails
  BY <1>9 DEF WakeFails, AfterError, AfterNotice
<1>10. CASE RecordOutcome
  BY <1>10 DEF RecordOutcome, NoNotice, Configs, Switches
<1>11. CASE ReturnOutcome
  BY <1>11 DEF ReturnOutcome, NoNotice, Configs, Switches
<1>12. CASE KillNoticeRun
  BY <1>12 DEF KillNoticeRun, NoNotice, Configs, Switches
<1>13. CASE UNCHANGED wakeVars
  BY <1>13 DEF wakeVars
<1>14. QED
  BY <1>1, <1>2, <1>3, <1>4, <1>5, <1>6, <1>7, <1>8, <1>9, <1>10, <1>11, <1>12, <1>13 DEF WakeNext

LEMMA WakeInvHolds == WakeSpec => []WakeInv
  BY WakeInvInit, WakeInvStep, PTL DEF WakeSpec

-----------------------------------------------------------------------------
(* taskRun tells task_completed after state.json and the queue: whenever it is
   killed, a wake file that says completed is about a recorded run. *)
THEOREM CompletedWakeBacked == WakeSpec => []CompletedWakeIsBacked
<1>1. WakeInv => CompletedWakeIsBacked
  BY DEF WakeInv
<1>2. QED
  BY <1>1, WakeInvHolds, PTL

(* The run prints what a notice throws: whatever fails in one, a run that returns completed was
   recorded so. *)
THEOREM NoticesAreFree == WakeSpec => []NoticeCostsNothing
<1>1. WakeInv => NoticeCostsNothing
  BY DEF WakeInv, ReturnsTheTruth, NoticeCostsNothing
<1>2. QED
  BY <1>1, WakeInvHolds, PTL

-----------------------------------------------------------------------------
(***************************************************************************)
(* The settings are read anew for each of the two notices of a run.  While *)
(* nobody edits them both follow the same promise, and what the wake file  *)
(* shows after the first is what the second finds there.                   *)
(***************************************************************************)
Steady == lastRun.steady /\ lastRun.written

\* The run has not opened its wake file yet.
Unopened == run.at = "working"
            \/ (run.at \in {"project", "user", "open"} /\ notice.tells = "worker_finished")

\* The first notice is through, and no other one is being written.
FirstIsThrough ==
    \/ run.at = "record"
    \/ run.at \in {"project", "user", "open"} /\ notice.tells = "task_completed"
    \/ run.at = "return" /\ run.outcome = "failed"

\* The run's wake file tells this if one is promised, and is not the run's otherwise.
Shows(status) ==
    IF WakePromised THEN wake[run.worker] = [status |-> status, run |-> run.number]
                    ELSE wake[run.worker].run # run.number

RunsInOrder ==
    /\ \A w \in NoticeWorkers : wake[w].run <= run.number
    /\ Unopened => \A w \in NoticeWorkers : wake[w].run < run.number
    /\ run.at \notin {"idle", "working"} => run.outcome \in {"completed", "failed"}
    /\ Notifying /\ notice.tells = "task_completed" => run.outcome = "completed"

FollowsSettings ==
    Steady =>
        /\ run.at = "user" => notice.project = projectConfig
        /\ run.at \in {"open", "fill"} => WakePromised
        /\ FirstIsThrough => Shows("worker_finished")
        /\ run.at = "return" /\ run.outcome = "completed" => Shows("task_completed")
        /\ run.at = "idle" /\ lastRun.ended = "completed" => Shows("task_completed")
        /\ run.at = "idle" /\ lastRun.ended = "failed" => Shows("worker_finished")

SettingsInv == WakeInv /\ RunsInOrder /\ FollowsSettings

\* The nested conditions of the code and the layers of its comment agree.
LEMMA MergedIsPromise ==
    ASSUME env \in Switches, projectConfig \in Configs, userConfig \in Configs
    PROVE  Merged(projectConfig, userConfig) = WakePromised
<1>1. Layers[1] = env /\ Layers[2] = projectConfig /\ Layers[3] = userConfig
  BY DEF Layers
<1>2. WakePromised <=> \/ ~Asked(1) /\ ~Asked(2) /\ ~Asked(3)
                       \/ Layers[1] = "on"
                       \/ Layers[2] = "on" /\ ~Asked(1)
                       \/ Layers[3] = "on" /\ ~Asked(1) /\ ~Asked(2)
  <2>1. 1..3 = {1, 2, 3} /\ 1..0 = {} /\ 1..1 = {1} /\ 1..2 = {1, 2}
    OBVIOUS
  <2>2. (\E i \in {1, 2, 3} : Layers[i] = "on" /\ \A j \in 1..(i - 1) : ~Asked(j))
          <=> \/ Layers[1] = "on" /\ \A j \in 1..0 : ~Asked(j)
              \/ Layers[2] = "on" /\ \A j \in 1..1 : ~Asked(j)
              \/ Layers[3] = "on" /\ \A j \in 1..2 : ~Asked(j)
    OBVIOUS
  <2> QED BY <2>1, <2>2 DEF WakePromised
<1>3. Merged(projectConfig, userConfig) <=> WakePromised
  BY <1>1, <1>2 DEF Asked, Merged, Configs, Switches
<1> QED BY <1>3 DEF Merged, WakePromised

LEMMA SettingsInit == WakeInit => SettingsInv
  BY WakeInvInit DEF WakeInit, SettingsInv, RunsInOrder, FollowsSettings, Unopened, FirstIsThrough, Notifying,
     NoWake, NoRun, NoNotice

\* A step that edits no setting and keeps the run's name keeps what is promised.
LEMMA ShowsKept ==
    ASSUME UNCHANGED <<env, userConfig, projectConfig>>
    PROVE  /\ WakePromised' = WakePromised
           /\ UNCHANGED wake /\ run'.worker = run.worker /\ run'.number = run.number
                => \A status : Shows(status)' = Shows(status)
  BY DEF WakePromised, Asked, Layers, Shows

LEMMA RunsInOrderStep == SettingsInv /\ [WakeNext]_wakeVars => RunsInOrder'
<1> SUFFICES ASSUME SettingsInv, [WakeNext]_wakeVars PROVE RunsInOrder'
  OBVIOUS
<1> USE DEF SettingsInv, WakeInv, RunTypes, RunsInOrder, Unopened, Notifying, Notices
<1>1. CASE EditConfig
  BY <1>1 DEF EditConfig
<1>2. ASSUME NEW w \in NoticeWorkers, StartNoticeRun(w) PROVE RunsInOrder'
  BY <1>2 DEF StartNoticeRun
<1>3. ASSUME NEW o \in {"completed", "failed"}, FinishWorker(o) PROVE RunsInOrder'
  BY <1>3 DEF FinishWorker
<1>4. CASE NeverLaunched \/ ReadProjectConfig
  BY <1>4 DEF NeverLaunched, ReadProjectConfig
<1>5. CASE ReadUserConfig
  BY <1>5 DEF ReadUserConfig, AfterNotice
<1>6. CASE OpenWake
  BY <1>6 DEF OpenWake
<1>7. CASE FillWake
  BY <1>7 DEF FillWake, AfterNotice
<1>8. CASE WakeFails
  BY <1>8 DEF WakeFails, AfterError, AfterNotice
<1>9. CASE RecordOutcome
  BY <1>9 DEF RecordOutcome, NoNotice
<1>10. CASE ReturnOutcome \/ KillNoticeRun
  BY <1>10 DEF ReturnOutcome, KillNoticeRun, NoNotice
<1>11. CASE UNCHANGED wakeVars
  BY <1>11 DEF wakeVars
<1> QED BY <1>1, <1>2, <1>3, <1>4, <1>5, <1>6, <1>7, <1>8, <1>9, <1>10, <1>11 DEF WakeNext

LEMMA FollowsStep == SettingsInv /\ [WakeNext]_wakeVars => FollowsSettings'
<1> SUFFICES ASSUME SettingsInv, [WakeNext]_wakeVars PROVE FollowsSettings'
  OBVIOUS
<1> USE DEF SettingsInv, WakeInv, RunTypes, TellsTheTruth, RunsInOrder, FollowsSettings, Steady, Unopened,
            FirstIsThrough, Notifying, Notices
<1>1. CASE EditConfig
  BY <1>1 DEF EditConfig
<1>2. ASSUME NEW w \in NoticeWorkers, StartNoticeRun(w) PROVE FollowsSettings'
  BY <1>2 DEF StartNoticeRun
<1>3. ASSUME NEW o \in {"completed", "failed"}, FinishWorker(o) PROVE FollowsSettings'
  BY <1>3 DEF FinishWorker
<1>4. CASE NeverLaunched
  BY <1>4 DEF NeverLaunched
<1>5. CASE ReadProjectConfig
  BY <1>5, ShowsKept DEF ReadProjectConfig
<1>6. CASE ReadUserConfig
  <2>1. Steady => Merged(notice.project, userConfig) = WakePromised
    BY <1>6, MergedIsPromise DEF ReadUserConfig
  <2>2. /\ run.at = "user" /\ UNCHANGED <<wake, notice, lastRun, projectConfig>>
        /\ run' = [run EXCEPT !.at = IF Merged(notice.project, userConfig) THEN "open" ELSE AfterNotice]
        /\ WakePromised' = WakePromised /\ \A status : Shows(status)' = Shows(status)
    BY <1>6, ShowsKept DEF ReadUserConfig
  <2>3. CASE Merged(notice.project, userConfig)
    BY <2>1, <2>2, <2>3
  <2>4. CASE ~Merged(notice.project, userConfig)
    <3>1. Steady => ~WakePromised
      BY <2>1, <2>4
    <3>2. notice.tells = "worker_finished" => \A status : ~WakePromised => Shows(status)
      BY <2>2 DEF Shows
    <3> QED BY <2>2, <2>4, <3>1, <3>2 DEF AfterNotice, Shows
  <2> QED BY <2>3, <2>4
<1>7. CASE OpenWake
  BY <1>7, ShowsKept DEF OpenWake
<1>8. CASE FillWake
  <2>1. /\ run.at = "fill" /\ UNCHANGED <<notice, lastRun, projectConfig>> /\ WakePromised' = WakePromised
        /\ run' = [run EXCEPT !.at = AfterNotice]
    BY <1>8, ShowsKept DEF FillWake
  <2>2. wake'[run.worker] = [status |-> notice.tells, run |-> run.number]
    BY <1>8 DEF FillWake, Payload
  <2>3. Steady => Shows(notice.tells)'
    BY <2>1, <2>2 DEF Shows
  <2>4. notice.tells \in {"worker_finished", "task_completed"}
    BY <2>1
  <2> QED BY <2>1, <2>3, <2>4 DEF AfterNotice
<1>9. CASE WakeFails
  BY <1>9 DEF WakeFails
<1>10. CASE RecordOutcome
  BY <1>10, ShowsKept DEF RecordOutcome, NoNotice
<1>11. CASE ReturnOutcome
  BY <1>11, ShowsKept DEF ReturnOutcome
<1>12. CASE KillNoticeRun
  BY <1>12 DEF KillNoticeRun
<1>13. CASE UNCHANGED wakeVars
  BY <1>13, ShowsKept DEF wakeVars
<1> QED BY <1>1, <1>2, <1>3, <1>4, <1>5, <1>6, <1>7, <1>8, <1>9, <1>10, <1>11, <1>12, <1>13 DEF WakeNext

(* notifyTaskEvent reads two files and the environment for each notice: over a run during which
   nobody edits them its wake file is there if and only if the layers ask for one, and then it
   tells the run's last notice. *)
THEOREM WakeAsAsked == WakeSpec => []WakeFollowsSettings
<1>1. SettingsInv /\ [WakeNext]_wakeVars => SettingsInv'
  BY WakeInvStep, RunsInOrderStep, FollowsStep DEF SettingsInv
<1>2. SettingsInv => WakeFollowsSettings
  BY DEF SettingsInv, FollowsSettings, Steady, Shows, WakeFollowsSettings
<1> QED BY <1>1, <1>2, SettingsInit, PTL DEF WakeSpec
=============================================================================
