----------------------------- MODULE ModelCatalog -----------------------------
(***************************************************************************)
(* How a model a provider advertises becomes a catalog entry: its price    *)
(* category, whether it needs the user's approval, and whether it may be   *)
(* given coding work.  An advertised model is a record of what the         *)
(* sources' patterns find in it:                                           *)
(*   coding   its name or description speaks of code                       *)
(*   modal    its name speaks of images, speech, embeddings ...            *)
(*   vision   its modality includes images                                 *)
(*   long     its context window is known and has 64k tokens or more       *)
(*   tools    it advertises tools or structured output                     *)
(*   free     its id is one of the provider's free ones                    *)
(*   prices   the prices that parse, as integers                           *)
(***************************************************************************)
EXTENDS Integers

AdvertisedModels ==
    [id : STRING, coding : BOOLEAN, modal : BOOLEAN, vision : BOOLEAN, long : BOOLEAN,
     tools : BOOLEAN, free : BOOLEAN, prices : SUBSET Int]

DefaultProviders == <<"manual", "codex", "claude", "zai", "opencode", "kilo", "cline",
    "openrouter", "github-models", "gemini", "nvidia-nim", "mistral", "groq">>
AllProviders == {DefaultProviders[i] : i \in DOMAIN DefaultProviders}
DefaultOrder == [p \in AllProviders |-> CHOOSE i \in DOMAIN DefaultProviders : DefaultProviders[i] = p]
DirectLaunch == {"manual", "codex", "claude", "zai", "gemini", "opencode", "kilo", "cline"}
CloudProviders == AllProviders \ {"manual", "kilo", "cline"}

\* classifyNumericPricing: only a price above zero makes a model paid.
PriceCategory(prices) ==
    IF prices = {} THEN "unknown"
    ELSE IF \E x \in prices : x > 0 THEN "paid_api" ELSE "free_api"

RequiresApproval(cost, stale) == cost = "unknown" \/ (cost = "paid_api" /\ stale)

\* evaluateCodingModelGate: no approval, a known price, and a model for code in
\* the cloud.
PassesGate(p, m, cost, approval) ==
    /\ p \in CloudProviders /\ ~approval /\ cost # "unknown"
    /\ m.coding /\ ~m.modal /\ ~m.vision /\ m.tools /\ m.long

\* createEntry.
Gated(p, m, cost) ==
    LET approval == RequiresApproval(cost, FALSE)
    IN [provider |-> p, id |-> m.id, cost |-> cost, approval |-> approval,
        eligible |-> PassesGate(p, m, cost, approval)]

\* createCatalogEntry has conditions of its own; none of its callers but the
\* placeholders asks for approval.
Plain(p, m, cost) ==
    [provider |-> p, id |-> m.id, cost |-> cost, approval |-> FALSE,
     eligible |-> m.coding /\ ~m.modal /\ m.long /\ cost # "unknown"]

(***************************************************************************)
(* One entry of each source: what the service or CLI says of a model, and  *)
(* what the source puts in itself.                                         *)
(***************************************************************************)
Long(m) == [m EXCEPT !.long = TRUE]
AccountCost(m) == IF m.free THEN "free_quota" ELSE "subscription"

OpenRouterEntry(m) == Gated("openrouter", m, PriceCategory(m.prices))
GitHubEntry(m)     == Gated("github-models", m, "free_quota")
\* All that is said of a model here is its name.
NvidiaEntry(m)     == Gated("nvidia-nim", [m EXCEPT !.vision = FALSE, !.tools = m.coding, !.long = m.coding],
                            "free_quota")
GeminiEntry(m)     == Plain("gemini", m, "free_quota")
MistralEntry(m)    == Plain("mistral", Long(m), "free_quota")
GroqEntry(m)       == Plain("groq", Long(m), "free_quota")
CodexEntry(m)      == Plain("codex", Long(m), "subscription")
OpencodeEntry(m)   == Plain("opencode", Long(m), AccountCost(m))
\* Their display name says that a model is for code.
KiloEntry(m)       == Plain("kilo", [Long(m) EXCEPT !.coding = TRUE], AccountCost(m))
ClineEntry(m)      == Plain("cline", [Long(m) EXCEPT !.coding = TRUE], AccountCost(m))
\* claude and zai list a placeholder for a catalog that cannot be seen.
Placeholder(p)     == [provider |-> p, id |-> "account-catalog-unavailable", cost |-> "subscription",
                       approval |-> TRUE, eligible |-> FALSE]

EntryOf(p, m) ==
    CASE p = "openrouter" -> OpenRouterEntry(m) [] p = "github-models" -> GitHubEntry(m)
      [] p = "nvidia-nim" -> NvidiaEntry(m)     [] p = "gemini" -> GeminiEntry(m)
      [] p = "mistral" -> MistralEntry(m)       [] p = "groq" -> GroqEntry(m)
      [] p = "codex" -> CodexEntry(m)           [] p = "opencode" -> OpencodeEntry(m)
      [] p = "kilo" -> KiloEntry(m)             [] p = "cline" -> ClineEntry(m)
      [] OTHER -> Placeholder(p)

\* A catalog on disk: what one refresh found, or nothing and the error.
Entries(p, advertised) == [i \in DOMAIN advertised |-> EntryOf(p, advertised[i])]
NoCatalog == [form |-> "none", entries |-> <<>>]
FailedCatalog == [form |-> "error", entries |-> <<>>]
CatalogOf(p, advertised) == [form |-> "ok", entries |-> Entries(p, advertised)]

\* Mutant of MarkStale: a stale price is only remarked upon.
MarkStaleTagged(e, stale) == e

\* The price of a paid model is good for a day.
MarkStale(e, stale) ==
    IF stale /\ e.cost \in {"paid_api", "unknown"}
    THEN [e EXCEPT !.approval = TRUE, !.eligible = FALSE] ELSE e

\* listModels without filters.
Shown(e) == ~e.approval \/ e.cost # "unknown"

\* scoreRoute; `model` is an entry or NoModel.
NoModel == [provider |-> "none", id |-> "none", cost |-> "none", approval |-> FALSE, eligible |-> FALSE]

CostBonus(cost) ==
    CASE cost = "free_api" -> 25 [] cost = "free_quota" -> 20
      [] cost = "subscription" -> 10 [] cost = "paid_api" -> -10 [] OTHER -> 0

Score(availability, risk, model) ==
    IF availability \in {"unavailable", "unknown"} THEN -1
    ELSE IF availability = "limited" /\ risk = "high" THEN 10
    ELSE (IF availability = "available" THEN 50 ELSE 20) + CostBonus(model.cost)
         - (IF model.approval THEN 100 ELSE 0) + (IF model.eligible THEN 20 ELSE 0)

FallbackProviders(risk) ==
    IF risk = "high" THEN <<"manual", "codex", "claude", "zai", "gemini", "opencode">>
    ELSE <<"manual", "codex", "claude", "gemini", "opencode", "kilo", "cline", "zai",
           "openrouter", "github-models", "nvidia-nim", "mistral", "groq">>
=============================================================================
