------------------------------ MODULE MCRunParts ------------------------------
(***************************************************************************)
(* The parts a run of a task passes through besides its own files, each by *)
(* itself: `part` is the one that moves, the others stay where they begin. *)
(* They share no state, so this is every behaviour of each.                *)
(***************************************************************************)
EXTENDS TaskQueue, GlobalRegistry, ModelRouting, ContextPack, MCChangeCapture, WorkerOutput,
        WakeFiles, TLC

VARIABLE part

(***************************************************************************)
(* Values of the constants.                                                *)
(***************************************************************************)
Model(id, coding, vision, prices) ==
    [id |-> id, coding |-> coding, modal |-> FALSE, vision |-> vision, long |-> TRUE,
     tools |-> TRUE, free |-> FALSE, prices |-> prices]

Catalogs == [p \in Installed |->
    CASE p = "codex"  -> {<<Model("chat", FALSE, FALSE, {}), Model("coder", TRUE, FALSE, {})>>}
      [] p = "gemini" -> {<<Model("coder", TRUE, FALSE, {})>>, <<Model("chat", FALSE, FALSE, {})>>}
      [] p = "openrouter" -> {<<Model("paid", TRUE, FALSE, {3, 0})>>,
                              <<Model("seeing", TRUE, TRUE, {0}), Model("zero", TRUE, FALSE, {0})>>,
                              <<Model("priceless", TRUE, FALSE, {})>>}
      [] OTHER -> {}]

Request(r, p, m) == [risk |-> r, provider |-> p, model |-> m]
RunRequests == {Request("low", "any", "any"), Request("high", "any", "any"),
                Request("low", "codex", "any"), Request("low", "codex", "chat"),
                Request("high", "any", "coder"), Request("low", "any", "paid")}

\* Two full files fill the budget to the byte, when one of them is short.
FileSizes    == "short" :> 3 @@ "long" :> 8 @@ "vast" :> 20
SummarySizes == "short" :> 3 @@ "long" :> 4 @@ "vast" :> 4
FileScores   == [x \in Files \X Contents |-> IF x[2] = "long" THEN 2 ELSE 1]
PathsInOrder == "a" :> 1 @@ "b" :> 2 @@ "c" :> 3
PackLimits   == [files |-> 1, bytes |-> 11, summaries |-> 1]

(***************************************************************************)
(* One part moves.                                                         *)
(***************************************************************************)
Parts == {"queue", "registry", "routing", "context", "changes", "output", "wake"}

Some(S) == CHOOSE x \in S : TRUE

PartsInit ==
    /\ part \in Parts
    /\ Init
    /\ RegistryInit /\ (part = "registry" \/ registry = {})
    /\ RoutingInit  /\ (part = "routing" \/ probe = [p \in Installed |-> Some(Probed(p))])
    /\ PackInit     /\ (part = "context" \/ repo = [f \in Files |-> Some(Contents)])
    /\ CaptureInit  /\ (part = "changes" \/ source = Some(Repositories))
    /\ OutputInit   /\ (part = "output" \/ adapter = Some(Adapters))
    /\ WakeInit     /\ (part = "wake" \/ {env, userConfig, projectConfig} = {"unset"})

Only(p) ==
    /\ part = p /\ UNCHANGED part
    /\ p = "queue"    \/ UNCHANGED vars
    /\ p = "registry" \/ UNCHANGED regVars
    /\ p = "routing"  \/ UNCHANGED routingVars
    /\ p = "context"  \/ UNCHANGED packVars
    /\ p = "changes"  \/ UNCHANGED captureVars
    /\ p = "output"   \/ UNCHANGED outputVars
    /\ p = "wake"     \/ UNCHANGED wakeVars

PartsNext ==
    \/ Only("queue")    /\ Next
    \/ Only("registry") /\ RegistryNext
    \/ Only("routing")  /\ RoutingNext
    \/ Only("context")  /\ PackNext
    \/ Only("changes")  /\ CaptureNext
    \/ Only("output")   /\ OutputNext
    \/ Only("wake")     /\ WakeNext

PartsSpec ==
    PartsInit /\ [][PartsNext]_<<part, vars, regVars, routingVars, packVars, captureVars, outputVars,
                               wakeVars>>
=============================================================================
