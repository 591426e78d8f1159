--------------------------- MODULE MCRuntimeFiles ---------------------------
(***************************************************************************)
(* A small instance of RuntimeFiles for TLC: gemini reads its key from two *)
(* variables, codex has none, and one terminal inherits a key.             *)
(***************************************************************************)
EXTENDS RuntimeFiles, TLC

CONSTANTS t1, t2, gemini, codex, v1, v2, k1, k2

TwoVars == (gemini :> Vars) @@ (codex :> {})
OneInherits == (t1 :> [v \in Vars |-> NoKey])
               @@ (t2 :> [v \in Vars |-> IF v = v1 THEN k2 ELSE NoKey])

Set(q, a)    == [op |-> "set_status", provider |-> q, to |-> a]
Key(q, v, k) == [op |-> "set_key", provider |-> q, var |-> v, key |-> k]
SomeCommands ==
    {[op |-> "status"], [op |-> "upgrade"], [op |-> "clear_key", provider |-> gemini],
     Set(gemini, Default), Set(codex, CHOOSE a \in Overrides : TRUE),
     Key(gemini, v1, k1), Key(gemini, v2, k2), Key(codex, v1, NoKey)}
=============================================================================
