--------------------------- MODULE MCTaskLifecycle ---------------------------
(***************************************************************************)
(* Small instances of TaskLifecycle for TLC.  Terminals are                *)
(* interchangeable: no action and no safety property names one.            *)
(***************************************************************************)
EXTENDS TaskLifecycle, TLC

Terminals == Permutations(Procs)

\* Where nothing is validated nobody tells one capture from another.
OneCapture == {<<"good", "good">>}
=============================================================================
