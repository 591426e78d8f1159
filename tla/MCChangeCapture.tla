---------------------------- MODULE MCChangeCapture ----------------------------
(***************************************************************************)
(* Values for ChangeCapture's constants: a repository with every file but  *)
(* the bundle, and one with a single file.                                 *)
(***************************************************************************)
EXTENDS ChangeCapture

PatchSizes == [t \in Texts |-> IF t = "b" THEN 2 ELSE 1]
StartingRepositories ==
    {[f \in Paths |-> IF f = BundlePath THEN NoText ELSE "a"],
     [f \in Paths |-> IF f = "src/a.ts" THEN "b" ELSE NoText]}
=============================================================================
