---------------------------- MODULE MCScriptRuns ----------------------------
(***************************************************************************)
(* Instances of ScriptRuns for TLC. Users, sales and the identities of     *)
(* runs are interchangeable.                                               *)
(***************************************************************************)
EXTENDS ScriptRuns, TLC

Symmetry == Permutations(Users) \cup Permutations(Sales) \cup Permutations(RunIds)
==============================================================================
