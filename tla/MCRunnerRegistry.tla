-------------------------- MODULE MCRunnerRegistry --------------------------
(***************************************************************************)
(* Instances of RunnerRegistry.  Operation goroutines and connections are  *)
(* interchangeable.                                                        *)
(***************************************************************************)
EXTENDS RunnerRegistry, TLC

Symmetry == Permutations(Ops) \cup Permutations(Hubs)
=============================================================================
