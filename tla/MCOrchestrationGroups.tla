----------------------- MODULE MCOrchestrationGroups -----------------------
(***************************************************************************)
(* Instances of OrchestrationGroups for TLC: workloads, group names and    *)
(* processes are interchangeable.                                          *)
(***************************************************************************)
EXTENDS OrchestrationGroups, TLC

Symmetry == Permutations(Sessions) \cup Permutations(GroupIds) \cup Permutations(Clients)
=============================================================================
