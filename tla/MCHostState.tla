----------------------------- MODULE MCHostState -----------------------------
(* HostState for TLC; commands and services are interchangeable.             *)
EXTENDS HostState, TLC

StateSymmetry == Permutations(Commands) \cup Permutations(Services)
=============================================================================
