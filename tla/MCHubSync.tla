----------------------------- MODULE MCHubSync -----------------------------
(* HubSync for TLC: interchangeable processes are a symmetry set in the     *)
(* safety runs.                                                             *)
EXTENDS HubSync, TLC

Symmetry == Permutations(Syncs) \union Permutations(Retries)
=============================================================================
