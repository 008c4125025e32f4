--------------------------- MODULE MCAccessEvents ---------------------------
(* AccessEvents with interchangeable watchers, and grants of each network. *)
EXTENDS AccessEvents, TLC

\* The specification and its invariants name no watcher and no grant.
Symmetry == Permutations(Watchers) \cup Permutations(Own)
=============================================================================
