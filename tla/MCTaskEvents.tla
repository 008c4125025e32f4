---------------------------- MODULE MCTaskEvents ----------------------------
(* TaskEvents for TLC: a watch asks for every session or for one of them.  *)
EXTENDS TaskEvents, TLC

CONSTANT s1
SomeFilters == {Sessions, {s1}}
WatcherSymmetry == Permutations(Watchers)
=============================================================================
