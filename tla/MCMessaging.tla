---------------------------- MODULE MCMessaging ----------------------------
(* Messaging on small instances.                                           *)
EXTENDS Messaging, TLC

Symmetry == Permutations(Sessions) \cup Permutations(Requests) \cup Permutations(Repliers)
=============================================================================
