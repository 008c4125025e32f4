----------------------------- MODULE MCPeerAuth -----------------------------
(* PeerAuth with interchangeable credentials and requests.                 *)
EXTENDS PeerAuth, TLC

\* A clock that is behind, and one that is ahead.
BothWays == {-1, 1}

\* The clock is behind, the target has no name yet, the group is open: one of these
\* at most, and then only the target is in the group.
MCInit ==
  /\ Init
  /\ \/ drift > 0 /\ named /\ Open(policy) = {}
     \/ /\ member["sender"] = {} /\ member["target"] = Groups
        /\ \/ named /\ Open(policy) = {}
           \/ drift > 0 /\ (named \/ Open(policy) = {})
MCSpec == MCInit /\ [][Next]_vars

\* The specification and its invariants name none of them.
Symmetry == Permutations(Creds) \cup Permutations(Uses)
=============================================================================
