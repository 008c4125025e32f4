----------------------------- MODULE MCServices -----------------------------
(***************************************************************************)
(* Four components that share no state, checked in one run: the streams    *)
(* to viewing clients, Waits, the key-value store and the link from the    *)
(* relay to a node.  A behaviour is one of one of them, and the others     *)
(* stay as they begin.                                                     *)
(***************************************************************************)
EXTENDS SessionStream, WaitHandler, KVStore, RelayLink

VARIABLE part

Inits == /\ Init /\ WaitInit /\ KVInit /\ RelayInit
         /\ part \in {"stream", "wait", "store", "link"}
         /\ part # "stream" => \A v \in Viewers : viewer[v].kind = "attach"

Nexts ==
  /\ UNCHANGED part
  /\ \/ part = "stream" /\ Next /\ UNCHANGED <<waitVars, kvVars, relayVars>>
     \/ part = "wait" /\ WaitNext /\ UNCHANGED <<vars, kvVars, relayVars>>
     \/ part = "store" /\ KVNext /\ UNCHANGED <<vars, waitVars, relayVars>>
     \/ part = "link" /\ RelayNext /\ UNCHANGED <<vars, waitVars, kvVars>>

\* The fairness each part's own module states; in a part that stays as it begins no
\* step must happen.
FairParts ==
  /\ Inits /\ [][Nexts]_<<vars, waitVars, kvVars, relayVars, part>>
  /\ WaitFairness /\ KVFairness /\ RelayFairness
=============================================================================
