----------------------------- MODULE ReplyCell -----------------------------
(***************************************************************************)
(* What the request/reply service of a node promises, without locks, maps  *)
(* or channels: a request is opened once, is taken by one reply of those   *)
(* that are entitled to it, or is closed untaken; and a reply takes one    *)
(* request.  Messaging implements it.                                      *)
(***************************************************************************)
CONSTANTS Requests, Repliers

VARIABLES
  cell,      \* for each request: where it is, and the replies that took it
  entitled   \* the requests each reply may take

Cell(at, by) == [at |-> at, by |-> by]

Init ==
  /\ cell = [r \in Requests |-> Cell("new", {})]
  /\ entitled = [p \in Repliers |-> {}]

\* A reply arrives, and who sends it says which requests it may take.
Arrive(p, requests) ==
  /\ entitled[p] = {}
  /\ entitled' = [entitled EXCEPT ![p] = requests]
  /\ UNCHANGED cell

Open(r) ==
  /\ cell[r].at = "new"
  /\ cell' = [cell EXCEPT ![r] = Cell("open", {})]
  /\ UNCHANGED entitled

Take(r, p) ==
  /\ cell[r].at = "open"
  /\ r \in entitled[p]
  /\ \A q \in Requests : p \notin cell[q].by
  /\ cell' = [cell EXCEPT ![r] = Cell("taken", {p})]
  /\ UNCHANGED entitled

Close(r) ==
  /\ cell[r].at = "open"
  /\ cell' = [cell EXCEPT ![r] = Cell("closed", {})]
  /\ UNCHANGED entitled

Next ==
  \/ \E p \in Repliers, requests \in SUBSET Requests : Arrive(p, requests)
  \/ \E r \in Requests : Open(r) \/ Close(r) \/ \E p \in Repliers : Take(r, p)

Spec == Init /\ [][Next]_<<cell, entitled>>
=============================================================================
