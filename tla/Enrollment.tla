----------------------------- MODULE Enrollment -----------------------------
(***************************************************************************)
(* How people and machines come into a network and leave it: claiming a    *)
(* network, invites, node enrollments, the OIDC device flow, the sign-on   *)
(* of a node's agent and the revocation of a node (internal/relay:         *)
(* relay.go, enrollment.go, device_handlers.go, membership.go and          *)
(* node_handler.go, over internal/store).                                  *)
(*                                                                         *)
(* A request is a process; each of its steps is one call of the store,     *)
(* which the mutex of the SQLite store, or the one statement of Postgres,  *)
(* makes atomic.  One network is modelled: every row and every token       *)
(* carries its network, and no operation leaves it.  An invite, an         *)
(* enrollment, a flow and a node's token are called by the request that    *)
(* made them.                                                              *)
(***************************************************************************)
EXTENDS Integers, FiniteSets

CONSTANTS
  Requests,   \* requests that the model follows
  Invites, Enrollments, Flows,  \* what earlier requests have left, by their IDs
  Subjects,   \* people
  Names,      \* node names
  Uses,       \* uses an invite or an enrollment is made for
  AnyName,    \* the empty node_name of an enrollment
  NoID,
  MaxMishaps  \* bound: how often a token expires or a request breaks off

Past == Invites \cup Enrollments \cup Flows
IDs  == Requests \cup Past

ASSUME UsesAssumption == Uses \in Nat \ {0}
ASSUME IDsAssumption ==
  /\ NoID \notin IDs /\ AnyName \notin Names /\ IsFiniteSet(Requests)
  /\ Requests \cap Past = {} /\ Invites \cap Enrollments = {}

VARIABLES
  members,   \* network_members: the role of a subject
  invites,   \* invites: uses_remaining; 0 where there is no row
  enrolls,   \* node_enrollments: uses_remaining and node_name
  nodes,     \* nodes: the token of a name, and the enrollment it came from
  flows,     \* oidc_device_flows: node_name and node_token
  exchanged, \* the OIDC provider: flows whose device_code was exchanged
  expired,   \* tokens whose expires_at has passed
  req,       \* the requests: where they are and what they have read
  mishaps

vars == <<members, invites, enrolls, nodes, flows, exchanged, expired, req, mishaps>>

-----------------------------------------------------------------------------

NoEnroll == [left |-> 0, name |-> AnyName]
NoNode   == [tok |-> NoID, enr |-> NoID]
NoFlow   == [name |-> AnyName, tok |-> NoID]

\* used: the invites and enrollments a request has spent a use of; seen: what it
\* has read; late: the network had members, not this one, when its claim began.
Unborn == [kind |-> "none", pc |-> "idle", who |-> NoID, ref |-> NoID, name |-> AnyName,
           enr |-> NoID, seen |-> "none", used |-> {}, late |-> FALSE]

Fresh(i) == i \notin expired
Mishap == mishaps < MaxMishaps /\ mishaps' = mishaps + 1

\* The network is new or has an owner; an admin or the owner has left tokens.
Init ==
  /\ members \in {[s \in Subjects |-> "none"]}
       \cup {[s \in Subjects |-> IF s = o THEN "owner" ELSE "none"] : o \in Subjects}
  /\ invites = [i \in IDs |-> IF i \in Invites THEN Uses ELSE 0]
  /\ enrolls \in {[i \in IDs |-> IF i \in Enrollments
       THEN [left |-> Uses, name |-> n] ELSE NoEnroll] : n \in Names \cup {AnyName}}
  /\ flows \in {[i \in IDs |-> IF i \in Flows
       THEN [NoFlow EXCEPT !.name = n] ELSE NoFlow] : n \in Names}
  /\ nodes = [n \in Names |-> NoNode]
  /\ exchanged = {} /\ expired = {} /\ mishaps = 0
  /\ req = [r \in Requests |-> Unborn]

\* The store's tables, of which a step writes at most one.
OnlyMembers == UNCHANGED <<invites, enrolls, nodes, flows, exchanged, expired, mishaps>>
OnlyInvites == UNCHANGED <<members, enrolls, nodes, flows, exchanged, expired, mishaps>>
OnlyEnrolls == UNCHANGED <<members, invites, nodes, flows, exchanged, expired, mishaps>>
OnlyNodes   == UNCHANGED <<members, invites, enrolls, flows, exchanged, expired, mishaps>>
OnlyFlows   == UNCHANGED <<members, invites, enrolls, nodes, expired, mishaps>>
NoTable     == UNCHANGED <<members>> /\ OnlyMembers

Goes(r, pc) == req' = [req EXCEPT ![r].pc = pc]
Begins(r, kind, pc, fields) ==
  /\ req[r].pc = "idle"
  /\ req' = [req EXCEPT ![r] = [fields EXCEPT !.kind = kind, !.pc = pc]]

-----------------------------------------------------------------------------
(* Claiming a network (networkCreateHandler)                               *)

SomeMember == \E s \in Subjects : members[s] # "none"

Claim(r, s) ==
  /\ Begins(r, "claim", "count",
            [Unborn EXCEPT !.who = s, !.late = SomeMember /\ members[s] = "none"])
  /\ NoTable

\* NetworkEnsure, and NetworkMemberCount.
ClaimCount(r) ==
  /\ req[r].pc = "count"
  /\ req' = [req EXCEPT ![r].pc = "get", ![r].seen = IF SomeMember THEN "claimed" ELSE "free"]
  /\ NoTable

\* Mutant of ClaimGet: the members are not counted.
ClaimGetAnyway(r) ==
  /\ req[r].pc = "get"
  /\ Goes(r, IF members[req[r].who] # "none" THEN "ok" ELSE "own")
  /\ NoTable

\* NetworkMemberGet: who is a member already is done; "network already claimed".
ClaimGet(r) ==
  /\ req[r].pc = "get"
  /\ Goes(r, CASE members[req[r].who] # "none" -> "ok"
               [] members[req[r].who] = "none" /\ req[r].seen = "claimed" -> "refused"
               [] OTHER -> "own")
  /\ NoTable

ClaimOwn(r) ==
  /\ req[r].pc = "own"
  /\ members' = [members EXCEPT ![req[r].who] = "owner"]
  /\ Goes(r, "ok")
  /\ OnlyMembers

-----------------------------------------------------------------------------
(* Invites                                                                 *)

\* What was issued as such; a token nobody was given is refused at once.
IsInvite(i) == i \in Invites \/ (i \in Requests /\ req[i].kind = "invite")
IsEnroll(i) == i \in Enrollments \/ (i \in Requests /\ req[i].kind = "enroll")
IsFlow(i)   == i \in Flows \/ (i \in Requests /\ req[i].kind = "authorize")

IsOwner(s)  == members[s] = "owner"
IsMember(s) == members[s] # "none"

InviteCreate(r, s) ==
  /\ IsOwner(s)
  /\ Begins(r, "invite", "ok", [Unborn EXCEPT !.who = s])
  /\ invites' = [invites EXCEPT ![r] = Uses]
  /\ OnlyInvites

InviteDelete(r, s, i) ==
  /\ IsOwner(s) /\ IsInvite(i)
  /\ Begins(r, "uninvite", "ok", [Unborn EXCEPT !.who = s, !.ref = i])
  /\ invites' = [invites EXCEPT ![i] = 0]
  /\ OnlyInvites

\* A person joins with an invite (networkJoinHandler), or a machine (joinHandler).
NetworkJoin(r, s, i) ==
  IsInvite(i) /\ Begins(r, "enter", "consume", [Unborn EXCEPT !.who = s, !.ref = i]) /\ NoTable
NodeJoin(r, i, n) ==
  IsInvite(i) /\ Begins(r, "join", "consume", [Unborn EXCEPT !.ref = i, !.name = n]) /\ NoTable

\* One conditional UPDATE: a use of an invite that has one and has not expired.
\* Its row goes with its last use.  InviteGet before it asks for less.
InviteConsume(r) ==
  LET i == req[r].ref IN
  /\ req[r].pc = "consume"
  /\ \/ /\ invites[i] > 0 /\ Fresh(i)
        /\ invites' = [invites EXCEPT ![i] = @ - 1]
        /\ req' = [req EXCEPT ![r].used = {i},
                              ![r].pc = IF req[r].kind = "enter" THEN "role" ELSE "issue"]
     \/ /\ invites[i] = 0 \/ ~Fresh(i)
        /\ Goes(r, "refused") /\ UNCHANGED invites
  /\ OnlyInvites

\* Who has a role keeps it.
JoinRole(r) ==
  /\ req[r].pc = "role"
  /\ req' = [req EXCEPT ![r].pc = "join",
       ![r].seen = IF IsMember(req[r].who) THEN members[req[r].who] ELSE "member"]
  /\ NoTable

JoinUpsert(r) ==
  /\ req[r].pc = "join"
  /\ members' = [members EXCEPT ![req[r].who] = req[r].seen]
  /\ Goes(r, "ok")
  /\ OnlyMembers

-----------------------------------------------------------------------------
(* Node enrollments                                                        *)

\* nodeEnrollmentCreateHandler; the name may be left open.
EnrollCreate(r, s, n) ==
  /\ IsMember(s)
  /\ Begins(r, "enroll", "ok", [Unborn EXCEPT !.who = s])
  /\ enrolls' = [enrolls EXCEPT ![r] = [left |-> Uses, name |-> n]]
  /\ OnlyEnrolls

\* createNodeEnrollment inside joinHandler and devicePollHandler: one use.
Issue(r) ==
  /\ req[r].pc = "issue"
  /\ enrolls' = [enrolls EXCEPT ![r] = [left |-> 1, name |-> req[r].name]]
  /\ req' = [req EXCEPT ![r].pc = "find", ![r].enr = r]
  /\ OnlyEnrolls

Redeem(r, e, n) ==
  IsEnroll(e) /\ Begins(r, "redeem", "find", [Unborn EXCEPT !.enr = e, !.name = n]) /\ NoTable

\* redeemNodeEnrollment looks at the enrollment, its expiry and its name ...
Find(r) ==
  LET e == enrolls[req[r].enr] IN
  /\ req[r].pc = "find"
  /\ Goes(r, IF e.left > 0 /\ Fresh(req[r].enr) /\ e.name \in {AnyName, req[r].name}
               THEN "spend" ELSE "refused")
  /\ NoTable

\* Mutant of Spend: the uses are those that were read before.
SpendFound(r) ==
  /\ req[r].pc = "spend"
  /\ enrolls' = [enrolls EXCEPT ![req[r].enr].left = IF @ > 0 THEN @ - 1 ELSE 0]
  /\ req' = [req EXCEPT ![r].pc = "register", ![r].used = @ \cup {req[r].enr}]
  /\ OnlyEnrolls

\* ... and spends a use, if there still is one.  It looks for the expiry with the
\* time at which the redemption began.
Spend(r) ==
  LET e == req[r].enr IN
  /\ req[r].pc = "spend"
  /\ \/ /\ enrolls[e].left > 0
        /\ enrolls' = [enrolls EXCEPT ![e].left = @ - 1]
        /\ req' = [req EXCEPT ![r].pc = "register", ![r].used = @ \cup {e}]
     \/ /\ enrolls[e].left = 0
        /\ Goes(r, "refused") /\ UNCHANGED enrolls
  /\ OnlyEnrolls

\* NodeRegister, which replaces the row of the name.
Register(r) ==
  /\ req[r].pc = "register"
  /\ nodes' = [nodes EXCEPT ![req[r].name] = [tok |-> r, enr |-> req[r].enr]]
  /\ Goes(r, IF req[r].kind = "poll" THEN "complete" ELSE "ok")
  /\ OnlyNodes

-----------------------------------------------------------------------------
(* The OIDC device flow                                                    *)

DeviceAuthorize(r, n) ==
  /\ Begins(r, "authorize", "ok", [Unborn EXCEPT !.name = n])
  /\ flows' = [flows EXCEPT ![r].name = n]
  /\ UNCHANGED exchanged /\ OnlyFlows

\* devicePollHandler: a flow that is complete is answered with its token.
DevicePoll(r, f) ==
  /\ IsFlow(f)
  /\ Begins(r, "poll", CASE ~Fresh(f) -> "refused"
                         [] Fresh(f) /\ flows[f].tok # NoID -> "ok"
                         [] OTHER -> "exchange",
            [Unborn EXCEPT !.ref = f, !.name = flows[f].name])
  /\ NoTable

\* The provider: the user has not approved yet, or has; a code is exchanged once.
Exchange(r) ==
  /\ req[r].pc = "exchange"
  /\ \/ /\ req[r].ref \notin exchanged
        /\ exchanged' = exchanged \cup {req[r].ref} /\ Goes(r, "issue")
     \/ Goes(r, "refused") /\ UNCHANGED exchanged
  /\ UNCHANGED flows /\ OnlyFlows

\* OIDCDeviceFlowComplete: nothing is stored in a flow that has expired.
Complete(r) ==
  LET f == req[r].ref IN
  /\ req[r].pc = "complete"
  /\ \/ /\ Fresh(f)
        /\ flows' = [flows EXCEPT ![f].tok = r] /\ Goes(r, "ok")
     \/ ~Fresh(f) /\ Goes(r, "refused") /\ UNCHANGED flows
  /\ UNCHANGED exchanged /\ OnlyFlows

-----------------------------------------------------------------------------
(* A node signs on, and is revoked                                         *)

\* GET /node/connect: NodeGetByToken reads the row of the token ...
Connect(r, n) ==
  /\ nodes[n] # NoNode
  /\ Begins(r, "connect", "touch",
            [Unborn EXCEPT !.name = n, !.ref = nodes[n].tok, !.enr = nodes[n].enr])
  /\ NoTable

\* Mutant of Touch: what the agent says of itself is taken for the row's name.
TouchOther(r) ==
  /\ req[r].pc = "touch"
  /\ \E n \in Names : nodes' = [nodes EXCEPT ![n] = [tok |-> req[r].ref, enr |-> req[r].enr]]
  /\ Goes(r, "ok")
  /\ OnlyNodes

\* ... and NodeRegister writes it back, with peer_url and last_seen_at set.
Touch(r) ==
  /\ req[r].pc = "touch"
  /\ nodes' = [nodes EXCEPT ![req[r].name] = [tok |-> req[r].ref, enr |-> req[r].enr]]
  /\ Goes(r, "ok")
  /\ OnlyNodes

\* nodeRevokeHandler, for an owner: NodeDelete goes by the name.
NodeRevoke(r, s, n) ==
  /\ IsOwner(s) /\ nodes[n] # NoNode
  /\ Begins(r, "revoke", "ok", [Unborn EXCEPT !.who = s, !.name = n])
  /\ nodes' = [nodes EXCEPT ![n] = NoNode]
  /\ OnlyNodes

-----------------------------------------------------------------------------

\* The time of a token comes.
Expire(i) ==
  /\ Fresh(i) /\ Mishap
  /\ invites[i] > 0 \/ enrolls[i].left > 0 \/ flows[i] # NoFlow
  /\ expired' = expired \cup {i}
  /\ UNCHANGED <<members, invites, enrolls, nodes, flows, exchanged, req>>

\* A call of the store or of the provider fails, or the client has gone: the
\* handler returns, and what it has done stays done.
Fail(r) ==
  /\ req[r].pc \notin {"idle", "ok", "refused"} /\ Mishap
  /\ Goes(r, "refused")
  /\ UNCHANGED <<members, invites, enrolls, nodes, flows, exchanged, expired>>

Starts(r) ==
  \/ \E s \in Subjects :
       \/ Claim(r, s) \/ InviteCreate(r, s)
       \/ \E i \in IDs : InviteDelete(r, s, i) \/ NetworkJoin(r, s, i)
       \/ \E n \in Names \cup {AnyName} : EnrollCreate(r, s, n)
       \/ \E n \in Names : NodeRevoke(r, s, n)
  \/ \E n \in Names :
       \/ DeviceAuthorize(r, n) \/ Connect(r, n)
       \/ \E i \in IDs : NodeJoin(r, i, n) \/ Redeem(r, i, n)
  \/ \E f \in IDs : DevicePoll(r, f)

Goes_on(r) ==
  \/ ClaimCount(r) \/ ClaimGet(r) \/ ClaimOwn(r)
  \/ InviteConsume(r) \/ JoinRole(r) \/ JoinUpsert(r)
  \/ Issue(r) \/ Find(r) \/ Spend(r) \/ Register(r)
  \/ Exchange(r) \/ Complete(r) \/ Touch(r)

Next ==
  \/ \E r \in Requests : Starts(r) \/ Goes_on(r) \/ Fail(r)
  \/ \E i \in IDs : Expire(i)

Spec == Init /\ [][Next]_vars

-----------------------------------------------------------------------------
(* Properties                                                              *)

SpentOn(i) == {r \in Requests : i \in req[r].used}
Allowed(e) == IF e \in Requests /\ req[e].kind \in {"join", "poll"} THEN 1 ELSE Uses

\* However many redeem an invite or an enrollment at once, and wherever they break
\* off, no more get past it than it was made for.
UsesKept ==
  \A i \in IDs :
    /\ SpentOn(i) # {} /\ invites[i] > 0 => Cardinality(SpentOn(i)) + invites[i] <= Uses
    /\ Cardinality(SpentOn(i)) + enrolls[i].left <= Allowed(i)

\* The enrollment behind a node's row: its token was made by a request that spent
\* a use of it for that name; the enrollment was issued by a member, or for an
\* invite of which a use was spent, or for a flow whose code was exchanged.
Sponsors(n, t, e) ==
  /\ e \in req[t].used /\ req[t].name = n /\ enrolls[e].name \in {AnyName, n}
  /\ \/ e \in Past
     \/ req[e].kind = "enroll" /\ IsMember(req[e].who)
     \/ e = t /\ req[t].kind = "join" /\ req[t].ref \in req[t].used
     \/ e = t /\ req[t].kind = "poll" /\ req[t].ref \in exchanged /\ flows[req[t].ref].name = n

\* Every node of the network has such an enrollment, whoever has connected, been
\* revoked or been registered again since.
NodeIsSponsored ==
  \A n \in Names : nodes[n] # NoNode => Sponsors(n, nodes[n].tok, nodes[n].enr)

\* A claim that begins when the network has members gives nobody a role.  (Two
\* that begin before may both succeed.)
LateClaimRefused == \A r \in Requests : req[r].late => req[r].pc # "own"
=============================================================================
