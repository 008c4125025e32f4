------------------------------ MODULE PeerAuth ------------------------------
(***************************************************************************)
(* What a node asks of a message from another node: credentials that the   *)
(* relay has signed, the verifier's caches of bundles and of credentials   *)
(* used (internal/networkauth, relay/network_auth.go, node/node.go), and   *)
(* the groups that say whose messages a session takes (relay/groups.go).   *)
(*                                                                         *)
(* One network, one session that sends, and one session on the verifying   *)
(* node, the target.  Time is that of the relay; the clock of the node is  *)
(* off by a constant.                                                      *)
(***************************************************************************)
EXTENDS Integers

CONSTANTS
  Creds,     \* credentials, by their JTIs
  Uses,      \* requests at the node, each with a credential
  Groups,
  Tags,      \* the groups in the target's tags
  Drifts,    \* how far the node's clock may be off
  TTL,       \* of a credential
  Validity,  \* of a bundle
  Skew,      \* maxClockSkew
  NoCred,
  MaxTime,   \* bound: ticks of the clock
  MaxEdits   \* bound: changes to groups and to the target's name, and restarts

ASSUME TimesAssumption ==
  TTL \in Nat \ {0} /\ Skew \in Nat /\ Validity \in Nat /\ MaxTime \in Nat /\ MaxEdits \in Nat
ASSUME DriftsAssumption == Drifts \subseteq (0 - Skew) .. Skew
ASSUME NamesAssumption == NoCred \notin Creds

VARIABLES
  now,
  drift,   \* of the node's clock
  issuer,  \* issuer.current in the relay's store: a key, 0 for none
  keys,    \* keys generated
  raced,   \* history: two requests have generated a key at once
  cred,    \* the credentials
  bundle,  \* BundleCache: a key, and the time the bundle expires
  seen,    \* ReplayCache: until when a credential is remembered, 0 if it is not
  use,     \* the requests
  life,    \* restarts of the node, which keeps both caches in memory
  named,   \* the target has its name (SessionManager.nameIndex)
  member,  \* the groups the sender and the target are members of
  policy,  \* messages_policy of each group; "none" where there is no group
  been,    \* history: groups the sender has been a member of
  met,     \* history: such a group, or the policy, let the sender through
  edits

authority == <<issuer, keys, raced, cred>>
verifier  == <<bundle, seen, use, life>>
groups    == <<named, member, policy, been, met, edits>>
vars == <<now, drift, authority, verifier, groups>>

NoIssue  == [pc |-> "none", kind |-> "none", key |-> 0, iat |-> 0, groups |-> {}]
NoUse    == [pc |-> "none", cred |-> NoCred, key |-> 0, until |-> 0, at |-> 0, life |-> 0,
             by |-> "id"]
NoBundle == [key |-> 0, exp |-> 0]

NodeNow == now + drift
\* GroupBindingsForSession
BoundGroups(s) == member[s]

Exp(c)  == cred[c].iat + TTL
Kind(u) == cred[use[u].cred].kind

\* enforceGroupBindings: a member of the groups in from sends to a session bound
\* to the groups in to, of which the open ones let everybody through.
Enforce(to, from, open) == to = {} \/ to \cap open # {} \/ to \cap from # {}
Open(p) == {g \in Groups : p[g] = "open"}

\* A group of the target, as the relay knows them, lets through who is in from.
LetsThrough(from, target, p) == target # {} /\ Enforce(target, from, Open(p))

Init ==
  /\ now = 0 /\ drift \in Drifts
  /\ issuer = 0 /\ keys = 0 /\ raced = FALSE
  /\ cred = [c \in Creds |-> NoIssue]
  /\ bundle = NoBundle /\ seen = [c \in Creds |-> 0]
  /\ use = [u \in Uses |-> NoUse] /\ life = 0 /\ named \in BOOLEAN
  /\ policy \in [Groups -> {"none", "internal-only", "open"}]
  /\ member \in [{"sender", "target"} -> SUBSET {g \in Groups : policy[g] # "none"}]
  /\ been = member["sender"] /\ met = LetsThrough(been, member["target"], policy)
  /\ edits = 0

Tick ==
  /\ now < MaxTime /\ now' = now + 1
  /\ UNCHANGED <<drift, authority, verifier, groups>>

-----------------------------------------------------------------------------
(* The relay issues a credential                                           *)

HaveKey(c, kind, key) ==
  cred' = [cred EXCEPT ![c].kind = kind, ![c].key = key,
                       ![c].pc = IF kind = "sender" THEN "groups" ELSE "sign"]

Creating == {c \in Creds : cred[c].pc = "create"}
Creates(c, kind) ==
  /\ cred' = [cred EXCEPT ![c].kind = kind, ![c].pc = "create"]
  /\ raced' = (raced \/ Creating # {})

\* Mutant of Issue: the key that is stored is not looked for.
IssueAnew(c, kind) ==
  /\ cred[c].pc = "none" /\ Creates(c, kind)
  /\ UNCHANGED <<now, drift, issuer, keys, verifier, groups>>

\* loadOrCreateIssuerState reads the network's issuer state ...
Issue(c, kind) ==
  /\ cred[c].pc = "none"
  /\ \/ issuer # 0 /\ HaveKey(c, kind, issuer) /\ UNCHANGED raced
     \/ issuer = 0 /\ Creates(c, kind)
  /\ UNCHANGED <<now, drift, issuer, keys, verifier, groups>>

\* ... and stores one of its own if there was none.
CreateIssuer(c) ==
  /\ cred[c].pc = "create"
  /\ keys' = keys + 1 /\ issuer' = keys + 1
  /\ HaveKey(c, cred[c].kind, keys + 1)
  /\ UNCHANGED <<now, drift, raced, verifier, groups>>

\* Who asks is known to be a node of the network, or its owner.
RuntimeCredential(c)  == Issue(c, "runtime")
SenderDelegation(c)   == Issue(c, "sender")
ObserverDelegation(c) == Issue(c, "observer")

SourceGroups(c) ==
  /\ cred[c].pc = "groups"
  /\ cred' = [cred EXCEPT ![c].pc = "sign", ![c].groups = BoundGroups("sender")]
  /\ UNCHANGED <<now, drift, issuer, keys, raced, verifier, groups>>

\* SignSenderDelegation, and those of the other kinds.
Sign(c) ==
  /\ cred[c].pc = "sign"
  /\ cred' = [cred EXCEPT ![c].pc = "signed", ![c].iat = now]
  /\ UNCHANGED <<now, drift, issuer, keys, raced, verifier, groups>>

-----------------------------------------------------------------------------
(* The node verifies one                                                   *)

OnlyUse == UNCHANGED <<now, drift, authority, bundle, seen, life, groups>>
Refuse(u, why) == use' = [use EXCEPT ![u] = [@ EXCEPT !.pc = why, !.at = NodeNow]]

\* verifierBundleHandler
Fetched == [key |-> issuer, exp |-> now + Validity]

Takes(u, c, by, b) ==
  use' = [use EXCEPT ![u] = [@ EXCEPT !.pc = "verify", !.cred = c, !.by = by,
                                      !.key = b.key, !.until = b.exp]]

\* A request comes with a credential, and a message names its target by ID or by
\* a name, which resolveLocal has to find.  BundleCache.Get fetches, under its
\* lock, when the bundle is about to expire.
Present(u, c) ==
  /\ use[u].pc = "none" /\ cred[c].pc = "signed"
  /\ \E by \in {"id"} \cup (IF cred[c].kind = "sender" /\ named THEN {"name"} ELSE {}) :
       \/ /\ bundle # NoBundle /\ NodeNow < bundle.exp - Skew
          /\ Takes(u, c, by, bundle) /\ UNCHANGED bundle
       \/ /\ bundle = NoBundle \/ NodeNow >= bundle.exp - Skew
          /\ \/ bundle' = Fetched /\ Takes(u, c, by, bundle')
             \/ UNCHANGED bundle /\ use' = [use EXCEPT ![u].pc = "unbundled"]
  /\ UNCHANGED <<now, drift, authority, seen, life, groups>>

\* VerifyRuntimeCredential, VerifySenderDelegation, VerifyObserverDelegation
Verifies(u) ==
  LET c == use[u].cred IN
  /\ NodeNow <= use[u].until + Skew
  /\ NodeNow >= cred[c].iat - Skew /\ NodeNow <= Exp(c) + Skew
  /\ cred[c].key = use[u].key

Check(u, kind, next) ==
  /\ use[u].pc = "verify" /\ Kind(u) = kind
  /\ IF Verifies(u)
       THEN use' = [use EXCEPT ![u] = [@ EXCEPT !.pc = next, !.key = 0, !.until = 0]]
       ELSE Refuse(u, "unverified")
  /\ OnlyUse

\* A peer connects, a session sends; an observer's grant may be used again.
AuthorizePeerRuntime(u)  == Check(u, "runtime", "consume")
AuthorizePeerSender(u)   == Check(u, "sender", "consume")
AuthorizePeerObserver(u) == Check(u, "observer", "admitted")

\* Mutant of Kept: a credential is forgotten when it expires.
KeptToExpiry(c) == Exp(c)

\* How long ReplayCache keeps a credential.
Kept(c) == Exp(c) + Skew

\* ReplayCache.consume forgets what has expired, then looks.
Consume(u) ==
  LET c == use[u].cred
      left == [d \in Creds |-> IF NodeNow > seen[d] THEN 0 ELSE seen[d]] IN
  /\ use[u].pc = "consume"
  /\ IF left[c] # 0 /\ NodeNow < left[c]
       THEN Refuse(u, "replayed") /\ seen' = left
       ELSE /\ seen' = [left EXCEPT ![c] = Kept(c)]
            /\ use' = [use EXCEPT ![u] =
                 [@ EXCEPT !.pc = IF Kind(u) = "sender" THEN "deliver" ELSE "admitted",
                           !.at = NodeNow, !.life = life]]
  /\ UNCHANGED <<now, drift, authority, bundle, life, groups>>

\* groupBindingsHandler, asked by the node of the target.
TargetGroups == BoundGroups("target")

\* by: what the message names its target by, then what it was decided by.
Decide(u, allowed, by) ==
  use' = [use EXCEPT ![u] =
            [@ EXCEPT !.pc = IF allowed THEN "delivered" ELSE "forbidden", !.by = by]]

\* localGroupBindings finds the groups in the tags of the session that has the
\* name now: none if there is no such session, any if it is another one.
Tagged == IF named THEN {Tags} ELSE SUBSET Groups

\* Mutant of Deliver: without an answer there are no groups.
DeliverOpen(u) ==
  LET from == cred[use[u].cred].groups IN
  /\ use[u].pc = "deliver"
  /\ \/ use[u].by = "id" /\ ~named /\ Decide(u, TRUE, "unnamed")
     \/ /\ use[u].by = "name" \/ named
        /\ \/ TargetGroups # {} /\ Decide(u, Enforce(TargetGroups, from, Open(policy)), "relay")
           \/ Decide(u, TRUE, IF named THEN "tags" ELSE "unnamed")
  /\ OnlyUse

\* authorizePeerDelivery lets every message through to an ID without a name.  It
\* asks the relay for the groups of a name; without an answer, or with none of
\* them, those in the tags count, with the policy internal-only.
Deliver(u) ==
  LET from == cred[use[u].cred].groups IN
  /\ use[u].pc = "deliver"
  /\ \/ use[u].by = "id" /\ ~named /\ Decide(u, TRUE, "unnamed")
     \/ /\ use[u].by = "name" \/ named
        /\ \/ TargetGroups # {} /\ Decide(u, Enforce(TargetGroups, from, Open(policy)), "relay")
           \/ \E tags \in Tagged :
                Decide(u, Enforce(tags, from, {}), IF named THEN "tags" ELSE "unnamed")
  /\ OnlyUse

\* A reply to a request is delivered whatever the groups are.
DeliverReply(u) ==
  /\ use[u].pc = "deliver" /\ use' = [use EXCEPT ![u].pc = "admitted"]
  /\ OnlyUse

\* NewNode makes both caches anew; the requests under way end with the old node.
NodeRestarts ==
  /\ edits < MaxEdits /\ edits' = edits + 1
  /\ life' = life + 1
  /\ bundle' = NoBundle /\ seen' = [c \in Creds |-> 0]
  /\ use' = [u \in Uses |->
       IF use[u].pc \in {"verify", "consume", "deliver"} THEN [use[u] EXCEPT !.pc = "cut"] ELSE use[u]]
  /\ UNCHANGED <<now, drift, authority, named, member, policy, been, met>>

-----------------------------------------------------------------------------
(* Groups and the target's name change                                     *)

\* SetName; a Kill, an exit or another SetName takes the name away.
Rename ==
  /\ edits < MaxEdits /\ edits' = edits + 1
  /\ named' = ~named
  /\ UNCHANGED <<now, drift, authority, verifier, member, policy, been, met>>

\* The owner of the network, or the node of a session, makes a change.
Edit(m, p) ==
  /\ edits < MaxEdits /\ edits' = edits + 1
  /\ member' = m /\ policy' = p
  /\ been' = been \cup m["sender"]
  /\ met' = (met \/ LetsThrough(been', m["target"], p))
  /\ UNCHANGED <<now, drift, authority, verifier, named>>

GroupCreate(g) == policy[g] = "none" /\ Edit(member, [policy EXCEPT ![g] = "internal-only"])

\* The members and the policy go with the group.
GroupDelete(g) ==
  policy[g] # "none" /\ Edit([s \in DOMAIN member |-> member[s] \ {g}], [policy EXCEPT ![g] = "none"])

GroupMemberAdd(s, g) ==
  policy[g] # "none" /\ g \notin member[s] /\ Edit([member EXCEPT ![s] = @ \cup {g}], policy)
GroupMemberRemove(s, g) == g \in member[s] /\ Edit([member EXCEPT ![s] = @ \ {g}], policy)

GroupPolicySet(g, p) ==
  policy[g] \notin {"none", p} /\ Edit(member, [policy EXCEPT ![g] = p])

Next ==
  \/ Tick \/ NodeRestarts \/ Rename
  \/ \E c \in Creds :
       \/ RuntimeCredential(c) \/ SenderDelegation(c) \/ ObserverDelegation(c)
       \/ CreateIssuer(c) \/ SourceGroups(c) \/ Sign(c)
  \/ \E u \in Uses :
       \/ \E c \in Creds : Present(u, c)
       \/ AuthorizePeerRuntime(u) \/ AuthorizePeerSender(u) \/ AuthorizePeerObserver(u)
       \/ Consume(u) \/ Deliver(u) \/ DeliverReply(u)
  \/ \E g \in Groups :
       \/ GroupCreate(g) \/ GroupDelete(g)
       \/ \E s \in {"sender", "target"} : GroupMemberAdd(s, g) \/ GroupMemberRemove(s, g)
       \/ \E p \in {"internal-only", "open"} : GroupPolicySet(g, p)

Spec == Init /\ [][Next]_vars

-----------------------------------------------------------------------------
(* Properties                                                              *)

Accepted(u) == use[u].pc \in {"deliver", "delivered", "forbidden", "admitted"} /\ Kind(u) # "observer"

\* A credential is accepted once in a life of the node: not a second time before
\* it has expired, the allowance for clocks included, however its uses interleave.
AcceptedOnce ==
  \A u, v \in Uses :
    /\ u # v /\ use[u].cred = use[v].cred /\ use[u].life = use[v].life
    /\ Accepted(u) /\ Accepted(v)
    => use[u].at >= Exp(use[u].cred) + Skew \/ use[v].at >= Exp(use[v].cred) + Skew

\* What the relay has signed is verified wherever the clocks agree to within the
\* allowance: it is refused only when its time, or that of the bundle, is over, or
\* when two requests generated the network's first key at once.
RefusedForCause ==
  \A u \in Uses : use[u].pc = "unverified" =>
    \/ raced
    \/ use[u].at > Exp(use[u].cred) + Skew
    \/ use[u].at > use[u].until + Skew

\* A message is delivered to a session that has its name only if a group that the
\* sender was in, or an open one, has let it through at some time: as the relay
\* knew the groups or, where the relay gave none, as the target's tags have them.
\* One to a session without its name is let through by the relay's groups, if at
\* all they are asked for, or by no group at all.
StrangersRefused ==
  \A u \in Uses : use[u].pc = "delivered" =>
    \/ met \/ (use[u].by = "tags" /\ Enforce(Tags, been, {}))
    \/ use[u].by = "unnamed"
=============================================================================
