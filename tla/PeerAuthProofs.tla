--------------------------- MODULE PeerAuthProofs ---------------------------
(***************************************************************************)
(* Proofs about PeerAuth, for any number of credentials, requests, groups  *)
(* and changes, and any times: a credential is accepted once in a life of  *)
(* the node, nothing that is valid is refused, and strangers do not get    *)
(* through to a session that has its name.                                 *)
(***************************************************************************)
EXTENDS PeerAuth, TLAPS

-----------------------------------------------------------------------------
(* The inductive invariant                                                 *)

Keys == Nat
Members == {"sender", "target"}

CredType ==
  [pc : {"none", "create", "groups", "sign", "signed"},
   kind : {"none", "runtime", "sender", "observer"},
   key : Keys, iat : Nat, groups : SUBSET Groups]

Bys    == {"id", "name", "relay", "tags", "unnamed"}
UsePCs == {"none", "unbundled", "verify", "unverified", "consume", "replayed",
           "deliver", "delivered", "forbidden", "admitted", "cut"}
UseType ==
  [pc : UsePCs, cred : Creds \cup {NoCred}, key : Keys, until : Int, at : Int, life : Nat, by : Bys]

\* The values every variable may take.
TypeOK ==
  /\ now \in Nat /\ drift \in Drifts
  /\ issuer \in Keys /\ keys \in Nat /\ raced \in BOOLEAN
  /\ cred \in [Creds -> CredType]
  /\ bundle \in [key : Keys, exp : Nat] /\ seen \in [Creds -> Nat]
  /\ use \in [Uses -> UseType] /\ life \in Nat /\ named \in BOOLEAN
  /\ member \in [Members -> SUBSET Groups]
  /\ policy \in [Groups -> {"none", "internal-only", "open"}]
  /\ been \in SUBSET Groups /\ met \in BOOLEAN /\ edits \in Nat

Presented(u) == use[u].pc \notin {"none", "unbundled"}

\* What is presented has been signed, and not in the future.
SignedBefore ==
  /\ \A u \in Uses : Presented(u) => use[u].cred \in Creds /\ cred[use[u].cred].pc = "signed"
  /\ \A c \in Creds : cred[c].iat <= now

\* A credential is remembered until the end of its time, and one that was
\* accepted in this life of the node is remembered or over.
Remembered ==
  /\ \A c \in Creds : seen[c] # 0 => cred[c].pc = "signed" /\ seen[c] = Kept(c)
  /\ \A u \in Uses : use[u].life <= life
  /\ \A u \in Uses : Accepted(u) /\ use[u].life = life =>
       seen[use[u].cred] # 0 \/ NodeNow > Kept(use[u].cred)

\* Nothing is signed before there is a key, nor is there a bundle.
KeyFirst ==
  issuer = 0 => bundle = NoBundle /\ \A c \in Creds : cred[c].pc \in {"none", "create"}

\* Unless two requests have generated a key at once, there is one key.
OneKey ==
  ~raced =>
    /\ \A c \in Creds : cred[c].pc \in {"groups", "sign", "signed"} => cred[c].key = issuer
    /\ \A c \in Creds : cred[c].pc = "create" => issuer = 0
    /\ \A c, d \in Creds : cred[c].pc = "create" /\ cred[d].pc = "create" => c = d
    /\ bundle # NoBundle => bundle.key = issuer
    /\ \A u \in Uses : use[u].pc = "verify" => use[u].key = issuer

\* The groups in a credential are some the sender has been in, and what lets
\* the sender through now has let it through.
GroupsKnown ==
  /\ member["sender"] \subseteq been
  /\ \A c \in Creds : cred[c].groups \subseteq been
  /\ LetsThrough(been, member["target"], policy) => met

AuthInv ==
  /\ TypeOK /\ SignedBefore /\ Remembered /\ KeyFirst /\ OneKey /\ GroupsKnown
  /\ AcceptedOnce /\ RefusedForCause /\ StrangersRefused

-----------------------------------------------------------------------------
(* Clocks and groups                                                       *)

\* The node's clock is behind by the allowance at most.
LEMMA DriftBound ==
  ASSUME TypeOK
  PROVE  NodeNow \in Int /\ NodeNow >= now - Skew
  <1>1. drift \in (0 - Skew) .. Skew /\ now \in Nat
    BY DriftsAssumption DEF TypeOK
  <1> QED
    BY <1>1, TimesAssumption DEF NodeNow

\* A time n that is no more than the allowance k behind t is not before what was
\* signed by then.
LEMMA NotTooEarly ==
  ASSUME NEW n \in Int, NEW t \in Int, NEW k \in Int, NEW i \in Int, i <= t, n >= t - k
  PROVE  n >= i - k
  OBVIOUS

\* What is not at most a bound is above it.
LEMMA Above ==
  ASSUME NEW n \in Int, NEW bound \in Int, ~(n <= bound)
  PROVE  n > bound
  OBVIOUS

\* Who is in more groups is let through wherever one in fewer is.
LEMMA MoreGroups ==
  ASSUME NEW to, NEW open, NEW few, NEW many, few \subseteq many, Enforce(to, few, open)
  PROVE  Enforce(to, many, open)
  BY DEF Enforce

\* The same of the groups that the relay knows.
LEMMA MoreGroupsLetThrough ==
  ASSUME NEW target, NEW p, NEW few, NEW many, few \subseteq many, LetsThrough(few, target, p)
  PROVE  LetsThrough(many, target, p)
  BY MoreGroups DEF LetsThrough

-----------------------------------------------------------------------------
(* Requests                                                                *)

\* A request goes to its next place, lets the bundle go, notes the time of a
\* refusal, or that of an acceptance and the life of the node, or what decided it,
\* or its credential and the bundle.
At(r, pc)            == [r EXCEPT !.pc = pc]
Verified(r, pc)      == [r EXCEPT !.pc = pc, !.key = 0, !.until = 0]
Refused(r, pc, at)   == [r EXCEPT !.pc = pc, !.at = at]
Admitted(r, pc, at, n) == [r EXCEPT !.pc = pc, !.at = at, !.life = n]
DecidedBy(r, pc, by) == [r EXCEPT !.pc = pc, !.by = by]
Taken(r, c, by, k, n) ==
  [r EXCEPT !.pc = "verify", !.cred = c, !.by = by, !.key = k, !.until = n]

\* The requests with one of them put in place.
LEMMA UsePut ==
  ASSUME NEW f \in [Uses -> UseType], NEW g, NEW u \in Uses, NEW r \in UseType,
         g = [f EXCEPT ![u] = r]
  PROVE  g \in [Uses -> UseType] /\ g[u] = r /\ \A v \in Uses \ {u} : g[v] = f[v]
  OBVIOUS

\* What each of these changes, and what it leaves.
LEMMA UseAt ==
  ASSUME NEW r \in UseType, NEW pc \in UsePCs
  PROVE  /\ At(r, pc) \in UseType /\ At(r, pc).pc = pc /\ At(r, pc).cred = r.cred
         /\ At(r, pc).at = r.at /\ At(r, pc).life = r.life
  BY DEF UseType, At

LEMMA UseVerified ==
  ASSUME NEW r \in UseType, NEW pc \in UsePCs
  PROVE  /\ Verified(r, pc) \in UseType /\ Verified(r, pc).pc = pc
         /\ Verified(r, pc).cred = r.cred /\ Verified(r, pc).at = r.at
         /\ Verified(r, pc).life = r.life
  <1>1. 0 \in Keys /\ 0 \in Int
    BY DEF Keys
  <1> QED
    BY <1>1 DEF UseType, Verified

LEMMA UseRefused ==
  ASSUME NEW r \in UseType, NEW pc \in UsePCs, NEW at \in Int
  PROVE  /\ Refused(r, pc, at) \in UseType /\ Refused(r, pc, at).pc = pc
         /\ Refused(r, pc, at).cred = r.cred /\ Refused(r, pc, at).at = at
         /\ Refused(r, pc, at).life = r.life /\ Refused(r, pc, at).until = r.until
  BY DEF UseType, Refused

LEMMA UseAdmitted ==
  ASSUME NEW r \in UseType, NEW pc \in UsePCs, NEW at \in Int, NEW n \in Nat
  PROVE  /\ Admitted(r, pc, at, n) \in UseType /\ Admitted(r, pc, at, n).pc = pc
         /\ Admitted(r, pc, at, n).cred = r.cred /\ Admitted(r, pc, at, n).at = at
         /\ Admitted(r, pc, at, n).life = n
  BY DEF UseType, Admitted

LEMMA UseDecided ==
  ASSUME NEW r \in UseType, NEW pc \in UsePCs, NEW by \in Bys
  PROVE  /\ DecidedBy(r, pc, by) \in UseType /\ DecidedBy(r, pc, by).pc = pc
         /\ DecidedBy(r, pc, by).cred = r.cred /\ DecidedBy(r, pc, by).at = r.at
         /\ DecidedBy(r, pc, by).life = r.life /\ DecidedBy(r, pc, by).by = by
  BY DEF UseType, DecidedBy

LEMMA UseTaken ==
  ASSUME NEW r \in UseType, NEW c \in Creds, NEW by \in Bys, NEW k \in Keys, NEW n \in Int
  PROVE  /\ Taken(r, c, by, k, n) \in UseType /\ Taken(r, c, by, k, n).pc = "verify"
         /\ Taken(r, c, by, k, n).cred = c /\ Taken(r, c, by, k, n).key = k
         /\ Taken(r, c, by, k, n).life = r.life
  <1>1. "verify" \in UsePCs /\ c \in Creds \cup {NoCred}
    BY DEF UsePCs
  <1> QED
    BY <1>1 DEF UseType, Taken

-----------------------------------------------------------------------------
(* The steps                                                               *)

\* The initial states satisfy the invariant.
LEMMA InitInv == Init => AuthInv
  <1> SUFFICES ASSUME Init PROVE AuthInv
    OBVIOUS
  <1> USE TimesAssumption, NamesAssumption DEF Init
  <1>1. TypeOK
    <2>1. member \in [Members -> SUBSET Groups] /\ been \in SUBSET Groups
      BY DEF Members
    <2>2. met \in BOOLEAN
      BY DEF LetsThrough, Enforce
    <2>3. cred \in [Creds -> CredType] /\ use \in [Uses -> UseType]
      BY DEF CredType, UseType, UsePCs, Bys, NoIssue, NoUse, Keys
    <2> QED
      BY <2>1, <2>2, <2>3 DEF TypeOK, NoBundle, Keys
  <1>2. SignedBefore /\ Remembered
    <2>1. /\ \A u \in Uses : use[u].pc = "none"
          /\ \A u \in Uses : use[u].life = 0
          /\ \A c \in Creds : seen[c] = 0 /\ cred[c].iat = 0
      BY DEF NoUse, NoIssue
    <2>2. now = 0 /\ life = 0
      OBVIOUS
    <2> HIDE DEF Init
    <2>3. SignedBefore
      <3>1. \A c \in Creds : cred[c].iat <= now
        <4>1. 0 <= 0
          OBVIOUS
        <4> QED
          BY <2>1, <2>2, <4>1, Zenon
      <3> QED
        BY <2>1, <3>1, Zenon DEF SignedBefore, Presented
    <2>4. Remembered
      <3>1. \A u \in Uses : use[u].life <= life
        <4>1. 0 <= 0
          OBVIOUS
        <4> QED
          BY <2>1, <2>2, <4>1, Zenon
      <3> QED
        BY <2>1, <3>1, Zenon DEF Remembered, Accepted
    <2> QED
      BY <2>3, <2>4
  <1>3. KeyFirst /\ OneKey
    BY DEF KeyFirst, OneKey, NoUse, NoIssue
  <1>4. GroupsKnown
    BY DEF GroupsKnown, NoIssue
  <1>5. AcceptedOnce /\ RefusedForCause /\ StrangersRefused
    BY DEF AcceptedOnce, RefusedForCause, StrangersRefused, Accepted, NoUse
  <1> QED
    BY <1>1, <1>2, <1>3, <1>4, <1>5 DEF AuthInv

\* Time passes: what was accepted stays remembered or over.
LEMMA TickInv == ASSUME AuthInv, Tick PROVE AuthInv'
  <1> USE DriftsAssumption, TimesAssumption
      DEF AuthInv, Tick, authority, verifier, groups
  <1>1. TypeOK' /\ SignedBefore'
    <2>1. TypeOK'
      BY DEF TypeOK
    <2>2. \A c \in Creds : cred[c].iat \in Nat
      BY DEF TypeOK, CredType
    <2>3. \A c \in Creds : cred'[c].iat <= now'
      BY <2>2 DEF SignedBefore, TypeOK
    <2> QED
      BY <2>1, <2>3 DEF SignedBefore, Presented
  <1>2. Remembered'
    <2>1. NodeNow' = NodeNow + 1 /\ NodeNow \in Int
      BY DEF NodeNow, TypeOK
    <2>2. \A c \in Creds : Kept(c)' = Kept(c) /\ Kept(c) \in Int
      BY DEF Kept, Exp, TypeOK, CredType
    <2>3. \A u \in Uses : Accepted(u) => use[u].cred \in Creds
      BY DEF Accepted, SignedBefore, Presented
    <2> QED
      <3>1. \A u \in Uses : Accepted(u)' => Accepted(u)
        BY DEF Accepted, Kind
      <3>2. ASSUME NEW u \in Uses, Accepted(u), use[u].life = life
            PROVE  seen[use[u].cred] # 0 \/ NodeNow' > Kept(use[u].cred)
        BY <3>2, <2>1, <2>2, <2>3 DEF Remembered
      <3> QED
        BY <3>1, <3>2, <2>2, <2>3 DEF Remembered
  <1>3. KeyFirst' /\ OneKey' /\ GroupsKnown'
    BY DEF KeyFirst, OneKey, GroupsKnown, LetsThrough, Enforce, Open
  <1>4. AcceptedOnce' /\ RefusedForCause' /\ StrangersRefused'
    BY DEF AcceptedOnce, RefusedForCause, StrangersRefused, Accepted, Kind, Exp
  <1> QED
    BY <1>1, <1>2, <1>3, <1>4

\* What a request at the relay may do to a credential leaves the requests at the
\* node and their credentials alone.
LEMMA IssuingKeeps ==
  ASSUME AuthInv, NEW c \in Creds, cred[c].pc # "signed",
         cred' \in [Creds -> CredType], \A d \in Creds \ {c} : cred'[d] = cred[d],
         UNCHANGED <<now, drift, verifier, groups>>, raced => raced'
  PROVE  Remembered' /\ AcceptedOnce' /\ RefusedForCause' /\ StrangersRefused'
  <1> USE DEF AuthInv, verifier, groups
  <1>1. \A u \in Uses : Presented(u) =>
          use[u].cred \in Creds /\ cred'[use[u].cred] = cred[use[u].cred]
    BY DEF SignedBefore
  <1>2. \A u \in Uses : Accepted(u)' => Accepted(u) /\ Presented(u)
    BY <1>1 DEF Accepted, Presented, Kind
  <1>3. \A u \in Uses : Presented(u) =>
          Exp(use[u].cred)' = Exp(use[u].cred) /\ Kept(use[u].cred)' = Kept(use[u].cred)
    BY <1>1 DEF Exp, Kept
  <1>4. NodeNow' = NodeNow
    BY DEF NodeNow
  <1>5. Remembered'
    <2>1. \A d \in Creds : seen[d] # 0 => cred'[d] = cred[d] /\ Kept(d)' = Kept(d)
      BY DEF Remembered, Kept, Exp
    <2> QED
      BY <1>2, <1>3, <1>4, <2>1 DEF Remembered
  <1>6. AcceptedOnce'
    BY <1>2, <1>3 DEF AcceptedOnce
  <1>7. RefusedForCause'
    BY <1>3 DEF RefusedForCause, Presented
  <1> QED
    BY <1>5, <1>6, <1>7 DEF StrangersRefused

\* A request asks for the issuer key.
LEMMA IssueInv ==
  ASSUME AuthInv, NEW c \in Creds, NEW kind \in {"runtime", "sender", "observer"}, Issue(c, kind)
  PROVE  AuthInv'
  <1> USE DEF AuthInv, verifier, groups
  <1>1. /\ cred' \in [Creds -> CredType] /\ \A d \in Creds \ {c} : cred'[d] = cred[d]
        /\ cred'[c].iat = cred[c].iat /\ cred'[c].groups = cred[c].groups
        /\ \/ cred'[c].pc \in {"groups", "sign"} /\ cred'[c].key = issuer /\ issuer # 0
              /\ raced' = raced
           \/ cred'[c].pc = "create" /\ issuer = 0 /\ raced' = (raced \/ Creating # {})
    <2>1. CASE issuer # 0
      BY <2>1 DEF Issue, HaveKey, Creates, TypeOK, CredType
    <2>2. CASE issuer = 0
      <3>1. cred' = [cred EXCEPT ![c].kind = kind, ![c].pc = "create"]
        BY <2>2 DEF Issue, Creates
      <3>2. raced' = (raced \/ Creating # {})
        BY <2>2 DEF Issue, Creates
      <3> QED
        BY <2>2, <3>1, <3>2 DEF TypeOK, CredType
    <2> QED
      BY <2>1, <2>2
  <1>2. UNCHANGED <<now, drift, issuer, keys, verifier, groups>> /\ cred[c].pc = "none"
    BY DEF Issue
  <1>3. raced' \in BOOLEAN /\ (raced => raced')
    <2>1. raced \in BOOLEAN
      BY DEF TypeOK
    <2>2. raced' = raced \/ raced' = (raced \/ Creating # {})
      BY <1>1
    <2> QED
      BY <2>1, <2>2, Zenon
  <1>4. TypeOK'
    BY <1>1, <1>2, <1>3 DEF TypeOK
  <1>5. Remembered' /\ AcceptedOnce' /\ RefusedForCause' /\ StrangersRefused'
    BY <1>1, <1>2, <1>3, IssuingKeeps
  <1>6. SignedBefore' /\ KeyFirst'
    BY <1>1, <1>2 DEF SignedBefore, KeyFirst, Presented
  <1>7. GroupsKnown'
    BY <1>1, <1>2 DEF GroupsKnown, LetsThrough, Enforce, Open
  <1>8. OneKey'
    <2>1. SUFFICES ASSUME ~raced' PROVE OneKey'
      BY DEF OneKey
    <2>2. ~raced
      BY <1>3, <2>1
    <2>3. cred'[c].pc = "create" => \A d \in Creds : cred[d].pc # "create"
      BY <1>1, <2>1, Zenon DEF Creating
    <2> QED
      BY <1>1, <1>2, <2>2, <2>3 DEF OneKey
  <1> QED
    BY <1>4, <1>5, <1>6, <1>7, <1>8

\* A request stores an issuer key of its own.
LEMMA CreateIssuerInv ==
  ASSUME AuthInv, NEW c \in Creds, CreateIssuer(c)
  PROVE  AuthInv'
  <1> USE DEF AuthInv, verifier, groups
  <1>1. /\ UNCHANGED <<now, drift, raced, verifier, groups>> /\ cred[c].pc = "create"
        /\ keys' = keys + 1 /\ issuer' = keys + 1
    BY DEF CreateIssuer
  <1>2. /\ cred' \in [Creds -> CredType] /\ \A d \in Creds \ {c} : cred'[d] = cred[d]
        /\ cred'[c].iat = cred[c].iat /\ cred'[c].groups = cred[c].groups
        /\ cred'[c].pc \in {"groups", "sign"} /\ cred'[c].key = issuer'
    BY DEF CreateIssuer, HaveKey, TypeOK, CredType, Keys
  <1>3. issuer' # 0 /\ issuer' \in Keys
    BY <1>1 DEF TypeOK, Keys
  <1>4. TypeOK'
    BY <1>1, <1>2, <1>3 DEF TypeOK
  <1>5. Remembered' /\ AcceptedOnce' /\ RefusedForCause' /\ StrangersRefused'
    BY <1>1, <1>2, IssuingKeeps
  <1>6. SignedBefore' /\ KeyFirst'
    BY <1>1, <1>2, <1>3 DEF SignedBefore, KeyFirst, Presented
  <1>7. GroupsKnown'
    BY <1>1, <1>2 DEF GroupsKnown, LetsThrough, Enforce, Open
  <1>8. OneKey'
    <2>1. SUFFICES ASSUME ~raced PROVE OneKey'
      BY <1>1 DEF OneKey
    <2>2. issuer = 0 /\ \A d \in Creds \ {c} : cred[d].pc = "none"
      BY <1>1, <2>1 DEF OneKey, KeyFirst
    <2>3. bundle = NoBundle /\ \A u \in Uses : ~Presented(u)
      BY <2>2, <1>1 DEF KeyFirst, SignedBefore
    <2> QED
      BY <1>1, <1>2, <1>3, <2>2, <2>3 DEF OneKey, Presented
  <1> QED
    BY <1>4, <1>5, <1>6, <1>7, <1>8

\* The sender's groups are looked up, and a credential is signed.
LEMMA SignInv ==
  ASSUME AuthInv, NEW c \in Creds, SourceGroups(c) \/ Sign(c)
  PROVE  AuthInv'
  <1> USE DEF AuthInv, verifier, groups
  <1>1. /\ UNCHANGED <<now, drift, issuer, keys, raced, verifier, groups>>
        /\ cred[c].pc \in {"groups", "sign"}
    BY DEF SourceGroups, Sign
  <1>2. /\ cred' \in [Creds -> CredType] /\ \A d \in Creds \ {c} : cred'[d] = cred[d]
        /\ cred'[c].iat \in {cred[c].iat, now} /\ cred'[c].key = cred[c].key
        /\ cred'[c].pc \in {"sign", "signed"}
        /\ cred'[c].groups \in {cred[c].groups, member["sender"]}
    <2>1. CASE SourceGroups(c)
      BY <2>1 DEF SourceGroups, BoundGroups, TypeOK, CredType, Members
    <2>2. CASE Sign(c)
      BY <2>2 DEF Sign, TypeOK, CredType
    <2> QED
      BY <2>1, <2>2
  <1>3. TypeOK'
    BY <1>1, <1>2 DEF TypeOK
  <1>4. Remembered' /\ AcceptedOnce' /\ RefusedForCause' /\ StrangersRefused'
    BY <1>1, <1>2, IssuingKeeps
  <1>5. SignedBefore' /\ KeyFirst'
    <2>1. \A d \in Creds : cred'[d].iat <= now'
      BY <1>1, <1>2 DEF SignedBefore, TypeOK, CredType
    <2> QED
      BY <1>1, <1>2, <2>1 DEF SignedBefore, KeyFirst, Presented
  <1>6. GroupsKnown'
    BY <1>1, <1>2 DEF GroupsKnown, LetsThrough, Enforce, Open
  <1>7. OneKey'
    BY <1>1, <1>2 DEF OneKey
  <1> QED
    BY <1>3, <1>4, <1>5, <1>6, <1>7

\* What the node does to one request leaves the relay and the groups alone.
LEMMA UseKeeps ==
  ASSUME AuthInv, UNCHANGED <<now, drift, authority, groups>>
  PROVE  GroupsKnown' /\ \A c \in Creds : Exp(c)' = Exp(c) /\ Kept(c)' = Kept(c)
  BY DEF AuthInv, authority, groups, GroupsKnown, LetsThrough, Enforce, Open, Exp, Kept

\* A request comes with a credential.
LEMMA PresentInv ==
  ASSUME AuthInv, NEW u \in Uses, NEW c \in Creds, Present(u, c)
  PROVE  AuthInv'
  <1> USE DEF AuthInv, authority, groups
  <1>1. /\ UNCHANGED <<now, drift, authority, seen, life, groups>>
        /\ use[u].pc = "none" /\ cred[c].pc = "signed"
    BY DEF Present
  <1>2. issuer # 0
    BY <1>1 DEF KeyFirst
  <1>3. /\ bundle' \in {bundle, Fetched} /\ bundle' \in [key : Keys, exp : Nat]
        /\ use' \in [Uses -> UseType] /\ \A v \in Uses \ {u} : use'[v] = use[v]
        /\ use'[u].life = use[u].life
        /\ \/ use'[u].pc = "unbundled"
           \/ use'[u].pc = "verify" /\ use'[u].cred = c /\ use'[u].key = bundle'.key
              /\ bundle' # NoBundle
    <2>1. Fetched \in [key : Keys, exp : Nat] /\ Fetched # NoBundle
      BY <1>2, TimesAssumption DEF Fetched, NoBundle, TypeOK, Keys
    <2>2. ASSUME NEW b \in [key : Keys, exp : Nat], NEW by \in {"id", "name"},
                 Takes(u, c, by, b)
          PROVE  /\ use' \in [Uses -> UseType] /\ \A v \in Uses \ {u} : use'[v] = use[v]
                 /\ use'[u].pc = "verify" /\ use'[u].cred = c /\ use'[u].key = b.key
                 /\ use'[u].life = use[u].life
      <3>1. /\ b.exp \in Int /\ b.key \in Keys /\ use \in [Uses -> UseType]
            /\ use[u] \in UseType /\ by \in Bys
        BY DEF TypeOK, Bys
      <3>2. use' = [use EXCEPT ![u] = Taken(use[u], c, by, b.key, b.exp)]
        BY <2>2, Zenon DEF Takes, Taken
      <3> HIDE DEF AuthInv
      <3> QED
        BY <3>1, <3>2, UseTaken, UsePut
    <2>0. PICK by \in {"id", "name"} :
            \/ bundle # NoBundle /\ Takes(u, c, by, bundle) /\ UNCHANGED bundle
            \/ bundle' = Fetched /\ Takes(u, c, by, Fetched)
            \/ UNCHANGED bundle /\ use' = [use EXCEPT ![u].pc = "unbundled"]
      BY DEF Present
    <2>3. CASE bundle # NoBundle /\ Takes(u, c, by, bundle) /\ UNCHANGED bundle
      BY <2>2, <2>3 DEF TypeOK
    <2>5. CASE bundle' = Fetched /\ Takes(u, c, by, Fetched)
      BY <2>1, <2>2, <2>5
    <2>4. CASE UNCHANGED bundle /\ use' = [use EXCEPT ![u].pc = "unbundled"]
      <3>1. /\ use \in [Uses -> UseType] /\ use[u] \in UseType /\ "unbundled" \in UsePCs
            /\ bundle \in [key : Keys, exp : Nat]
        BY DEF TypeOK, UsePCs
      <3>2. use' = [use EXCEPT ![u] = At(use[u], "unbundled")]
        BY <2>4, Zenon DEF At
      <3>3. /\ use' \in [Uses -> UseType] /\ \A v \in Uses \ {u} : use'[v] = use[v]
            /\ use'[u].pc = "unbundled" /\ use'[u].life = use[u].life
        <4> HIDE DEF AuthInv
        <4> QED
          BY <3>1, <3>2, UseAt, UsePut
      <3> QED
        BY <2>4, <3>1, <3>3
    <2> QED
      BY <2>0, <2>3, <2>4, <2>5
  <1>4. TypeOK' /\ SignedBefore'
    <2>1. TypeOK'
      BY <1>1, <1>3 DEF TypeOK
    <2>2. \A d \in Creds : cred'[d].iat <= now'
      BY <1>1 DEF SignedBefore
    <2>3. \A v \in Uses \ {u} : Presented(v)' => use'[v].cred \in Creds /\ cred'[use'[v].cred].pc = "signed"
      BY <1>1, <1>3 DEF SignedBefore, Presented
    <2>4. Presented(u)' => use'[u].cred \in Creds /\ cred'[use'[u].cred].pc = "signed"
      BY <1>1, <1>3 DEF Presented
    <2> QED
      BY <2>1, <2>2, <2>3, <2>4 DEF SignedBefore
  <1>5. KeyFirst' /\ GroupsKnown'
    BY <1>1, <1>2, UseKeeps DEF KeyFirst
  <1>6. OneKey'
    <2>1. SUFFICES ASSUME ~raced PROVE OneKey'
      BY <1>1 DEF OneKey
    <2>2. bundle' # NoBundle => bundle'.key = issuer
      <3>1. bundle # NoBundle => bundle.key = issuer
        BY <2>1 DEF OneKey
      <3>2. Fetched.key = issuer
        BY DEF Fetched
      <3> QED
        BY <1>3, <3>1, <3>2
    <2>3. \A v \in Uses : use'[v].pc = "verify" => use'[v].key = issuer
      BY <1>3, <2>1, <2>2 DEF OneKey
    <2> QED
      BY <1>1, <2>1, <2>2, <2>3 DEF OneKey
  <1>7. \A v \in Uses : use'[v].pc \notin {"unbundled", "verify"} => use'[v] = use[v]
    BY <1>3
  <1>8. NodeNow' = NodeNow
    BY <1>1 DEF NodeNow
  <1>9. \A v \in Uses : Accepted(v)' => Accepted(v) /\ use'[v] = use[v] /\ use[v].cred \in Creds
    BY <1>1, <1>7 DEF Accepted, Kind, SignedBefore, Presented
  <1>10. Remembered' /\ AcceptedOnce'
    <2>1. \A v \in Uses : use'[v].life <= life'
      BY <1>1, <1>3 DEF Remembered
    <2> QED
      BY <1>1, <1>8, <1>9, <2>1, UseKeeps DEF Remembered, AcceptedOnce
  <1>11. RefusedForCause' /\ StrangersRefused'
    <2>1. \A v \in Uses : use[v].pc = "unverified" => use[v].cred \in Creds
      BY DEF SignedBefore, Presented
    <2> QED
      BY <1>1, <1>7, <2>1, UseKeeps DEF RefusedForCause, StrangersRefused
  <1> QED
    BY <1>4, <1>5, <1>6, <1>10, <1>11

\* The node decides about a request, and puts what is so of it in place.
Decided(u) ==
  /\ use' \in [Uses -> UseType] /\ \A v \in Uses \ {u} : use'[v] = use[v]
  /\ use'[u].cred = use[u].cred /\ use'[u].life \in {use[u].life, life}

\* A decision that is right about its own request disturbs nothing else.
LEMMA DecidedInv ==
  ASSUME AuthInv, NEW u \in Uses, Presented(u), Decided(u),
         UNCHANGED <<now, drift, authority, bundle, seen, life, groups>>,
         use'[u].pc \notin {"none", "unbundled", "verify"},
         Accepted(u)' => Accepted(u) /\ use'[u].at = use[u].at /\ use'[u].life = use[u].life,
         use'[u].pc = "unverified" =>
           raced \/ use'[u].at > Exp(use[u].cred) + Skew \/ use'[u].at > use'[u].until + Skew,
         use'[u].pc = "delivered" =>
           \/ met \/ (use'[u].by = "tags" /\ Enforce(Tags, been, {}))
           \/ use'[u].by = "unnamed"
  PROVE  AuthInv'
  <1> USE DEF AuthInv, authority, groups
  <1>1. GroupsKnown' /\ \A c \in Creds : Exp(c)' = Exp(c) /\ Kept(c)' = Kept(c)
    BY UseKeeps
  <1>2. TypeOK' /\ KeyFirst'
    BY DEF Decided, TypeOK, KeyFirst
  <1>3. SignedBefore'
    <2>1. \A v \in Uses : Presented(v)' => Presented(v) /\ use'[v].cred = use[v].cred
      BY DEF Decided, Presented
    <2> QED
      BY <2>1 DEF SignedBefore
  <1>4. OneKey'
    BY DEF OneKey, Decided
  <1>5. NodeNow' = NodeNow
    BY DEF NodeNow
  <1>6. \A v \in Uses : Accepted(v)' =>
          /\ Accepted(v) /\ use'[v].cred = use[v].cred /\ use'[v].at = use[v].at
          /\ use[v].cred \in Creds /\ use'[v].life = use[v].life
    BY DEF Decided, Accepted, Kind, SignedBefore, Presented
  <1>7. Remembered' /\ AcceptedOnce'
    <2>1. \A c \in Creds : seen[c] # 0 => cred'[c].pc = "signed" /\ seen[c] = Kept(c)'
      BY <1>1 DEF Remembered
    <2>2. \A v \in Uses : Accepted(v)' /\ use'[v].life = life =>
            seen[use'[v].cred] # 0 \/ NodeNow' > Kept(use[v].cred)'
      BY <1>5, <1>6 DEF Remembered, Kept, Exp
    <2>5. \A v \in Uses : use'[v].life <= life'
      <3>1. life' = life /\ life \in Nat /\ \A v \in Uses : use[v].life <= life
        BY DEF Remembered, TypeOK
      <3>2. \A v \in Uses : use'[v].life \in {use[v].life, life}
        BY DEF Decided
      <3> HIDE DEF AuthInv
      <3> QED
        BY <3>1, <3>2
    <2>3. Remembered'
      BY <1>6, <2>1, <2>2, <2>5 DEF Remembered
    <2>4. AcceptedOnce'
      BY <1>6 DEF AcceptedOnce, Exp
    <2> QED
      BY <2>3, <2>4
  <1>8. RefusedForCause'
    <2>1. \A v \in Uses \ {u} : use[v].pc = "unverified" => use[v].cred \in Creds
      BY DEF SignedBefore, Presented
    <2>2. use[u].cred \in Creds
      BY DEF SignedBefore
    <2> QED
      BY <1>1, <2>1, <2>2 DEF RefusedForCause, Decided
  <1>9. StrangersRefused'
    BY DEF StrangersRefused, Decided, Enforce
  <1> QED
    BY <1>1, <1>2, <1>3, <1>4, <1>7, <1>8, <1>9

\* What is presented was not signed in the future, by the node's clock either.
LEMMA CredentialTimes ==
  ASSUME AuthInv, NEW u \in Uses, Presented(u)
  PROVE  /\ NodeNow >= cred[use[u].cred].iat - Skew
         /\ Exp(use[u].cred) + Skew \in Int /\ use[u].until + Skew \in Int
  <1>1. TypeOK /\ SignedBefore
    BY DEF AuthInv
  <1>2. use[u].cred \in Creds
    BY <1>1 DEF SignedBefore
  <1>3. cred[use[u].cred].iat \in Nat /\ cred[use[u].cred].iat <= now /\ use[u].until \in Int
    BY <1>1, <1>2 DEF SignedBefore, TypeOK, CredType, UseType
  <1>4. now \in Int /\ TTL \in Int /\ Skew \in Int /\ NodeNow \in Int /\ NodeNow >= now - Skew
    BY <1>1, DriftBound, TimesAssumption DEF TypeOK
  <1>5. NodeNow >= cred[use[u].cred].iat - Skew
    BY <1>3, <1>4, NotTooEarly
  <1>6. Exp(use[u].cred) + Skew \in Int
    BY <1>3, <1>4 DEF Exp
  <1>7. use[u].until + Skew \in Int
    BY <1>3, <1>4
  <1> QED
    BY <1>5, <1>6, <1>7

\* What is presented is verified: its key is that of the bundle, its time has
\* come, and whether it is over is a cause to refuse it.
LEMMA CheckInv ==
  ASSUME AuthInv, NEW u \in Uses, NEW kind, NEW next \in {"consume", "admitted"},
         next = "admitted" => kind = "observer", Check(u, kind, next)
  PROVE  AuthInv'
  <1> USE DEF AuthInv
  <1>1. /\ use[u].pc = "verify" /\ Kind(u) = kind /\ Presented(u)
        /\ UNCHANGED <<now, drift, authority, bundle, seen, life, groups>>
    BY DEF Check, OnlyUse, Presented
  <1>2. NodeNow \in Int
    BY DriftBound
  <1>3. CASE Verifies(u)
    <2>1. use' = [use EXCEPT ![u] = Verified(use[u], next)]
      BY <1>3, Zenon DEF Check, Verified
    <2>2. Decided(u) /\ use'[u].pc = next /\ use'[u].at = use[u].at
      <3>1. use \in [Uses -> UseType] /\ use[u] \in UseType /\ next \in UsePCs
        BY DEF TypeOK, UsePCs
      <3> HIDE DEF AuthInv
      <3> QED
        BY <2>1, <3>1, UseVerified, UsePut DEF Decided
    <2>3. ~Accepted(u)'
      BY <1>1, <2>2 DEF Accepted, Kind, Decided, authority
    <2> QED
      BY <1>1, <2>2, <2>3, DecidedInv
  <1>4. CASE ~Verifies(u)
    <2>1. use' = [use EXCEPT ![u] = Refused(use[u], "unverified", NodeNow)]
      BY <1>4, Zenon DEF Check, Refuse, Refused
    <2>2. /\ Decided(u) /\ use'[u].pc = "unverified" /\ use'[u].at = NodeNow
          /\ use'[u].until = use[u].until
      <3>1. use \in [Uses -> UseType] /\ use[u] \in UseType /\ "unverified" \in UsePCs
        BY DEF TypeOK, UsePCs
      <3> HIDE DEF AuthInv
      <3> QED
        BY <1>2, <2>1, <3>1, UseRefused, UsePut DEF Decided
    <2>3. ~Accepted(u)'
      BY <2>2 DEF Accepted
    <2>4. raced \/ NodeNow > Exp(use[u].cred) + Skew \/ NodeNow > use[u].until + Skew
      <3>1. use[u].cred \in Creds /\ cred[use[u].cred].pc = "signed"
        BY <1>1 DEF SignedBefore
      <3>3. raced \/ cred[use[u].cred].key = use[u].key
        BY <1>1, <3>1 DEF OneKey
      <3>4. /\ NodeNow >= cred[use[u].cred].iat - Skew
            /\ Exp(use[u].cred) + Skew \in Int /\ use[u].until + Skew \in Int
        BY <1>1, CredentialTimes
      <3>5. \/ ~(NodeNow <= use[u].until + Skew)
            \/ ~(NodeNow <= Exp(use[u].cred) + Skew)
            \/ cred[use[u].cred].key # use[u].key
        BY <1>4, <3>4 DEF Verifies
      <3> QED
        BY <1>2, <3>3, <3>4, <3>5, Above
    <2> QED
      BY <1>1, <2>2, <2>3, <2>4, DecidedInv
  <1> QED
    BY <1>3, <1>4

\* A message is delivered where a group of the sender lets it through.
LEMMA DeliverInv ==
  ASSUME AuthInv, NEW u \in Uses, Deliver(u) \/ DeliverReply(u)
  PROVE  AuthInv'
  <1> USE DEF AuthInv
  <1>1. /\ use[u].pc = "deliver" /\ Presented(u)
        /\ UNCHANGED <<now, drift, authority, bundle, seen, life, groups>>
    BY DEF Deliver, DeliverReply, OnlyUse, Presented
  <1>2. use[u].cred \in Creds /\ cred[use[u].cred].groups \subseteq been
    BY <1>1 DEF SignedBefore, GroupsKnown
  <1>3. ASSUME NEW allowed \in BOOLEAN, NEW by \in {"relay", "tags", "unnamed"},
               Decide(u, allowed, by),
               allowed => met \/ (by = "tags" /\ Enforce(Tags, been, {})) \/ by = "unnamed"
        PROVE  AuthInv'
    <2>1. /\ Decided(u) /\ use'[u].at = use[u].at /\ use'[u].by = by
          /\ use'[u].life = use[u].life
          /\ use'[u].pc \in {"delivered", "forbidden"} /\ (use'[u].pc = "delivered" => allowed)
      <3>1. use \in [Uses -> UseType] /\ use[u] \in UseType /\ by \in Bys
        BY DEF TypeOK, Bys
      <3>2. PICK pc \in UsePCs : pc = IF allowed THEN "delivered" ELSE "forbidden"
        BY DEF UsePCs
      <3>3. use' = [use EXCEPT ![u] = DecidedBy(use[u], pc, by)]
        BY <1>3, <3>2, Zenon DEF Decide, DecidedBy
      <3> HIDE DEF AuthInv
      <3> QED
        BY <3>1, <3>2, <3>3, UseDecided, UsePut DEF Decided
    <2>2. Accepted(u)' => Accepted(u)
      BY <1>1, <2>1 DEF Accepted, Kind, Decided, authority
    <2> QED
      BY <1>1, <1>3, <2>1, <2>2, DecidedInv
  <1>4. CASE Deliver(u)
    <2> DEFINE from == cred[use[u].cred].groups
    <2>1. CASE Decide(u, TRUE, "unnamed")
      BY <1>3, <2>1
    <2>2. CASE TargetGroups # {} /\ Decide(u, Enforce(TargetGroups, from, Open(policy)), "relay")
      <3>1. Enforce(TargetGroups, from, Open(policy)) => met
        BY <1>2, <2>2, MoreGroups DEF GroupsKnown, TargetGroups, BoundGroups, LetsThrough
      <3>2. Enforce(TargetGroups, from, Open(policy)) \in BOOLEAN
        BY DEF Enforce
      <3> QED
        BY <1>3, <2>2, <3>1, <3>2
    <2>3. CASE \E tags \in Tagged :
                 Decide(u, Enforce(tags, from, {}), IF named THEN "tags" ELSE "unnamed")
      <3> PICK tags \in Tagged :
                 Decide(u, Enforce(tags, from, {}), IF named THEN "tags" ELSE "unnamed")
        BY <2>3
      <3>1. Enforce(tags, from, {}) \in BOOLEAN
        BY DEF Enforce
      <3>2. CASE ~named
        BY <1>3, <3>1, <3>2
      <3>3. CASE named
        <4>1. tags = Tags /\ (Enforce(Tags, from, {}) => Enforce(Tags, been, {}))
          BY <1>2, <3>3, MoreGroups DEF Tagged
        <4> QED
          BY <1>3, <3>1, <3>3, <4>1
      <3> QED
        BY <3>2, <3>3
    <2> QED
      BY <1>4, <2>1, <2>2, <2>3 DEF Deliver
  <1>5. CASE DeliverReply(u)
    <2>1. /\ Decided(u) /\ use'[u].at = use[u].at /\ use'[u].pc = "admitted"
          /\ use'[u].life = use[u].life
      <3>1. use \in [Uses -> UseType] /\ use[u] \in UseType /\ "admitted" \in UsePCs
        BY DEF TypeOK, UsePCs
      <3>2. use' = [use EXCEPT ![u] = At(use[u], "admitted")]
        BY <1>5, Zenon DEF DeliverReply, At
      <3> HIDE DEF AuthInv
      <3> QED
        BY <3>1, <3>2, UseAt, UsePut DEF Decided
    <2>2. Accepted(u)' => Accepted(u)
      BY <1>1, <2>1 DEF Accepted, Kind, Decided, authority
    <2> QED
      BY <1>1, <2>1, <2>2, DecidedInv
  <1> QED
    BY <1>4, <1>5

\* A credential that is remembered is consumed only when its time is over, and
\* then it is remembered.
LEMMA ConsumeInv ==
  ASSUME AuthInv, NEW u \in Uses, Consume(u)
  PROVE  AuthInv'
  <1> USE DEF AuthInv, authority, groups
  <1> DEFINE c == use[u].cred
             left == [d \in Creds |-> IF NodeNow > seen[d] THEN 0 ELSE seen[d]]
             replayed == left[c] # 0 /\ NodeNow < left[c]
  <1>1. /\ UNCHANGED <<now, drift, authority, bundle, life, groups>>
        /\ use[u].pc = "consume" /\ Presented(u)
    BY DEF Consume, Presented
  <1>2. c \in Creds /\ cred[c].pc = "signed" /\ ~Accepted(u)
    BY <1>1 DEF SignedBefore, Accepted
  <1>3. /\ NodeNow \in Int /\ NodeNow' = NodeNow /\ seen \in [Creds -> Nat]
        /\ \A d \in Creds : Kept(d) \in Nat \ {0} /\ Kept(d) = Exp(d) + Skew
    <2>1. \A d \in Creds : cred[d].iat \in Nat
      BY DEF TypeOK, CredType
    <2>2. \A d \in Creds : Kept(d) \in Nat \ {0} /\ Kept(d) = Exp(d) + Skew
      <3> SUFFICES ASSUME NEW d \in Creds
                   PROVE  Kept(d) \in Nat \ {0} /\ Kept(d) = Exp(d) + Skew
        OBVIOUS
      <3> DEFINE i == cred[d].iat
      <3>1. i \in Nat /\ TTL \in Nat \ {0} /\ Skew \in Nat /\ Kept(d) = i + TTL + Skew
            /\ Exp(d) = i + TTL
        BY <2>1, TimesAssumption DEF Kept, Exp
      <3> HIDE DEF i
      <3> QED
        BY <3>1
    <2> QED
      BY <1>1, <2>2, DriftBound DEF NodeNow, TypeOK
  <1>4. GroupsKnown' /\ \A d \in Creds : Exp(d)' = Exp(d) /\ Kept(d)' = Kept(d)
    BY <1>1, UseKeeps
  <1>5. \A d \in Creds : seen[d] # 0 => cred[d].pc = "signed" /\ seen[d] = Kept(d)
    BY DEF Remembered
  <1>6. \A d \in Creds : left[d] \in Nat /\ left[d] \in {0, seen[d]}
          /\ (left[d] = 0 => seen[d] = 0 \/ NodeNow > Kept(d))
    BY <1>3, <1>5
  <1>7. /\ seen' \in [Creds -> Nat] /\ \A d \in Creds \ {c} : seen'[d] = left[d]
        /\ seen'[c] = IF replayed THEN left[c] ELSE Kept(c)
    <2>1. replayed => seen' = left
      BY DEF Consume
    <2>2. ~replayed => seen' = [left EXCEPT ![c] = Kept(c)]
      BY DEF Consume
    <2> QED
      BY <1>2, <1>3, <1>6, <2>1, <2>2
  <1>8. /\ Decided(u) /\ use'[u].at = NodeNow
        /\ use'[u].pc = IF replayed THEN "replayed" ELSE IF Kind(u) = "sender" THEN "deliver" ELSE "admitted"
        /\ ~replayed => use'[u].life = life
    <2>1. CASE replayed
      <3>1. use' = [use EXCEPT ![u] = Refused(use[u], "replayed", NodeNow)]
        BY <2>1, Zenon DEF Consume, Refuse, Refused
      <3>2. use \in [Uses -> UseType] /\ use[u] \in UseType /\ "replayed" \in UsePCs
        BY DEF TypeOK, UsePCs
      <3> HIDE DEF AuthInv, replayed
      <3> QED
        BY <1>3, <2>1, <3>1, <3>2, UseRefused, UsePut DEF Decided
    <2>2. CASE ~replayed
      <3> DEFINE next == IF Kind(u) = "sender" THEN "deliver" ELSE "admitted"
      <3>1. use' = [use EXCEPT ![u] = Admitted(use[u], next, NodeNow, life)]
        BY <2>2, Zenon DEF Consume, Admitted
      <3>2. next \in {"deliver", "admitted"}
        OBVIOUS
      <3>3. Decided(u) /\ use'[u].at = NodeNow /\ use'[u].pc = next /\ use'[u].life = life
        <4> HIDE DEF next
        <4>1. use \in [Uses -> UseType] /\ use[u] \in UseType /\ life \in Nat /\ next \in UsePCs
          BY <3>2 DEF TypeOK, UsePCs
        <4> HIDE DEF AuthInv
        <4> QED
          BY <1>3, <3>1, <4>1, UseAdmitted, UsePut DEF Decided
      <3> QED
        BY <2>2, <3>3
    <2> QED
      BY <2>1, <2>2
  <1>9. TypeOK' /\ KeyFirst' /\ OneKey'
    <2>1. TypeOK'
      BY <1>1, <1>7, <1>8 DEF TypeOK, Decided
    <2>2. KeyFirst' /\ OneKey'
      BY <1>1, <1>8 DEF KeyFirst, OneKey, Decided
    <2> QED
      BY <2>1, <2>2
  <1>10. SignedBefore'
    <2>1. \A v \in Uses : Presented(v)' => Presented(v) /\ use'[v].cred = use[v].cred
      BY <1>1, <1>8 DEF Decided, Presented
    <2> QED
      BY <1>1, <2>1 DEF SignedBefore
  <1>11. \A v \in Uses : Accepted(v)' =>
           /\ use'[v].cred = use[v].cred /\ use[v].cred \in Creds
           /\ \/ Accepted(v) /\ v # u /\ use'[v].at = use[v].at /\ use'[v].life = use[v].life
              \/ v = u /\ ~replayed /\ use'[v].life = life
    <2>1. ASSUME NEW v \in Uses \ {u}, Accepted(v)'
          PROVE  Accepted(v) /\ use'[v] = use[v] /\ use[v].cred \in Creds
      BY <1>1, <1>8, <2>1 DEF Decided, Accepted, Kind, SignedBefore, Presented
    <2>2. Accepted(u)' => ~replayed /\ use'[u].cred = c /\ use'[u].life = life
      BY <1>8 DEF Decided, Accepted
    <2> QED
      BY <1>2, <2>1, <2>2
  <1>12. Remembered'
    <2>1. \A d \in Creds : seen'[d] # 0 => cred'[d].pc = "signed" /\ seen'[d] = Kept(d)'
      BY <1>1, <1>2, <1>4, <1>5, <1>6, <1>7
    <2>3. \A v \in Uses : use'[v].life <= life'
      <3>1. life' = life /\ life \in Nat /\ \A v \in Uses : use[v].life <= life
        BY <1>1 DEF Remembered, TypeOK
      <3>2. \A v \in Uses : use'[v].life \in {use[v].life, life}
        BY <1>8 DEF Decided
      <3> HIDE DEF AuthInv
      <3> QED
        BY <3>1, <3>2
    <2>2. ASSUME NEW v \in Uses, Accepted(v)', use'[v].life = life'
          PROVE  seen'[use'[v].cred] # 0 \/ NodeNow' > Kept(use[v].cred)'
      <3>1. CASE v = u
        BY <1>2, <1>3, <1>7, <1>11, <2>2, <3>1
      <3>2. CASE v # u
        <4>1. /\ use'[v].cred = use[v].cred /\ use[v].cred \in Creds
              /\ seen[use[v].cred] # 0 \/ NodeNow > Kept(use[v].cred)
          BY <1>1, <1>11, <2>2, <3>2 DEF Remembered
        <4>2. left[use[v].cred] # 0 \/ NodeNow > Kept(use[v].cred)
          BY <1>6, <4>1
        <4>3. seen'[use[v].cred] # 0 \/ NodeNow > Kept(use[v].cred)
          BY <1>2, <1>3, <1>7, <4>1, <4>2
        <4> QED
          BY <1>1, <1>3, <4>1, <4>3 DEF Kept, Exp
      <3> QED
        BY <3>1, <3>2
    <2> QED
      BY <1>11, <2>1, <2>2, <2>3 DEF Remembered
  <1>13. AcceptedOnce'
    <2>1. ASSUME NEW v \in Uses \ {u}, Accepted(u)', Accepted(v)', use'[u].cred = use'[v].cred,
                 use'[u].life = use'[v].life
          PROVE  use'[u].at >= Exp(use[u].cred)' + Skew
      <3>1. ~replayed /\ use'[u].cred = c /\ use[v].cred = c /\ Accepted(v) /\ use[v].life = life
        BY <1>11, <2>1
      <3>2. seen[c] # 0 \/ NodeNow > Kept(c)
        BY <3>1 DEF Remembered
      <3>3. NodeNow >= Kept(c)
        BY <1>2, <1>3, <1>5, <1>6, <3>1, <3>2
      <3>4. use'[u].at >= Exp(c) + Skew
        BY <1>2, <1>3, <1>8, <3>3
      <3> QED
        BY <1>1, <3>1, <3>4 DEF Exp
    <2>2. ASSUME NEW v \in Uses \ {u}, NEW w \in Uses \ {u}, v # w,
                 Accepted(v)', Accepted(w)', use'[v].cred = use'[w].cred,
                 use'[v].life = use'[w].life
          PROVE  \/ use'[v].at >= Exp(use[v].cred)' + Skew
                 \/ use'[w].at >= Exp(use[w].cred)' + Skew
      <3>1. /\ Accepted(v) /\ use'[v].at = use[v].at /\ use'[v].cred = use[v].cred
            /\ Accepted(w) /\ use'[w].at = use[w].at /\ use'[w].cred = use[w].cred
            /\ use[v].cred \in Creds /\ use[w].cred \in Creds
            /\ use[v].life = use[w].life
        BY <1>11, <2>2
      <3>2. use[v].at >= Exp(use[v].cred) + Skew \/ use[w].at >= Exp(use[w].cred) + Skew
        BY <2>2, <3>1 DEF AcceptedOnce
      <3> QED
        BY <1>1, <3>1, <3>2 DEF Exp
    <2> QED
      BY <2>1, <2>2 DEF AcceptedOnce
  <1>14. RefusedForCause'
    <2>1. \A v \in Uses : use'[v].pc = "unverified" =>
            use[v].pc = "unverified" /\ use'[v] = use[v] /\ use[v].cred \in Creds
      BY <1>8 DEF Decided, SignedBefore, Presented
    <2> QED
      BY <1>1, <1>4, <2>1 DEF RefusedForCause
  <1>15. StrangersRefused'
    BY <1>1, <1>8 DEF StrangersRefused, Decided, Enforce
  <1> QED
    BY <1>4, <1>9, <1>10, <1>12, <1>13, <1>14, <1>15

\* A change to the groups adds to what the sender has been in, and to what has
\* let it through.
LEMMA EditInv ==
  ASSUME AuthInv, NEW m \in [Members -> SUBSET Groups],
         NEW p \in [Groups -> {"none", "internal-only", "open"}], Edit(m, p)
  PROVE  AuthInv'
  <1> USE DEF AuthInv, authority, verifier
  <1>1. /\ UNCHANGED <<now, drift, authority, verifier>>
        /\ member' = m /\ policy' = p /\ edits' = edits + 1
        /\ been' = been \cup m["sender"]
        /\ met' = (met \/ LetsThrough(been', m["target"], p))
    BY DEF Edit
  <1>2. met' \in BOOLEAN /\ (met => met') /\ (LetsThrough(been', m["target"], p) => met')
    <2>1. met \in BOOLEAN /\ LetsThrough(been', m["target"], p) \in BOOLEAN
      BY DEF TypeOK, LetsThrough, Enforce
    <2>2. met' = (met \/ LetsThrough(been', m["target"], p))
      BY <1>1
    <2> HIDE DEF AuthInv
    <2> QED
      BY <2>1, <2>2, Zenon
  <1>3. TypeOK'
    <2>1. been' \in SUBSET Groups
      BY <1>1 DEF TypeOK, Members
    <2>2. edits' \in Nat /\ met' \in BOOLEAN
      BY <1>1, <1>2 DEF TypeOK
    <2>3. TypeOK
      OBVIOUS
    <2>4. UNCHANGED <<now, drift, issuer, keys, raced, cred, bundle, seen, use, life, named>>
      BY <1>1 DEF Edit
    <2> HIDE DEF AuthInv
    <2> QED
      BY <1>1, <2>1, <2>2, <2>3, <2>4 DEF TypeOK
  <1>4. NodeNow' = NodeNow /\ \A c \in Creds : Exp(c)' = Exp(c) /\ Kept(c)' = Kept(c)
    BY <1>1 DEF NodeNow, Exp, Kept
  <1>5. SignedBefore' /\ KeyFirst' /\ OneKey'
    BY <1>1 DEF SignedBefore, KeyFirst, OneKey, Presented
  <1>6. Remembered' /\ AcceptedOnce' /\ RefusedForCause'
    BY <1>1 DEF Remembered, AcceptedOnce, RefusedForCause, Accepted, Kind, NodeNow, Exp, Kept
  <1>7. GroupsKnown'
    BY <1>1, <1>2 DEF GroupsKnown
  <1>8. StrangersRefused'
    <2>1. Enforce(Tags, been, {}) => Enforce(Tags, been', {})
      BY <1>1, MoreGroups
    <2> QED
      BY <1>1, <1>2, <2>1 DEF StrangersRefused
  <1> QED
    BY <1>3, <1>5, <1>6, <1>7, <1>8

\* The target gets a name, or loses it.
LEMMA RenameInv == ASSUME AuthInv, Rename PROVE AuthInv'
  <1> USE DEF AuthInv, Rename, authority, verifier
  <1>1. TypeOK'
    <2>1. TypeOK /\ named' = ~named /\ edits' = edits + 1 /\ named' \in BOOLEAN
          /\ UNCHANGED <<now, drift, issuer, keys, raced, cred, bundle, seen, use, life,
                         member, policy, been, met>>
      OBVIOUS
    <2> HIDE DEF AuthInv, Rename
    <2> QED
      BY <2>1 DEF TypeOK
  <1>2. SignedBefore' /\ KeyFirst' /\ OneKey'
    BY DEF SignedBefore, KeyFirst, OneKey, Presented
  <1>3. Remembered' /\ AcceptedOnce' /\ RefusedForCause'
    BY DEF Remembered, AcceptedOnce, RefusedForCause, Accepted, Kind, NodeNow, Exp, Kept
  <1>4. GroupsKnown' /\ StrangersRefused'
    BY DEF GroupsKnown, StrangersRefused, LetsThrough, Enforce, Open
  <1> QED
    BY <1>1, <1>2, <1>3, <1>4

\* A new node remembers nothing: what was accepted was so in an earlier life.
LEMMA RestartInv == ASSUME AuthInv, NodeRestarts PROVE AuthInv'
  <1> USE DEF AuthInv, authority
  <1>1. /\ UNCHANGED <<now, drift, authority, named, member, policy, been, met>>
        /\ life' = life + 1 /\ edits' = edits + 1
        /\ bundle' = NoBundle /\ seen' = [c \in Creds |-> 0]
        /\ use' = [u \in Uses |->
             IF use[u].pc \in {"verify", "consume", "deliver"} THEN [use[u] EXCEPT !.pc = "cut"] ELSE use[u]]
    BY DEF NodeRestarts
  <1>2. \A u \in Uses :
          /\ use'[u] \in UseType /\ use'[u].cred = use[u].cred /\ use'[u].at = use[u].at
          /\ use'[u].life = use[u].life /\ use'[u].until = use[u].until
          /\ use'[u].by = use[u].by
          /\ \/ use'[u].pc = use[u].pc /\ use[u].pc \notin {"verify", "consume", "deliver"}
             \/ use'[u].pc = "cut" /\ use[u].pc \in {"verify", "consume", "deliver"}
    <2> SUFFICES ASSUME NEW u \in Uses
                 PROVE  /\ use'[u] \in UseType /\ use'[u].cred = use[u].cred /\ use'[u].at = use[u].at
                        /\ use'[u].life = use[u].life /\ use'[u].until = use[u].until
                        /\ use'[u].by = use[u].by
                        /\ \/ use'[u].pc = use[u].pc /\ use[u].pc \notin {"verify", "consume", "deliver"}
                           \/ use'[u].pc = "cut" /\ use[u].pc \in {"verify", "consume", "deliver"}
      OBVIOUS
    <2>1. use[u] \in UseType /\ "cut" \in UsePCs
      BY DEF TypeOK, UsePCs
    <2>2. use'[u] = IF use[u].pc \in {"verify", "consume", "deliver"}
                      THEN [use[u] EXCEPT !.pc = "cut"] ELSE use[u]
      BY <1>1
    <2> HIDE DEF AuthInv
    <2> QED
      BY <2>1, <2>2 DEF UseType
  <1>3. TypeOK'
    <2>1. use' \in [Uses -> UseType]
      BY <1>1, <1>2
    <2>2. bundle' \in [key : Keys, exp : Nat]
      BY <1>1 DEF NoBundle, Keys
    <2> QED
      BY <1>1, <2>1, <2>2 DEF TypeOK
  <1>4. SignedBefore' /\ KeyFirst' /\ OneKey'
    <2>1. \A u \in Uses : Presented(u)' => Presented(u)
      BY <1>2 DEF Presented
    <2>2. SignedBefore'
      BY <1>1, <1>2, <2>1 DEF SignedBefore
    <2>3. KeyFirst'
      BY <1>1 DEF KeyFirst
    <2>4. OneKey'
      BY <1>1, <1>2 DEF OneKey
    <2> QED
      BY <2>2, <2>3, <2>4
  <1>5. \A u \in Uses : Accepted(u)' => Accepted(u) /\ use[u].cred \in Creds
    BY <1>1, <1>2 DEF Accepted, Kind, SignedBefore, Presented
  <1>6. Remembered'
    <2>1. /\ life \in Nat /\ life' = life + 1
          /\ \A u \in Uses : use[u].life \in Nat /\ use[u].life <= life
      BY <1>1 DEF Remembered, TypeOK, UseType
    <2>2. \A u \in Uses : use'[u].life <= life' /\ use'[u].life # life'
      <3> HIDE DEF AuthInv
      <3> QED
        BY <1>2, <2>1
    <2> QED
      BY <1>1, <2>2 DEF Remembered
  <1>7. AcceptedOnce'
    BY <1>1, <1>2, <1>5 DEF AcceptedOnce, Exp
  <1>8. RefusedForCause'
    BY <1>1, <1>2 DEF RefusedForCause, Exp
  <1>9. GroupsKnown' /\ StrangersRefused'
    BY <1>1, <1>2 DEF GroupsKnown, StrangersRefused, LetsThrough, Enforce, Open
  <1> QED
    BY <1>3, <1>4, <1>6, <1>7, <1>8, <1>9

\* Every step preserves the invariant.
LEMMA StepInv == AuthInv /\ [Next]_vars => AuthInv'
  <1> SUFFICES ASSUME AuthInv, [Next]_vars PROVE AuthInv'
    OBVIOUS
  <1>1. CASE Tick \/ NodeRestarts \/ Rename
    BY <1>1, TickInv, RestartInv, RenameInv
  <1>2. ASSUME NEW c \in Creds,
               RuntimeCredential(c) \/ SenderDelegation(c) \/ ObserverDelegation(c)
        PROVE  AuthInv'
    BY <1>2, IssueInv DEF RuntimeCredential, SenderDelegation, ObserverDelegation
  <1>3. ASSUME NEW c \in Creds, CreateIssuer(c) \/ SourceGroups(c) \/ Sign(c)
        PROVE  AuthInv'
    BY <1>3, CreateIssuerInv, SignInv
  <1>4. ASSUME NEW u \in Uses, NEW c \in Creds, Present(u, c)
        PROVE  AuthInv'
    BY <1>4, PresentInv
  <1>5. ASSUME NEW u \in Uses,
               AuthorizePeerRuntime(u) \/ AuthorizePeerSender(u) \/ AuthorizePeerObserver(u)
        PROVE  AuthInv'
    <2>1. CASE Check(u, "runtime", "consume")
      BY <2>1, CheckInv
    <2>2. CASE Check(u, "sender", "consume")
      BY <2>2, CheckInv
    <2>3. CASE Check(u, "observer", "admitted")
      BY <2>3, CheckInv
    <2> QED
      BY <1>5, <2>1, <2>2, <2>3
      DEF AuthorizePeerRuntime, AuthorizePeerSender, AuthorizePeerObserver
  <1>6. ASSUME NEW u \in Uses, Consume(u) \/ Deliver(u) \/ DeliverReply(u)
        PROVE  AuthInv'
    BY <1>6, ConsumeInv, DeliverInv
  <1>7. ASSUME NEW g \in Groups,
               \/ GroupCreate(g) \/ GroupDelete(g)
               \/ \E s \in Members : GroupMemberAdd(s, g) \/ GroupMemberRemove(s, g)
               \/ \E p \in {"internal-only", "open"} : GroupPolicySet(g, p)
        PROVE  AuthInv'
    <2> DEFINE Policies == [Groups -> {"none", "internal-only", "open"}]
    <2>1. member \in [Members -> SUBSET Groups] /\ policy \in Policies
      BY DEF AuthInv, TypeOK
    <2>2. CASE GroupCreate(g)
      <3>1. [policy EXCEPT ![g] = "internal-only"] \in Policies
        BY <2>1
      <3> QED
        BY <2>1, <2>2, <3>1, EditInv DEF GroupCreate
    <2>3. CASE GroupDelete(g)
      <3>1. [s \in DOMAIN member |-> member[s] \ {g}] \in [Members -> SUBSET Groups]
        BY <2>1
      <3>2. [policy EXCEPT ![g] = "none"] \in Policies
        BY <2>1
      <3> QED
        BY <2>3, <3>1, <3>2, EditInv DEF GroupDelete
    <2>4. ASSUME NEW s \in Members, GroupMemberAdd(s, g) \/ GroupMemberRemove(s, g)
          PROVE  AuthInv'
      <3>1. /\ [member EXCEPT ![s] = @ \cup {g}] \in [Members -> SUBSET Groups]
            /\ [member EXCEPT ![s] = @ \ {g}] \in [Members -> SUBSET Groups]
        BY <2>1
      <3> QED
        BY <2>1, <2>4, <3>1, EditInv DEF GroupMemberAdd, GroupMemberRemove
    <2>5. ASSUME NEW p \in {"internal-only", "open"}, GroupPolicySet(g, p)
          PROVE  AuthInv'
      <3>1. [policy EXCEPT ![g] = p] \in Policies
        BY <2>1
      <3> QED
        BY <2>1, <2>5, <3>1, EditInv DEF GroupPolicySet
    <2> QED
      BY <1>7, <2>2, <2>3, <2>4, <2>5
  <1>8. CASE UNCHANGED vars
    <2> USE <1>8 DEF vars, authority, verifier, groups
    <2>1. TypeOK' /\ SignedBefore' /\ KeyFirst' /\ OneKey'
      BY DEF AuthInv, TypeOK, SignedBefore, KeyFirst, OneKey, Presented
    <2>2. Remembered' /\ AcceptedOnce' /\ RefusedForCause'
      BY DEF AuthInv, Remembered, AcceptedOnce, RefusedForCause, Accepted, Kind, NodeNow, Exp, Kept
    <2>3. GroupsKnown' /\ StrangersRefused'
      BY DEF AuthInv, GroupsKnown, StrangersRefused, LetsThrough, Enforce, Open
    <2> QED
      BY <2>1, <2>2, <2>3 DEF AuthInv
  <1> QED
    BY <1>1, <1>2, <1>3, <1>4, <1>5, <1>6, <1>7, <1>8 DEF Next, Members

-----------------------------------------------------------------------------
(* The theorems                                                            *)

\* The invariant holds in every behaviour of the relay and the node.
LEMMA Invariance == Spec => []AuthInv
  BY InitInv, StepInv, PTL DEF Spec

\* ReplayCache and the verifier accept a credential once while it is valid and the
\* node runs.
THEOREM CredentialsAreAcceptedOnce == Spec => []AcceptedOnce
  <1>1. AuthInv => AcceptedOnce
    BY DEF AuthInv
  <1> QED
    BY <1>1, Invariance, PTL

\* A node refuses what the relay has signed only for a cause.
THEOREM RefusalsHaveACause == Spec => []RefusedForCause
  <1>1. AuthInv => RefusedForCause
    BY DEF AuthInv
  <1> QED
    BY <1>1, Invariance, PTL

\* authorizePeerDelivery lets nobody through to a named session that no group has
\* let through.
THEOREM StrangersAreRefused == Spec => []StrangersRefused
  <1>1. AuthInv => StrangersRefused
    BY DEF AuthInv
  <1> QED
    BY <1>1, Invariance, PTL
=============================================================================
