-------------------------- MODULE EnrollmentProofs --------------------------
(***************************************************************************)
(* Proofs about Enrollment, for any number of requests, tokens, people,    *)
(* names, uses and mishaps: nothing is redeemed more often than it was     *)
(* made for, every node has a sponsor, and a network that has members is   *)
(* claimed by nobody else.                                                 *)
(***************************************************************************)
EXTENDS Enrollment, FiniteSetTheorems, TLAPS

-----------------------------------------------------------------------------
(* The inductive invariant                                                 *)

Role == {"none", "member", "owner"}
Kind == {"none", "claim", "invite", "uninvite", "enter", "join", "enroll", "redeem",
         "authorize", "poll", "connect", "revoke"}
PC   == {"idle", "count", "get", "own", "consume", "role", "join", "issue", "find",
         "spend", "register", "exchange", "complete", "touch", "ok", "refused"}
Row  == [tok : Requests \cup {NoID}, enr : IDs \cup {NoID}]
Req  == [kind : Kind, pc : PC, who : Subjects \cup {NoID}, ref : IDs \cup {NoID},
         name : Names \cup {AnyName}, enr : IDs \cup {NoID},
         seen : Role \cup {"claimed", "free"}, used : SUBSET IDs, late : BOOLEAN]

\* The values every variable may take.
TypeOK ==
  /\ members \in [Subjects -> Role]
  /\ invites \in [IDs -> Nat]
  /\ enrolls \in [IDs -> [left : Nat, name : Names \cup {AnyName}]]
  /\ nodes \in [Names -> Row]
  /\ flows \in [IDs -> [name : Names \cup {AnyName}, tok : Requests \cup {NoID}]]
  /\ req \in [Requests -> Req]

\* A row, or what was read of one, whose enrollment stands behind it.
Sponsored(n, t, e) == t \in Requests /\ Sponsors(n, t, e)

\* A claim that began late has seen the members, or will.
ClaimStage(q) ==
  q.late => SomeMember /\ q.pc # "own" /\ (q.pc = "get" => q.seen = "claimed")

MemberOf(q) ==
  /\ q.kind \in {"enter", "enroll"} => q.who \in Subjects
  /\ q.kind = "enroll" => IsMember(q.who)
FlowOf(q)   == q.kind = "poll" => IsFlow(q.ref) /\ flows[q.ref].name = q.name

\* Somebody who joins has a role to get.
JoinStage(q) ==
  /\ q.pc \in {"role", "join"} => q.who \in Subjects
  /\ q.pc = "join" => q.seen \in {"member", "owner"}
  /\ MemberOf(q)

\* What a request redeems was issued; what it was given for it is spent.
TokenStage(q) ==
  /\ q.pc = "consume" => q.kind \in {"enter", "join"} /\ q.used = {} /\ IsInvite(q.ref)
  /\ q.pc = "exchange" => q.kind = "poll"
  /\ q.pc = "issue" => q.kind \in {"join", "poll"}
  /\ q.pc \in {"issue", "find", "spend", "register"} =>
       (q.kind = "join" => q.ref \in q.used) /\ (q.kind = "poll" => q.ref \in exchanged)
  /\ FlowOf(q)

\* The enrollment in hand is the caller's, or the one the request has made.
RedeemStage(r, q) ==
  /\ q.pc \in {"find", "spend", "register"} =>
       \/ q.kind = "redeem" /\ IsEnroll(q.enr)
       \/ q.kind \in {"join", "poll"} /\ q.enr = r
  /\ q.pc \in {"spend", "register"} => enrolls[q.enr].name \in {AnyName, q.name}
  /\ q.pc = "register" => q.enr \in q.used
  /\ q.pc = "touch" => Sponsored(q.name, q.ref, q.enr)

Stage(r, q) ==
  (q.pc = "idle" => q = Unborn) /\ ClaimStage(q) /\ JoinStage(q) /\ TokenStage(q) /\ RedeemStage(r, q)

InStage(r) == Stage(r, req[r])

\* A request that has issued nothing yet: nobody has what is called by its name.
Unissued(q) == q.pc = "idle" \/ (q.kind \in {"join", "poll"} /\ q.pc \in {"consume", "exchange", "issue"})
Blank(r)    == SpentOn(r) = {} /\ invites[r] = 0 /\ enrolls[r].left = 0

\* What is left of a token and what was spent of it are what it was made for.
Ledger(i) == Cardinality(SpentOn(i)) + invites[i] + enrolls[i].left <= Allowed(i)

RowSponsored(n) == nodes[n] # NoNode => Sponsored(n, nodes[n].tok, nodes[n].enr)

EnrollInv ==
  /\ TypeOK
  /\ \A r \in Requests : InStage(r)
  /\ \A r \in Requests : Unissued(req[r]) => Blank(r)
  /\ \A i \in IDs : Ledger(i)
  /\ \A n \in Names : RowSponsored(n)

-----------------------------------------------------------------------------
(* What every step leaves as it is                                         *)

\* A step of request r: what others have read and been given stays true.
Extends(r) ==
  /\ req' \in [Requests -> Req] /\ \A u \in Requests \ {r} : req'[u] = req[u]
  /\ req[r].pc # "idle" =>
       /\ req'[r].kind = req[r].kind /\ req'[r].who = req[r].who
       /\ req'[r].name = req[r].name /\ req'[r].ref = req[r].ref
       /\ req[r].used \subseteq req'[r].used
  /\ members' \in [Subjects -> Role] /\ \A s \in Subjects : IsMember(s) => members'[s] # "none"
  /\ exchanged \subseteq exchanged'
  /\ \A e \in IDs : e # r \/ req[r].pc \notin {"idle", "issue"} => enrolls'[e].name = enrolls[e].name
  /\ \A f \in IDs : f # r \/ req[r].pc # "idle" => flows'[f].name = flows[f].name

\* What was issued stays issued.
LEMMA IssuedStays ==
  ASSUME EnrollInv, NEW r \in Requests, Extends(r), NEW i
  PROVE  /\ IsInvite(i) => IsInvite(i)'
         /\ IsEnroll(i) => IsEnroll(i)'
         /\ IsFlow(i) => IsFlow(i)'
         /\ SomeMember => SomeMember'
  <1>1. req[r].pc = "idle" => req[r].kind = "none"
    BY DEF EnrollInv, InStage, Stage, Unborn
  <1>2. \A u \in Requests : req[u].kind \in {"invite", "enroll", "authorize"} => req'[u].kind = req[u].kind
    BY <1>1 DEF Extends
  <1>3. SomeMember => SomeMember'
    BY DEF Extends, SomeMember, IsMember
  <1> QED
    BY <1>2, <1>3 DEF IsInvite, IsEnroll, IsFlow

\* A sponsor stays one.
LEMMA SponsoredStays ==
  ASSUME EnrollInv, NEW r \in Requests, Extends(r), NEW n, NEW t, NEW e, Sponsored(n, t, e)
  PROVE  Sponsored(n, t, e)'
  <1>1. /\ t \in Requests /\ e \in req[t].used /\ req[t].name = n /\ enrolls[e].name \in {AnyName, n}
        /\ req[t] \in Req /\ e \in IDs
    BY DEF Sponsored, Sponsors, EnrollInv, TypeOK, Req
  <1>2. req[t].pc # "idle"
    BY <1>1 DEF EnrollInv, InStage, Stage, Unborn
  <1>3. /\ e \in req'[t].used /\ req'[t].name = n /\ req'[t].kind = req[t].kind /\ req'[t].ref = req[t].ref
        /\ req[t].ref \in req[t].used => req[t].ref \in req'[t].used
    BY <1>1, <1>2 DEF Extends
  <1>4. CASE e \in Past
    <2>1. e # r
      BY <1>4, IDsAssumption
    <2> QED
      BY <1>1, <1>3, <1>4, <2>1 DEF Sponsored, Sponsors, Extends
  <1>5. CASE e \in Requests /\ req[e].kind = "enroll" /\ IsMember(req[e].who)
    <2>1. req[e].pc \notin {"idle", "issue"} /\ req[e].who \in Subjects
      BY <1>5 DEF EnrollInv, InStage, Stage, Unborn, TokenStage, FlowOf, JoinStage, MemberOf
    <2>2. enrolls'[e].name = enrolls[e].name /\ req'[e].kind = "enroll" /\ req'[e].who = req[e].who
      BY <1>1, <1>5, <2>1 DEF Extends
    <2>3. members'[req'[e].who] # "none"
      BY <1>5, <2>1, <2>2 DEF Extends
    <2> QED
      BY <1>1, <1>3, <2>2, <2>3 DEF Sponsored, Sponsors, IsMember
  <1>6. CASE e = t /\ req[t].kind \in {"join", "poll"}
    <2>1. ~Unissued(req[t])
      BY <1>1, <1>6 DEF EnrollInv, Blank, SpentOn
    <2>2. req[t].pc \notin {"idle", "issue"}
      BY <1>6, <2>1 DEF Unissued
    <2>3. enrolls'[e].name = enrolls[e].name
      BY <1>1, <1>6, <2>2 DEF Extends
    <2>4. CASE req[t].kind = "join" /\ req[t].ref \in req[t].used
      BY <1>1, <1>3, <1>6, <2>3, <2>4 DEF Sponsored, Sponsors
    <2>5. CASE req[t].kind = "poll" /\ req[t].ref \in exchanged /\ flows[req[t].ref].name = n
      <3>1. IsFlow(req[t].ref)
        BY <1>1, <2>5 DEF EnrollInv, InStage, Stage, TokenStage, FlowOf
      <3>2. req[t].ref \in IDs /\ (req[t].ref # r \/ req[r].pc # "idle")
        BY <3>1, IDsAssumption DEF IsFlow, EnrollInv, InStage, Stage, Unborn, IDs, Past
      <3>3. flows'[req[t].ref].name = n /\ req[t].ref \in exchanged'
        BY <2>5, <3>2 DEF Extends
      <3> QED
        BY <1>1, <1>3, <1>6, <2>3, <2>5, <3>3 DEF Sponsored, Sponsors
    <2>6. e \notin Past
      BY <1>1, <1>6, IDsAssumption
    <2> QED
      BY <1>6, <2>4, <2>5, <2>6 DEF Sponsored, Sponsors
  <1> QED
    BY <1>1, <1>4, <1>5, <1>6 DEF Sponsored, Sponsors, IDs

\* The other requests are where they were.
LEMMA OthersStay ==
  ASSUME EnrollInv, NEW r \in Requests, Extends(r), NEW t \in Requests, t # r
  PROVE  InStage(t)'
  <1>1. req'[t] = req[t] /\ req[t] \in Req /\ Stage(t, req[t])
    BY DEF Extends, EnrollInv, TypeOK, InStage
  <1>2. ClaimStage(req[t])'
    BY <1>1, IssuedStays DEF Stage, ClaimStage
  <1>3. JoinStage(req[t])'
    BY <1>1 DEF Stage, JoinStage, MemberOf, Extends, IsMember
  <1>4. TokenStage(req[t])'
    <2>1. IsInvite(req[t].ref) => req'[t].ref \in Invites \/ (req'[t].ref \in Requests /\ req'[req'[t].ref].kind = "invite")
      BY <1>1, IssuedStays DEF IsInvite
    <2>2. ASSUME req[t].kind = "poll"
          PROVE  /\ req'[t].ref \in Flows \/ (req'[t].ref \in Requests /\ req'[req'[t].ref].kind = "authorize")
                 /\ flows'[req'[t].ref].name = req'[t].name
      <3>1. IsFlow(req[t].ref) /\ flows[req[t].ref].name = req[t].name
        BY <1>1, <2>2 DEF Stage, TokenStage, FlowOf
      <3>2. req[t].ref \in IDs /\ (req[t].ref # r \/ req[r].pc # "idle")
        BY <3>1, IDsAssumption DEF IsFlow, EnrollInv, InStage, Stage, Unborn, IDs, Past
      <3> QED
        BY <1>1, <3>1, <3>2, IssuedStays DEF IsFlow, Extends
    <2> QED
      BY <1>1, <2>1, <2>2 DEF Stage, TokenStage, FlowOf, IsInvite, IsFlow, Extends
  <1>5. RedeemStage(t, req[t])'
    <2>1. IsEnroll(req[t].enr) =>
            req'[t].enr \in Enrollments \/ (req'[t].enr \in Requests /\ req'[req'[t].enr].kind = "enroll")
      BY <1>1, IssuedStays DEF IsEnroll
    <2>2. ASSUME req[t].pc \in {"spend", "register"}
          PROVE  enrolls'[req'[t].enr].name \in {AnyName, req'[t].name}
      <3>1. IsEnroll(req[t].enr) \/ req[t].enr = t
        BY <1>1, <2>2 DEF Stage, RedeemStage
      <3>2. req[t].enr \in IDs /\ (req[t].enr # r \/ req[r].pc \notin {"idle", "issue"})
        BY <3>1, IDsAssumption DEF IsEnroll, EnrollInv, InStage, Stage, TokenStage, FlowOf, Unborn, IDs, Past
      <3> QED
        BY <1>1, <2>2, <3>2 DEF Stage, RedeemStage, Extends
    <2>3. req[t].pc = "touch" => Sponsored(req[t].name, req[t].ref, req[t].enr)'
      <3>1. ASSUME req[t].pc = "touch"
            PROVE  Sponsored(req[t].name, req[t].ref, req[t].enr)'
        <4>1. Sponsored(req[t].name, req[t].ref, req[t].enr)
          BY <1>1, <3>1 DEF Stage, RedeemStage
        <4>2. \A nn, uu, ee : Sponsored(nn, uu, ee) => Sponsored(nn, uu, ee)'
          BY SponsoredStays
        <4> QED
          BY <1>1, <4>1, <4>2 DEF Sponsored, Sponsors, IsMember
      <3> QED
        BY <3>1
    <2> QED
      BY <1>1, <2>1, <2>2, <2>3 DEF Stage, RedeemStage, IsEnroll
  <1> QED
    BY <1>1, <1>2, <1>3, <1>4, <1>5 DEF InStage, Stage

-----------------------------------------------------------------------------
(* The books                                                               *)

\* The books of one name, for a step that lets nothing in.
LEMMA LedgerOf ==
  ASSUME EnrollInv, NEW i \in IDs
  PROVE  /\ SpentOn(i) \subseteq Requests /\ IsFiniteSet(SpentOn(i)) /\ Cardinality(SpentOn(i)) \in Nat
         /\ invites[i] \in Nat /\ enrolls[i].left \in Nat /\ Allowed(i) \in Nat
         /\ Cardinality(SpentOn(i)) + invites[i] + enrolls[i].left <= Allowed(i)
  <1>1. SpentOn(i) \subseteq Requests
    BY DEF SpentOn
  <1>2. IsFiniteSet(SpentOn(i)) /\ Cardinality(SpentOn(i)) \in Nat
    BY <1>1, IDsAssumption, FS_Subset, FS_CardinalityType
  <1>3. invites[i] \in Nat /\ enrolls[i].left \in Nat /\ Allowed(i) \in Nat
    BY UsesAssumption DEF EnrollInv, TypeOK, Allowed
  <1> QED
    BY <1>1, <1>2, <1>3 DEF EnrollInv, Ledger

\* What may pass for a name is settled once the request of the name has begun.
LEMMA AllowedStays ==
  ASSUME EnrollInv, NEW r \in Requests, Extends(r), NEW i \in IDs
  PROVE  /\ i # r \/ req[r].pc # "idle" => Allowed(i)' = Allowed(i)
         /\ Allowed(i)' \in Nat
  BY UsesAssumption DEF Extends, Allowed

\* A step that issues nothing and redeems nothing: nothing is left over for it.
LEMMA QuietStep ==
  ASSUME EnrollInv, NEW r \in Requests, Extends(r), req'[r].used = req[r].used,
         \A i \in IDs : /\ invites'[i] \in Nat /\ invites'[i] <= invites[i]
                        /\ enrolls'[i].left \in Nat /\ enrolls'[i].left <= enrolls[i].left,
         Unissued(req'[r]) => Unissued(req[r])
  PROVE  /\ \A u \in Requests : Unissued(req'[u]) => Blank(u)'
         /\ \A i \in IDs : Ledger(i)'
  <1>1. \A u \in Requests : req'[u].used = req[u].used
    BY DEF Extends
  <1>2. \A i \in IDs : SpentOn(i)' = SpentOn(i)
    BY <1>1 DEF SpentOn
  <1>3. ASSUME NEW u \in Requests, Unissued(req'[u])
        PROVE  Blank(u)'
    <2>1. Unissued(req[u]) /\ u \in IDs
      BY <1>3 DEF Extends, IDs
    <2>2. SpentOn(u) = {} /\ invites[u] = 0 /\ enrolls[u].left = 0
      BY <2>1 DEF EnrollInv, Blank
    <2>3. invites'[u] = 0 /\ enrolls'[u].left = 0
      BY <2>1, <2>2
    <2> QED
      BY <1>2, <2>1, <2>2, <2>3 DEF Blank
  <1>4. ASSUME NEW i \in IDs
        PROVE  Ledger(i)'
    <2>1. /\ Cardinality(SpentOn(i)) \in Nat /\ invites[i] \in Nat /\ enrolls[i].left \in Nat
          /\ Cardinality(SpentOn(i)) + invites[i] + enrolls[i].left <= Allowed(i)
          /\ Allowed(i) \in Nat /\ Allowed(i)' \in Nat
      BY LedgerOf, AllowedStays
    <2>2. CASE i # r \/ req[r].pc # "idle"
      <3>1. Allowed(i)' = Allowed(i)
        BY <2>2, AllowedStays
      <3>2. Cardinality(SpentOn(i)) + invites'[i] + enrolls'[i].left <= Allowed(i)
        BY <2>1
      <3> QED
        BY <1>2, <3>1, <3>2 DEF Ledger
    <2>3. CASE i = r /\ req[r].pc = "idle"
      <3>1. SpentOn(r) = {} /\ invites[r] = 0 /\ enrolls[r].left = 0
        BY <2>3 DEF EnrollInv, Blank, Unissued
      <3>2. Cardinality(SpentOn(i)') = 0 /\ invites'[i] = 0 /\ enrolls'[i].left = 0
        BY <1>2, <2>3, <3>1, FS_EmptySet
      <3> QED
        BY <2>1, <3>2 DEF Ledger
    <2> QED
      BY <2>2, <2>3
  <1> QED
    BY <1>3, <1>4

\* A request issues what is called by its name.
LEMMA IssueStep ==
  ASSUME EnrollInv, NEW r \in Requests, Extends(r), req'[r].used = req[r].used,
         Unissued(req[r]), ~Unissued(req'[r]),
         \A i \in IDs \ {r} : invites'[i] = invites[i] /\ enrolls'[i].left = enrolls[i].left,
         invites'[r] \in Nat, enrolls'[r].left \in Nat,
         invites'[r] + enrolls'[r].left <= Allowed(r)'
  PROVE  /\ \A u \in Requests : Unissued(req'[u]) => Blank(u)'
         /\ \A i \in IDs : Ledger(i)'
  <1>1. \A i \in IDs : SpentOn(i)' = SpentOn(i)
    BY DEF Extends, SpentOn
  <1>2. SpentOn(r) = {} /\ r \in IDs
    BY DEF EnrollInv, Blank, IDs
  <1>3. ASSUME NEW u \in Requests, Unissued(req'[u])
        PROVE  Blank(u)'
    <2>1. u # r /\ Unissued(req[u]) /\ u \in IDs
      BY <1>3 DEF Extends, IDs
    <2> QED
      BY <1>1, <2>1 DEF EnrollInv, Blank
  <1>4. ASSUME NEW i \in IDs \ {r}
        PROVE  Ledger(i)'
    BY <1>1, <1>4, AllowedStays DEF EnrollInv, Ledger
  <1>5. Ledger(r)'
    <2>1. Cardinality(SpentOn(r)') = 0
      BY <1>1, <1>2, FS_EmptySet
    <2>2. Allowed(r)' \in Nat
      BY <1>2, AllowedStays
    <2>3. 0 + invites'[r] + enrolls'[r].left <= Allowed(r)'
      BY <2>2
    <2> QED
      BY <2>1, <2>3 DEF Ledger
  <1> QED
    BY <1>4, <1>5, <1>3, <1>2

\* A request spends a use of what was issued.
LEMMA SpendStep ==
  ASSUME EnrollInv, NEW r \in Requests, Extends(r), NEW k \in IDs,
         req'[r].used = req[r].used \cup {k}, req[r].pc # "idle", Unissued(req'[r]) => Unissued(req[r]) /\ k # r,
         \A i \in IDs \ {k} : invites'[i] = invites[i] /\ enrolls'[i].left = enrolls[i].left,
         invites'[k] + enrolls'[k].left + 1 = invites[k] + enrolls[k].left,
         invites'[k] \in Nat, enrolls'[k].left \in Nat,
         \A u \in Requests : Unissued(req[u]) => u # k \/ u = r
  PROVE  /\ \A u \in Requests : Unissued(req'[u]) => Blank(u)'
         /\ \A i \in IDs : Ledger(i)'
  <1>1. \A u \in Requests \ {r} : req'[u] = req[u]
    BY DEF Extends
  <1>2. \A i \in IDs \ {k} : SpentOn(i)' = SpentOn(i)
    BY <1>1 DEF SpentOn
  <1>3. SpentOn(k)' = SpentOn(k) \cup {r}
    BY <1>1 DEF SpentOn
  <1>4. ASSUME NEW u \in Requests, Unissued(req'[u])
        PROVE  Blank(u)'
    <2>1. Unissued(req[u]) /\ u \in IDs /\ u # k
      BY <1>1, <1>4 DEF IDs
    <2> QED
      BY <1>2, <2>1 DEF EnrollInv, Blank
  <1>5. ASSUME NEW i \in IDs
        PROVE  Ledger(i)'
    <2>1. Allowed(i)' = Allowed(i)
      BY AllowedStays
    <2>2. CASE i # k
      BY <1>2, <2>1, <2>2 DEF EnrollInv, Ledger
    <2>3. CASE i = k
      <3>1. /\ IsFiniteSet(SpentOn(k)) /\ Cardinality(SpentOn(k)) \in Nat
            /\ invites[k] \in Nat /\ enrolls[k].left \in Nat /\ Allowed(k) \in Nat
            /\ Cardinality(SpentOn(k)) + invites[k] + enrolls[k].left <= Allowed(k)
        BY LedgerOf
      <3>2. Cardinality(SpentOn(k) \cup {r}) \in {Cardinality(SpentOn(k)), Cardinality(SpentOn(k)) + 1}
        <4>1. CASE r \in SpentOn(k)
          BY <4>1, <3>1, FS_AddElement
        <4>2. CASE r \notin SpentOn(k)
          BY <4>2, <3>1, FS_AddElement
        <4> QED
          BY <4>1, <4>2
      <3>3. Cardinality(SpentOn(k) \cup {r}) + invites'[k] + enrolls'[k].left <= Allowed(k)
        BY <3>1, <3>2
      <3> QED
        BY <1>3, <2>1, <2>3, <3>3 DEF Ledger
    <2> QED
      BY <2>2, <2>3
  <1> QED
    BY <1>4, <1>5

-----------------------------------------------------------------------------
(* The steps                                                               *)

\* What a step of r has to show.
LEMMA StepOf ==
  ASSUME EnrollInv, NEW r \in Requests, Extends(r), TypeOK', InStage(r)',
         \A u \in Requests : Unissued(req'[u]) => Blank(u)',
         \A i \in IDs : Ledger(i)',
         \A n \in Names : nodes'[n] = nodes[n] \/ RowSponsored(n)'
  PROVE  EnrollInv'
  <1>1. \A t \in Requests : InStage(t)'
    BY OthersStay
  <1>2. ASSUME NEW n \in Names, nodes'[n] = nodes[n]
        PROVE  RowSponsored(n)'
    <2>1. CASE nodes[n] = NoNode
      BY <1>2, <2>1 DEF RowSponsored, NoNode
    <2>2. CASE nodes[n] # NoNode
      <3>1. Sponsored(n, nodes[n].tok, nodes[n].enr)
        BY <2>2 DEF EnrollInv, RowSponsored
      <3>2. \A m, t, e : Sponsored(m, t, e) => Sponsored(m, t, e)'
        BY SponsoredStays
      <3> QED
        BY <1>2, <3>1, <3>2 DEF RowSponsored, Sponsored, Sponsors, IsMember
    <2> QED
      BY <2>1, <2>2
  <1> QED
    BY <1>1, <1>2 DEF EnrollInv

\* A request begins.
LEMMA BeginStep ==
  ASSUME EnrollInv, NEW r \in Requests, NEW k \in Kind, NEW p \in PC, NEW f \in Req, f.used = {},
         Begins(r, k, p, f), members' = members, exchanged' = exchanged,
         \A e \in IDs \ {r} : enrolls'[e].name = enrolls[e].name,
         \A e \in IDs \ {r} : flows'[e].name = flows[e].name
  PROVE  /\ Extends(r) /\ req[r].pc = "idle" /\ req[r].used = {}
         /\ req'[r] \in Req /\ req'[r].kind = k /\ req'[r].pc = p /\ req'[r].who = f.who /\ req'[r].ref = f.ref
         /\ req'[r].name = f.name /\ req'[r].enr = f.enr /\ req'[r].used = {} /\ req'[r].late = f.late
  <1> DEFINE q == [f EXCEPT !.kind = k, !.pc = p]
  <1>1. /\ q \in Req /\ q.kind = k /\ q.pc = p /\ q.who = f.who /\ q.ref = f.ref
        /\ q.name = f.name /\ q.enr = f.enr /\ q.used = {} /\ q.late = f.late
    BY DEF Req
  <1>2. req[r].pc = "idle" /\ req' = [req EXCEPT ![r] = q] /\ req \in [Requests -> Req] /\ members \in [Subjects -> Role]
    BY DEF Begins, EnrollInv, TypeOK
  <1>3. req[r].used = {}
    BY <1>2 DEF EnrollInv, InStage, Stage, Unborn
  <1> HIDE DEF q
  <1>4. req' \in [Requests -> Req] /\ req'[r] = q /\ \A u \in Requests \ {r} : req'[u] = req[u]
    BY <1>1, <1>2
  <1>5. Extends(r)
    BY <1>2, <1>4 DEF Extends, IsMember
  <1> QED
    BY <1>1, <1>2, <1>3, <1>4, <1>5 DEF q

\* A step that issues nothing and redeems nothing.
LEMMA QuietInv ==
  ASSUME EnrollInv, NEW r \in Requests, Extends(r), TypeOK', InStage(r)',
         req'[r].used = req[r].used, Unissued(req'[r]) => Unissued(req[r]),
         \A i \in IDs : invites'[i] <= invites[i] /\ enrolls'[i].left <= enrolls[i].left,
         \A n \in Names : nodes'[n] = nodes[n] \/ RowSponsored(n)'
  PROVE  EnrollInv'
  <1>1. \A i \in IDs : /\ invites'[i] \in Nat /\ invites'[i] <= invites[i]
                       /\ enrolls'[i].left \in Nat /\ enrolls'[i].left <= enrolls[i].left
    BY DEF TypeOK
  <1>2. /\ \A u \in Requests : Unissued(req'[u]) => Blank(u)'
        /\ \A i \in IDs : Ledger(i)'
    BY <1>1, QuietStep
  <1> QED
    BY <1>2, StepOf

\* A request begins; the tables lose a use of an invite or a row, if anything.
LEMMA BeginQuiet ==
  ASSUME EnrollInv, NEW r \in Requests, NEW k \in Kind, NEW p \in PC, NEW f \in Req, f.used = {},
         Begins(r, k, p, f), UNCHANGED <<members, enrolls, exchanged>>,
         flows' \in [IDs -> [name : Names \cup {AnyName}, tok : Requests \cup {NoID}]],
         \A e \in IDs \ {r} : flows'[e].name = flows[e].name,
         invites' \in [IDs -> Nat], \A i \in IDs : invites'[i] <= invites[i],
         nodes' \in [Names -> Row], \A n \in Names : nodes'[n] \in {nodes[n], NoNode},
         InStage(r)'
  PROVE  EnrollInv'
  <1>1. Extends(r) /\ req[r].pc = "idle" /\ req'[r].used = req[r].used
    BY BeginStep
  <1>2. TypeOK'
    BY <1>1 DEF EnrollInv, TypeOK, Extends
  <1>3. Unissued(req[r])
    BY <1>1 DEF Unissued
  <1>4. \A i \in IDs : enrolls'[i].left <= enrolls[i].left
    BY DEF EnrollInv, TypeOK
  <1>5. \A i \in IDs : invites'[i] <= invites[i] /\ enrolls'[i].left <= enrolls[i].left
    BY <1>4
  <1>6. \A n \in Names : nodes'[n] = nodes[n] \/ RowSponsored(n)'
    BY DEF RowSponsored
  <1> QED
    BY <1>1, <1>2, <1>3, <1>5, <1>6, QuietInv

\* Where a request is that has begun.
LEMMA BegunAt ==
  ASSUME EnrollInv, NEW r \in Requests, NEW k \in Kind, NEW p \in PC, NEW f \in Req, Begins(r, k, p, f)
  PROVE  /\ req'[r].kind = k /\ req'[r].pc = p /\ req'[r].who = f.who /\ req'[r].ref = f.ref
         /\ req'[r].name = f.name /\ req'[r].enr = f.enr /\ req'[r].used = f.used /\ req'[r].late = f.late
         /\ \A u \in Requests \ {r} : req'[u] = req[u]
         /\ req[r].kind = "none"
  <1>1. req[r].pc = "idle" /\ req[r].kind = "none"
    BY DEF Begins, EnrollInv, InStage, Stage, Unborn
  <1>2. req' = [req EXCEPT ![r] = [f EXCEPT !.kind = k, !.pc = p]] /\ req \in [Requests -> Req]
    BY DEF Begins, EnrollInv, TypeOK
  <1> QED
    BY <1>1, <1>2 DEF Req

\* A claim begins.
LEMMA ClaimInv ==
  ASSUME EnrollInv, NEW r \in Requests, NEW s \in Subjects, Claim(r, s)
  PROVE  EnrollInv'
  <1>1. PICK f \in Req : /\ Begins(r, "claim", "count", f) /\ f.used = {}
                         /\ f.late = (SomeMember /\ members[s] = "none")
    <2> DEFINE x == [Unborn EXCEPT !.who = s, !.late = SomeMember /\ members[s] = "none"]
    <2>1. (SomeMember /\ members[s] = "none") \in BOOLEAN
      BY DEF SomeMember
    <2>2. x \in Req /\ x.used = {} /\ x.late = (SomeMember /\ members[s] = "none")
      BY <2>1 DEF Req, Unborn, Kind, PC, Role
    <2> QED
      BY <2>2 DEF Claim
  <1>2. /\ UNCHANGED <<members, enrolls, exchanged, invites, nodes, flows>>
        /\ invites' \in [IDs -> Nat] /\ nodes' \in [Names -> Row]
        /\ flows' \in [IDs -> [name : Names \cup {AnyName}, tok : Requests \cup {NoID}]]
        /\ \A j \in IDs : invites'[j] <= invites[j]
    BY DEF Claim, NoTable, OnlyMembers, EnrollInv, TypeOK
  <1>3. /\ req'[r].kind = "claim" /\ req'[r].pc = "count" /\ req'[r].used = {}
        /\ req'[r].late = (SomeMember /\ members[s] = "none")
    BY <1>1, BegunAt DEF Kind, PC
  <1>4. InStage(r)'
    BY <1>2, <1>3 DEF InStage, Stage, ClaimStage, JoinStage, TokenStage, RedeemStage, MemberOf, FlowOf, SomeMember
  <1> QED
    BY <1>1, <1>2, <1>4, BeginQuiet DEF Kind, PC

\* An invite is deleted.
LEMMA InviteDeleteInv ==
  ASSUME EnrollInv, NEW r \in Requests, NEW s \in Subjects, NEW i \in IDs, InviteDelete(r, s, i)
  PROVE  EnrollInv'
  <1>1. PICK f \in Req : Begins(r, "uninvite", "ok", f) /\ f.used = {} /\ f.late = FALSE
    <2> DEFINE x == [Unborn EXCEPT !.who = s, !.ref = i]
    <2>1. x \in Req /\ x.used = {} /\ x.late = FALSE
      BY DEF Req, Unborn, Kind, PC, Role, EnrollInv, TypeOK, Row
    <2> QED
      BY <2>1 DEF InviteDelete
  <1>2. /\ UNCHANGED <<members, enrolls, exchanged, nodes, flows>>
        /\ invites' \in [IDs -> Nat] /\ nodes' \in [Names -> Row]
        /\ flows' \in [IDs -> [name : Names \cup {AnyName}, tok : Requests \cup {NoID}]]
        /\ \A j \in IDs : invites'[j] <= invites[j]
    BY DEF InviteDelete, OnlyInvites, EnrollInv, TypeOK
  <1>3. req'[r].kind = "uninvite" /\ req'[r].pc = "ok" /\ req'[r].used = {} /\ req'[r].late = FALSE
    BY <1>1, BegunAt DEF Kind, PC
  <1>4. InStage(r)'
    BY <1>3 DEF InStage, Stage, ClaimStage, JoinStage, TokenStage, RedeemStage, MemberOf, FlowOf
  <1> QED
    BY <1>1, <1>2, <1>4, BeginQuiet DEF Kind, PC

\* Somebody joins with an invite.
LEMMA NetworkJoinInv ==
  ASSUME EnrollInv, NEW r \in Requests, NEW s \in Subjects, NEW i \in IDs, NetworkJoin(r, s, i)
  PROVE  EnrollInv'
  <1>1. PICK f \in Req : Begins(r, "enter", "consume", f) /\ f.used = {} /\ f.late = FALSE /\ f.ref = i /\ f.who = s
    <2> DEFINE x == [Unborn EXCEPT !.who = s, !.ref = i]
    <2>1. x \in Req /\ x.used = {} /\ x.late = FALSE /\ x.ref = i /\ x.who = s
      BY DEF Req, Unborn, Kind, PC, Role, EnrollInv, TypeOK, Row
    <2> QED
      BY <2>1 DEF NetworkJoin
  <1>2. /\ UNCHANGED <<members, enrolls, exchanged, invites, nodes, flows>>
        /\ invites' \in [IDs -> Nat] /\ nodes' \in [Names -> Row]
        /\ flows' \in [IDs -> [name : Names \cup {AnyName}, tok : Requests \cup {NoID}]]
        /\ \A j \in IDs : invites'[j] <= invites[j]
    BY DEF NetworkJoin, NoTable, OnlyMembers, EnrollInv, TypeOK
  <1>3. /\ req'[r].kind = "enter" /\ req'[r].pc = "consume" /\ req'[r].used = {} /\ req'[r].late = FALSE
        /\ req'[r].ref = i /\ req'[r].who = s
    BY <1>1, BegunAt DEF Kind, PC
  <1>4. req[r].kind = "none" /\ \A u \in Requests \ {r} : req'[u] = req[u]
    BY <1>1, BegunAt DEF Kind, PC
  <1>5. IsInvite(i)'
    BY <1>4 DEF NetworkJoin, IsInvite
  <1>6. InStage(r)'
    BY <1>3, <1>5 DEF InStage, Stage, ClaimStage, JoinStage, TokenStage, RedeemStage, MemberOf, FlowOf, IsInvite
  <1> QED
    BY <1>1, <1>2, <1>6, BeginQuiet DEF Kind, PC

\* A machine joins with an invite.
LEMMA NodeJoinInv ==
  ASSUME EnrollInv, NEW r \in Requests, NEW i \in IDs, NEW n \in Names, NodeJoin(r, i, n)
  PROVE  EnrollInv'
  <1>1. PICK f \in Req : Begins(r, "join", "consume", f) /\ f.used = {} /\ f.late = FALSE /\ f.ref = i
    <2> DEFINE x == [Unborn EXCEPT !.ref = i, !.name = n]
    <2>1. x \in Req /\ x.used = {} /\ x.late = FALSE /\ x.ref = i
      BY DEF Req, Unborn, Kind, PC, Role, EnrollInv, TypeOK, Row
    <2> QED
      BY <2>1 DEF NodeJoin
  <1>2. /\ UNCHANGED <<members, enrolls, exchanged, invites, nodes, flows>>
        /\ invites' \in [IDs -> Nat] /\ nodes' \in [Names -> Row]
        /\ flows' \in [IDs -> [name : Names \cup {AnyName}, tok : Requests \cup {NoID}]]
        /\ \A j \in IDs : invites'[j] <= invites[j]
    BY DEF NodeJoin, NoTable, OnlyMembers, EnrollInv, TypeOK
  <1>3. /\ req'[r].kind = "join" /\ req'[r].pc = "consume" /\ req'[r].used = {} /\ req'[r].late = FALSE
        /\ req'[r].ref = i
    BY <1>1, BegunAt DEF Kind, PC
  <1>4. req[r].kind = "none" /\ \A u \in Requests \ {r} : req'[u] = req[u]
    BY <1>1, BegunAt DEF Kind, PC
  <1>5. IsInvite(i)'
    BY <1>4 DEF NodeJoin, IsInvite
  <1>6. InStage(r)'
    BY <1>3, <1>5 DEF InStage, Stage, ClaimStage, JoinStage, TokenStage, RedeemStage, MemberOf, FlowOf, IsInvite
  <1> QED
    BY <1>1, <1>2, <1>6, BeginQuiet DEF Kind, PC

\* A machine brings an enrollment.
LEMMA RedeemInv ==
  ASSUME EnrollInv, NEW r \in Requests, NEW e \in IDs, NEW n \in Names, Redeem(r, e, n)
  PROVE  EnrollInv'
  <1>1. PICK f \in Req : Begins(r, "redeem", "find", f) /\ f.used = {} /\ f.late = FALSE /\ f.enr = e /\ f.name = n
    <2> DEFINE x == [Unborn EXCEPT !.enr = e, !.name = n]
    <2>1. x \in Req /\ x.used = {} /\ x.late = FALSE /\ x.enr = e /\ x.name = n
      BY DEF Req, Unborn, Kind, PC, Role, EnrollInv, TypeOK, Row
    <2> QED
      BY <2>1 DEF Redeem
  <1>2. /\ UNCHANGED <<members, enrolls, exchanged, invites, nodes, flows>>
        /\ invites' \in [IDs -> Nat] /\ nodes' \in [Names -> Row]
        /\ flows' \in [IDs -> [name : Names \cup {AnyName}, tok : Requests \cup {NoID}]]
        /\ \A j \in IDs : invites'[j] <= invites[j]
    BY DEF Redeem, NoTable, OnlyMembers, EnrollInv, TypeOK
  <1>3. /\ req'[r].kind = "redeem" /\ req'[r].pc = "find" /\ req'[r].used = {} /\ req'[r].late = FALSE
        /\ req'[r].enr = e /\ req'[r].name = n
    BY <1>1, BegunAt DEF Kind, PC
  <1>4. req[r].kind = "none" /\ \A u \in Requests \ {r} : req'[u] = req[u]
    BY <1>1, BegunAt DEF Kind, PC
  <1>5. IsEnroll(e)'
    BY <1>4 DEF Redeem, IsEnroll
  <1>6. InStage(r)'
    BY <1>3, <1>5 DEF InStage, Stage, ClaimStage, JoinStage, TokenStage, RedeemStage, MemberOf, FlowOf, IsEnroll
  <1> QED
    BY <1>1, <1>2, <1>6, BeginQuiet DEF Kind, PC

\* A device flow begins.
LEMMA DeviceAuthorizeInv ==
  ASSUME EnrollInv, NEW r \in Requests, NEW n \in Names, DeviceAuthorize(r, n)
  PROVE  EnrollInv'
  <1>1. PICK f \in Req : Begins(r, "authorize", "ok", f) /\ f.used = {} /\ f.late = FALSE
    <2> DEFINE x == [Unborn EXCEPT !.name = n]
    <2>1. x \in Req /\ x.used = {} /\ x.late = FALSE
      BY DEF Req, Unborn, Kind, PC, Role, EnrollInv, TypeOK, Row
    <2> QED
      BY <2>1 DEF DeviceAuthorize
  <1>2. /\ UNCHANGED <<members, enrolls, exchanged, invites, nodes>>
        /\ invites' \in [IDs -> Nat] /\ nodes' \in [Names -> Row]
        /\ flows' \in [IDs -> [name : Names \cup {AnyName}, tok : Requests \cup {NoID}]]
        /\ \A e \in IDs \ {r} : flows'[e].name = flows[e].name
        /\ \A j \in IDs : invites'[j] <= invites[j]
    <2>1. UNCHANGED <<members, enrolls, exchanged, invites, nodes>>
      BY DEF DeviceAuthorize, OnlyFlows
    <2>2. /\ flows \in [IDs -> [name : Names \cup {AnyName}, tok : Requests \cup {NoID}]] /\ r \in IDs
          /\ flows' = [flows EXCEPT ![r] = [flows[r] EXCEPT !.name = n]]
      BY DEF DeviceAuthorize, EnrollInv, TypeOK, IDs
    <2>3. invites \in [IDs -> Nat] /\ nodes \in [Names -> Row]
      BY DEF EnrollInv, TypeOK
    <2>4. [flows[r] EXCEPT !.name = n] \in [name : Names \cup {AnyName}, tok : Requests \cup {NoID}]
      BY <2>2
    <2>5. /\ flows' \in [IDs -> [name : Names \cup {AnyName}, tok : Requests \cup {NoID}]]
          /\ \A e \in IDs \ {r} : flows'[e] = flows[e]
      BY <2>2, <2>4
    <2>6. \A j \in IDs : invites'[j] <= invites[j]
      BY <2>1, <2>3
    <2> QED
      BY <2>1, <2>3, <2>5, <2>6
  <1>3. req'[r].kind = "authorize" /\ req'[r].pc = "ok" /\ req'[r].used = {} /\ req'[r].late = FALSE
    BY <1>1, BegunAt DEF Kind, PC
  <1>4. InStage(r)'
    BY <1>3 DEF InStage, Stage, ClaimStage, JoinStage, TokenStage, RedeemStage, MemberOf, FlowOf
  <1> QED
    BY <1>1, <1>2, <1>4, BeginQuiet DEF Kind, PC

\* A device flow is polled.
LEMMA DevicePollInv ==
  ASSUME EnrollInv, NEW r \in Requests, NEW g \in IDs, DevicePoll(r, g)
  PROVE  EnrollInv'
  <1>1. PICK p \in {"refused", "ok", "exchange"}, f \in Req :
          /\ Begins(r, "poll", p, f) /\ f.used = {} /\ f.late = FALSE
          /\ f.ref = g /\ f.name = flows[g].name
    <2> DEFINE x == [Unborn EXCEPT !.ref = g, !.name = flows[g].name]
               p == CASE ~Fresh(g) -> "refused"
                      [] Fresh(g) /\ flows[g].tok # NoID -> "ok"
                      [] OTHER -> "exchange"
    <2>1. x \in Req /\ x.used = {} /\ x.late = FALSE /\ x.ref = g /\ x.name = flows[g].name
      BY DEF Req, Unborn, Kind, PC, Role, EnrollInv, TypeOK
    <2>2. p \in {"refused", "ok", "exchange"}
      OBVIOUS
    <2>3. Begins(r, "poll", p, x)
      BY DEF DevicePoll
    <2> HIDE DEF x, p
    <2> QED
      BY <2>1, <2>2, <2>3
  <1>2. /\ UNCHANGED <<members, enrolls, exchanged, invites, nodes, flows>>
        /\ invites' \in [IDs -> Nat] /\ nodes' \in [Names -> Row]
        /\ flows' \in [IDs -> [name : Names \cup {AnyName}, tok : Requests \cup {NoID}]]
        /\ \A j \in IDs : invites'[j] <= invites[j]
    BY DEF DevicePoll, NoTable, OnlyMembers, EnrollInv, TypeOK
  <1>3. IsFlow(g)'
    <2>1. req[r].kind = "none" /\ \A u \in Requests \ {r} : req'[u] = req[u]
      BY <1>1, BegunAt DEF Kind, PC
    <2> QED
      BY <2>1 DEF DevicePoll, IsFlow
  <1>4. InStage(r)'
    <2>1. /\ req'[r].kind = "poll" /\ req'[r].pc = p /\ req'[r].ref = g /\ req'[r].name = flows[g].name
          /\ req'[r].used = {} /\ req'[r].late = FALSE
      BY <1>1, BegunAt DEF Kind, PC
    <2> QED
      BY <1>1, <1>2, <1>3, <2>1 DEF InStage, Stage, ClaimStage, JoinStage, TokenStage, RedeemStage, MemberOf, FlowOf, IsFlow
  <1>5. p \in PC /\ "poll" \in Kind /\ \A n \in Names : nodes'[n] \in {nodes[n], NoNode}
    BY <1>2 DEF PC, Kind
  <1> QED
    BY <1>1, <1>2, <1>4, <1>5, BeginQuiet

\* A node's agent signs on: it reads its row.
LEMMA ConnectInv ==
  ASSUME EnrollInv, NEW r \in Requests, NEW n \in Names, Connect(r, n)
  PROVE  EnrollInv'
  <1>1. PICK f \in Req : /\ Begins(r, "connect", "touch", f) /\ f.used = {} /\ f.late = FALSE
                         /\ f.name = n /\ f.ref = nodes[n].tok /\ f.enr = nodes[n].enr
    <2> DEFINE x == [Unborn EXCEPT !.name = n, !.ref = nodes[n].tok, !.enr = nodes[n].enr]
    <2>1. /\ x \in Req /\ x.used = {} /\ x.late = FALSE
          /\ x.name = n /\ x.ref = nodes[n].tok /\ x.enr = nodes[n].enr
      BY DEF Req, Row, Unborn, Kind, PC, Role, EnrollInv, TypeOK, IDs
    <2> QED
      BY <2>1 DEF Connect
  <1>2. /\ UNCHANGED <<members, enrolls, exchanged, invites, nodes, flows>>
        /\ invites' \in [IDs -> Nat] /\ nodes' \in [Names -> Row]
        /\ flows' \in [IDs -> [name : Names \cup {AnyName}, tok : Requests \cup {NoID}]]
        /\ \A j \in IDs : invites'[j] <= invites[j]
    BY DEF Connect, NoTable, OnlyMembers, EnrollInv, TypeOK
  <1>3. Sponsored(n, nodes[n].tok, nodes[n].enr)
    BY DEF Connect, EnrollInv, RowSponsored
  <1>4. Extends(r)
    <2>1. "connect" \in Kind /\ "touch" \in PC
      BY DEF Kind, PC
    <2>2. /\ \A e \in IDs \ {r} : enrolls'[e].name = enrolls[e].name
          /\ \A e \in IDs \ {r} : flows'[e].name = flows[e].name
      BY <1>2
    <2> QED
      BY <1>1, <1>2, <2>1, <2>2, BeginStep
  <1>5. \A m, t, e : Sponsored(m, t, e) => Sponsored(m, t, e)'
    BY <1>4, SponsoredStays
  <1>6. Sponsored(req[r].name, req[r].ref, req[r].enr)'
    <2>1. req'[r].name = n /\ req'[r].ref = nodes[n].tok /\ req'[r].enr = nodes[n].enr
      BY <1>1, BegunAt DEF Kind, PC
    <2> QED
      BY <1>3, <1>5, <2>1 DEF Sponsored, Sponsors, IsMember
  <1>7. req'[r].kind = "connect" /\ req'[r].pc = "touch" /\ req'[r].used = {} /\ req'[r].late = FALSE
    BY <1>1, BegunAt DEF Kind, PC
  <1>8. InStage(r)'
    BY <1>6, <1>7 DEF InStage, Stage, ClaimStage, JoinStage, TokenStage, RedeemStage, MemberOf, FlowOf
  <1> QED
    BY <1>1, <1>2, <1>8, BeginQuiet DEF Kind, PC

\* A node is revoked: its row goes.
LEMMA NodeRevokeInv ==
  ASSUME EnrollInv, NEW r \in Requests, NEW s \in Subjects, NEW n \in Names, NodeRevoke(r, s, n)
  PROVE  EnrollInv'
  <1>1. PICK f \in Req : Begins(r, "revoke", "ok", f) /\ f.used = {} /\ f.late = FALSE
    <2> DEFINE x == [Unborn EXCEPT !.who = s, !.name = n]
    <2>1. x \in Req /\ x.used = {} /\ x.late = FALSE
      BY DEF Req, Unborn, Kind, PC, Role, EnrollInv, TypeOK, Row
    <2> QED
      BY <2>1 DEF NodeRevoke
  <1>2. /\ UNCHANGED <<members, enrolls, exchanged, invites, flows>>
        /\ invites' \in [IDs -> Nat] /\ nodes' \in [Names -> Row]
        /\ flows' \in [IDs -> [name : Names \cup {AnyName}, tok : Requests \cup {NoID}]]
        /\ \A m \in Names : nodes'[m] \in {nodes[m], NoNode}
        /\ \A j \in IDs : invites'[j] <= invites[j]
    BY DEF NodeRevoke, OnlyNodes, EnrollInv, TypeOK, NoNode, Row
  <1>3. req'[r].kind = "revoke" /\ req'[r].pc = "ok" /\ req'[r].used = {} /\ req'[r].late = FALSE
    BY <1>1, BegunAt DEF Kind, PC
  <1>4. InStage(r)'
    BY <1>3 DEF InStage, Stage, ClaimStage, JoinStage, TokenStage, RedeemStage, MemberOf, FlowOf
  <1> QED
    BY <1>1, <1>2, <1>4, BeginQuiet DEF Kind, PC

\* A request goes on: what it is about stays.
LEMMA PutStep ==
  ASSUME EnrollInv, NEW r \in Requests, NEW q \in Req, req' = [req EXCEPT ![r] = q], req[r].pc # "idle",
         q.kind = req[r].kind, q.who = req[r].who, q.name = req[r].name, q.ref = req[r].ref,
         req[r].used \subseteq q.used,
         members' \in [Subjects -> Role], \A s \in Subjects : IsMember(s) => members'[s] # "none",
         exchanged \subseteq exchanged',
         \A e \in IDs : e # r \/ req[r].pc # "issue" => enrolls'[e].name = enrolls[e].name,
         \A f \in IDs : flows'[f].name = flows[f].name
  PROVE  Extends(r) /\ req'[r] = q
  <1>1. req' \in [Requests -> Req] /\ req'[r] = q /\ \A u \in Requests \ {r} : req'[u] = req[u]
    BY DEF EnrollInv, TypeOK
  <1> QED
    BY <1>1 DEF Extends

\* Goes changes where the request is, and nothing else of it.
LEMMA GoesTo ==
  ASSUME EnrollInv, NEW r \in Requests, NEW p \in PC, Goes(r, p)
  PROVE  \E q \in Req :
           /\ req' = [req EXCEPT ![r] = q] /\ q.pc = p
           /\ q.kind = req[r].kind /\ q.who = req[r].who /\ q.name = req[r].name /\ q.ref = req[r].ref
           /\ q.enr = req[r].enr /\ q.seen = req[r].seen /\ q.used = req[r].used /\ q.late = req[r].late
  <1> DEFINE x == [req[r] EXCEPT !.pc = p]
  <1>1. req \in [Requests -> Req] /\ req[r] \in Req
    BY DEF EnrollInv, TypeOK
  <1>2. /\ x \in Req /\ x.kind = req[r].kind /\ x.pc = p /\ x.who = req[r].who
        /\ x.ref = req[r].ref /\ x.name = req[r].name /\ x.enr = req[r].enr
        /\ x.seen = req[r].seen /\ x.used = req[r].used /\ x.late = req[r].late
    BY <1>1 DEF Req
  <1>3. req' = [req EXCEPT ![r] = x]
    BY DEF Goes
  <1> QED
    BY <1>2, <1>3

\* A step of a claim also says what it has seen, as does a step of a join.
Sees(r, p, a) == req' = [req EXCEPT ![r].pc = p, ![r].seen = a]

LEMMA GoesSeeing ==
  ASSUME EnrollInv, NEW r \in Requests, NEW p \in PC, NEW a \in Role \cup {"claimed", "free"},
         Sees(r, p, a)
  PROVE  \E q \in Req :
           /\ req' = [req EXCEPT ![r] = q] /\ q.pc = p
           /\ q.kind = req[r].kind /\ q.who = req[r].who /\ q.name = req[r].name /\ q.ref = req[r].ref
           /\ q.enr = req[r].enr /\ q.seen = a /\ q.used = req[r].used /\ q.late = req[r].late
  <1> DEFINE x == [req[r] EXCEPT !.pc = p, !.seen = a]
  <1>1. req \in [Requests -> Req] /\ req[r] \in Req
    BY DEF EnrollInv, TypeOK
  <1>2. /\ x \in Req /\ x.kind = req[r].kind /\ x.pc = p /\ x.who = req[r].who
        /\ x.ref = req[r].ref /\ x.name = req[r].name /\ x.enr = req[r].enr
        /\ x.seen = a /\ x.used = req[r].used /\ x.late = req[r].late
    BY <1>1 DEF Req
  <1>3. req' = [req EXCEPT ![r] = x]
    BY <1>1 DEF Sees
  <1> QED
    BY <1>2, <1>3

\* What a request was given stays true while it goes on.
LEMMA StageKept ==
  ASSUME EnrollInv, NEW r \in Requests, Extends(r), req[r].pc # "idle"
  PROVE  /\ SomeMember => SomeMember'
         /\ MemberOf(req[r])' /\ FlowOf(req[r])'
         /\ InStage(r) /\ req[r] \in Req
  <1>1. InStage(r) /\ req[r] \in Req
    BY DEF EnrollInv, TypeOK
  <1>2. req'[r].kind = req[r].kind /\ req'[r].who = req[r].who /\ req'[r].ref = req[r].ref /\ req'[r].name = req[r].name
    BY DEF Extends
  <1>3. SomeMember => SomeMember'
    BY IssuedStays
  <1>4. MemberOf(req[r])'
    BY <1>1, <1>2 DEF InStage, Stage, JoinStage, MemberOf, IsMember, Extends
  <1>5. FlowOf(req[r])'
    <2>1. ASSUME req[r].kind = "poll"
          PROVE  IsFlow(req[r].ref) /\ flows[req[r].ref].name = req[r].name /\ req[r].ref \in IDs
      BY <1>1, <2>1 DEF InStage, Stage, TokenStage, FlowOf, IsFlow, IDs, Past
    <2> QED
      BY <1>2, <2>1, IssuedStays DEF FlowOf, IsFlow, Extends
  <1> QED
    BY <1>1, <1>3, <1>4, <1>5

\* A request goes on and redeems nothing.
LEMMA GoQuiet ==
  ASSUME EnrollInv, NEW r \in Requests, Extends(r), req[r].pc # "idle", req'[r].used = req[r].used,
         Unissued(req'[r]) => Unissued(req[r]), UNCHANGED <<invites, enrolls>>,
         flows' \in [IDs -> [name : Names \cup {AnyName}, tok : Requests \cup {NoID}]],
         nodes' \in [Names -> Row], \A n \in Names : nodes'[n] = nodes[n] \/ RowSponsored(n)',
         InStage(r)'
  PROVE  EnrollInv'
  <1>1. TypeOK'
    BY DEF EnrollInv, TypeOK, Extends
  <1>2. \A i \in IDs : invites'[i] <= invites[i] /\ enrolls'[i].left <= enrolls[i].left
    BY DEF EnrollInv, TypeOK
  <1> QED
    BY <1>1, <1>2, QuietInv

\* The steps of a claim and of a join: a request and its own row of the members.
LEMMA MemberStepInv ==
  ASSUME EnrollInv, NEW r \in Requests,
         ClaimCount(r) \/ ClaimGet(r) \/ ClaimOwn(r) \/ JoinRole(r) \/ JoinUpsert(r)
  PROVE  EnrollInv'
  <1>1. /\ UNCHANGED <<invites, enrolls, nodes, flows, exchanged>> /\ InStage(r) /\ req[r] \in Req
        /\ members \in [Subjects -> Role]
    BY DEF ClaimCount, ClaimGet, ClaimOwn, JoinRole, JoinUpsert, NoTable, OnlyMembers, EnrollInv, TypeOK
  <1>2. req[r].pc \in {"count", "get", "own", "role", "join"}
    BY DEF ClaimCount, ClaimGet, ClaimOwn, JoinRole, JoinUpsert
  <1>3. /\ members' \in [Subjects -> Role]
        /\ \A s \in Subjects : IsMember(s) => members'[s] # "none"
    <2>1. CASE UNCHANGED members
      BY <1>1, <2>1 DEF IsMember
    <2>2. CASE ClaimOwn(r)
      BY <1>1, <2>2 DEF ClaimOwn, IsMember, Role
    <2>3. CASE JoinUpsert(r)
      <3>1. req[r].seen \in {"member", "owner"}
        BY <1>1, <2>3 DEF JoinUpsert, InStage, Stage, JoinStage
      <3> QED
        BY <1>1, <2>3, <3>1 DEF JoinUpsert, IsMember, Role
    <2> QED
      BY <2>1, <2>2, <2>3 DEF ClaimCount, ClaimGet, JoinRole, NoTable
  <1>4. PICK q \in Req :
          /\ req' = [req EXCEPT ![r] = q]
          /\ q.kind = req[r].kind /\ q.who = req[r].who /\ q.name = req[r].name /\ q.ref = req[r].ref
          /\ q.used = req[r].used /\ q.late = req[r].late
          /\ \/ ClaimCount(r) /\ q.pc = "get" /\ q.seen = (IF SomeMember THEN "claimed" ELSE "free")
             \/ ClaimGet(r) /\ q.pc \in {"ok", "refused", "own"} /\ (q.pc = "own" => req[r].seen # "claimed")
             \/ (ClaimOwn(r) \/ JoinUpsert(r)) /\ q.pc = "ok"
             \/ JoinRole(r) /\ q.pc = "join" /\ q.seen \in {"member", "owner"}
    <2>1. CASE ClaimCount(r)
      <3>1. PICK b \in {"claimed", "free"} :
              /\ b = IF SomeMember THEN "claimed" ELSE "free"
              /\ req' = [req EXCEPT ![r].pc = "get", ![r].seen = b]
        BY <2>1 DEF ClaimCount
      <3>2. "get" \in PC /\ b \in Role \cup {"claimed", "free"}
        BY DEF PC
      <3>5. PICK q \in Req :
              /\ req' = [req EXCEPT ![r] = q] /\ q.pc = "get"
              /\ q.kind = req[r].kind /\ q.who = req[r].who /\ q.name = req[r].name /\ q.ref = req[r].ref
              /\ q.enr = req[r].enr /\ q.seen = b /\ q.used = req[r].used /\ q.late = req[r].late
        <4>1. Sees(r, "get", b) /\ "get" \in PC
          BY <3>1, <3>2 DEF Sees
        <4> QED
          BY <3>2, <4>1, GoesSeeing
      <3> QED
        BY <2>1, <3>1, <3>5
    <2>2. CASE ClaimGet(r)
      <3> DEFINE p == CASE members[req[r].who] # "none" -> "ok"
                        [] members[req[r].who] = "none" /\ req[r].seen = "claimed" -> "refused"
                        [] OTHER -> "own"
      <3>1. p \in {"ok", "refused", "own"} /\ (p = "own" => req[r].seen # "claimed")
        OBVIOUS
      <3>2. Goes(r, p)
        BY <2>2 DEF ClaimGet
      <3> HIDE DEF p
      <3>3. PICK w \in PC : w \in {"ok", "refused", "own"} /\ (w = "own" => req[r].seen # "claimed") /\ Goes(r, w)
        BY <3>1, <3>2 DEF PC
      <3> QED
        BY <2>2, <3>3, GoesTo
    <2>3. CASE ClaimOwn(r) \/ JoinUpsert(r)
      BY <2>3, GoesTo DEF ClaimOwn, JoinUpsert, PC
    <2>4. CASE JoinRole(r)
      <3> DEFINE a == IF IsMember(req[r].who) THEN members[req[r].who] ELSE "member"
      <3>1. a \in {"member", "owner"} /\ "join" \in PC
        BY <1>1, <2>4 DEF JoinRole, InStage, Stage, JoinStage, IsMember, Role, PC
      <3>2. req' = [req EXCEPT ![r].pc = "join", ![r].seen = a]
        BY <2>4 DEF JoinRole
      <3> HIDE DEF a
      <3>3. PICK b \in {"member", "owner"} : req' = [req EXCEPT ![r].pc = "join", ![r].seen = b]
        BY <3>1, <3>2
      <3>4. b \in Role \cup {"claimed", "free"}
        BY DEF Role
      <3>5. PICK q \in Req :
              /\ req' = [req EXCEPT ![r] = q] /\ q.pc = "join"
              /\ q.kind = req[r].kind /\ q.who = req[r].who /\ q.name = req[r].name /\ q.ref = req[r].ref
              /\ q.enr = req[r].enr /\ q.seen = b /\ q.used = req[r].used /\ q.late = req[r].late
        <4>1. Sees(r, "join", b) /\ "join" \in PC
          BY <3>1, <3>3 DEF Sees
        <4> QED
          BY <3>4, <4>1, GoesSeeing
      <3> QED
        BY <2>4, <3>3, <3>5
    <2> QED
      BY <2>1, <2>2, <2>3, <2>4
  <1>5. Extends(r) /\ req'[r] = q
    BY <1>1, <1>2, <1>3, <1>4, PutStep
  <1>6. InStage(r)'
    <2>1. SomeMember => SomeMember'
      BY <1>2, <1>5, StageKept
    <2>2. MemberOf(req[r])' /\ FlowOf(req[r])'
      BY <1>2, <1>5, StageKept
    <2>3. req[r].late => SomeMember /\ req[r].pc # "own" /\ (req[r].pc = "get" => req[r].seen = "claimed")
      BY <1>1 DEF InStage, Stage, ClaimStage
    <2>4. ClaimStage(req[r])'
      BY <1>2, <1>4, <1>5, <2>1, <2>3 DEF ClaimStage, ClaimCount, ClaimGet, ClaimOwn, JoinRole, JoinUpsert
    <2>5. q.pc \in {"get", "ok", "refused", "own", "join"} /\ (q.pc = "join" => JoinRole(r) /\ q.seen \in {"member", "owner"})
      BY <1>4
    <2>6. q.pc = "join" => q.who \in Subjects
      BY <1>1, <1>4, <2>5 DEF JoinRole, InStage, Stage, JoinStage
    <2> QED
      BY <1>5, <2>2, <2>4, <2>5, <2>6 DEF InStage, Stage, JoinStage, TokenStage, RedeemStage
  <1>7. Unissued(req'[r]) => Unissued(req[r])
    BY <1>4, <1>5 DEF Unissued
  <1>8. /\ flows' \in [IDs -> [name : Names \cup {AnyName}, tok : Requests \cup {NoID}]]
        /\ nodes' \in [Names -> Row] /\ \A n \in Names : nodes'[n] = nodes[n]
    BY <1>1 DEF EnrollInv, TypeOK
  <1> QED
    BY <1>1, <1>2, <1>4, <1>5, <1>6, <1>7, <1>8, GoQuiet

\* The steps of a redemption that spend nothing, of a flow and of a sign-on.
LEMMA NodeStepInv ==
  ASSUME EnrollInv, NEW r \in Requests,
         Find(r) \/ Register(r) \/ Exchange(r) \/ Complete(r) \/ Touch(r) \/ Fail(r)
  PROVE  EnrollInv'
  <1>1. /\ UNCHANGED <<members, invites, enrolls>> /\ InStage(r) /\ req[r] \in Req
        /\ members \in [Subjects -> Role] /\ req[r].pc # "idle" /\ r \in IDs
    BY DEF Find, Register, Exchange, Complete, Touch, Fail, NoTable, OnlyMembers, OnlyNodes, OnlyFlows,
           EnrollInv, TypeOK, IDs
  <1>2. PICK q \in Req :
          /\ req' = [req EXCEPT ![r] = q]
          /\ q.kind = req[r].kind /\ q.who = req[r].who /\ q.name = req[r].name /\ q.ref = req[r].ref
          /\ q.enr = req[r].enr /\ q.used = req[r].used /\ q.late = req[r].late
          /\ \/ q.pc \in {"ok", "refused", "complete"}
             \/ /\ q.pc = "spend" /\ req[r].pc = "find"
                /\ enrolls[req[r].enr].name \in {AnyName, req[r].name}
             \/ q.pc = "issue" /\ req[r].pc = "exchange" /\ req[r].ref \in exchanged'
    <2>1. PICK p \in {"ok", "refused", "complete", "spend", "issue"} :
            /\ Goes(r, p)
            /\ p = "spend" => req[r].pc = "find" /\ enrolls[req[r].enr].name \in {AnyName, req[r].name}
            /\ p = "issue" => req[r].pc = "exchange" /\ req[r].ref \in exchanged'
      <3>1. CASE Find(r)
        BY <3>1 DEF Find
      <3>2. CASE Register(r) \/ Complete(r) \/ Touch(r) \/ Fail(r)
        BY <3>2 DEF Register, Complete, Touch, Fail
      <3>3. CASE Exchange(r)
        BY <3>3 DEF Exchange
      <3> QED
        BY <3>1, <3>2, <3>3
    <2>2. p \in PC
      BY DEF PC
    <2> QED
      BY <2>1, <2>2, GoesTo
  <1>3. /\ exchanged \subseteq exchanged'
        /\ flows' \in [IDs -> [name : Names \cup {AnyName}, tok : Requests \cup {NoID}]]
        /\ \A f \in IDs : flows'[f].name = flows[f].name
    <2>1. flows \in [IDs -> [name : Names \cup {AnyName}, tok : Requests \cup {NoID}]]
      BY DEF EnrollInv, TypeOK
    <2>2. CASE UNCHANGED flows
      BY <2>1, <2>2 DEF Find, Register, Exchange, Complete, Touch, Fail, NoTable, OnlyMembers, OnlyNodes
    <2>3. CASE Complete(r) /\ flows' = [flows EXCEPT ![req[r].ref].tok = r]
      BY <2>1, <2>3 DEF Complete
    <2> QED
      BY <2>2, <2>3 DEF Find, Register, Exchange, Complete, Touch, Fail, NoTable, OnlyMembers, OnlyNodes
  <1>4. Extends(r) /\ req'[r] = q
    <2>1. \A s \in Subjects : IsMember(s) => members'[s] # "none"
      BY <1>1 DEF IsMember
    <2> QED
      BY <1>1, <1>2, <1>3, <2>1, PutStep
  <1>5. InStage(r)'
    <2>1. (SomeMember => SomeMember') /\ MemberOf(req[r])' /\ FlowOf(req[r])'
      BY <1>1, <1>4, StageKept
    <2>2. ClaimStage(req[r])'
      <3>1. q.pc \notin {"own", "get"}
        BY <1>2
      <3>2. q.late => SomeMember
        BY <1>1, <1>2 DEF InStage, Stage, ClaimStage
      <3> QED
        BY <1>4, <2>1, <3>1, <3>2 DEF ClaimStage
    <2>3. JoinStage(req[r])'
      BY <1>2, <1>4, <2>1 DEF JoinStage
    <2>4. TokenStage(req[r])'
      <3>1. q.pc \in {"ok", "refused", "complete", "spend", "issue"}
        BY <1>2
      <3>2. q.pc = "issue" => q.kind = "poll" /\ q.ref \in exchanged'
        BY <1>1, <1>2 DEF InStage, Stage, TokenStage
      <3>3. q.pc = "spend" => (q.kind = "join" => q.ref \in q.used) /\ (q.kind = "poll" => q.ref \in exchanged')
        BY <1>1, <1>2, <1>3 DEF InStage, Stage, TokenStage
      <3> QED
        BY <1>4, <2>1, <3>1, <3>2, <3>3 DEF TokenStage
    <2>5. RedeemStage(r, req[r])'
      <3>1. q.pc \in {"ok", "refused", "complete", "spend", "issue"}
        BY <1>2
      <3>2. ASSUME q.pc = "spend"
            PROVE  /\ q.enr \in Enrollments \/ (q.enr \in Requests /\ req'[q.enr].kind = "enroll")
                        \/ q.kind \in {"join", "poll"}
                   /\ q.kind \in {"join", "poll"} => q.enr = r
                   /\ q.kind \in {"redeem", "join", "poll"}
                   /\ enrolls'[q.enr].name \in {AnyName, q.name}
        <4>1. /\ req[r].pc = "find" /\ enrolls[req[r].enr].name \in {AnyName, req[r].name}
          BY <1>2, <3>2
        <4>2. \/ req[r].kind = "redeem" /\ IsEnroll(req[r].enr)
              \/ req[r].kind \in {"join", "poll"} /\ req[r].enr = r
          BY <1>1, <4>1 DEF InStage, Stage, RedeemStage
        <4> QED
          BY <1>1, <1>2, <1>4, <4>1, <4>2, IssuedStays DEF IsEnroll
      <3> QED
        BY <1>4, <3>1, <3>2 DEF RedeemStage, IsEnroll
    <2> QED
      BY <1>2, <1>4, <2>2, <2>3, <2>4, <2>5 DEF InStage, Stage
  <1>6. nodes' \in [Names -> Row] /\ \A n \in Names : nodes'[n] = nodes[n] \/ RowSponsored(n)'
    <2>1. nodes \in [Names -> Row] /\ req[r].enr \in IDs \cup {NoID}
      BY <1>1 DEF EnrollInv, TypeOK, Req
    <2>2. CASE UNCHANGED nodes
      BY <2>1, <2>2
    <2>3. CASE Register(r)
      <3>1. /\ req[r].pc = "register" /\ nodes' = [nodes EXCEPT ![req[r].name] = [tok |-> r, enr |-> req[r].enr]]
        BY <2>3 DEF Register
      <3>2. [tok |-> r, enr |-> req[r].enr] \in Row
        BY <2>1 DEF Row
      <3>3. nodes' \in [Names -> Row]
        BY <2>1, <3>1, <3>2
      <3>4. Sponsored(req[r].name, r, req[r].enr)
        <4>1. /\ req[r].enr \in req[r].used /\ enrolls[req[r].enr].name \in {AnyName, req[r].name}
              /\ req[r].kind = "join" => req[r].ref \in req[r].used
              /\ req[r].kind = "poll" => req[r].ref \in exchanged
              /\ req[r].kind = "poll" => flows[req[r].ref].name = req[r].name
              /\ \/ req[r].kind = "redeem" /\ IsEnroll(req[r].enr)
                 \/ req[r].kind \in {"join", "poll"} /\ req[r].enr = r
          BY <1>1, <3>1 DEF InStage, Stage, RedeemStage, TokenStage, FlowOf
        <4>2. IsEnroll(req[r].enr) =>
                req[r].enr \in Past \/ (req[req[r].enr].kind = "enroll" /\ IsMember(req[req[r].enr].who))
          BY DEF IsEnroll, Past, EnrollInv, InStage, Stage, JoinStage, MemberOf
        <4> QED
          BY <4>1, <4>2 DEF Sponsored, Sponsors
      <3>5. \A m, t, e : Sponsored(m, t, e) => Sponsored(m, t, e)'
        BY <1>4, SponsoredStays
      <3>6. ASSUME NEW n \in Names, n = req[r].name
            PROVE  RowSponsored(n)'
        <4>1. nodes'[n].tok = r /\ nodes'[n].enr = req[r].enr
          BY <2>1, <3>1, <3>6
        <4> QED
          BY <3>4, <3>5, <3>6, <4>1 DEF RowSponsored, Sponsored, Sponsors, IsMember
      <3>7. \A n \in Names : n # req[r].name => nodes'[n] = nodes[n]
        BY <2>1, <3>1
      <3> QED
        BY <3>3, <3>6, <3>7
    <2>4. CASE Touch(r)
      <3>1. /\ req[r].pc = "touch" /\ nodes' = [nodes EXCEPT ![req[r].name] = [tok |-> req[r].ref, enr |-> req[r].enr]]
        BY <2>4 DEF Touch
      <3>2. Sponsored(req[r].name, req[r].ref, req[r].enr)
        BY <1>1, <3>1 DEF InStage, Stage, RedeemStage
      <3>3. [tok |-> req[r].ref, enr |-> req[r].enr] \in Row
        BY <2>1, <3>2 DEF Row, Sponsored
      <3>4. nodes' \in [Names -> Row]
        BY <2>1, <3>1, <3>3
      <3>5. \A m, t, e : Sponsored(m, t, e) => Sponsored(m, t, e)'
        BY <1>4, SponsoredStays
      <3>6. ASSUME NEW n \in Names, n = req[r].name
            PROVE  RowSponsored(n)'
        <4>1. nodes'[n].tok = req[r].ref /\ nodes'[n].enr = req[r].enr
          BY <2>1, <3>1, <3>6
        <4> QED
          BY <3>2, <3>5, <3>6, <4>1 DEF RowSponsored, Sponsored, Sponsors, IsMember
      <3>7. \A n \in Names : n # req[r].name => nodes'[n] = nodes[n]
        BY <2>1, <3>1
      <3> QED
        BY <3>4, <3>6, <3>7
    <2> QED
      BY <2>2, <2>3, <2>4 DEF Find, Exchange, Complete, Fail, NoTable, OnlyMembers, OnlyFlows
  <1>7. Unissued(req'[r]) => Unissued(req[r])
    <2>1. q.pc = "issue" => req[r].kind \in {"join", "poll"} /\ req[r].pc = "exchange"
      BY <1>1, <1>2 DEF InStage, Stage, TokenStage
    <2> QED
      BY <1>2, <1>4, <2>1 DEF Unissued
  <1> QED
    BY <1>1, <1>2, <1>3, <1>4, <1>5, <1>6, <1>7, GoQuiet

\* An invite or an enrollment is made, by a request of that name.
LEMMA CreateInv ==
  ASSUME EnrollInv, NEW r \in Requests, NEW s \in Subjects,
         InviteCreate(r, s) \/ \E n \in Names \cup {AnyName} : EnrollCreate(r, s, n)
  PROVE  EnrollInv'
  <1>1. PICK k \in {"invite", "enroll"}, f \in Req :
          /\ Begins(r, k, "ok", f) /\ f.used = {} /\ f.late = FALSE /\ f.who = s
          /\ k = "enroll" => IsMember(s)
    <2> DEFINE x == [Unborn EXCEPT !.who = s]
    <2>1. x \in Req /\ x.used = {} /\ x.late = FALSE /\ x.who = s
      BY DEF Req, Unborn, Kind, PC, Role
    <2>2. Begins(r, "invite", "ok", x) \/ (Begins(r, "enroll", "ok", x) /\ IsMember(s))
      BY DEF InviteCreate, EnrollCreate
    <2> HIDE DEF x
    <2> QED
      BY <2>1, <2>2
  <1>2. /\ UNCHANGED <<members, exchanged, flows, nodes>> /\ r \in IDs
        /\ invites \in [IDs -> Nat] /\ enrolls \in [IDs -> [left : Nat, name : Names \cup {AnyName}]]
    BY DEF InviteCreate, EnrollCreate, OnlyInvites, OnlyEnrolls, EnrollInv, TypeOK, IDs
  <1>3. /\ invites' \in [IDs -> Nat] /\ enrolls' \in [IDs -> [left : Nat, name : Names \cup {AnyName}]]
        /\ \A i \in IDs \ {r} : invites'[i] = invites[i] /\ enrolls'[i] = enrolls[i]
        /\ \/ invites'[r] = Uses /\ enrolls'[r] = enrolls[r]
           \/ invites'[r] = invites[r] /\ enrolls'[r].left = Uses
    <2>1. CASE InviteCreate(r, s)
      BY <1>2, <2>1, UsesAssumption DEF InviteCreate, OnlyInvites
    <2>2. CASE \E n \in Names \cup {AnyName} : EnrollCreate(r, s, n)
      <3>1. PICK n \in Names \cup {AnyName} : EnrollCreate(r, s, n)
        BY <2>2
      <3>2. [left |-> Uses, name |-> n] \in [left : Nat, name : Names \cup {AnyName}]
        BY UsesAssumption
      <3>3. enrolls' = [enrolls EXCEPT ![r] = [left |-> Uses, name |-> n]] /\ invites' = invites
        BY <3>1 DEF EnrollCreate, OnlyEnrolls
      <3> QED
        BY <1>2, <3>2, <3>3
    <2> QED
      BY <2>1, <2>2
  <1>4. k \in Kind /\ "ok" \in PC
    BY DEF Kind, PC
  <1>5. Extends(r) /\ req[r].pc = "idle" /\ req[r].used = {} /\ req'[r].used = {}
    <2>1. /\ \A e \in IDs \ {r} : enrolls'[e].name = enrolls[e].name
          /\ \A e \in IDs \ {r} : flows'[e].name = flows[e].name
      BY <1>2, <1>3
    <2> QED
      BY <1>1, <1>2, <1>4, <2>1, BeginStep
  <1>6. req'[r].kind = k /\ req'[r].pc = "ok" /\ req'[r].who = s /\ req'[r].late = FALSE
    BY <1>1, <1>4, BegunAt
  <1>7. TypeOK'
    BY <1>2, <1>3, <1>5 DEF EnrollInv, TypeOK, Extends
  <1>8. InStage(r)'
    BY <1>1, <1>2, <1>5, <1>6 DEF InStage, Stage, ClaimStage, JoinStage, TokenStage, RedeemStage, MemberOf, FlowOf, IsMember
  <1>9. /\ \A u \in Requests : Unissued(req'[u]) => Blank(u)'
        /\ \A i \in IDs : Ledger(i)'
    <2>1. Unissued(req[r]) /\ ~Unissued(req'[r])
      BY <1>1, <1>5, <1>6 DEF Unissued
    <2>2. invites[r] = 0 /\ enrolls[r].left = 0
      BY <2>1 DEF EnrollInv, Blank
    <2>3. Allowed(r)' = Uses
      BY <1>6 DEF Allowed
    <2>4. /\ invites'[r] \in Nat /\ enrolls'[r].left \in Nat
          /\ invites'[r] + enrolls'[r].left <= Allowed(r)'
      BY <1>2, <1>3, <2>2, <2>3, UsesAssumption
    <2>5. \A i \in IDs \ {r} : invites'[i] = invites[i] /\ enrolls'[i].left = enrolls[i].left
      BY <1>3
    <2> QED
      BY <1>5, <2>1, <2>4, <2>5, IssueStep
  <1> QED
    BY <1>2, <1>5, <1>7, <1>8, <1>9, StepOf

\* A request spends a use of an invite.
LEMMA InviteConsumeInv ==
  ASSUME EnrollInv, NEW r \in Requests, InviteConsume(r)
  PROVE  EnrollInv'
  <1> DEFINE i == req[r].ref
  <1>1. /\ req[r].pc = "consume" /\ InStage(r) /\ req[r] \in Req /\ req \in [Requests -> Req]
        /\ UNCHANGED <<members, enrolls, nodes, flows, exchanged>>
        /\ invites \in [IDs -> Nat] /\ enrolls \in [IDs -> [left : Nat, name : Names \cup {AnyName}]]
        /\ members \in [Subjects -> Role]
    BY DEF InviteConsume, OnlyInvites, EnrollInv, TypeOK
  <1>2. req[r].kind \in {"enter", "join"} /\ req[r].used = {} /\ IsInvite(i)
    BY <1>1 DEF InStage, Stage, TokenStage
  <1>3. i \in IDs /\ i # r
    BY <1>1, <1>2, IDsAssumption DEF IsInvite, IDs, Past
  <1>4. \A s \in Subjects : IsMember(s) => members'[s] # "none"
    BY <1>1 DEF IsMember
  <1>5. CASE Goes(r, "refused") /\ UNCHANGED invites
    <2>1. "refused" \in PC
      BY DEF PC
    <2>2. PICK q \in Req :
            /\ req' = [req EXCEPT ![r] = q] /\ q.pc = "refused"
            /\ q.kind = req[r].kind /\ q.who = req[r].who /\ q.name = req[r].name /\ q.ref = req[r].ref
            /\ q.enr = req[r].enr /\ q.seen = req[r].seen /\ q.used = req[r].used /\ q.late = req[r].late
      BY <1>5, <2>1, GoesTo
    <2>3. Extends(r) /\ req'[r] = q
      BY <1>1, <1>4, <2>2, PutStep
    <2>4. InStage(r)'
      <3>1. (SomeMember => SomeMember') /\ MemberOf(req[r])' /\ FlowOf(req[r])'
        BY <1>1, <2>3, StageKept
      <3>2. q.late => SomeMember
        BY <1>1, <2>2 DEF InStage, Stage, ClaimStage
      <3> QED
        BY <2>2, <2>3, <3>1, <3>2 DEF InStage, Stage, ClaimStage, JoinStage, TokenStage, RedeemStage
    <2>5. ~Unissued(req'[r])
      BY <2>2, <2>3 DEF Unissued
    <2>6. /\ flows' \in [IDs -> [name : Names \cup {AnyName}, tok : Requests \cup {NoID}]]
          /\ nodes' \in [Names -> Row]
      BY <1>1 DEF EnrollInv, TypeOK
    <2> QED
      BY <1>1, <1>5, <2>2, <2>3, <2>4, <2>5, <2>6, GoQuiet
  <1>6. CASE /\ invites[i] > 0 /\ invites' = [invites EXCEPT ![i] = @ - 1]
             /\ req' = [req EXCEPT ![r].used = {i}, ![r].pc = IF req[r].kind = "enter" THEN "role" ELSE "issue"]
    <2>1. PICK q \in Req :
            /\ req' = [req EXCEPT ![r] = q]
            /\ q.pc = (IF req[r].kind = "enter" THEN "role" ELSE "issue")
            /\ q.kind = req[r].kind /\ q.who = req[r].who /\ q.name = req[r].name /\ q.ref = req[r].ref
            /\ q.used = {i} /\ q.late = req[r].late
      <3> DEFINE x == [req[r] EXCEPT !.used = {i}, !.pc = IF req[r].kind = "enter" THEN "role" ELSE "issue"]
      <3>1. /\ x \in Req /\ x.pc = (IF req[r].kind = "enter" THEN "role" ELSE "issue")
            /\ x.kind = req[r].kind /\ x.who = req[r].who /\ x.name = req[r].name /\ x.ref = req[r].ref
            /\ x.used = {i} /\ x.late = req[r].late
        BY <1>1, <1>3 DEF Req, PC
      <3>2. req' = [req EXCEPT ![r] = x]
        BY <1>1, <1>6
      <3> QED
        BY <3>1, <3>2
    <2>2. Extends(r) /\ req'[r] = q
      BY <1>1, <1>2, <1>4, <2>1, PutStep
    <2>3. /\ invites' \in [IDs -> Nat] /\ invites'[i] = invites[i] - 1 /\ invites[i] \in Nat
          /\ \A j \in IDs \ {i} : invites'[j] = invites[j]
      BY <1>1, <1>3, <1>6
    <2>4. TypeOK'
      BY <1>1, <2>2, <2>3 DEF EnrollInv, TypeOK, Extends
    <2>5. InStage(r)'
      <3>1. (SomeMember => SomeMember') /\ MemberOf(req[r])' /\ FlowOf(req[r])'
        BY <1>1, <2>2, StageKept
      <3>2. q.late => SomeMember
        BY <1>1, <2>1 DEF InStage, Stage, ClaimStage
      <3>3. q.kind = "enter" => q.who \in Subjects
        BY <1>1, <1>2, <2>1 DEF InStage, Stage, JoinStage, MemberOf
      <3>4. \/ q.pc = "role" /\ q.kind = "enter"
            \/ q.pc = "issue" /\ q.kind = "join" /\ q.ref \in q.used
        <4>1. q.ref = i /\ i \in q.used
          BY <2>1
        <4>2. CASE req[r].kind = "enter"
          BY <2>1, <4>2
        <4>3. CASE req[r].kind = "join"
          BY <2>1, <4>1, <4>3
        <4> QED
          BY <1>2, <4>2, <4>3
      <3> QED
        BY <2>2, <3>1, <3>2, <3>3, <3>4 DEF InStage, Stage, ClaimStage, JoinStage, TokenStage, RedeemStage
    <2>6. /\ \A u \in Requests : Unissued(req'[u]) => Blank(u)'
          /\ \A j \in IDs : Ledger(j)'
      <3>1. Unissued(req'[r]) => Unissued(req[r]) /\ i # r
        BY <1>1, <1>2, <1>3, <2>1, <2>2 DEF Unissued
      <3>2. invites'[i] + enrolls'[i].left + 1 = invites[i] + enrolls[i].left /\ invites'[i] \in Nat /\ enrolls'[i].left \in Nat
        BY <1>1, <1>3, <2>3
      <3>3. \A u \in Requests : Unissued(req[u]) => u # i \/ u = r
        BY <1>2, IDsAssumption DEF IsInvite, Unissued, Past, EnrollInv, InStage, Stage, Unborn
      <3>4. req'[r].used = req[r].used \cup {i}
        BY <1>2, <2>1, <2>2
      <3>5. \A j \in IDs \ {i} : invites'[j] = invites[j] /\ enrolls'[j].left = enrolls[j].left
        BY <1>1, <2>3
      <3>6. \A k \in IDs : k = i =>
              /\ \A u \in Requests : Unissued(req'[u]) => Blank(u)'
              /\ \A j \in IDs : Ledger(j)'
        BY <1>1, <2>2, <3>1, <3>2, <3>3, <3>4, <3>5, SpendStep
      <3> QED
        BY <1>3, <3>6
    <2> QED
      BY <1>1, <2>2, <2>4, <2>5, <2>6, StepOf
  <1> QED
    BY <1>5, <1>6 DEF InviteConsume

\* An enrollment is issued for an invite or for a flow: it is called by the request.
LEMMA IssueInv ==
  ASSUME EnrollInv, NEW r \in Requests, Issue(r)
  PROVE  EnrollInv'
  <1>1. /\ req[r].pc = "issue" /\ InStage(r) /\ req[r] \in Req /\ req \in [Requests -> Req] /\ r \in IDs
        /\ UNCHANGED <<members, invites, nodes, flows, exchanged>>
        /\ enrolls' = [enrolls EXCEPT ![r] = [left |-> 1, name |-> req[r].name]]
        /\ enrolls \in [IDs -> [left : Nat, name : Names \cup {AnyName}]]
        /\ invites \in [IDs -> Nat] /\ members \in [Subjects -> Role]
    BY DEF Issue, OnlyEnrolls, EnrollInv, TypeOK, IDs
  <1>2. /\ req[r].kind \in {"join", "poll"}
        /\ req[r].kind = "join" => req[r].ref \in req[r].used
        /\ req[r].kind = "poll" => req[r].ref \in exchanged
    BY <1>1 DEF InStage, Stage, TokenStage
  <1>3. PICK q \in Req :
          /\ req' = [req EXCEPT ![r] = q] /\ q.pc = "find" /\ q.enr = r
          /\ q.kind = req[r].kind /\ q.who = req[r].who /\ q.name = req[r].name /\ q.ref = req[r].ref
          /\ q.used = req[r].used /\ q.late = req[r].late
    <2> DEFINE x == [req[r] EXCEPT !.pc = "find", !.enr = r]
    <2>1. /\ x \in Req /\ x.pc = "find" /\ x.enr = r
          /\ x.kind = req[r].kind /\ x.who = req[r].who /\ x.name = req[r].name /\ x.ref = req[r].ref
          /\ x.used = req[r].used /\ x.late = req[r].late
      BY <1>1 DEF Req, PC
    <2>2. req' = [req EXCEPT ![r] = x]
      BY <1>1 DEF Issue
    <2> QED
      BY <2>1, <2>2
  <1>4. /\ enrolls' \in [IDs -> [left : Nat, name : Names \cup {AnyName}]] /\ enrolls'[r].left = 1
        /\ \A e \in IDs \ {r} : enrolls'[e] = enrolls[e]
    <2>1. [left |-> 1, name |-> req[r].name] \in [left : Nat, name : Names \cup {AnyName}]
      BY <1>1 DEF Req
    <2> QED
      BY <1>1, <2>1
  <1>5. Extends(r) /\ req'[r] = q
    <2>1. \A s \in Subjects : IsMember(s) => members'[s] # "none"
      BY <1>1 DEF IsMember
    <2>2. \A e \in IDs : e # r \/ req[r].pc # "issue" => enrolls'[e].name = enrolls[e].name
      BY <1>1, <1>4
    <2> QED
      BY <1>1, <1>3, <2>1, <2>2, PutStep
  <1>6. TypeOK'
    BY <1>1, <1>4, <1>5 DEF EnrollInv, TypeOK, Extends
  <1>7. InStage(r)'
    <2>1. (SomeMember => SomeMember') /\ MemberOf(req[r])' /\ FlowOf(req[r])'
      BY <1>1, <1>5, StageKept
    <2>2. q.late => SomeMember
      BY <1>1, <1>3 DEF InStage, Stage, ClaimStage
    <2> QED
      BY <1>1, <1>2, <1>3, <1>5, <2>1, <2>2 DEF InStage, Stage, ClaimStage, JoinStage, TokenStage, RedeemStage
  <1>8. /\ \A u \in Requests : Unissued(req'[u]) => Blank(u)'
        /\ \A i \in IDs : Ledger(i)'
    <2>1. Unissued(req[r]) /\ ~Unissued(req'[r]) /\ req'[r].used = req[r].used
      BY <1>1, <1>2, <1>3, <1>5 DEF Unissued
    <2>2. invites[r] = 0
      BY <2>1 DEF EnrollInv, Blank
    <2>3. Allowed(r)' = 1
      BY <1>2, <1>3, <1>5 DEF Allowed
    <2>4. /\ invites'[r] \in Nat /\ enrolls'[r].left \in Nat
          /\ invites'[r] + enrolls'[r].left <= Allowed(r)'
      BY <1>1, <1>4, <2>2, <2>3
    <2>5. \A i \in IDs \ {r} : invites'[i] = invites[i] /\ enrolls'[i].left = enrolls[i].left
      BY <1>1, <1>4
    <2> QED
      BY <1>5, <2>1, <2>4, <2>5, IssueStep
  <1> QED
    BY <1>1, <1>5, <1>6, <1>7, <1>8, StepOf

\* A request spends a use of an enrollment.
LEMMA SpendInv ==
  ASSUME EnrollInv, NEW r \in Requests, Spend(r)
  PROVE  EnrollInv'
  <1> DEFINE e == req[r].enr
  <1>1. /\ req[r].pc = "spend" /\ InStage(r) /\ req[r] \in Req /\ req \in [Requests -> Req] /\ r \in IDs
        /\ UNCHANGED <<members, invites, nodes, flows, exchanged>>
        /\ invites \in [IDs -> Nat] /\ enrolls \in [IDs -> [left : Nat, name : Names \cup {AnyName}]]
        /\ members \in [Subjects -> Role]
    BY DEF Spend, OnlyEnrolls, EnrollInv, TypeOK, IDs
  <1>2. /\ \/ req[r].kind = "redeem" /\ IsEnroll(e)
           \/ req[r].kind \in {"join", "poll"} /\ e = r
        /\ enrolls[e].name \in {AnyName, req[r].name}
        /\ req[r].kind = "join" => req[r].ref \in req[r].used
        /\ req[r].kind = "poll" => req[r].ref \in exchanged
    BY <1>1 DEF InStage, Stage, TokenStage, RedeemStage
  <1>3. e \in IDs
    BY <1>1, <1>2 DEF IsEnroll, IDs, Past
  <1>4. \A s \in Subjects : IsMember(s) => members'[s] # "none"
    BY <1>1 DEF IsMember
  <1>5. CASE Goes(r, "refused") /\ UNCHANGED enrolls
    <2>1. "refused" \in PC
      BY DEF PC
    <2>2. PICK q \in Req :
            /\ req' = [req EXCEPT ![r] = q] /\ q.pc = "refused"
            /\ q.kind = req[r].kind /\ q.who = req[r].who /\ q.name = req[r].name /\ q.ref = req[r].ref
            /\ q.enr = req[r].enr /\ q.seen = req[r].seen /\ q.used = req[r].used /\ q.late = req[r].late
      BY <1>5, <2>1, GoesTo
    <2>3. Extends(r) /\ req'[r] = q
      BY <1>1, <1>4, <1>5, <2>2, PutStep
    <2>4. InStage(r)'
      <3>1. (SomeMember => SomeMember') /\ MemberOf(req[r])' /\ FlowOf(req[r])'
        BY <1>1, <2>3, StageKept
      <3>2. q.late => SomeMember
        BY <1>1, <2>2 DEF InStage, Stage, ClaimStage
      <3> QED
        BY <2>2, <2>3, <3>1, <3>2 DEF InStage, Stage, ClaimStage, JoinStage, TokenStage, RedeemStage
    <2>5. ~Unissued(req'[r])
      BY <2>2, <2>3 DEF Unissued
    <2>6. /\ flows' \in [IDs -> [name : Names \cup {AnyName}, tok : Requests \cup {NoID}]]
          /\ nodes' \in [Names -> Row]
      BY <1>1 DEF EnrollInv, TypeOK
    <2> QED
      BY <1>1, <1>5, <2>2, <2>3, <2>4, <2>5, <2>6, GoQuiet
  <1>6. CASE /\ enrolls[e].left > 0 /\ enrolls' = [enrolls EXCEPT ![e].left = @ - 1]
             /\ req' = [req EXCEPT ![r].pc = "register", ![r].used = @ \cup {e}]
    <2>1. PICK q \in Req :
            /\ req' = [req EXCEPT ![r] = q] /\ q.pc = "register" /\ q.enr = e
            /\ q.kind = req[r].kind /\ q.who = req[r].who /\ q.name = req[r].name /\ q.ref = req[r].ref
            /\ q.used = req[r].used \cup {e} /\ q.late = req[r].late
      <3> DEFINE x == [req[r] EXCEPT !.pc = "register", !.used = req[r].used \cup {e}]
      <3>1. /\ x \in Req /\ x.pc = "register" /\ x.enr = e
            /\ x.kind = req[r].kind /\ x.who = req[r].who /\ x.name = req[r].name /\ x.ref = req[r].ref
            /\ x.used = req[r].used \cup {e} /\ x.late = req[r].late
        BY <1>1, <1>3 DEF Req, PC
      <3>2. req' = [req EXCEPT ![r] = x]
        BY <1>1, <1>6
      <3> QED
        BY <3>1, <3>2
    <2>2. /\ enrolls' \in [IDs -> [left : Nat, name : Names \cup {AnyName}]]
          /\ enrolls[e].left \in Nat /\ enrolls'[e].left = enrolls[e].left - 1 /\ enrolls'[e].name = enrolls[e].name
          /\ \A i \in IDs \ {e} : enrolls'[i] = enrolls[i]
      <3> DEFINE x == [enrolls[e] EXCEPT !.left = enrolls[e].left - 1]
      <3>1. /\ x \in [left : Nat, name : Names \cup {AnyName}]
            /\ x.left = enrolls[e].left - 1 /\ x.name = enrolls[e].name /\ enrolls[e].left \in Nat
        BY <1>1, <1>3, <1>6
      <3>2. enrolls' = [enrolls EXCEPT ![e] = x]
        BY <1>6
      <3> HIDE DEF x
      <3> QED
        BY <1>1, <1>3, <3>1, <3>2
    <2>3. Extends(r) /\ req'[r] = q
      <3>1. \A i \in IDs : enrolls'[i].name = enrolls[i].name
        BY <2>2
      <3> QED
        BY <1>1, <1>4, <2>1, <3>1, PutStep
    <2>4. TypeOK'
      BY <1>1, <2>2, <2>3 DEF EnrollInv, TypeOK, Extends
    <2>5. InStage(r)'
      <3>1. (SomeMember => SomeMember') /\ MemberOf(req[r])' /\ FlowOf(req[r])'
        BY <1>1, <2>3, StageKept
      <3>2. q.late => SomeMember
        BY <1>1, <2>1 DEF InStage, Stage, ClaimStage
      <3>3. /\ \/ q.kind = "redeem" /\ (e \in Enrollments \/ (e \in Requests /\ req'[e].kind = "enroll"))
               \/ q.kind \in {"join", "poll"} /\ q.enr = r
            /\ enrolls'[q.enr].name \in {AnyName, q.name} /\ q.enr \in q.used
            /\ q.kind = "join" => q.ref \in q.used
            /\ q.kind = "poll" => q.ref \in exchanged'
        <4>1. IsEnroll(e) => e \in Enrollments \/ (e \in Requests /\ req'[e].kind = "enroll")
          BY <2>3, IssuedStays DEF IsEnroll
        <4> QED
          BY <1>1, <1>2, <1>3, <2>1, <2>2, <4>1
      <3> QED
        BY <2>1, <2>3, <3>1, <3>2, <3>3 DEF InStage, Stage, ClaimStage, JoinStage, TokenStage, RedeemStage, IsEnroll
    <2>6. /\ \A u \in Requests : Unissued(req'[u]) => Blank(u)'
          /\ \A j \in IDs : Ledger(j)'
      <3>1. ~Unissued(req'[r])
        BY <2>1, <2>3 DEF Unissued
      <3>2. invites'[e] + enrolls'[e].left + 1 = invites[e] + enrolls[e].left /\ invites'[e] \in Nat /\ enrolls'[e].left \in Nat
        BY <1>1, <1>3, <2>2
      <3>3. \A u \in Requests : Unissued(req[u]) => u # e \/ u = r
        BY <1>2, IDsAssumption DEF IsEnroll, Unissued, Past, EnrollInv, InStage, Stage, Unborn
      <3>4. req'[r].used = req[r].used \cup {e}
        BY <2>1, <2>3
      <3>5. \A j \in IDs \ {e} : invites'[j] = invites[j] /\ enrolls'[j].left = enrolls[j].left
        BY <1>1, <2>2
      <3>6. \A k \in IDs : k = e =>
              /\ \A u \in Requests : Unissued(req'[u]) => Blank(u)'
              /\ \A j \in IDs : Ledger(j)'
        BY <1>1, <2>3, <3>1, <3>2, <3>3, <3>4, <3>5, SpendStep
      <3> QED
        BY <1>3, <3>6
    <2> QED
      BY <1>1, <2>3, <2>4, <2>5, <2>6, StepOf
  <1> QED
    BY <1>5, <1>6 DEF Spend

-----------------------------------------------------------------------------
(* The theorems                                                            *)

\* The initial states satisfy the invariant.
LEMMA InitInv == Init => EnrollInv
  <1> SUFFICES ASSUME Init PROVE EnrollInv
    OBVIOUS
  <1>1. /\ \A r \in Requests : req[r] = Unborn
        /\ \A i \in IDs : invites[i] = IF i \in Invites THEN Uses ELSE 0
        /\ \A i \in IDs : enrolls[i].left = IF i \in Enrollments THEN Uses ELSE 0
        /\ \A n \in Names : nodes[n] = NoNode
    BY DEF Init, NoEnroll
  <1>2. TypeOK
    <2>1. members \in [Subjects -> Role]
      BY DEF Init, Role
    <2>2. invites \in [IDs -> Nat] /\ enrolls \in [IDs -> [left : Nat, name : Names \cup {AnyName}]]
      BY UsesAssumption DEF Init, NoEnroll
    <2>3. nodes \in [Names -> Row] /\ flows \in [IDs -> [name : Names \cup {AnyName}, tok : Requests \cup {NoID}]]
      BY DEF Init, NoNode, Row, NoFlow
    <2>4. Unborn \in Req
      BY DEF Unborn, Req, Kind, PC, Role
    <2>5. req \in [Requests -> Req]
      BY <2>4 DEF Init
    <2> QED
      BY <2>1, <2>2, <2>3, <2>5 DEF TypeOK
  <1>3. \A r \in Requests : InStage(r)
    <2>1. Unborn.pc = "idle" /\ Unborn.kind = "none" /\ Unborn.late = FALSE
      BY DEF Unborn
    <2>2. ASSUME NEW r \in Requests
          PROVE  Stage(r, Unborn)
      BY <2>1 DEF Stage, ClaimStage, JoinStage, MemberOf, FlowOf, TokenStage, RedeemStage
    <2> QED
      BY <1>1, <2>2 DEF InStage
  <1>4. \A i \in IDs : SpentOn(i) = {} /\ Cardinality(SpentOn(i)) = 0
    <2>1. \A i \in IDs : SpentOn(i) = {}
      BY <1>1 DEF SpentOn, Unborn
    <2> QED
      BY <2>1, FS_EmptySet
  <1>5. \A r \in Requests : Unissued(req[r]) => Blank(r)
    BY <1>1, <1>4, IDsAssumption DEF Blank, IDs, Past
  <1>6. \A i \in IDs : Ledger(i)
    <2>1. \A i \in IDs : Allowed(i) = Uses
      BY <1>1 DEF Allowed, Unborn
    <2> QED
      BY <1>1, <1>4, <2>1, UsesAssumption, IDsAssumption DEF Ledger
  <1> QED
    BY <1>1, <1>2, <1>3, <1>5, <1>6 DEF EnrollInv, RowSponsored

\* Time passes for a token, and nothing else.
LEMMA IdleInv ==
  ASSUME EnrollInv, (\E i \in IDs : Expire(i)) \/ UNCHANGED vars
  PROVE  EnrollInv'
  <1>1. UNCHANGED <<members, invites, enrolls, nodes, flows, exchanged, req>>
    BY DEF Expire, vars
  <1>2. TypeOK' /\ \A r \in Requests : Unissued(req'[r]) => Blank(r)'
    BY <1>1 DEF EnrollInv, TypeOK, Blank, SpentOn
  <1>3. \A r \in Requests : InStage(r)'
    BY <1>1 DEF EnrollInv, InStage, Stage, ClaimStage, JoinStage, MemberOf, FlowOf, TokenStage, RedeemStage,
                SomeMember, IsMember, IsFlow, IsInvite, IsEnroll, Sponsored, Sponsors
  <1>4. \A n \in Names : RowSponsored(n)'
    BY <1>1 DEF EnrollInv, RowSponsored, Sponsored, Sponsors, IsMember
  <1>5. \A i \in IDs : Ledger(i)'
    BY <1>1 DEF EnrollInv, Ledger, SpentOn, Allowed
  <1> QED
    BY <1>2, <1>3, <1>4, <1>5 DEF EnrollInv

\* Every step keeps the invariant.
LEMMA StepInv == EnrollInv /\ [Next]_vars => EnrollInv'
  <1> SUFFICES ASSUME EnrollInv, [Next]_vars PROVE EnrollInv'
    OBVIOUS
  <1>1. CASE \E r \in Requests : Starts(r)
    <2>1. PICK r \in Requests : Starts(r)
      BY <1>1
    <2>2. CASE \E s \in Subjects : Claim(r, s) \/ InviteCreate(r, s)
                 \/ \E n \in Names \cup {AnyName} : EnrollCreate(r, s, n)
      BY <2>2, ClaimInv, CreateInv
    <2>3. CASE \E s \in Subjects, i \in IDs : InviteDelete(r, s, i) \/ NetworkJoin(r, s, i)
      BY <2>3, InviteDeleteInv, NetworkJoinInv
    <2>4. CASE \E s \in Subjects, n \in Names : NodeRevoke(r, s, n)
      BY <2>4, NodeRevokeInv
    <2>5. CASE \E n \in Names : DeviceAuthorize(r, n) \/ Connect(r, n)
      BY <2>5, DeviceAuthorizeInv, ConnectInv
    <2>6. CASE \E n \in Names, i \in IDs : NodeJoin(r, i, n) \/ Redeem(r, i, n)
      BY <2>6, NodeJoinInv, RedeemInv
    <2>7. CASE \E f \in IDs : DevicePoll(r, f)
      BY <2>7, DevicePollInv
    <2> QED
      BY <2>1, <2>2, <2>3, <2>4, <2>5, <2>6, <2>7 DEF Starts
  <1>2. CASE \E r \in Requests : Goes_on(r) \/ Fail(r)
    BY <1>2, MemberStepInv, NodeStepInv, InviteConsumeInv, IssueInv, SpendInv DEF Goes_on
  <1>3. CASE (\E i \in IDs : Expire(i)) \/ UNCHANGED vars
    BY <1>3, IdleInv
  <1> QED
    BY <1>1, <1>2, <1>3 DEF Next

\* The invariant holds throughout.
LEMMA Invariance == Spec => []EnrollInv
  BY InitInv, StepInv, PTL DEF Spec

\* No invite and no enrollment is redeemed more often than it was made for.
THEOREM UsesAreKept == Spec => []UsesKept
  <1>1. EnrollInv => UsesKept
    <2> SUFFICES ASSUME EnrollInv, NEW i \in IDs
                 PROVE  /\ SpentOn(i) # {} /\ invites[i] > 0 => Cardinality(SpentOn(i)) + invites[i] <= Uses
                        /\ Cardinality(SpentOn(i)) + enrolls[i].left <= Allowed(i)
      BY DEF UsesKept
    <2>1. /\ Cardinality(SpentOn(i)) \in Nat /\ invites[i] \in Nat /\ enrolls[i].left \in Nat
          /\ Cardinality(SpentOn(i)) + invites[i] + enrolls[i].left <= Allowed(i) /\ Allowed(i) \in Nat
      BY LedgerOf
    <2>2. Allowed(i) \in {1, Uses} /\ 1 <= Uses /\ Uses \in Nat
      BY UsesAssumption DEF Allowed
    <2> QED
      BY <2>1, <2>2
  <1> QED
    BY <1>1, Invariance, PTL

\* Behind every node's row is a token that spent a use of an enrollment for its
\* name, and behind the enrollment a member, an invite, or a flow.
THEOREM NodesAreSponsored == Spec => []NodeIsSponsored
  <1>1. EnrollInv => NodeIsSponsored
    BY DEF EnrollInv, NodeIsSponsored, RowSponsored, Sponsored
  <1> QED
    BY <1>1, Invariance, PTL

\* Whoever claims a network that has members, and is none of them, gets no role.
THEOREM LateClaimsAreRefused == Spec => []LateClaimRefused
  <1>1. EnrollInv => LateClaimRefused
    BY DEF EnrollInv, InStage, Stage, ClaimStage, LateClaimRefused
  <1> QED
    BY <1>1, Invariance, PTL
=============================================================================
