----------------------------- MODULE RelayProofs -----------------------------
(***************************************************************************)
(* Proofs about the relay.  RelayLink: whatever the connections of the     *)
(* agent, timeouts and late back-connections do, the hand-over of a        *)
(* back-connection is safe, the registry does not leak, and a message that *)
(* a live connection has accepted is not lost.  AccessEvents: whatever     *)
(* streams, watchers, publishers and restarts do, a stream loses no        *)
(* revocation that it had room for, brings none twice, and no valid grant  *)
(* is dropped.                                                             *)
(***************************************************************************)
EXTENDS RelayLink, AccessEvents, TLAPS

-----------------------------------------------------------------------------
(* The inductive invariant                                                 *)

\* While the entry of a session is in the registry, or is not there yet, its
\* channel is new and nobody is about to send on it.
EntryIsFresh ==
  \A s \in SSHSessions : s \in waits \/ ssh[s] = "idle" =>
    backCh[s] = "empty" /\ back[s] # "taken"

\* Send finds connections that have been registered: the agent will not dial
\* them, nor their handlers register them, again.
RouteWasDialled ==
  /\ hub # NoConn => conn[hub] \notin {"none", "accepted"}
  /\ \A s \in SSHSessions :
       /\ via[s] # NoConn => conn[via[s]] \notin {"none", "accepted"}
       /\ ssh[s] \in {"post", "wait"} => via[s] # NoConn

RelayInv ==
  /\ TypeOK /\ WaitsAreLive /\ EntryIsFresh /\ HandOverIsSafe
  /\ RouteWasDialled /\ AcceptedNotLost

-----------------------------------------------------------------------------
(* Sequences as channels                                                   *)

\* What is appended is added to what the channel holds, at its end.
LEMMA AppendHolds ==
  ASSUME NEW T, NEW q \in Seq(T), NEW e \in T
  PROVE  /\ Append(q, e) \in Seq(T) /\ Len(Append(q, e)) = Len(q) + 1
         /\ DOMAIN Append(q, e) = 1 .. Len(q) + 1 /\ Len(q) \in Nat
         /\ \A i \in 1 .. Len(q) : Append(q, e)[i] = q[i]
         /\ Append(q, e)[Len(q) + 1] = e
         /\ ToSet(Append(q, e)) = ToSet(q) \cup {e}
  <1>1. /\ Append(q, e) \in Seq(T) /\ Len(Append(q, e)) = Len(q) + 1
        /\ DOMAIN Append(q, e) = 1 .. Len(q) + 1 /\ Len(q) \in Nat
        /\ DOMAIN q = 1 .. Len(q)
    OBVIOUS
  <1>2. \A i \in 1 .. Len(q) : Append(q, e)[i] = q[i]
    OBVIOUS
  <1>3. Append(q, e)[Len(q) + 1] = e
    OBVIOUS
  <1>4. ASSUME NEW x \in ToSet(Append(q, e))
        PROVE  x \in ToSet(q) \cup {e}
    <2>1. PICK i \in 1 .. Len(q) + 1 : x = Append(q, e)[i]
      BY <1>1 DEF ToSet
    <2> QED
      BY <1>1, <1>2, <1>3, <2>1 DEF ToSet
  <1>5. ASSUME NEW x \in ToSet(q) \cup {e}
        PROVE  x \in ToSet(Append(q, e))
    BY <1>1, <1>2, <1>3 DEF ToSet
  <1> QED
    BY <1>1, <1>2, <1>3, <1>4, <1>5

\* What is taken from a channel is its first element; the rest stays in order.
LEMMA TailHolds ==
  ASSUME NEW T, NEW q \in Seq(T), q # <<>>
  PROVE  /\ Head(q) \in T /\ Head(q) = q[1] /\ Tail(q) \in Seq(T)
         /\ Len(q) \in Nat \ {0} /\ Len(Tail(q)) = Len(q) - 1
         /\ DOMAIN q = 1 .. Len(q) /\ DOMAIN Tail(q) = 1 .. Len(q) - 1
         /\ \A i \in 1 .. Len(q) - 1 : Tail(q)[i] = q[i + 1]
         /\ ToSet(q) = {Head(q)} \cup ToSet(Tail(q))
         /\ ToSet(q) \subseteq T
  <1>1. /\ Head(q) \in T /\ Head(q) = q[1] /\ Tail(q) \in Seq(T)
        /\ Len(q) \in Nat \ {0} /\ Len(Tail(q)) = Len(q) - 1
        /\ DOMAIN q = 1 .. Len(q) /\ DOMAIN Tail(q) = 1 .. Len(q) - 1
    OBVIOUS
  <1>2. \A i \in 1 .. Len(q) - 1 : Tail(q)[i] = q[i + 1]
    OBVIOUS
  <1>3. ASSUME NEW i \in 1 .. Len(q) PROVE q[i] \in {Head(q)} \cup ToSet(Tail(q))
    <2>1. CASE i = 1
      BY <1>1, <2>1
    <2>2. CASE i # 1
      <3>1. i - 1 \in DOMAIN Tail(q) /\ Tail(q)[i - 1] = q[i]
        BY <1>1, <1>2, <2>2
      <3>2. Tail(q)[i - 1] \in ToSet(Tail(q))
        BY <3>1, Zenon DEF ToSet
      <3> QED
        BY <3>1, <3>2
    <2> QED
      BY <2>1, <2>2
  <1>4. ASSUME NEW i \in DOMAIN Tail(q) PROVE Tail(q)[i] \in ToSet(q)
    <2>1. i + 1 \in DOMAIN q /\ Tail(q)[i] = q[i + 1]
      BY <1>1, <1>2
    <2> QED
      BY <2>1, Zenon DEF ToSet
  <1>5. Head(q) \in ToSet(q)
    BY <1>1 DEF ToSet
  <1>6. ToSet(q) \subseteq T
    BY DEF ToSet
  <1> QED
    BY <1>1, <1>2, <1>3, <1>4, <1>5, <1>6 DEF ToSet

-----------------------------------------------------------------------------
(* The message channels                                                    *)

\* A message that is queued below the capacity keeps the channel's type.
LEMMA AppendBounded ==
  ASSUME NEW q \in Seq(SSHSessions), NEW s \in SSHSessions, Len(q) < HubBuf
  PROVE  Append(q, s) \in Seq(SSHSessions) /\ Len(Append(q, s)) <= HubBuf
  BY HubBufAssumption

\* A message that is taken leaves a shorter channel.
LEMMA TailBounded ==
  ASSUME NEW q \in Seq(SSHSessions), q # <<>>, Len(q) <= HubBuf
  PROVE  /\ Head(q) \in SSHSessions
         /\ Tail(q) \in Seq(SSHSessions) /\ Len(Tail(q)) <= HubBuf
  BY HubBufAssumption

-----------------------------------------------------------------------------
(* The steps                                                               *)

\* What a session has queued stays queued, or the agent gets it.
LEMMA QueueKept ==
  ASSUME RelayInv, agent' = agent, conn' = conn, via' = via, ssh' = ssh,
         NEW c \in Conns, NEW t \in SSHSessions,
         msgCh' = [msgCh EXCEPT ![c] = Tail(@)], msgCh[c] # <<>>, t = Head(msgCh[c]),
         back' = IF agent = c THEN [back EXCEPT ![t] = "dialing"] ELSE back
  PROVE  AcceptedNotLost'
  <1> SUFFICES ASSUME NEW s \in SSHSessions, ssh[s] = "wait", agent = via[s],
                      conn[via[s]] = "open"
               PROVE  s \in ToSet(msgCh'[via[s]]) \/ back'[s] # "none"
    BY DEF AcceptedNotLost
  <1>1. s \in ToSet(msgCh[via[s]]) \/ back[s] # "none"
    BY DEF RelayInv, AcceptedNotLost
  <1>2. msgCh[c] \in Seq(SSHSessions) /\ back \in [SSHSessions ->
           {"none", "dialing", "failed", "refused", "taken", "parked", "closed"}]
    BY DEF RelayInv, TypeOK
  <1>3. ToSet(msgCh[c]) = {t} \cup ToSet(Tail(msgCh[c]))
    BY <1>2, TailHolds
  <1>4. CASE via[s] = c
    BY <1>1, <1>2, <1>3, <1>4 DEF RelayInv, TypeOK
  <1>5. CASE via[s] # c
    BY <1>1, <1>2, <1>5 DEF RelayInv, TypeOK
  <1> QED
    BY <1>4, <1>5

\* The initial state satisfies the invariant.
LEMMA InitInv == RelayInit => RelayInv
  BY NoConnAssumption, HubBufAssumption
  DEF RelayInit, RelayInv, TypeOK, WaitsAreLive, EntryIsFresh, HandOverIsSafe,
      RouteWasDialled, AcceptedNotLost

\* The agent's connections touch neither the registry nor the sessions, and a
\* handler that returns leaves the channels of the others alone.
LEMMA ConnInv ==
  ASSUME RelayInv, NEW c \in Conns,
         AgentLosesConn \/ AgentDials(c) \/ Register(c) \/ HandlerReturns(c)
  PROVE  RelayInv'
  <1> USE NoConnAssumption, HubBufAssumption DEF RelayInv, TypeOK
  <1>1. TypeOK'
    BY DEF AgentLosesConn, AgentDials, Register, HandlerReturns
  <1>2. UNCHANGED <<waits, backCh, ssh, back, via, msgCh>>
    BY DEF AgentLosesConn, AgentDials, Register, HandlerReturns
  <1>3. WaitsAreLive' /\ EntryIsFresh' /\ HandOverIsSafe'
    BY <1>2 DEF WaitsAreLive, EntryIsFresh, HandOverIsSafe
  <1>4. RouteWasDialled'
    BY DEF RouteWasDialled, AgentLosesConn, AgentDials, Register, HandlerReturns, Serving
  <1>5. AcceptedNotLost'
    <2> SUFFICES ASSUME NEW s \in SSHSessions, ssh[s] = "wait", agent' = via[s],
                        conn'[via[s]] = "open"
                 PROVE  s \in ToSet(msgCh[via[s]]) \/ back[s] # "none"
      BY <1>2 DEF AcceptedNotLost
    <2>1. via[s] # NoConn /\ via[s] \in Conns /\ conn[via[s]] \notin {"none", "accepted"}
      BY DEF RouteWasDialled
    <2>2. CASE AgentLosesConn \/ AgentDials(c)
      BY <2>1, <2>2 DEF AgentLosesConn, AgentDials, AcceptedNotLost
    <2>3. CASE Register(c)
      <3>1. CASE via[s] = c
        BY <2>1, <2>3, <3>1 DEF Register
      <3>2. CASE via[s] # c
        BY <2>1, <2>3, <3>2 DEF Register, AcceptedNotLost
      <3> QED
        BY <3>1, <3>2
    <2>4. CASE HandlerReturns(c)
      BY <2>1, <2>4 DEF HandlerReturns, AcceptedNotLost
    <2> QED
      BY <2>2, <2>3, <2>4
  <1> QED
    BY <1>1, <1>3, <1>4, <1>5

\* A message that reaches the agent starts a dial; one that does not was for a
\* connection that is broken at one end.
LEMMA WriteLoopInv ==
  ASSUME RelayInv, NEW c \in Conns, WriteLoop(c) \/ WriteFails(c)
  PROVE  RelayInv'
  <1> USE DEF RelayInv
  <1>1. /\ msgCh[c] \in Seq(SSHSessions) /\ Len(msgCh[c]) <= HubBuf
        /\ msgCh[c] # <<>> /\ conn[c] = "open"
        /\ msgCh' = [msgCh EXCEPT ![c] = Tail(@)]
        /\ UNCHANGED <<agent, hub, via, waits, backCh, ssh>>
    BY DEF TypeOK, WriteLoop, WriteFails
  <1>2. /\ Head(msgCh[c]) \in SSHSessions
        /\ Tail(msgCh[c]) \in Seq(SSHSessions) /\ Len(Tail(msgCh[c])) <= HubBuf
    BY <1>1, TailBounded
  <1>3. back' \in {back, [back EXCEPT ![Head(msgCh[c])] = "dialing"]}
    BY DEF WriteLoop, WriteFails
  <1>4. conn' \in {conn, [conn EXCEPT ![c] = "mute"]}
    BY DEF WriteLoop, WriteFails
  <1>5. TypeOK'
    BY <1>1, <1>2, <1>3, <1>4 DEF TypeOK
  <1>6. WaitsAreLive' /\ EntryIsFresh' /\ HandOverIsSafe'
    BY <1>1, <1>2, <1>3 DEF WaitsAreLive, EntryIsFresh, HandOverIsSafe, TypeOK
  <1>7. RouteWasDialled'
    BY <1>1, <1>4 DEF RouteWasDialled, TypeOK
  <1>8. AcceptedNotLost'
    <2>1. CASE WriteLoop(c)
      BY <1>1, <1>2, <2>1, QueueKept DEF WriteLoop
    <2>2. CASE WriteFails(c)
      <3> SUFFICES ASSUME NEW s \in SSHSessions, ssh[s] = "wait", agent = via[s],
                          conn'[via[s]] = "open"
                   PROVE  s \in ToSet(msgCh'[via[s]]) \/ back'[s] # "none"
        BY <1>1 DEF AcceptedNotLost
      <3>1. via[s] # c
        BY <1>1, <2>2 DEF WriteFails, TypeOK
      <3>2. conn'[via[s]] = conn[via[s]] /\ msgCh'[via[s]] = msgCh[via[s]] /\ back' = back
        BY <1>1, <2>2, <3>1 DEF WriteFails, TypeOK, RouteWasDialled
      <3> QED
        BY <3>2 DEF AcceptedNotLost
    <2> QED
      BY <2>1, <2>2
  <1> QED
    BY <1>5, <1>6, <1>7, <1>8

\* Send queues its message only if there is room, on the channel it has found.
LEMMA SendInv ==
  ASSUME RelayInv, NEW s \in SSHSessions, FindRoute(s) \/ Post(s)
  PROVE  RelayInv'
  <1> USE NoConnAssumption DEF RelayInv, SessionAt
  <1>1. CASE FindRoute(s)
    <2>1. TypeOK'
      BY <1>1 DEF FindRoute, TypeOK
    <2>2. WaitsAreLive' /\ EntryIsFresh' /\ HandOverIsSafe' /\ RouteWasDialled'
      BY <1>1 DEF FindRoute, WaitsAreLive, EntryIsFresh, HandOverIsSafe, TypeOK, RouteWasDialled
    <2>3. AcceptedNotLost'
      BY <1>1 DEF FindRoute, AcceptedNotLost, TypeOK
    <2> QED
      BY <2>1, <2>2, <2>3
  <1>2. CASE Post(s)
    <2>1. /\ via[s] \in Conns /\ msgCh[via[s]] \in Seq(SSHSessions) /\ ssh[s] = "post"
          /\ UNCHANGED <<agent, conn, hub, via, waits, backCh, back>>
          /\ ssh \in [SSHSessions -> {"idle", "send", "post", "wait", "bridged", "cancel", "ended"}]
      BY <1>2 DEF Post, TypeOK, RouteWasDialled
    <2>2. CASE Len(msgCh[via[s]]) < HubBuf
      <3>1. /\ msgCh' = [msgCh EXCEPT ![via[s]] = Append(@, s)]
            /\ ssh' = [ssh EXCEPT ![s] = "wait"]
        BY <1>2, <2>2 DEF Post
      <3>2. /\ Append(msgCh[via[s]], s) \in Seq(SSHSessions)
            /\ Len(Append(msgCh[via[s]], s)) <= HubBuf
        BY <2>1, <2>2, AppendBounded
      <3>3. ToSet(Append(msgCh[via[s]], s)) = ToSet(msgCh[via[s]]) \cup {s}
        BY <2>1, AppendHolds
      <3>4. TypeOK'
        BY <2>1, <3>1, <3>2 DEF TypeOK
      <3>5. WaitsAreLive' /\ EntryIsFresh' /\ HandOverIsSafe' /\ RouteWasDialled'
        BY <2>1, <3>1 DEF WaitsAreLive, EntryIsFresh, HandOverIsSafe, RouteWasDialled
      <3>6. AcceptedNotLost'
        <4> SUFFICES ASSUME NEW t \in SSHSessions, ssh'[t] = "wait", agent = via[t],
                            conn[via[t]] = "open"
                     PROVE  t \in ToSet(msgCh'[via[t]]) \/ back[t] # "none"
          BY <2>1 DEF AcceptedNotLost
        <4>1. msgCh \in [Conns -> Seq(SSHSessions)] /\ via[t] \in Conns \cup {NoConn}
          BY DEF TypeOK
        <4>2. CASE t = s
          BY <2>1, <3>1, <3>3, <4>1, <4>2
        <4>3. CASE t # s
          <5>1. t \in ToSet(msgCh[via[t]]) \/ back[t] # "none"
            BY <2>1, <3>1, <4>3 DEF AcceptedNotLost
          <5>2. via[t] # via[s] => msgCh'[via[t]] = msgCh[via[t]]
            BY <2>1, <3>1, <4>1, <4>3, RouteWasDialled DEF RouteWasDialled
          <5> QED
            BY <2>1, <3>1, <3>3, <4>1, <5>1, <5>2
        <4> QED
          BY <4>2, <4>3
      <3> QED
        BY <3>4, <3>5, <3>6
    <2>3. CASE ~(Len(msgCh[via[s]]) < HubBuf)
      <3>1. UNCHANGED msgCh /\ ssh' = [ssh EXCEPT ![s] = "cancel"]
        BY <1>2, <2>3 DEF Post
      <3>2. TypeOK'
        BY <2>1, <3>1 DEF TypeOK
      <3>3. WaitsAreLive' /\ EntryIsFresh' /\ HandOverIsSafe' /\ RouteWasDialled'
        BY <2>1, <3>1 DEF WaitsAreLive, EntryIsFresh, HandOverIsSafe, RouteWasDialled
      <3>4. AcceptedNotLost'
        BY <2>1, <3>1 DEF AcceptedNotLost
      <3> QED
        BY <3>2, <3>3, <3>4
    <2> QED
      BY <2>2, <2>3
  <1> QED
    BY <1>1, <1>2

\* The other steps of an SSH session and of its back-connection.
LEMMA SessionInv ==
  ASSUME RelayInv, NEW s \in SSHSessions,
         \/ Expect(s) \/ ReceiveBackConn(s) \/ TimesOut(s) \/ BridgeEnds(s)
         \/ Cancel(s) \/ BackStep(s) \/ NodeCloses(s)
  PROVE  RelayInv'
  <1> USE DEF RelayInv, SessionAt, BackAt
  <1>0. /\ UNCHANGED <<agent, conn, hub, msgCh, via>>
        /\ \A t \in SSHSessions : /\ ssh'[t] \in {"post", "wait"} => ssh[t] = ssh'[t]
                                  /\ back[t] # "none" => back'[t] # "none"
    BY DEF Expect, ReceiveBackConn, TimesOut, BridgeEnds, Cancel, BackStep, DialFails,
           TakeWaiter, HandOver, NodeCloses, TypeOK
  <1>9. RouteWasDialled' /\ AcceptedNotLost'
    BY <1>0 DEF RouteWasDialled, AcceptedNotLost
  <1>1. CASE Expect(s)
    BY <1>9, <1>1 DEF Expect, TypeOK, WaitsAreLive, EntryIsFresh,
                HandOverIsSafe
  <1>2. CASE ReceiveBackConn(s)
    BY <1>9, <1>2 DEF ReceiveBackConn, TypeOK, WaitsAreLive, EntryIsFresh, HandOverIsSafe
  <1>3. CASE TimesOut(s)
    BY <1>9, <1>3 DEF TimesOut, TypeOK, WaitsAreLive, EntryIsFresh,
                HandOverIsSafe
  <1>4. CASE BridgeEnds(s)
    BY <1>9, <1>4 DEF BridgeEnds, TypeOK, WaitsAreLive, EntryIsFresh,
                HandOverIsSafe
  <1>5. CASE Cancel(s)
    BY <1>9, <1>5 DEF Cancel, TypeOK, WaitsAreLive, EntryIsFresh,
                HandOverIsSafe
  <1>6. CASE DialFails(s) \/ NodeCloses(s)
    BY <1>9, <1>6 DEF DialFails, NodeCloses, TypeOK, WaitsAreLive, EntryIsFresh, HandOverIsSafe
  <1>7. CASE TakeWaiter(s)
    BY <1>9, <1>7 DEF TakeWaiter, TypeOK, WaitsAreLive, EntryIsFresh,
                HandOverIsSafe
  <1>8. CASE HandOver(s)
    BY <1>9, <1>8 DEF HandOver, TypeOK, WaitsAreLive, EntryIsFresh,
                HandOverIsSafe
  <1> QED
    BY <1>1, <1>2, <1>3, <1>4, <1>5, <1>6, <1>7, <1>8 DEF BackStep

\* Every step keeps the invariant.
LEMMA InvStep == RelayInv /\ [RelayNext]_relayVars => RelayInv'
  <1> SUFFICES ASSUME RelayInv, [RelayNext]_relayVars PROVE RelayInv'
    OBVIOUS
  <1>1. CASE UNCHANGED relayVars
    BY <1>1 DEF relayVars, RelayInv, TypeOK, WaitsAreLive, EntryIsFresh,
                HandOverIsSafe, RouteWasDialled, AcceptedNotLost
  <1>2. CASE AgentLosesConn
    <2>1. Conns # {}
      BY <1>2, NoConnAssumption DEF AgentLosesConn, RelayInv, TypeOK
    <2> QED
      BY <1>2, <2>1, ConnInv
  <1>3. ASSUME NEW c \in Conns,
               AgentDials(c) \/ Register(c) \/ HandlerReturns(c) \/ WriteLoop(c)
               \/ WriteFails(c)
        PROVE  RelayInv'
    BY <1>3, ConnInv, WriteLoopInv
  <1>4. ASSUME NEW s \in SSHSessions,
               Expect(s) \/ SessionStep(s) \/ BridgeEnds(s) \/ BackStep(s) \/ NodeCloses(s)
        PROVE  RelayInv'
    BY <1>4, SendInv, SessionInv DEF SessionStep
  <1> QED
    BY <1>1, <1>2, <1>3, <1>4 DEF RelayNext

-----------------------------------------------------------------------------
(* The theorems                                                            *)

\* The invariant holds in every reachable state.
THEOREM Invariance == RelaySpec => []RelayInv
  BY InitInv, InvStep, PTL DEF RelaySpec

\* Every variable keeps its type; no message channel exceeds its capacity.
THEOREM TypeCorrect == RelaySpec => []TypeOK
  <1>1. RelayInv => TypeOK
    BY DEF RelayInv
  <1> QED
    BY <1>1, Invariance, PTL

\* deliver never sends on a channel that Cancel has closed, or that is full,
\* for any number of sessions, timeouts and reconnections.
THEOREM HandOversAreSafe == RelaySpec => []HandOverIsSafe
  <1>1. RelayInv => HandOverIsSafe
    BY DEF RelayInv
  <1> QED
    BY <1>1, Invariance, PTL

\* The registry of awaited back-connections holds no entry of an ended session.
THEOREM RegistryDoesNotLeak == RelaySpec => []WaitsAreLive
  <1>1. RelayInv => WaitsAreLive
    BY DEF RelayInv
  <1> QED
    BY <1>1, Invariance, PTL

\* What a connection has accepted for the node is not lost while it is up at both
\* ends, however registrations, late returns of older handlers and sends between
\* a lookup and its channel overlap.
THEOREM AcceptedMessagesAreKept == RelaySpec => []AcceptedNotLost
  <1>1. RelayInv => AcceptedNotLost
    BY DEF RelayInv
  <1> QED
    BY <1>1, Invariance, PTL

-----------------------------------------------------------------------------
(* Access events: the inductive invariant                                  *)

Event  == [seq : Nat \ {0}, grant : Grants]
Stream ==
  [pc : {"off", "on", "apply", "prune", "save"}, from : Nat, reset : BOOLEAN,
   replay : SUBSET Event, ch : Seq(Event), current : Event \cup {None},
   remain : SUBSET Grants]
Revocation ==
  [pc : {"idle", "stored", "sending", "done"}, seq : Nat, to : SUBSET Watchers,
   closed : BOOLEAN]

\* The values every variable may take; the buffer and the channels are bounded.
AccessTypeOK ==
  /\ nextSeq \in Nat /\ faults \in Nat
  /\ events \in Seq(Event) /\ Len(events) <= BufferSize
  /\ revoked \subseteq Grants /\ unknown \subseteq Grants
  /\ pub \in [Grants -> Revocation]
  /\ watcher \in [Watchers -> Stream]
  /\ \A w \in Watchers : Len(watcher[w].ch) <= ChanSize
  /\ lastID \in [Watchers -> Nat]
  /\ cached \in [Watchers -> SUBSET Grants]
  /\ torn \in [Watchers -> SUBSET {"grants", "state"}]
  /\ got \in [Watchers -> SUBSET Grants]
  /\ missed \in [Watchers -> SUBSET Grants]

\* A request has a number once it has published, and serves subscribers then.
Requests ==
  \A g \in Grants :
    /\ pub[g].seq <= nextSeq
    /\ pub[g].pc \in {"idle", "stored"} => pub[g].seq = 0
    /\ pub[g].pc # "sending" => pub[g].to = {}
    /\ pub[g].pc = "sending" => pub[g].seq > 0
    /\ pub[g].pc # "idle" => g \in revoked
    /\ g \notin Own => pub[g].to = {}

\* The event of a published grant, as the hub numbered it.
IsEventOf(e) == e.seq = pub[e.grant].seq

\* The events are in the order of their numbers.
Ordered(es) == \A i, j \in DOMAIN es : i < j => es[i].seq < es[j].seq

\* The buffer is in that order and holds the newest events.
Buffer ==
  /\ nextSeq > 0 => events # <<>>
  /\ Ordered(events)
  /\ \A e \in ToSet(events) : IsEventOf(e)
  /\ \A g \in Grants : pub[g].seq > 0 =>
       \/ [seq |-> pub[g].seq, grant |-> g] \in ToSet(events)
       \/ g \in Evicted

\* What a stream carries are events of its network; a watcher without a stream
\* has no subscription that a publisher might hold.
StreamOK(w) ==
  LET s == watcher[w] IN
  /\ s.pc = "apply" <=> s.current # None
  /\ ~Online(w) => s = NoStream /\ \A g \in Grants : w \notin pub[g].to
  /\ \A e \in s.replay \cup ToSet(s.ch) \cup ({s.current} \ {None}) :
       IsEventOf(e) /\ e.grant \in Own
  /\ Online(w) => \A g \in got[w] : pub[g].seq > 0

\* The valid grants are in the file, and in what a prune is about to write.
CacheOK(w) ==
  LET valid == Grants \ (revoked \cup unknown) IN
  /\ "grants" \in torn[w] \/ valid \subseteq cached[w]
  /\ watcher[w].pc = "save" =>
       /\ watcher[w].remain \subseteq cached[w]
       /\ "grants" \in torn[w] \/ valid \subseteq watcher[w].remain

WatcherInv(w) ==
  /\ StreamOK(w) /\ CacheOK(w)
  /\ Online(w) => NothingLost(w) /\ NothingTwice(w)

AccessInv ==
  AccessTypeOK /\ Requests /\ Buffer /\ \A w \in Watchers : WatcherInv(w)

-----------------------------------------------------------------------------
(* Channels in the order of their events                                   *)

\* An event with a number above all others goes to the end of the order.
LEMMA AppendOrdered ==
  ASSUME NEW es \in Seq(Event), NEW e \in Event, Ordered(es),
         \A f \in ToSet(es) : f.seq < e.seq
  PROVE  Ordered(Append(es, e))
  <1>1. /\ DOMAIN Append(es, e) = 1 .. Len(es) + 1 /\ Len(es) \in Nat
        /\ \A i \in 1 .. Len(es) : Append(es, e)[i] = es[i]
        /\ Append(es, e)[Len(es) + 1] = e /\ DOMAIN es = 1 .. Len(es)
    BY AppendHolds
  <1>2. \A i \in 1 .. Len(es) : es[i].seq < e.seq
    BY <1>1 DEF ToSet
  <1> SUFFICES ASSUME NEW i \in 1 .. Len(es) + 1, NEW j \in 1 .. Len(es) + 1, i < j
               PROVE  Append(es, e)[i].seq < Append(es, e)[j].seq
    BY <1>1 DEF Ordered
  <1>3. i \in 1 .. Len(es)
    BY <1>1
  <1>4. CASE j = Len(es) + 1
    BY <1>1, <1>2, <1>3, <1>4
  <1>5. CASE j \in 1 .. Len(es)
    BY <1>1, <1>3, <1>5 DEF Ordered
  <1> QED
    BY <1>1, <1>4, <1>5

\* What follows the first event is in order too, and above it.
LEMMA TailOrdered ==
  ASSUME NEW es \in Seq(Event), es # <<>>, Ordered(es)
  PROVE  Ordered(Tail(es)) /\ \A e \in ToSet(Tail(es)) : Head(es).seq < e.seq
  <1>1. /\ Head(es) = es[1] /\ Len(es) \in Nat \ {0} /\ DOMAIN es = 1 .. Len(es)
        /\ DOMAIN Tail(es) = 1 .. Len(es) - 1
        /\ \A i \in 1 .. Len(es) - 1 : Tail(es)[i] = es[i + 1]
    BY TailHolds
  <1>2. Ordered(Tail(es))
    <2> SUFFICES ASSUME NEW i \in 1 .. Len(es) - 1, NEW j \in 1 .. Len(es) - 1, i < j
                 PROVE  Tail(es)[i].seq < Tail(es)[j].seq
      BY <1>1 DEF Ordered
    <2>1. i + 1 \in DOMAIN es /\ j + 1 \in DOMAIN es /\ i + 1 < j + 1
      BY <1>1
    <2> QED
      BY <1>1, <2>1 DEF Ordered
  <1>3. ASSUME NEW e \in ToSet(Tail(es)) PROVE Head(es).seq < e.seq
    <2>1. PICK i \in 1 .. Len(es) - 1 : e = Tail(es)[i]
      BY <1>1 DEF ToSet
    <2>2. 1 \in DOMAIN es /\ i + 1 \in DOMAIN es /\ 1 < i + 1
      BY <1>1
    <2> QED
      BY <1>1, <2>1, <2>2 DEF Ordered
  <1> QED
    BY <1>2, <1>3

\* What a channel holds is what may be sent on it.
LEMMA HeldType ==
  ASSUME NEW T, NEW q \in Seq(T)
  PROVE  ToSet(q) \subseteq T
  BY DEF ToSet

\* The empty channel holds nothing.
LEMMA EmptyHolds == ToSet(<<>>) = {}
  BY DEF ToSet

\* The head of the trimmed buffer and what it keeps: everything, or everything
\* but the first event.
LEMMA TrimmedHolds ==
  ASSUME NEW es \in Seq(Event), Len(es) <= BufferSize + 1
  PROVE  /\ Trimmed(es) \in Seq(Event) /\ Len(Trimmed(es)) <= BufferSize
         /\ \/ Trimmed(es) = es
            \/ Len(es) > 1 /\ Trimmed(es) = Tail(es)
  <1>1. CASE Len(es) > BufferSize
    <2>1. es # <<>> /\ Len(es) = BufferSize + 1
      BY <1>1, SizesAssumption
    <2>2. Tail(es) \in Seq(Event) /\ Len(Tail(es)) = BufferSize
      BY <2>1, TailHolds, SizesAssumption
    <2> QED
      BY <1>1, <2>1, <2>2, SizesAssumption DEF Trimmed
  <1>2. CASE ~(Len(es) > BufferSize)
    BY <1>2, SizesAssumption DEF Trimmed
  <1> QED
    BY <1>1, <1>2

-----------------------------------------------------------------------------
(* Type correctness                                                        *)

\* The initial state satisfies the invariant.
LEMMA AccessInitInv == AccessInit => AccessInv
  <1> SUFFICES ASSUME AccessInit PROVE AccessInv
    OBVIOUS
  <1> USE NoneAssumption, SizesAssumption
      DEF AccessInit, NoStream, Idle, None, Own, Online, Event
  <1>1. AccessTypeOK
    BY DEF AccessTypeOK, Stream, Revocation
  <1>2. Requests /\ Buffer
    BY EmptyHolds DEF Requests, Buffer, Evicted, Ordered
  <1>3. \A w \in Watchers : WatcherInv(w)
    BY EmptyHolds DEF WatcherInv, StreamOK, CacheOK
  <1> QED
    BY <1>1, <1>2, <1>3 DEF AccessInv

\* A stream as the hub opens it.
LEMMA OpenedType ==
  ASSUME AccessTypeOK, NEW w \in Watchers
  PROVE  /\ Since(lastID[w]) \subseteq Event
         /\ Opened(w) \in [Watchers -> Stream]
         /\ Opened(w)[w].pc = "on" /\ Opened(w)[w].from = lastID[w]
         /\ Opened(w)[w].replay = Since(lastID[w]) /\ Opened(w)[w].ch = <<>>
         /\ Opened(w)[w].current = None
         /\ lastID[w] > 0 /\ events # <<>> /\ Head(events).seq > lastID[w] + 1
              => Opened(w)[w].reset
         /\ \A v \in Watchers \ {w} : Opened(w)[v] = watcher[v]
  <1>1. Since(lastID[w]) \subseteq Event
    BY DEF Since, ToSet, AccessTypeOK
  <1>2. /\ lastID[w] \in Nat /\ watcher \in [Watchers -> Stream]
        /\ Since(lastID[w]) \subseteq Event
    BY <1>1 DEF AccessTypeOK
  <1> DEFINE late == lastID[w] > 0 /\ events # <<>> /\ Head(events).seq > lastID[w] + 1
             opened == [NoStream EXCEPT !.pc = "on", !.from = lastID[w],
                          !.replay = Since(lastID[w]), !.reset = late]
  <1>3. Opened(w) = [watcher EXCEPT ![w] = opened]
    BY Zenon DEF Opened
  <1>4. late \in BOOLEAN
    OBVIOUS
  <1>5. <<>> \in Seq(Event) /\ None \in Event \cup {None} /\ 0 \in Nat
    OBVIOUS
  <1>6. /\ opened \in Stream
        /\ opened.pc = "on" /\ opened.from = lastID[w] /\ opened.ch = <<>>
        /\ opened.replay = Since(lastID[w]) /\ opened.current = None /\ opened.reset = late
    <2> HIDE DEF late
    <2> QED
      BY <1>2, <1>4, <1>5 DEF NoStream, Stream
  <1> HIDE DEF opened
  <1>7. Opened(w) \in [Watchers -> Stream] /\ Opened(w)[w] = opened
        /\ \A v \in Watchers \ {w} : Opened(w)[v] = watcher[v]
    BY <1>2, <1>3, <1>6
  <1> QED
    BY <1>1, <1>6, <1>7

\* A request after its steps is a request.
LEMMA RevocationUpdates ==
  ASSUME NEW r \in Revocation, NEW w
  PROVE  /\ [r EXCEPT !.pc = "stored"] \in Revocation
         /\ [r EXCEPT !.pc = "done"] \in Revocation
         /\ [[r EXCEPT !.pc = "done"] EXCEPT !.to = {}] \in Revocation
         /\ [r EXCEPT !.to = @ \ {w}] \in Revocation
         /\ [r EXCEPT !.to = @ \ {w}, !.closed = TRUE] \in Revocation
  BY DEF Revocation

\* A stream with another channel is a stream.
LEMMA ChannelUpdate ==
  ASSUME NEW s \in Stream, NEW ch \in Seq(Event)
  PROVE  LET r == [s EXCEPT !.ch = ch] IN r \in Stream /\ r.ch = ch
  BY DEF Stream

\* A stream after the other steps is a stream, with the channel it had.
LEMMA StreamUpdates ==
  ASSUME NEW s \in Stream, NEW e \in Event \cup {None}, NEW keep \in SUBSET Grants
  PROVE  /\ LET r == [s EXCEPT !.pc = "prune", !.reset = FALSE] IN r \in Stream /\ r.ch = s.ch
         /\ LET r == [s EXCEPT !.pc = "apply", !.current = e] IN r \in Stream /\ r.ch = s.ch
         /\ LET r == [s EXCEPT !.replay = @ \ {e}] IN r \in Stream /\ r.ch = s.ch
         /\ LET r == [s EXCEPT !.pc = "save", !.remain = keep] IN r \in Stream /\ r.ch = s.ch
         /\ LET r == [s EXCEPT !.pc = "on", !.current = None, !.remain = {}]
            IN  r \in Stream /\ r.ch = s.ch
  BY DEF Stream

\* Every step keeps the types and the bounds.
LEMMA AccessTypeStep == AccessInv /\ AccessNext => AccessTypeOK'
  <1> SUFFICES ASSUME AccessInv, AccessNext PROVE AccessTypeOK'
    OBVIOUS
  <1> USE SizesAssumption
  <1>0. /\ AccessTypeOK /\ Requests
        /\ \A g \in Grants : pub[g] \in Revocation
        /\ \A w \in Watchers : watcher[w] \in Stream /\ Len(watcher[w].ch) <= ChanSize
    BY DEF AccessInv, AccessTypeOK
  <1>1. ASSUME NEW g \in Grants, Revoke(g) PROVE AccessTypeOK'
    <2>1. pub' = [pub EXCEPT ![g] = [pub[g] EXCEPT !.pc = "stored"]]
      BY <1>1, Zenon DEF Revoke
    <2>2. [pub[g] EXCEPT !.pc = "stored"] \in Revocation
      BY <1>0, RevocationUpdates
    <2> QED
      BY <1>0, <1>1, <2>1, <2>2 DEF AccessTypeOK, Revoke
  <1>2. ASSUME NEW g \in Grants, Publish(g) PROVE AccessTypeOK'
    <2> DEFINE e == [seq |-> nextSeq + 1, grant |-> g]
    <2>1. e \in Event
      BY <1>0 DEF AccessTypeOK, Event
    <2>2. Append(events, e) \in Seq(Event) /\ Len(Append(events, e)) <= BufferSize + 1
      BY <1>0, <2>1 DEF AccessTypeOK
    <2>3. events' = Trimmed(Append(events, e))
      BY <1>2 DEF Publish
    <2> HIDE DEF e
    <2>4. events' \in Seq(Event) /\ Len(events') <= BufferSize
      BY <2>2, <2>3, TrimmedHolds
    <2> QED
      BY <1>0, <1>2, <2>4 DEF AccessTypeOK, Publish, Revocation
  <1>3. ASSUME NEW g \in Grants, NEW w \in Watchers, Deliver(g, w) PROVE AccessTypeOK'
    <2> DEFINE e == [seq |-> pub[g].seq, grant |-> g]
    <2>1. e \in Event
      BY <1>0, <1>3 DEF Event, Deliver, Requests, Revocation
    <2>2. watcher[w].ch \in Seq(Event) /\ Len(watcher[w].ch) \in Nat
      BY <1>0 DEF Stream
    <2>3. pub' \in [Grants -> Revocation]
      <3>1. [pub[g] EXCEPT !.to = @ \ {w}] \in Revocation
        BY <1>0, RevocationUpdates
      <3>2. pub' = [pub EXCEPT ![g] = [pub[g] EXCEPT !.to = @ \ {w}]]
        BY <1>3, Zenon DEF Deliver
      <3> QED
        BY <1>0, <3>1, <3>2 DEF AccessTypeOK
    <2>4. CASE Len(watcher[w].ch) < ChanSize
      <3> HIDE DEF e
      <3>0. /\ Append(watcher[w].ch, e) \in Seq(Event)
            /\ Len(Append(watcher[w].ch, e)) <= ChanSize
        BY <2>1, <2>2, <2>4, AppendHolds
      <3>1. PICK ch \in Seq(Event) : ch = Append(watcher[w].ch, e) /\ Len(ch) <= ChanSize
        BY <3>0, Zenon
      <3>2. watcher' = [watcher EXCEPT ![w] = [watcher[w] EXCEPT !.ch = ch]] /\ missed' = missed
        BY <1>3, <2>4, <3>1, Zenon DEF Deliver, e
      <3>3. LET r == [watcher[w] EXCEPT !.ch = ch] IN r \in Stream /\ r.ch = ch
        <4>1. watcher[w] \in Stream /\ ch \in Seq(Event)
          BY <1>0
        <4> QED
          BY <4>1, ChannelUpdate, Zenon
      <3>4. watcher' \in [Watchers -> Stream] /\ \A v \in Watchers : Len(watcher'[v].ch) <= ChanSize
        BY <1>0, <3>1, <3>2, <3>3 DEF AccessTypeOK
      <3> QED
        BY <1>0, <1>3, <2>3, <3>2, <3>4 DEF AccessTypeOK, Deliver
    <2>5. CASE ~(Len(watcher[w].ch) < ChanSize)
      <3>1. watcher' = watcher /\ missed' \in [Watchers -> SUBSET Grants]
        <4>1. missed' = [missed EXCEPT ![w] = missed[w] \cup {g}] /\ watcher' = watcher
          BY <1>3, <2>5, Zenon DEF Deliver
        <4> QED
          BY <1>0, <4>1 DEF AccessTypeOK
      <3> QED
        BY <1>0, <1>3, <2>3, <3>1 DEF AccessTypeOK, Deliver
    <2> QED
      BY <2>4, <2>5
  <1>4. ASSUME NEW g \in Grants, SendOnClosed(g) \/ PublishEnds(g) PROVE AccessTypeOK'
    <2>1. CASE SendOnClosed(g)
      <3>1. [[pub[g] EXCEPT !.pc = "done"] EXCEPT !.to = {}] \in Revocation
        BY <1>0, RevocationUpdates
      <3>2. pub' \in [Grants -> Revocation]
        <4>1. pub' = [pub EXCEPT ![g] = [[pub[g] EXCEPT !.pc = "done"] EXCEPT !.to = {}]]
          BY <2>1, Zenon DEF SendOnClosed
        <4> QED
          BY <1>0, <3>1, <4>1 DEF AccessTypeOK
      <3>3. missed' \in [Watchers -> SUBSET Grants]
        BY <1>0, <2>1 DEF AccessTypeOK, SendOnClosed
      <3> QED
        BY <1>0, <2>1, <3>2, <3>3 DEF AccessTypeOK, SendOnClosed
    <2>2. CASE PublishEnds(g)
      <3>1. pub' = [pub EXCEPT ![g] = [pub[g] EXCEPT !.pc = "done"]]
        BY <2>2, Zenon DEF PublishEnds
      <3>2. [pub[g] EXCEPT !.pc = "done"] \in Revocation
        BY <1>0, RevocationUpdates
      <3> QED
        BY <1>0, <2>2, <3>1, <3>2 DEF AccessTypeOK, PublishEnds
    <2> QED
      BY <1>4, <2>1, <2>2
  <1>5. ASSUME NEW w \in Watchers, Connect(w) PROVE AccessTypeOK'
    <2>1. watcher' = Opened(w)
      BY <1>5 DEF Connect
    <2>2. watcher' \in [Watchers -> Stream] /\ \A v \in Watchers : Len(watcher'[v].ch) <= ChanSize
      <3>1. Opened(w) \in [Watchers -> Stream] /\ Opened(w)[w].ch = <<>>
            /\ \A v \in Watchers \ {w} : Opened(w)[v] = watcher[v]
        BY <1>0, OpenedType
      <3>2. Len(<<>>) <= ChanSize
        OBVIOUS
      <3>3. ASSUME NEW v \in Watchers PROVE Len(Opened(w)[v].ch) <= ChanSize
        BY <1>0, <3>1, <3>2
      <3> QED
        BY <2>1, <3>1, <3>3
    <2>3. missed' \in [Watchers -> SUBSET Grants] /\ got' \in [Watchers -> SUBSET Grants]
      BY <1>0, <1>5 DEF AccessTypeOK, Connect, Evicted
    <2> QED
      BY <1>0, <1>5, <2>2, <2>3 DEF AccessTypeOK, Connect
  <1>6. ASSUME NEW w \in Watchers, TakeReset(w) PROVE AccessTypeOK'
    <2>1. LET r == [watcher[w] EXCEPT !.pc = "prune", !.reset = FALSE]
          IN  r \in Stream /\ r.ch = watcher[w].ch
      <3>1. watcher[w] \in Stream /\ {} \in SUBSET Grants
        BY <1>0
      <3> QED
        BY <3>1, StreamUpdates, Zenon
    <2>2. watcher' = [watcher EXCEPT ![w] = [watcher[w] EXCEPT !.pc = "prune", !.reset = FALSE]]
      BY <1>6, Zenon DEF TakeReset
    <2>3. watcher' \in [Watchers -> Stream] /\ \A v \in Watchers : Len(watcher'[v].ch) <= ChanSize
      BY <1>0, <2>1, <2>2 DEF AccessTypeOK
    <2> QED
      BY <1>0, <1>6, <2>3 DEF AccessTypeOK, TakeReset
  <1>7. ASSUME NEW w \in Watchers, NEW e \in Event, NEW rest \in Stream, Take(w, e, rest),
               Len(rest.ch) <= ChanSize
        PROVE  AccessTypeOK'
    <2>1. LET r == [rest EXCEPT !.pc = "apply", !.current = e]
          IN  r \in Stream /\ r.ch = rest.ch
      <3>1. {} \in SUBSET Grants /\ e \in Event \cup {None}
        OBVIOUS
      <3> QED
        BY <3>1, StreamUpdates, Zenon
    <2>2. watcher' = [watcher EXCEPT ![w] = [rest EXCEPT !.pc = "apply", !.current = e]]
      BY <1>7 DEF Take
    <2>3. watcher' \in [Watchers -> Stream] /\ \A v \in Watchers : Len(watcher'[v].ch) <= ChanSize
      BY <1>0, <1>7, <2>1, <2>2 DEF AccessTypeOK
    <2>4. lastID' \in [Watchers -> Nat] /\ got' \in [Watchers -> SUBSET Grants]
      BY <1>0, <1>7 DEF AccessTypeOK, Take, Event
    <2> QED
      BY <1>0, <1>7, <2>3, <2>4 DEF AccessTypeOK, Take
  <1>8. ASSUME NEW w \in Watchers, TakeReplay(w) PROVE AccessTypeOK'
    <2> PICK e \in watcher[w].replay : Take(w, e, [watcher[w] EXCEPT !.replay = @ \ {e}])
      BY <1>8 DEF TakeReplay
    <2>1. e \in Event /\ [watcher[w] EXCEPT !.replay = @ \ {e}] \in Stream
          /\ [watcher[w] EXCEPT !.replay = @ \ {e}].ch = watcher[w].ch
      <3>1. watcher[w] \in Stream /\ {} \in SUBSET Grants /\ e \in Event
        BY <1>0 DEF Stream
      <3> QED
        BY <3>1, StreamUpdates
    <2> QED
      BY <1>0, <1>7, <2>1
  <1>9. ASSUME NEW w \in Watchers, TakeLive(w) PROVE AccessTypeOK'
    <2>1. watcher[w].ch \in Seq(Event) /\ watcher[w].ch # <<>>
      BY <1>0, <1>9 DEF TakeLive, Stream
    <2>2. /\ Head(watcher[w].ch) \in Event /\ Tail(watcher[w].ch) \in Seq(Event)
          /\ Len(Tail(watcher[w].ch)) <= ChanSize
      <3>1. Len(watcher[w].ch) <= ChanSize
        BY <1>0
      <3> QED
        BY <2>1, <3>1, TailHolds
    <2>3. [watcher[w] EXCEPT !.ch = Tail(watcher[w].ch)] \in Stream
          /\ [watcher[w] EXCEPT !.ch = Tail(watcher[w].ch)].ch = Tail(watcher[w].ch)
      <3>1. watcher[w] \in Stream /\ Tail(watcher[w].ch) \in Seq(Event)
        BY <1>0, <2>2
      <3> QED
        BY <3>1, ChannelUpdate, Zenon
    <2>4. Take(w, Head(watcher[w].ch), [watcher[w] EXCEPT !.ch = Tail(watcher[w].ch)])
      BY <1>9 DEF TakeLive
    <2> QED
      BY <1>7, <2>2, <2>3, <2>4
  <1>10. ASSUME NEW w \in Watchers, Apply(w) \/ Prune(w) PROVE AccessTypeOK'
    <2>1. watcher' = Applied(w)
      BY <1>10 DEF Apply, Prune
    <2>2. watcher' \in [Watchers -> Stream] /\ \A v \in Watchers : Len(watcher'[v].ch) <= ChanSize
      <3>1. LET r == [watcher[w] EXCEPT !.pc = "on", !.current = None, !.remain = {}]
            IN  r \in Stream /\ r.ch = watcher[w].ch
        <4>1. watcher[w] \in Stream /\ {} \in SUBSET Grants
          BY <1>0
        <4> QED
          BY <4>1, StreamUpdates, Zenon
      <3>2. watcher' = [watcher EXCEPT ![w] =
                          [watcher[w] EXCEPT !.pc = "on", !.current = None, !.remain = {}]]
        BY <2>1, Zenon DEF Applied
      <3> QED
        BY <1>0, <3>1, <3>2 DEF AccessTypeOK
    <2>3. CASE Apply(w)
      BY <1>0, <2>2, <2>3 DEF AccessTypeOK, Apply
    <2>4. CASE Prune(w)
      <3>1. watcher[w].remain \subseteq Grants
        BY <1>0 DEF Stream
      <3>2. cached' \in [Watchers -> SUBSET Grants]
        BY <1>0, <2>4, <3>1 DEF AccessTypeOK, Prune
      <3> QED
        BY <1>0, <2>2, <2>4, <3>2 DEF AccessTypeOK, Prune
    <2> QED
      BY <1>10, <2>3, <2>4
  <1>13. ASSUME NEW w \in Watchers, LookUp(w) PROVE AccessTypeOK'
    <2>1. PICK failed \in SUBSET (cached[w] \cap (revoked \cup unknown)) :
            /\ missed' = [missed EXCEPT ![w] = @ \cup failed]
            /\ watcher' = [watcher EXCEPT ![w] =
                             [@ EXCEPT !.pc = "save", !.remain = Kept(w, failed)]]
      BY <1>13 DEF LookUp
    <2>2. failed \subseteq Grants /\ Kept(w, failed) \subseteq Grants
      BY <1>0 DEF AccessTypeOK, Kept
    <2>3. missed' \in [Watchers -> SUBSET Grants]
      BY <1>0, <2>1, <2>2 DEF AccessTypeOK
    <2>4. PICK keep \in SUBSET Grants : keep = Kept(w, failed)
      BY <2>2
    <2>5. LET r == [watcher[w] EXCEPT !.pc = "save", !.remain = keep]
          IN  r \in Stream /\ r.ch = watcher[w].ch
      <3>1. watcher[w] \in Stream
        BY <1>0
      <3> QED
        BY <3>1, StreamUpdates, Zenon
    <2>6. watcher' = [watcher EXCEPT ![w] = [watcher[w] EXCEPT !.pc = "save", !.remain = keep]]
      BY <2>1, <2>4, Zenon
    <2>7. watcher' \in [Watchers -> Stream] /\ \A v \in Watchers : Len(watcher'[v].ch) <= ChanSize
      BY <1>0, <2>5, <2>6 DEF AccessTypeOK
    <2> QED
      BY <1>0, <1>13, <2>3, <2>7 DEF AccessTypeOK, LookUp
  <1>14. ASSUME NEW g \in Grants, Lapse(g) PROVE AccessTypeOK'
    BY <1>0, <1>14 DEF AccessTypeOK, Lapse
  <1>11. ASSUME NEW w \in Watchers, StreamBreaks(w) \/ WatcherStops(w) \/ FileFails(w)
         PROVE  AccessTypeOK'
    <2>1. NoStream \in Stream /\ Len(NoStream.ch) = 0
      BY DEF NoStream, Stream
    <2>2. watcher' = [watcher EXCEPT ![w] = NoStream]
      BY <1>11 DEF StreamBreaks, WatcherStops, FileFails
    <2>3. watcher' \in [Watchers -> Stream] /\ \A v \in Watchers : Len(watcher'[v].ch) <= ChanSize
      BY <1>0, <2>1, <2>2, SizesAssumption DEF AccessTypeOK
    <2>4. Cancelled(w) \in [Grants -> Revocation]
      <3>1. ASSUME NEW g \in Grants PROVE Cancelled(w)[g] \in Revocation
        BY <1>0, RevocationUpdates DEF Cancelled
      <3> QED
        BY <3>1 DEF Cancelled
    <2>5. /\ cached' \in [Watchers -> SUBSET Grants] /\ faults' \in Nat
          /\ torn' \in [Watchers -> SUBSET {"grants", "state"}]
      <3>1. CASE StreamBreaks(w) \/ FileFails(w)
        BY <1>0, <3>1 DEF AccessTypeOK, StreamBreaks, FileFails, Fault
      <3>2. CASE WatcherStops(w)
        <4>1. faults' \in Nat
          BY <1>0, <3>2 DEF AccessTypeOK, WatcherStops, Fault
        <4>2. CASE UNCHANGED <<cached, torn>>
          BY <1>0, <4>1, <4>2 DEF AccessTypeOK
        <4>3. ASSUME NEW file \in {"grants", "state"},
                     torn' = [torn EXCEPT ![w] = @ \cup {file}],
                     cached' = IF file = "grants" THEN [cached EXCEPT ![w] = {}] ELSE cached
              PROVE  /\ cached' \in [Watchers -> SUBSET Grants]
                     /\ torn' \in [Watchers -> SUBSET {"grants", "state"}]
          BY <1>0, <4>3 DEF AccessTypeOK
        <4> QED
          BY <3>2, <4>1, <4>2, <4>3 DEF WatcherStops
      <3> QED
        BY <1>11, <3>1, <3>2
    <2>6. /\ pub' = Cancelled(w)
          /\ UNCHANGED <<nextSeq, events, revoked, unknown, lastID, got, missed>>
      BY <1>11 DEF StreamBreaks, WatcherStops, FileFails
    <2> QED
      BY <1>0, <2>3, <2>4, <2>5, <2>6 DEF AccessTypeOK
  <1>12. ASSUME RelayRestarts PROVE AccessTypeOK'
    <2>1. NoStream \in Stream /\ Len(NoStream.ch) = 0
      BY DEF NoStream, Stream
    <2>2. pub' \in [Grants -> Revocation]
      BY <1>0, <1>12 DEF RelayRestarts, Revocation, Idle
    <2>3. watcher' \in [Watchers -> Stream] /\ \A v \in Watchers : Len(watcher'[v].ch) <= ChanSize
      BY <1>12, <2>1 DEF RelayRestarts
    <2>4. events' \in Seq(Event) /\ Len(events') <= BufferSize
      BY <1>12 DEF RelayRestarts
    <2>5. nextSeq' = 0 /\ faults' \in Nat
          /\ UNCHANGED <<revoked, unknown, lastID, cached, torn, got, missed>>
      BY <1>0, <1>12 DEF AccessTypeOK, RelayRestarts, Fault
    <2> QED
      BY <1>0, <2>2, <2>3, <2>4, <2>5 DEF AccessTypeOK
  <1> QED
    BY <1>1, <1>2, <1>3, <1>4, <1>5, <1>6, <1>8, <1>9, <1>10, <1>11, <1>12,
       <1>13, <1>14
    DEF AccessNext, RequestStep, WatcherStep

-----------------------------------------------------------------------------
(* The requests and the buffer                                             *)

\* The buffer's part of the invariant reads the buffer and the numbers only.
LEMMA BufferKept ==
  ASSUME Buffer, UNCHANGED <<events, nextSeq>>, \A g \in Grants : pub'[g].seq = pub[g].seq,
         AccessTypeOK
  PROVE  Buffer'
  <1>1. \A e \in ToSet(events) : e.grant \in Grants
    <2>1. ToSet(events) \subseteq Event
      BY HeldType DEF AccessTypeOK
    <2> QED
      BY <2>1 DEF Event
  <1>2. Evicted' = Evicted
    BY DEF Evicted
  <1> QED
    BY <1>1, <1>2 DEF Buffer, IsEventOf

\* A published event is in its place, and what it drives out is the oldest.
LEMMA PublishBuffer ==
  ASSUME AccessInv, NEW g \in Grants, Publish(g)
  PROVE  Buffer'
  <1> USE DEF AccessInv
  <1> DEFINE e  == [seq |-> nextSeq + 1, grant |-> g]
             es == Append(events, e)
  <1>1. /\ nextSeq \in Nat /\ events \in Seq(Event) /\ Len(events) <= BufferSize
        /\ pub \in [Grants -> Revocation]
        /\ e \in Event /\ e.seq = nextSeq + 1 /\ e.grant = g
    BY DEF AccessTypeOK, Event
  <1>2. /\ events' = Trimmed(es) /\ nextSeq' = nextSeq + 1
        /\ pub[g].pc = "stored" /\ pub[g].seq = 0 /\ pub'[g].seq = nextSeq + 1
        /\ \A h \in Grants \ {g} : pub'[h] = pub[h]
    BY <1>1 DEF Publish, Requests
  <1>3. ASSUME NEW f \in ToSet(events)
        PROVE  /\ f \in Event /\ f.seq <= nextSeq /\ f.grant \in Grants \ {g}
               /\ f.seq = pub'[f.grant].seq
    <2>1. f \in Event /\ f.seq = pub[f.grant].seq
      BY <1>1, <1>3 DEF ToSet, Buffer, IsEventOf
    <2> QED
      BY <1>2, <2>1 DEF Event, Requests
  <1> HIDE DEF e
  <1>4. /\ es \in Seq(Event) /\ Len(es) = Len(events) + 1 /\ Len(es) \in Nat
        /\ ToSet(es) = ToSet(events) \cup {e}
    BY <1>1, AppendHolds
  <1>5. Ordered(es)
    <2>1. \A f \in ToSet(events) : f.seq < e.seq
      BY <1>1, <1>3 DEF Event
    <2> QED
      BY <1>1, <2>1, AppendOrdered DEF Buffer
  <1>6. \A f \in ToSet(es) : f.grant \in Grants /\ f.seq = pub'[f.grant].seq /\ f.seq \in Nat
    BY <1>1, <1>2, <1>3, <1>4 DEF Event
  <1>7. ASSUME NEW h \in Grants, pub'[h].seq > 0
        PROVE  \/ [seq |-> pub'[h].seq, grant |-> h] \in ToSet(es)
               \/ \A f \in ToSet(es) : f.seq > pub'[h].seq
    <2>1. CASE h = g
      BY <1>1, <1>2, <1>4, <2>1 DEF e
    <2>2. CASE h # g /\ [seq |-> pub[h].seq, grant |-> h] \in ToSet(events)
      BY <1>2, <1>4, <2>2
    <2>3. CASE h # g /\ h \in Evicted
      <3>1. pub[h].seq <= nextSeq /\ pub[h].seq \in Nat
        BY <1>1 DEF Requests, Revocation
      <3>2. \A f \in ToSet(events) : f.seq > pub[h].seq
        BY <2>3 DEF Evicted
      <3> QED
        BY <1>1, <1>2, <1>4, <2>3, <3>1, <3>2
    <2> QED
      BY <1>2, <1>7, <2>1, <2>2, <2>3 DEF Buffer
  <1> HIDE DEF es
  <1>8. \/ events' = es
        \/ events' = Tail(es) /\ Len(es) > 1
    BY <1>1, <1>2, <1>4, TrimmedHolds, SizesAssumption
  <1>9. es # <<>>
    BY <1>1, <1>4
  <1>10. CASE events' = es
    BY <1>2, <1>5, <1>6, <1>7, <1>9, <1>10 DEF Buffer, IsEventOf, Evicted
  <1>11. CASE events' = Tail(es) /\ Len(es) > 1
    <2>0. Tail(es) \in Seq(Event) /\ Len(Tail(es)) = Len(es) - 1
          /\ ToSet(es) = {Head(es)} \cup ToSet(Tail(es))
      BY <1>4, <1>9, TailHolds
    <2>1. /\ Tail(es) # <<>> /\ ToSet(es) = {Head(es)} \cup ToSet(Tail(es))
      <3>1. Len(Tail(es)) # 0 /\ Len(<<>>) = 0
        BY <1>4, <1>11, <2>0
      <3>2. Tail(es) # <<>>
        BY <3>1, Zenon
      <3> QED
        BY <2>0, <3>2
    <2>2. Ordered(Tail(es)) /\ \A f \in ToSet(Tail(es)) : Head(es).seq < f.seq
      BY <1>4, <1>5, <1>9, TailOrdered
    <2>3. ASSUME NEW h \in Grants, pub'[h].seq > 0
          PROVE  \/ [seq |-> pub'[h].seq, grant |-> h] \in ToSet(Tail(es))
                 \/ \A f \in ToSet(Tail(es)) : f.seq > pub'[h].seq
      <3>1. CASE [seq |-> pub'[h].seq, grant |-> h] = Head(es)
        <4>1. Head(es).seq = pub'[h].seq
          BY <3>1
        <4> QED
          BY <1>6, <2>1, <2>2, <4>1
      <3>2. CASE [seq |-> pub'[h].seq, grant |-> h] # Head(es)
        BY <1>7, <2>1, <2>3, <3>2
      <3> QED
        BY <3>1, <3>2
    <2> QED
      BY <1>2, <1>6, <1>11, <2>1, <2>2, <2>3 DEF Buffer, IsEventOf, Evicted
  <1> QED
    BY <1>8, <1>10, <1>11

\* What a cancelled subscription leaves to the publishers.
LEMMA CancelledPub ==
  ASSUME AccessTypeOK, NEW w \in Watchers
  PROVE  \A g \in Grants :
           /\ Cancelled(w)[g].seq = pub[g].seq /\ Cancelled(w)[g].pc = pub[g].pc
           /\ pub[g].pc = "sending" => Cancelled(w)[g].to = pub[g].to \ {w}
           /\ pub[g].pc # "sending" => Cancelled(w)[g].to = pub[g].to
  <1> SUFFICES ASSUME NEW g \in Grants
               PROVE  /\ Cancelled(w)[g].seq = pub[g].seq /\ Cancelled(w)[g].pc = pub[g].pc
                      /\ pub[g].pc = "sending" => Cancelled(w)[g].to = pub[g].to \ {w}
                      /\ pub[g].pc # "sending" => Cancelled(w)[g].to = pub[g].to
    OBVIOUS
  <1>1. pub[g] \in Revocation
    BY DEF AccessTypeOK
  <1> QED
    BY <1>1 DEF Cancelled, Revocation

\* The requests and the buffer keep their part of the invariant.
LEMMA HubStep ==
  ASSUME AccessInv, AccessNext, AccessTypeOK'
  PROVE  Requests' /\ Buffer'
  <1> USE DEF AccessInv
  <1>1. /\ pub \in [Grants -> Revocation] /\ nextSeq \in Nat
        /\ AccessTypeOK /\ Requests /\ Buffer
    BY DEF AccessTypeOK
  <1>2. ASSUME NEW g \in Grants, Revoke(g) PROVE Requests' /\ Buffer'
    <2>1. UNCHANGED <<events, nextSeq>> /\ \A h \in Grants : pub'[h].seq = pub[h].seq
      BY <1>1, <1>2 DEF Revoke, Revocation
    <2>2. Requests'
      BY <1>1, <1>2 DEF Revoke, Requests, Revocation
    <2> QED
      BY <1>1, <2>1, <2>2, BufferKept
  <1>3. ASSUME NEW g \in Grants, Publish(g) PROVE Requests' /\ Buffer'
    <2>1. Requests'
      BY <1>1, <1>3 DEF Publish, Requests, Revocation
    <2> QED
      BY <1>3, <2>1, PublishBuffer
  <1>4. ASSUME NEW g \in Grants,
               \/ SendOnClosed(g) \/ PublishEnds(g) \/ \E w \in Watchers : Deliver(g, w)
        PROVE  Requests' /\ Buffer'
    <2>1. /\ UNCHANGED <<events, nextSeq, revoked>>
          /\ pub[g].pc = "sending" /\ \A h \in Grants : pub'[h].seq = pub[h].seq
          /\ \A h \in Grants \ {g} : pub'[h] = pub[h]
          /\ \/ pub'[g].pc = "sending"
             \/ pub'[g].pc = "done" /\ pub'[g].to = {}
          /\ pub'[g].to \subseteq pub[g].to
      <3>1. CASE SendOnClosed(g)
        BY <1>1, <3>1 DEF SendOnClosed, Revocation
      <3>2. CASE PublishEnds(g)
        BY <1>1, <3>2 DEF PublishEnds, Revocation
      <3>3. ASSUME NEW w \in Watchers, Deliver(g, w)
            PROVE  /\ pub[g].pc = "sending" /\ UNCHANGED <<events, nextSeq, revoked>>
                   /\ pub' = [pub EXCEPT ![g].to = @ \ {w}]
        BY <3>3 DEF Deliver
      <3>4. CASE \E w \in Watchers : Deliver(g, w)
        <4> PICK w \in Watchers : Deliver(g, w)
          BY <3>4
        <4> QED
          BY <1>1, <3>3 DEF Revocation
      <3> QED
        BY <1>4, <3>1, <3>2, <3>4
    <2>2. Requests'
      BY <1>1, <2>1 DEF Requests
    <2> QED
      BY <1>1, <2>1, <2>2, BufferKept
  <1>5. ASSUME NEW w \in Watchers, WatcherStep(w), ~FileFails(w) PROVE Requests' /\ Buffer'
    <2>1. UNCHANGED <<events, nextSeq, revoked, pub>>
      BY <1>5 DEF WatcherStep, Connect, TakeReset, TakeReplay, TakeLive, Take, Apply,
             LookUp, Prune
    <2> QED
      BY <1>1, <2>1, BufferKept DEF Requests
  <1>8. ASSUME NEW g \in Grants, Lapse(g) PROVE Requests' /\ Buffer'
    <2>1. UNCHANGED <<events, nextSeq, revoked, pub>>
      BY <1>8 DEF Lapse
    <2> QED
      BY <1>1, <2>1, BufferKept DEF Requests
  <1>6. ASSUME NEW w \in Watchers, StreamBreaks(w) \/ WatcherStops(w) \/ FileFails(w)
        PROVE  Requests' /\ Buffer'
    <2>1. UNCHANGED <<events, nextSeq, revoked>> /\ pub' = Cancelled(w)
      BY <1>6 DEF StreamBreaks, WatcherStops, FileFails
    <2>2. \A g \in Grants :
            /\ pub'[g].seq = pub[g].seq /\ pub'[g].pc = pub[g].pc
            /\ pub[g].pc # "sending" => pub'[g].to = pub[g].to
            /\ pub'[g].to \subseteq pub[g].to
      BY <1>1, <2>1, CancelledPub
    <2> QED
      BY <1>1, <2>1, <2>2, BufferKept DEF Requests
  <1>7. CASE RelayRestarts
    <2>1. /\ nextSeq' = 0 /\ events' = <<>> /\ revoked' = revoked
          /\ \A g \in Grants : pub'[g].seq = 0 /\ pub'[g].to = {}
                              /\ pub'[g].pc \in {"idle", "done"}
                              /\ (pub'[g].pc # "idle" => pub[g].pc # "idle")
      BY <1>7 DEF RelayRestarts, Idle
    <2>2. Ordered(events') /\ ToSet(events') = {}
      BY <2>1, EmptyHolds DEF Ordered
    <2> QED
      BY <1>1, <2>1, <2>2 DEF Requests, Buffer
  <1> QED
    BY <1>2, <1>3, <1>4, <1>5, <1>6, <1>7, <1>8 DEF AccessNext, RequestStep

-----------------------------------------------------------------------------
(* The watchers                                                            *)

\* What the types and the requests say of one watcher and of a grant.
LEMMA WatcherFacts ==
  ASSUME AccessInv, NEW w \in Watchers
  PROVE  /\ watcher[w] \in Stream /\ watcher[w].ch \in Seq(Event)
         /\ watcher[w].replay \subseteq Event /\ ToSet(watcher[w].ch) \subseteq Event
         /\ Own \subseteq Grants
         /\ \A e \in watcher[w].replay \cup ToSet(watcher[w].ch) :
              e \in Event /\ e.grant \in Own /\ pub[e.grant].seq = e.seq /\ e.seq > 0
         /\ \A g \in Grants : pub[g].seq \in Nat /\ (pub[g].seq > 0 => g \in revoked)
         /\ \A g \in Replayed(w) \cup Queued(w) \cup Sending(w) :
              g \in Own /\ pub[g].seq > 0
  <1>1. watcher[w] \in Stream
    BY DEF AccessInv, AccessTypeOK
  <1>2. watcher[w].ch \in Seq(Event) /\ watcher[w].replay \subseteq Event
    BY <1>1 DEF Stream
  <1>3. ToSet(watcher[w].ch) \subseteq Event
    BY <1>2, HeldType
  <1>4. \A e \in watcher[w].replay \cup ToSet(watcher[w].ch) :
          e \in Event /\ e.grant \in Own /\ pub[e.grant].seq = e.seq /\ e.seq > 0
    BY <1>2, <1>3 DEF AccessInv, WatcherInv, StreamOK, IsEventOf, Event
  <1>5. \A g \in Grants : pub[g].seq \in Nat /\ (pub[g].seq > 0 => g \in revoked)
    BY DEF AccessInv, AccessTypeOK, Revocation, Requests
  <1>6. Own \subseteq Grants
    BY DEF Own
  <1>7. \A g \in Replayed(w) \cup Queued(w) : g \in Own /\ pub[g].seq > 0
    BY <1>4 DEF Replayed, Queued
  <1>8. \A g \in Sending(w) : g \in Own /\ pub[g].seq > 0
    BY <1>6 DEF Sending, AccessInv, Requests
  <1> QED
    BY <1>1, <1>2, <1>3, <1>4, <1>5, <1>6, <1>7, <1>8

\* A watcher that a step leaves alone, together with the numbers and what is
\* being sent to it, keeps its part of the invariant.
LEMMA WatcherStays ==
  ASSUME AccessInv, NEW v \in Watchers,
         watcher'[v] = watcher[v], got'[v] = got[v], missed'[v] = missed[v],
         cached'[v] = cached[v], torn'[v] = torn[v],
         revoked \subseteq revoked', unknown \subseteq unknown',
         \A g \in Grants : pub'[g].seq = pub[g].seq,
         Sending(v)' = Sending(v),
         \A g \in Grants : v \notin pub[g].to => v \notin pub'[g].to
  PROVE  WatcherInv(v)'
  <1>1. WatcherInv(v) /\ Online(v)' = Online(v) /\ Own \subseteq Grants /\ got[v] \subseteq Grants
    BY DEF AccessInv, AccessTypeOK, Online, Own
  <1>2. Replayed(v)' = Replayed(v) /\ Queued(v)' = Queued(v)
    BY DEF Replayed, Queued
  <1>3. StreamOK(v)'
    <2>1. \A e \in watcher[v].replay \cup ToSet(watcher[v].ch) \cup ({watcher[v].current} \ {None}) :
            IsEventOf(e)' /\ e.grant \in Own
      BY <1>1 DEF WatcherInv, StreamOK, IsEventOf
    <2> QED
      BY <1>1, <2>1 DEF WatcherInv, StreamOK, IsEventOf
  <1>6. CacheOK(v)'
    BY <1>1 DEF WatcherInv, CacheOK
  <1>4. NothingLost(v) => NothingLost(v)'
    BY <1>1, <1>2 DEF NothingLost
  <1>5. NothingTwice(v) => NothingTwice(v)'
    BY <1>2 DEF NothingTwice
  <1> QED
    BY <1>1, <1>3, <1>4, <1>5, <1>6 DEF WatcherInv

\* publish adds every stream of the network to those it sends to.
LEMMA PublishWatchers ==
  ASSUME AccessInv, NEW g \in Grants, Publish(g), NEW v \in Watchers
  PROVE  WatcherInv(v)'
  <1>1. /\ UNCHANGED <<revoked, unknown, watcher, cached, torn, got, missed>>
        /\ pub[g].pc = "stored" /\ pub[g].seq = 0 /\ pub'[g].seq = nextSeq + 1
        /\ pub'[g].pc = "sending"
        /\ pub'[g].to = IF g \in Own THEN {w \in Watchers : Online(w)} ELSE {}
        /\ \A h \in Grants \ {g} : pub'[h] = pub[h]
    BY DEF Publish, AccessInv, Requests, AccessTypeOK, Revocation
  <1>2. WatcherInv(v) /\ Online(v)' = Online(v) /\ Own \subseteq Grants /\ got[v] \subseteq Grants
        /\ nextSeq \in Nat /\ pub[g].to = {}
    BY <1>1 DEF AccessInv, AccessTypeOK, Online, Own, Requests
  <1>3. Replayed(v)' = Replayed(v) /\ Queued(v)' = Queued(v)
    BY <1>1 DEF Replayed, Queued
  <1>4. Sending(v)' = IF g \in Own /\ Online(v) THEN Sending(v) \cup {g} ELSE Sending(v)
    BY <1>1, <1>2 DEF Sending
  <1>5. g \notin Replayed(v) \cup Queued(v) \cup Sending(v)
    BY <1>1, WatcherFacts
  <1>6. StreamOK(v)'
    <2>1. ASSUME NEW e \in watcher[v].replay \cup ToSet(watcher[v].ch) \cup ({watcher[v].current} \ {None})
          PROVE IsEventOf(e)' /\ e.grant \in Own
      <3>1. IsEventOf(e) /\ e.grant \in Own
        BY <1>2 DEF WatcherInv, StreamOK
      <3>2. e.seq > 0
        BY <3>1, WatcherFacts DEF Stream, Event
      <3> QED
        BY <1>1, <1>2, <3>1, <3>2 DEF IsEventOf
    <2>2. ~Online(v) => \A h \in Grants : v \notin pub'[h].to
      BY <1>1, <1>2 DEF WatcherInv, StreamOK
    <2>3. Online(v) => \A h \in got[v] : pub'[h].seq > 0
      BY <1>1, <1>2 DEF WatcherInv, StreamOK
    <2> QED
      BY <1>1, <1>2, <2>1, <2>2, <2>3 DEF WatcherInv, StreamOK
  <1>7. Online(v) => NothingLost(v)'
    BY <1>1, <1>2, <1>3, <1>4 DEF NothingLost, WatcherInv
  <1>8. Online(v) => NothingTwice(v)'
    <2>1. Online(v) => g \notin got[v]
      BY <1>1, <1>2 DEF WatcherInv, StreamOK
    <2> QED
      BY <1>1, <1>2, <1>3, <1>4, <1>5, <2>1 DEF NothingTwice, WatcherInv
  <1> QED
    BY <1>1, <1>2, <1>6, <1>7, <1>8 DEF WatcherInv, CacheOK

\* A send moves the event into the channel, or the stream misses it.
LEMMA DeliverWatchers ==
  ASSUME AccessInv, NEW g \in Grants, NEW w \in Watchers, Deliver(g, w), NEW v \in Watchers
  PROVE  WatcherInv(v)'
  <1>1. /\ UNCHANGED <<revoked, unknown, cached, torn, got>>
        /\ pub[g].pc = "sending" /\ w \in pub[g].to
        /\ \A h \in Grants : pub'[h].seq = pub[h].seq /\ pub'[h].pc = pub[h].pc
        /\ pub'[g].to = pub[g].to \ {w}
        /\ \A h \in Grants \ {g} : pub'[h] = pub[h]
    BY DEF Deliver, AccessInv, AccessTypeOK, Revocation
  <1>2. \/ watcher' = watcher /\ missed' = [missed EXCEPT ![w] = @ \cup {g}]
        \/ /\ watcher' = [watcher EXCEPT ![w].ch = Append(@, [seq |-> pub[g].seq, grant |-> g])]
           /\ missed' = missed
    BY DEF Deliver
  <1>3. /\ g \in Own /\ Own \subseteq Grants /\ pub[g].seq \in Nat \ {0}
        /\ WatcherInv(w) /\ Online(w) /\ g \in Sending(w) /\ got[w] \subseteq Grants
        /\ watcher \in [Watchers -> Stream] /\ missed \in [Watchers -> SUBSET Grants]
    BY <1>1 DEF AccessInv, AccessTypeOK, Own, WatcherInv, StreamOK, Requests, Sending, Revocation
  <1>4. CASE v # w
    <2>1. Sending(v)' = Sending(v) /\ \A h \in Grants : v \notin pub[h].to => v \notin pub'[h].to
      BY <1>1, <1>3, <1>4 DEF Sending
    <2>2. watcher'[v] = watcher[v] /\ missed'[v] = missed[v]
      BY <1>2, <1>3, <1>4
    <2> QED
      BY <1>1, <2>1, <2>2, WatcherStays
  <1>5. CASE v = w
    <2>1. Sending(w)' = Sending(w) \ {g}
      BY <1>1, <1>3 DEF Sending
    <2>2. CASE watcher' = watcher /\ missed' = [missed EXCEPT ![w] = @ \cup {g}]
      <3>1. missed'[w] = missed[w] \cup {g} /\ Online(w)'
        BY <1>3, <2>2 DEF Online
      <3>2. Replayed(w)' = Replayed(w) /\ Queued(w)' = Queued(w)
        BY <2>2 DEF Replayed, Queued
      <3>3. StreamOK(w)'
        BY <1>1, <1>3, <2>2, <3>1 DEF WatcherInv, StreamOK, IsEventOf, Online
      <3>4. NothingLost(w)'
        BY <1>1, <1>3, <2>1, <2>2, <3>1, <3>2 DEF WatcherInv, NothingLost
      <3>5. NothingTwice(w)'
        BY <1>1, <1>3, <2>1, <2>2, <3>1, <3>2 DEF WatcherInv, NothingTwice
      <3> QED
        BY <1>1, <1>3, <1>5, <2>2, <3>3, <3>4, <3>5 DEF WatcherInv, CacheOK
    <2>3. CASE /\ watcher' = [watcher EXCEPT ![w].ch = Append(@, [seq |-> pub[g].seq, grant |-> g])]
               /\ missed' = missed
      <3> DEFINE e == [seq |-> pub[g].seq, grant |-> g]
                 q == watcher[w].ch
      <3>1. e \in Event /\ e.grant = g /\ e.seq = pub[g].seq
        BY <1>3 DEF Event
      <3>2. /\ watcher'[w].ch = Append(q, e) /\ watcher'[w].pc = watcher[w].pc
            /\ watcher'[w].replay = watcher[w].replay /\ watcher'[w].from = watcher[w].from
            /\ watcher'[w].reset = watcher[w].reset /\ watcher'[w].current = watcher[w].current
            /\ watcher'[w].remain = watcher[w].remain
        BY <1>3, <2>3 DEF Stream
      <3> HIDE DEF e
      <3>3. q \in Seq(Event)
        BY WatcherFacts
      <3> HIDE DEF q
      <3>4. /\ ToSet(Append(q, e)) = ToSet(q) \cup {e}
            /\ DOMAIN Append(q, e) = 1 .. Len(q) + 1 /\ Len(q) \in Nat
            /\ DOMAIN q = 1 .. Len(q)
            /\ \A i \in 1 .. Len(q) : Append(q, e)[i] = q[i]
            /\ Append(q, e)[Len(q) + 1] = e
        BY <3>1, <3>3, AppendHolds
      <3>5. Online(w)' /\ Replayed(w)' = Replayed(w) /\ Queued(w)' = Queued(w) \cup {g}
        BY <1>3, <3>1, <3>2, <3>4 DEF Online, Replayed, Queued, q
      <3>6. StreamOK(w)'
        BY <1>1, <1>3, <3>1, <3>2, <3>4, <3>5
        DEF WatcherInv, StreamOK, IsEventOf, Online, q
      <3>7. NothingLost(w)'
        BY <1>1, <1>3, <2>1, <2>3, <3>2, <3>5 DEF WatcherInv, NothingLost
      <3>8. NothingTwice(w)'
        <4>1. ASSUME NEW i \in 1 .. Len(q) PROVE q[i].grant # g
          <5>1. q[i] \in ToSet(q)
            BY <3>4 DEF ToSet
          <5>2. q[i].grant \in Queued(w)
            BY <5>1 DEF Queued, q
          <5> QED
            BY <1>3, <5>2 DEF WatcherInv, NothingTwice
        <4>2. \A i, j \in 1 .. Len(q) : q[i].grant = q[j].grant => i = j
          BY <1>3, <3>4 DEF WatcherInv, NothingTwice, q
        <4>3. \A i, j \in 1 .. Len(q) + 1 : Append(q, e)[i].grant = Append(q, e)[j].grant => i = j
          <5> SUFFICES ASSUME NEW i \in 1 .. Len(q) + 1, NEW j \in 1 .. Len(q) + 1,
                              Append(q, e)[i].grant = Append(q, e)[j].grant
                       PROVE  i = j
            OBVIOUS
          <5>1. CASE i \in 1 .. Len(q) /\ j \in 1 .. Len(q)
            BY <3>4, <4>2, <5>1
          <5>2. CASE i = Len(q) + 1 \/ j = Len(q) + 1
            BY <3>1, <3>4, <4>1, <5>2
          <5> QED
            BY <3>4, <5>1, <5>2
        <4>4. /\ got'[w] \cap (Replayed(w)' \cup Queued(w)' \cup Sending(w)') = {}
              /\ Replayed(w)' \cap (Queued(w)' \cup Sending(w)') = {}
              /\ Queued(w)' \cap Sending(w)' = {}
          BY <1>1, <1>3, <2>1, <3>5 DEF WatcherInv, NothingTwice
        <4> QED
          BY <3>2, <3>4, <4>3, <4>4 DEF NothingTwice
      <3> QED
        BY <1>1, <1>3, <1>5, <3>2, <3>6, <3>7, <3>8 DEF WatcherInv, CacheOK
    <2> QED
      BY <1>2, <1>5, <2>2, <2>3
  <1> QED
    BY <1>4, <1>5

\* The publisher that panics has lost the event for all it still served; one
\* that ends had no one left to serve.
LEMMA EndWatchers ==
  ASSUME AccessInv, NEW g \in Grants, SendOnClosed(g) \/ PublishEnds(g), NEW v \in Watchers
  PROVE  WatcherInv(v)'
  <1>1. /\ UNCHANGED <<revoked, unknown, cached, torn, got, watcher>>
        /\ pub[g].pc = "sending"
        /\ \A h \in Grants : pub'[h].seq = pub[h].seq
        /\ pub'[g].pc = "done" /\ pub'[g].to = {}
        /\ \A h \in Grants \ {g} : pub'[h] = pub[h]
        /\ missed'[v] = IF v \in pub[g].to THEN missed[v] \cup {g} ELSE missed[v]
    <2>1. CASE SendOnClosed(g)
      BY <2>1 DEF SendOnClosed, AccessInv, AccessTypeOK, Revocation
    <2>2. CASE PublishEnds(g)
      BY <2>2 DEF PublishEnds, AccessInv, AccessTypeOK, Revocation
    <2> QED
      BY <2>1, <2>2
  <1>2. /\ WatcherInv(v) /\ Online(v)' = Online(v) /\ Own \subseteq Grants
        /\ Replayed(v)' = Replayed(v) /\ Queued(v)' = Queued(v) /\ got[v] \subseteq Grants
    BY <1>1 DEF AccessInv, AccessTypeOK, Online, Own, Replayed, Queued
  <1>3. Sending(v)' = Sending(v) \ {g} /\ (g \in Sending(v) => v \in pub[g].to)
    BY <1>1, <1>2 DEF Sending
  <1>4. StreamOK(v)'
    BY <1>1, <1>2 DEF WatcherInv, StreamOK, IsEventOf
  <1>5. Online(v) => NothingLost(v)'
    BY <1>1, <1>2, <1>3 DEF WatcherInv, NothingLost
  <1>6. Online(v) => NothingTwice(v)'
    BY <1>1, <1>2, <1>3 DEF WatcherInv, NothingTwice
  <1> QED
    BY <1>1, <1>2, <1>4, <1>5, <1>6 DEF WatcherInv, CacheOK

\* A new stream: what is in the buffer is replayed; what has left it, the stream
\* is reset for, unless it begins at 0.
LEMMA ConnectWatchers ==
  ASSUME AccessInv, NEW w \in Watchers, Connect(w), NEW v \in Watchers
  PROVE  WatcherInv(v)'
  <1>1. /\ UNCHANGED <<events, revoked, unknown, cached, torn, pub>> /\ ~Online(w)
        /\ watcher' = Opened(w)
        /\ got' = [got EXCEPT ![w] = {}]
        /\ missed' = [missed EXCEPT ![w] = IF lastID[w] = 0 THEN Evicted ELSE {}]
    BY DEF Connect, Online
  <1>2. /\ AccessTypeOK /\ WatcherInv(w) /\ got \in [Watchers -> SUBSET Grants]
        /\ missed \in [Watchers -> SUBSET Grants] /\ lastID[w] \in Nat /\ Own \subseteq Grants
    BY DEF AccessInv, AccessTypeOK, Own
  <1>3. /\ watcher'[w].pc = "on" /\ watcher'[w].from = lastID[w]
        /\ watcher'[w].replay = Since(lastID[w]) /\ watcher'[w].ch = <<>>
        /\ watcher'[w].current = None
        /\ lastID[w] > 0 /\ events # <<>> /\ Head(events).seq > lastID[w] + 1
              => watcher'[w].reset
        /\ \A u \in Watchers \ {w} : watcher'[u] = watcher[u]
    BY <1>1, <1>2, OpenedType
  <1>4. CASE v # w
    <2>1. Sending(v)' = Sending(v)
      BY <1>1 DEF Sending
    <2>2. watcher'[v] = watcher[v] /\ missed'[v] = missed[v] /\ got'[v] = got[v]
      BY <1>1, <1>2, <1>3, <1>4
    <2> QED
      BY <1>1, <2>1, <2>2, WatcherStays
  <1>5. CASE v = w
    <2>1. /\ got'[w] = {} /\ missed'[w] = IF lastID[w] = 0 THEN Evicted ELSE {}
          /\ Queued(w)' = {} /\ Replayed(w)' = {e.grant : e \in Since(lastID[w])}
      BY <1>1, <1>2, <1>3, EmptyHolds DEF Queued, Replayed
    <2>2. Sending(w)' = {}
      BY <1>1, <1>2 DEF Sending, WatcherInv, StreamOK
    <2>3. \A e \in Since(lastID[w]) : e.grant \in Own /\ IsEventOf(e)
      BY DEF Since, AccessInv, Buffer
    <2>4. StreamOK(w)'
      BY <1>1, <1>3, <2>1, <2>3, EmptyHolds DEF StreamOK, Online, IsEventOf
    <2>5. NothingLost(w)'
      <3> SUFFICES ASSUME NEW g \in Own, pub[g].seq > lastID[w]
                   PROVE  g \in Replayed(w)' \/ watcher'[w].reset \/ g \in missed'[w]
        BY <1>1, <1>3 DEF NothingLost
      <3>1. g \in Grants /\ pub[g].seq \in Nat /\ pub[g].seq > 0 /\ pub[g].seq <= nextSeq
        BY <1>2 DEF AccessInv, AccessTypeOK, Revocation, Requests
      <3>2. CASE [seq |-> pub[g].seq, grant |-> g] \in ToSet(events)
        <4>1. [seq |-> pub[g].seq, grant |-> g] \in Since(lastID[w])
          BY <3>2 DEF Since
        <4> QED
          BY <2>1, <4>1
      <3>3. CASE g \in Evicted /\ lastID[w] = 0
        BY <2>1, <3>3
      <3>4. CASE g \in Evicted /\ lastID[w] > 0
        <4>1. events # <<>> /\ events \in Seq(Event)
          BY <1>2, <3>1 DEF AccessInv, AccessTypeOK, Buffer
        <4>2. Head(events) \in ToSet(events) /\ Head(events) \in Event
          BY <4>1, TailHolds
        <4>3. Head(events).seq > pub[g].seq /\ Head(events).seq \in Nat
          BY <3>4, <4>2 DEF Evicted, Event
        <4> QED
          BY <1>2, <1>3, <3>1, <3>4, <4>1, <4>3
      <3> QED
        BY <1>2, <3>1, <3>2, <3>3, <3>4 DEF AccessInv, Buffer
    <2>6. NothingTwice(w)'
      BY <1>3, <2>1, <2>2 DEF NothingTwice
    <2> QED
      BY <1>1, <1>2, <1>3, <1>5, <2>4, <2>5, <2>6 DEF WatcherInv, CacheOK
  <1> QED
    BY <1>4, <1>5

\* The reset is passed on, and the watcher prunes its cache.
LEMMA TakeResetWatchers ==
  ASSUME AccessInv, NEW w \in Watchers, TakeReset(w), NEW v \in Watchers
  PROVE  WatcherInv(v)'
  <1>1. /\ UNCHANGED <<events, revoked, unknown, cached, torn, pub, got, missed>> /\ watcher[w].pc = "on"
        /\ watcher \in [Watchers -> Stream] /\ WatcherInv(w)
        /\ watcher' = [watcher EXCEPT ![w] = [watcher[w] EXCEPT !.pc = "prune", !.reset = FALSE]]
    BY DEF TakeReset, AccessInv, AccessTypeOK
  <1>2. Sending(v)' = Sending(v)
    BY <1>1 DEF Sending
  <1>3. CASE v # w
    BY <1>1, <1>2, <1>3, WatcherStays
  <1>4. CASE v = w
    <2>1. /\ watcher'[w].pc = "prune" /\ watcher'[w].from = watcher[w].from
          /\ watcher'[w].replay = watcher[w].replay /\ watcher'[w].ch = watcher[w].ch
          /\ watcher'[w].current = watcher[w].current
      BY <1>1 DEF Stream
    <2>2. Replayed(w)' = Replayed(w) /\ Queued(w)' = Queued(w) /\ Online(w) /\ Online(w)'
      BY <1>1, <2>1 DEF Replayed, Queued, Online
    <2>3. StreamOK(w)'
      BY <1>1, <2>1, <2>2 DEF WatcherInv, StreamOK, IsEventOf
    <2>4. NothingLost(w)' /\ NothingTwice(w)'
      BY <1>1, <1>2, <1>4, <2>1, <2>2 DEF WatcherInv, NothingLost, NothingTwice
    <2> QED
      BY <1>1, <1>4, <2>2, <2>3, <2>4 DEF WatcherInv, CacheOK
  <1> QED
    BY <1>3, <1>4

\* An event that is taken is the one at work; the stream no longer has it.
LEMMA TakeWatchers ==
  ASSUME AccessInv, NEW w \in Watchers, TakeReplay(w) \/ TakeLive(w), NEW v \in Watchers
  PROVE  WatcherInv(v)'
  <1> DEFINE s == watcher[w]
  <1>1. /\ s \in Stream /\ watcher \in [Watchers -> Stream] /\ WatcherInv(w)
        /\ s.pc = "on" /\ ~s.reset /\ Online(w) /\ s.ch \in Seq(Event) /\ s.replay \subseteq Event
        /\ got \in [Watchers -> SUBSET Grants]
    BY DEF TakeReplay, TakeLive, AccessInv, AccessTypeOK, Online, Stream
  <1>2. PICK e \in Event, rest \in Stream :
          /\ Take(w, e, rest)
          /\ rest.from = s.from /\ rest.reset = s.reset /\ rest.current = s.current
          /\ \/ /\ e \in s.replay /\ rest.replay = s.replay \ {e} /\ rest.ch = s.ch
             \/ /\ s.ch # <<>> /\ e = Head(s.ch) /\ rest.ch = Tail(s.ch)
                /\ rest.replay = s.replay
    <2>1. CASE TakeReplay(w)
      <3>1. PICK e \in s.replay : Take(w, e, [s EXCEPT !.replay = s.replay \ {e}])
        BY <2>1 DEF TakeReplay
      <3>2. [s EXCEPT !.replay = s.replay \ {e}] \in Stream /\ e \in Event
        BY <1>1 DEF Stream
      <3> QED
        BY <1>1, <3>1, <3>2 DEF Stream
    <2>2. CASE TakeLive(w)
      <3>1. s.ch # <<>> /\ Take(w, Head(s.ch), [s EXCEPT !.ch = Tail(s.ch)])
        BY <2>2 DEF TakeLive
      <3>2. Head(s.ch) \in Event /\ Tail(s.ch) \in Seq(Event)
        BY <1>1, <3>1, TailHolds
      <3>3. [s EXCEPT !.ch = Tail(s.ch)] \in Stream
        BY <1>1, <3>2 DEF Stream
      <3> QED
        BY <1>1, <3>1, <3>2, <3>3 DEF Stream
    <2> QED
      BY <2>1, <2>2
  <1>3. /\ UNCHANGED <<revoked, unknown, cached, torn, pub, missed>>
        /\ watcher' = [watcher EXCEPT ![w] = [rest EXCEPT !.pc = "apply", !.current = e]]
        /\ got' = [got EXCEPT ![w] = @ \cup {e.grant}]
    BY <1>2 DEF Take
  <1>4. Sending(v)' = Sending(v)
    BY <1>3 DEF Sending
  <1>5. CASE v # w
    <2>1. watcher'[v] = watcher[v] /\ got'[v] = got[v]
      BY <1>1, <1>3, <1>5
    <2> QED
      BY <1>3, <1>4, <2>1, WatcherStays
  <1>6. CASE v = w
    <2>1. /\ watcher'[w].pc = "apply" /\ watcher'[w].from = s.from
          /\ watcher'[w].replay = rest.replay /\ watcher'[w].ch = rest.ch
          /\ watcher'[w].current = e /\ Online(w)' /\ got'[w] = got[w] \cup {e.grant}
      BY <1>1, <1>2, <1>3 DEF Stream, Online
    <2>2. /\ rest.replay \subseteq s.replay /\ ToSet(rest.ch) \subseteq ToSet(s.ch)
          /\ e \in s.replay \cup ToSet(s.ch)
          /\ s.replay \cup ToSet(s.ch) \subseteq rest.replay \cup ToSet(rest.ch) \cup {e}
      BY <1>1, <1>2, TailHolds
    <2>3. /\ e.grant \in Own /\ pub[e.grant].seq = e.seq /\ e.seq > 0
          /\ e.grant \in Replayed(w) \cup Queued(w)
          /\ \A f \in s.replay \cup ToSet(s.ch) : f.grant \in Own /\ pub[f.grant].seq = f.seq
      BY <2>2, WatcherFacts DEF Replayed, Queued
    <2>4. /\ Replayed(w)' \subseteq Replayed(w) /\ Queued(w)' \subseteq Queued(w)
          /\ Replayed(w) \cup Queued(w) \subseteq Replayed(w)' \cup Queued(w)' \cup {e.grant}
      BY <2>1, <2>2 DEF Replayed, Queued
    <2>5. StreamOK(w)'
      <3>1. e # None
        BY NoneAssumption DEF Event, None
      <3>2. \A f \in rest.replay \cup ToSet(rest.ch) \cup {e} : IsEventOf(f)' /\ f.grant \in Own
        BY <1>3, <2>2, <2>3 DEF IsEventOf
      <3>3. \A g \in got'[w] : pub'[g].seq > 0
        BY <1>1, <1>3, <2>1, <2>3 DEF WatcherInv, StreamOK
      <3> QED
        BY <2>1, <3>1, <3>2, <3>3 DEF StreamOK
    <2>6. NothingLost(w)'
      <3>1. s.current.grant \notin Own
        BY <1>1, NoneAssumption DEF WatcherInv, StreamOK, None, Own
      <3>2. NothingLost(w)
        BY <1>1 DEF WatcherInv
      <3> QED
        BY <1>1, <1>3, <1>4, <1>6, <2>1, <2>4, <3>1, <3>2 DEF NothingLost
    <2>7. NothingTwice(w)'
      <3>1. NothingTwice(w)
        BY <1>1 DEF WatcherInv
      <3>2. e.grant \notin Replayed(w)' \cup Queued(w)' \cup Sending(w)'
        <4>1. e.grant \notin Sending(w)
          BY <2>3, <3>1 DEF NothingTwice
        <4>2. CASE e \in s.replay /\ rest.replay = s.replay \ {e} /\ rest.ch = s.ch
          <5>1. e.grant \in Replayed(w)
            BY <4>2 DEF Replayed
          <5>2. e.grant \notin Queued(w)'
            BY <2>4, <3>1, <5>1 DEF NothingTwice
          <5>3. ASSUME NEW f \in s.replay \ {e} PROVE f.grant # e.grant
            <6>1. f \in Event /\ f.seq = pub[f.grant].seq
              BY <1>1, <2>3
            <6> QED
              BY <2>3, <5>3, <6>1 DEF Event
          <5>4. e.grant \notin Replayed(w)'
            BY <2>1, <4>2, <5>3 DEF Replayed
          <5> QED
            BY <1>4, <1>6, <4>1, <5>2, <5>4
        <4>3. CASE s.ch # <<>> /\ e = Head(s.ch) /\ rest.ch = Tail(s.ch) /\ rest.replay = s.replay
          <5>1. /\ DOMAIN s.ch = 1 .. Len(s.ch) /\ DOMAIN Tail(s.ch) = 1 .. Len(s.ch) - 1
                /\ Len(s.ch) \in Nat \ {0} /\ e = s.ch[1] /\ e \in ToSet(s.ch)
                /\ \A i \in 1 .. Len(s.ch) - 1 : Tail(s.ch)[i] = s.ch[i + 1]
            BY <1>1, <4>3, TailHolds
          <5>2. e.grant \in Queued(w)
            BY <5>1 DEF Queued
          <5>3. e.grant \notin Replayed(w)'
            BY <2>4, <3>1, <5>2 DEF NothingTwice
          <5>4. ASSUME NEW i \in 1 .. Len(s.ch) - 1 PROVE Tail(s.ch)[i].grant # e.grant
            <6>1. 1 \in DOMAIN s.ch /\ i + 1 \in DOMAIN s.ch /\ i + 1 # 1
              BY <5>1
            <6> QED
              BY <3>1, <5>1, <6>1 DEF NothingTwice
          <5>5. e.grant \notin Queued(w)'
            <6>1. \A f \in ToSet(Tail(s.ch)) : f.grant # e.grant
              BY <5>1, <5>4 DEF ToSet
            <6>2. watcher'[w].ch = Tail(s.ch)
              BY <2>1, <4>3
            <6> QED
              BY <6>1, <6>2 DEF Queued
          <5> QED
            BY <1>4, <1>6, <4>1, <5>3, <5>5
        <4> QED
          BY <1>2, <4>2, <4>3
      <3>3. \A i, j \in DOMAIN rest.ch : rest.ch[i].grant = rest.ch[j].grant => i = j
        <4>1. CASE rest.ch = s.ch
          BY <3>1, <4>1 DEF NothingTwice
        <4>2. CASE s.ch # <<>> /\ rest.ch = Tail(s.ch)
          <5>1. /\ DOMAIN s.ch = 1 .. Len(s.ch) /\ DOMAIN Tail(s.ch) = 1 .. Len(s.ch) - 1
                /\ Len(s.ch) \in Nat \ {0}
                /\ \A i \in 1 .. Len(s.ch) - 1 : Tail(s.ch)[i] = s.ch[i + 1]
            BY <1>1, <4>2, TailHolds
          <5> SUFFICES ASSUME NEW i \in 1 .. Len(s.ch) - 1, NEW j \in 1 .. Len(s.ch) - 1,
                              s.ch[i + 1].grant = s.ch[j + 1].grant
                       PROVE  i = j
            BY <4>2, <5>1
          <5>2. i + 1 \in DOMAIN s.ch /\ j + 1 \in DOMAIN s.ch
            BY <5>1
          <5>3. i + 1 = j + 1
            BY <3>1, <5>2 DEF NothingTwice
          <5> QED
            BY <5>3
        <4> QED
          BY <1>2, <4>1, <4>2
      <3>4. got'[w] \cap (Replayed(w)' \cup Queued(w)' \cup Sending(w)') = {}
        BY <1>4, <1>6, <2>1, <2>4, <3>1, <3>2 DEF NothingTwice
      <3>5. /\ Replayed(w)' \cap (Queued(w)' \cup Sending(w)') = {}
            /\ Queued(w)' \cap Sending(w)' = {}
        BY <1>4, <1>6, <2>4, <3>1 DEF NothingTwice
      <3> QED
        BY <2>1, <3>3, <3>4, <3>5 DEF NothingTwice
    <2> QED
      BY <1>1, <1>3, <1>6, <2>5, <2>6, <2>7 DEF WatcherInv, CacheOK
  <1> QED
    BY <1>5, <1>6

\* A revocation that is acted on leaves the file, and a prune writes what remains.
LEMMA ApplyWatchers ==
  ASSUME AccessInv, NEW w \in Watchers, Apply(w) \/ Prune(w), NEW v \in Watchers
  PROVE  WatcherInv(v)'
  <1> DEFINE s == watcher[w]
  <1>1. /\ s \in Stream /\ watcher \in [Watchers -> Stream] /\ WatcherInv(w)
        /\ s.pc \in {"apply", "save"} /\ Online(w)
        /\ cached \in [Watchers -> SUBSET Grants] /\ missed \in [Watchers -> SUBSET Grants]
        /\ UNCHANGED <<revoked, unknown, pub, got, missed, torn>>
        /\ watcher' = [watcher EXCEPT ![w] = [s EXCEPT !.pc = "on", !.current = None, !.remain = {}]]
    BY DEF Apply, Prune, Applied, AccessInv, AccessTypeOK, Online
  <1>2. /\ watcher'[w].pc = "on" /\ watcher'[w].from = s.from
        /\ watcher'[w].replay = s.replay /\ watcher'[w].ch = s.ch
        /\ watcher'[w].current = None /\ watcher'[w].reset = s.reset
        /\ \A u \in Watchers \ {w} : watcher'[u] = watcher[u]
    BY <1>1 DEF Stream
  <1>3. Sending(v)' = Sending(v)
    BY <1>1 DEF Sending
  <1>4. PICK rest \in SUBSET Grants :
          /\ cached' = [cached EXCEPT ![w] = rest] /\ rest \subseteq cached[w]
          /\ "grants" \in torn[w] \/ Grants \ (revoked \cup unknown) \subseteq rest
          /\ \/ s.pc = "apply" /\ s.current.grant \notin rest
             \/ s.pc = "save" /\ rest = s.remain
    <2>1. CASE Apply(w)
      <3>1. s.pc = "apply" /\ cached' = [cached EXCEPT ![w] = @ \ {s.current.grant}]
        BY <2>1 DEF Apply
      <3>2. s.current.grant \in Own /\ s.current.seq = pub[s.current.grant].seq /\ s.current.seq > 0
        BY <1>1, <3>1 DEF WatcherInv, StreamOK, IsEventOf, Stream, Event
      <3>3. s.current.grant \in Grants /\ s.current.grant \in revoked
        BY <3>2, WatcherFacts
      <3>4. PICK rest \in SUBSET Grants : rest = cached[w] \ {s.current.grant}
        BY <1>1
      <3> QED
        BY <1>1, <3>1, <3>3, <3>4 DEF WatcherInv, CacheOK
    <2>2. CASE Prune(w)
      <3>1. s.pc = "save" /\ cached' = [cached EXCEPT ![w] = s.remain]
        BY <2>2 DEF Prune
      <3>2. s.remain \in SUBSET Grants
        BY <1>1 DEF Stream
      <3> QED
        BY <1>1, <3>1, <3>2 DEF WatcherInv, CacheOK
    <2> QED
      BY <2>1, <2>2
  <1>5. CASE v # w
    <2>1. watcher'[v] = watcher[v] /\ cached'[v] = cached[v]
      BY <1>1, <1>2, <1>4, <1>5
    <2> QED
      BY <1>1, <1>3, <2>1, WatcherStays
  <1>6. CASE v = w
    <2>1. /\ cached'[w] = rest
          /\ Replayed(w)' = Replayed(w) /\ Queued(w)' = Queued(w) /\ Online(w)'
      BY <1>1, <1>2, <1>4 DEF Replayed, Queued, Online
    <2>2. StreamOK(w)'
      BY <1>1, <1>2, <2>1 DEF WatcherInv, StreamOK, IsEventOf
    <2>3. NothingLost(w)'
      <3> SUFFICES ASSUME NEW g \in Own, g \in rest, pub[g].seq > s.from
                   PROVE  \/ g \in Replayed(w) \cup Queued(w) \cup Sending(w)
                          \/ watcher'[w].reset \/ g \in missed[w]
        BY <1>1, <1>2, <1>3, <1>6, <2>1 DEF NothingLost
      <3>1. s.pc = "save" => s.current.grant # g
        BY <1>1, NoneAssumption DEF WatcherInv, StreamOK, None, Own
      <3> QED
        BY <1>1, <1>2, <1>4, <3>1 DEF WatcherInv, NothingLost
    <2>4. NothingTwice(w)'
      BY <1>1, <1>2, <1>3, <1>6, <2>1 DEF WatcherInv, NothingTwice
    <2>5. CacheOK(w)'
      BY <1>1, <1>2, <1>4, <2>1 DEF CacheOK
    <2> QED
      BY <1>6, <2>2, <2>3, <2>4, <2>5 DEF WatcherInv
  <1> QED
    BY <1>5, <1>6

\* What a prune is about to write is what the relay does not say is gone.
LEMMA LookUpWatchers ==
  ASSUME AccessInv, NEW w \in Watchers, LookUp(w), NEW v \in Watchers
  PROVE  WatcherInv(v)'
  <1> DEFINE s == watcher[w]
  <1>1. PICK failed \in SUBSET (cached[w] \cap (revoked \cup unknown)), keep \in SUBSET Grants :
          /\ keep = Kept(w, failed)
          /\ missed' = [missed EXCEPT ![w] = @ \cup failed]
          /\ watcher' = [watcher EXCEPT ![w] = [s EXCEPT !.pc = "save", !.remain = keep]]
    <2>1. PICK failed \in SUBSET (cached[w] \cap (revoked \cup unknown)) :
            /\ missed' = [missed EXCEPT ![w] = @ \cup failed]
            /\ watcher' = [watcher EXCEPT ![w] =
                             [s EXCEPT !.pc = "save", !.remain = Kept(w, failed)]]
      BY DEF LookUp
    <2>2. Kept(w, failed) \in SUBSET Grants
      BY DEF Kept, AccessInv, AccessTypeOK
    <2> QED
      BY <2>1, <2>2
  <1>2. /\ s \in Stream /\ watcher \in [Watchers -> Stream] /\ WatcherInv(w)
        /\ s.pc = "prune" /\ Online(w) /\ "grants" \notin torn[w]
        /\ cached \in [Watchers -> SUBSET Grants] /\ missed \in [Watchers -> SUBSET Grants]
        /\ UNCHANGED <<revoked, unknown, pub, got, cached, torn>>
    BY DEF LookUp, AccessInv, AccessTypeOK, Online
  <1>3. /\ watcher'[w].pc = "save" /\ watcher'[w].from = s.from /\ watcher'[w].remain = keep
        /\ watcher'[w].replay = s.replay /\ watcher'[w].ch = s.ch
        /\ watcher'[w].current = s.current
        /\ \A u \in Watchers \ {w} : watcher'[u] = watcher[u]
    BY <1>1, <1>2 DEF Stream
  <1>4. Sending(v)' = Sending(v)
    BY <1>2 DEF Sending
  <1>5. CASE v # w
    <2>1. watcher'[v] = watcher[v] /\ missed'[v] = missed[v]
      BY <1>1, <1>2, <1>3, <1>5
    <2> QED
      BY <1>2, <1>4, <2>1, WatcherStays
  <1>6. CASE v = w
    <2>1. /\ missed'[w] = missed[w] \cup failed
          /\ Replayed(w)' = Replayed(w) /\ Queued(w)' = Queued(w) /\ Online(w)'
      BY <1>1, <1>2, <1>3 DEF Replayed, Queued, Online
    <2>2. StreamOK(w)'
      BY <1>2, <1>3, <2>1 DEF WatcherInv, StreamOK, IsEventOf
    <2>3. NothingLost(w)'
      <3> SUFFICES ASSUME NEW g \in Own \cap cached[w], pub[g].seq > s.from
                   PROVE  g \notin keep \/ g \in missed'[w]
        BY <1>2, <1>3 DEF NothingLost
      <3>1. g \in revoked
        BY <1>2, WatcherFacts DEF Stream
      <3> QED
        BY <1>1, <2>1, <3>1 DEF Kept
    <2>4. NothingTwice(w)'
      BY <1>2, <1>3, <1>4, <1>6, <2>1 DEF WatcherInv, NothingTwice
    <2>5. CacheOK(w)'
      BY <1>1, <1>2, <1>3 DEF WatcherInv, CacheOK, Kept
    <2> QED
      BY <1>6, <2>2, <2>3, <2>4, <2>5 DEF WatcherInv
  <1> QED
    BY <1>5, <1>6

\* A stream that ends takes its subscription away from the publishers; a file that
\* is torn holds nothing.
LEMMA BreakWatchers ==
  ASSUME AccessInv, NEW w \in Watchers, StreamBreaks(w) \/ WatcherStops(w) \/ FileFails(w),
         NEW v \in Watchers
  PROVE  WatcherInv(v)'
  <1>1. /\ UNCHANGED <<revoked, unknown, got, missed>>
        /\ watcher' = [watcher EXCEPT ![w] = NoStream] /\ pub' = Cancelled(w)
    BY DEF StreamBreaks, WatcherStops, FileFails
  <1>2. /\ watcher \in [Watchers -> Stream] /\ WatcherInv(w) /\ AccessTypeOK
        /\ \A g \in Grants : pub[g].pc # "sending" => pub[g].to = {}
        /\ Own \subseteq Grants
        /\ cached \in [Watchers -> SUBSET Grants]
        /\ torn \in [Watchers -> SUBSET {"grants", "state"}]
    BY DEF AccessInv, AccessTypeOK, Requests, Own
  <1>3. \A g \in Grants :
          /\ pub'[g].seq = pub[g].seq /\ pub'[g].pc = pub[g].pc
          /\ pub'[g].to = pub[g].to \ {w}
    BY <1>1, <1>2, CancelledPub
  <1>4. /\ \A u \in Watchers \ {w} : cached'[u] = cached[u] /\ torn'[u] = torn[u]
        /\ torn[w] \subseteq torn'[w]
        /\ cached'[w] = cached[w] \/ "grants" \in torn'[w]
    BY <1>2 DEF StreamBreaks, WatcherStops, FileFails
  <1>5. CASE v # w
    <2>1. Sending(v)' = Sending(v) /\ watcher'[v] = watcher[v]
      BY <1>1, <1>2, <1>3, <1>5 DEF Sending
    <2> QED
      BY <1>1, <1>3, <1>4, <1>5, <2>1, WatcherStays
  <1>6. CASE v = w
    <2>1. watcher'[w] = NoStream
      BY <1>1, <1>2
    <2>2. StreamOK(w)' /\ ~Online(w)'
      BY <1>3, <2>1, EmptyHolds DEF StreamOK, Online, NoStream
    <2>3. CacheOK(w)'
      BY <1>1, <1>2, <1>4, <2>1 DEF WatcherInv, CacheOK, NoStream
    <2> QED
      BY <1>6, <2>2, <2>3 DEF WatcherInv
  <1> QED
    BY <1>5, <1>6

\* A new relay has no subscription and no publisher.
LEMMA RestartWatchers ==
  ASSUME AccessInv, RelayRestarts, NEW v \in Watchers
  PROVE  WatcherInv(v)'
  <1>1. /\ UNCHANGED <<revoked, unknown, cached, torn>> /\ watcher'[v] = NoStream
        /\ \A g \in Grants : pub'[g].to = {}
    BY DEF RelayRestarts, Idle
  <1>2. StreamOK(v)' /\ ~Online(v)'
    BY <1>1, EmptyHolds DEF StreamOK, Online, NoStream
  <1>3. CacheOK(v)'
    BY <1>1 DEF WatcherInv, CacheOK, AccessInv, NoStream
  <1> QED
    BY <1>1, <1>2, <1>3 DEF WatcherInv

-----------------------------------------------------------------------------
(* The theorems                                                            *)

\* Every step keeps the invariant.
LEMMA AccessInvStep == AccessInv /\ [AccessNext]_accessVars => AccessInv'
  <1> SUFFICES ASSUME AccessInv, [AccessNext]_accessVars PROVE AccessInv'
    OBVIOUS
  <1>1. CASE UNCHANGED accessVars
    <2>1. AccessTypeOK' /\ Requests' /\ Buffer'
      BY <1>1, BufferKept DEF accessVars, AccessInv, AccessTypeOK, Requests
    <2>2. ASSUME NEW v \in Watchers PROVE WatcherInv(v)'
      BY <1>1, WatcherStays DEF accessVars, Sending
    <2> QED
      BY <2>1, <2>2 DEF AccessInv
  <1>2. CASE AccessNext
    <2>1. AccessTypeOK' /\ Requests' /\ Buffer'
      BY <1>2, AccessTypeStep, HubStep
    <2>2. ASSUME NEW v \in Watchers PROVE WatcherInv(v)'
      <3>1. ASSUME NEW g \in Grants, Revoke(g) PROVE WatcherInv(v)'
        <4>1. /\ UNCHANGED <<watcher, got, missed, cached, torn, unknown>> /\ revoked \subseteq revoked'
              /\ pub' = [pub EXCEPT ![g].pc = "stored"] /\ pub[g].pc = "idle"
          BY <3>1 DEF Revoke
        <4>2. /\ \A h \in Grants : pub'[h].seq = pub[h].seq /\ pub'[h].to = pub[h].to
              /\ Sending(v)' = Sending(v)
          BY <4>1 DEF AccessInv, AccessTypeOK, Revocation, Sending, Own
        <4> QED
          BY <4>1, <4>2, WatcherStays
      <3>2. ASSUME NEW g \in Grants, RequestStep(g) PROVE WatcherInv(v)'
        BY <3>2, PublishWatchers, EndWatchers, DeliverWatchers DEF RequestStep
      <3>3. ASSUME NEW w \in Watchers, WatcherStep(w) PROVE WatcherInv(v)'
        BY <3>3, ConnectWatchers, TakeResetWatchers, TakeWatchers, ApplyWatchers,
           LookUpWatchers, BreakWatchers
        DEF WatcherStep
      <3>4. ASSUME NEW g \in Grants, Lapse(g) PROVE WatcherInv(v)'
        <4>1. /\ UNCHANGED <<watcher, got, missed, cached, torn, revoked, pub>>
              /\ unknown \subseteq unknown'
          BY <3>4 DEF Lapse
        <4>2. Sending(v)' = Sending(v)
          BY <4>1 DEF Sending
        <4> QED
          BY <4>1, <4>2, WatcherStays
      <3> QED
        BY <1>2, <3>1, <3>2, <3>3, <3>4, BreakWatchers, RestartWatchers DEF AccessNext
    <2> QED
      BY <2>1, <2>2 DEF AccessInv
  <1> QED
    BY <1>1, <1>2

\* The invariant holds in every reachable state of the hub and its watchers.
THEOREM AccessInvariance == AccessSpec => []AccessInv
  BY AccessInitInv, AccessInvStep, PTL DEF AccessSpec

\* Every variable keeps its type; the buffer and the channels keep to their
\* capacities.
THEOREM AccessTypeCorrect == AccessSpec => []AccessTypeOK
  <1>1. AccessInv => AccessTypeOK
    BY DEF AccessInv
  <1> QED
    BY <1>1, AccessInvariance, PTL

\* The hand-over from the replay to the live channel loses no revocation, for
\* every number of grants, watchers, events and faults.
THEOREM RevocationsAreNotLost == AccessSpec => []RevocationNotLost
  <1>1. AccessInv => RevocationNotLost
    BY DEF AccessInv, WatcherInv, RevocationNotLost
  <1> QED
    BY <1>1, AccessInvariance, PTL

\* No stream brings an event twice.
THEOREM EventsAreSentOnce == AccessSpec => []SentOnce
  <1>1. AccessInv => SentOnce
    BY DEF AccessInv, WatcherInv, SentOnce
  <1> QED
    BY <1>1, AccessInvariance, PTL

\* No watcher drops a grant that is not revoked and that the relay knows, unless
\* its file is torn.
THEOREM ValidGrantsAreKept == AccessSpec => []ValidGrantKept
  <1>1. AccessInv => ValidGrantKept
    BY DEF AccessInv, WatcherInv, CacheOK, ValidGrantKept
  <1> QED
    BY <1>1, AccessInvariance, PTL
=============================================================================
