-------------------------- MODULE TaskEventsProofs --------------------------
(***************************************************************************)
(* Proofs about TaskEvents, for any number of sessions, watches, reports,  *)
(* connections, restarts and faults: no event at or before the stored      *)
(* cursor is lost without a known cause, a watch prints events in order,   *)
(* the latest values are the newest, and a broken connection costs the     *)
(* agent one report.                                                       *)
(***************************************************************************)
EXTENDS TaskEvents, FiniteSetTheorems, TLAPS

-----------------------------------------------------------------------------
(* The inductive invariants                                                *)

ConnType ==
  [agent : {"none", "open", "closed"}, fwd : {"none", "on", "over"}, hand : Nat,
   wire : Seq(Nat), handler : {"none", "read", "put"}, seq : Nat]

\* What a watch asks for; one that is off asks for nothing.
FilterType == Filters \cup {{}}

WatchType ==
  [pc : {"off", "dial", "reset", "run", "out"}, filter : FilterType, pos : Int, ev : Int]

\* The values of what the node, its connections and the relay hold.
ReportsTypeOK ==
  /\ made \in Nat /\ queue \in Seq(Nat) /\ stream \in Seq(Nat)
  /\ conn \in [1 .. MaxConns -> ConnType]

\* The values of what the watches hold.
WatchesTypeOK ==
  /\ first \in Int /\ cursor \in Int /\ rewound \in BOOLEAN
  /\ watch \in [Watchers -> WatchType]
  /\ shown \in [Watchers -> Seq(Int)] /\ events \in [Watchers -> Seq(Int)]

Over == {c \in 1 .. MaxConns : conn[c].fwd = "over"}

\* A forwarder has a connection, and ends for one that has failed: it lost one
\* report, and nothing else is lost there.
LossInv ==
  /\ ReportsTypeOK
  /\ \A c \in 1 .. MaxConns :
       /\ conn[c].agent = "none" => conn[c].fwd = "none" /\ conn[c].hand = None
       /\ conn[c].hand # None => conn[c].fwd = "on"
       /\ conn[c].fwd = "over" => conn[c].agent = "closed"
  /\ IsFiniteSet(lost) /\ Cardinality(lost) <= Cardinality(Over)

\* An event was printed or is in the hands of a watch, or is lost to a known cause.
Accounted(e) ==
  \/ e < first \/ e \in gone
  \/ \E w \in Watchers : Printed(w, e) \/ e \in InHand(w)

\* Where a watch stands, all events behind it are accounted for.
SkipInv ==
  /\ WatchesTypeOK
  /\ \A e \in 1 .. cursor : Accounted(e)
  /\ \A w \in Watchers :
       /\ watch[w].pc \in {"reset", "run", "out"} => \A e \in 1 .. watch[w].pos : Accounted(e)
       /\ watch[w].pc = "reset" => watch[w].ev = watch[w].pos + 1
       /\ watch[w].pc = "out" => watch[w].ev = watch[w].pos

Values(s) == {s[i] : i \in DOMAIN s}
Ascending(s) == \A i, j \in DOMAIN s : i < j => s[i] < s[j]

\* While no watch has set the cursor back, what a watch has printed comes before
\* what is in its channel, and both are behind the cursor and behind the place
\* where the watch stands.
Behind(w) ==
  /\ Ascending(shown[w]) /\ Ascending(events[w])
  /\ \A e \in Values(shown[w]), d \in Values(events[w]) : e < d
  /\ \A e \in Values(shown[w]) \cup Values(events[w]) :
       /\ watch[w].pc \in {"reset", "run"} => e <= watch[w].pos
       /\ watch[w].pc = "out" => e < watch[w].ev
       /\ cursor # Unreadable => e <= cursor
  /\ watch[w].pc = "out" /\ cursor # Unreadable => watch[w].ev <= cursor

OrderInv == ~rewound => \A w \in Watchers : Behind(w)

\* A session with which nothing is known to have gone wrong: one handler at most
\* has an event of it in hand, the newest there is, and with none at work the
\* latest value is the newest.
Newest(s) ==
  /\ \A c, d \in Busy(s) : c = d
  /\ \A c \in Busy(s) : \A e \in Stored : SessionOf(e) = s => e <= conn[c].seq
  /\ Busy(s) = {} => \A e \in Stored : SessionOf(e) = s => e <= latest[s]
  /\ latest[s] # None => latest[s] \in Stored /\ SessionOf(latest[s]) = s

NewestInv ==
  /\ latest \in [Sessions -> Nat]
  /\ \A c \in 1 .. MaxConns :
       /\ conn[c].agent = "none" => conn[c].handler = "none"
       /\ conn[c].handler = "put" => conn[c].seq \in Stored
  /\ \A s \in Sessions \ blame : Newest(s)

-----------------------------------------------------------------------------
(* One report for each connection that fails                               *)

\* What is so of each connection.
ConnOK(r) ==
  /\ r.agent = "none" => r.fwd = "none" /\ r.hand = None
  /\ r.hand # None => r.fwd = "on"
  /\ r.fwd = "over" => r.agent = "closed"

\* A step on a connection that ends no forwarder and loses nothing.
LEMMA NoLoss ==
  ASSUME LossInv, NEW c \in 1 .. MaxConns, NEW r \in ConnType, conn' = [conn EXCEPT ![c] = r],
         made' \in Nat, queue' \in Seq(Nat), stream' \in Seq(Nat), UNCHANGED lost,
         ConnOK(r), r.fwd = "over" <=> conn[c].fwd = "over"
  PROVE  LossInv'
  <1>1. ReportsTypeOK'
    BY DEF LossInv, ReportsTypeOK
  <1>2. \A d \in 1 .. MaxConns : conn'[d] = IF d = c THEN r ELSE conn[d]
    BY DEF LossInv, ReportsTypeOK
  <1>3. Over' = Over
    BY <1>2 DEF Over
  <1> QED
    BY <1>1, <1>2, <1>3 DEF LossInv, ConnOK

LEMMA LossInit == Init => LossInv
  <1> SUFFICES ASSUME Init PROVE LossInv
    OBVIOUS
  <1>1. ReportsTypeOK
    BY DEF Init, ReportsTypeOK, NoConn, ConnType, None
  <1>2. \A c \in 1 .. MaxConns : conn[c].agent = "none" /\ conn[c].fwd = "none" /\ conn[c].hand = None
    BY DEF Init, NoConn
  <1>3. lost = {} /\ Over = {}
    BY <1>2 DEF Init, Over
  <1>4. IsFiniteSet(lost) /\ Cardinality(lost) <= Cardinality(Over)
    BY <1>3, FS_EmptySet
  <1> QED
    BY <1>1, <1>2, <1>4 DEF LossInv

\* The forwarder of a connection that has failed loses a report and ends.
LEMMA SendLoss ==
  ASSUME LossInv, NEW c \in 1 .. MaxConns, Send(c)
  PROVE  LossInv'
  <1>1. conn[c].hand # None /\ conn[c].fwd = "on" /\ conn[c].agent \in {"open", "closed"}
    BY DEF LossInv, Send, ReportsTypeOK, ConnType
  <1>2. CASE conn[c].agent = "open"
    <2> DEFINE r == [conn[c] EXCEPT !.hand = None, !.wire = Append(conn[c].wire, conn[c].hand)]
    <2>1. conn[c] \in ConnType /\ conn \in [1 .. MaxConns -> ConnType]
      BY DEF LossInv, ReportsTypeOK
    <2>2. conn' = [conn EXCEPT ![c] = r]
      BY <1>2 DEF Send
    <2>3. Append(conn[c].wire, conn[c].hand) \in Seq(Nat)
      BY <2>1 DEF ConnType
    <2>4. /\ r \in ConnType /\ r.hand = None /\ r.fwd = conn[c].fwd /\ r.agent = conn[c].agent
      BY <2>1, <2>3 DEF ConnType, None
    <2>5. UNCHANGED <<made, queue, stream, lost>>
      BY <1>2 DEF Send, relay
    <2> HIDE DEF r
    <2> QED
      BY <1>2, <2>2, <2>4, <2>5, NoLoss DEF ConnOK, LossInv, ReportsTypeOK
  <1>3. CASE conn[c].agent = "closed"
    <2>1. /\ conn' = [conn EXCEPT ![c].hand = None, ![c].fwd = "over"]
          /\ lost' = lost \cup {conn[c].hand}
      BY <1>3 DEF Send
    <2>2. ReportsTypeOK'
      BY <2>1 DEF Send, LossInv, ReportsTypeOK, ConnType, None, relay
    <2>3. /\ \A d \in 1 .. MaxConns \ {c} : conn'[d] = conn[d]
          /\ conn'[c].fwd = "over" /\ conn'[c].hand = None /\ conn'[c].agent = "closed"
      BY <1>3, <2>1 DEF LossInv, ReportsTypeOK, ConnType
    <2>4. Over' = Over \cup {c} /\ c \notin Over
      BY <1>1, <2>3 DEF Over
    <2>5. IsFiniteSet(Over)
      <3>1. IsFiniteSet(1 .. MaxConns)
        BY FS_Interval, BoundsAssumption
      <3> QED
        BY <3>1, FS_Subset DEF Over
    <2>6. IsFiniteSet(lost) /\ Cardinality(lost) <= Cardinality(Over)
      BY DEF LossInv
    <2>7. /\ IsFiniteSet(lost') /\ Cardinality(lost) \in Nat
          /\ Cardinality(lost') \in {Cardinality(lost), Cardinality(lost) + 1}
      BY <2>1, <2>6, FS_AddElement, FS_CardinalityType
    <2>8. Cardinality(Over') = Cardinality(Over) + 1 /\ Cardinality(Over) \in Nat
      BY <2>4, <2>5, FS_AddElement, FS_CardinalityType
    <2>9. Cardinality(lost') <= Cardinality(Over')
      BY <2>6, <2>7, <2>8
    <2> QED
      BY <2>2, <2>3, <2>7, <2>9 DEF LossInv
  <1> QED
    BY <1>1, <1>2, <1>3

\* The other steps on a connection.
LEMMA ConnLoss ==
  ASSUME LossInv, NEW c \in 1 .. MaxConns,
         Dial(c) \/ Take(c) \/ Break(c) \/ Publish(c) \/ PublishFails(c) \/ Put(c) \/ PutFails(c)
  PROVE  LossInv'
  <1>1. /\ conn \in [1 .. MaxConns -> ConnType] /\ conn[c] \in ConnType /\ ConnOK(conn[c])
        /\ made \in Nat /\ queue \in Seq(Nat) /\ stream \in Seq(Nat)
    BY DEF LossInv, ReportsTypeOK, ConnOK
  <1>2. UNCHANGED <<made, lost>>
    BY DEF Dial, Take, Break, Publish, PublishFails, Put, PutFails, node
  <1>3. conn[c].wire \in Seq(Nat)
    BY <1>1 DEF ConnType
  <1>4. CASE Dial(c)
    <2> DEFINE r == [NoConn EXCEPT !.agent = "open", !.fwd = "on", !.handler = "read"]
    <2>1. conn' = [conn EXCEPT ![c] = r] /\ conn[c].fwd # "over"
      BY <1>1, <1>4 DEF Dial, ConnOK
    <2>2. r \in ConnType /\ r.fwd = "on" /\ r.agent = "open"
      <3>1. NoConn \in ConnType
        BY DEF NoConn, ConnType, None
      <3> QED
        BY <3>1 DEF ConnType
    <2>3. UNCHANGED <<queue, stream>>
      BY <1>4 DEF Dial, node, relay
    <2> HIDE DEF r
    <2> QED
      BY <1>1, <1>2, <2>1, <2>2, <2>3, NoLoss DEF ConnOK
  <1>5. CASE Take(c)
    <2> DEFINE r == [conn[c] EXCEPT !.hand = Head(queue)]
    <2>1. conn' = [conn EXCEPT ![c] = r] /\ queue' = Tail(queue) /\ queue # <<>> /\ conn[c].fwd = "on"
          /\ UNCHANGED stream
      BY <1>5 DEF Take, relay
    <2>2. Head(queue) \in Nat /\ Tail(queue) \in Seq(Nat)
      BY <1>1, <2>1
    <2>3. r \in ConnType /\ r.fwd = "on" /\ r.agent = conn[c].agent
      BY <1>1, <2>1, <2>2 DEF ConnType
    <2> HIDE DEF r
    <2> QED
      BY <1>1, <1>2, <2>1, <2>2, <2>3, NoLoss DEF ConnOK
  <1>6. CASE Break(c)
    <2>1. PICK k \in 0 .. Len(conn[c].wire) :
            conn' = [conn EXCEPT ![c].agent = "closed", ![c].wire = SubSeq(@, 1, k)]
      BY <1>6 DEF Break
    <2> DEFINE r == [conn[c] EXCEPT !.agent = "closed", !.wire = SubSeq(conn[c].wire, 1, k)]
    <2>2. conn' = [conn EXCEPT ![c] = r]
      BY <2>1
    <2>3. SubSeq(conn[c].wire, 1, k) \in Seq(Nat)
      BY <1>3
    <2>4. r \in ConnType /\ r.fwd = conn[c].fwd /\ r.agent = "closed" /\ r.hand = conn[c].hand
      BY <1>1, <2>3 DEF ConnType
    <2>5. UNCHANGED <<queue, stream>>
      BY <1>6 DEF Break, node, relay
    <2> HIDE DEF r
    <2> QED
      BY <1>1, <1>2, <2>2, <2>4, <2>5, NoLoss DEF ConnOK
  <1>7. CASE Publish(c) \/ PublishFails(c)
    <2>1. Head(conn[c].wire) \in Nat /\ Tail(conn[c].wire) \in Seq(Nat)
      BY <1>3, <1>7 DEF Publish, PublishFails, Reads
    <2>2. Len(stream) + 1 \in Nat /\ Append(stream, Head(conn[c].wire)) \in Seq(Nat)
      BY <1>1, <2>1
    <2>3. queue' = queue /\ stream' \in {stream, Append(stream, Head(conn[c].wire))}
      BY <1>7 DEF Publish, PublishFails, node
    <2> DEFINE r == [conn[c] EXCEPT !.wire = Tail(conn[c].wire), !.handler = "put",
                                    !.seq = Len(stream) + 1]
               q == [conn[c] EXCEPT !.wire = Tail(conn[c].wire)]
    <2>4. conn' = [conn EXCEPT ![c] = r] \/ conn' = [conn EXCEPT ![c] = q]
      BY <1>7 DEF Publish, PublishFails
    <2>5. /\ r \in ConnType /\ r.fwd = conn[c].fwd /\ r.agent = conn[c].agent /\ r.hand = conn[c].hand
          /\ q \in ConnType /\ q.fwd = conn[c].fwd /\ q.agent = conn[c].agent /\ q.hand = conn[c].hand
      BY <1>1, <2>1, <2>2 DEF ConnType
    <2>6. ConnOK(r) /\ ConnOK(q)
      BY <1>1, <2>5 DEF ConnOK
    <2> HIDE DEF r, q
    <2>7. ASSUME NEW x \in {r, q}, conn' = [conn EXCEPT ![c] = x]
          PROVE  LossInv'
      BY <1>1, <1>2, <2>2, <2>3, <2>5, <2>6, <2>7, NoLoss
    <2> QED
      BY <2>4, <2>7
  <1>8. CASE Put(c) \/ PutFails(c)
    <2> DEFINE r == [conn[c] EXCEPT !.handler = "read", !.seq = None]
    <2>1. conn' = [conn EXCEPT ![c] = r]
      BY <1>8 DEF Put, PutFails
    <2>2. r \in ConnType /\ r.fwd = conn[c].fwd /\ r.agent = conn[c].agent /\ r.hand = conn[c].hand
      BY <1>1 DEF ConnType, None
    <2>3. UNCHANGED <<queue, stream>>
      BY <1>8 DEF Put, PutFails, node
    <2> HIDE DEF r
    <2> QED
      BY <1>1, <1>2, <2>1, <2>2, <2>3, NoLoss DEF ConnOK
  <1> QED
    BY <1>4, <1>5, <1>6, <1>7, <1>8

\* Every step keeps the count of losses below that of the forwarders that ended.
LEMMA LossStep == LossInv /\ [Next]_vars => LossInv'
  <1> SUFFICES ASSUME LossInv, [Next]_vars PROVE LossInv'
    OBVIOUS
  <1>1. CASE Report
    <2>1. made' \in Nat /\ queue' \in Seq(Nat) /\ UNCHANGED <<conn, stream, lost>>
      BY <1>1 DEF Report, LossInv, ReportsTypeOK, relay
    <2> QED
      BY <2>1 DEF LossInv, ReportsTypeOK, Over
  <1>2. ASSUME NEW c \in 1 .. MaxConns,
               \/ Dial(c) \/ Take(c) \/ Send(c) \/ Break(c)
               \/ Publish(c) \/ PublishFails(c) \/ Put(c) \/ PutFails(c)
        PROVE  LossInv'
    BY <1>2, SendLoss, ConnLoss
  <1>3. CASE UNCHANGED <<made, queue, stream, conn, lost>>
    BY <1>3 DEF LossInv, ReportsTypeOK, Over
  <1>4. CASE Trim \/ UNCHANGED vars
    BY <1>3, <1>4 DEF Trim, vars, node, relay
  <1>5. ASSUME NEW w \in Watchers,
               \/ \E filter \in Filters : StartWatch(w, filter)
               \/ Connect(w) \/ HandleReset(w) \/ Handle(w) \/ Out(w) \/ Show(w)
               \/ Disconnect(w) \/ Stop(w) \/ StopInWrite(w)
        PROVE  LossInv'
    BY <1>3, <1>5
    DEF StartWatch, Connect, HandleReset, Handle, Out, Show, Disconnect, Stop, StopInWrite, node, relay
  <1> QED
    BY <1>1, <1>2, <1>4, <1>5 DEF Next

\* However often connections break and wherever forwarders are by then, a break
\* costs the agent one report at most.
THEOREM OneReportPerBreak == Spec => []OneLossPerBreak
  <1>1. LossInv => OneLossPerBreak
    <2> SUFFICES ASSUME LossInv PROVE OneLossPerBreak
      OBVIOUS
    <2> DEFINE Closed == {c \in DOMAIN conn : conn[c].agent = "closed"}
    <2>1. DOMAIN conn = 1 .. MaxConns /\ IsFiniteSet(1 .. MaxConns)
      BY FS_Interval, BoundsAssumption DEF LossInv, ReportsTypeOK
    <2>2. Over \subseteq Closed /\ IsFiniteSet(Closed)
      BY <2>1, FS_Subset DEF LossInv, Over
    <2>3. Cardinality(Over) <= Cardinality(Closed)
          /\ Cardinality(Over) \in Nat /\ Cardinality(Closed) \in Nat /\ Cardinality(lost) \in Nat
      BY <2>2, FS_Subset, FS_CardinalityType DEF LossInv
    <2>4. Cardinality(lost) <= Cardinality(Closed)
      BY <2>3 DEF LossInv
    <2> QED
      BY <2>4 DEF OneLossPerBreak
  <1> QED
    BY <1>1, LossInit, LossStep, PTL DEF Spec

-----------------------------------------------------------------------------
(* The latest values                                                       *)

LEMMA NewestInit == Init => NewestInv
  <1> SUFFICES ASSUME Init PROVE NewestInv
    OBVIOUS
  <1>1. \A c \in 1 .. MaxConns : conn[c].handler = "none"
    BY DEF Init, NoConn
  <1>2. \A s : Busy(s) = {}
    BY <1>1 DEF Init, Busy
  <1>3. Stored = {} /\ latest \in [Sessions -> Nat] /\ \A s \in Sessions : latest[s] = None
    BY DEF Init, Stored, None
  <1> QED
    BY <1>1, <1>2, <1>3 DEF NewestInv, Newest

\* Nothing of this moves while the handlers at work have the same in hand.
LEMMA NewestFrame ==
  ASSUME NewestInv, LossInv, LossInv', UNCHANGED <<of, stream, latest>>, blame \subseteq blame',
         \A c \in 1 .. MaxConns :
           /\ conn'[c].agent = "none" => conn[c].agent = "none" /\ conn'[c].handler = conn[c].handler
           /\ conn'[c].handler = "put" <=> conn[c].handler = "put"
           /\ conn'[c].handler = "put" => conn'[c].seq = conn[c].seq
  PROVE  NewestInv'
  <1>1. DOMAIN conn = 1 .. MaxConns /\ DOMAIN conn' = 1 .. MaxConns
    BY DEF LossInv, ReportsTypeOK
  <1>2. \A e : of'[stream'[e]] = of[stream[e]]
    OBVIOUS
  <1>3. Stored' = Stored
    BY DEF Stored
  <1>4. ASSUME NEW s
        PROVE  Busy(s)' = Busy(s) /\ \A c \in Busy(s) : c \in 1 .. MaxConns /\ conn'[c].seq = conn[c].seq
    BY <1>1 DEF Busy, SessionOf
  <1>5. ASSUME NEW s \in Sessions \ blame'
        PROVE  Newest(s)'
    <2>1. Newest(s)
      BY DEF NewestInv
    <2> QED
      BY <1>2, <1>3, <1>4, <2>1 DEF Newest, SessionOf
  <1> QED
    BY <1>3, <1>5 DEF NewestInv

\* The steps of the agent and its forwarders move no handler.
LEMMA AgentNewest ==
  ASSUME NewestInv, LossInv, LossInv', NEW c \in 1 .. MaxConns,
         Dial(c) \/ Take(c) \/ Send(c) \/ Break(c)
  PROVE  NewestInv'
  <1>1. conn \in [1 .. MaxConns -> ConnType] /\ conn[c] \in ConnType
    BY DEF LossInv, ReportsTypeOK
  <1>2. UNCHANGED <<of, stream, latest, blame>>
    BY DEF Dial, Take, Send, Break, node, relay
  <1>3. \A d \in 1 .. MaxConns \ {c} : conn'[d] = conn[d]
    BY <1>1 DEF Dial, Take, Send, Break
  <1>4. /\ conn'[c].agent = "none" => conn[c].agent = "none" /\ conn'[c].handler = conn[c].handler
        /\ conn'[c].handler = "put" <=> conn[c].handler = "put"
        /\ conn'[c].handler = "put" => conn'[c].seq = conn[c].seq
    <2>1. CASE Dial(c)
      <3>1. conn[c].handler # "put"
        BY <2>1 DEF Dial, NewestInv
      <3>2. conn'[c].agent = "open" /\ conn'[c].handler = "read"
        BY <1>1, <2>1 DEF Dial, NoConn
      <3> QED
        BY <3>1, <3>2
    <2>2. CASE Take(c)
      BY <1>1, <2>2 DEF Take, ConnType
    <2>3. CASE Send(c)
      <3>1. CASE conn[c].agent = "open"
        BY <1>1, <2>3, <3>1 DEF Send, ConnType
      <3>2. CASE conn[c].agent # "open"
        <4>1. conn' = [conn EXCEPT ![c].hand = None, ![c].fwd = "over"]
          BY <2>3, <3>2 DEF Send
        <4> QED
          BY <1>1, <4>1 DEF ConnType
      <3> QED
        BY <3>1, <3>2
    <2>4. CASE Break(c)
      BY <1>1, <2>4 DEF Break, ConnType
    <2> QED
      BY <2>1, <2>2, <2>3, <2>4
  <1> QED
    BY <1>2, <1>3, <1>4, NewestFrame

\* A new event does not disturb those that are stored.
LEMMA Appended ==
  ASSUME LossInv, NEW r \in Nat, stream' = Append(stream, r), UNCHANGED of
  PROVE  /\ Len(stream) \in Nat /\ Stored' = Stored \cup {Len(stream) + 1}
         /\ \A e \in Stored : e <= Len(stream) /\ of'[stream'[e]] = of[stream[e]]
         /\ of'[stream'[Len(stream) + 1]] = of[r]
  <1>1. stream \in Seq(Nat)
    BY DEF LossInv, ReportsTypeOK
  <1>2. Len(stream') = Len(stream) + 1 /\ Len(stream) \in Nat
    BY <1>1
  <1>3. \A e \in 1 .. Len(stream) : stream'[e] = stream[e]
    BY <1>1
  <1>4. stream'[Len(stream) + 1] = r
    BY <1>1
  <1> QED
    BY <1>2, <1>3, <1>4 DEF Stored

\* The event a handler has just stored is the newest of its session, which has
\* no other handler at work or is given up for lost.
LEMMA PublishNewest ==
  ASSUME NewestInv, LossInv, LossInv', NEW c \in 1 .. MaxConns, Publish(c)
  PROVE  NewestInv'
  <1> DEFINE r == Head(conn[c].wire)
             new == Len(stream) + 1
  <1>1. conn \in [1 .. MaxConns -> ConnType] /\ conn[c] \in ConnType /\ DOMAIN conn' = 1 .. MaxConns
    BY DEF LossInv, ReportsTypeOK
  <1>2. /\ stream' = Append(stream, r) /\ UNCHANGED <<of, latest>>
        /\ blame' = IF Busy(of[r]) # {} THEN blame \cup {of[r]} ELSE blame
        /\ conn[c].handler = "read" /\ conn[c].wire # <<>>
    BY DEF Publish, Reads, node
  <1>3. r \in Nat
    BY <1>1, <1>2 DEF ConnType
  <1>4. /\ new \in Nat /\ Stored' = Stored \cup {new}
        /\ \A e \in Stored : e <= new /\ e # new /\ e \in Nat /\ of'[stream'[e]] = of[stream[e]]
        /\ of'[stream'[new]] = of[r]
    <2> HIDE DEF r
    <2>1. /\ Len(stream) \in Nat /\ Stored' = Stored \cup {new}
          /\ \A e \in Stored : e <= Len(stream) /\ of'[stream'[e]] = of[stream[e]]
          /\ of'[stream'[new]] = of[r]
      BY <1>2, <1>3, Appended
    <2>2. \A e \in Stored : e \in Nat
      BY <2>1 DEF Stored
    <2>3. \A e \in Stored : e <= new /\ e # new
      BY <2>1, <2>2
    <2> QED
      BY <2>1, <2>2, <2>3
  <1>5. /\ \A d \in 1 .. MaxConns \ {c} : conn'[d] = conn[d]
        /\ conn'[c].handler = "put" /\ conn'[c].seq = new /\ conn'[c].agent = conn[c].agent
    BY <1>1 DEF Publish, ConnType
  <1> HIDE DEF r, new
  <1>6. \A d \in 1 .. MaxConns : conn[d].handler = "put" => d # c /\ conn[d].seq \in Stored
    BY <1>2 DEF NewestInv
  <1>7. conn[c].agent # "none"
    BY <1>2 DEF NewestInv
  <1>8. ASSUME NEW s
        PROVE  Busy(s)' = IF s = of[r] THEN Busy(s) \cup {c} ELSE Busy(s)
    <2>1. DOMAIN conn = 1 .. MaxConns
      BY <1>1
    <2>2. ASSUME NEW d \in 1 .. MaxConns
          PROVE  d \in Busy(s)' <=> d \in Busy(s) \/ (d = c /\ s = of[r])
      <3>1. CASE d = c
        <4>1. c \in Busy(s)' <=> of'[stream'[new]] = s
          BY <1>1, <1>5 DEF Busy, SessionOf
        <4>2. c \notin Busy(s)
          BY <1>6 DEF Busy, SessionOf
        <4> QED
          BY <1>4, <3>1, <4>1, <4>2
      <3>2. CASE d # c
        <4>1. conn'[d] = conn[d]
          BY <1>5, <3>2
        <4>2. conn[d].handler = "put" => of'[stream'[conn[d].seq]] = of[stream[conn[d].seq]]
          BY <1>4, <1>6
        <4>3. d \in Busy(s)' <=> conn[d].handler = "put" /\ of'[stream'[conn[d].seq]] = s
          BY <1>1, <4>1 DEF Busy, SessionOf
        <4>4. d \in Busy(s) <=> conn[d].handler = "put" /\ of[stream[conn[d].seq]] = s
          BY <2>1 DEF Busy, SessionOf
        <4> QED
          BY <3>2, <4>2, <4>3, <4>4
      <3> QED
        BY <3>1, <3>2
    <2>3. Busy(s) \subseteq 1 .. MaxConns /\ Busy(s)' \subseteq 1 .. MaxConns
      BY <1>1, <2>1 DEF Busy, SessionOf
    <2> QED
      BY <2>2, <2>3
  <1>9. ASSUME NEW s \in Sessions \ blame'
        PROVE  Newest(s)'
    <2>1. Newest(s) /\ latest \in [Sessions -> Nat]
      BY <1>2 DEF NewestInv
    <2>2. \A d \in Busy(s) : d \in 1 .. MaxConns /\ d # c
      BY <1>1, <1>6 DEF Busy, SessionOf
    <2>3. latest'[s] # None => latest'[s] \in Stored' /\ of'[stream'[latest'[s]]] = s
      <3>1. latest'[s] = latest[s]
        BY <1>2
      <3>2. latest[s] # None => latest[s] \in Stored /\ of[stream[latest[s]]] = s
        BY <2>1 DEF Newest, SessionOf
      <3>3. latest[s] # None => of'[stream'[latest[s]]] = s
        BY <1>4, <3>2
      <3> QED
        BY <1>4, <3>1, <3>2, <3>3
    <2>4. CASE s = of[r]
      <3>1. Busy(s) = {} /\ Busy(s)' = {c}
        BY <1>2, <1>8, <2>4
      <3>2. \A e \in Stored' : e <= conn'[c].seq
        BY <1>4, <1>5
      <3>3. \A d \in Busy(s)' : \A e \in Stored' : e <= conn'[d].seq
        BY <3>1, <3>2
      <3> QED
        BY <2>3, <3>1, <3>3 DEF Newest, SessionOf
    <2>5. CASE s # of[r]
      <3>1. Busy(s)' = Busy(s)
        BY <1>8, <2>5
      <3>2. ASSUME NEW e \in Stored', of'[stream'[e]] = s
            PROVE  e \in Stored /\ of[stream[e]] = s
        <4>1. e # new
          BY <1>4, <2>5, <3>2
        <4> QED
          BY <1>4, <3>2, <4>1
      <3>3. \A d \in Busy(s) : conn'[d].seq = conn[d].seq
        BY <1>5, <2>2
      <3> QED
        BY <1>2, <2>1, <2>3, <3>1, <3>2, <3>3 DEF Newest, SessionOf
    <2> QED
      BY <2>4, <2>5
  <1> QED
    BY <1>2, <1>4, <1>5, <1>6, <1>7, <1>9 DEF NewestInv

\* An event without an acknowledgement gives its session up for lost.
LEMMA PublishFailsNewest ==
  ASSUME NewestInv, LossInv, LossInv', NEW c \in 1 .. MaxConns, PublishFails(c)
  PROVE  NewestInv'
  <1> DEFINE r == Head(conn[c].wire)
  <1>1. conn \in [1 .. MaxConns -> ConnType] /\ conn[c] \in ConnType /\ DOMAIN conn' = 1 .. MaxConns
    BY DEF LossInv, ReportsTypeOK
  <1>2. /\ UNCHANGED <<of, latest>> /\ conn[c].wire # <<>>
        /\ \/ UNCHANGED <<stream, blame>>
           \/ stream' = Append(stream, r) /\ blame' = blame \cup {of[r]}
    BY DEF PublishFails, Reads, node
  <1>3. \A d \in 1 .. MaxConns :
          conn'[d].agent = conn[d].agent /\ conn'[d].handler = conn[d].handler /\ conn'[d].seq = conn[d].seq
    BY <1>1 DEF PublishFails, ConnType
  <1>4. CASE UNCHANGED <<stream, blame>>
    BY <1>2, <1>3, <1>4, NewestFrame
  <1>5. CASE stream' = Append(stream, r) /\ blame' = blame \cup {of[r]}
    <2>1. r \in Nat
      BY <1>1, <1>2 DEF ConnType
    <2> HIDE DEF r
    <2>2. /\ Stored \subseteq Stored' /\ \A e \in Stored : of'[stream'[e]] = of[stream[e]]
          /\ \A e \in Stored' : e \in Stored \/ of'[stream'[e]] = of[r]
      <3>1. /\ Stored' = Stored \cup {Len(stream) + 1}
            /\ \A e \in Stored : of'[stream'[e]] = of[stream[e]]
            /\ of'[stream'[Len(stream) + 1]] = of[r]
        BY <1>2, <1>5, <2>1, Appended
      <3> QED
        BY <3>1
    <2>3. \A d \in 1 .. MaxConns : conn[d].handler = "put" => conn[d].seq \in Stored
      BY DEF NewestInv
    <2>4. ASSUME NEW s \in Sessions \ blame'
          PROVE  Newest(s)'
      <3>1. Newest(s) /\ s # of[r]
        BY <1>5 DEF NewestInv
      <3>2. Busy(s)' = Busy(s)
        BY <1>1, <1>3, <2>2, <2>3 DEF Busy, SessionOf
      <3>3. \A d \in Busy(s) : conn'[d].seq = conn[d].seq
        BY <1>1, <1>3 DEF Busy, SessionOf
      <3>4. \A e \in Stored' : of'[stream'[e]] = s => e \in Stored /\ of[stream[e]] = s
        BY <2>2, <3>1
      <3> QED
        BY <1>2, <2>2, <3>1, <3>2, <3>3, <3>4 DEF Newest, SessionOf
    <2> QED
      BY <1>2, <1>3, <2>2, <2>3, <2>4 DEF NewestInv
  <1> QED
    BY <1>2, <1>4, <1>5

\* The write of the bucket stores what is the newest, or gives the session up.
LEMMA PutNewest ==
  ASSUME NewestInv, LossInv, LossInv', NEW c \in 1 .. MaxConns, Put(c) \/ PutFails(c)
  PROVE  NewestInv'
  <1> DEFINE t == of[stream[conn[c].seq]]
  <1>1. conn \in [1 .. MaxConns -> ConnType] /\ conn[c] \in ConnType /\ DOMAIN conn' = 1 .. MaxConns
    BY DEF LossInv, ReportsTypeOK
  <1>2. /\ UNCHANGED <<of, stream>> /\ conn[c].handler = "put"
        /\ \/ latest' = [latest EXCEPT ![t] = conn[c].seq] /\ blame' = blame
           \/ latest' = latest /\ blame' = blame \cup {t}
    BY DEF Put, PutFails, SessionOf, node
  <1>3. /\ \A d \in 1 .. MaxConns \ {c} : conn'[d] = conn[d]
        /\ conn'[c].handler = "read" /\ conn'[c].agent = conn[c].agent
    BY <1>1 DEF Put, PutFails, ConnType
  <1>4. Stored' = Stored /\ \A e : of'[stream'[e]] = of[stream[e]]
    BY <1>2 DEF Stored
  <1>5. conn[c].seq \in Stored /\ conn[c].seq \in Nat
    BY <1>1, <1>2 DEF NewestInv, ConnType
  <1>6. c \in Busy(t)
    BY <1>1, <1>2 DEF Busy, SessionOf
  <1>7. latest' \in [Sessions -> Nat]
    BY <1>2, <1>5 DEF NewestInv
  <1> HIDE DEF t
  <1>8. ASSUME NEW s
        PROVE  /\ Busy(s)' = Busy(s) \ {c}
               /\ s # t => c \notin Busy(s)
    <2>1. s # t => c \notin Busy(s)
      BY DEF Busy, t, SessionOf
    <2>2. \A d \in 1 .. MaxConns : d \in Busy(s)' <=> d \in Busy(s) /\ d # c
      BY <1>1, <1>3, <1>4 DEF Busy, SessionOf
    <2>3. Busy(s) \subseteq 1 .. MaxConns /\ Busy(s)' \subseteq 1 .. MaxConns
      BY <1>1 DEF Busy, SessionOf
    <2> QED
      BY <2>1, <2>2, <2>3
  <1>9. ASSUME NEW s \in Sessions \ blame'
        PROVE  Newest(s)'
    <2>1. Newest(s)
      BY <1>2 DEF NewestInv
    <2>2. CASE s = t
      <3>1. latest'[s] = conn[c].seq
        BY <1>2, <2>2 DEF NewestInv
      <3>2. Busy(s)' = {}
        BY <1>6, <1>8, <2>1, <2>2 DEF Newest, SessionOf
      <3>3. \A e \in Stored : of[stream[e]] = s => e <= conn[c].seq
        BY <1>6, <2>1, <2>2 DEF Newest, SessionOf
      <3>4. of[stream[conn[c].seq]] = s
        BY <2>2 DEF t
      <3> QED
        BY <1>4, <1>5, <3>1, <3>2, <3>3, <3>4 DEF Newest, SessionOf
    <2>3. CASE s # t
      <3>1. Busy(s)' = Busy(s)
        BY <1>8, <2>3
      <3>2. \A d \in Busy(s) : conn'[d] = conn[d]
        BY <1>1, <1>3, <1>8, <2>3 DEF Busy, SessionOf
      <3>3. latest'[s] = latest[s]
        BY <1>2, <2>3 DEF NewestInv
      <3> QED
        BY <1>4, <2>1, <3>1, <3>2, <3>3 DEF Newest, SessionOf
    <2> QED
      BY <2>2, <2>3
  <1> QED
    BY <1>2, <1>3, <1>4, <1>7, <1>9 DEF NewestInv

LEMMA NewestStep == NewestInv /\ LossInv /\ LossInv' /\ [Next]_vars => NewestInv'
  <1> SUFFICES ASSUME NewestInv, LossInv, LossInv', [Next]_vars PROVE NewestInv'
    OBVIOUS
  <1>1. CASE UNCHANGED <<of, stream, latest, blame, conn>>
    BY <1>1, NewestFrame
  <1>2. ASSUME NEW c \in 1 .. MaxConns,
               \/ Dial(c) \/ Take(c) \/ Send(c) \/ Break(c)
               \/ Publish(c) \/ PublishFails(c) \/ Put(c) \/ PutFails(c)
        PROVE  NewestInv'
    BY <1>2, AgentNewest, PublishNewest, PublishFailsNewest, PutNewest
  <1>3. CASE Report \/ Trim \/ UNCHANGED vars
    BY <1>1, <1>3 DEF Report, Trim, vars, node, relay
  <1>4. ASSUME NEW w \in Watchers,
               \/ \E filter \in Filters : StartWatch(w, filter)
               \/ Connect(w) \/ HandleReset(w) \/ Handle(w) \/ Out(w) \/ Show(w)
               \/ Disconnect(w) \/ Stop(w) \/ StopInWrite(w)
        PROVE  NewestInv'
    BY <1>1, <1>4
    DEF StartWatch, Connect, HandleReset, Handle, Out, Show, Disconnect, Stop, StopInWrite, node, relay
  <1> QED
    BY <1>2, <1>3, <1>4 DEF Next

\* Whatever the connections of an agent bring, in whatever order, the latest value
\* of a session is its newest event when no handler is at work on it.
THEOREM LatestIsTheNewest == Spec => []LatestIsNewest
  <1>1. NewestInv => LatestIsNewest
    BY DEF NewestInv, Newest, LatestIsNewest
  <1> QED
    BY <1>1, NewestInit, NewestStep, LossInit, LossStep, PTL DEF Spec

-----------------------------------------------------------------------------
(* No event is passed over                                                 *)

\* What has been accounted for stays so: what a watch has in hand it keeps, prints,
\* or takes with it when it ends.
LEMMA StaysAccounted ==
  ASSUME WatchesTypeOK, first' \in Int, first <= first', gone \subseteq gone',
         \A w \in Watchers : \A e \in Values(shown[w]) : e \in Values(shown[w])',
         \A w \in Watchers : \A e \in InHand(w) :
           e \in InHand(w)' \/ e \in gone' \/ e \in Values(shown[w])',
         NEW e \in Int, Accounted(e)
  PROVE  Accounted(e)'
  <1>1. CASE e < first \/ e \in gone
    BY <1>1 DEF Accounted, WatchesTypeOK
  <1>2. \A w \in Watchers : Printed(w, e) <=> e \in Values(shown[w])
    BY DEF Printed, Values
  <1>3. \A w \in Watchers : Printed(w, e)' <=> e \in Values(shown[w])'
    BY DEF Printed, Values
  <1>4. ASSUME NEW w \in Watchers, Printed(w, e) \/ e \in InHand(w)
        PROVE  Accounted(e)'
    <2>1. e \in Values(shown[w])' \/ e \in InHand(w)' \/ e \in gone'
      BY <1>2, <1>4
    <2> QED
      BY <1>3, <2>1 DEF Accounted
  <1> QED
    BY <1>1, <1>4 DEF Accounted

\* A step of one watch that keeps what is accounted for and, where the watch goes
\* on, has accounted for what is behind it.
LEMMA WatchSkip ==
  ASSUME SkipInv, NEW w \in Watchers, NEW r \in WatchType, watch' = [watch EXCEPT ![w] = r],
         WatchesTypeOK', \A e \in Int : Accounted(e) => Accounted(e)',
         \A e \in 1 .. cursor' : Accounted(e)',
         r.pc \in {"reset", "run", "out"} => \A e \in 1 .. r.pos : Accounted(e)',
         r.pc = "reset" => r.ev = r.pos + 1, r.pc = "out" => r.ev = r.pos
  PROVE  SkipInv'
  <1>1. \A v \in Watchers : watch'[v] = IF v = w THEN r ELSE watch[v]
    BY DEF SkipInv, WatchesTypeOK
  <1>2. ASSUME NEW v \in Watchers
        PROVE  /\ watch'[v].pc \in {"reset", "run", "out"} => \A e \in 1 .. watch'[v].pos : Accounted(e)'
               /\ watch'[v].pc = "reset" => watch'[v].ev = watch'[v].pos + 1
               /\ watch'[v].pc = "out" => watch'[v].ev = watch'[v].pos
    <2>1. CASE v = w
      BY <1>1, <2>1
    <2>2. CASE v # w
      BY <1>1, <2>2 DEF SkipInv
    <2> QED
      BY <2>1, <2>2
  <1> QED
    BY <1>2 DEF SkipInv

LEMMA ValuesType ==
  ASSUME NEW s \in Seq(Int)
  PROVE  \A e \in Values(s) : e \in Int
  BY DEF Values

LEMMA Emptied ==
  ASSUME NEW f \in [Watchers -> Seq(Int)], NEW w
  PROVE  [f EXCEPT ![w] = <<>>] \in [Watchers -> Seq(Int)]
  <1>1. ASSUME NEW z \in Seq(Int)
        PROVE  [f EXCEPT ![w] = z] \in [Watchers -> Seq(Int)]
    OBVIOUS
  <1>2. <<>> \in Seq(Int)
    OBVIOUS
  <1> QED
    BY <1>1, <1>2

LEMMA NoWatchType == NoWatch \in WatchType
  <1>1. {} \in FilterType
    BY DEF FilterType
  <1> QED
    BY <1>1 DEF NoWatch, WatchType, None

\* What a watch that ends had in hand is in gone, and the rest is kept.
LEMMA EndsAccounts ==
  ASSUME SkipInv, NEW w \in Watchers, Ends(w), UNCHANGED <<first, shown>>, NEW e \in Int, Accounted(e)
  PROVE  Accounted(e)'
  <1>1. /\ WatchesTypeOK /\ first \in Int
        /\ watch' = [watch EXCEPT ![w] = NoWatch] /\ events' = [events EXCEPT ![w] = <<>>]
        /\ gone' = gone \cup InHand(w)
    BY DEF SkipInv, WatchesTypeOK, Ends
  <1>2. \A v \in Watchers \ {w} : watch'[v] = watch[v] /\ events'[v] = events[v]
    BY <1>1 DEF WatchesTypeOK
  <1>3. \A v \in Watchers \ {w} : InHand(v)' = InHand(v)
    BY <1>2 DEF InHand
  <1>4. \A v \in Watchers : \A d \in InHand(v) : d \in InHand(v)' \/ d \in gone'
    BY <1>1, <1>3
  <1> QED
    BY <1>1, <1>4, StaysAccounted

\* A watch that is dialled again, or starts, or ends keeps the order.
LEMMA BehindWhenOff ==
  ASSUME SkipInv, OrderInv, NEW w \in Watchers, NEW r \in WatchType, r.pc \in {"off", "dial"},
         watch' = [watch EXCEPT ![w] = r], UNCHANGED <<shown, rewound>>,
         cursor' \in {cursor, Unreadable},
         events' = events \/ events' = [events EXCEPT ![w] = <<>>]
  PROVE  OrderInv'
  <1>1. /\ watch \in [Watchers -> WatchType] /\ events \in [Watchers -> Seq(Int)]
    BY DEF SkipInv, WatchesTypeOK
  <1>2. \A v \in Watchers : watch'[v] = IF v = w THEN r ELSE watch[v]
    BY <1>1
  <1>3. \A v \in Watchers : events'[v] \in {events[v], <<>>}
    BY <1>1
  <1>4. ASSUME NEW v \in Watchers, Behind(v)
        PROVE  Behind(v)'
    <2>1. cursor' # Unreadable => cursor' = cursor
      OBVIOUS
    <2>2. watch'[v] = watch[v] \/ watch'[v].pc \in {"off", "dial"}
      BY <1>2
    <2>3. Ascending(events'[v]) /\ Values(events'[v]) \subseteq Values(events[v])
      BY <1>3, <1>4 DEF Behind, Ascending, Values
    <2> QED
      BY <1>4, <2>1, <2>2, <2>3 DEF Behind, Values, Ascending
  <1> QED
    BY <1>4 DEF OrderInv

LEMMA WatchInit == Init => SkipInv /\ OrderInv
  <1> SUFFICES ASSUME Init PROVE SkipInv /\ OrderInv
    OBVIOUS
  <1>1. WatchesTypeOK
    <2>1. first = 1 /\ cursor = 0 /\ rewound = FALSE
      BY DEF Init
    <2>2. /\ watch \in [Watchers -> WatchType] /\ shown \in [Watchers -> Seq(Int)]
         /\ events \in [Watchers -> Seq(Int)]
      BY NoWatchType DEF Init
    <2>3. rewound \in BOOLEAN
      BY <2>1, Zenon
    <2>4. first \in Int /\ cursor \in Int
      BY <2>1
    <2> QED
      BY <2>2, <2>3, <2>4, Zenon DEF WatchesTypeOK
  <1>2. \A w \in Watchers : watch[w].pc = "off" /\ shown[w] = <<>> /\ events[w] = <<>>
    BY DEF Init, NoWatch
  <1>3. SkipInv
    BY <1>1, <1>2 DEF Init, SkipInv
  <1>4. OrderInv
    BY <1>2 DEF OrderInv, Behind, Values, Ascending
  <1> QED
    BY <1>3, <1>4

\* A step that leaves the watches alone; the stream may lose its oldest events.
LEMMA OthersSkip ==
  ASSUME SkipInv, OrderInv, UNCHANGED client, first' \in Int, first <= first'
  PROVE  SkipInv' /\ OrderInv'
  <1> USE DEF client
  <1>1. WatchesTypeOK'
    BY DEF SkipInv, WatchesTypeOK
  <1>2. \A e \in Int : Accounted(e) => Accounted(e)'
    <2>1. \A w \in Watchers : InHand(w)' = InHand(w)
      BY DEF InHand
    <2> QED
      BY <2>1, StaysAccounted DEF SkipInv
  <1>3. SkipInv'
    BY <1>1, <1>2 DEF SkipInv
  <1>4. OrderInv'
    BY DEF OrderInv, Behind
  <1> QED
    BY <1>3, <1>4

\* A watch starts, ends or loses its stream, or its cursor file is spoilt.
LEMMA StopSkip ==
  ASSUME SkipInv, OrderInv, NEW w \in Watchers,
         (\E filter \in Filters : StartWatch(w, filter)) \/ Disconnect(w) \/ Stop(w) \/ StopInWrite(w)
  PROVE  SkipInv' /\ OrderInv'
  <1>1. /\ watch \in [Watchers -> WatchType] /\ watch[w] \in WatchType /\ WatchesTypeOK
        /\ first \in Int /\ cursor \in Int
    BY DEF SkipInv, WatchesTypeOK
  <1>2. /\ UNCHANGED <<shown, rewound, first>> /\ cursor' \in {cursor, Unreadable}
        /\ \/ Ends(w)
           \/ UNCHANGED <<events, gone>> /\ watch[w].pc # "out"
    BY DEF StartWatch, Disconnect, Stop, StopInWrite, relay
  <1>3. PICK r \in WatchType : watch' = [watch EXCEPT ![w] = r] /\ r.pc \in {"off", "dial"}
    <2> DEFINE q == [watch[w] EXCEPT !.pc = "dial", !.ev = None]
    <2>1. CASE \E filter \in Filters : StartWatch(w, filter)
      <3>1. PICK filter \in Filters :
              watch' = [watch EXCEPT ![w] = [NoWatch EXCEPT !.pc = "dial", !.filter = filter]]
        BY <2>1 DEF StartWatch
      <3>2. [NoWatch EXCEPT !.pc = "dial", !.filter = filter] \in WatchType
        <4>1. filter \in FilterType
          BY DEF FilterType
        <4> QED
          BY <4>1, NoWatchType DEF WatchType
      <3>3. [NoWatch EXCEPT !.pc = "dial", !.filter = filter].pc = "dial"
        BY DEF NoWatch
      <3> QED
        BY <3>1, <3>2, <3>3
    <2>2. CASE Disconnect(w)
      <3>1. watch' = [watch EXCEPT ![w] = q]
        BY <2>2 DEF Disconnect
      <3>2. q \in WatchType /\ q.pc = "dial"
        <4>1. None \in Int /\ watch[w] \in WatchType
          BY <1>1 DEF None
        <4> QED
          BY <4>1 DEF WatchType
      <3> QED
        BY <3>1, <3>2
    <2>3. CASE Ends(w)
      <3>1. NoWatch \in WatchType /\ NoWatch.pc = "off"
        BY NoWatchType DEF NoWatch
      <3> QED
        BY <2>3, <3>1 DEF Ends
    <2> QED
      BY <2>1, <2>2, <2>3 DEF Stop, StopInWrite
  <1>4. \A v \in Watchers : watch'[v] = IF v = w THEN r ELSE watch[v]
    BY <1>1, <1>3
  <1>5. WatchesTypeOK'
    <2>1. events' = events \/ events' = [events EXCEPT ![w] = <<>>]
      BY <1>2 DEF Ends
    <2>2. UNCHANGED <<shown, rewound, first>> /\ cursor' \in {cursor, Unreadable}
      BY <1>2
    <2>3. watch' \in [Watchers -> WatchType]
      BY <1>1, <1>3
    <2>4. events' \in [Watchers -> Seq(Int)]
      <3>1. events \in [Watchers -> Seq(Int)]
        BY <1>1 DEF WatchesTypeOK
      <3> QED
        BY <2>1, <3>1, Emptied
    <2> QED
      BY <1>1, <2>2, <2>3, <2>4 DEF WatchesTypeOK, Unreadable
  <1>6. \A e \in Int : Accounted(e) => Accounted(e)'
    <2>1. CASE Ends(w)
      BY <1>2, <2>1, EndsAccounts
    <2>2. CASE UNCHANGED <<events, gone>> /\ watch[w].pc # "out"
      <3>1. \A v \in Watchers : \A e \in InHand(v) : e \in InHand(v)'
        BY <1>4, <2>2 DEF InHand
      <3> QED
        BY <1>1, <1>2, <2>2, <3>1, StaysAccounted
    <2> QED
      BY <1>2, <2>1, <2>2
  <1>7. \A e \in 1 .. cursor' : Accounted(e)'
    BY <1>1, <1>2, <1>6 DEF SkipInv, Unreadable
  <1>8. SkipInv'
    BY <1>3, <1>5, <1>6, <1>7, WatchSkip
  <1>9. OrderInv'
    BY <1>2, <1>3, BehindWhenOff DEF Ends
  <1> QED
    BY <1>8, <1>9

\* A watch connects, where the stream still is or after what it has lost.
LEMMA ConnectSkip ==
  ASSUME SkipInv, OrderInv, NEW w \in Watchers, Connect(w)
  PROVE  SkipInv' /\ OrderInv'
  <1>1. /\ watch \in [Watchers -> WatchType] /\ watch[w] \in WatchType /\ WatchesTypeOK
        /\ first \in Int /\ cursor \in Int /\ watch[w].pc = "dial"
        /\ UNCHANGED <<shown, rewound, first, cursor>>
        /\ Ends(w) \/ UNCHANGED <<events, gone>>
    BY DEF SkipInv, WatchesTypeOK, Connect, relay
  <1>2. PICK r \in WatchType :
          /\ watch' = [watch EXCEPT ![w] = r]
          /\ \/ r.pc = "off"
             \/ r.pc = "run" /\ r.pos = cursor /\ cursor # Unreadable
             \/ r.pc = "reset" /\ r.pos = first - 1 /\ r.ev = first /\ first > cursor + 1
                /\ cursor # Unreadable
    <2> DEFINE run == [watch[w] EXCEPT !.pc = "run", !.pos = cursor]
               reset == [watch[w] EXCEPT !.pc = "reset", !.pos = first - 1, !.ev = first]
    <2>1. CASE Ends(w)
      BY <2>1, NoWatchType DEF Ends, NoWatch
    <2>2. run \in WatchType /\ run.pc = "run" /\ run.pos = cursor
      BY <1>1 DEF WatchType
    <2>3. reset \in WatchType /\ reset.pc = "reset" /\ reset.pos = first - 1 /\ reset.ev = first
      <3>1. first - 1 \in Int /\ first \in Int /\ watch[w] \in WatchType
        BY <1>1
      <3> QED
        BY <3>1 DEF WatchType
    <2>4. CASE watch' = [watch EXCEPT ![w] = run] /\ cursor # Unreadable
      BY <2>2, <2>4
    <2>5. CASE watch' = [watch EXCEPT ![w] = reset] /\ cursor # Unreadable /\ first > cursor + 1
      BY <2>3, <2>5
    <2> QED
      BY <2>1, <2>4, <2>5 DEF Connect, From
  <1>3. \A v \in Watchers : watch'[v] = IF v = w THEN r ELSE watch[v]
    BY <1>1, <1>2
  <1>4. WatchesTypeOK'
    <2>1. events' = events \/ events' = [events EXCEPT ![w] = <<>>]
      BY <1>1 DEF Ends
    <2>2. events' \in [Watchers -> Seq(Int)]
      <3>1. events \in [Watchers -> Seq(Int)]
        BY <1>1 DEF WatchesTypeOK
      <3> QED
        BY <2>1, <3>1, Emptied
    <2> QED
      BY <1>1, <1>2, <2>2 DEF WatchesTypeOK
  <1>5. \A e \in Int : Accounted(e) => Accounted(e)'
    <2>1. CASE Ends(w)
      BY <1>1, <2>1, EndsAccounts
    <2>2. CASE UNCHANGED <<events, gone>>
      <3>1. \A v \in Watchers : \A e \in InHand(v) : e \in InHand(v)'
        BY <1>1, <1>3, <2>2 DEF InHand
      <3> QED
        BY <1>1, <2>2, <3>1, StaysAccounted
    <2> QED
      BY <1>1, <2>1, <2>2
  <1>6. \A e \in Int : e < first => Accounted(e)'
    BY <1>1 DEF Accounted
  <1>7. SkipInv'
    <2>1. r.pc \in {"reset", "run", "out"} => \A e \in 1 .. r.pos : Accounted(e)'
      BY <1>1, <1>2, <1>5, <1>6 DEF SkipInv
    <2>2. \A e \in 1 .. cursor' : Accounted(e)'
      BY <1>1, <1>5 DEF SkipInv
    <2>3. r.pc = "reset" => r.ev = r.pos + 1
      BY <1>1, <1>2
    <2>4. r.pc = "out" => r.ev = r.pos
      BY <1>2
    <2> QED
      BY <1>2, <1>4, <1>5, <2>1, <2>2, <2>3, <2>4, WatchSkip
  <1>8. OrderInv'
    <2>1. CASE Ends(w)
      BY <1>1, <1>2, <2>1, NoWatchType, BehindWhenOff DEF Ends, NoWatch
    <2>2. ASSUME UNCHANGED <<events, gone>>, NEW v \in Watchers, Behind(v)
          PROVE  Behind(v)'
      <3>1. CASE v # w
        BY <1>1, <1>3, <2>2, <3>1 DEF Behind
      <3>2. CASE v = w
        <4>1. \A e \in Values(shown[w]) \cup Values(events[w]) : e \in Int
          BY <1>1, ValuesType DEF WatchesTypeOK
        <4>2. \A e \in Values(shown[w]) \cup Values(events[w]) : cursor # Unreadable => e <= cursor
          BY <2>2, <3>2 DEF Behind
        <4>3. \A e \in Values(shown[w]) \cup Values(events[w]) :
                r.pc \in {"reset", "run"} => e <= r.pos
          BY <1>1, <1>2, <4>1, <4>2
        <4> QED
          BY <1>1, <1>2, <1>3, <2>2, <3>2, <4>3 DEF Behind
      <3> QED
        BY <3>1, <3>2
    <2> QED
      BY <1>1, <2>1, <2>2 DEF OrderInv
  <1> QED
    BY <1>7, <1>8

\* An event, or the reset, has its number stored as the cursor.
LEMMA HandleSkip ==
  ASSUME SkipInv, OrderInv, NEW w \in Watchers, HandleReset(w) \/ Handle(w)
  PROVE  SkipInv' /\ OrderInv'
  <1>1. /\ watch \in [Watchers -> WatchType] /\ watch[w] \in WatchType /\ WatchesTypeOK
        /\ first \in Int /\ cursor \in Int /\ watch[w].pc \in {"reset", "run"}
        /\ watch[w].pos \in Int /\ rewound \in BOOLEAN
        /\ UNCHANGED <<shown, first>>
    BY DEF SkipInv, WatchesTypeOK, HandleReset, Handle, relay, WatchType
  <1>2. CASE Ends(w) /\ UNCHANGED <<cursor, rewound>>
    <2>1. /\ watch' = [watch EXCEPT ![w] = NoWatch] /\ events' = [events EXCEPT ![w] = <<>>]
          /\ NoWatch \in WatchType /\ NoWatch.pc = "off"
      BY <1>2, NoWatchType DEF Ends, NoWatch
    <2>2. WatchesTypeOK'
      BY <1>1, <1>2, <2>1 DEF WatchesTypeOK
    <2>3. \A e \in Int : Accounted(e) => Accounted(e)'
      BY <1>1, <1>2, EndsAccounts
    <2>4. SkipInv'
      BY <1>2, <2>1, <2>2, <2>3, WatchSkip DEF SkipInv
    <2>5. OrderInv'
      BY <1>1, <1>2, <2>1, BehindWhenOff
    <2> QED
      BY <2>4, <2>5
  <1>3. CASE cursor # Unreadable
    <2>1. PICK e \in Int, r \in WatchType :
            /\ SetsCursor(e) /\ watch' = [watch EXCEPT ![w] = r] /\ e > watch[w].pos
            /\ UNCHANGED events /\ gone \subseteq gone'
            /\ \/ r.pc = "run" /\ r.pos = watch[w].pos /\ e = watch[w].pos + 1 /\ e \in gone'
               \/ r.pc = "out" /\ r.pos = e /\ r.ev = e
            /\ \A d \in 1 .. e - 1 : d <= watch[w].pos \/ d < first \/ d \in gone'
      <3>1. CASE HandleReset(w)
        <4> DEFINE e == watch[w].ev
                   r == [watch[w] EXCEPT !.pc = "run", !.ev = None]
        <4>1. e \in Int /\ e = watch[w].pos + 1
          BY <1>1, <3>1 DEF HandleReset, SkipInv, WatchType
        <4>2. r \in WatchType /\ r.pc = "run" /\ r.pos = watch[w].pos
          <5>1. None \in Int /\ watch[w] \in WatchType
            BY <1>1 DEF None
          <5> QED
            BY <5>1 DEF WatchType
        <4>3. /\ SetsCursor(e) /\ watch' = [watch EXCEPT ![w] = r] /\ e \in gone'
              /\ UNCHANGED events /\ gone \subseteq gone'
          BY <1>3, <3>1 DEF HandleReset
        <4>4. e > watch[w].pos /\ \A d \in 1 .. e - 1 : d <= watch[w].pos
          <5> HIDE DEF e
          <5> QED
            BY <1>1, <4>1
        <4> HIDE DEF e, r
        <4> QED
          BY <4>1, <4>2, <4>3, <4>4
      <3>2. CASE Handle(w)
        <4>1. PICK e \in Coming(w) :
                /\ \A d \in Coming(w) : e <= d
                /\ SetsCursor(e)
                /\ gone' = gone \cup {d \in watch[w].pos + 1 .. e - 1 :
                                        SessionOf(d) \notin watch[w].filter}
                /\ UNCHANGED events
                /\ watch' = [watch EXCEPT ![w].pc = "out", ![w].pos = e, ![w].ev = e]
          BY <1>3, <3>2 DEF Handle
        <4>2. e \in Int /\ e \in Stored /\ e > watch[w].pos
          BY <4>1 DEF Coming, Stored
        <4> DEFINE r == [watch[w] EXCEPT !.pc = "out", !.pos = e, !.ev = e]
        <4>3. r \in WatchType /\ r.pc = "out" /\ r.pos = e /\ r.ev = e
          BY <1>1, <4>2 DEF WatchType
        <4>4. watch' = [watch EXCEPT ![w] = r]
          BY <4>1
        <4>5. ASSUME NEW d \in 1 .. e - 1, d > watch[w].pos, d >= first
              PROVE  d \in gone'
          <5>1. d \in Stored /\ ~(e <= d)
            BY <4>2, <4>5 DEF Stored
          <5>2. SessionOf(d) \notin watch[w].filter
            BY <4>1, <4>5, <5>1 DEF Coming
          <5>3. d \in watch[w].pos + 1 .. e - 1
            BY <1>1, <4>2, <4>5
          <5> QED
            BY <4>1, <5>2, <5>3
        <4>6. \A d \in 1 .. e - 1 : d <= watch[w].pos \/ d < first \/ d \in gone'
          BY <1>1, <4>5
        <4> HIDE DEF r
        <4> QED
          BY <4>1, <4>2, <4>3, <4>4, <4>6
      <3> QED
        BY <3>1, <3>2
    <2>2. \A v \in Watchers : watch'[v] = IF v = w THEN r ELSE watch[v]
      BY <1>1, <2>1
    <2>3. cursor' = e /\ rewound' \in BOOLEAN /\ (~rewound' => ~rewound /\ cursor <= e)
      <3>1. cursor' = e /\ rewound' = (rewound \/ e < cursor)
        BY <2>1 DEF SetsCursor
      <3>2. e < cursor \/ cursor <= e
        BY <1>1, <2>1
      <3> QED
        BY <1>1, <3>1, <3>2
    <2>4. WatchesTypeOK'
      BY <1>1, <2>1, <2>3 DEF WatchesTypeOK
    <2>5. \A d \in Int : Accounted(d) => Accounted(d)'
      <3>1. \A v \in Watchers : \A d \in InHand(v) : d \in InHand(v)'
        BY <1>1, <2>1, <2>2 DEF InHand
      <3> QED
        BY <1>1, <2>1, <3>1, StaysAccounted
    <2>6. Accounted(e)'
      BY <2>1, <2>2 DEF Accounted, InHand
    <2>7. \A d \in 1 .. e : Accounted(d)'
      <3>1. ASSUME NEW d \in 1 .. e - 1 PROVE Accounted(d)'
        <4>1. CASE d <= watch[w].pos
          BY <1>1, <2>5, <4>1 DEF SkipInv
        <4>2. CASE d < first \/ d \in gone'
          BY <1>1, <4>2 DEF Accounted
        <4> QED
          BY <2>1, <4>1, <4>2
      <3> QED
        BY <2>1, <2>6, <3>1
    <2>8. SkipInv'
      <3>1. \A d \in 1 .. r.pos : Accounted(d)'
        BY <1>1, <2>1, <2>7
      <3>2. \A d \in 1 .. cursor' : Accounted(d)'
        BY <2>3, <2>7
      <3>3. r.pc # "reset" /\ (r.pc = "out" => r.ev = r.pos)
        BY <2>1
      <3> QED
        BY <2>1, <2>4, <2>5, <3>1, <3>2, <3>3, WatchSkip
    <2>9. OrderInv'
      <3>1. ASSUME NEW v \in Watchers, Behind(v), ~rewound'
            PROVE  Behind(v)'
        <4> DEFINE given == Values(shown[v]) \cup Values(events[v])
        <4>1. \A d \in given : d \in Int /\ d <= cursor
          <5>1. \A d \in given : d \in Int
            BY <1>1, ValuesType DEF WatchesTypeOK
          <5> QED
            BY <1>3, <3>1, <5>1 DEF Behind
        <4> HIDE DEF given
        <4>2. \A d \in given : d <= e
          BY <1>1, <2>1, <2>3, <3>1, <4>1
        <4>3. CASE v # w
          <5>1. watch[v].pc = "out" => watch[v].ev <= e
            <6>1. watch[v].ev \in Int
              BY <1>1 DEF WatchType
            <6>2. watch[v].pc = "out" => watch[v].ev <= cursor
              BY <1>3, <3>1 DEF Behind
            <6> QED
              BY <1>1, <2>1, <2>3, <3>1, <6>1, <6>2
          <5> QED
            BY <1>1, <2>1, <2>2, <2>3, <3>1, <4>2, <4>3, <5>1 DEF Behind, given
        <4>4. CASE v = w
          <5>1. \A d \in given : d <= watch[w].pos
            BY <1>1, <3>1, <4>4 DEF Behind, given
          <5>2. \A d \in given : d < e
            BY <1>1, <2>1, <4>1, <4>4, <5>1
          <5> QED
            BY <1>1, <2>1, <2>2, <2>3, <3>1, <4>2, <4>4, <5>1, <5>2 DEF Behind, given
        <4> QED
          BY <4>3, <4>4
      <3> QED
        BY <2>3, <3>1 DEF OrderInv
    <2> QED
      BY <2>8, <2>9
  <1> QED
    BY <1>2, <1>3 DEF HandleReset, Handle

LEMMA AppendValues ==
  ASSUME NEW s \in Seq(Int), NEW e \in Int
  PROVE  Append(s, e) \in Seq(Int) /\ Values(Append(s, e)) = Values(s) \cup {e}
  <1>1. /\ DOMAIN s = 1 .. Len(s) /\ DOMAIN Append(s, e) = 1 .. Len(s) + 1 /\ Len(s) \in Nat
        /\ \A i \in 1 .. Len(s) : Append(s, e)[i] = s[i]
        /\ Append(s, e)[Len(s) + 1] = e
    OBVIOUS
  <1> QED
    BY <1>1 DEF Values

LEMMA AppendAscends ==
  ASSUME NEW s \in Seq(Int), NEW e \in Int, Ascending(s), \A d \in Values(s) : d < e
  PROVE  Ascending(Append(s, e))
  <1>1. /\ DOMAIN s = 1 .. Len(s) /\ DOMAIN Append(s, e) = 1 .. Len(s) + 1 /\ Len(s) \in Nat
        /\ \A i \in 1 .. Len(s) : Append(s, e)[i] = s[i]
        /\ Append(s, e)[Len(s) + 1] = e
    OBVIOUS
  <1>2. ASSUME NEW i \in 1 .. Len(s) + 1, NEW j \in 1 .. Len(s) + 1, i < j
        PROVE  Append(s, e)[i] < Append(s, e)[j]
    <2>1. i \in 1 .. Len(s)
      BY <1>1, <1>2
    <2>2. CASE j = Len(s) + 1
      BY <1>1, <2>1, <2>2 DEF Values
    <2>3. CASE j \in 1 .. Len(s)
      BY <1>1, <1>2, <2>1, <2>3 DEF Ascending
    <2> QED
      BY <1>1, <2>2, <2>3
  <1> QED
    BY <1>1, <1>2 DEF Ascending

\* The first of a sequence and the rest of it.
LEMMA TailValues ==
  ASSUME NEW s \in Seq(Int), s # <<>>
  PROVE  /\ Head(s) \in Int /\ Tail(s) \in Seq(Int)
         /\ Values(s) = {Head(s)} \cup Values(Tail(s))
         /\ Ascending(s) => Ascending(Tail(s)) /\ \A d \in Values(Tail(s)) : Head(s) < d
  <1>1. /\ Len(s) \in Nat \ {0} /\ DOMAIN s = 1 .. Len(s) /\ Head(s) = s[1]
        /\ DOMAIN Tail(s) = 1 .. Len(s) - 1 /\ \A i \in 1 .. Len(s) - 1 : Tail(s)[i] = s[i + 1]
    OBVIOUS
  <1>2. Head(s) \in Int /\ Tail(s) \in Seq(Int)
    OBVIOUS
  <1>3. Values(s) = {Head(s)} \cup Values(Tail(s))
    <2>1. ASSUME NEW i \in 1 .. Len(s)
          PROVE  s[i] \in {Head(s)} \cup Values(Tail(s))
      <3>1. i = 1 \/ (i - 1 \in 1 .. Len(s) - 1 /\ (i - 1) + 1 = i)
        BY <1>1
      <3> QED
        BY <1>1, <3>1 DEF Values
    <2>2. ASSUME NEW i \in 1 .. Len(s) - 1
          PROVE  Tail(s)[i] \in Values(s)
      <3>1. i + 1 \in 1 .. Len(s)
        BY <1>1
      <3> QED
        BY <1>1, <3>1 DEF Values
    <2>3. Head(s) \in Values(s)
      BY <1>1 DEF Values
    <2> QED
      BY <1>1, <2>1, <2>2, <2>3 DEF Values
  <1>4. ASSUME Ascending(s)
        PROVE  Ascending(Tail(s)) /\ \A d \in Values(Tail(s)) : Head(s) < d
    <2>1. \A i, j \in 1 .. Len(s) : i < j => s[i] < s[j]
      BY <1>1, <1>4 DEF Ascending
    <2>2. \A i \in 1 .. Len(s) - 1 : i + 1 \in 1 .. Len(s) /\ 1 < i + 1
      BY <1>1
    <2>3. \A i, j \in 1 .. Len(s) - 1 : i < j => Tail(s)[i] < Tail(s)[j]
      BY <1>1, <2>1, <2>2
    <2>4. \A i \in 1 .. Len(s) - 1 : Head(s) < Tail(s)[i]
      BY <1>1, <2>1, <2>2
    <2> QED
      BY <1>1, <2>3, <2>4 DEF Ascending, Values
  <1> QED
    BY <1>2, <1>3, <1>4

\* The event whose number is stored goes into the channel.
LEMMA OutSkip ==
  ASSUME SkipInv, OrderInv, NEW w \in Watchers, Out(w)
  PROVE  SkipInv' /\ OrderInv'
  <1> DEFINE r == [watch[w] EXCEPT !.pc = "run", !.ev = None]
             ev == watch[w].ev
             s == events[w]
  <1>1. /\ watch \in [Watchers -> WatchType] /\ watch[w] \in WatchType /\ WatchesTypeOK
        /\ first \in Int /\ cursor \in Int /\ watch[w].pc = "out"
        /\ events \in [Watchers -> Seq(Int)] /\ s \in Seq(Int) /\ shown \in [Watchers -> Seq(Int)]
        /\ ev = watch[w].pos /\ ev \in Int
        /\ UNCHANGED <<first, cursor, shown, gone, rewound>>
    BY DEF SkipInv, WatchesTypeOK, Out, relay, WatchType
  <1>2. r \in WatchType /\ r.pc = "run" /\ r.pos = ev
    <2>1. None \in Int
      BY DEF None
    <2> QED
      BY <1>1, <2>1 DEF WatchType
  <1>3. watch' = [watch EXCEPT ![w] = r] /\ events' = [events EXCEPT ![w] = Append(s, ev)]
    BY DEF Out
  <1> HIDE DEF r, ev
  <1>4. /\ watch'[w] = r /\ events'[w] = Append(s, ev)
        /\ \A v \in Watchers \ {w} : watch'[v] = watch[v] /\ events'[v] = events[v]
    BY <1>1, <1>3
  <1> HIDE DEF s
  <1>5. Append(s, ev) \in Seq(Int) /\ Values(Append(s, ev)) = Values(s) \cup {ev}
    BY <1>1, AppendValues
  <1>6. WatchesTypeOK'
    BY <1>1, <1>2, <1>3, <1>5 DEF WatchesTypeOK
  <1>7. \A e \in Int : Accounted(e) => Accounted(e)'
    <2>1. \A v \in Watchers \ {w} : InHand(v)' = InHand(v)
      BY <1>4 DEF InHand
    <2>2. InHand(w) \subseteq Values(s) \cup {ev}
      BY DEF InHand, Values, s, ev
    <2>3. Values(s) \cup {ev} \subseteq InHand(w)'
      BY <1>4, <1>5 DEF InHand, Values
    <2>4. \A v \in Watchers : \A e \in InHand(v) : e \in InHand(v)'
      BY <2>1, <2>2, <2>3
    <2>5. \A v \in Watchers : \A e \in Values(shown[v]) : e \in Values(shown[v])'
      BY <1>1
    <2> QED
      BY <1>1, <2>4, <2>5, StaysAccounted
  <1>8. SkipInv'
    <2>1. \A e \in 1 .. r.pos : Accounted(e)'
      BY <1>1, <1>2, <1>7 DEF SkipInv, ev
    <2>2. \A e \in 1 .. cursor' : Accounted(e)'
      BY <1>1, <1>7 DEF SkipInv
    <2> QED
      BY <1>2, <1>3, <1>6, <1>7, <2>1, <2>2, WatchSkip
  <1>9. OrderInv'
    <2>1. ASSUME NEW v \in Watchers \ {w}, Behind(v)
          PROVE  Behind(v)'
      BY <1>1, <1>4, <2>1 DEF Behind
    <2>2. ASSUME Behind(w)
          PROVE  Behind(w)'
      <3>1. \A e \in Values(shown[w]) \cup Values(s) : e \in Int /\ e < ev
        <4>1. \A e \in Values(shown[w]) \cup Values(s) : e \in Int
          BY <1>1, ValuesType
        <4> QED
          BY <1>1, <2>2, <4>1 DEF Behind, ev, s
      <3>2. Ascending(Append(s, ev))
        <4>1. Ascending(s)
          BY <2>2 DEF Behind, s
        <4> QED
          BY <1>1, <3>1, <4>1, AppendAscends
      <3>3. \A e \in Values(shown[w]), d \in Values(Append(s, ev)) : e < d
        BY <1>5, <2>2, <3>1 DEF Behind, s
      <3>4. \A e \in Values(shown[w]) \cup Values(Append(s, ev)) : e \in Int /\ e <= ev
        BY <1>1, <1>5, <3>1
      <3>5. cursor # Unreadable => ev <= cursor
        BY <1>1, <2>2 DEF Behind, ev
      <3>6. cursor # Unreadable =>
              \A e \in Values(shown[w]) \cup Values(Append(s, ev)) : e <= cursor
        BY <1>1, <3>4, <3>5
      <3>7. Ascending(shown[w])
        BY <2>2 DEF Behind
      <3> QED
        BY <1>1, <1>2, <1>4, <3>2, <3>3, <3>4, <3>6, <3>7 DEF Behind
    <2> QED
      BY <1>1, <2>1, <2>2 DEF OrderInv
  <1> QED
    BY <1>8, <1>9

\* The first event of the channel is printed.
LEMMA ShowSkip ==
  ASSUME SkipInv, OrderInv, NEW w \in Watchers, Show(w)
  PROVE  SkipInv' /\ OrderInv'
  <1> DEFINE s == events[w]
             e == Head(s)
             t == shown[w]
  <1>1. /\ WatchesTypeOK /\ first \in Int /\ cursor \in Int
        /\ events \in [Watchers -> Seq(Int)] /\ shown \in [Watchers -> Seq(Int)]
        /\ s \in Seq(Int) /\ s # <<>> /\ t \in Seq(Int)
        /\ UNCHANGED <<first, cursor, watch, gone, rewound>>
    BY DEF SkipInv, WatchesTypeOK, Show, relay
  <1>2. shown' = [shown EXCEPT ![w] = Append(t, e)] /\ events' = [events EXCEPT ![w] = Tail(s)]
    BY DEF Show
  <1>3. /\ shown'[w] = Append(t, e) /\ events'[w] = Tail(s)
        /\ \A v \in Watchers \ {w} : shown'[v] = shown[v] /\ events'[v] = events[v]
    BY <1>1, <1>2
  <1>4. /\ e \in Int /\ Tail(s) \in Seq(Int) /\ Values(s) = {e} \cup Values(Tail(s))
        /\ Ascending(s) => Ascending(Tail(s)) /\ \A d \in Values(Tail(s)) : e < d
    BY <1>1, TailValues
  <1> HIDE DEF e
  <1>5. Append(t, e) \in Seq(Int) /\ Values(Append(t, e)) = Values(t) \cup {e}
    BY <1>1, <1>4, AppendValues
  <1>6. WatchesTypeOK'
    BY <1>1, <1>2, <1>4, <1>5 DEF WatchesTypeOK
  <1>7. \A d \in Int : Accounted(d) => Accounted(d)'
    <2>1. \A v \in Watchers \ {w} : InHand(v)' = InHand(v) /\ Values(shown[v])' = Values(shown[v])
      BY <1>1, <1>3 DEF InHand, Values
    <2>2. \A d \in InHand(w) : d \in Values(s) \/ (watch[w].pc = "out" /\ d = watch[w].ev)
      BY DEF InHand, Values
    <2>3. \A d : d \in Values(Tail(s)) \/ (watch[w].pc = "out" /\ d = watch[w].ev) => d \in InHand(w)'
      BY <1>1, <1>3 DEF InHand, Values
    <2>4. Values(shown[w])' = Values(t) \cup {e}
      BY <1>3, <1>5
    <2>5. \A v \in Watchers : \A d \in InHand(v) : d \in InHand(v)' \/ d \in Values(shown[v])'
      BY <1>4, <2>1, <2>2, <2>3, <2>4
    <2>6. \A v \in Watchers : \A d \in Values(shown[v]) : d \in Values(shown[v])'
      BY <2>1, <2>4
    <2> QED
      BY <1>1, <2>5, <2>6, StaysAccounted
  <1> HIDE DEF s, t
  <1>8. SkipInv'
    BY <1>1, <1>6, <1>7 DEF SkipInv
  <1>9. OrderInv'
    <2>1. ASSUME NEW v \in Watchers \ {w}, Behind(v)
          PROVE  Behind(v)'
      BY <1>1, <1>3, <2>1 DEF Behind
    <2>2. ASSUME Behind(w)
          PROVE  Behind(w)'
      <3>1. /\ Ascending(t) /\ Ascending(s)
            /\ \A c \in Values(t), d \in Values(s) : c < d
            /\ \A d \in Values(t) \cup Values(s) :
                 /\ watch[w].pc \in {"reset", "run"} => d <= watch[w].pos
                 /\ watch[w].pc = "out" => d < watch[w].ev
                 /\ cursor # Unreadable => d <= cursor
            /\ watch[w].pc = "out" /\ cursor # Unreadable => watch[w].ev <= cursor
        BY <2>2 DEF Behind, s, t
      <3>2. Ascending(Append(t, e)) /\ Ascending(Tail(s))
        BY <1>1, <1>4, <3>1, AppendAscends
      <3>3. \A c \in Values(Append(t, e)), d \in Values(Tail(s)) : c < d
        BY <1>4, <1>5, <3>1, <3>2
      <3>4. Values(Append(t, e)) \cup Values(Tail(s)) = Values(t) \cup Values(s)
        BY <1>4, <1>5
      <3> QED
        BY <1>1, <1>3, <3>1, <3>2, <3>3, <3>4 DEF Behind
    <2> QED
      BY <1>1, <2>1, <2>2 DEF OrderInv
  <1> QED
    BY <1>8, <1>9

\* Every step keeps what is accounted for, and the order.
LEMMA WatchStep == SkipInv /\ OrderInv /\ [Next]_vars => SkipInv' /\ OrderInv'
  <1> SUFFICES ASSUME SkipInv, OrderInv, [Next]_vars PROVE SkipInv' /\ OrderInv'
    OBVIOUS
  <1>1. first \in Int
    BY DEF SkipInv, WatchesTypeOK
  <1>2. CASE UNCHANGED <<client, first>>
    BY <1>1, <1>2, OthersSkip
  <1>3. CASE Report \/ UNCHANGED vars
    BY <1>2, <1>3 DEF Report, vars, relay
  <1>4. CASE Trim
    <2>1. first' \in first + 1 .. Len(stream) + 1 /\ UNCHANGED client
      BY <1>4 DEF Trim
    <2>2. first' \in Int /\ first <= first'
      BY <1>1, <2>1
    <2> QED
      BY <2>1, <2>2, OthersSkip
  <1>5. ASSUME NEW c \in 1 .. MaxConns,
               \/ Dial(c) \/ Take(c) \/ Send(c) \/ Break(c)
               \/ Publish(c) \/ PublishFails(c) \/ Put(c) \/ PutFails(c)
        PROVE  SkipInv' /\ OrderInv'
    BY <1>2, <1>5 DEF Dial, Take, Send, Break, Publish, PublishFails, Put, PutFails, relay
  <1>6. ASSUME NEW w \in Watchers,
               \/ \E filter \in Filters : StartWatch(w, filter)
               \/ Connect(w) \/ HandleReset(w) \/ Handle(w) \/ Out(w) \/ Show(w)
               \/ Disconnect(w) \/ Stop(w) \/ StopInWrite(w)
        PROVE  SkipInv' /\ OrderInv'
    BY <1>6, ConnectSkip, HandleSkip, OutSkip, ShowSkip, StopSkip
  <1> QED
    BY <1>3, <1>4, <1>5, <1>6 DEF Next

LEMMA WatchInvariance == Spec => [](SkipInv /\ OrderInv)
  BY WatchInit, WatchStep, PTL DEF Spec

\* The client's cursor passes no event over without a cause that is known.
THEOREM NothingIsSkipped == Spec => []NothingSkipped
  <1>1. SkipInv => NothingSkipped
    BY DEF SkipInv, NothingSkipped, Accounted
  <1> QED
    BY <1>1, WatchInvariance, PTL

\* A watch prints in order and nothing twice, unless another sets the cursor back.
THEOREM PrintsOnceInOrder == Spec => []OnceInOrder
  <1>1. OrderInv => OnceInOrder
    BY DEF OrderInv, OnceInOrder, Behind, Ascending
  <1> QED
    BY <1>1, WatchInvariance, PTL
=============================================================================
