----------------------------- MODULE NodeProofs -----------------------------
(***************************************************************************)
(* Proofs about what a node's clients watch, wait for and store:           *)
(*  - SessionStream, for any number of viewers, chunks and kills and any   *)
(*    capacity: a viewer that has had the history misses no output that    *)
(*    its channel had room for, and the counts are exact;                  *)
(*  - WaitHandler, for any sessions, Waits and capacity: a blocked Wait    *)
(*    whose sessions have exited has an event to wake it;                  *)
(*  - KVStore, for every set of namespaces and keys and any number of      *)
(*    writes: the timers are those of the values that are stored.          *)
(***************************************************************************)
EXTENDS SessionStream, WaitHandler, KVStore, FiniteSetTheorems, TLAPS

-----------------------------------------------------------------------------
(* SessionStream: the inductive invariant                                  *)

ViewerType ==
  [kind : Kinds,
   pc : {"idle", "refused", "subscribe", "history", "loop", "select",
         "unsubscribe", "detach", "ended"},
   waitCh : Nat]

\* The values every variable may take.
TypeOK ==
  /\ logged \in Nat /\ sent \in Nat /\ sent <= logged
  /\ generation \in Nat /\ attachedCount \in Int
  /\ ch \in [Viewers -> Seq(Nat)] /\ \A v \in Viewers : Len(ch[v]) <= BufSize
  /\ viewer \in [Viewers -> ViewerType]
  /\ seen \in [Viewers -> SUBSET Nat] /\ dropped \in [Viewers -> SUBSET Nat]

AttachedPCs   == {"history", "loop", "select", "unsubscribe", "detach"}
SubscribedPCs == {"history", "loop", "select", "unsubscribe"}
Attached == {v \in Viewers : viewer[v].kind = "attach" /\ viewer[v].pc \in AttachedPCs}

\* Only who is attached detaches.
DetachIsOfAttach == \A v \in Viewers : viewer[v].pc = "detach" => viewer[v].kind = "attach"

StreamInv == TypeOK /\ NoOutputGap /\ AttachedCountExact /\ DetachIsOfAttach

-----------------------------------------------------------------------------
(* Sequences as channels                                                   *)

\* A chunk that is sent is added to what the channel holds.
LEMMA ToSetAppend ==
  ASSUME NEW q \in Seq(Nat), NEW n \in Nat
  PROVE  Append(q, n) \in Seq(Nat) /\ ToSet(Append(q, n)) = ToSet(q) \cup {n}
  <1>1. Append(q, n) \in Seq(Nat) /\ Len(Append(q, n)) = Len(q) + 1
    OBVIOUS
  <1>2. \A i \in 1 .. Len(q) : Append(q, n)[i] = q[i]
    OBVIOUS
  <1>3. Append(q, n)[Len(q) + 1] = n
    OBVIOUS
  <1>4. ASSUME NEW x \in ToSet(Append(q, n))
        PROVE  x \in ToSet(q) \cup {n}
    <2>1. PICK i \in 1 .. Len(q) + 1 : x = Append(q, n)[i]
      BY <1>1 DEF ToSet
    <2> QED
      BY <1>2, <1>3, <2>1 DEF ToSet
  <1>5. ASSUME NEW x \in ToSet(q) \cup {n}
        PROVE  x \in ToSet(Append(q, n))
    BY <1>1, <1>2, <1>3 DEF ToSet
  <1> QED
    BY <1>1, <1>4, <1>5

\* What is taken from a channel is all that it loses.
LEMMA ToSetTail ==
  ASSUME NEW q \in Seq(Nat), q # <<>>
  PROVE  /\ Head(q) \in Nat /\ Tail(q) \in Seq(Nat)
         /\ ToSet(q) \subseteq {Head(q)} \cup ToSet(Tail(q))
  <1>1. Head(q) \in Nat /\ Tail(q) \in Seq(Nat) /\ Len(Tail(q)) = Len(q) - 1 /\ Len(q) \in Nat \ {0}
    OBVIOUS
  <1>2. ASSUME NEW i \in 1 .. Len(q)
        PROVE  q[i] \in {Head(q)} \cup ToSet(Tail(q))
    <2>1. CASE i = 1
      BY <2>1
    <2>2. CASE i # 1
      <3>1. i - 1 \in 1 .. Len(Tail(q)) /\ Tail(q)[i - 1] = q[i]
        BY <1>1, <2>2
      <3>2. DOMAIN Tail(q) = 1 .. Len(Tail(q))
        BY <1>1
      <3>3. Tail(q)[i - 1] \in ToSet(Tail(q))
        BY <3>1, <3>2, Zenon DEF ToSet
      <3> QED
        BY <3>1, <3>3
    <2> QED
      BY <2>1, <2>2
  <1> QED
    BY <1>1, <1>2 DEF ToSet

-----------------------------------------------------------------------------
(* SessionStream: the steps                                                *)

\* The initial states satisfy the invariant.
LEMMA StreamInitInv == Init => StreamInv
  <1> SUFFICES ASSUME Init PROVE StreamInv
    OBVIOUS
  <1>1. \A v \in Viewers : viewer[v].pc = "idle"
    BY DEF Init, Viewer
  <1>2. TypeOK
    BY BoundsAssumption DEF Init, TypeOK, Viewer, ViewerType
  <1>3. Attached = {} /\ {v \in Viewers : viewer[v].pc \in SubscribedPCs} = {}
    BY <1>1 DEF Attached, AttachedPCs, SubscribedPCs
  <1>4. AttachedCountExact
    BY <1>3, FS_EmptySet DEF Init, AttachedCountExact, Attached, AttachedPCs, SubscribedPCs
  <1> QED
    BY <1>1, <1>2, <1>4 DEF StreamInv, NoOutputGap, DetachIsOfAttach

\* The counts depend on the handlers alone.
LEMMA CountsKept ==
  ASSUME AttachedCountExact, UNCHANGED <<attachedCount, listeners>>, Attached' = Attached,
         {v \in Viewers : viewer'[v].pc \in SubscribedPCs} = {v \in Viewers : viewer[v].pc \in SubscribedPCs}
  PROVE  AttachedCountExact'
  BY DEF AttachedCountExact, Attached, AttachedPCs, SubscribedPCs

\* A handler moves on and does nothing else.
LEMMA MoveInv ==
  ASSUME StreamInv, NEW v \in Viewers,
         CheckRunning(v) \/ EnterSelect(v) \/ TakeFrame(v) \/ TakeStatus(v) \/ ClientLeaves(v)
  PROVE  StreamInv'
  <1>1. UNCHANGED <<outputVars, statusVars, attachedCount, listeners, ch, seen, dropped>>
    BY DEF CheckRunning, EnterSelect, TakeFrame, TakeStatus, ClientLeaves
  <1>2. /\ viewer' \in [Viewers -> ViewerType] /\ \A u \in Viewers \ {v} : viewer'[u] = viewer[u]
        /\ viewer'[v].kind = viewer[v].kind
        /\ \/ viewer[v].pc = "idle" /\ viewer'[v].pc \in {"refused", "subscribe"}
           \/ viewer[v].pc \in {"loop", "select"} /\ viewer'[v].pc \in {"loop", "select", "unsubscribe"}
    <2>1. viewer \in [Viewers -> ViewerType] /\ generation \in Nat /\ viewer[v].kind \in Kinds
      BY DEF StreamInv, TypeOK, ViewerType
    <2> USE <2>1 DEF Goto, Viewer, ViewerType
    <2>2. CASE CheckRunning(v)
      BY <2>2 DEF CheckRunning
    <2>3. CASE EnterSelect(v)
      BY <2>3 DEF EnterSelect
    <2>4. CASE TakeFrame(v)
      BY <2>4 DEF TakeFrame
    <2>5. CASE TakeStatus(v)
      BY <2>5 DEF TakeStatus
    <2>6. CASE ClientLeaves(v)
      BY <2>6 DEF ClientLeaves
    <2> QED
      BY <2>2, <2>3, <2>4, <2>5, <2>6
  <1>3. TypeOK'
    BY <1>1, <1>2 DEF StreamInv, TypeOK, outputVars, statusVars
  <1>4. NoOutputGap'
    BY <1>1, <1>2 DEF StreamInv, NoOutputGap, outputVars
  <1>5. Attached' = Attached
    BY <1>2 DEF Attached, AttachedPCs
  <1>6. {u \in Viewers : viewer'[u].pc \in SubscribedPCs} = {u \in Viewers : viewer[u].pc \in SubscribedPCs}
    BY <1>2 DEF SubscribedPCs
  <1>7. AttachedCountExact' /\ DetachIsOfAttach'
    BY <1>1, <1>2, <1>5, <1>6, CountsKept DEF StreamInv, DetachIsOfAttach
  <1> QED
    BY <1>3, <1>4, <1>7 DEF StreamInv

\* What the session does itself.
LEMMA SessionInv ==
  ASSUME StreamInv, ReaderLog \/ KillSession \/ ProcessCompletes \/ UNCHANGED vars
  PROVE  StreamInv'
  <1>1. UNCHANGED <<sent, attachedCount, listeners, ch, viewer, seen, dropped>>
    BY DEF ReaderLog, KillSession, ProcessCompletes, vars, outputVars, statusVars
  <1>2. logged' \in {logged, logged + 1} /\ generation' \in {generation, generation + 1}
    BY DEF ReaderLog, KillSession, ProcessCompletes, SetStatus, vars, outputVars, statusVars
  <1>3. TypeOK'
    BY <1>1, <1>2 DEF StreamInv, TypeOK
  <1>4. NoOutputGap' /\ AttachedCountExact' /\ DetachIsOfAttach'
    BY <1>1 DEF StreamInv, NoOutputGap, AttachedCountExact, DetachIsOfAttach
  <1> QED
    BY <1>3, <1>4 DEF StreamInv

\* A chunk is broadcast: each subscriber has room for it, or drops it.
LEMMA ReaderSendInv ==
  ASSUME StreamInv, ReaderSend
  PROVE  StreamInv'
  <1>1. /\ sent' = sent + 1 /\ sent < logged /\ sent \in Nat /\ logged \in Nat
        /\ UNCHANGED <<logged, generation, attachedCount, listeners, viewer, seen>>
    BY DEF ReaderSend, StreamInv, TypeOK, statusVars
  <1>2. ch \in [Viewers -> Seq(Nat)] /\ dropped \in [Viewers -> SUBSET Nat]
    BY DEF StreamInv, TypeOK
  <1>3. ASSUME NEW v \in Viewers
        PROVE  /\ ch'[v] \in Seq(Nat) /\ Len(ch'[v]) <= BufSize
               /\ ToSet(ch[v]) \subseteq ToSet(ch'[v])
               /\ dropped'[v] \in SUBSET Nat /\ dropped[v] \subseteq dropped'[v]
               /\ v \in listeners => sent' \in ToSet(ch'[v]) \cup dropped'[v]
    <2>1. /\ Append(ch[v], sent') \in Seq(Nat) /\ Len(Append(ch[v], sent')) = Len(ch[v]) + 1
          /\ ToSet(Append(ch[v], sent')) = ToSet(ch[v]) \cup {sent'}
      BY <1>1, <1>2, ToSetAppend
    <2>2. /\ ch'[v] = IF v \in listeners /\ Len(ch[v]) < BufSize THEN Append(ch[v], sent') ELSE ch[v]
          /\ dropped'[v] = IF v \in listeners /\ Len(ch[v]) = BufSize
                           THEN dropped[v] \cup {sent'} ELSE dropped[v]
      BY DEF ReaderSend
    <2>3. Len(ch[v]) \in Nat /\ BufSize \in Nat /\ Len(ch[v]) <= BufSize
      BY <1>2, BoundsAssumption DEF StreamInv, TypeOK
    <2>4. ch[v] \in Seq(Nat) /\ dropped[v] \in SUBSET Nat /\ sent' \in Nat
      BY <1>1, <1>2
    <2>5. CASE v \notin listeners
      BY <2>2, <2>3, <2>4, <2>5
    <2>6. CASE v \in listeners /\ Len(ch[v]) < BufSize
      <3>1. ch'[v] = Append(ch[v], sent') /\ dropped'[v] = dropped[v]
        BY <2>2, <2>3, <2>6
      <3> QED
        BY <2>1, <2>3, <2>4, <2>6, <3>1
    <2>7. CASE v \in listeners /\ Len(ch[v]) = BufSize
      <3>1. ch'[v] = ch[v] /\ dropped'[v] = dropped[v] \cup {sent'}
        BY <2>2, <2>3, <2>7
      <3> QED
        BY <2>3, <2>4, <3>1
    <2> QED
      BY <2>3, <2>5, <2>6, <2>7
  <1>4. ch' \in [Viewers -> Seq(Nat)] /\ dropped' \in [Viewers -> SUBSET Nat]
    BY <1>3 DEF ReaderSend
  <1>5. TypeOK'
    BY <1>1, <1>3, <1>4 DEF StreamInv, TypeOK
  <1>6. ASSUME NEW v \in Viewers, viewer[v].pc \in {"loop", "select"}
        PROVE  1 .. sent' \subseteq seen[v] \cup ToSet(ch'[v]) \cup dropped'[v]
    <2>1. v \in listeners /\ 1 .. sent \subseteq seen[v] \cup ToSet(ch[v]) \cup dropped[v]
      BY <1>6 DEF StreamInv, AttachedCountExact, NoOutputGap
    <2>2. 1 .. sent' = (1 .. sent) \cup {sent'}
      BY <1>1
    <2>3. /\ ToSet(ch[v]) \subseteq ToSet(ch'[v]) /\ dropped[v] \subseteq dropped'[v]
          /\ sent' \in ToSet(ch'[v]) \cup dropped'[v]
      BY <1>3, <2>1
    <2> QED
      BY <2>1, <2>2, <2>3, Zenon
  <1>7. NoOutputGap'
    BY <1>1, <1>6 DEF NoOutputGap
  <1>8. AttachedCountExact' /\ DetachIsOfAttach'
    BY <1>1 DEF StreamInv, AttachedCountExact, DetachIsOfAttach
  <1> QED
    BY <1>5, <1>7, <1>8 DEF StreamInv

\* A handler that subscribes is counted once, if it is an attach.
LEMMA SubscribeInv ==
  ASSUME StreamInv, NEW v \in Viewers, Subscribe(v)
  PROVE  StreamInv'
  <1>1. /\ viewer[v].pc = "subscribe" /\ listeners' = listeners \cup {v}
        /\ attachedCount' = attachedCount + (IF viewer[v].kind = "attach" THEN 1 ELSE 0)
        /\ UNCHANGED <<outputVars, statusVars, ch, seen, dropped>>
    BY DEF Subscribe
  <1>2. /\ viewer' \in [Viewers -> ViewerType] /\ \A u \in Viewers \ {v} : viewer'[u] = viewer[u]
        /\ viewer'[v].kind = viewer[v].kind /\ viewer'[v].pc = "history"
    <2>1. viewer \in [Viewers -> ViewerType] /\ viewer[v].kind \in Kinds
      BY DEF StreamInv, TypeOK, ViewerType
    <2> QED
      BY <2>1 DEF Subscribe, Goto, Viewer, ViewerType
  <1>3. IsFiniteSet(Attached) /\ attachedCount = Cardinality(Attached)
    BY ViewersAssumption, FS_Subset DEF StreamInv, AttachedCountExact, Attached, AttachedPCs
  <1>4. v \notin Attached /\ Attached' = IF viewer[v].kind = "attach" THEN Attached \cup {v} ELSE Attached
    BY <1>1, <1>2 DEF Attached, AttachedPCs
  <1>5. attachedCount' = Cardinality(Attached') /\ attachedCount' \in Int
    BY <1>1, <1>3, <1>4, FS_AddElement, FS_CardinalityType
  <1>6. listeners' = {u \in Viewers : viewer'[u].pc \in SubscribedPCs}
    BY <1>1, <1>2 DEF StreamInv, AttachedCountExact, SubscribedPCs
  <1>7. AttachedCountExact'
    BY <1>5, <1>6 DEF AttachedCountExact, Attached, AttachedPCs, SubscribedPCs
  <1>8. TypeOK' /\ NoOutputGap' /\ DetachIsOfAttach'
    <2>1. TypeOK'
      BY <1>1, <1>2, <1>5 DEF StreamInv, TypeOK, outputVars, statusVars
    <2>2. NoOutputGap'
      BY <1>1, <1>2 DEF StreamInv, NoOutputGap, outputVars
    <2>3. DetachIsOfAttach'
      BY <1>2 DEF StreamInv, DetachIsOfAttach
    <2> QED
      BY <2>1, <2>2, <2>3
  <1> QED
    BY <1>7, <1>8 DEF StreamInv

\* The log holds everything that has been broadcast.
LEMMA ReplayHistoryInv ==
  ASSUME StreamInv, NEW v \in Viewers, ReplayHistory(v)
  PROVE  StreamInv'
  <1>1. /\ viewer[v].pc = "history" /\ seen' = [seen EXCEPT ![v] = 1 .. logged]
        /\ UNCHANGED <<outputVars, statusVars, attachedCount, listeners, ch, dropped>>
    BY DEF ReplayHistory
  <1>2. /\ viewer' \in [Viewers -> ViewerType] /\ \A u \in Viewers \ {v} : viewer'[u] = viewer[u]
        /\ viewer'[v].kind = viewer[v].kind /\ viewer'[v].pc = "loop"
    <2>1. viewer \in [Viewers -> ViewerType] /\ viewer[v].kind \in Kinds
      BY DEF StreamInv, TypeOK, ViewerType
    <2> QED
      BY <2>1 DEF ReplayHistory, Goto, Viewer, ViewerType
  <1>3. seen \in [Viewers -> SUBSET Nat] /\ logged \in Nat /\ sent \in Nat /\ sent <= logged
    BY DEF StreamInv, TypeOK
  <1>4. /\ seen' \in [Viewers -> SUBSET Nat] /\ 1 .. sent \subseteq seen'[v]
        /\ \A u \in Viewers \ {v} : seen'[u] = seen[u]
    BY <1>1, <1>3
  <1>5. TypeOK'
    BY <1>1, <1>2, <1>4 DEF StreamInv, TypeOK, outputVars, statusVars
  <1>6. ASSUME NEW u \in Viewers, viewer'[u].pc \in {"loop", "select"}
        PROVE  1 .. sent \subseteq seen'[u] \cup ToSet(ch[u]) \cup dropped[u]
    BY <1>2, <1>4, <1>6 DEF StreamInv, NoOutputGap
  <1>7. NoOutputGap'
    BY <1>1, <1>6 DEF NoOutputGap, outputVars
  <1>8. Attached' = Attached
    BY <1>1, <1>2 DEF Attached, AttachedPCs
  <1>9. {u \in Viewers : viewer'[u].pc \in SubscribedPCs} = {u \in Viewers : viewer[u].pc \in SubscribedPCs}
    BY <1>1, <1>2 DEF SubscribedPCs
  <1>10. AttachedCountExact' /\ DetachIsOfAttach'
    BY <1>1, <1>2, <1>8, <1>9, CountsKept DEF StreamInv, DetachIsOfAttach
  <1> QED
    BY <1>5, <1>7, <1>10 DEF StreamInv

\* A chunk that leaves the channel is sent to the client.
LEMMA TakeOutputInv ==
  ASSUME StreamInv, NEW v \in Viewers, TakeOutput(v)
  PROVE  StreamInv'
  <1>1. /\ viewer[v].pc = "select" /\ ch[v] # <<>>
        /\ UNCHANGED <<outputVars, statusVars, attachedCount, listeners, dropped>>
    BY DEF TakeOutput
  <1>2. /\ viewer' \in [Viewers -> ViewerType] /\ \A u \in Viewers \ {v} : viewer'[u] = viewer[u]
        /\ viewer'[v].kind = viewer[v].kind /\ viewer'[v].pc = "loop"
    <2>1. viewer \in [Viewers -> ViewerType] /\ viewer[v].kind \in Kinds
      BY DEF StreamInv, TypeOK, ViewerType
    <2> QED
      BY <2>1 DEF TakeOutput, Goto, Viewer, ViewerType
  <1>3. /\ seen \in [Viewers -> SUBSET Nat] /\ ch \in [Viewers -> Seq(Nat)]
        /\ BufSize \in Nat /\ Len(ch[v]) <= BufSize
    BY BoundsAssumption DEF StreamInv, TypeOK
  <1>4. /\ Head(ch[v]) \in Nat /\ Tail(ch[v]) \in Seq(Nat) /\ Len(Tail(ch[v])) <= BufSize
        /\ ToSet(ch[v]) \subseteq {Head(ch[v])} \cup ToSet(Tail(ch[v]))
    BY <1>1, <1>3, ToSetTail
  <1>5. /\ ch' = [ch EXCEPT ![v] = Tail(ch[v])]
        /\ seen' = [seen EXCEPT ![v] = seen[v] \cup {Head(ch[v])}]
    BY DEF TakeOutput
  <1>6. /\ ch' \in [Viewers -> Seq(Nat)] /\ seen' \in [Viewers -> SUBSET Nat]
        /\ ch'[v] = Tail(ch[v]) /\ seen'[v] = seen[v] \cup {Head(ch[v])}
        /\ \A u \in Viewers \ {v} : ch'[u] = ch[u] /\ seen'[u] = seen[u]
    BY <1>3, <1>4, <1>5
  <1>7. \A u \in Viewers : Len(ch'[u]) <= BufSize
    BY <1>4, <1>6 DEF StreamInv, TypeOK
  <1>8. TypeOK'
    BY <1>1, <1>2, <1>6, <1>7 DEF StreamInv, TypeOK, outputVars, statusVars
  <1>9. ASSUME NEW u \in Viewers, viewer'[u].pc \in {"loop", "select"}
        PROVE  1 .. sent \subseteq seen'[u] \cup ToSet(ch'[u]) \cup dropped[u]
    <2>1. CASE u = v
      <3>1. 1 .. sent \subseteq seen[v] \cup ToSet(ch[v]) \cup dropped[v]
        BY <1>1 DEF StreamInv, NoOutputGap
      <3> QED
        BY <1>4, <1>6, <2>1, <3>1, Zenon
    <2>2. CASE u # v
      BY <1>2, <1>6, <1>9, <2>2 DEF StreamInv, NoOutputGap
    <2> QED
      BY <2>1, <2>2
  <1>10. NoOutputGap'
    BY <1>1, <1>9 DEF NoOutputGap, outputVars
  <1>11. Attached' = Attached
    BY <1>1, <1>2 DEF Attached, AttachedPCs
  <1>12. {u \in Viewers : viewer'[u].pc \in SubscribedPCs} = {u \in Viewers : viewer[u].pc \in SubscribedPCs}
    BY <1>1, <1>2 DEF SubscribedPCs
  <1>13. AttachedCountExact' /\ DetachIsOfAttach'
    BY <1>1, <1>2, <1>11, <1>12, CountsKept DEF StreamInv, DetachIsOfAttach
  <1> QED
    BY <1>8, <1>10, <1>13 DEF StreamInv

\* A handler that unsubscribes leaves the broadcaster; an attach is still counted.
LEMMA UnsubscribeInv ==
  ASSUME StreamInv, NEW v \in Viewers, Unsubscribe(v)
  PROVE  StreamInv'
  <1>1. /\ viewer[v].pc = "unsubscribe" /\ listeners' = listeners \ {v}
        /\ ch' = [ch EXCEPT ![v] = <<>>]
        /\ UNCHANGED <<outputVars, statusVars, attachedCount, seen, dropped>>
    BY DEF Unsubscribe
  <1>2. /\ viewer' \in [Viewers -> ViewerType] /\ \A u \in Viewers \ {v} : viewer'[u] = viewer[u]
        /\ viewer'[v].kind = viewer[v].kind
        /\ viewer'[v].pc = IF viewer[v].kind = "attach" THEN "detach" ELSE "ended"
    <2>1. viewer \in [Viewers -> ViewerType] /\ viewer[v].kind \in Kinds
      BY DEF StreamInv, TypeOK, ViewerType
    <2> QED
      BY <2>1 DEF Unsubscribe, Goto, Viewer, ViewerType
  <1>3. /\ ch' \in [Viewers -> Seq(Nat)] /\ \A u \in Viewers : Len(ch'[u]) <= BufSize
        /\ \A u \in Viewers \ {v} : ch'[u] = ch[u]
    <2>1. ch \in [Viewers -> Seq(Nat)] /\ \A u \in Viewers : Len(ch[u]) <= BufSize
      BY DEF StreamInv, TypeOK
    <2> QED
      BY <1>1, <2>1, BoundsAssumption
  <1>4. TypeOK'
    BY <1>1, <1>2, <1>3 DEF StreamInv, TypeOK, outputVars, statusVars
  <1>5. NoOutputGap'
    BY <1>1, <1>2, <1>3 DEF StreamInv, NoOutputGap, outputVars
  <1>6. Attached' = Attached
    BY <1>1, <1>2 DEF Attached, AttachedPCs
  <1>7. listeners' = {u \in Viewers : viewer'[u].pc \in SubscribedPCs}
    BY <1>1, <1>2 DEF StreamInv, AttachedCountExact, SubscribedPCs
  <1>8. AttachedCountExact'
    BY <1>1, <1>6, <1>7 DEF StreamInv, AttachedCountExact, Attached, AttachedPCs, SubscribedPCs
  <1>9. DetachIsOfAttach'
    BY <1>2 DEF StreamInv, DetachIsOfAttach
  <1> QED
    BY <1>4, <1>5, <1>8, <1>9 DEF StreamInv

\* Detach takes back what the same handler counted.
LEMMA DetachInv ==
  ASSUME StreamInv, NEW v \in Viewers, Detach(v)
  PROVE  StreamInv'
  <1>1. /\ viewer[v].pc = "detach" /\ attachedCount' = attachedCount - 1
        /\ UNCHANGED <<outputVars, statusVars, listeners, ch, seen, dropped>>
    BY DEF Detach
  <1>2. /\ viewer' \in [Viewers -> ViewerType] /\ \A u \in Viewers \ {v} : viewer'[u] = viewer[u]
        /\ viewer'[v].pc = "ended"
    <2>1. viewer \in [Viewers -> ViewerType] /\ viewer[v].kind \in Kinds
      BY DEF StreamInv, TypeOK, ViewerType
    <2> QED
      BY <2>1 DEF Detach, Goto, Viewer, ViewerType
  <1>3. IsFiniteSet(Attached) /\ attachedCount = Cardinality(Attached)
    BY ViewersAssumption, FS_Subset DEF StreamInv, AttachedCountExact, Attached, AttachedPCs
  <1>4. v \in Attached /\ Attached' = Attached \ {v}
    BY <1>1, <1>2 DEF StreamInv, DetachIsOfAttach, Attached, AttachedPCs
  <1>5. attachedCount' = Cardinality(Attached') /\ attachedCount' \in Int
    BY <1>1, <1>3, <1>4, FS_RemoveElement, FS_CardinalityType
  <1>6. listeners' = {u \in Viewers : viewer'[u].pc \in SubscribedPCs}
    BY <1>1, <1>2 DEF StreamInv, AttachedCountExact, SubscribedPCs
  <1>7. AttachedCountExact'
    BY <1>5, <1>6 DEF AttachedCountExact, Attached, AttachedPCs, SubscribedPCs
  <1>8. TypeOK'
    BY <1>1, <1>2, <1>5 DEF StreamInv, TypeOK, outputVars, statusVars
  <1>9. NoOutputGap'
    BY <1>1, <1>2 DEF StreamInv, NoOutputGap, outputVars
  <1>10. DetachIsOfAttach'
    BY <1>2 DEF StreamInv, DetachIsOfAttach
  <1> QED
    BY <1>7, <1>8, <1>9, <1>10 DEF StreamInv

-----------------------------------------------------------------------------
(* SessionStream: the theorems                                             *)

\* Every step keeps the invariant.
LEMMA StreamStepInv == StreamInv /\ [Next]_vars => StreamInv'
  <1> SUFFICES ASSUME StreamInv, [Next]_vars PROVE StreamInv'
    OBVIOUS
  <1>1. CASE ReaderLog \/ KillSession \/ ProcessCompletes \/ UNCHANGED vars
    BY <1>1, SessionInv
  <1>2. CASE ReaderSend
    BY <1>2, ReaderSendInv
  <1>3. CASE \E v \in Viewers : HandlerStep(v) \/ TakeFrame(v) \/ ClientLeaves(v)
    <2>1. PICK v \in Viewers : HandlerStep(v) \/ TakeFrame(v) \/ ClientLeaves(v)
      BY <1>3
    <2> QED
      BY <2>1, MoveInv, SubscribeInv, ReplayHistoryInv, TakeOutputInv, UnsubscribeInv, DetachInv
      DEF HandlerStep
  <1> QED
    BY <1>1, <1>2, <1>3 DEF Next

\* The invariant holds throughout.
LEMMA StreamInvariance == Spec => []StreamInv
  BY StreamInitInv, StreamStepInv, PTL DEF Spec

\* A viewer that has had the history misses no chunk its channel had room for:
\* the reader logs before it broadcasts, the handlers subscribe before they
\* read the log.
THEOREM NoOutputIsMissed == Spec => []NoOutputGap
  <1>1. StreamInv => NoOutputGap
    BY DEF StreamInv
  <1> QED
    BY <1>1, StreamInvariance, PTL

\* attachedCount and the broadcaster's listeners are exactly the handlers that
\* are between Attach and Detach, and between Subscribe and Unsubscribe.
THEOREM CountsAreExact == Spec => []AttachedCountExact
  <1>1. StreamInv => AttachedCountExact
    BY DEF StreamInv
  <1> QED
    BY <1>1, StreamInvariance, PTL

-----------------------------------------------------------------------------
(* WaitHandler: a blocked Wait has an event to wake it                     *)

WaitType ==
  [pc : {"idle", "subscribe", "check", "blocked", "answered", "timed out"},
   id : Sessions \cup {NoSession}, byTag : BOOLEAN, condition : {"all", "any"}]

\* The values every variable may take.
WaitTypeOK ==
  /\ watch \in [Sessions -> {"none", "running", "completed", "killed"}]
  /\ exit \in [Sessions -> {"none", "alive", "completed", "announced"}]
  /\ tagged \subseteq Sessions /\ subs \subseteq Waiters
  /\ wait \in [Waiters -> WaitType]
  /\ events \in [Waiters -> 0 .. EventBuf]

\* A Wait checks, and sleeps, under a subscription.
SubscribedWaits == \A w \in Waiters : wait[w].pc \in {"check", "blocked"} => w \in subs

\* The status of a session precedes the end of its waiter goroutine, and no Kill
\* takes it back.
ExitedIsOver == \A s \in Sessions : exit[s] \in {"completed", "announced"} => Over(s)

WaitInv == WaitTypeOK /\ SubscribedWaits /\ ExitedIsOver /\ BlockedHasEvent

\* What BlockedHasEvent says of one Wait.
Announced(w) == Due(w, {"announced"})
Wakes(w) == wait[w].pc = "blocked" /\ Announced(w) => events[w] > 0

\* A Wait that gives an ID is due because of that session, whatever its tag brings.
LEMMA DueByID ==
  ASSUME WaitTypeOK, NEW w \in Waiters, wait[w].id # NoSession
  PROVE  /\ wait[w].id \in Sessions
         /\ Announced(w) <=> /\ Over(wait[w].id) /\ Matches(w, wait[w].id)
                             /\ exit[wait[w].id] = "announced"
  <1>1. wait[w].id \in Sessions
    BY DEF WaitTypeOK, WaitType
  <1>2. \A s \in Sessions : Matches(w, s) => s = wait[w].id
    BY DEF Matches
  <1>3. Over(wait[w].id) => Satisfied(w)
    BY DEF Satisfied, EndedByID
  <1> QED
    BY <1>1, <1>2, <1>3 DEF Announced, Due

\* A Wait by tag alone is due because of the sessions that carry the tag.
LEMMA DueByTag ==
  ASSUME NEW w \in Waiters, wait[w].id = NoSession
  PROVE  Announced(w) <=> /\ EndedByTag(w) /\ \E s \in Sessions : Over(s) /\ s \in tagged
                          /\ \A s \in Sessions : Over(s) /\ s \in tagged => exit[s] = "announced"
  <1>1. CASE wait[w].byTag
    <2>1. \A s \in Sessions : Matches(w, s) <=> s \in tagged
      BY <1>1 DEF Matches
    <2>2. Satisfied(w) <=> EndedByTag(w)
      BY DEF Satisfied, EndedByID
    <2> QED
      BY <2>1, <2>2 DEF Announced, Due
  <1>2. CASE ~wait[w].byTag
    BY <1>2 DEF Announced, Due, Satisfied, EndedByID, EndedByTag
  <1> QED
    BY <1>1, <1>2

\* Whether a Wait is due depends on its own request and on the sessions whose
\* events it gets alone.
LEMMA DueSame ==
  ASSUME WaitTypeOK, NEW w \in Waiters, wait'[w] = wait[w], tagged' \subseteq Sessions,
         \A s \in Sessions : (Matches(w, s) <=> Matches(w, s)'),
         \A s \in Sessions : Matches(w, s) =>
           /\ Over(s) <=> Over(s)'
           /\ watch[s] = "none" <=> watch'[s] = "none"
           /\ exit'[s] = exit[s]
  PROVE  Announced(w)' <=> Announced(w)
  <1>1. CASE wait[w].id # NoSession
    <2>1. PICK s \in Sessions : s = wait[w].id
      BY <1>1, DueByID
    <2>2. Announced(w) <=> Over(s) /\ Matches(w, s) /\ exit[s] = "announced"
      BY <1>1, <2>1, DueByID
    <2>3. Announced(w)' <=> Over(s)' /\ Matches(w, s)' /\ exit'[s] = "announced"
      <3>1. \A t \in Sessions : Matches(w, t)' => t = s
        BY <1>1, <2>1 DEF Matches
      <3>2. Over(s)' => Satisfied(w)'
        BY <1>1, <2>1 DEF Satisfied, EndedByID, Over
      <3> QED
        BY <2>1, <3>1, <3>2 DEF Announced, Due
    <2> QED
      BY <2>1, <2>2, <2>3
  <1>2. CASE wait[w].id = NoSession /\ wait[w].byTag
    <2>1. \A s \in Sessions : (Matches(w, s) <=> s \in tagged) /\ (Matches(w, s)' <=> s \in tagged')
      BY <1>2 DEF Matches
    <2>2. \A s : s \in Matching' <=> s \in Matching
      BY <2>1 DEF Matching, WaitTypeOK
    <2>3. \A s \in Matching : Over(s)' <=> Over(s)
      BY <2>1 DEF Matching, WaitTypeOK
    <2>4. EndedByTag(w) <=>
            /\ \E s \in Matching : Over(s)
            /\ wait[w].condition = "all" => \A s \in Matching : Over(s)
      BY <1>2 DEF EndedByTag
    <2>5. EndedByTag(w)' <=>
            /\ \E s \in Matching' : Over(s)'
            /\ wait[w].condition = "all" => \A s \in Matching' : Over(s)'
      BY <1>2 DEF EndedByTag
    <2>6. EndedByTag(w)' <=> EndedByTag(w)
      BY <2>2, <2>3, <2>4, <2>5
    <2>7. Satisfied(w) <=> EndedByTag(w)
      BY <1>2 DEF Satisfied, EndedByID
    <2>8. Satisfied(w)' <=> EndedByTag(w)'
      BY <1>2 DEF Satisfied, EndedByID
    <2> QED
      BY <2>6, <2>7, <2>8 DEF Announced, Due
  <1>3. CASE wait[w].id = NoSession /\ ~wait[w].byTag
    BY <1>3 DEF Announced, Due, Satisfied, EndedByID, EndedByTag
  <1> QED
    BY <1>1, <1>2, <1>3

\* BlockedHasEvent, Wait by Wait.
LEMMA WakesAll == BlockedHasEvent <=> \A w \in Waiters : Wakes(w)
  BY DEF BlockedHasEvent, Wakes, Announced

\* A Wait goes from one of its program points to the next: its request stays.
LEMMA AtType ==
  ASSUME WaitTypeOK, NEW w \in Waiters,
         NEW pc \in {"idle", "subscribe", "check", "blocked", "answered", "timed out"}
  PROVE  /\ At(w, pc) \in [Waiters -> WaitType]
         /\ At(w, pc)[w].pc = pc
         /\ \A v \in Waiters : v # w => At(w, pc)[v] = wait[v]
  BY DEF At, Wait, WaitTypeOK, WaitType

\* An empty channel is within the capacity.
LEMMA EmptyChannel == 0 \in 0 .. EventBuf
  BY EventBufAssumption

\* The initial states satisfy the invariant.
LEMMA WaitInitInv == WaitInit => WaitInv
  <1> SUFFICES ASSUME WaitInit PROVE WaitInv
    OBVIOUS
  <1>1. \A w \in Waiters : wait[w].pc = "idle"
    BY DEF WaitInit, Wait
  <1>2. WaitTypeOK
    BY EventBufAssumption DEF WaitInit, WaitTypeOK, Wait, WaitType
  <1>3. SubscribedWaits /\ ExitedIsOver /\ BlockedHasEvent
    BY <1>1 DEF WaitInit, SubscribedWaits, ExitedIsOver, BlockedHasEvent
  <1> QED
    BY <1>2, <1>3 DEF WaitInv

\* A launch satisfies no Wait: a new session runs.
LEMMA LaunchInv ==
  ASSUME WaitInv, NEW s \in Sessions, NEW withTag \in BOOLEAN, Launch(s, withTag)
  PROVE  WaitInv'
  <1>1. /\ watch[s] = "none" /\ UNCHANGED <<wait, subs, events>>
        /\ watch' = [watch EXCEPT ![s] = "running"]
        /\ exit' = [exit EXCEPT ![s] = "alive"]
        /\ tagged' = IF withTag THEN tagged \cup {s} ELSE tagged
    BY DEF Launch
  <1>2. WaitTypeOK'
    BY <1>1 DEF WaitInv, WaitTypeOK
  <1>3. SubscribedWaits' /\ ExitedIsOver'
    BY <1>1 DEF WaitInv, WaitTypeOK, SubscribedWaits, ExitedIsOver, Over
  <1>4. /\ ~Over(s)' /\ ~Over(s) /\ watch'[s] # "none"
        /\ \A r \in Sessions : r # s => watch'[r] = watch[r] /\ exit'[r] = exit[r]
    BY <1>1 DEF WaitInv, WaitTypeOK, Over
  <1>5. ASSUME NEW w \in Waiters PROVE Wakes(w)'
    <2> SUFFICES ASSUME wait[w].pc = "blocked", Announced(w)' PROVE events[w] > 0
      BY <1>1 DEF Wakes
    <2>0. tagged' \subseteq Sessions /\ wait'[w] = wait[w]
      BY <1>1, <1>2 DEF WaitTypeOK
    <2>1. \A r \in Sessions : r # s => (Matches(w, r)' <=> Matches(w, r))
      BY <1>1 DEF Matches
    <2>2. CASE ~Matches(w, s)'
      <3>1. ~Matches(w, s)
        BY <1>1, <2>2 DEF Matches
      <3>2. \A r \in Sessions : (Matches(w, r) <=> Matches(w, r)')
        BY <2>1, <2>2, <3>1
      <3>3. \A r \in Sessions : Matches(w, r) =>
              /\ Over(r) <=> Over(r)'
              /\ watch[r] = "none" <=> watch'[r] = "none"
              /\ exit'[r] = exit[r]
        BY <1>4, <3>1 DEF Over
      <3> QED
        BY <2>0, <3>2, <3>3, DueSame, WakesAll DEF WaitInv, Wakes
    <2>3. CASE Matches(w, s)'
      <3>1. PICK r \in Sessions : Over(r)' /\ Matches(w, r)'
        BY DEF Announced, Due
      <3>2. r # s /\ wait[w].id = NoSession
        BY <1>1, <1>4, <2>3, <3>1 DEF Matches
      <3>3. Satisfied(w)' <=> EndedByTag(w)'
        BY <1>1, <3>2 DEF Satisfied, EndedByID
      <3>4. wait[w].byTag /\ EndedByTag(w)'
        BY <1>1, <3>3 DEF Announced, Due, EndedByTag
      <3>5. s \in Matching'
        BY <1>1, <1>4, <2>3, <3>4 DEF Matching, Matches
      <3>6. wait[w].condition # "all"
        BY <1>1, <1>4, <3>4, <3>5 DEF EndedByTag
      <3>7. Over(r) /\ Matches(w, r) /\ r \in Matching
        BY <1>1, <1>4, <2>1, <3>1, <3>2, <3>4 DEF Over, Matching, Matches
      <3>8. Satisfied(w)
        BY <3>4, <3>6, <3>7 DEF Satisfied, EndedByTag
      <3>9. ~Over(s)
        BY <1>4
      <3>10. \A t \in Sessions : Over(t) /\ Matches(w, t) => exit[t] = "announced"
        BY <1>4, <2>1, <3>9 DEF Announced, Due, Over
      <3>11. Announced(w)
        BY <3>7, <3>8, <3>10 DEF Announced, Due
      <3> QED
        BY <3>11, WakesAll DEF WaitInv, Wakes
    <2> QED
      BY <2>2, <2>3
  <1>6. BlockedHasEvent'
    BY <1>5 DEF BlockedHasEvent, Wakes, Announced
  <1> QED
    BY <1>2, <1>3, <1>6 DEF WaitInv

\* A Kill ends no Wait that the exit of the process has not woken: until then
\* its session has announced nothing.
LEMMA KillInv ==
  ASSUME WaitInv, NEW s \in Sessions, Kill(s)
  PROVE  WaitInv'
  <1>1. /\ watch[s] # "none" /\ UNCHANGED <<tagged, exit, wait, subs, events>>
        /\ watch' = [watch EXCEPT ![s] = "killed"]
    BY DEF Kill
  <1>2. WaitTypeOK'
    BY <1>1 DEF WaitInv, WaitTypeOK
  <1>3. SubscribedWaits' /\ ExitedIsOver'
    BY <1>1 DEF WaitInv, WaitTypeOK, SubscribedWaits, ExitedIsOver, Over
  <1>4. /\ Over(s)' /\ watch'[s] # "none"
        /\ \A r \in Sessions : r # s => watch'[r] = watch[r]
    BY <1>1 DEF WaitInv, WaitTypeOK, Over
  <1>5. ASSUME NEW w \in Waiters PROVE Wakes(w)'
    <2> SUFFICES ASSUME wait[w].pc = "blocked", Announced(w)' PROVE events[w] > 0
      BY <1>1 DEF Wakes
    <2>1. \A r \in Sessions : Matches(w, r)' <=> Matches(w, r)
      BY <1>1 DEF Matches
    <2>2. Matches(w, s) => Over(s)
      BY <1>1, <1>4, <2>1 DEF Announced, Due, WaitInv, ExitedIsOver
    <2>3. \A r \in Sessions : Matches(w, r) =>
            /\ Over(r) <=> Over(r)'
            /\ watch[r] = "none" <=> watch'[r] = "none"
            /\ exit'[r] = exit[r]
      BY <1>1, <1>4, <2>2 DEF Over
    <2>4. wait'[w] = wait[w] /\ tagged' \subseteq Sessions
      BY <1>1, <1>2 DEF WaitTypeOK
    <2>5. Announced(w)
      BY <2>1, <2>3, <2>4, DueSame DEF WaitInv
    <2> QED
      BY <2>5, WakesAll DEF WaitInv, Wakes
  <1>6. BlockedHasEvent'
    BY <1>5 DEF BlockedHasEvent, Wakes, Announced
  <1> QED
    BY <1>2, <1>3, <1>6 DEF WaitInv

\* The status of an exit satisfies Waits before its event is there, but then it
\* has not been announced.
LEMMA WaiterStatusInv ==
  ASSUME WaitInv, NEW s \in Sessions, WaiterStatus(s)
  PROVE  WaitInv'
  <1>1. /\ UNCHANGED <<tagged, wait, subs, events>>
        /\ watch' = [watch EXCEPT ![s] = "completed"]
        /\ exit' = [exit EXCEPT ![s] = "completed"]
    BY DEF WaiterStatus
  <1>2. WaitTypeOK'
    BY <1>1 DEF WaitInv, WaitTypeOK
  <1>3. SubscribedWaits' /\ ExitedIsOver'
    BY <1>1 DEF WaitInv, WaitTypeOK, SubscribedWaits, ExitedIsOver, Over
  <1>4. /\ Over(s)' /\ exit'[s] = "completed"
        /\ \A r \in Sessions : r # s => watch'[r] = watch[r] /\ exit'[r] = exit[r]
    BY <1>1 DEF WaitInv, WaitTypeOK, Over
  <1>5. ASSUME NEW w \in Waiters PROVE Wakes(w)'
    <2> SUFFICES ASSUME wait[w].pc = "blocked", Announced(w)' PROVE events[w] > 0
      BY <1>1 DEF Wakes
    <2>1. \A r \in Sessions : Matches(w, r)' <=> Matches(w, r)
      BY <1>1 DEF Matches
    <2>2. ~Matches(w, s)
      BY <1>4, <2>1 DEF Announced, Due
    <2>3. \A r \in Sessions : Matches(w, r) =>
            /\ Over(r) <=> Over(r)'
            /\ watch[r] = "none" <=> watch'[r] = "none"
            /\ exit'[r] = exit[r]
      BY <1>4, <2>2 DEF Over
    <2>4. wait'[w] = wait[w] /\ tagged' \subseteq Sessions
      BY <1>1, <1>2 DEF WaitTypeOK
    <2>5. Announced(w)
      BY <2>1, <2>3, <2>4, DueSame DEF WaitInv
    <2> QED
      BY <2>5, WakesAll DEF WaitInv, Wakes
  <1>6. BlockedHasEvent'
    BY <1>5 DEF BlockedHasEvent, Wakes, Announced
  <1> QED
    BY <1>2, <1>3, <1>6 DEF WaitInv

\* The event of an exit reaches every Wait it matches, unless the channel holds
\* one already: the check of a blocked Wait was made under its subscription.
LEMMA WaiterAnnouncesInv ==
  ASSUME WaitInv, NEW s \in Sessions, WaiterAnnounces(s)
  PROVE  WaitInv'
  <1>1. /\ exit[s] = "completed" /\ UNCHANGED <<watch, tagged, wait, subs>>
        /\ exit' = [exit EXCEPT ![s] = "announced"]
        /\ events' = [w \in Waiters |->
             IF w \in subs /\ Matches(w, s) /\ events[w] < EventBuf THEN events[w] + 1
             ELSE events[w]]
    BY DEF WaiterAnnounces, Publish
  <1>2. WaitTypeOK'
    <2>1. \A w \in Waiters : events'[w] \in 0 .. EventBuf
      BY <1>1, EventBufAssumption DEF WaitInv, WaitTypeOK
    <2>2. events' \in [Waiters -> 0 .. EventBuf]
      BY <1>1, <2>1
    <2> QED
      BY <1>1, <2>2 DEF WaitInv, WaitTypeOK
  <1>3. SubscribedWaits' /\ ExitedIsOver'
    BY <1>1 DEF WaitInv, WaitTypeOK, SubscribedWaits, ExitedIsOver, Over
  <1>4. \A r \in Sessions : r # s => exit'[r] = exit[r]
    BY <1>1 DEF WaitInv, WaitTypeOK
  <1>5. ASSUME NEW w \in Waiters PROVE Wakes(w)'
    <2> SUFFICES ASSUME wait[w].pc = "blocked", Announced(w)' PROVE events'[w] > 0
      BY <1>1 DEF Wakes
    <2>1. w \in subs /\ events[w] \in 0 .. EventBuf
      BY DEF WaitInv, WaitTypeOK, SubscribedWaits
    <2>2. CASE Matches(w, s)
      <3>1. events'[w] = IF events[w] < EventBuf THEN events[w] + 1 ELSE events[w]
        BY <1>1, <2>1, <2>2
      <3> QED
        BY <2>1, <3>1, EventBufAssumption
    <2>3. CASE ~Matches(w, s)
      <3>1. \A r \in Sessions : (Matches(w, r)' <=> Matches(w, r)) /\ (Over(r)' <=> Over(r))
        BY <1>1 DEF Matches, Over
      <3>2. wait'[w] = wait[w] /\ tagged' \subseteq Sessions
        BY <1>1, <1>2 DEF WaitTypeOK
      <3>3. \A r \in Sessions : watch'[r] = watch[r]
        BY <1>1
      <3>4. \A r \in Sessions : Matches(w, r) => exit'[r] = exit[r]
        BY <1>4, <2>3
      <3>5. Announced(w)
        BY <3>1, <3>2, <3>3, <3>4, DueSame DEF WaitInv
      <3>6. events[w] > 0
        BY <3>5, WakesAll DEF WaitInv, Wakes
      <3>7. events'[w] = events[w]
        BY <1>1, <2>3
      <3> QED
        BY <3>6, <3>7
    <2> QED
      BY <2>2, <2>3
  <1>6. BlockedHasEvent'
    BY <1>5 DEF BlockedHasEvent, Wakes, Announced
  <1> QED
    BY <1>2, <1>3, <1>6 DEF WaitInv

\* A step of a Wait's own: it leaves the sessions and the other Waits alone, and
\* it blocks only on what it does not find.
LEMMA WaitMoveInv ==
  ASSUME WaitInv, NEW v \in Waiters, UNCHANGED <<watch, tagged, exit>>,
         wait' \in [Waiters -> WaitType], events' \in [Waiters -> 0 .. EventBuf],
         subs' \subseteq Waiters, wait'[v].pc \in {"check", "blocked"} => v \in subs',
         wait'[v].pc = "blocked" => ~Satisfied(v)',
         \A w \in Waiters : w # v =>
           wait'[w] = wait[w] /\ events'[w] = events[w] /\ (w \in subs' <=> w \in subs)
  PROVE  WaitInv'
  <1>1. WaitTypeOK'
    BY DEF WaitInv, WaitTypeOK
  <1>2. SubscribedWaits'
    BY DEF WaitInv, SubscribedWaits
  <1>3. ExitedIsOver'
    BY DEF WaitInv, ExitedIsOver, Over
  <1>4. ASSUME NEW w \in Waiters PROVE Wakes(w)'
    <2>1. CASE w = v
      BY <2>1 DEF Wakes, Announced, Due
    <2>2. CASE w # v
      <3>1. wait'[w] = wait[w] /\ events'[w] = events[w] /\ tagged' \subseteq Sessions
        BY <1>1, <2>2 DEF WaitTypeOK
      <3>2. \A r \in Sessions : (Matches(w, r)' <=> Matches(w, r)) /\ (Over(r)' <=> Over(r))
        BY <3>1 DEF Matches, Over
      <3>3. \A r \in Sessions : watch'[r] = watch[r]
        OBVIOUS
      <3>5. Announced(w)' <=> Announced(w)
        BY <3>1, <3>2, <3>3, DueSame DEF WaitInv
      <3>6. Wakes(w)
        BY WakesAll DEF WaitInv
      <3> QED
        BY <3>1, <3>5, <3>6 DEF Wakes
    <2> QED
      BY <2>1, <2>2
  <1>5. BlockedHasEvent'
    BY <1>4 DEF BlockedHasEvent, Wakes, Announced
  <1> QED
    BY <1>1, <1>2, <1>3, <1>5 DEF WaitInv

\* The answer and the timer end a Wait.
LEMMA LeaveInv ==
  ASSUME WaitInv, NEW v \in Waiters, NEW pc \in {"answered", "timed out"}, Leave(v, pc),
         UNCHANGED <<watch, tagged, exit>>
  PROVE  WaitInv'
  <1>1. wait' = At(v, pc) /\ subs' = subs \ {v} /\ events' = [events EXCEPT ![v] = 0]
    BY DEF Leave
  <1>2. /\ wait' \in [Waiters -> WaitType] /\ wait'[v].pc = pc
        /\ \A w \in Waiters : w # v => wait'[w] = wait[w]
    <2>1. pc \in {"idle", "subscribe", "check", "blocked", "answered", "timed out"}
      OBVIOUS
    <2> QED
      BY <1>1, <2>1, AtType DEF WaitInv
  <1>3. /\ events' \in [Waiters -> 0 .. EventBuf]
        /\ \A w \in Waiters : w # v => events'[w] = events[w]
    BY <1>1, EmptyChannel DEF WaitInv, WaitTypeOK
  <1>4. subs' \subseteq Waiters /\ \A w \in Waiters : w # v => (w \in subs' <=> w \in subs)
    BY <1>1 DEF WaitInv, WaitTypeOK
  <1>5. wait'[v].pc \notin {"check", "blocked"}
    BY <1>2
  <1> QED
    BY <1>2, <1>3, <1>4, <1>5, WaitMoveInv

\* The steps of handleWait after its request.
LEMMA WaiterStepInv ==
  ASSUME WaitInv, NEW v \in Waiters, WaitStep(v) \/ WaitTimesOut(v)
  PROVE  WaitInv'
  <1>1. CASE WaitSubscribes(v)
    <2>1. /\ wait' = At(v, "check") /\ subs' = subs \cup {v}
          /\ UNCHANGED <<watch, tagged, exit, events>>
      BY <1>1 DEF WaitSubscribes
    <2>2. /\ wait' \in [Waiters -> WaitType] /\ wait'[v].pc = "check"
          /\ \A w \in Waiters : w # v => wait'[w] = wait[w]
      BY <2>1, AtType DEF WaitInv
    <2>3. /\ events' \in [Waiters -> 0 .. EventBuf] /\ subs' \subseteq Waiters /\ v \in subs'
          /\ \A w \in Waiters : w # v => (w \in subs' <=> w \in subs)
      BY <2>1 DEF WaitInv, WaitTypeOK
    <2> QED
      BY <2>1, <2>2, <2>3, WaitMoveInv
  <1>2. CASE Check(v) /\ ~Satisfied(v)
    <2>1. /\ wait[v].pc = "check" /\ wait' = At(v, "blocked")
          /\ UNCHANGED <<watch, tagged, exit, subs, events>>
      BY <1>2 DEF Check
    <2>2. /\ wait' \in [Waiters -> WaitType] /\ wait'[v].pc = "blocked"
          /\ \A w \in Waiters : w # v => wait'[w] = wait[w]
      BY <2>1, AtType DEF WaitInv
    <2>3. events' \in [Waiters -> 0 .. EventBuf] /\ subs' \subseteq Waiters /\ v \in subs'
      BY <2>1 DEF WaitInv, WaitTypeOK, SubscribedWaits
    <2>4. /\ wait'[v].id = wait[v].id /\ wait'[v].byTag = wait[v].byTag
          /\ wait'[v].condition = wait[v].condition
      BY <2>1 DEF At, Wait, WaitInv, WaitTypeOK
    <2>5. ~Satisfied(v)'
      BY <1>2, <2>1, <2>4 DEF Satisfied, EndedByID, EndedByTag, Matching, Over
    <2> QED
      BY <2>1, <2>2, <2>3, <2>5, WaitMoveInv
  <1>3. CASE Wake(v) /\ ~Satisfied(v)
    <2>1. /\ wait[v].pc = "blocked" /\ events[v] > 0 /\ events' = [events EXCEPT ![v] = @ - 1]
          /\ UNCHANGED <<watch, tagged, exit, subs, wait>>
      BY <1>3 DEF Wake
    <2>2. /\ events' \in [Waiters -> 0 .. EventBuf]
          /\ \A w \in Waiters : w # v => events'[w] = events[w]
      BY <2>1, EventBufAssumption DEF WaitInv, WaitTypeOK
    <2>3. wait' \in [Waiters -> WaitType] /\ subs' \subseteq Waiters /\ v \in subs'
      BY <2>1 DEF WaitInv, WaitTypeOK, SubscribedWaits
    <2>4. ~Satisfied(v)'
      BY <1>3, <2>1 DEF Satisfied, EndedByID, EndedByTag, Matching, Over
    <2> QED
      BY <2>1, <2>2, <2>3, <2>4, WaitMoveInv
  <1>4. CASE (Check(v) \/ Wake(v)) /\ Satisfied(v)
    BY <1>4, LeaveInv DEF Check, Wake
  <1>5. CASE WaitTimesOut(v)
    BY <1>5, LeaveInv DEF WaitTimesOut
  <1> QED
    BY <1>1, <1>2, <1>3, <1>4, <1>5 DEF WaitStep

\* A new request waits for nothing yet.
LEMMA BeginWaitInv ==
  ASSUME WaitInv, NEW v \in Waiters, NEW id \in Sessions \cup {NoSession},
         NEW byTag \in BOOLEAN, NEW condition \in {"all", "any"},
         BeginWait(v, id, byTag, condition)
  PROVE  WaitInv'
  <1>1. /\ wait' = [wait EXCEPT ![v] = Wait("subscribe", id, byTag, condition)]
        /\ UNCHANGED <<watch, tagged, exit, subs, events>>
    BY DEF BeginWait
  <1>2. Wait("subscribe", id, byTag, condition) \in WaitType
    BY DEF Wait, WaitType
  <1>3. /\ wait' \in [Waiters -> WaitType] /\ wait'[v] = Wait("subscribe", id, byTag, condition)
        /\ \A w \in Waiters : w # v => wait'[w] = wait[w]
    BY <1>1, <1>2 DEF WaitInv, WaitTypeOK
  <1>4. wait'[v].pc = "subscribe"
    BY <1>3 DEF Wait
  <1>5. events' \in [Waiters -> 0 .. EventBuf] /\ subs' \subseteq Waiters
    BY <1>1 DEF WaitInv, WaitTypeOK
  <1> QED
    BY <1>1, <1>3, <1>4, <1>5, WaitMoveInv

\* The invariant of WaitHandler holds of every behaviour.
LEMMA WaitInvariance == WaitSpec => []WaitInv
  <1>1. WaitInv /\ [WaitNext]_waitVars => WaitInv'
    <2> SUFFICES ASSUME WaitInv, [WaitNext]_waitVars PROVE WaitInv'
      OBVIOUS
    <2>1. CASE \E s \in Sessions, withTag \in BOOLEAN : Launch(s, withTag)
      BY <2>1, LaunchInv
    <2>2. CASE \E s \in Sessions : Kill(s) \/ WaiterStatus(s) \/ WaiterAnnounces(s)
      BY <2>2, KillInv, WaiterStatusInv, WaiterAnnouncesInv
    <2>3. CASE \E w \in Waiters, id \in Sessions \cup {NoSession}, byTag \in BOOLEAN,
                 condition \in {"all", "any"} : BeginWait(w, id, byTag, condition)
      BY <2>3, BeginWaitInv
    <2>4. CASE \E w \in Waiters : WaitStep(w) \/ WaitTimesOut(w)
      BY <2>4, WaiterStepInv
    <2>5. CASE UNCHANGED waitVars
      BY <2>5 DEF waitVars, WaitInv, WaitTypeOK, SubscribedWaits, ExitedIsOver, BlockedHasEvent,
                  Due, Satisfied, EndedByID, EndedByTag, Matching, Matches, Over
    <2> QED
      BY <2>1, <2>2, <2>3, <2>4, <2>5 DEF WaitNext
  <1> QED
    BY WaitInitInv, <1>1, PTL DEF WaitSpec

\* A blocked Wait whose sessions have exited and said so has an event to wake it,
\* in whatever order it subscribed, checked and slept and they set their status,
\* announced it and were killed, and however small its channel.
THEOREM BlockedWaitsWake == WaitSpec => []BlockedHasEvent
  <1>1. WaitInv => BlockedHasEvent
    BY DEF WaitInv
  <1> QED
    BY <1>1, WaitInvariance, PTL

-----------------------------------------------------------------------------
(* KVStore: what List shows is what will happen                            *)

\* The numbers that Set has not used yet are nowhere in the store.
UnusedIsFresh ==
  /\ \A n \in 1 .. MaxSets : n > sets => timer[n] = NoTimer /\ n \notin expiring
  /\ \A p \in Places : Value(p) <= sets

\* The inductive invariant.
KVInv ==
  /\ KVTypeOK
  /\ UnusedIsFresh
  /\ ArmedTimerIsCurrent
  /\ StoredValueWillExpire
  /\ BucketIffKeys

\* What a key holds after a write of one key (Put, of Set and of Delete).
LEMMA PutValue ==
  ASSUME KVTypeOK, NEW ns \in Namespaces, NEW k \in Keys, NEW n \in 0 .. MaxSets,
         data' = Put(ns, k, n)
  PROVE  /\ data' \in [Namespaces -> [Keys -> 0 .. MaxSets]]
         /\ \A p \in Places : Value(p)' = IF p = <<ns, k>> THEN n ELSE Value(p)
         /\ \A m \in Namespaces, j \in Keys :
              data'[m][j] = IF m = ns /\ j = k THEN n ELSE data[m][j]
<1>1. data' \in [Namespaces -> [Keys -> 0 .. MaxSets]]
  BY DEF KVTypeOK, Put
<1>2. \A m \in Namespaces, j \in Keys :
         data'[m][j] = IF m = ns /\ j = k THEN n ELSE data[m][j]
  BY DEF KVTypeOK, Put
<1>3. ASSUME NEW p \in Places
      PROVE  Value(p)' = IF p = <<ns, k>> THEN n ELSE Value(p)
  <2>1. PICK m \in Namespaces, j \in Keys : p = <<m, j>>
    BY DEF Places
  <2>2. Value(p) = data[m][j] /\ Value(p)' = data'[m][j]
    BY <2>1 DEF Value
  <2>3. p = <<ns, k>> <=> m = ns /\ j = k
    BY <2>1
  <2>. QED BY <1>2, <2>2, <2>3
<1>. QED BY <1>1, <1>2, <1>3

\* Stop leaves every timer but the armed one of value n alone.
LEMMA StoppedTimers ==
  ASSUME KVTypeOK, NEW n \in 0 .. MaxSets
  PROVE  /\ Stopped(n) \in [1 .. MaxSets -> {NoTimer} \cup
              [state : {"armed", "stopped", "fired", "done"}, place : Places]]
         /\ \A i \in 1 .. MaxSets :
              Stopped(n)[i] = IF i = n /\ timer[i].state = "armed"
                                THEN Timer("stopped", timer[i].place) ELSE timer[i]
<1>1. ASSUME NEW i \in 1 .. MaxSets, timer[i].state = "armed"
      PROVE  timer[i].place \in Places
  BY <1>1 DEF KVTypeOK, NoTimer, Timer
<1>2. CASE n # 0 /\ timer[n].state = "armed"
  BY <1>1, <1>2, MaxSetsAssumption DEF Stopped, KVTypeOK, Timer
<1>3. CASE ~(n # 0 /\ timer[n].state = "armed")
  BY <1>3, MaxSetsAssumption DEF Stopped, KVTypeOK
<1>. QED BY <1>2, <1>3

\* The fields of the timers the model builds.
LEMMA TimerFields ==
  /\ NoTimer.state = "none"
  /\ \A state, place : Timer(state, place).state = state /\ Timer(state, place).place = place
BY DEF NoTimer, Timer

\* The value of a key is a number of the right range.
LEMMA ValueType ==
  ASSUME KVTypeOK, NEW p \in Places
  PROVE  Value(p) \in 0 .. MaxSets
<1>1. PICK m \in Namespaces, j \in Keys : p = <<m, j>>
  BY DEF Places
<1>. QED BY <1>1 DEF Value, KVTypeOK

LEMMA KVInitInv == KVInit => KVInv
<1>. SUFFICES ASSUME KVInit PROVE KVInv
  OBVIOUS
<1>1. KVTypeOK
  BY MaxSetsAssumption DEF KVInit, KVTypeOK
<1>2. \A p \in Places : Value(p) = 0
  BY DEF KVInit, Places, Value
<1>3. UnusedIsFresh
  BY <1>2 DEF KVInit, UnusedIsFresh
<1>4. ArmedTimerIsCurrent
  BY TimerFields DEF KVInit, ArmedTimerIsCurrent
<1>5. StoredValueWillExpire
  BY <1>2 DEF StoredValueWillExpire
<1>6. BucketIffKeys
  BY DEF KVInit, BucketIffKeys
<1>. QED BY <1>1, <1>3, <1>4, <1>5, <1>6 DEF KVInv

LEMMA SetInv ==
  ASSUME KVInv, NEW ns \in Namespaces, NEW k \in Keys, NEW ttl \in BOOLEAN, Set(ns, k, ttl)
  PROVE  KVInv'
<1>. DEFINE n == sets + 1
            old == data[ns][k]
            here == <<ns, k>>
<1>. USE MaxSetsAssumption
<1>1. /\ n \in 1 .. MaxSets /\ old \in 0 .. MaxSets /\ here \in Places
      /\ Value(here) = old /\ old <= sets /\ old # n
  BY DEF KVInv, KVTypeOK, Set, Places, Value, UnusedIsFresh
<1>2. /\ data' = Put(ns, k, n) /\ sets' = n /\ buckets' = buckets \cup {ns}
      /\ expiring' = IF ttl THEN expiring \cup {n} ELSE expiring
  BY DEF Set
<1>3. /\ data' \in [Namespaces -> [Keys -> 0 .. MaxSets]]
      /\ \A p \in Places : Value(p)' = IF p = here THEN n ELSE Value(p)
      /\ \A m \in Namespaces, j \in Keys :
           data'[m][j] = IF m = ns /\ j = k THEN n ELSE data[m][j]
  BY <1>1, <1>2, PutValue DEF KVInv
<1>4. /\ timer' \in [1 .. MaxSets -> {NoTimer} \cup
              [state : {"armed", "stopped", "fired", "done"}, place : Places]]
      /\ timer'[n] = IF ttl THEN Timer("armed", here) ELSE NoTimer
      /\ \A i \in 1 .. MaxSets : i # n =>
           timer'[i] = IF i = old /\ timer[i].state = "armed"
                         THEN Timer("stopped", timer[i].place) ELSE timer[i]
  <2>1. timer' = [Stopped(old) EXCEPT ![n] = IF ttl THEN Timer("armed", here) ELSE NoTimer]
    BY DEF Set
  <2>2. (IF ttl THEN Timer("armed", here) ELSE NoTimer) \in {NoTimer} \cup
              [state : {"armed", "stopped", "fired", "done"}, place : Places]
    BY <1>1 DEF Timer
  <2>. HIDE DEF n, old, here
  <2>. QED BY <1>1, <2>1, <2>2, StoppedTimers DEF KVInv
<1>. HIDE DEF n, old, here
<1>5. KVTypeOK'
  BY <1>1, <1>2, <1>3, <1>4 DEF KVInv, KVTypeOK
<1>6. UnusedIsFresh'
  <2>1. ASSUME NEW p \in Places PROVE Value(p)' <= sets'
    <3>1. Value(p) \in 0 .. MaxSets /\ Value(p) <= sets /\ sets \in Nat
      BY ValueType DEF KVInv, UnusedIsFresh, KVTypeOK
    <3>2. sets' = n /\ n = sets + 1
      BY <1>2 DEF n
    <3>3. Value(p)' = n \/ Value(p)' = Value(p)
      BY <1>3
    <3>. QED BY <3>1, <3>2, <3>3
  <2>2. ASSUME NEW i \in 1 .. MaxSets, i > sets'
        PROVE  timer'[i] = NoTimer /\ i \notin expiring'
    <3>1. i > sets /\ i # n /\ i # old
      BY <2>2, <1>1, <1>2 DEF KVInv, KVTypeOK, n
    <3>. QED BY <3>1, <1>2, <1>4 DEF KVInv, UnusedIsFresh
  <2>. QED BY <2>1, <2>2 DEF UnusedIsFresh
<1>7. ArmedTimerIsCurrent'
  <2>. SUFFICES ASSUME NEW i \in 1 .. MaxSets, timer'[i].state = "armed"
                PROVE  Value(timer[i].place)' = i
    BY DEF ArmedTimerIsCurrent
  <2>1. CASE i = n
    BY <2>1, <1>1, <1>3, <1>4, TimerFields
  <2>2. CASE i # n
    <3>1. timer'[i] = timer[i] /\ i # old
      BY <2>2, <1>4, TimerFields
    <3>2. Value(timer[i].place) = i /\ timer[i].place \in Places
      BY <3>1, TimerFields DEF KVInv, KVTypeOK, ArmedTimerIsCurrent
    <3>3. timer[i].place # here
      BY <3>1, <3>2, <1>1
    <3>. QED BY <3>1, <3>2, <3>3, <1>3
  <2>. QED BY <2>1, <2>2
<1>8. StoredValueWillExpire'
  <2>. SUFFICES ASSUME NEW p \in Places, Value(p)' # 0
                PROVE  IF Value(p)' \in expiring'
                         THEN timer'[Value(p)'] \in {Timer("armed", p), Timer("fired", p)}
                         ELSE timer'[Value(p)'] = NoTimer
    BY DEF StoredValueWillExpire
  <2>1. CASE p = here
    <3>1. n \notin expiring
      BY <1>1 DEF KVInv, UnusedIsFresh, KVTypeOK, n
    <3>. QED BY <2>1, <3>1, <1>2, <1>3, <1>4
  <2>2. CASE p # here
    <3>1. Value(p)' = Value(p) /\ Value(p) \in 1 .. MaxSets /\ Value(p) # n
      BY <2>2, <1>3, ValueType DEF KVInv, UnusedIsFresh, KVTypeOK, n
    <3>2. Value(p) \in expiring' <=> Value(p) \in expiring
      BY <3>1, <1>2
    <3>3. IF Value(p) \in expiring
            THEN timer[Value(p)] \in {Timer("armed", p), Timer("fired", p)}
            ELSE timer[Value(p)] = NoTimer
      BY <3>1 DEF KVInv, StoredValueWillExpire
    <3>4. Value(p) = old => timer[Value(p)].state # "armed"
      <4>. SUFFICES ASSUME Value(p) = old, timer[old].state = "armed" PROVE FALSE
        BY <3>1
      <4>1. timer[old].place = p
        BY <3>3, TimerFields
      <4>2. timer[old] \in {Timer("armed", here), Timer("fired", here)}
        BY <3>1, <3>3, <1>1, TimerFields DEF KVInv, StoredValueWillExpire
      <4>3. timer[old].place = here
        BY <4>2, TimerFields
      <4>. QED BY <4>1, <4>3, <2>2
    <3>5. timer'[Value(p)] = timer[Value(p)]
      BY <3>1, <3>4, <1>4
    <3>. QED BY <3>1, <3>2, <3>3, <3>5
  <2>. QED BY <2>1, <2>2
<1>9. BucketIffKeys'
  BY <1>1, <1>2, <1>3 DEF KVInv, BucketIffKeys
<1>. QED BY <1>5, <1>6, <1>7, <1>8, <1>9 DEF KVInv

\* Delete, by a client or by the goroutine of timer t (t = 0 for a client).
LEMMA RemoveInv ==
  ASSUME KVInv, NEW ns \in Namespaces, NEW k \in Keys, RemoveKey(ns, k),
         NEW t \in 0 .. MaxSets,
         t # 0 => timer[t] = Timer("fired", <<ns, k>>),
         timer' = IF t = 0 THEN Stopped(data[ns][k])
                  ELSE [Stopped(data[ns][k]) EXCEPT ![t] = Timer("done", timer[t].place)],
         UNCHANGED <<sets, expiring>>
  PROVE  KVInv'
<1>. DEFINE old == data[ns][k]
            here == <<ns, k>>
<1>. USE MaxSetsAssumption
<1>1. old \in 0 .. MaxSets /\ here \in Places /\ Value(here) = old
  BY DEF KVInv, KVTypeOK, Places, Value
<1>2. /\ data' = Put(ns, k, 0)
      /\ buckets' = {m \in Namespaces : \E j \in Keys : data'[m][j] # 0}
  <2>1. CASE ns \in buckets
    <3>1. data' = Put(ns, k, 0)
      BY <2>1 DEF RemoveKey
    <3>2. \A m \in Namespaces, j \in Keys :
            data'[m][j] = IF m = ns /\ j = k THEN 0 ELSE data[m][j]
      BY <3>1, PutValue DEF KVInv
    <3>. QED BY <2>1, <3>1, <3>2 DEF RemoveKey, KVInv, BucketIffKeys
  <2>2. CASE ns \notin buckets
    <3>1. old = 0 /\ UNCHANGED <<data, buckets>>
      BY <2>2 DEF RemoveKey, KVInv, BucketIffKeys
    <3>2. Put(ns, k, 0) = data
      BY <3>1 DEF Put, KVInv, KVTypeOK
    <3>. QED BY <3>1, <3>2 DEF KVInv, BucketIffKeys
  <2>. QED BY <2>1, <2>2
<1>3. /\ data' \in [Namespaces -> [Keys -> 0 .. MaxSets]]
      /\ \A p \in Places : Value(p)' = IF p = here THEN 0 ELSE Value(p)
  BY <1>2, PutValue DEF KVInv
<1>4. /\ timer' \in [1 .. MaxSets -> {NoTimer} \cup
              [state : {"armed", "stopped", "fired", "done"}, place : Places]]
      /\ \A i \in 1 .. MaxSets :
           timer'[i] = IF i = t THEN Timer("done", here)
                       ELSE IF i = old /\ timer[i].state = "armed"
                         THEN Timer("stopped", timer[i].place) ELSE timer[i]
  <2>. HIDE DEF old
  <2>1. timer' = IF t = 0 THEN Stopped(old)
                 ELSE [Stopped(old) EXCEPT ![t] = Timer("done", timer[t].place)]
    BY DEF old
  <2>2. t # 0 => timer[t].place = here
    BY TimerFields
  <2>3. Timer("done", here) \in [state : {"armed", "stopped", "fired", "done"}, place : Places]
    BY <1>1 DEF Timer
  <2>. HIDE DEF here
  <2>4. /\ Stopped(old) \in [1 .. MaxSets -> {NoTimer} \cup
              [state : {"armed", "stopped", "fired", "done"}, place : Places]]
        /\ \A i \in 1 .. MaxSets :
             Stopped(old)[i] = IF i = old /\ timer[i].state = "armed"
                                 THEN Timer("stopped", timer[i].place) ELSE timer[i]
    BY <1>1, StoppedTimers DEF KVInv
  <2>5. CASE t = 0
    BY <2>1, <2>4, <2>5
  <2>6. CASE t # 0
    <3>1. timer' = [Stopped(old) EXCEPT ![t] = Timer("done", here)]
      BY <2>1, <2>2, <2>6
    <3>. QED BY <2>3, <2>4, <2>6, <3>1
  <2>. QED BY <2>5, <2>6
<1>. HIDE DEF old, here
<1>5. KVTypeOK'
  BY <1>2, <1>3, <1>4 DEF KVInv, KVTypeOK
<1>6. UnusedIsFresh'
  <2>1. ASSUME NEW p \in Places PROVE Value(p)' <= sets'
    <3>1. Value(p) <= sets /\ sets \in Nat
      BY DEF KVInv, UnusedIsFresh, KVTypeOK
    <3>2. Value(p)' = 0 \/ Value(p)' = Value(p)
      BY <1>3
    <3>. QED BY <3>1, <3>2
  <2>2. ASSUME NEW i \in 1 .. MaxSets, i > sets
        PROVE  timer'[i] = NoTimer /\ i \notin expiring'
    <3>1. timer[i] = NoTimer /\ i \notin expiring /\ i # t
      BY <2>2, TimerFields DEF KVInv, UnusedIsFresh
    <3>. QED BY <3>1, <1>4, TimerFields
  <2>. QED BY <2>1, <2>2 DEF UnusedIsFresh
<1>7. ArmedTimerIsCurrent'
  <2>. SUFFICES ASSUME NEW i \in 1 .. MaxSets, timer'[i].state = "armed"
                PROVE  Value(timer[i].place)' = i
    BY DEF ArmedTimerIsCurrent
  <2>1. timer'[i] = timer[i] /\ i # old
    BY <1>4, TimerFields
  <2>2. Value(timer[i].place) = i /\ timer[i].place \in Places
    BY <2>1, TimerFields DEF KVInv, KVTypeOK, ArmedTimerIsCurrent
  <2>3. timer[i].place # here
    BY <2>1, <2>2, <1>1
  <2>. QED BY <2>1, <2>2, <2>3, <1>3
<1>8. StoredValueWillExpire'
  <2>. SUFFICES ASSUME NEW p \in Places, Value(p)' # 0
                PROVE  IF Value(p)' \in expiring'
                         THEN timer'[Value(p)'] \in {Timer("armed", p), Timer("fired", p)}
                         ELSE timer'[Value(p)'] = NoTimer
    BY DEF StoredValueWillExpire
  <2>1. p # here /\ Value(p)' = Value(p) /\ Value(p) \in 1 .. MaxSets
    BY <1>3, ValueType DEF KVInv
  <2>2. IF Value(p) \in expiring
          THEN timer[Value(p)] \in {Timer("armed", p), Timer("fired", p)}
          ELSE timer[Value(p)] = NoTimer
    BY <2>1 DEF KVInv, StoredValueWillExpire
  <2>3. Value(p) # t
    BY <2>1, <2>2, TimerFields DEF here
  <2>4. Value(p) = old => timer[Value(p)].state # "armed"
    <3>. SUFFICES ASSUME Value(p) = old, timer[old].state = "armed" PROVE FALSE
      BY <2>1
    <3>1. timer[old].place = p
      BY <2>2, TimerFields
    <3>2. timer[old] \in {Timer("armed", here), Timer("fired", here)}
      BY <2>1, <2>2, <1>1, TimerFields DEF KVInv, StoredValueWillExpire
    <3>3. timer[old].place = here
      BY <3>2, TimerFields
    <3>. QED BY <3>1, <3>3, <2>1
  <2>5. timer'[Value(p)] = timer[Value(p)]
    BY <2>1, <2>3, <2>4, <1>4
  <2>. QED BY <2>1, <2>2, <2>5
<1>9. BucketIffKeys'
  BY <1>2 DEF BucketIffKeys
<1>. QED BY <1>5, <1>6, <1>7, <1>8, <1>9 DEF KVInv

LEMMA FireInv ==
  ASSUME KVInv, NEW n \in 1 .. MaxSets, TimerFires(n)
  PROVE  KVInv'
<1>1. /\ timer[n].state = "armed" /\ timer[n].place \in Places
      /\ UNCHANGED <<sets, data, buckets, expiring>>
      /\ timer' = [timer EXCEPT ![n] = Timer("fired", timer[n].place)]
  BY TimerFields DEF TimerFires, KVInv, KVTypeOK
<1>2. \A p : Value(p)' = Value(p)
  BY <1>1 DEF Value
<1>3. KVTypeOK'
  BY <1>1 DEF KVInv, KVTypeOK, Timer
<1>4. UnusedIsFresh'
  BY <1>1, <1>2, TimerFields DEF KVInv, UnusedIsFresh, KVTypeOK
<1>5. ArmedTimerIsCurrent'
  BY <1>1, <1>2, TimerFields DEF KVInv, ArmedTimerIsCurrent, KVTypeOK
<1>6. StoredValueWillExpire'
  <2>. SUFFICES ASSUME NEW p \in Places, Value(p) # 0
                PROVE  IF Value(p) \in expiring
                         THEN timer'[Value(p)] \in {Timer("armed", p), Timer("fired", p)}
                         ELSE timer'[Value(p)] = NoTimer
    BY <1>1, <1>2 DEF StoredValueWillExpire
  <2>1. IF Value(p) \in expiring
          THEN timer[Value(p)] \in {Timer("armed", p), Timer("fired", p)}
          ELSE timer[Value(p)] = NoTimer
    BY DEF KVInv, StoredValueWillExpire
  <2>2. Value(p) \in 1 .. MaxSets
    BY ValueType, MaxSetsAssumption DEF KVInv
  <2>3. CASE Value(p) = n
    BY <2>1, <2>2, <2>3, <1>1, TimerFields DEF KVInv, KVTypeOK
  <2>4. CASE Value(p) # n
    BY <2>1, <2>2, <2>4, <1>1 DEF KVInv, KVTypeOK
  <2>. QED BY <2>3, <2>4
<1>7. BucketIffKeys'
  BY <1>1 DEF KVInv, BucketIffKeys
<1>. QED BY <1>3, <1>4, <1>5, <1>6, <1>7 DEF KVInv

\* The invariant of KVStore holds of every behaviour.
THEOREM KVInvariance == KVSpec => []KVInv
<1>1. KVInv /\ [KVNext]_kvVars => KVInv'
  <2>. SUFFICES ASSUME KVInv, [KVNext]_kvVars PROVE KVInv'
    OBVIOUS
  <2>1. ASSUME NEW ns \in Namespaces, NEW k \in Keys, NEW ttl \in BOOLEAN, Set(ns, k, ttl)
        PROVE  KVInv'
    BY <2>1, SetInv
  <2>2. ASSUME NEW ns \in Namespaces, NEW k \in Keys, Delete(ns, k)
        PROVE  KVInv'
    <3>1. /\ RemoveKey(ns, k) /\ UNCHANGED <<sets, expiring>>
          /\ timer' = Stopped(data[ns][k])
      BY <2>2 DEF Delete
    <3>2. 0 \in 0 .. MaxSets
      BY MaxSetsAssumption
    <3>. QED BY <2>2, <3>1, <3>2, RemoveInv
  <2>3. ASSUME NEW n \in 1 .. MaxSets, TimerFires(n)
        PROVE  KVInv'
    BY <2>3, FireInv
  <2>4. ASSUME NEW n \in 1 .. MaxSets, TimerDeletes(n)
        PROVE  KVInv'
    <3>1. timer[n].place \in Places /\ timer[n] = Timer("fired", timer[n].place)
      BY <2>4, TimerFields DEF TimerDeletes, KVInv, KVTypeOK, Timer
    <3>2. PICK ns \in Namespaces, k \in Keys : timer[n].place = <<ns, k>>
      BY <3>1 DEF Places
    <3>3. /\ RemoveKey(ns, k) /\ UNCHANGED <<sets, expiring>>
          /\ timer' = [Stopped(data[ns][k]) EXCEPT ![n] = Timer("done", timer[n].place)]
      BY <2>4, <3>2 DEF TimerDeletes
    <3>4. n \in 0 .. MaxSets /\ n # 0
      BY MaxSetsAssumption
    <3>. QED BY <3>1, <3>2, <3>3, <3>4, RemoveInv
  <2>5. CASE UNCHANGED kvVars
    BY <2>5 DEF kvVars, KVInv, KVTypeOK, UnusedIsFresh, ArmedTimerIsCurrent,
                StoredValueWillExpire, BucketIffKeys, Value
  <2>. QED BY <2>1, <2>2, <2>3, <2>4, <2>5 DEF KVNext
<1>. QED BY KVInitInv, <1>1, PTL DEF KVSpec

\* The type invariant of the store.
THEOREM KVTypeCorrect == KVSpec => []KVTypeOK
BY KVInvariance, PTL DEF KVInv

\* Set and Delete never leave an armed timer of a value that is gone: the only
\* timers that can delete a newer value are those that had already fired.
THEOREM NoStaleArmedTimer == KVSpec => []ArmedTimerIsCurrent
BY KVInvariance, PTL DEF KVInv

\* The expiresAt that List reports agrees with the timers: a value that shows
\* one will be deleted, a value that shows none has no timer.
THEOREM ExpiryIsReal == KVSpec => []StoredValueWillExpire
BY KVInvariance, PTL DEF KVInv

\* Namespaces are dropped with their last key and not before.
THEOREM NamespacesAreFreed == KVSpec => []BucketIffKeys
BY KVInvariance, PTL DEF KVInv
=============================================================================
