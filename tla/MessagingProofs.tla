-------------------------- MODULE MessagingProofs --------------------------
(***************************************************************************)
(* Proofs about Messaging, for every number of sessions, requests and      *)
(* repliers: the invariants of its runs, and that it implements ReplyCell. *)
(***************************************************************************)
EXTENDS Messaging, TLAPS

-----------------------------------------------------------------------------
(* The inductive invariant                                                 *)

\* The request has been in pendingRequests, and never will be again.
Registered(r) == req[r].pc \in {"prompt", "wait", "answered", "failed"}

\* A request at work has a recipient; a reply at work has an announced request.
Targets ==
  /\ \A r \in Requests :
       /\ req[r].pc \notin {"idle", "refused"} => req[r].to \in Sessions
       /\ req[r].pc = "mirror" => req[r].from \in Sessions
  /\ \A p \in Repliers : rep[p].pc # "idle" =>
       rep[p].req \in Requests /\ Announced(rep[p].req)

\* What a replier holds once it has passed its checks, and once it has taken
\* the entry: the entry is gone for good.
Claims ==
  \A p \in Repliers :
    /\ rep[p].pc = "take" \/ Accepted(p) =>
         MayReply(rep[p].by, rep[p].req) /\ Registered(rep[p].req)
    /\ Accepted(p) => rep[p].req \notin pendingRequests

\* Only a reply that was sent is in a channel or in an answer.
Channels ==
  \A r \in Requests :
    /\ replyCh[r] # NoReply => rep[replyCh[r]].pc = "sent" /\ rep[replyCh[r]].req = r
    /\ answer[r] # NoReply =>
         /\ rep[answer[r]].pc = "sent" /\ rep[answer[r]].req = r
         /\ req[r].pc = "answered"

\* A sound log holds the requests that were announced to its session.
RequestsLogged ==
  \A r \in Requests :
    Announced(r) /\ req[r].to \in sound => RequestEvent(r) \in log[req[r].to]

\* A local reply is in a sound log before it is delivered.
Recorded ==
  \A p \in Repliers :
    LET s == req[rep[p].req].to IN
    rep[p].pc \in {"deliver", "sent"} /\ rep[p].by.node = Here /\ s \in sound =>
      ReplyEvent(p) \in log[s]

MsgInv ==
  /\ TypeOK /\ Targets /\ PendingHasWaiter /\ Claims /\ OneReplyAccepted
  /\ Channels /\ SentReplyReachesWaiter /\ RequestsLogged /\ Recorded

-----------------------------------------------------------------------------

\* An append leaves what the sound logs hold, and its event is in its log if that
\* one stays sound.
LEMMA AppendKeeps ==
  ASSUME NEW s \in Sessions, NEW e, LogAppend(s, e), sound \subseteq Sessions,
         DOMAIN log = Sessions
  PROVE  /\ sound' \subseteq sound
         /\ \A x \in sound' : log[x] \subseteq log'[x]
         /\ s \in sound' => e \in log'[s]
  BY DEF LogAppend

\* The invariant holds before any call is made.
LEMMA InitInv == Init => MsgInv
  <1> SUFFICES ASSUME Init PROVE MsgInv
    OBVIOUS
  <1> USE DEF Init, Call, Reply, NoIdentity, Identity
  <1>1. TypeOK
    BY DEF TypeOK
  <1>2. Targets /\ PendingHasWaiter
    BY DEF Targets, PendingHasWaiter
  <1>3. Claims /\ OneReplyAccepted
    BY DEF Claims, OneReplyAccepted, Accepted
  <1>4. Channels /\ SentReplyReachesWaiter /\ RequestsLogged /\ Recorded
    BY DEF Channels, SentReplyReachesWaiter, RequestsLogged, Recorded, Announced
  <1> QED
    BY <1>1, <1>2, <1>3, <1>4 DEF MsgInv

\* A step of a requester keeps the types.
LEMMA TypeRequest ==
  ASSUME TypeOK, Targets, NEW r \in Requests, RequestStep(r)
  PROVE  TypeOK'
  <1> USE DEF TypeOK, Targets, RequestAt, Call, CleanupRequest
  <1>1. ASSUME NEW from \in Sessions \cup {Nobody}, NEW to \in Sessions,
               NEW pty \in BOOLEAN, BeginRequest(r, from, to, pty)
        PROVE  TypeOK'
    BY <1>1 DEF BeginRequest
  <1>2. CASE RefuseRequest(r)
    BY <1>2 DEF RefuseRequest
  <1>3. CASE Announce(r)
    BY <1>3 DEF Announce, LogAppend, RequestEvent
  <1>4. CASE Mirror(r)
    BY <1>4 DEF Mirror, LogAppend, RequestEvent
  <1>5. CASE Register(r)
    BY <1>5 DEF Register
  <1>6. CASE PromptDelivered(r)
    BY <1>6 DEF PromptDelivered
  <1>7. CASE PromptFails(r)
    BY <1>7 DEF PromptFails
  <1>8. CASE ReceiveReply(r)
    BY <1>8 DEF ReceiveReply
  <1>9. CASE GiveUp(r)
    BY <1>9 DEF GiveUp
  <1> HIDE DEF TypeOK
  <1> QED
    BY <1>1, <1>2, <1>3, <1>4, <1>5, <1>6, <1>7, <1>8, <1>9 DEF RequestStep

\* A step of a replier keeps the types.
LEMMA TypeReply ==
  ASSUME TypeOK, Targets, NEW p \in Repliers, ReplyStep(p)
  PROVE  TypeOK'
  <1> USE DEF TypeOK, ReplyAt, Reply
  <1>1. ASSUME NEW r \in Requests, NEW by \in Identities, BeginReply(p, r, by)
        PROVE  TypeOK'
    BY <1>1 DEF BeginReply
  <1>2. CASE Lookup(p)
    BY <1>2 DEF Lookup
  <1>3. CASE TakePending(p)
    BY <1>3 DEF TakePending
  <1>4. CASE RecordReply(p)
    <2>1. req[rep[p].req].to \in Sessions
      BY <1>4 DEF RecordReply, Targets, Announced
    <2> QED
      BY <1>4, <2>1 DEF RecordReply, LogAppend, ReplyEvent
  <1>5. CASE DeliverReply(p)
    BY <1>5 DEF DeliverReply
  <1> HIDE DEF TypeOK
  <1> QED
    BY <1>1, <1>2, <1>3, <1>4, <1>5 DEF ReplyStep

-----------------------------------------------------------------------------
(* The steps of a requester                                                *)

\* A requester leaves the replies and the other requests alone.
LEMMA RequestFrame ==
  ASSUME TypeOK, NEW r \in Requests, RequestStep(r)
  PROVE  /\ rep' = rep
         /\ \A x \in Requests \ {r} :
              /\ req'[x] = req[x] /\ replyCh'[x] = replyCh[x] /\ answer'[x] = answer[x]
              /\ x \in pendingRequests' <=> x \in pendingRequests
  BY DEF TypeOK, RequestAt, Call, RequestStep, BeginRequest, RefuseRequest, Announce,
         Mirror, Register, PromptDelivered, PromptFails, ReceiveReply, GiveUp, CleanupRequest

\* Nothing a replier relies on changes when a request moves on without leaving
\* the map, the channel or the recipient it has.
LEMMA RequestInv ==
  ASSUME MsgInv, TypeOK', NEW r \in Requests, RequestStep(r)
  PROVE  MsgInv'
  <1> USE DEF TypeOK, RequestAt, Call
  <1>a. TypeOK /\ Targets /\ PendingHasWaiter /\ Claims /\ OneReplyAccepted
        /\ Channels /\ SentReplyReachesWaiter /\ RequestsLogged /\ Recorded
    BY DEF MsgInv
  <1>r. rep' = rep
    BY <1>a, RequestFrame
  <1>o. \A x \in Requests \ {r} :
          /\ req'[x] = req[x] /\ replyCh'[x] = replyCh[x] /\ answer'[x] = answer[x]
          /\ x \in pendingRequests' <=> x \in pendingRequests
    BY <1>a, RequestFrame
  <1>1. /\ Announced(r) => Announced(r)' /\ req'[r].to = req[r].to
        /\ Registered(r) => Registered(r)'
        /\ req'[r].pc \notin {"idle", "refused"} => req'[r].to \in Sessions
        /\ req'[r].pc = "mirror" => req'[r].from \in Sessions
    BY <1>a DEF RequestStep, BeginRequest, RefuseRequest, Announce, Mirror, Register,
           PromptDelivered, PromptFails, ReceiveReply, GiveUp, Announced, Registered, Targets
  <1>2. /\ r \in pendingRequests' => Waiting(r)'
        /\ r \in pendingRequests' => r \in pendingRequests \/ ~Registered(r)
    <2>1. CASE ReceiveReply(r)
      BY <1>a, <2>1 DEF ReceiveReply, Channels, Claims, Accepted
    <2>2. CASE ~ReceiveReply(r)
      BY <1>a, <2>2 DEF RequestStep, BeginRequest, RefuseRequest, Announce, Mirror,
             Register, PromptDelivered, PromptFails, GiveUp, CleanupRequest,
             Registered, PendingHasWaiter, Waiting
    <2> QED
      BY <2>1, <2>2
  <1>3. /\ replyCh'[r] \in {replyCh[r], NoReply}
        /\ Waiting(r)' /\ Registered(r) => Waiting(r) /\ replyCh'[r] = replyCh[r]
        /\ answer'[r] # NoReply =>
             req'[r].pc = "answered" /\ answer'[r] \in {answer[r], replyCh[r]}
    BY <1>a DEF RequestStep, BeginRequest, RefuseRequest, Announce, Mirror, Register,
           PromptDelivered, PromptFails, ReceiveReply, GiveUp, Registered, Waiting, Channels
  <1>4. /\ sound' \subseteq sound /\ \A s \in sound' : log[s] \subseteq log'[s]
        /\ Announced(r)' /\ ~Announced(r) /\ req'[r].to \in sound' =>
             RequestEvent(r) \in log'[req'[r].to]
    <2>1. CASE Announce(r)
      <3>1. req[r].to \in Sessions /\ LogAppend(req[r].to, RequestEvent(r)) /\ req'[r].to = req[r].to
        BY <1>a, <2>1 DEF Announce, Targets
      <3> QED
        BY <1>a, <3>1, AppendKeeps
    <2>2. CASE Mirror(r)
      <3>1. /\ req[r].from \in Sessions /\ LogAppend(req[r].from, RequestEvent(r))
            /\ Announced(r)
        BY <1>a, <2>2 DEF Mirror, Targets, Announced
      <3> QED
        BY <1>a, <3>1, AppendKeeps
    <2>3. CASE ~Announce(r) /\ ~Mirror(r)
      BY <1>a, <2>3 DEF RequestStep, BeginRequest, RefuseRequest, Register,
             PromptDelivered, PromptFails, ReceiveReply, GiveUp, Announced
    <2> QED
      BY <2>1, <2>2, <2>3
  <1>5. Targets'
    BY <1>a, <1>r, <1>o, <1>1 DEF Targets, Announced
  <1>6. PendingHasWaiter'
    BY <1>a, <1>o, <1>2 DEF PendingHasWaiter, Waiting
  <1>7. Claims'
    BY <1>a, <1>r, <1>o, <1>1, <1>2 DEF Claims, Targets, Accepted, MayReply, Registered, Announced
  <1>8. OneReplyAccepted'
    BY <1>a, <1>r DEF OneReplyAccepted, Accepted
  <1>9. Channels'
    BY <1>a, <1>r, <1>o, <1>3 DEF Channels
  <1>10. SentReplyReachesWaiter'
    BY <1>a, <1>r, <1>o, <1>3 DEF SentReplyReachesWaiter, Claims, Targets, Accepted, Waiting,
           Registered
  <1>11. RequestsLogged' /\ Recorded'
    <2>1. RequestsLogged'
      BY <1>a, <1>o, <1>1, <1>4 DEF RequestsLogged, Announced, RequestEvent
    <2>2. Recorded'
      BY <1>a, <1>r, <1>o, <1>1, <1>4 DEF Recorded, Targets, Announced, ReplyEvent
    <2> QED
      BY <2>1, <2>2
  <1> QED
    BY <1>5, <1>6, <1>7, <1>8, <1>9, <1>10, <1>11 DEF MsgInv

-----------------------------------------------------------------------------
(* The steps of a replier                                                  *)

\* A step of a replier keeps the invariant: the second look at the map decides
\* between the replies that passed the first.
LEMMA ReplyInv ==
  ASSUME MsgInv, TypeOK', NEW p \in Repliers, ReplyStep(p)
  PROVE  MsgInv'
  <1> USE DEF TypeOK, ReplyAt, Reply
  <1>a. TypeOK /\ Targets /\ PendingHasWaiter /\ Claims /\ OneReplyAccepted
        /\ Channels /\ SentReplyReachesWaiter /\ RequestsLogged /\ Recorded
    BY DEF MsgInv
  <1>r. req' = req /\ answer' = answer /\ pendingRequests' \subseteq pendingRequests
    BY DEF ReplyStep, BeginReply, Lookup, TakePending, RecordReply, DeliverReply
  <1>o. \A q \in Repliers \ {p} : rep'[q] = rep[q]
    BY DEF ReplyStep, BeginReply, Lookup, TakePending, RecordReply, DeliverReply
  <1>1. /\ rep'[p].pc # "idle" => rep'[p].req \in Requests /\ Announced(rep'[p].req)
        /\ rep[p].pc # "idle" => rep'[p].req = rep[p].req /\ rep'[p].by = rep[p].by
        /\ rep[p].pc # "sent"
    BY <1>a DEF ReplyStep, BeginReply, Lookup, TakePending, RecordReply, DeliverReply, Targets
  <1>2. /\ rep'[p].pc = "take" \/ Accepted(p)' =>
             /\ rep[p].pc # "idle"
             /\ MayReply(rep[p].by, rep[p].req) /\ Registered(rep[p].req)
        /\ Accepted(p)' => rep[p].req \notin pendingRequests'
        /\ Accepted(p)' => Accepted(p) \/ rep[p].req \in pendingRequests
    BY <1>a DEF ReplyStep, BeginReply, Lookup, TakePending, RecordReply, DeliverReply,
                Claims, Accepted, Registered, PendingHasWaiter, Waiting
  <1>3. Targets'
    BY <1>a, <1>r, <1>o, <1>1 DEF Targets, Announced
  <1>4. PendingHasWaiter'
    BY <1>a, <1>r DEF PendingHasWaiter, Waiting
  <1>5. Claims'
    BY <1>a, <1>r, <1>o, <1>1, <1>2 DEF Claims, Accepted, MayReply, Registered
  <1>6. OneReplyAccepted'
    <2>1. \A q \in Repliers \ {p} :
            Accepted(p)' /\ Accepted(q) => rep[q].req # rep[p].req
      BY <1>a, <1>2 DEF OneReplyAccepted, Claims
    <2>2. \A q \in Repliers \ {p} : Accepted(q)' <=> Accepted(q)
      BY <1>o DEF Accepted
    <2>3. Accepted(p)' => rep'[p].req = rep[p].req
      BY <1>1, <1>2
    <2> QED
      BY <1>a, <1>o, <2>1, <2>2, <2>3 DEF OneReplyAccepted
  <1>7. \A x \in Requests :
          \/ replyCh'[x] = replyCh[x] /\ (rep'[p].pc = "sent" => rep[p].req # x)
          \/ replyCh'[x] = p /\ rep'[p].pc = "sent" /\ rep'[p].req = x
    <2>1. CASE DeliverReply(p)
      <3>1. replyCh[rep[p].req] = NoReply
        <4>1. SUFFICES ASSUME replyCh[rep[p].req] # NoReply PROVE FALSE
          OBVIOUS
        <4>2. PICK q \in Repliers : q = replyCh[rep[p].req]
          BY <1>a, <2>1, <4>1 DEF DeliverReply, Targets
        <4>3. rep[q].pc = "sent" /\ rep[q].req = rep[p].req
          BY <1>a, <2>1, <4>1, <4>2 DEF DeliverReply, Targets, Channels
        <4> QED
          BY <1>a, <2>1, <4>3 DEF DeliverReply, OneReplyAccepted, Accepted
      <3> QED
        BY <1>a, <2>1, <3>1 DEF DeliverReply, Targets
    <2>2. CASE ~DeliverReply(p)
      BY <1>1, <2>2 DEF ReplyStep, BeginReply, Lookup, TakePending, RecordReply
    <2> QED
      BY <2>1, <2>2
  <1>8. Channels'
    <2> SUFFICES ASSUME NEW x \in Requests
                 PROVE  /\ replyCh'[x] # NoReply =>
                             rep'[replyCh'[x]].pc = "sent" /\ rep'[replyCh'[x]].req = x
                        /\ answer[x] # NoReply =>
                             /\ rep'[answer[x]].pc = "sent" /\ rep'[answer[x]].req = x
                             /\ req[x].pc = "answered"
      BY <1>r DEF Channels
    <2>1. \A q \in Repliers : rep[q].pc = "sent" => rep'[q] = rep[q]
      BY <1>o, <1>1
    <2> QED
      BY <1>a, <1>7, <2>1 DEF Channels
  <1>9. SentReplyReachesWaiter'
    <2> SUFFICES ASSUME NEW q \in Repliers, rep'[q].pc = "sent", Waiting(rep'[q].req)
                 PROVE  replyCh'[rep'[q].req] = q
      BY <1>r DEF SentReplyReachesWaiter, Waiting
    <2>1. CASE q = p
      BY <1>1, <1>2, <1>7, <2>1 DEF Accepted
    <2>2. CASE q # p
      <3>1. rep'[q] = rep[q] /\ rep[q].req \in Requests
        BY <1>a, <1>o, <2>2 DEF Targets
      <3>2. replyCh[rep[q].req] = q
        BY <1>a, <3>1 DEF SentReplyReachesWaiter
      <3>3. ~(rep'[p].pc = "sent" /\ rep'[p].req = rep[q].req)
        BY <1>6, <2>2, <3>1 DEF OneReplyAccepted, Accepted
      <3> QED
        BY <1>7, <3>1, <3>2, <3>3
    <2> QED
      BY <2>1, <2>2
  <1>10. RequestsLogged' /\ Recorded'
    <2>1. \A q \in Repliers : rep[q].pc # "idle" => req[rep[q].req].to \in Sessions
      BY <1>a DEF Targets, Announced
    <2>2. /\ sound' \subseteq sound /\ \A x \in sound' : log[x] \subseteq log'[x]
          /\ RecordReply(p) /\ rep[p].by.node = Here /\ req[rep[p].req].to \in sound' =>
               ReplyEvent(p) \in log'[req[rep[p].req].to]
      <3>1. CASE RecordReply(p) /\ rep[p].by.node = Here
        <4>1. /\ req[rep[p].req].to \in Sessions
              /\ LogAppend(req[rep[p].req].to, ReplyEvent(p))
          BY <2>1, <3>1 DEF RecordReply
        <4> QED
          BY <1>a, <4>1, AppendKeeps
      <3>2. CASE ~(RecordReply(p) /\ rep[p].by.node = Here)
        BY <3>2 DEF ReplyStep, BeginReply, Lookup, TakePending, RecordReply, DeliverReply
      <3> QED
        BY <3>1, <3>2
    <2>3. RequestsLogged'
      BY <1>a, <1>r, <2>2 DEF RequestsLogged, Announced, RequestEvent
    <2>4. rep'[p].pc \in {"deliver", "sent"} => rep[p].pc = "deliver" \/ RecordReply(p)
      BY <1>a DEF ReplyStep, BeginReply, Lookup, TakePending, DeliverReply
    <2>5. Recorded'
      <3> SUFFICES ASSUME NEW q \in Repliers, rep'[q].pc \in {"deliver", "sent"},
                          rep'[q].by.node = Here, req[rep'[q].req].to \in sound'
                   PROVE  ReplyEvent(q) \in log'[req[rep'[q].req].to]
        BY <1>r DEF Recorded, ReplyEvent
      <3>1. CASE q = p /\ RecordReply(p)
        BY <1>1, <2>2, <3>1 DEF RecordReply
      <3>2. CASE ~(q = p /\ RecordReply(p))
        <4>1. /\ rep[q].pc \in {"deliver", "sent"}
              /\ rep'[q].by = rep[q].by /\ rep'[q].req = rep[q].req
          BY <1>o, <1>1, <2>4, <3>2
        <4> QED
          BY <1>a, <2>2, <4>1 DEF Recorded
      <3> QED
        BY <3>1, <3>2
    <2> QED
      BY <2>3, <2>5
  <1> QED
    BY <1>3, <1>4, <1>5, <1>6, <1>8, <1>9, <1>10 DEF MsgInv

-----------------------------------------------------------------------------
(* The theorems                                                            *)

\* Every step keeps the invariant.
LEMMA InvStep == MsgInv /\ [Next]_vars => MsgInv'
  <1> SUFFICES ASSUME MsgInv, [Next]_vars PROVE MsgInv'
    OBVIOUS
  <1>1. ASSUME NEW r \in Requests, RequestStep(r) PROVE MsgInv'
    BY <1>1, TypeRequest, RequestInv DEF MsgInv
  <1>2. ASSUME NEW p \in Repliers, ReplyStep(p) PROVE MsgInv'
    BY <1>2, TypeReply, ReplyInv DEF MsgInv
  <1>3. CASE UNCHANGED vars
    BY <1>3 DEF vars, MsgInv, TypeOK, Targets, PendingHasWaiter, Claims, OneReplyAccepted,
            Channels, SentReplyReachesWaiter, RequestsLogged, Recorded, Accepted, Waiting,
            Registered, Announced, MayReply, RequestEvent, ReplyEvent
  <1> QED
    BY <1>1, <1>2, <1>3 DEF Next

\* The inductive invariant of Messaging holds in every reachable state.
THEOREM Invariance == Spec => []MsgInv
  BY InitInv, InvStep, PTL DEF Spec

\* At most one of the replies that race for a request is accepted.
THEOREM AtMostOneReply == Spec => []OneReplyAccepted
  <1>1. MsgInv => OneReplyAccepted
    BY DEF MsgInv
  <1> QED
    BY <1>1, Invariance, PTL

\* A requester is answered with its own token or by the number of the session it
\* asked, whatever races for the pending entry.
THEOREM AnsweredByNumberOrToken == Spec => []AnswerByNumberOrToken
  <1>1. MsgInv => AnswerByNumberOrToken
    <2> SUFFICES ASSUME MsgInv, NEW r \in Requests, answer[r] # NoReply
                 PROVE  /\ rep[answer[r]].req = r
                        /\ rep[answer[r]].by.token = r \/ rep[answer[r]].by.id = req[r].to
      BY DEF AnswerByNumberOrToken
    <2>1. answer[r] \in Repliers /\ rep[answer[r]].req = r /\ Accepted(answer[r])
      BY DEF MsgInv, TypeOK, Channels, Accepted
    <2> QED
      BY <2>1 DEF MsgInv, Claims, MayReply
  <1> QED
    BY <1>1, Invariance, PTL

\* The map of pending requests holds no entry whose requester has gone.
THEOREM NoPendingLeak == Spec => []PendingHasWaiter
  <1>1. MsgInv => PendingHasWaiter
    BY DEF MsgInv
  <1> QED
    BY <1>1, Invariance, PTL

\* An acknowledged reply is in the channel of a requester that still waits.
THEOREM SentReplyArrives == Spec => []SentReplyReachesWaiter
  <1>1. MsgInv => SentReplyReachesWaiter
    BY DEF MsgInv
  <1> QED
    BY <1>1, Invariance, PTL

\* An acknowledged local reply and its request are in the message log of the
\* session it is for, if that log has no hole.
THEOREM SentReplyRecorded == Spec => []SentReplyInLog
  <1>1. MsgInv => SentReplyInLog
    BY DEF MsgInv, Targets, RequestsLogged, Recorded, SentReplyInLog
  <1> QED
    BY <1>1, Invariance, PTL

-----------------------------------------------------------------------------
(* Messaging implements ReplyCell                                          *)

AbsCell == [r \in Requests |-> CellOf(r)]
AbsEntitled == [p \in Repliers |-> EntitledTo(p)]

\* A step of a requester opens its cell, closes it, or changes no cell.
LEMMA RequestCell ==
  ASSUME MsgInv, NEW r \in Requests, RequestStep(r)
  PROVE  Abstract!Next \/ UNCHANGED <<AbsCell, AbsEntitled>>
  <1>a. TypeOK /\ Targets /\ PendingHasWaiter /\ Claims /\ Channels
    BY DEF MsgInv
  <1>r. rep' = rep
    BY <1>a, RequestFrame
  <1>t. \A x \in Requests : Takers(x)' = Takers(x)
    BY <1>r DEF Takers, Accepted
  <1>o. \A x \in Requests \ {r} : CellOf(x)' = CellOf(x)
    BY <1>a, <1>t, RequestFrame DEF CellOf
  <1>u. Announced(r) => req'[r].to = req[r].to
    BY <1>a DEF TypeOK, RequestAt, Call, Announced, RequestStep, BeginRequest, RefuseRequest,
           Announce, Mirror, Register, PromptDelivered, PromptFails, ReceiveReply, GiveUp
  <1>e. AbsEntitled' = AbsEntitled
    <2> SUFFICES ASSUME NEW p \in Repliers PROVE EntitledTo(p)' = EntitledTo(p)
      BY DEF AbsEntitled
    <2> SUFFICES ASSUME NEW x \in Requests, rep[p].pc # "idle", rep[p].req = x
                 PROVE  MayReply(rep[p].by, x)' <=> MayReply(rep[p].by, x)
      BY <1>r DEF EntitledTo
    <2>1. req'[x].to = req[x].to
      BY <1>a, <1>u, RequestFrame DEF Targets
    <2> QED
      BY <1>r, <2>1 DEF MayReply
  <1>1. CASE CellOf(r)' = CellOf(r)
    BY <1>1, <1>o, <1>e DEF AbsCell
  <1>2. CASE r \notin pendingRequests /\ r \in pendingRequests'
    <2>1. Register(r)
      BY <1>2 DEF RequestStep, BeginRequest, RefuseRequest, Announce, Mirror,
             PromptDelivered, PromptFails, ReceiveReply, GiveUp, CleanupRequest
    <2>2. Takers(r) = {}
      BY <1>a, <2>1 DEF Takers, Register, Claims, Registered
    <2>3. AbsCell[r].at = "new" /\ CellOf(r)' = Abstract!Cell("open", {})
      BY <1>2, <1>t, <2>1, <2>2 DEF AbsCell, CellOf, Register, Abstract!Cell
    <2>4. AbsCell' = [AbsCell EXCEPT ![r] = Abstract!Cell("open", {})]
      BY <1>o, <2>3 DEF AbsCell
    <2> QED
      BY <1>e, <2>3, <2>4 DEF Abstract!Next, Abstract!Open, AbsCell, AbsEntitled
  <1>3. CASE r \in pendingRequests /\ r \notin pendingRequests'
    <2>1. PromptFails(r) \/ GiveUp(r)
      BY <1>3 DEF RequestStep, BeginRequest, RefuseRequest, Announce, Mirror, Register,
             PromptDelivered, ReceiveReply
    <2>2. Takers(r) = {}
      BY <1>a, <1>3 DEF Takers, Claims
    <2>3. req'[r].pc = "failed"
      BY <1>a, <2>1 DEF TypeOK, PromptFails, GiveUp, RequestAt, Call
    <2>4. AbsCell[r].at = "open" /\ CellOf(r)' = Abstract!Cell("closed", {})
      BY <1>3, <1>t, <2>2, <2>3 DEF AbsCell, CellOf, Abstract!Cell
    <2>5. AbsCell' = [AbsCell EXCEPT ![r] = Abstract!Cell("closed", {})]
      BY <1>o, <2>4 DEF AbsCell
    <2> QED
      BY <1>e, <2>4, <2>5 DEF Abstract!Next, Abstract!Close, AbsCell, AbsEntitled
  <1>4. CASE r \in pendingRequests <=> r \in pendingRequests'
    <2>1. (req[r].pc \in {"wait", "prompt", "answered", "failed"}) <=>
          (req'[r].pc \in {"wait", "prompt", "answered", "failed"})
      BY <1>a, <1>4 DEF TypeOK, RequestAt, Call, RequestStep, BeginRequest, RefuseRequest,
             Announce, Mirror, Register, PromptDelivered, PromptFails, ReceiveReply, GiveUp,
             PendingHasWaiter, Waiting
    <2> QED
      BY <1>1, <1>4, <1>t, <2>1 DEF CellOf
  <1> QED
    BY <1>2, <1>3, <1>4

\* A step of a replier announces it, takes the cell, or changes no cell.
LEMMA ReplierCell ==
  ASSUME MsgInv, NEW p \in Repliers, ReplyStep(p)
  PROVE  Abstract!Next \/ UNCHANGED <<AbsCell, AbsEntitled>>
  <1>a. TypeOK /\ Targets /\ PendingHasWaiter /\ Claims
    BY DEF MsgInv
  <1> USE DEF TypeOK, ReplyAt, Reply
  <1>r. req' = req
    BY DEF ReplyStep, BeginReply, Lookup, TakePending, RecordReply, DeliverReply
  <1>o. \A q \in Repliers \ {p} : rep'[q] = rep[q]
    BY <1>a DEF ReplyStep, BeginReply, Lookup, TakePending, RecordReply, DeliverReply
  <1>oe. \A q \in Repliers \ {p} : EntitledTo(q)' = EntitledTo(q)
    BY <1>r, <1>o DEF EntitledTo, MayReply
  <1>1. ASSUME NEW r \in Requests, NEW by \in Identities, BeginReply(p, r, by)
        PROVE  Abstract!Next \/ UNCHANGED <<AbsCell, AbsEntitled>>
    <2>1. AbsCell' = AbsCell
      <3>1. \A x \in Requests : Takers(x)' = Takers(x)
        BY <1>a, <1>o, <1>1 DEF BeginReply, Takers, Accepted
      <3> QED
        BY <1>1, <3>1 DEF BeginReply, AbsCell, CellOf
    <2>2. AbsEntitled[p] = {}
      BY <1>1 DEF BeginReply, AbsEntitled, EntitledTo
    <2>3. AbsEntitled' = [AbsEntitled EXCEPT ![p] = EntitledTo(p)']
      BY <1>oe DEF AbsEntitled
    <2>4. EntitledTo(p)' \in SUBSET Requests
      BY DEF EntitledTo
    <2> QED
      BY <2>1, <2>2, <2>3, <2>4 DEF Abstract!Next, Abstract!Arrive, AbsCell, AbsEntitled
  <1>2. ASSUME rep[p].pc # "idle", rep'[p].req = rep[p].req, rep'[p].by = rep[p].by,
               rep'[p].pc # "idle"
        PROVE  AbsEntitled' = AbsEntitled
    <2>1. EntitledTo(p)' = EntitledTo(p)
      BY <1>r, <1>2 DEF EntitledTo, MayReply
    <2> QED
      BY <1>oe, <2>1 DEF AbsEntitled
  <1>3. ASSUME Accepted(p)' <=> Accepted(p), rep'[p].req = rep[p].req,
               pendingRequests' = pendingRequests
        PROVE  AbsCell' = AbsCell
    <2>1. \A x \in Requests : Takers(x)' = Takers(x)
      BY <1>o, <1>3 DEF Takers, Accepted
    <2> QED
      BY <1>r, <1>3, <2>1 DEF AbsCell, CellOf
  <1>4. CASE Lookup(p) \/ RecordReply(p) \/ DeliverReply(p)
    <2>1. /\ rep[p].pc # "idle" /\ rep'[p].req = rep[p].req /\ rep'[p].by = rep[p].by
          /\ rep'[p].pc # "idle" /\ (Accepted(p)' <=> Accepted(p))
          /\ pendingRequests' = pendingRequests
      BY <1>a, <1>4 DEF Lookup, RecordReply, DeliverReply, Accepted
    <2> QED
      BY <1>2, <1>3, <2>1
  <1>5. CASE TakePending(p)
    <2>1. /\ rep[p].pc = "take" /\ rep'[p].req = rep[p].req /\ rep'[p].by = rep[p].by
          /\ rep'[p].pc = IF rep[p].req \in pendingRequests THEN "record" ELSE "refused"
          /\ pendingRequests' = pendingRequests \ {rep[p].req}
      BY <1>a, <1>5 DEF TakePending
    <2>2. AbsEntitled' = AbsEntitled
      BY <1>2, <2>1
    <2>3. CASE rep[p].req \notin pendingRequests
      BY <1>3, <2>1, <2>2, <2>3 DEF Accepted
    <2>4. CASE rep[p].req \in pendingRequests
      <3>0. PICK r \in Requests : r = rep[p].req
        BY <1>a, <2>4
      <3>1. r \in AbsEntitled[p]
        BY <1>a, <2>1, <3>0 DEF Targets, Claims, AbsEntitled, EntitledTo
      <3>2. AbsCell[r].at = "open" /\ \A x \in Requests : p \notin AbsCell[x].by
        BY <2>1, <2>4, <3>0 DEF AbsCell, CellOf, Takers, Accepted
      <3>3. Takers(r)' = {p}
        <4>1. Takers(r) = {}
          BY <1>a, <2>4, <3>0 DEF Takers, Claims
        <4> QED
          BY <1>o, <2>1, <2>4, <3>0, <4>1 DEF Takers, Accepted
      <3>4. \A x \in Requests \ {r} : Takers(x)' = Takers(x)
        BY <1>o, <2>1, <3>0 DEF Takers, Accepted
      <3>5. CellOf(r)' = Abstract!Cell("taken", {p})
        BY <2>1, <3>0, <3>3 DEF CellOf, Abstract!Cell
      <3>6. \A x \in Requests \ {r} : CellOf(x)' = CellOf(x)
        BY <1>r, <2>1, <3>0, <3>4 DEF CellOf
      <3>7. AbsCell' = [AbsCell EXCEPT ![r] = Abstract!Cell("taken", {p})]
        BY <3>5, <3>6 DEF AbsCell
      <3> QED
        BY <2>2, <3>1, <3>2, <3>7 DEF Abstract!Next, Abstract!Take, AbsCell, AbsEntitled
    <2> QED
      BY <2>3, <2>4
  <1> HIDE DEF TypeOK
  <1> QED
    BY <1>1, <1>4, <1>5 DEF ReplyStep

\* Messaging implements ReplyCell: a request is taken at most once, by an
\* entitled reply, and never after it was closed.
THEOREM RefinesReplyCell == Spec => ImplementsReplyCell
  <1>1. Init => Abstract!Init
    <2> SUFFICES ASSUME Init PROVE Abstract!Init
      OBVIOUS
    <2>1. \A r \in Requests : Takers(r) = {}
      BY DEF Init, Takers, Accepted, Reply
    <2>2. \A r \in Requests : CellOf(r) = Abstract!Cell("new", {})
      BY <2>1 DEF Init, CellOf, Call, Abstract!Cell
    <2>3. \A p \in Repliers : EntitledTo(p) = {}
      BY DEF Init, EntitledTo, Reply
    <2> QED
      BY <2>2, <2>3 DEF Abstract!Init
  <1>2. MsgInv /\ [Next]_vars => [Abstract!Next]_<<AbsCell, AbsEntitled>>
    <2> SUFFICES ASSUME MsgInv, [Next]_vars
                 PROVE  Abstract!Next \/ UNCHANGED <<AbsCell, AbsEntitled>>
      OBVIOUS
    <2>1. CASE UNCHANGED vars
      BY <2>1 DEF vars, AbsCell, AbsEntitled, CellOf, EntitledTo, Takers, Accepted, MayReply
    <2> QED
      BY <2>1, RequestCell, ReplierCell DEF Next
  <1> QED
    BY <1>1, <1>2, Invariance, PTL DEF Spec, ImplementsReplyCell, Abstract!Spec, AbsCell, AbsEntitled
=============================================================================
