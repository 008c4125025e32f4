----------------------------- MODULE Messaging -----------------------------
(***************************************************************************)
(* Requests and replies between sessions: sendRequestWithMetadata,         *)
(* sendReplyWithMetadata and CleanupRequest of internal/session/session.go *)
(* under handleMsgRequest and handleMsgReply of internal/node/handler.go   *)
(* and of internal/peer/server.go.                                         *)
(*                                                                         *)
(* A request is one handleMsgRequest goroutine, a replier one              *)
(* handleMsgReply goroutine; each serves one call.  A step is a critical   *)
(* section of pendingRequestsMu, an append to a message log with the       *)
(* publication that follows it, or an operation on the reply channel.      *)
(***************************************************************************)
EXTENDS Naturals, FiniteSets

CONSTANTS
  Sessions,   \* the numbers of the node's sessions (m.sessions never loses one);
              \* a session of another node may have the same number
  Nobody,     \* session ID 0: no session
  Here,       \* a caller on the node's own socket
  Peers,      \* the nodes that call over the peer service
  Requests,   \* the calls of handleMsgRequest, and the request IDs they draw
  NoRequest,  \* no reply token
  Repliers,   \* the calls of handleMsgReply
  NoReply,    \* an empty reply channel
  MaxHoles    \* bound: how many message logs may miss an event

ASSUME NobodyAssumption == Nobody \notin Sessions
ASSUME HereAssumption == Here \notin Peers
ASSUME NoRequestAssumption == NoRequest \notin Requests
ASSUME NoReplyAssumption == NoReply \notin Repliers

VARIABLES
  req,              \* the request goroutines
  pendingRequests,  \* the keys of SessionManager.pendingRequests
  replyCh,          \* the reply channel (capacity 1) of each request
  answer,           \* the reply each requester was answered with
  rep,              \* the reply goroutines
  log,              \* the message log of each session: its request and reply events
  sound             \* the sessions whose messages.jsonl could be opened and has
                    \* taken every event so far

vars == <<req, pendingRequests, replyCh, answer, rep, log, sound>>

-----------------------------------------------------------------------------

Call(pc, from, to, pty) == [pc |-> pc, from |-> from, to |-> to, pty |-> pty]

\* Who a replier says it is: a session number, which the sender delegation has
\* checked against the node that calls, or the token that came with a request.
\* The node is not looked at again.
Identity(node, id, token) == [node |-> node, id |-> id, token |-> token]
Identities ==
  [node : {Here}, id : Sessions, token : {NoRequest}]
    \cup [node : {Here}, id : {Nobody}, token : Requests]
    \cup [node : Peers, id : Sessions \cup {Nobody}, token : {NoRequest}]
NoIdentity == Identity(Here, Nobody, NoRequest)

Reply(pc, r, by) == [pc |-> pc, req |-> r, by |-> by]

RequestEvent(r) == [type |-> "request", ref |-> r]
ReplyEvent(p)   == [type |-> "reply", ref |-> p]

\* The request ID can be known: its event has been published.
Announced(r) == req[r].pc \notin {"idle", "announce", "refused"}

\* Mutant of MayReply: a token is taken for a valid one without a comparison.
MayReplyAnyToken(by, r) == by.token # NoRequest \/ by.id = req[r].to

\* A reply token stands for the session the request went to; a number must be
\* that session's, on whichever node it is one.
MayReply(by, r) ==
  IF by.token # NoRequest THEN by.token = r ELSE by.id = req[r].to

Init ==
  /\ req = [r \in Requests |-> Call("idle", Nobody, Nobody, FALSE)]
  /\ pendingRequests = {}
  /\ replyCh = [r \in Requests |-> NoReply]
  /\ answer = [r \in Requests |-> NoReply]
  /\ rep = [p \in Repliers |-> Reply("idle", NoRequest, NoIdentity)]
  /\ log = [s \in Sessions |-> {}]
  /\ sound \in {S \in SUBSET Sessions : Cardinality(Sessions \ S) <= MaxHoles}

\* An event for a session's log.  There may be no log (messageLog is nil), and
\* the error of Append is ignored: what a log with a hole holds is not followed.
LogAppend(s, e) ==
  \/ s \in sound /\ log' = [log EXCEPT ![s] = @ \cup {e}] /\ UNCHANGED sound
  \/ /\ Cardinality((Sessions \ sound) \cup {s}) <= MaxHoles
     /\ log' = [log EXCEPT ![s] = {}] /\ sound' = sound \ {s}

-----------------------------------------------------------------------------
(* A request                                                               *)

RequestAt(r, pc) == [req EXCEPT ![r] = Call(pc, req[r].from, req[r].to, req[r].pty)]

\* resolveRecipient and the delivery policy let the request through.
BeginRequest(r, from, to, pty) ==
  /\ req[r].pc = "idle"
  /\ req' = [req EXCEPT ![r] = Call("announce", from, to, pty)]
  /\ UNCHANGED <<pendingRequests, replyCh, answer, rep, log, sound>>

\* No such session, or the group policy forbids the delivery.
RefuseRequest(r) ==
  /\ req[r].pc = "idle"
  /\ req' = RequestAt(r, "refused")
  /\ UNCHANGED <<pendingRequests, replyCh, answer, rep, log, sound>>

\* The event goes to the recipient's log and to its subscribers.
Announce(r) ==
  /\ req[r].pc = "announce"
  /\ LogAppend(req[r].to, RequestEvent(r))
  /\ req' = RequestAt(r, IF req[r].from \in Sessions \ {req[r].to}
                           THEN "mirror" ELSE "register")
  /\ UNCHANGED <<pendingRequests, replyCh, answer, rep>>

\* A sender that is another session of this node gets the event too.
Mirror(r) ==
  /\ req[r].pc = "mirror"
  /\ LogAppend(req[r].from, RequestEvent(r))
  /\ req' = RequestAt(r, "register")
  /\ UNCHANGED <<pendingRequests, replyCh, answer, rep>>

Register(r) ==
  /\ req[r].pc = "register"
  /\ pendingRequests' = pendingRequests \cup {r}
  /\ req' = RequestAt(r, IF req[r].pty THEN "prompt" ELSE "wait")
  /\ UNCHANGED <<replyCh, answer, rep, log, sound>>

\* DeliverRequestPrompt puts the prompt into the recipient's input channel.
PromptDelivered(r) ==
  /\ req[r].pc = "prompt"
  /\ req' = RequestAt(r, "wait")
  /\ UNCHANGED <<pendingRequests, replyCh, answer, rep, log, sound>>

CleanupRequest(r) == pendingRequests' = pendingRequests \ {r}

\* The input channel is full.
PromptFails(r) ==
  /\ req[r].pc = "prompt"
  /\ CleanupRequest(r)
  /\ req' = RequestAt(r, "failed")
  /\ UNCHANGED <<replyCh, answer, rep, log, sound>>

ReceiveReply(r) ==
  /\ req[r].pc = "wait" /\ replyCh[r] # NoReply
  /\ answer' = [answer EXCEPT ![r] = replyCh[r]]
  /\ replyCh' = [replyCh EXCEPT ![r] = NoReply]
  /\ req' = RequestAt(r, "answered")
  /\ UNCHANGED <<pendingRequests, rep, log, sound>>

\* Mutant of GiveUp: the pending entry stays behind.
GiveUpDirty(r) ==
  /\ req[r].pc = "wait"
  /\ req' = RequestAt(r, "failed")
  /\ UNCHANGED <<pendingRequests, replyCh, answer, rep, log, sound>>

\* The timer fires or the requesting client disconnects.
GiveUp(r) ==
  /\ req[r].pc = "wait"
  /\ CleanupRequest(r)
  /\ req' = RequestAt(r, "failed")
  /\ UNCHANGED <<replyCh, answer, rep, log, sound>>

-----------------------------------------------------------------------------
(* A reply                                                                 *)

ReplyAt(p, pc) == [rep EXCEPT ![p] = Reply(pc, rep[p].req, rep[p].by)]

BeginReply(p, r, by) ==
  /\ rep[p].pc = "idle" /\ Announced(r)
  /\ rep' = [rep EXCEPT ![p] = Reply("lookup", r, by)]
  /\ UNCHANGED <<req, pendingRequests, replyCh, answer, log, sound>>

\* The first critical section, and the checks on the copy it made.
Lookup(p) ==
  LET r == rep[p].req IN
  /\ rep[p].pc = "lookup"
  /\ rep' = ReplyAt(p, IF r \in pendingRequests /\ MayReply(rep[p].by, r)
                         THEN "take" ELSE "refused")
  /\ UNCHANGED <<req, pendingRequests, replyCh, answer, log, sound>>

\* Mutant of TakePending: the entry is deleted without looking for it again.
TakePendingBlindly(p) ==
  /\ rep[p].pc = "take"
  /\ pendingRequests' = pendingRequests \ {rep[p].req}
  /\ rep' = ReplyAt(p, "record")
  /\ UNCHANGED <<req, replyCh, answer, log, sound>>

\* The second critical section: the entry may have gone in between.
TakePending(p) ==
  /\ rep[p].pc = "take"
  /\ pendingRequests' = pendingRequests \ {rep[p].req}
  /\ rep' = ReplyAt(p, IF rep[p].req \in pendingRequests THEN "record" ELSE "refused")
  /\ UNCHANGED <<req, replyCh, answer, log, sound>>

\* Mutant of RecordReply: a reply by token is not recorded.
RecordReplyNoToken(p) ==
  /\ rep[p].pc = "record"
  /\ IF rep[p].by.node = Here /\ rep[p].by.id # Nobody
       THEN LogAppend(req[rep[p].req].to, ReplyEvent(p))
       ELSE UNCHANGED <<log, sound>>
  /\ rep' = ReplyAt(p, "deliver")
  /\ UNCHANGED <<req, pendingRequests, replyCh, answer>>

\* The event goes to the log of the session that replies, if the caller is local.
RecordReply(p) ==
  /\ rep[p].pc = "record"
  /\ IF rep[p].by.node = Here
       THEN LogAppend(req[rep[p].req].to, ReplyEvent(p))
       ELSE UNCHANGED <<log, sound>>
  /\ rep' = ReplyAt(p, "deliver")
  /\ UNCHANGED <<req, pendingRequests, replyCh, answer>>

\* Mutant of DeliverReply: the channel has no buffer, so the send succeeds only
\* while the requester stands in its select.
DeliverReplyUnbuffered(p) ==
  LET r == rep[p].req IN
  /\ rep[p].pc = "deliver"
  /\ replyCh' = IF req[r].pc = "wait" THEN [replyCh EXCEPT ![r] = p] ELSE replyCh
  /\ rep' = ReplyAt(p, "sent")
  /\ UNCHANGED <<req, pendingRequests, answer, log, sound>>

\* A non-blocking send, then MsgReplySent to the replier.
DeliverReply(p) ==
  LET r == rep[p].req IN
  /\ rep[p].pc = "deliver"
  /\ replyCh' = IF replyCh[r] = NoReply THEN [replyCh EXCEPT ![r] = p] ELSE replyCh
  /\ rep' = ReplyAt(p, "sent")
  /\ UNCHANGED <<req, pendingRequests, answer, log, sound>>

-----------------------------------------------------------------------------

RequestStep(r) ==
  \/ \E from \in Sessions \cup {Nobody}, to \in Sessions, pty \in BOOLEAN :
       BeginRequest(r, from, to, pty)
  \/ RefuseRequest(r) \/ Announce(r) \/ Mirror(r) \/ Register(r)
  \/ PromptDelivered(r) \/ PromptFails(r) \/ ReceiveReply(r) \/ GiveUp(r)

ReplyStep(p) ==
  \/ \E r \in Requests, by \in Identities : BeginReply(p, r, by)
  \/ Lookup(p) \/ TakePending(p) \/ RecordReply(p) \/ DeliverReply(p)

Next == (\E r \in Requests : RequestStep(r)) \/ (\E p \in Repliers : ReplyStep(p))

Spec == Init /\ [][Next]_vars

-----------------------------------------------------------------------------
(* Properties                                                              *)

Waiting(r)   == req[r].pc \in {"prompt", "wait"}
Accepted(p)  == rep[p].pc \in {"record", "deliver", "sent"}

\* The values every variable may take.
TypeOK ==
  /\ req \in [Requests ->
       [pc : {"idle", "refused", "announce", "mirror", "register", "prompt",
              "wait", "answered", "failed"},
        from : Sessions \cup {Nobody}, to : Sessions \cup {Nobody}, pty : BOOLEAN]]
  /\ pendingRequests \subseteq Requests
  /\ replyCh \in [Requests -> Repliers \cup {NoReply}]
  /\ answer \in [Requests -> Repliers \cup {NoReply}]
  /\ rep \in [Repliers ->
       [pc : {"idle", "lookup", "take", "record", "deliver", "sent", "refused"},
        req : Requests \cup {NoRequest}, by : Identities \cup {NoIdentity}]]
  /\ log \in [Sessions -> SUBSET ([type : {"request"}, ref : Requests]
                                    \cup [type : {"reply"}, ref : Repliers])]
  /\ sound \subseteq Sessions

\* However many replies race for a request, one is accepted: the others find
\* the entry gone at their first or their second look (sendReplyWithMetadata
\* drops pendingRequestsMu between the two).
OneReplyAccepted ==
  \A p, q \in Repliers :
    Accepted(p) /\ Accepted(q) /\ rep[p].req = rep[q].req => p = q

\* A requester is answered with the token that went out with its own request, or
\* by a caller that gives the number of the session it asked: the second look at
\* the map does not let a reply in that the first one refused.  The number may be
\* that of a session of another node.
AnswerByNumberOrToken ==
  \A r \in Requests : answer[r] # NoReply =>
    LET by == rep[answer[r]].by IN
    rep[answer[r]].req = r /\ (by.token = r \/ by.id = req[r].to)

\* A pending entry has a requester that still waits for it: every way out of
\* handleMsgRequest removes the entry, so the map does not grow for ever.
PendingHasWaiter == \A r \in pendingRequests : Waiting(r)

\* A replier that was told MsgReplySent has its reply in the channel as long as
\* the requester waits, also when the requester has not reached its select yet.
SentReplyReachesWaiter ==
  \A p \in Repliers : rep[p].pc = "sent" /\ Waiting(rep[p].req) =>
    replyCh[rep[p].req] = p

\* When a local caller is told that its reply was sent, the conversation can be
\* read in the inbox of the session it was given for, the request and the reply,
\* unless that log could not be opened or an append to it has failed.
SentReplyInLog ==
  \A p \in Repliers :
    LET s == req[rep[p].req].to IN
    rep[p].pc = "sent" /\ rep[p].by.node = Here /\ s \in sound =>
      {RequestEvent(rep[p].req), ReplyEvent(p)} \subseteq log[s]

\* Refinement of ReplyCell: the map entry is the open cell, the delete under
\* pendingRequestsMu is the moment a reply takes it.
Takers(r) == {p \in Repliers : Accepted(p) /\ rep[p].req = r}
CellOf(r) ==
  [at |-> IF r \in pendingRequests THEN "open"
          ELSE IF Takers(r) # {} THEN "taken"
          ELSE IF req[r].pc \in {"wait", "prompt", "answered", "failed"} THEN "closed"
          ELSE "new",
   by |-> Takers(r)]
EntitledTo(p) ==
  {r \in Requests : rep[p].pc # "idle" /\ rep[p].req = r /\ MayReply(rep[p].by, r)}
Abstract == INSTANCE ReplyCell WITH
  cell <- [r \in Requests |-> CellOf(r)], entitled <- [p \in Repliers |-> EntitledTo(p)]

\* Messaging implements ReplyCell.
ImplementsReplyCell == Abstract!Spec
=============================================================================
