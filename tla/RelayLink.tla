----------------------------- MODULE RelayLink -----------------------------
(***************************************************************************)
(* How the relay reaches a node: the NodeHub and the /node/connect handler *)
(* (internal/relay/hub.go, node_handler.go), the agent of the node that    *)
(* keeps that connection up and dials back (agent.go), the registry of     *)
(* awaited back-connections (back_handler.go) and the SSH sessions that    *)
(* wait for them (bridgeToNode of ssh.go).                                 *)
(*                                                                         *)
(* One node.  Its agent connects again and again: a member of Conns is one *)
(* such connection with the handler that serves it.  An SSH session, the   *)
(* back-connection dialled for it and its entry in the registry go by the  *)
(* session's ID.  A connection breaks for its two ends at different times. *)
(***************************************************************************)
EXTENDS Naturals, SequencesExt

CONSTANTS
  Conns,     \* connections of the agent, one after the other
  NoConn,
  SSHSessions,
  HubBuf     \* capacity of a connection's message channel (16 in the code)

ASSUME NoConnAssumption == NoConn \notin Conns
ASSUME HubBufAssumption == HubBuf \in Nat \ {0}

VARIABLES
  agent,    \* the connection the agent reads from
  conn,     \* the /node/connect handlers
  hub,      \* NodeHub.nodes, at this node's key
  msgCh,    \* the message channel of each connection: session IDs
  via,      \* the connection whose channel NodeHub.Send has found for a session
  waits,    \* the keys of PendingSessions.waits
  backCh,   \* the channel bridgeToNode made with Expect
  ssh,      \* the bridgeToNode goroutines
  back      \* the /node/back handlers and their connections

relayVars == <<agent, conn, hub, msgCh, via, waits, backCh, ssh, back>>

RelayInit ==
  /\ agent = NoConn
  /\ conn = [c \in Conns |-> "none"]
  /\ hub = NoConn
  /\ msgCh = [c \in Conns |-> <<>>]
  /\ via = [s \in SSHSessions |-> NoConn]
  /\ waits = {}
  /\ backCh = [s \in SSHSessions |-> "empty"]
  /\ ssh = [s \in SSHSessions |-> "idle"]
  /\ back = [s \in SSHSessions |-> "none"]

-----------------------------------------------------------------------------
(* The agent and the handler of its connection                             *)

\* runAgentOnce: the token is good and the relay accepts the WebSocket.
AgentDials(c) ==
  /\ agent = NoConn /\ conn[c] = "none"
  /\ agent' = c
  /\ conn' = [conn EXCEPT ![c] = "accepted"]
  /\ UNCHANGED <<hub, msgCh, via, waits, backCh, ssh, back>>

\* The agent's read fails; RunAgent dials again after its backoff.
AgentLosesConn ==
  /\ agent # NoConn
  /\ agent' = NoConn
  /\ UNCHANGED <<conn, hub, msgCh, via, waits, backCh, ssh, back>>

Register(c) ==
  /\ conn[c] = "accepted"
  /\ hub' = c
  /\ conn' = [conn EXCEPT ![c] = "open"]
  /\ UNCHANGED <<agent, msgCh, via, waits, backCh, ssh, back>>

Serving(c) == conn[c] \in {"open", "mute"}

\* Mutant of HandlerReturns: Unregister drains the channel it finds under the
\* node's name.
HandlerDrainsRoute(c) ==
  /\ Serving(c)
  /\ conn' = [conn EXCEPT ![c] = "gone"]
  /\ hub' = NoConn
  /\ msgCh' = IF hub = NoConn THEN msgCh ELSE [msgCh EXCEPT ![hub] = <<>>]
  /\ UNCHANGED <<agent, via, waits, backCh, ssh, back>>

\* The relay's read fails.  Unregister goes by the node's name, and the write
\* loop ends with the request: nobody takes what is left in the channel.
HandlerReturns(c) ==
  /\ Serving(c)
  /\ conn' = [conn EXCEPT ![c] = "gone"]
  /\ hub' = NoConn
  /\ UNCHANGED <<agent, msgCh, via, waits, backCh, ssh, back>>

\* The write loop takes a message; an agent that still reads from this
\* connection starts handleSSHBack.
WriteLoop(c) ==
  /\ conn[c] = "open" /\ msgCh[c] # <<>>
  /\ msgCh' = [msgCh EXCEPT ![c] = Tail(@)]
  /\ back' = IF agent = c THEN [back EXCEPT ![Head(msgCh[c])] = "dialing"] ELSE back
  /\ UNCHANGED <<agent, conn, hub, via, waits, backCh, ssh>>

\* ws.Write fails: the write loop ends with a message in its hand, and the
\* handler reads on, registered.
WriteFails(c) ==
  /\ conn[c] = "open" /\ msgCh[c] # <<>>
  /\ msgCh' = [msgCh EXCEPT ![c] = Tail(@)]
  /\ conn' = [conn EXCEPT ![c] = "mute"]
  /\ UNCHANGED <<agent, hub, via, waits, backCh, ssh, back>>

-----------------------------------------------------------------------------
(* bridgeToNode                                                            *)

SessionAt(s, pc) == [ssh EXCEPT ![s] = pc]

Expect(s) ==
  /\ ssh[s] = "idle"
  /\ waits' = waits \cup {s}
  /\ ssh' = SessionAt(s, "send")
  /\ UNCHANGED <<agent, conn, hub, msgCh, via, backCh, back>>

\* NodeHub.Send under its read lock: the channel of the node's connection.
FindRoute(s) ==
  /\ ssh[s] = "send"
  /\ via' = [via EXCEPT ![s] = hub]
  /\ ssh' = SessionAt(s, IF hub = NoConn THEN "cancel" ELSE "post")
  /\ UNCHANGED <<agent, conn, hub, msgCh, waits, backCh, back>>

\* NodeHub.Send after the lock: the handler of that channel may have returned by
\* now, and then nobody takes the message.  It fails when the channel is full.
Post(s) ==
  /\ ssh[s] = "post"
  /\ IF Len(msgCh[via[s]]) < HubBuf
       THEN /\ msgCh' = [msgCh EXCEPT ![via[s]] = Append(@, s)]
            /\ ssh' = SessionAt(s, "wait")
       ELSE ssh' = SessionAt(s, "cancel") /\ UNCHANGED msgCh
  /\ UNCHANGED <<agent, conn, hub, via, waits, backCh, back>>

ReceiveBackConn(s) ==
  /\ ssh[s] = "wait" /\ backCh[s] = "conn"
  /\ backCh' = [backCh EXCEPT ![s] = "empty"]
  /\ ssh' = SessionAt(s, "bridged")
  /\ UNCHANGED <<agent, conn, hub, msgCh, via, waits, back>>

\* Mutant of TimesOut: only a failed dial ends the wait.
TimesOutOnFailure(s) ==
  /\ ssh[s] = "wait" /\ back[s] \in {"failed", "refused"}
  /\ ssh' = SessionAt(s, "cancel")
  /\ UNCHANGED <<agent, conn, hub, msgCh, via, waits, backCh, back>>

\* Ten seconds have passed.
TimesOut(s) ==
  /\ ssh[s] = "wait"
  /\ ssh' = SessionAt(s, "cancel")
  /\ UNCHANGED <<agent, conn, hub, msgCh, via, waits, backCh, back>>

\* Both pipes have ended; backConn.Close is deferred.
BridgeEnds(s) ==
  /\ ssh[s] = "bridged"
  /\ back' = [back EXCEPT ![s] = "closed"]
  /\ ssh' = SessionAt(s, "cancel")
  /\ UNCHANGED <<agent, conn, hub, msgCh, via, waits, backCh>>

\* Mutant of Cancel: the entry and the channel are not looked at together.
CancelCloses(s) ==
  /\ ssh[s] = "cancel"
  /\ waits' = waits \ {s}
  /\ backCh' = [backCh EXCEPT ![s] = "closed"]
  /\ ssh' = SessionAt(s, "ended")
  /\ UNCHANGED <<agent, conn, hub, msgCh, via, back>>

\* Mutant of Cancel: the entry of a session that has ended stays.
CancelNothing(s) ==
  /\ ssh[s] = "cancel"
  /\ ssh' = SessionAt(s, "ended")
  /\ UNCHANGED <<agent, conn, hub, msgCh, via, waits, backCh, back>>

\* The deferred Cancel: the channel is closed only while its entry is there.
Cancel(s) ==
  /\ ssh[s] = "cancel"
  /\ waits' = waits \ {s}
  /\ backCh' = IF s \in waits THEN [backCh EXCEPT ![s] = "closed"] ELSE backCh
  /\ ssh' = SessionAt(s, "ended")
  /\ UNCHANGED <<agent, conn, hub, msgCh, via, back>>

-----------------------------------------------------------------------------
(* The back-connection                                                     *)

BackAt(s, pc) == [back EXCEPT ![s] = pc]

\* The agent cannot reach the relay.
DialFails(s) ==
  /\ back[s] = "dialing"
  /\ back' = BackAt(s, "failed")
  /\ UNCHANGED <<agent, conn, hub, msgCh, via, waits, backCh, ssh>>

\* deliver, under the lock: the entry is taken, or there is no one waiting and
\* the WebSocket is closed.
TakeWaiter(s) ==
  /\ back[s] = "dialing"
  /\ waits' = waits \ {s}
  /\ back' = BackAt(s, IF s \in waits THEN "taken" ELSE "refused")
  /\ UNCHANGED <<agent, conn, hub, msgCh, via, backCh, ssh>>

\* deliver, after the lock: the connection goes into the channel, and the
\* handler blocks until the request ends.
HandOver(s) ==
  /\ back[s] = "taken"
  /\ backCh' = [backCh EXCEPT ![s] = "conn"]
  /\ back' = BackAt(s, "parked")
  /\ UNCHANGED <<agent, conn, hub, msgCh, via, waits, ssh>>

\* The shell of the node exits, or the node goes away.
NodeCloses(s) ==
  /\ back[s] = "parked"
  /\ back' = BackAt(s, "closed")
  /\ UNCHANGED <<agent, conn, hub, msgCh, via, waits, backCh, ssh>>

-----------------------------------------------------------------------------

\* What the relay's goroutines do by themselves, once a client has come.
SessionStep(s) ==
  \/ FindRoute(s) \/ Post(s) \/ ReceiveBackConn(s) \/ TimesOut(s) \/ Cancel(s)
BackStep(s) == DialFails(s) \/ TakeWaiter(s) \/ HandOver(s)

RelayNext ==
  \/ AgentLosesConn
  \/ \E c \in Conns :
       \/ AgentDials(c) \/ Register(c) \/ HandlerReturns(c)
       \/ WriteLoop(c) \/ WriteFails(c)
  \/ \E s \in SSHSessions : Expect(s) \/ SessionStep(s) \/ BridgeEnds(s) \/ BackStep(s) \/ NodeCloses(s)

RelaySpec == RelayInit /\ [][RelayNext]_relayVars

\* Goroutines run, the timer of a session that waits fires, and the relay finds
\* out in the end that a connection its agent has left is broken.  Nobody need
\* close a bridge, and the shell at the other end need not exit.
RelayFairness ==
  /\ \A c \in Conns : /\ WF_relayVars(Register(c)) /\ WF_relayVars(WriteLoop(c) \/ WriteFails(c))
                       /\ WF_relayVars(agent # c /\ HandlerReturns(c))
  /\ \A s \in SSHSessions : WF_relayVars(SessionStep(s)) /\ WF_relayVars(BackStep(s))

RelayFairSpec == RelaySpec /\ RelayFairness

-----------------------------------------------------------------------------
(* Properties                                                              *)

\* The values every variable may take.
TypeOK ==
  /\ agent \in Conns \cup {NoConn} /\ hub \in Conns \cup {NoConn}
  /\ conn \in [Conns -> {"none", "accepted", "open", "mute", "gone"}]
  /\ msgCh \in [Conns -> Seq(SSHSessions)]
  /\ \A c \in Conns : Len(msgCh[c]) <= HubBuf
  /\ via \in [SSHSessions -> Conns \cup {NoConn}]
  /\ waits \subseteq SSHSessions
  /\ backCh \in [SSHSessions -> {"empty", "conn", "closed"}]
  /\ ssh \in [SSHSessions -> {"idle", "send", "post", "wait", "bridged", "cancel", "ended"}]
  /\ back \in [SSHSessions ->
       {"none", "dialing", "failed", "refused", "taken", "parked", "closed"}]

\* deliver sends on the channel after it has given up the lock: by then Cancel
\* has not closed that channel (the send would panic), and nothing is in it
\* (the send would block the handler for ever).
HandOverIsSafe == \A s \in SSHSessions : back[s] = "taken" => backCh[s] = "empty"

\* An entry of the registry has a session that will remove it, so that timeouts,
\* failed sends and late connections leave nothing behind.
WaitsAreLive == \A s \in waits : ssh[s] \in {"send", "post", "wait", "cancel"}

\* A message that Send has accepted is not lost while the connection it went to
\* is up at both ends: it is queued or the agent has it, also when the handler of
\* an older connection returns late and takes the node's name out of the hub.
AcceptedNotLost ==
  \A s \in SSHSessions :
    LET c == via[s] IN
    ssh[s] = "wait" /\ agent = c /\ conn[c] = "open" =>
      s \in ToSet(msgCh[c]) \/ back[s] # "none"

\* An SSH session does not hang when the message to the node or the connection
\* back is lost: it is bridged or ends.
SessionSettles ==
  \A s \in SSHSessions : ssh[s] = "send" ~> ssh[s] \in {"bridged", "ended"}
=============================================================================
