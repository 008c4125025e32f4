--------------------------- MODULE SessionStream ---------------------------
(***************************************************************************)
(* One session as its viewers see it: the Broadcaster and the              *)
(* StatusWatcher of internal/session/session.go, the PTY reader goroutine  *)
(* of Launch, and the handlers of Attach and WatchSession in               *)
(* internal/node/handler.go (handleAttachSession, handleWatchSession).     *)
(*                                                                         *)
(* Output is a numbered sequence of chunks.  The channel that              *)
(* StatusWatcher.Changed returns is the generation of the status it was    *)
(* created with: it is closed once the generation has moved on.            *)
(***************************************************************************)
EXTENDS Integers, Sequences, FiniteSets, SequencesExt

CONSTANTS
  Viewers,    \* the handler goroutines of viewing clients
  Kinds,      \* what they may be: "attach", "watch"
  MaxChunks,  \* bound: chunks of output the process writes
  MaxKills,   \* bound: calls of Kill
  BufSize     \* capacity of a subscriber's channel (4096 in the code)

ASSUME KindsAssumption == Kinds \subseteq {"attach", "watch"}
ASSUME ViewersAssumption == IsFiniteSet(Viewers)
ASSUME BoundsAssumption ==
  MaxChunks \in Nat /\ MaxKills \in Nat /\ BufSize \in Nat \ {0}

VARIABLES
  logged,         \* chunks written to output.log
  sent,           \* chunks given to Broadcaster.Send
  status,         \* StatusWatcher.status
  generation,     \* how often Set has replaced StatusWatcher.waitCh
  kills,          \* calls of Kill so far
  attachedCount,  \* Session.attachedCount
  listeners,      \* Broadcaster.listeners
  ch,             \* the subscriber channel of each viewer
  viewer,         \* the handler goroutines
  seen,           \* the chunks a viewer was sent, from history or live
  dropped         \* history: chunks dropped because the channel was full

outputVars == <<logged, sent>>
statusVars == <<status, generation, kills>>
vars == <<outputVars, statusVars, attachedCount, listeners, ch, viewer, seen, dropped>>

-----------------------------------------------------------------------------

\* A handler: what it is, where it is, the status channel its select holds.
Viewer(kind, pc, waitCh) == [kind |-> kind, pc |-> pc, waitCh |-> waitCh]
Goto(v, pc) == [viewer EXCEPT ![v] = Viewer(viewer[v].kind, pc, 0)]

Init ==
  /\ logged = 0 /\ sent = 0
  /\ status = "running" /\ generation = 0 /\ kills = 0
  /\ attachedCount = 0
  /\ listeners = {}
  /\ ch = [v \in Viewers |-> <<>>]
  /\ viewer \in [Viewers -> {Viewer(k, "idle", 0) : k \in Kinds}]
  /\ seen = [v \in Viewers |-> {}]
  /\ dropped = [v \in Viewers |-> {}]

-----------------------------------------------------------------------------
(* The session                                                             *)

\* The reader goroutine writes a chunk to the log file ...
ReaderLog ==
  /\ logged = sent /\ logged < MaxChunks
  /\ logged' = logged + 1
  /\ UNCHANGED <<sent, statusVars, attachedCount, listeners, ch, viewer, seen, dropped>>

\* ... and then broadcasts it.  A full channel loses the chunk.
ReaderSend ==
  /\ sent < logged
  /\ sent' = sent + 1
  /\ ch' = [v \in Viewers |-> IF v \in listeners /\ Len(ch[v]) < BufSize
                              THEN Append(ch[v], sent') ELSE ch[v]]
  /\ dropped' = [v \in Viewers |-> IF v \in listeners /\ Len(ch[v]) = BufSize
                                   THEN dropped[v] \cup {sent'} ELSE dropped[v]]
  /\ UNCHANGED <<logged, statusVars, attachedCount, listeners, viewer, seen>>

\* StatusWatcher.Set closes waitCh and replaces it.
SetStatus(s) == status' = s /\ generation' = generation + 1

KillSession ==
  /\ kills < MaxKills
  /\ kills' = kills + 1
  /\ SetStatus("killed")
  /\ UNCHANGED <<outputVars, attachedCount, listeners, ch, viewer, seen, dropped>>

\* The waiter goroutine, once.  The reader may still be behind.
ProcessCompletes ==
  /\ generation = kills
  /\ SetStatus("completed")
  /\ UNCHANGED <<outputVars, kills, attachedCount, listeners, ch, viewer, seen, dropped>>

-----------------------------------------------------------------------------
(* The handlers                                                            *)

\* Attach looks at the status first; WatchSession does not.
CheckRunning(v) ==
  /\ viewer[v].pc = "idle"
  /\ viewer' = Goto(v, IF viewer[v].kind = "attach" /\ status # "running"
                         THEN "refused" ELSE "subscribe")
  /\ UNCHANGED <<outputVars, statusVars, attachedCount, listeners, ch, seen, dropped>>

\* Mutant of Subscribe: the history is read before the subscription exists.
SubscribeAfterHistory(v) ==
  /\ viewer[v].pc = "subscribe"
  /\ \/ /\ viewer[v].waitCh = 0
        /\ seen' = [seen EXCEPT ![v] = 1 .. logged]
        /\ viewer' = [viewer EXCEPT ![v] = Viewer(viewer[v].kind, "subscribe", 1)]
        /\ UNCHANGED <<attachedCount, listeners>>
     \/ /\ viewer[v].waitCh = 1
        /\ attachedCount' = attachedCount + (IF viewer[v].kind = "attach" THEN 1 ELSE 0)
        /\ listeners' = listeners \cup {v}
        /\ viewer' = Goto(v, "loop")
        /\ UNCHANGED seen
  /\ UNCHANGED <<outputVars, statusVars, ch, dropped>>

\* attachedCount.Add(1) for Attach, and Broadcaster.Subscribe.
Subscribe(v) ==
  /\ viewer[v].pc = "subscribe"
  /\ attachedCount' = attachedCount + (IF viewer[v].kind = "attach" THEN 1 ELSE 0)
  /\ listeners' = listeners \cup {v}
  /\ viewer' = Goto(v, "history")
  /\ UNCHANGED <<outputVars, statusVars, ch, seen, dropped>>

\* The whole log file is sent (include_history defaults to true).
ReplayHistory(v) ==
  /\ viewer[v].pc = "history"
  /\ seen' = [seen EXCEPT ![v] = 1 .. logged]
  /\ viewer' = Goto(v, "loop")
  /\ UNCHANGED <<outputVars, statusVars, attachedCount, listeners, ch, dropped>>

\* Entering the select evaluates Status.Changed().
EnterSelect(v) ==
  /\ viewer[v].pc = "loop"
  /\ viewer' = [viewer EXCEPT ![v] = Viewer(viewer[v].kind, "select", generation)]
  /\ UNCHANGED <<outputVars, statusVars, attachedCount, listeners, ch, seen, dropped>>

\* The select takes a chunk and the handler sends it to the client.
TakeOutput(v) ==
  /\ viewer[v].pc = "select" /\ ch[v] # <<>>
  /\ seen' = [seen EXCEPT ![v] = @ \cup {Head(ch[v])}]
  /\ ch' = [ch EXCEPT ![v] = Tail(@)]
  /\ viewer' = Goto(v, "loop")
  /\ UNCHANGED <<outputVars, statusVars, attachedCount, listeners, dropped>>

\* The select takes a frame of an attached client: input or a resize.
TakeFrame(v) ==
  /\ viewer[v].pc = "select" /\ viewer[v].kind = "attach"
  /\ viewer' = Goto(v, "loop")
  /\ UNCHANGED <<outputVars, statusVars, attachedCount, listeners, ch, seen, dropped>>

\* The select finds the status channel closed, and Get no longer says running.
TakeStatus(v) ==
  /\ viewer[v].pc = "select" /\ generation # viewer[v].waitCh
  /\ viewer' = Goto(v, IF status # "running" THEN "unsubscribe" ELSE "loop")
  /\ UNCHANGED <<outputVars, statusVars, attachedCount, listeners, ch, seen, dropped>>

\* The client detaches or disconnects, or a send to it fails.
ClientLeaves(v) ==
  /\ viewer[v].pc = "select"
  /\ viewer' = Goto(v, "unsubscribe")
  /\ UNCHANGED <<outputVars, statusVars, attachedCount, listeners, ch, seen, dropped>>

\* The deferred calls: UnsubscribeOutput, then Detach.
Unsubscribe(v) ==
  /\ viewer[v].pc = "unsubscribe"
  /\ listeners' = listeners \ {v}
  /\ ch' = [ch EXCEPT ![v] = <<>>]
  /\ viewer' = Goto(v, IF viewer[v].kind = "attach" THEN "detach" ELSE "ended")
  /\ UNCHANGED <<outputVars, statusVars, attachedCount, seen, dropped>>

\* Mutant of Detach: the count is set to zero, whoever else is attached.
DetachAll(v) ==
  /\ viewer[v].pc = "detach"
  /\ attachedCount' = 0
  /\ viewer' = Goto(v, "ended")
  /\ UNCHANGED <<outputVars, statusVars, listeners, ch, seen, dropped>>

Detach(v) ==
  /\ viewer[v].pc = "detach"
  /\ attachedCount' = attachedCount - 1
  /\ viewer' = Goto(v, "ended")
  /\ UNCHANGED <<outputVars, statusVars, listeners, ch, seen, dropped>>

-----------------------------------------------------------------------------

\* What a handler does by itself, without its client.
HandlerStep(v) ==
  \/ CheckRunning(v) \/ Subscribe(v) \/ ReplayHistory(v) \/ EnterSelect(v)
  \/ TakeOutput(v) \/ TakeStatus(v) \/ Unsubscribe(v) \/ Detach(v)

Next ==
  \/ ReaderLog \/ ReaderSend \/ KillSession \/ ProcessCompletes
  \/ \E v \in Viewers : HandlerStep(v) \/ TakeFrame(v) \/ ClientLeaves(v)

Spec == Init /\ [][Next]_vars

-----------------------------------------------------------------------------
(* Properties                                                              *)

\* A viewer that has had the history misses no output: every chunk broadcast so
\* far was sent to it or is in its channel, or found that channel full.  The
\* reader logs before it broadcasts and the handlers subscribe before they read
\* the log.
NoOutputGap ==
  \A v \in Viewers : viewer[v].pc \in {"loop", "select"} =>
    1 .. sent \subseteq seen[v] \cup ToSet(ch[v]) \cup dropped[v]

\* attachedCount, which `cw list` shows, is the number of handlers between
\* Attach and Detach, however attaches, refusals and detaches interleave; the
\* broadcaster serves exactly the handlers that are subscribed.
AttachedCountExact ==
  /\ attachedCount = Cardinality({v \in Viewers : viewer[v].kind = "attach" /\
       viewer[v].pc \in {"history", "loop", "select", "unsubscribe", "detach"}})
  /\ listeners = {v \in Viewers :
       viewer[v].pc \in {"history", "loop", "select", "unsubscribe"}}
=============================================================================
