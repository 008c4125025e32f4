----------------------------- MODULE TaskEvents -----------------------------
(***************************************************************************)
(* Task reports, from a session on a node to `cw tasks --watch`:           *)
(* SessionManager.ReportTask and the channel to the relay's agent          *)
(* (node/node.go), forwardAgentOutbound (relay/agent.go), the node's       *)
(* handler at the relay (relay/node_handler.go), the JetStream stream and  *)
(* the bucket of latest values (relay/nats_task_store.go), the watch       *)
(* handler (relay/task_events.go) and the client with its cursor file      *)
(* (client/tasks.go).                                                      *)
(*                                                                         *)
(* Reports are numbered as they are made.  One network, one node, and one  *)
(* data directory on the client's side, which all its watches share.       *)
(***************************************************************************)
EXTENDS Integers, Sequences, FiniteSets

CONSTANTS
  Sessions,    \* of the node
  Watchers,    \* watch commands of one data directory
  Filters,     \* what a watch may ask for: sets of sessions
  QueueSize,   \* of the agent's outbound channel, 64 in node.go
  EventQueue,  \* of a watch's channel of events, 32 in tasks.go
  MaxReports,  \* bound: reports made
  MaxConns,    \* bound: connections of the agent
  MaxStarts,   \* bound: watches started
  MaxFaults    \* bound: what goes wrong

ASSUME BoundsAssumption ==
  QueueSize \in Nat /\ EventQueue \in Nat /\ MaxReports \in Nat /\ MaxConns \in Nat /\ MaxStarts \in Nat /\ MaxFaults \in Nat

VARIABLES
  of,      \* the session of each report
  made,    \* reports made so far
  queue,   \* taskReportCh
  conn,    \* the agent's connections, both ends
  lost,    \* history: reports a forwarder took and could not write
  stream,  \* the reports stored in the stream, by sequence number
  first,   \* the first sequence number the stream still has
  latest,  \* TASK_LATEST: the sequence number it has for a session
  blame,   \* history: sessions whose latest value is known to have gone wrong
  cursor,  \* last_event_id in tasks_state.json
  watch,   \* the watches
  events,  \* what each has read and not printed yet
  shown,   \* history: what each watch has printed
  gone,    \* history: events passed over for a reason that is known
  rewound, \* history: a watch has set the cursor back
  starts, faults

node == <<of, made, queue, lost>>
relay == <<stream, first, latest, blame>>
client == <<cursor, watch, events, shown, gone, rewound, starts>>
vars == <<node, conn, relay, client, faults>>

None == 0        \* no report, no event
Unreadable == -1 \* a cursor file that does not parse

NoConn == [agent |-> "none", fwd |-> "none", hand |-> None, wire |-> <<>>,
           handler |-> "none", seq |-> None]
NoWatch == [pc |-> "off", filter |-> {}, pos |-> 0, ev |-> None]

Init ==
  /\ of \in [1 .. MaxReports -> Sessions]
  /\ made = 0 /\ queue = <<>> /\ lost = {}
  /\ conn = [c \in 1 .. MaxConns |-> NoConn]
  /\ stream = <<>> /\ first = 1
  /\ latest = [s \in Sessions |-> None] /\ blame = {}
  /\ cursor = 0 /\ watch = [w \in Watchers |-> NoWatch]
  /\ events = [w \in Watchers |-> <<>>]
  /\ shown = [w \in Watchers |-> <<>>] /\ gone = {} /\ rewound = FALSE
  /\ starts = 0 /\ faults = 0

Fault == faults < MaxFaults /\ faults' = faults + 1
SessionOf(e) == of[stream[e]]
Stored == 1 .. Len(stream)

-----------------------------------------------------------------------------
(* The node                                                                *)

\* ReportTask with the forward hook: a full channel drops the report.
Report ==
  /\ made < MaxReports /\ made' = made + 1
  /\ queue' = IF Len(queue) < QueueSize THEN Append(queue, made + 1) ELSE queue
  /\ UNCHANGED <<of, lost, conn, faults>> /\ UNCHANGED relay /\ UNCHANGED client

\* runAgentOnce: RunAgent dials when the connection before has failed.  Each
\* connection has a forwarder of its own, which runs under the node's context.
Dial(c) ==
  /\ conn[c].agent = "none" /\ \A d \in 1 .. c - 1 : conn[d].agent = "closed"
  /\ conn' = [conn EXCEPT ![c] = [NoConn EXCEPT
       !.agent = "open", !.fwd = "on", !.handler = "read"]]
  /\ UNCHANGED faults /\ UNCHANGED node /\ UNCHANGED relay /\ UNCHANGED client

\* forwardAgentOutbound takes a report, be its connection open or not ...
Take(c) ==
  /\ conn[c].fwd = "on" /\ conn[c].hand = None /\ queue # <<>>
  /\ conn' = [conn EXCEPT ![c].hand = Head(queue)]
  /\ queue' = Tail(queue)
  /\ UNCHANGED <<of, made, lost, faults>> /\ UNCHANGED relay /\ UNCHANGED client

\* Mutant of Send: after an error the forwarder goes on.
SendOn(c) ==
  /\ conn[c].hand # None
  /\ IF conn[c].agent = "open"
       THEN /\ conn' = [conn EXCEPT ![c].hand = None, ![c].wire = Append(@, conn[c].hand)]
            /\ UNCHANGED lost
       ELSE /\ conn' = [conn EXCEPT ![c].hand = None]
            /\ lost' = lost \cup {conn[c].hand}
  /\ UNCHANGED <<of, made, queue, faults>> /\ UNCHANGED relay /\ UNCHANGED client

\* ... and writes it.  An error loses the report and ends the forwarder.
Send(c) ==
  /\ conn[c].hand # None
  /\ IF conn[c].agent = "open"
       THEN /\ conn' = [conn EXCEPT ![c].hand = None, ![c].wire = Append(@, conn[c].hand)]
            /\ UNCHANGED lost
       ELSE /\ conn' = [conn EXCEPT ![c].hand = None, ![c].fwd = "over"]
            /\ lost' = lost \cup {conn[c].hand}
  /\ UNCHANGED <<of, made, queue, faults>> /\ UNCHANGED relay /\ UNCHANGED client

\* The connection fails; of what is under way, a first part may still arrive.
Break(c) ==
  /\ conn[c].agent = "open" /\ c < MaxConns /\ Fault
  /\ \E k \in 0 .. Len(conn[c].wire) :
       conn' = [conn EXCEPT ![c].agent = "closed", ![c].wire = SubSeq(@, 1, k)]
  /\ UNCHANGED node /\ UNCHANGED relay /\ UNCHANGED client

-----------------------------------------------------------------------------
(* The relay                                                               *)

Reads(c) == conn[c].handler = "read" /\ conn[c].wire # <<>>
Busy(s) == {c \in DOMAIN conn : conn[c].handler = "put" /\ SessionOf(conn[c].seq) = s}

\* PublishNodeTaskReport, first half: the report gets its place in the stream.
Publish(c) ==
  LET r == Head(conn[c].wire) IN
  /\ Reads(c)
  /\ stream' = Append(stream, r)
  /\ conn' = [conn EXCEPT ![c].wire = Tail(@), ![c].handler = "put", ![c].seq = Len(stream) + 1]
  /\ blame' = IF Busy(of[r]) # {} THEN blame \cup {of[r]} ELSE blame
  /\ UNCHANGED <<first, latest, faults>> /\ UNCHANGED node /\ UNCHANGED client

\* The publication fails, or its acknowledgement is lost: the handler reads on.
PublishFails(c) ==
  LET r == Head(conn[c].wire) IN
  /\ Reads(c) /\ Fault
  /\ conn' = [conn EXCEPT ![c].wire = Tail(@)]
  /\ \/ UNCHANGED <<stream, blame>>
     \/ stream' = Append(stream, r) /\ blame' = blame \cup {of[r]}
  /\ UNCHANGED <<first, latest>> /\ UNCHANGED node /\ UNCHANGED client

\* Mutant of Put: the connection's context governs the write of the bucket.
PutIfOpen(c) ==
  /\ conn[c].handler = "put"
  /\ latest' = IF conn[c].agent = "open"
                 THEN [latest EXCEPT ![SessionOf(conn[c].seq)] = conn[c].seq] ELSE latest
  /\ conn' = [conn EXCEPT ![c].handler = "read", ![c].seq = None]
  /\ UNCHANGED <<stream, first, blame, faults>> /\ UNCHANGED node /\ UNCHANGED client

\* PublishNodeTaskReport, second half: PutLatestTask.
Put(c) ==
  /\ conn[c].handler = "put"
  /\ latest' = [latest EXCEPT ![SessionOf(conn[c].seq)] = conn[c].seq]
  /\ conn' = [conn EXCEPT ![c].handler = "read", ![c].seq = None]
  /\ UNCHANGED <<stream, first, blame, faults>> /\ UNCHANGED node /\ UNCHANGED client

\* The write fails, or the relay stops before it.
PutFails(c) ==
  /\ conn[c].handler = "put" /\ Fault
  /\ blame' = blame \cup {SessionOf(conn[c].seq)}
  /\ conn' = [conn EXCEPT ![c].handler = "read", ![c].seq = None]
  /\ UNCHANGED <<stream, first, latest>> /\ UNCHANGED node /\ UNCHANGED client

\* The stream loses its oldest events: it is purged, or given a limit.
Trim ==
  /\ Fault
  /\ first' \in first + 1 .. Len(stream) + 1
  /\ UNCHANGED <<stream, latest, blame, conn>> /\ UNCHANGED node /\ UNCHANGED client

-----------------------------------------------------------------------------
(* Watches                                                                 *)

\* cw tasks --watch
StartWatch(w, filter) ==
  /\ watch[w].pc = "off" /\ starts < MaxStarts /\ starts' = starts + 1
  /\ watch' = [watch EXCEPT ![w] = [NoWatch EXCEPT !.pc = "dial", !.filter = filter]]
  /\ UNCHANGED <<cursor, events, shown, gone, rewound, conn, faults>>
  /\ UNCHANGED node /\ UNCHANGED relay

\* What a watch has in hand: the numbers are stored, the events not printed yet.
InHand(w) ==
  {events[w][i] : i \in DOMAIN events[w]}
    \cup {e \in {watch[w].ev} : watch[w].pc = "out"}

\* A watch that ends prints nothing more.
Ends(w) ==
  /\ watch' = [watch EXCEPT ![w] = NoWatch]
  /\ events' = [events EXCEPT ![w] = <<>>]
  /\ gone' = gone \cup InHand(w)

\* Mutant of From: the event after the cursor is taken for the cursor.
FromPast(after) == IF after = 0 THEN 0 ELSE after + 1

\* Mutant of From: Last-Event-ID is not heeded.
FromStart(after) == 0

\* WatchTasks of the relay's store: the consumer starts after this event.
From(after) == after

\* taskEventsHandler: a cursor older than the stream gets a stream.reset event,
\* numbered as the stream's first.
Connect(w) ==
  /\ watch[w].pc = "dial"
  /\ IF cursor = Unreadable THEN Ends(w)
     ELSE /\ IF cursor > 0 /\ first > cursor + 1
               THEN watch' = [watch EXCEPT ![w].pc = "reset", ![w].pos = From(first - 1), ![w].ev = first]
               ELSE watch' = [watch EXCEPT ![w].pc = "run", ![w].pos = From(cursor)]
          /\ UNCHANGED <<events, gone>>
  /\ UNCHANGED <<cursor, shown, rewound, starts, conn, faults>>
  /\ UNCHANGED node /\ UNCHANGED relay

\* The events a watch has still to get.
Coming(w) ==
  {e \in Stored : e > watch[w].pos /\ e >= first /\ SessionOf(e) \in watch[w].filter}

\* setTaskLastEventID
SetsCursor(e) ==
  cursor' = e /\ rewound' = (rewound \/ e < cursor)

\* The client stores the number of the reset event as any other's.
HandleReset(w) ==
  /\ watch[w].pc = "reset"
  /\ IF cursor = Unreadable THEN Ends(w) /\ UNCHANGED <<cursor, rewound>>
     ELSE /\ SetsCursor(watch[w].ev)
          /\ gone' = gone \cup {watch[w].ev}
          /\ watch' = [watch EXCEPT ![w].pc = "run", ![w].ev = None]
          /\ UNCHANGED events
  /\ UNCHANGED <<shown, starts, conn, faults>> /\ UNCHANGED node /\ UNCHANGED relay

\* The callback of streamTaskEvents: setTaskLastEventID comes first ...
Handle(w) == \E e \in Coming(w) :
  /\ watch[w].pc = "run" /\ \A d \in Coming(w) : e <= d
  /\ IF cursor = Unreadable THEN Ends(w) /\ UNCHANGED <<cursor, rewound>>
     ELSE /\ SetsCursor(e)
          /\ gone' = gone \cup {d \in watch[w].pos + 1 .. e - 1 : SessionOf(d) \notin watch[w].filter}
          /\ watch' = [watch EXCEPT ![w].pc = "out", ![w].pos = e, ![w].ev = e]
          /\ UNCHANGED events
  /\ UNCHANGED <<shown, starts, conn, faults>> /\ UNCHANGED node /\ UNCHANGED relay

\* ... then the event goes into the channel, which it waits for if it is full ...
Out(w) ==
  /\ watch[w].pc = "out" /\ Len(events[w]) < EventQueue
  /\ events' = [events EXCEPT ![w] = Append(@, watch[w].ev)]
  /\ watch' = [watch EXCEPT ![w].pc = "run", ![w].ev = None]
  /\ UNCHANGED <<cursor, shown, gone, rewound, starts, conn, faults>>
  /\ UNCHANGED node /\ UNCHANGED relay

\* ... and runTasksWatch prints what comes out of it.
Show(w) ==
  /\ events[w] # <<>>
  /\ shown' = [shown EXCEPT ![w] = Append(@, Head(events[w]))]
  /\ events' = [events EXCEPT ![w] = Tail(@)]
  /\ UNCHANGED <<cursor, watch, gone, rewound, starts, conn, faults>>
  /\ UNCHANGED node /\ UNCHANGED relay

\* The stream to the client breaks: it is dialled again.
Disconnect(w) ==
  /\ watch[w].pc \in {"reset", "run"} /\ Fault
  /\ watch' = [watch EXCEPT ![w].pc = "dial", ![w].ev = None]
  /\ UNCHANGED <<cursor, events, shown, gone, rewound, starts, conn>>
  /\ UNCHANGED node /\ UNCHANGED relay

\* The watch is stopped, with all that it has in its hands ...
Stop(w) ==
  /\ watch[w].pc # "off" /\ Ends(w)
  /\ UNCHANGED <<cursor, shown, rewound, starts, conn, faults>> /\ UNCHANGED node /\ UNCHANGED relay

\* ... or in the middle of os.WriteFile.
StopInWrite(w) ==
  /\ watch[w].pc = "run" /\ Coming(w) # {} /\ Fault
  /\ cursor' = Unreadable /\ Ends(w)
  /\ UNCHANGED <<shown, rewound, starts, conn>> /\ UNCHANGED node /\ UNCHANGED relay

Next ==
  \/ Report \/ Trim
  \/ \E c \in 1 .. MaxConns :
       \/ Dial(c) \/ Take(c) \/ Send(c) \/ Break(c)
       \/ Publish(c) \/ PublishFails(c) \/ Put(c) \/ PutFails(c)
  \/ \E w \in Watchers :
       \/ \E filter \in Filters : StartWatch(w, filter)
       \/ Connect(w) \/ HandleReset(w) \/ Handle(w) \/ Out(w) \/ Show(w)
       \/ Disconnect(w) \/ Stop(w) \/ StopInWrite(w)

Spec == Init /\ [][Next]_vars

-----------------------------------------------------------------------------
(* Properties                                                              *)

Printed(w, e) == \E i \in DOMAIN shown[w] : shown[w][i] = e

\* An event at or before the stored cursor has been printed, is on its way from a
\* watch's callback through its channel to being so, or is lost to a cause that is
\* known: the stream no longer has it, no watch asked for it, a reset event took its
\* number, or a watch ended with it in hand, one of EventQueue + 1 at most.
\* Reconnections, resets, trims and a second watch lose nothing else.
NothingSkipped ==
  \A e \in 1 .. cursor :
    \/ e < first \/ e \in gone
    \/ \E w \in Watchers : Printed(w, e) \/ e \in InHand(w)

\* A watch prints events in the order of the stream and none twice, across its
\* reconnections and restarts, unless another watch has set the cursor back.
OnceInOrder ==
  ~rewound => \A w \in Watchers : \A i, j \in DOMAIN shown[w] : i < j => shown[w][i] < shown[w][j]

\* With no handler at work on a session, its latest value is that of the last
\* event the stream was given for it, unless a write of the two failed or the
\* handlers of two connections had a report of the session at once.
LatestIsNewest ==
  \A s \in Sessions \ blame : Busy(s) = {} =>
    /\ \A e \in Stored : SessionOf(e) = s => e <= latest[s]
    /\ latest[s] # None => SessionOf(latest[s]) = s

\* A connection that has failed takes at most one report with it on the agent's
\* side: the forwarder it leaves behind ends with the first it cannot write.
OneLossPerBreak ==
  Cardinality(lost) <= Cardinality({c \in DOMAIN conn : conn[c].agent = "closed"})
=============================================================================
