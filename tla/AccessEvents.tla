---------------------------- MODULE AccessEvents ----------------------------
(***************************************************************************)
(* How a revoked access grant leaves the caches of those who accepted it:  *)
(* the revoke handler and the AccessEventHub of the relay                  *)
(* (internal/relay/access.go, access_events.go) and `cw access watch`      *)
(* (internal/client/access_events.go).                                     *)
(*                                                                         *)
(* A grant is revoked once, by one request, whose events the model calls   *)
(* by the grant.  A watcher is the `cw access watch` of one machine, with  *)
(* its two files.  The bytes between the stream handler and its watcher    *)
(* are left out: an event that was written and not read is sent again, as  *)
(* one that was not written is.                                            *)
(***************************************************************************)
EXTENDS Integers, FiniteSets, SequencesExt

CONSTANTS
  Grants,
  Foreign,     \* those of another network, which uses the same hub
  Watchers,
  BufferSize,  \* events the hub keeps (accessEventBufferSize, 256)
  ChanSize,    \* capacity of a subscriber's channel (16)
  Lapsing,     \* grants the relay may come to say nothing of, though not revoked
  MaxFaults,   \* bound: how often a stream breaks, a watcher stops, the relay restarts
  MaxRevoked   \* bound: how many grants are revoked

ASSUME ForeignAssumption == Foreign \subseteq Grants
ASSUME NoneAssumption == "none" \notin Grants
ASSUME SizesAssumption == BufferSize \in Nat \ {0} /\ ChanSize \in Nat \ {0}

Own  == Grants \ Foreign
None == [seq |-> 0, grant |-> "none"]

VARIABLES
  nextSeq,  \* AccessEventHub.nextSeq
  events,   \* AccessEventHub.events
  revoked,  \* the store: grants with RevokedAt set
  unknown,  \* grants whose lookup says "access grant not found" or "membership
            \* required": the store has lost them, or the member the network
  pub,      \* the revoke requests: where they are and whom they still serve
  watcher,  \* the watchers and the handlers of their streams
  lastID,   \* accepted_access_grants_state.json
  cached,   \* accepted_access_grants.json: the grants of all networks
  torn,     \* the files that a stop has left half written, and nobody can parse
  got,      \* history: grants whose event a watcher took from its present stream
  missed,   \* history: grants whose revocation that stream is known not to bring
  faults

accessVars ==
  <<nextSeq, events, revoked, unknown, pub, watcher, lastID, cached, torn, got, missed, faults>>

-----------------------------------------------------------------------------

NoStream == [pc |-> "off", from |-> 0, reset |-> FALSE, replay |-> {},
             ch |-> <<>>, current |-> None, remain |-> {}]
Idle == [pc |-> "idle", seq |-> 0, to |-> {}, closed |-> FALSE]

Online(w) == watcher[w].pc # "off"

AccessInit ==
  /\ nextSeq = 0 /\ events = <<>> /\ revoked = {} /\ unknown = {} /\ faults = 0
  /\ pub = [g \in Grants |-> Idle]
  /\ watcher = [w \in Watchers |-> NoStream]
  /\ lastID = [w \in Watchers |-> 0]
  /\ cached = [w \in Watchers |-> Grants]
  /\ torn = [w \in Watchers |-> {}]
  /\ got = [w \in Watchers |-> {}]
  /\ missed = [w \in Watchers |-> {}]

Fault == faults < MaxFaults /\ faults' = faults + 1

-----------------------------------------------------------------------------
(* The request that revokes a grant                                        *)

Revoke(g) ==
  /\ pub[g].pc = "idle" /\ Cardinality(revoked) < MaxRevoked
  /\ revoked' = revoked \cup {g}
  /\ pub' = [pub EXCEPT ![g].pc = "stored"]
  /\ UNCHANGED <<nextSeq, events, unknown, watcher, lastID, cached, torn, got, missed, faults>>

\* The last BufferSize events.
Trimmed(es) == IF Len(es) > BufferSize THEN Tail(es) ELSE es

\* publish, under the hub's lock: the event gets its number and its place in the
\* buffer, and the subscribers of its network are copied.
Publish(g) ==
  /\ pub[g].pc = "stored"
  /\ nextSeq' = nextSeq + 1
  /\ events' = Trimmed(Append(events, [seq |-> nextSeq + 1, grant |-> g]))
  /\ pub' = [pub EXCEPT ![g] =
               [pc |-> "sending", seq |-> nextSeq + 1, closed |-> FALSE,
                to |-> IF g \in Own THEN {w \in Watchers : Online(w)} ELSE {}]]
  /\ UNCHANGED <<revoked, unknown, watcher, lastID, cached, torn, got, missed, faults>>

\* publish, after the lock: a send that does not block.
Deliver(g, w) ==
  /\ pub[g].pc = "sending" /\ w \in pub[g].to
  /\ pub' = [pub EXCEPT ![g].to = @ \ {w}]
  /\ IF Len(watcher[w].ch) < ChanSize
       THEN /\ watcher' = [watcher EXCEPT ![w].ch = Append(@, [seq |-> pub[g].seq, grant |-> g])]
            /\ UNCHANGED missed
       ELSE missed' = [missed EXCEPT ![w] = @ \cup {g}] /\ UNCHANGED watcher
  /\ UNCHANGED <<nextSeq, events, revoked, unknown, lastID, cached, torn, got, faults>>

\* A subscriber that was copied has cancelled since: the send on its closed
\* channel panics, which ends the request; the remaining ones get nothing.
SendOnClosed(g) ==
  /\ pub[g].pc = "sending" /\ pub[g].closed
  /\ pub' = [pub EXCEPT ![g] = [@ EXCEPT !.pc = "done", !.to = {}]]
  /\ missed' = [w \in Watchers |->
                  IF w \in pub[g].to THEN missed[w] \cup {g} ELSE missed[w]]
  /\ UNCHANGED <<nextSeq, events, revoked, unknown, watcher, lastID, cached, torn, got, faults>>

PublishEnds(g) ==
  /\ pub[g].pc = "sending" /\ pub[g].to = {} /\ ~pub[g].closed
  /\ pub' = [pub EXCEPT ![g].pc = "done"]
  /\ UNCHANGED <<nextSeq, events, revoked, unknown, watcher, lastID, cached, torn, got, missed, faults>>

-----------------------------------------------------------------------------
(* A stream and its watcher                                                *)

\* Mutant of Since: the next event is skipped.
SinceNext(id) == {e \in ToSet(events) : e.seq > id + 1 /\ e.grant \in Own}

\* The events of the network that are newer than an ID.  The buffer is in the
\* order of their numbers, so that a set and that order say what is replayed.
Since(id) == {e \in ToSet(events) : e.seq > id /\ e.grant \in Own}

\* The published grants whose event has left the buffer.
Evicted == {g \in Grants : pub[g].seq > 0 /\ \A e \in ToSet(events) : e.seq > pub[g].seq}

Opened(w) ==
  [watcher EXCEPT ![w] =
     [NoStream EXCEPT !.pc = "on", !.from = lastID[w], !.replay = Since(lastID[w]),
        !.reset = lastID[w] > 0 /\ events # <<>> /\ Head(events).seq > lastID[w] + 1]]

\* Mutant of Connect: the subscription is entered before the buffer is read, so
\* that an event may be both replayed and sent.
ConnectTwice(w) ==
  /\ watcher[w].pc = "off" /\ "state" \notin torn[w]
  /\ watcher' = Opened(w)
  /\ pub' = [g \in Grants |->
       IF pub[g].pc = "sending" /\ g \in Own THEN [pub[g] EXCEPT !.to = @ \cup {w}] ELSE pub[g]]
  /\ got' = [got EXCEPT ![w] = {}]
  /\ missed' = [missed EXCEPT ![w] = IF lastID[w] = 0 THEN Evicted ELSE {}]
  /\ UNCHANGED <<nextSeq, events, revoked, unknown, lastID, cached, torn, faults>>

\* Subscribe, under the hub's lock, from the ID in the watcher's file.  A stream
\* from 0 is never reset: it misses what has left the buffer.
Connect(w) ==
  /\ watcher[w].pc = "off" /\ "state" \notin torn[w]
  /\ watcher' = Opened(w)
  /\ got' = [got EXCEPT ![w] = {}]
  /\ missed' = [missed EXCEPT ![w] = IF lastID[w] = 0 THEN Evicted ELSE {}]
  /\ UNCHANGED <<nextSeq, events, revoked, unknown, pub, lastID, cached, torn, faults>>

\* The watcher reads an event and stores its ID before it acts on it.
Take(w, e, rest) ==
  /\ watcher' = [watcher EXCEPT ![w] = [rest EXCEPT !.pc = "apply", !.current = e]]
  /\ lastID' = [lastID EXCEPT ![w] = e.seq]
  /\ got' = [got EXCEPT ![w] = @ \cup {e.grant}]
  /\ UNCHANGED <<nextSeq, events, revoked, unknown, pub, cached, torn, missed, faults>>

\* The handler sends the reset first, then the replay, then what is published.
TakeReset(w) ==
  LET s == watcher[w] IN
  /\ s.pc = "on" /\ s.reset
  /\ watcher' = [watcher EXCEPT ![w] = [s EXCEPT !.pc = "prune", !.reset = FALSE]]
  /\ UNCHANGED <<nextSeq, events, revoked, unknown, pub, lastID, cached, torn, got, missed, faults>>

TakeReplay(w) ==
  LET s == watcher[w] IN
  /\ s.pc = "on" /\ ~s.reset
  /\ \E e \in s.replay :
       /\ \A f \in s.replay : e.seq <= f.seq
       /\ Take(w, e, [s EXCEPT !.replay = @ \ {e}])

TakeLive(w) ==
  LET s == watcher[w] IN
  /\ s.pc = "on" /\ ~s.reset /\ s.replay = {} /\ s.ch # <<>>
  /\ Take(w, Head(s.ch), [s EXCEPT !.ch = Tail(s.ch)])

Applied(w) ==
  [watcher EXCEPT ![w] = [@ EXCEPT !.pc = "on", !.current = None, !.remain = {}]]

\* RemoveAcceptedAccessGrant; a grant that is not there is no error.
Apply(w) ==
  /\ watcher[w].pc = "apply" /\ "grants" \notin torn[w]
  /\ cached' = [cached EXCEPT ![w] = @ \ {watcher[w].current.grant}]
  /\ watcher' = Applied(w)
  /\ UNCHANGED <<nextSeq, events, revoked, unknown, pub, lastID, torn, got, missed, faults>>

\* Mutant of Kept: what the buffer does not list is taken for missing.
KeptListed(w, failed) == {g \in cached[w] : \E e \in ToSet(events) : e.grant = g} \cup failed

\* What the relay says of the grants of a file leaves these in it.
Kept(w, failed) == (cached[w] \ (revoked \cup unknown)) \cup failed

\* PruneAcceptedAccessGrants asks the relay for every grant of the file, of
\* whichever network; those whose lookup fails for another reason stay.
LookUp(w) ==
  /\ watcher[w].pc = "prune" /\ "grants" \notin torn[w]
  /\ \E failed \in SUBSET (cached[w] \cap (revoked \cup unknown)) :
       /\ missed' = [missed EXCEPT ![w] = @ \cup failed]
       /\ watcher' = [watcher EXCEPT ![w] = [@ EXCEPT !.pc = "save", !.remain = Kept(w, failed)]]
  /\ UNCHANGED <<nextSeq, events, revoked, unknown, pub, lastID, cached, torn, got, faults>>

\* ... and writes what remains.
Prune(w) ==
  /\ watcher[w].pc = "save"
  /\ cached' = [cached EXCEPT ![w] = watcher[w].remain]
  /\ watcher' = Applied(w)
  /\ UNCHANGED <<nextSeq, events, revoked, unknown, pub, lastID, torn, got, missed, faults>>

-----------------------------------------------------------------------------
(* What goes wrong                                                         *)

\* The stream ends: the handler's cancel removes the subscription and closes
\* the channel, which publishers that have copied it do not know.
Cancelled(w) ==
  [g \in Grants |->
     IF pub[g].pc = "sending" /\ w \in pub[g].to
       THEN [pub[g] EXCEPT !.to = @ \ {w}, !.closed = TRUE] ELSE pub[g]]

StreamBreaks(w) ==
  /\ watcher[w].pc = "on" /\ Fault
  /\ watcher' = [watcher EXCEPT ![w] = NoStream]
  /\ pub' = Cancelled(w)
  /\ UNCHANGED <<nextSeq, events, revoked, unknown, lastID, cached, torn, got, missed>>

\* The file of the grants cannot be parsed: the handling of the event fails, and
\* with it the stream.
FileFails(w) ==
  /\ watcher[w].pc \in {"apply", "prune"} /\ "grants" \in torn[w]
  /\ watcher' = [watcher EXCEPT ![w] = NoStream]
  /\ pub' = Cancelled(w)
  /\ UNCHANGED <<nextSeq, events, revoked, unknown, lastID, cached, torn, got, missed, faults>>

\* The watcher writes the file of the grants, or that of the IDs.
Writes(w, file) ==
  LET s == watcher[w] IN
  IF file = "grants"
    THEN s.pc = "save" \/ (s.pc = "apply" /\ s.current.grant \in cached[w])
    ELSE s.pc = "on" /\ ~s.reset /\ (s.replay # {} \/ s.ch # <<>>)

\* The watcher is stopped in the middle of an event.  os.WriteFile truncates its
\* file first: a stop inside it, or a full disk, leaves a torn one.
WatcherStops(w) ==
  /\ Fault
  /\ \/ watcher[w].pc \in {"apply", "prune", "save"} /\ UNCHANGED <<cached, torn>>
     \/ \E file \in {"grants", "state"} :
          /\ Writes(w, file)
          /\ torn' = [torn EXCEPT ![w] = @ \cup {file}]
          /\ cached' = IF file = "grants" THEN [cached EXCEPT ![w] = {}] ELSE cached
  /\ watcher' = [watcher EXCEPT ![w] = NoStream]
  /\ pub' = Cancelled(w)
  /\ UNCHANGED <<nextSeq, events, revoked, unknown, lastID, got, missed>>

\* The grant is deleted from the store, or the watcher's owner is no longer a
\* member of its network.
Lapse(g) ==
  /\ g \in Lapsing \ unknown
  /\ unknown' = unknown \cup {g}
  /\ UNCHANGED <<nextSeq, events, revoked, pub, watcher, lastID, cached, torn, got, missed, faults>>

\* The hub is in memory: a relay that starts anew counts from one.
RelayRestarts ==
  /\ Fault
  /\ nextSeq' = 0 /\ events' = <<>>
  /\ pub' = [g \in Grants |->
       IF pub[g].pc = "idle" THEN Idle ELSE [Idle EXCEPT !.pc = "done"]]
  /\ watcher' = [w \in Watchers |-> NoStream]
  /\ UNCHANGED <<revoked, unknown, lastID, cached, torn, got, missed>>

-----------------------------------------------------------------------------

RequestStep(g) ==
  \/ Publish(g) \/ SendOnClosed(g) \/ PublishEnds(g) \/ \E w \in Watchers : Deliver(g, w)
WatcherStep(w) ==
  \/ Connect(w) \/ TakeReset(w) \/ TakeReplay(w) \/ TakeLive(w) \/ Apply(w)
  \/ LookUp(w) \/ Prune(w) \/ FileFails(w)

AccessNext ==
  \/ \E g \in Grants : Revoke(g) \/ RequestStep(g) \/ Lapse(g)
  \/ \E w \in Watchers : WatcherStep(w) \/ StreamBreaks(w) \/ WatcherStops(w)
  \/ RelayRestarts

AccessSpec == AccessInit /\ [][AccessNext]_accessVars

-----------------------------------------------------------------------------
(* Properties                                                              *)

\* What a stream still has to bring: the replay, the channel, and the sends
\* of the publishers that have copied its subscription.
Replayed(w) == {e.grant : e \in watcher[w].replay}
Queued(w)   == {e.grant : e \in ToSet(watcher[w].ch)}
Sending(w)  == {g \in Own : pub[g].pc = "sending" /\ w \in pub[g].to}

\* A grant that was published after the ID with which the stream began leaves
\* the cache, or its event is on its way, or the stream is about to prune the
\* cache.  Excepted is what a full channel, a panic or a failed lookup loses, and
\* what had left the buffer before a stream began at 0.
NothingLost(w) ==
  \A g \in Own \cap cached[w] : pub[g].seq > watcher[w].from =>
    \/ g \in Replayed(w) \cup Queued(w) \cup Sending(w) \cup {watcher[w].current.grant}
    \/ watcher[w].pc = "prune" \/ watcher[w].reset
    \/ watcher[w].pc = "save" /\ g \notin watcher[w].remain
    \/ g \in missed[w]

\* What the watcher has had, what is replayed, what is in the channel and what is
\* under way to it are different grants, and the channel holds none of them twice.
NothingTwice(w) ==
  /\ got[w] \cap (Replayed(w) \cup Queued(w) \cup Sending(w)) = {}
  /\ Replayed(w) \cap (Queued(w) \cup Sending(w)) = {}
  /\ Queued(w) \cap Sending(w) = {}
  /\ LET ch == watcher[w].ch IN
     \A i, j \in DOMAIN ch : ch[i].grant = ch[j].grant => i = j

\* The hand-over from the replay to the live channel (Subscribe, while publishers
\* are on their way) loses no revocation.
RevocationNotLost == \A w \in Watchers : Online(w) => NothingLost(w)

\* ... and sends none twice over one stream.
SentOnce == \A w \in Watchers : Online(w) => NothingTwice(w)

\* No watcher drops a grant that has not been revoked and that the relay knows,
\* whatever is reset, replayed and restarted, unless a stop has torn its file.
ValidGrantKept ==
  \A w \in Watchers :
    "grants" \in torn[w] \/ Grants \ (revoked \cup unknown) \subseteq cached[w]
=============================================================================
