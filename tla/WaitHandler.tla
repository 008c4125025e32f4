---------------------------- MODULE WaitHandler ----------------------------
(***************************************************************************)
(* `cw wait`: handleWait of internal/node/handler.go over the              *)
(* SubscriptionManager of internal/session/events.go, with what Launch,    *)
(* Kill and the waiter goroutine of internal/session/session.go do to the  *)
(* status and to the status events that a Wait listens for.                *)
(***************************************************************************)
EXTENDS Naturals, FiniteSets

CONSTANTS
  Sessions,   \* the sessions the node may launch
  NoSession,  \* the ID of a Wait that gives none
  Waiters,    \* handleWait goroutines
  EventBuf    \* capacity of a subscription's channel (256 in the code)

ASSUME NoSessionAssumption == NoSession \notin Sessions
ASSUME EventBufAssumption == EventBuf \in Nat \ {0}

VARIABLES
  watch,   \* the StatusWatcher of each session; "none" before its launch
  tagged,  \* the sessions that carry the tag
  exit,    \* the waiter goroutine: alive, completed (status set), announced
  wait,    \* the handleWait goroutines
  subs,    \* SubscriptionManager.subs: the Waits that are subscribed
  events   \* how many status events each subscription's channel holds

waitVars == <<watch, tagged, exit, wait, subs, events>>

\* A Wait gives a session ID, a tag, both (`cw wait <session> --tag ...`) or none.
Wait(pc, id, byTag, condition) ==
  [pc |-> pc, id |-> id, byTag |-> byTag, condition |-> condition]
At(w, pc) == [wait EXCEPT ![w] = Wait(pc, wait[w].id, wait[w].byTag, wait[w].condition)]

WaitInit ==
  /\ watch = [s \in Sessions |-> "none"]
  /\ tagged = {}
  /\ exit = [s \in Sessions |-> "none"]
  /\ wait = [w \in Waiters |-> Wait("idle", NoSession, FALSE, "all")]
  /\ subs = {}
  /\ events = [w \in Waiters |-> 0]

-----------------------------------------------------------------------------
(* The sessions                                                            *)

Launch(s, withTag) ==
  /\ watch[s] = "none"
  /\ watch' = [watch EXCEPT ![s] = "running"]
  /\ exit' = [exit EXCEPT ![s] = "alive"]
  /\ tagged' = IF withTag THEN tagged \cup {s} ELSE tagged
  /\ UNCHANGED <<wait, subs, events>>

\* Kill sets the status, at any time, and publishes nothing.
Kill(s) ==
  /\ watch[s] # "none"
  /\ watch' = [watch EXCEPT ![s] = "killed"]
  /\ UNCHANGED <<tagged, exit, wait, subs, events>>

\* The process has exited, after a SIGTERM or by itself.
WaiterStatus(s) ==
  /\ exit[s] = "alive"
  /\ watch' = [watch EXCEPT ![s] = "completed"]
  /\ exit' = [exit EXCEPT ![s] = "completed"]
  /\ UNCHANGED <<tagged, wait, subs, events>>

\* Subscription.matches on the session.status event of s: the filters are ANDed.
Matches(w, s) ==
  wait[w].id \in {NoSession, s} /\ (wait[w].byTag => s \in tagged)

\* Mutant of Publish: a full channel is drained instead of left alone.
PublishDrains(s) ==
  events' = [w \in Waiters |->
    IF w \in subs /\ Matches(w, s)
      THEN IF events[w] < EventBuf THEN events[w] + 1 ELSE 0
      ELSE events[w]]

\* A non-blocking send to every matching subscription.
Publish(s) ==
  events' = [w \in Waiters |->
    IF w \in subs /\ Matches(w, s) /\ events[w] < EventBuf THEN events[w] + 1
    ELSE events[w]]

WaiterAnnounces(s) ==
  /\ exit[s] = "completed"
  /\ Publish(s)
  /\ exit' = [exit EXCEPT ![s] = "announced"]
  /\ UNCHANGED <<watch, tagged, wait, subs>>

-----------------------------------------------------------------------------
(* handleWait                                                              *)

Over(s) == watch[s] \in {"completed", "killed"}
Matching == {s \in tagged : watch[s] # "none"}

EndedByID(w)  == wait[w].id # NoSession /\ Over(wait[w].id)
EndedByTag(w) ==
  /\ wait[w].byTag
  /\ \E s \in Matching : Over(s)
  /\ wait[w].condition = "all" => \A s \in Matching : Over(s)

\* What handleWait looks for, on entry and after every event: the two are ORed.
Satisfied(w) == EndedByID(w) \/ EndedByTag(w)

BeginWait(w, id, byTag, condition) ==
  /\ wait[w].pc = "idle"
  /\ wait' = [wait EXCEPT ![w] = Wait("subscribe", id, byTag, condition)]
  /\ UNCHANGED <<watch, tagged, exit, subs, events>>

\* Mutant of WaitSubscribes: the condition is checked once, before subscribing.
SubscribeAfterCheck(w) ==
  \/ /\ wait[w].pc = "subscribe"
     /\ wait' = At(w, IF Satisfied(w) THEN "answered" ELSE "late")
     /\ UNCHANGED <<watch, tagged, exit, subs, events>>
  \/ /\ wait[w].pc = "late"
     /\ subs' = subs \cup {w}
     /\ wait' = At(w, "blocked")
     /\ UNCHANGED <<watch, tagged, exit, events>>

WaitSubscribes(w) ==
  /\ wait[w].pc = "subscribe"
  /\ subs' = subs \cup {w}
  /\ wait' = At(w, "check")
  /\ UNCHANGED <<watch, tagged, exit, events>>

\* The answer, and the deferred Unsubscribe.
Leave(w, pc) ==
  /\ wait' = At(w, pc)
  /\ subs' = subs \ {w}
  /\ events' = [events EXCEPT ![w] = 0]

Check(w) ==
  /\ wait[w].pc = "check"
  /\ IF Satisfied(w) THEN Leave(w, "answered")
     ELSE wait' = At(w, "blocked") /\ UNCHANGED <<subs, events>>
  /\ UNCHANGED <<watch, tagged, exit>>

Wake(w) ==
  /\ wait[w].pc = "blocked" /\ events[w] > 0
  /\ IF Satisfied(w) THEN Leave(w, "answered")
     ELSE events' = [events EXCEPT ![w] = @ - 1] /\ UNCHANGED <<wait, subs>>
  /\ UNCHANGED <<watch, tagged, exit>>

WaitTimesOut(w) ==
  /\ wait[w].pc = "blocked"
  /\ Leave(w, "timed out")
  /\ UNCHANGED <<watch, tagged, exit>>

-----------------------------------------------------------------------------

WaitStep(w) == WaitSubscribes(w) \/ Check(w) \/ Wake(w)

WaitNext ==
  \/ \E s \in Sessions :
       \/ \E withTag \in BOOLEAN : Launch(s, withTag)
       \/ Kill(s) \/ WaiterStatus(s) \/ WaiterAnnounces(s)
  \/ \E w \in Waiters :
       \/ \E id \in Sessions \cup {NoSession}, byTag \in BOOLEAN, condition \in {"all", "any"} :
            BeginWait(w, id, byTag, condition)
       \/ WaitStep(w) \/ WaitTimesOut(w)

WaitSpec == WaitInit /\ [][WaitNext]_waitVars

\* Goroutines run when they can.  Processes need not exit, and nothing is said
\* of the timer: by default it fires after 24 hours, which no Wait should need.
WaitFairness ==
  /\ \A s \in Sessions : WF_waitVars(WaiterAnnounces(s))
  /\ \A w \in Waiters : WF_waitVars(WaitStep(w))

WaitFairSpec == WaitSpec /\ WaitFairness

-----------------------------------------------------------------------------
(* Properties                                                              *)

Waiting(w) == wait[w].pc \in {"subscribe", "check", "blocked"}

\* What the Wait looks for holds, an ended session is one whose events it gets,
\* and the waiters of all such have come as far as exits says: none of them is a
\* process that a Kill has marked and that lives on.
Due(w, exits) ==
  /\ Satisfied(w)
  /\ \E s \in Sessions : Over(s) /\ Matches(w, s)
  /\ \A s \in Sessions : Over(s) /\ Matches(w, s) => exit[s] \in exits

\* No Wait sleeps for ever on sessions that have exited and whose events reach it:
\* whichever of its check and the exit comes first, and also when events find
\* the channel full.
WaitNotStuck ==
  \A w \in Waiters : []<>~(Waiting(w) /\ Due(w, {"completed", "announced"}))

\* A blocked Wait that is due because of sessions that have announced their exit
\* has an event in its channel to wake it: the subscription precedes the check,
\* the status precedes the event, and a drop needs a full channel.
BlockedHasEvent ==
  \A w \in Waiters : wait[w].pc = "blocked" /\ Due(w, {"announced"}) => events[w] > 0

\* What the comment on handleWait says (handler.go:631): it "blocks until the
\* target session(s) complete or timeout".  A Wait whose condition holds, every
\* ended session having announced its exit, does not sleep for ever.
WaitEndsWithTarget ==
  \A w \in Waiters :
    []<>~(/\ Waiting(w) /\ Satisfied(w)
          /\ \A s \in Sessions : Over(s) => exit[s] = "announced")
=============================================================================
