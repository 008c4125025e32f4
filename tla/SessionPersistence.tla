------------------------- MODULE SessionPersistence -------------------------
(***************************************************************************)
(* The session table with what keeps it on disk: the 5 s status refresh    *)
(* and the debounced persistenceManager of internal/node/node.go, PersistMeta *)
(* and NewSessionManager of internal/session/session.go, and crashes of    *)
(* the node.                                                               *)
(*                                                                         *)
(* Every action of SessionTable is taken here with its call of             *)
(* triggerPersist, and waits for SessionManager.mu where it needs the      *)
(* writer side, which RefreshStatuses excludes for the whole of its loop.  *)
(***************************************************************************)
EXTENDS SessionTable

CONSTANTS
  MaxFaults,    \* bound: stops of the node and failed writes of sessions.json
  RefreshTicks  \* whether the node lives long enough for the 5 s ticker to fire

ASSUME MaxFaultsAssumption == MaxFaults \in Nat
ASSUME RefreshTicksAssumption == RefreshTicks \in BOOLEAN

VARIABLES
  refresh,    \* the RefreshStatuses loop
  persistCh,  \* whether PersistCh (capacity 1) holds a signal
  pm,         \* persistenceManager: idle, armed (timer running), writing
  snap,       \* the IDs PersistMeta collected and is writing
  disk,       \* sessions.json: whether it parses, and the IDs it lists
  stale,      \* IDs whose Meta has changed since PersistMeta last wrote it
  faults,     \* faults so far
  durable,    \* history: IDs that a readable sessions.json has ever listed
  forgotten   \* history: those of them that a torn sessions.json took away
              \* at a restart and that have not been listed again

histVars == <<durable, forgotten>>
diskVars == <<pm, snap, disk, histVars>>
vars == <<tableVars, diskVars, stale, refresh, persistCh, faults>>

-----------------------------------------------------------------------------

NoRefresh == [active |-> FALSE, todo |-> {}, id |-> NoId,
              seen |-> "none", changed |-> FALSE]

\* The sessions whose SessionMeta the step changes.  sessions.json is an array
\* of SessionMeta; the model keeps its IDs, and in stale which of its entries
\* are out of date.
Touched ==
  {i \in Ids : \/ mStatus'[i] # mStatus[i]
              \/ mName'[i]   # mName[i]
              \/ mDone'[i]   # mDone[i]}

Init ==
  /\ TableInit
  /\ refresh = NoRefresh
  /\ persistCh = FALSE
  /\ pm = "idle"
  /\ snap = {}
  /\ disk = [ok |-> TRUE, ids |-> {}]
  /\ stale = {}
  /\ faults = 0
  /\ durable = {}
  /\ forgotten = {}

-----------------------------------------------------------------------------
(* The actions of SessionTable, with triggerPersist and the table lock     *)

\* m.mu.Lock waits for the reader that RefreshStatuses is.
TableUnlocked == ~refresh.active

\* triggerPersist: a non-blocking send on a channel of capacity 1.
TriggerPersist == persistCh' = TRUE

LaunchSession ==
  /\ TableUnlocked
  /\ \E c \in Clients : InsertSessionStep(c)
  /\ TriggerPersist
  /\ stale' = stale \cup Touched
  /\ UNCHANGED <<refresh, faults, diskVars>>

\* The other steps that end in triggerPersist: SetName and the waiter's
\* releaseName under m.mu, Kill's update of Meta.Status under Session.mu.
SignallingStep ==
  /\ \/ TableUnlocked /\ \E c \in Clients : SetName(c)
     \/ TableUnlocked /\ \E i \in Ids : WaiterRelease(i)
     \/ \E c \in Clients : KillMeta(c)
  /\ TriggerPersist
  /\ stale' = stale \cup Touched
  /\ UNCHANGED <<refresh, faults, diskVars>>

SilentStep ==
  /\ \/ TableUnlocked /\ \E c \in Clients : SetNameFails(c) \/ KillRelease(c)
     \/ \E c \in Clients :
          \/ BeginLaunchStep(c) \/ LaunchFails(c) \/ StartProcess(c)
          \/ KillOne(c) \/ KillAll(c) \/ KillByTags(c) \/ KillMark(c) \/ KillHook(c)
     \/ \E i \in Ids :
          \/ ProcessExits(i) \/ WaiterExit(i) \/ WaiterResult(i)
          \/ WaiterStatus(i) \/ WaiterClaim(i) \/ WaiterHook(i)
  /\ stale' = stale \cup Touched
  /\ UNCHANGED <<persistCh, refresh, faults, diskVars>>

-----------------------------------------------------------------------------
(* RefreshStatuses, under the reader side of m.mu                          *)

refreshUnchanged ==
  <<nextID, watch, mName, mDone, grouped, hookSent, proc, waiter, nameIndex,
    client, members, hooks, diskVars, faults>>

RefreshStart ==
  /\ RefreshTicks /\ ~refresh.active /\ Known # {}
  /\ refresh' = [NoRefresh EXCEPT !.active = TRUE, !.todo = Known]
  /\ UNCHANGED <<mStatus, stale, persistCh, refreshUnchanged>>

\* statusWatcher.Get() is read before Session.mu is taken.
RefreshRead ==
  /\ refresh.active /\ refresh.id = NoId
  /\ \E i \in refresh.todo :
       refresh' = [refresh EXCEPT !.id = i, !.seen = watch[i], !.todo = @ \ {i}]
  /\ UNCHANGED <<mStatus, stale, persistCh, refreshUnchanged>>

RefreshWrite ==
  /\ refresh.active /\ refresh.id # NoId
  /\ mStatus' = [mStatus EXCEPT ![refresh.id] = refresh.seen]
  /\ refresh' = [refresh EXCEPT !.id = NoId, !.seen = "none",
                   !.changed = @ \/ mStatus[refresh.id] # refresh.seen]
  /\ UNCHANGED <<persistCh, refreshUnchanged>>
  /\ stale' = stale \cup Touched

\* Mutant of RefreshEnd: a changed status is not reported for persistence.
RefreshEndSilent ==
  /\ refresh.active /\ refresh.id = NoId /\ refresh.todo = {}
  /\ refresh' = NoRefresh
  /\ UNCHANGED <<mStatus, stale, persistCh, refreshUnchanged>>

RefreshEnd ==
  /\ refresh.active /\ refresh.id = NoId /\ refresh.todo = {}
  /\ persistCh' = (persistCh \/ refresh.changed)
  /\ refresh' = NoRefresh
  /\ UNCHANGED <<mStatus, stale, refreshUnchanged>>

-----------------------------------------------------------------------------
(* persistenceManager and PersistMeta                                      *)

\* A signal starts the 500 ms timer, or starts it anew.
PersistSignal ==
  /\ persistCh /\ pm \in {"idle", "armed"}
  /\ persistCh' = FALSE
  /\ pm' = "armed"
  /\ UNCHANGED <<tableVars, refresh, snap, disk, stale, histVars, faults>>

\* The timer fires: PersistMeta collects every Meta under m.mu, and
\* os.WriteFile truncates sessions.json.
PersistBegin ==
  /\ pm = "armed"
  /\ pm' = "writing"
  /\ snap' = Known
  /\ disk' = [ok |-> FALSE, ids |-> {}]
  /\ stale' = {}
  /\ UNCHANGED <<tableVars, refresh, persistCh, histVars, faults>>

PersistEnd ==
  /\ pm = "writing"
  /\ pm' = "idle"
  /\ disk' = [ok |-> TRUE, ids |-> snap]
  /\ snap' = {}
  /\ durable' = durable \cup snap
  /\ forgotten' = forgotten \ snap
  /\ UNCHANGED <<tableVars, refresh, persistCh, stale, faults>>

\* os.WriteFile fails, on open (the old file stays) or on write (a partial
\* file stays).  The error is logged and the pending flag cleared.
PersistFails ==
  /\ pm \in {"armed", "writing"} /\ faults < MaxFaults
  /\ faults' = faults + 1
  /\ pm' = "idle"
  /\ snap' = {}
  /\ stale' = Known
  /\ UNCHANGED <<tableVars, refresh, persistCh, disk, histVars>>

-----------------------------------------------------------------------------
(* A crash or a stop of the node, and the next NewSessionManager           *)

\* Mutant of IsStartID: the counter starts at the largest listed ID.
IsStartIDMax(k) ==
  LET ids == IF disk.ok THEN disk.ids ELSE {} IN
  /\ \A i \in ids : i <= k
  /\ (k = 1 /\ ids = {}) \/ k \in ids

\* The counter starts above the largest listed ID; at 1 when there is none or
\* when the file does not parse.
IsStartID(k) ==
  LET ids == IF disk.ok THEN disk.ids ELSE {} IN
  /\ \A i \in ids : i < k
  /\ (k = 1 /\ ids = {}) \/ k - 1 \in ids

\* Nothing flushes sessions.json on the way down (PersistCh is never closed),
\* and the new manager starts with empty tables.
Restart ==
  /\ faults < MaxFaults
  /\ faults' = faults + 1
  /\ nextID' \in 0 .. MaxID + 1 /\ IsStartID(nextID')
  /\ watch'     = [i \in Ids |-> "none"]
  /\ mStatus'   = [i \in Ids |-> "none"]
  /\ mName'     = [i \in Ids |-> NoName]
  /\ mDone'     = [i \in Ids |-> "none"]
  /\ grouped'   = [i \in Ids |-> FALSE]
  /\ hookSent'  = [i \in Ids |-> FALSE]
  /\ proc'      = [i \in Ids |-> "none"]
  /\ waiter'    = [i \in Ids |-> NoWaiter]
  /\ nameIndex' = [n \in Names |-> NoId]
  /\ client'    = [c \in Clients |-> IdleClient]
  /\ hooks'     = [i \in Ids |-> 0]
  /\ refresh'   = NoRefresh
  /\ persistCh' = FALSE
  /\ pm'        = "idle"
  /\ snap'      = {}
  /\ stale'     = {}
  /\ forgotten' = IF disk.ok THEN forgotten ELSE durable
  /\ UNCHANGED <<members, disk, durable>>

-----------------------------------------------------------------------------

TableStep   == LaunchSession \/ SignallingStep \/ SilentStep
RefreshStep == RefreshStart \/ RefreshRead \/ RefreshWrite \/ RefreshEnd
PersistStep == PersistSignal \/ PersistBegin \/ PersistEnd

Next == TableStep \/ RefreshStep \/ PersistStep \/ PersistFails \/ Restart

Spec == Init /\ [][Next]_vars

\* The ticker keeps firing, and persistenceManager is a goroutine that reads
\* its channel and its timer whenever one of them is ready.
FairSpec == Spec /\ WF_vars(RefreshStep) /\ WF_vars(PersistStep)

-----------------------------------------------------------------------------
(* Properties                                                              *)

Launched(i) == watch[i] = "none" /\ watch'[i] # "none"

\* After any number of crashes, an ID that a readable sessions.json has ever
\* listed is not given to another session, but for those that a restart lost to
\* a file torn by the node's own write and that no file has listed since: the
\* next NewSessionManager starts above the largest listed ID, no list that
\* PersistMeta writes ends below an earlier one, and a Launch that is slow to
\* insert its session has an ID that no file lists.
DurableIDNotReused == [][\A i \in Ids : Launched(i) => i \notin durable \ forgotten]_vars

\* What the comment on SessionMeta says of sessions.json (session.go:168-169):
\* it is written "so that session IDs survive restarts".
IDsSurviveRestarts == [][\A i \in Ids : Launched(i) => i \notin durable]_vars

Quiet ==
  /\ \A c \in Clients : client[c].pc = "idle"
  /\ \A i \in Ids : waiter[i].pc \in {"none", "wait", "done"} /\ proc[i] # "exited"

DiskUpToDate ==
  /\ disk.ok /\ disk.ids = Known /\ stale = {}
  /\ \A i \in Known : mStatus[i] = watch[i]

\* Once requests and exits stop, sessions.json comes to hold what the table
\* holds, with the status the watchers hold: no debounced signal is lost and
\* no stale write of RefreshStatuses stays (its read of the watcher and its
\* write of Meta.Status are not one critical section).  A failed write is not
\* made good before the next change, so faults are excepted.
DiskCatchesUp == <>[](Quiet /\ faults = 0) => <>[]DiskUpToDate
=============================================================================
