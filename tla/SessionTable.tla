---------------------------- MODULE SessionTable ----------------------------
(***************************************************************************)
(* The session table of a codewire node: SessionManager of                 *)
(* internal/session/session.go with the requests of                        *)
(* internal/node/handler.go that change it (Launch, Kill, KillAll,         *)
(* KillByTags), and the group-membership hooks of internal/node/node.go.   *)
(*                                                                         *)
(* A client process serves one request at a time.  Every session has a     *)
(* waiter goroutine (goroutine 3 of Launch).  A step is a critical section *)
(* of SessionManager.mu or Session.mu, or a call that no lock protects.    *)
(* SessionPersistence adds the signal that Launch, SetName, Kill and the   *)
(* waiter send to the persistence manager, and the status refresh.         *)
(***************************************************************************)
EXTENDS Integers, FiniteSets

CONSTANTS
  Clients,    \* connections, each served by one handleClient goroutine
  Names,      \* the valid session names a Launch may ask for
  NoName,     \* the empty name
  GroupTags,  \* whether a Launch may come with a group tag: a set of Booleans
  MaxID       \* bound: the last ID the node hands out

ASSUME NamesAssumption == NoName \notin Names
ASSUME GroupTagsAssumption == GroupTags \subseteq BOOLEAN
ASSUME MaxIDAssumption == MaxID \in Nat

Ids  == 1 .. MaxID
NoId == 0

VARIABLES
  nextID,     \* SessionManager.nextID
  watch,      \* Session.statusWatcher; "none" when the ID is not in m.sessions
  mStatus,    \* Session.Meta.Status
  mName,      \* Session.Meta.Name
  mDone,      \* Meta.ExitCode and CompletedAt set ("exit"), Result too ("result")
  grouped,    \* whether Meta.Tags carries a group tag
  hookSent,   \* Session.exitHookSent
  proc,       \* the child process: none, alive, exited (a zombie), reaped
  waiter,     \* the waiter goroutine of each session
  nameIndex,  \* SessionManager.nameIndex, NoId for an absent key
  client,     \* the request each client goroutine is serving
  members,    \* the names the relay lists as this node's group members
  hooks       \* history: exit hook calls for each session

sessionVars == <<watch, mStatus, mName, mDone, grouped, hookSent, proc>>
tableVars   == <<nextID, sessionVars, waiter, nameIndex, client, members, hooks>>

-----------------------------------------------------------------------------
(* State                                                                   *)

Status == {"running", "completed", "killed"}

\* A client goroutine: where it is in its request, the session it works on,
\* that session's name, the sessions still to kill, the claim on the exit hook.
Request(pc, id, name, targets, send) ==
  [pc |-> pc, id |-> id, name |-> name, targets |-> targets, send |-> send]
IdleClient == Request("idle", NoId, NoName, {}, FALSE)

\* A waiter goroutine: where it is, the name it read, its claim on the hook.
WaiterAt(pc, name, send) == [pc |-> pc, name |-> name, send |-> send]
NoWaiter == WaiterAt("none", NoName, FALSE)

\* The sessions in m.sessions, and those whose watcher says "running".
Known   == {i \in Ids : watch[i] # "none"}
Running == {i \in Ids : watch[i] = "running"}

\* A SessionManager that has no session yet, and a relay that has no member.
TableInit ==
  /\ nextID    = 1
  /\ watch     = [i \in Ids |-> "none"]
  /\ mStatus   = [i \in Ids |-> "none"]
  /\ mName     = [i \in Ids |-> NoName]
  /\ mDone     = [i \in Ids |-> "none"]
  /\ grouped   = [i \in Ids |-> FALSE]
  /\ hookSent  = [i \in Ids |-> FALSE]
  /\ proc      = [i \in Ids |-> "none"]
  /\ waiter    = [i \in Ids |-> NoWaiter]
  /\ nameIndex = [n \in Names |-> NoId]
  /\ client    = [c \in Clients |-> IdleClient]
  /\ hooks     = [i \in Ids |-> 0]
  /\ members   = {}

-----------------------------------------------------------------------------
(* Helpers shared by several requests                                      *)

\* Mutant of ReleaseName: the ownership check is forgotten.
ReleaseNameUnchecked(i) ==
  IF mName[i] # NoName THEN [nameIndex EXCEPT ![mName[i]] = NoId] ELSE nameIndex

\* The index after releaseName: the session's name is dropped if it owns it.
ReleaseName(i) ==
  IF mName[i] # NoName /\ nameIndex[mName[i]] = i
    THEN [nameIndex EXCEPT ![mName[i]] = NoId]
    ELSE nameIndex

\* Mutant of IndexName: the index points at the session launched last.
IndexNameLast(id, name) == [nameIndex EXCEPT ![name] = nextID - 1]

\* The index after SetName: the name leads to the session, its old one is gone.
IndexName(id, name) ==
  [n \in Names |-> IF n = name THEN id
                  ELSE IF n = mName[id] THEN NoId ELSE nameIndex[n]]

\* The exit hook, cleanupRelayGroupMemberships: remove the membership of the
\* name it was given.  A failure of the HTTP call is only logged.
ExitHook(i, name) ==
  /\ hooks' = [hooks EXCEPT ![i] = @ + 1]
  /\ \/ members' = IF grouped[i] THEN members \ {name} ELSE members
     \/ members' = members

-----------------------------------------------------------------------------
(* Launch                                                                  *)

\* SessionManager.Launch takes the next ID from the atomic counter, under no lock.
BeginLaunch(c, name) ==
  /\ client[c].pc = "idle"
  /\ nextID \in Ids
  /\ nextID' = nextID + 1
  /\ client' = [client EXCEPT ![c] = Request("start", nextID, name, {}, FALSE)]
  /\ UNCHANGED <<sessionVars, waiter, nameIndex, members, hooks>>

\* The log directory or the PTY could not be created: the ID is spent.
LaunchFails(c) ==
  /\ client[c].pc = "start"
  /\ client' = [client EXCEPT ![c] = IdleClient]
  /\ UNCHANGED <<nextID, sessionVars, waiter, nameIndex, members, hooks>>

\* pty.Start: the process runs, and nobody knows of the session yet.
StartProcess(c) ==
  /\ client[c].pc = "start"
  /\ proc' = [proc EXCEPT ![client[c].id] = "alive"]
  /\ client' = [client EXCEPT ![c] =
                  Request("insert", client[c].id, client[c].name, {}, FALSE)]
  /\ UNCHANGED <<nextID, watch, mStatus, mName, mDone, grouped, hookSent, waiter,
                 nameIndex, members, hooks>>

\* Under m.mu the session enters the map, with its tags; its goroutines start.
\* Another Launch that took a later ID may have been faster.  handleClient
\* continues with SetName if a name was given.
InsertSession(c, group) ==
  LET id == client[c].id IN
  /\ client[c].pc = "insert"
  /\ watch'   = [watch EXCEPT ![id] = "running"]
  /\ mStatus' = [mStatus EXCEPT ![id] = "running"]
  /\ grouped' = [grouped EXCEPT ![id] = group]
  /\ waiter'  = [waiter EXCEPT ![id] = WaiterAt("wait", NoName, FALSE)]
  /\ client'  = [client EXCEPT ![c] = IF client[c].name = NoName THEN IdleClient
                                      ELSE Request("setname", id, client[c].name, {}, FALSE)]
  /\ UNCHANGED <<nextID, mName, mDone, hookSent, proc, nameIndex, members, hooks>>

\* SetName succeeded: the name is free (or already this session's) and the
\* name-change hook, syncRelayGroupMemberships, added it to the relay group.
SetName(c) ==
  LET id   == client[c].id
      name == client[c].name IN
  /\ client[c].pc = "setname"
  /\ nameIndex[name] \in {NoId, id}
  /\ mName' = [mName EXCEPT ![id] = name]
  /\ nameIndex' = IndexName(id, name)
  /\ members' = IF grouped[id] THEN (members \ {mName[id]}) \cup {name} ELSE members
  /\ client' = [client EXCEPT ![c] = IdleClient]
  /\ UNCHANGED <<nextID, watch, mStatus, mDone, grouped, hookSent, proc, waiter,
                 hooks>>

\* SetName failed: the name is taken, or the hook's call to the relay failed
\* (before or after the relay recorded the member).  handleClient kills the
\* session it has just launched.
SetNameFails(c) ==
  LET id   == client[c].id
      name == client[c].name IN
  /\ client[c].pc = "setname"
  /\ \/ nameIndex[name] \notin {NoId, id} /\ members' = members
     \/ /\ nameIndex[name] \in {NoId, id} /\ grouped[id]
        /\ members' \in {members, members \cup {name}}
  /\ client' = [client EXCEPT ![c] =
                  Request("kill", NoId, NoName, {id}, FALSE)]
  /\ UNCHANGED <<nextID, sessionVars, waiter, nameIndex, hooks>>

-----------------------------------------------------------------------------
(* Kill, KillAll and KillByTags                                            *)

StartKill(c, ids) ==
  /\ client[c].pc = "idle"
  /\ ids # {}
  /\ client' = [client EXCEPT ![c] =
                  Request("kill", NoId, NoName, ids, FALSE)]
  /\ UNCHANGED <<nextID, sessionVars, waiter, nameIndex, members, hooks>>

KillOne(c)    == \E i \in Known : StartKill(c, {i})
KillAll(c)    == StartKill(c, Running)
KillByTags(c) == StartKill(c, {i \in Running : grouped[i]})

\* Kill, first part: the watcher is set whatever the status was, and SIGTERM
\* goes to Meta.PID.  The child exits in its own time (ProcessExits).
KillMark(c) ==
  /\ client[c].pc = "kill"
  /\ \E i \in client[c].targets :
       /\ watch' = [watch EXCEPT ![i] = "killed"]
       /\ client' = [client EXCEPT ![c] =
                       Request("meta", i, NoName, client[c].targets \ {i}, FALSE)]
  /\ UNCHANGED <<nextID, mStatus, mName, mDone, grouped, hookSent, proc, waiter,
                 nameIndex, members, hooks>>

\* Mutant of KillMeta: the hook is meant only for sessions that still run, but
\* the watcher already says "killed".
KillMetaIfRunning(c) ==
  LET i == client[c].id IN
  /\ client[c].pc = "meta"
  /\ mStatus'  = [mStatus EXCEPT ![i] = "killed"]
  /\ hookSent' = [hookSent EXCEPT ![i] = TRUE]
  /\ client' = [client EXCEPT ![c] =
                  Request("release", i, mName[i], client[c].targets, i \in Running)]
  /\ UNCHANGED <<nextID, watch, mName, mDone, grouped, proc, waiter, nameIndex,
                 members, hooks>>

\* Kill, the section under Session.mu: claim the exit hook and read the name.
KillMeta(c) ==
  LET i == client[c].id IN
  /\ client[c].pc = "meta"
  /\ mStatus'  = [mStatus EXCEPT ![i] = "killed"]
  /\ hookSent' = [hookSent EXCEPT ![i] = TRUE]
  /\ client' = [client EXCEPT ![c] =
                  Request("release", i, mName[i], client[c].targets, ~hookSent[i])]
  /\ UNCHANGED <<nextID, watch, mName, mDone, grouped, proc, waiter, nameIndex,
                 members, hooks>>

KillRelease(c) ==
  LET k == client[c] IN
  /\ k.pc = "release"
  /\ nameIndex' = ReleaseName(k.id)
  /\ client' = [client EXCEPT ![c] = Request("hook", k.id, k.name, k.targets, k.send)]
  /\ UNCHANGED <<nextID, sessionVars, waiter, members, hooks>>

\* The exit hook if Kill claimed it, then the next session of the list.
KillHook(c) ==
  LET k == client[c] IN
  /\ k.pc = "hook"
  /\ IF k.send THEN ExitHook(k.id, k.name) ELSE UNCHANGED <<hooks, members>>
  /\ client' = [client EXCEPT ![c] =
                  IF k.targets = {} THEN IdleClient
                  ELSE Request("kill", NoId, NoName, k.targets, FALSE)]
  /\ UNCHANGED <<nextID, sessionVars, waiter, nameIndex>>

-----------------------------------------------------------------------------
(* The child process and the waiter goroutine of its session               *)

ProcessExits(i) ==
  /\ proc[i] = "alive"
  /\ proc' = [proc EXCEPT ![i] = "exited"]
  /\ UNCHANGED <<nextID, watch, mStatus, mName, mDone, grouped, hookSent, waiter,
                 nameIndex, client, members, hooks>>

\* Mutant of WaiterExit: the status is announced before the result is captured.
WaiterExitEarly(i) ==
  /\ waiter[i].pc = "wait" /\ proc[i] = "exited"
  /\ proc'   = [proc EXCEPT ![i] = "reaped"]
  /\ mDone'  = [mDone EXCEPT ![i] = "exit"]
  /\ waiter' = [waiter EXCEPT ![i] = WaiterAt("status", NoName, FALSE)]
  /\ UNCHANGED <<nextID, watch, mStatus, mName, grouped, hookSent, nameIndex,
                 client, members, hooks>>

\* cmd.Wait returns; ExitCode and CompletedAt are recorded.
WaiterExit(i) ==
  /\ waiter[i].pc = "wait" /\ proc[i] = "exited"
  /\ proc'   = [proc EXCEPT ![i] = "reaped"]
  /\ mDone'  = [mDone EXCEPT ![i] = "exit"]
  /\ waiter' = [waiter EXCEPT ![i] = WaiterAt("result", NoName, FALSE)]
  /\ UNCHANGED <<nextID, watch, mStatus, mName, grouped, hookSent, nameIndex,
                 client, members, hooks>>

\* captureResult, stored in Meta.Result.
WaiterResult(i) ==
  /\ waiter[i].pc = "result"
  /\ mDone'  = [mDone EXCEPT ![i] = "result"]
  /\ waiter' = [waiter EXCEPT ![i] = WaiterAt("status", NoName, FALSE)]
  /\ UNCHANGED <<nextID, watch, mStatus, mName, grouped, hookSent, proc,
                 nameIndex, client, members, hooks>>

\* statusWatcher.Set(completed), then the session.status event.
WaiterStatus(i) ==
  /\ waiter[i].pc = "status"
  /\ watch'  = [watch EXCEPT ![i] = "completed"]
  /\ waiter' = [waiter EXCEPT ![i] = WaiterAt("claim", NoName, FALSE)]
  /\ UNCHANGED <<nextID, mStatus, mName, mDone, grouped, hookSent, proc,
                 nameIndex, client, members, hooks>>

\* Mutant of WaiterClaim: the waiter does not look at exitHookSent.
WaiterClaimAlways(i) ==
  /\ waiter[i].pc = "claim"
  /\ hookSent' = [hookSent EXCEPT ![i] = TRUE]
  /\ waiter' = [waiter EXCEPT ![i] = WaiterAt("release", mName[i], TRUE)]
  /\ UNCHANGED <<nextID, watch, mStatus, mName, mDone, grouped, proc, nameIndex,
                 client, members, hooks>>

\* Under Session.mu: claim the exit hook and read the name.
WaiterClaim(i) ==
  /\ waiter[i].pc = "claim"
  /\ hookSent' = [hookSent EXCEPT ![i] = TRUE]
  /\ waiter' = [waiter EXCEPT ![i] = WaiterAt("release", mName[i], ~hookSent[i])]
  /\ UNCHANGED <<nextID, watch, mStatus, mName, mDone, grouped, proc, nameIndex,
                 client, members, hooks>>

WaiterRelease(i) ==
  /\ waiter[i].pc = "release"
  /\ nameIndex' = ReleaseName(i)
  /\ waiter' = [waiter EXCEPT ![i] = WaiterAt("hook", waiter[i].name, waiter[i].send)]
  /\ UNCHANGED <<nextID, sessionVars, client, members, hooks>>

WaiterHook(i) ==
  /\ waiter[i].pc = "hook"
  /\ IF waiter[i].send THEN ExitHook(i, waiter[i].name)
                       ELSE UNCHANGED <<hooks, members>>
  /\ waiter' = [waiter EXCEPT ![i] = WaiterAt("done", NoName, FALSE)]
  /\ UNCHANGED <<nextID, sessionVars, nameIndex, client>>

-----------------------------------------------------------------------------
(* The specification.  Clients come and go as they like.                   *)

BeginLaunchStep(c)   == \E name \in Names \cup {NoName} : BeginLaunch(c, name)
InsertSessionStep(c) == \E group \in GroupTags : InsertSession(c, group)

LaunchStep(c) ==
  BeginLaunchStep(c) \/ LaunchFails(c) \/ StartProcess(c) \/ InsertSessionStep(c)

KillStep(c) == KillMark(c) \/ KillMeta(c) \/ KillRelease(c) \/ KillHook(c)

ClientStep(c) ==
  \/ LaunchStep(c) \/ SetName(c) \/ SetNameFails(c)
  \/ KillOne(c) \/ KillAll(c) \/ KillByTags(c) \/ KillStep(c)

WaiterStep(i) ==
  \/ WaiterExit(i) \/ WaiterResult(i) \/ WaiterStatus(i)
  \/ WaiterClaim(i) \/ WaiterRelease(i) \/ WaiterHook(i)

TableNext ==
  \/ \E c \in Clients : ClientStep(c)
  \/ \E i \in Ids : ProcessExits(i) \/ WaiterStep(i)

TableSpec == TableInit /\ [][TableNext]_tableVars

-----------------------------------------------------------------------------
(* Properties                                                              *)

ClientState ==
  [pc : {"idle", "start", "insert", "setname", "kill", "meta", "release", "hook"},
   id : Ids \cup {NoId}, name : Names \cup {NoName}, targets : SUBSET Ids, send : BOOLEAN]
WaiterState ==
  [pc : {"none", "wait", "result", "status", "claim", "release", "hook", "done"},
   name : Names \cup {NoName}, send : BOOLEAN]

\* The values every variable may take.
TableTypeOK ==
  /\ nextID \in 1 .. MaxID + 1
  /\ watch \in [Ids -> Status \cup {"none"}]
  /\ mStatus \in [Ids -> Status \cup {"none"}]
  /\ mName \in [Ids -> Names \cup {NoName}]
  /\ mDone \in [Ids -> {"none", "exit", "result"}]
  /\ grouped \in [Ids -> BOOLEAN]
  /\ hookSent \in [Ids -> BOOLEAN]
  /\ proc \in [Ids -> {"none", "alive", "exited", "reaped"}]
  /\ waiter \in [Ids -> WaiterState]
  /\ nameIndex \in [Names -> Ids \cup {NoId}]
  /\ client \in [Clients -> ClientState]
  /\ members \subseteq Names
  /\ hooks \in [Ids -> Nat]

\* A name in the index always leads to a session that bears that name, so a
\* message addressed by name never reaches another session (SetName and
\* releaseName keep nameIndex and Meta.Name in step).
NameIndexSound ==
  \A n \in Names : nameIndex[n] # NoId =>
    /\ nameIndex[n] \in Known
    /\ mName[nameIndex[n]] = n

\* A session that is running and has been named is the one its name resolves
\* to: no late releaseName of an earlier holder, and no second SetName, takes
\* the name away from it.  In particular no two running sessions share a name.
RunningNameResolves ==
  \A i \in Running : mName[i] # NoName => nameIndex[mName[i]] = i

\* Kill and the waiter race to the exit hook, and concurrent Kills race for it
\* too; it is called at most once for a session.
ExitHookOnce == \A i \in Ids : hooks[i] <= 1

\* A client that sees "completed" finds the exit code and the captured result.
CompletedIsRecorded ==
  \A i \in Ids : watch[i] = "completed" => mDone[i] = "result"

\* The goroutine that has claimed the exit hook of session i, not yet called.
ClientClaims(c, i) ==
  client[c].pc \in {"release", "hook"} /\ client[c].send /\ client[c].id = i
WaiterClaims(i) == waiter[i].pc \in {"release", "hook"} /\ waiter[i].send

\* The exit hook of session i has been called or is about to be.
HookAccounted(i) ==
  hooks[i] = 1 \/ WaiterClaims(i) \/ \E c \in Clients : ClientClaims(c, i)

\* The exit hook that removes the group membership is never lost: once Kill has
\* claimed it, or the waiter is done, it has been called or a goroutine is on
\* its way to call it (Kill and the waiter each skip it when the other has it).
ExitHookNotLost ==
  \A i \in Ids : hookSent[i] \/ waiter[i].pc = "done" => HookAccounted(i)

-----------------------------------------------------------------------------
(* Refinement                                                              *)

Life(i) ==
  CASE watch[i] = "none"    -> IF i < nextID THEN "drawn" ELSE "new"
    [] watch[i] = "running" -> "running"
    [] OTHER                -> "over"
Directory == INSTANCE SessionDirectory WITH
  life <- [i \in Ids |-> Life(i)], holder <- nameIndex, told <- hooks

\* SessionTable implements SessionDirectory: the sections of Launch, SetName, Kill
\* and the waiter, however they interleave, amount to its steps.
ImplementsDirectory == Directory!Spec
=============================================================================
