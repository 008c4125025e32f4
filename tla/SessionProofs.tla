---------------------------- MODULE SessionProofs ----------------------------
(***************************************************************************)
(* Proofs about SessionTable and SessionPersistence, for every set of      *)
(* clients and names, every MaxID and every MaxFaults: type correctness,   *)
(* the name index and the exit hook of the table; then the same guarantees *)
(* with the status refresh and across restarts, and that an ID on disk is  *)
(* never handed out again.                                                 *)
(***************************************************************************)
EXTENDS SessionPersistence, TLAPS

-----------------------------------------------------------------------------
(* The inductive invariant, in named parts                                 *)

\* The type invariant, with the facts that a client at work has a session and
\* that a client in SetName has a real name.
TypeInv ==
  /\ TableTypeOK
  /\ \A c \in Clients :
       /\ client[c].pc = "setname" => client[c].name \in Names
       /\ client[c].pc \notin {"idle", "kill"} => client[c].id \in Ids

\* An ID that has not been handed out is not in the table, and an ID that is not
\* in the table has no trace in it.
FreshIDs ==
  \A i \in Ids :
    /\ i >= nextID => watch[i] = "none"
    /\ watch[i] = "none" =>
         /\ mName[i] = NoName /\ mDone[i] = "none"
         /\ ~hookSent[i] /\ hooks[i] = 0 /\ waiter[i].pc = "none"

\* A client in Launch has an ID that is not in the table and that nobody shares.
InLaunch(c) == client[c].pc \in {"start", "insert"}
Launching ==
  \A c \in Clients : InLaunch(c) =>
    /\ client[c].id < nextID /\ watch[client[c].id] = "none"
    /\ \A d \in Clients \ {c} : InLaunch(d) => client[d].id # client[c].id

\* A client in SetName works on a session that it alone names, once.
Naming ==
  \A c \in Clients : client[c].pc = "setname" =>
    /\ client[c].id \in Known
    /\ mName[client[c].id] = NoName
    /\ \A d \in Clients \ {c} :
         client[d].pc = "setname" => client[d].id # client[c].id

\* A Kill works on sessions of the table, and has left "running" behind.
Killing ==
  \A c \in Clients :
    /\ client[c].targets \subseteq Known
    /\ client[c].pc \in {"meta", "release", "hook"} =>
         client[c].id \in Known \ Running

\* How far a waiter is says what it has recorded and announced.
Waiting ==
  \A i \in Ids :
    /\ waiter[i].pc = "none" <=> watch[i] = "none"
    /\ waiter[i].pc \in {"none", "wait", "result", "status"} =>
         watch[i] # "completed"
    /\ waiter[i].pc \in {"claim", "release", "hook", "done"} =>
         watch[i] # "running"
    /\ waiter[i].pc \in {"status", "claim", "release", "hook", "done"} =>
         mDone[i] = "result"

\* The claim is taken once, by one goroutine, before the one call.
OneClaim(i) ==
  /\ hooks[i] <= 1
  /\ ~hookSent[i] => hooks[i] = 0
  /\ WaiterClaims(i) => hookSent[i] /\ hooks[i] = 0
  /\ \A c \in Clients : ClientClaims(c, i) =>
       /\ hookSent[i] /\ hooks[i] = 0 /\ ~WaiterClaims(i)
       /\ \A d \in Clients \ {c} : ~ClientClaims(d, i)
Claims == \A i \in Ids : OneClaim(i)

\* Whoever is past the claim has marked it, and a marked hook is not lost.
HookKept ==
  /\ ExitHookNotLost
  /\ \A i \in Ids : waiter[i].pc \in {"release", "hook", "done"} => hookSent[i]

TableInv ==
  /\ TypeInv /\ FreshIDs /\ Launching /\ Naming /\ Killing /\ Waiting
  /\ Claims /\ NameIndexSound /\ RunningNameResolves /\ HookKept

-----------------------------------------------------------------------------
(* Type correctness                                                        *)

\* The initial table satisfies every part of the invariant.
LEMMA InitInv == TableInit => TableInv
  <1> SUFFICES ASSUME TableInit PROVE TableInv
    OBVIOUS
  <1> USE NamesAssumption, MaxIDAssumption
      DEF TableInit, IdleClient, Request, NoWaiter, WaiterAt, Ids, NoId
  <1>1. TypeInv
    BY DEF TypeInv, TableTypeOK, Status, ClientState, WaiterState
  <1>2. FreshIDs /\ Launching /\ Naming /\ Killing /\ Waiting
    BY DEF FreshIDs, Launching, InLaunch, Naming, Killing, Waiting, Known, Running
  <1>3. Claims
    BY DEF Claims, OneClaim, ClientClaims, WaiterClaims
  <1>4. NameIndexSound /\ RunningNameResolves
    BY DEF NameIndexSound, RunningNameResolves, Running
  <1>5. HookKept
    BY DEF HookKept, ExitHookNotLost, HookAccounted
  <1> QED
    BY <1>1, <1>2, <1>3, <1>4, <1>5 DEF TableInv

\* Every step of the table keeps the types.
LEMMA TypeStep == TypeInv /\ [TableNext]_tableVars => TypeInv'
  <1> SUFFICES ASSUME TypeInv, [TableNext]_tableVars PROVE TypeInv'
    OBVIOUS
  <1> USE NamesAssumption, MaxIDAssumption, GroupTagsAssumption
      DEF TypeInv, TableTypeOK, Ids, NoId, Status, ClientState, WaiterState,
          IdleClient, Request, NoWaiter, WaiterAt, sessionVars
  <1>1. ASSUME NEW c \in Clients, BeginLaunchStep(c) \/ LaunchFails(c) \/ StartProcess(c)
        PROVE  TypeInv'
    <2>1. CASE BeginLaunchStep(c)
      <3> PICK name \in Names \cup {NoName} : BeginLaunch(c, name)
        BY <2>1 DEF BeginLaunchStep
      <3> QED
        BY DEF BeginLaunch
    <2>2. CASE LaunchFails(c)
      BY <2>2 DEF LaunchFails
    <2>3. CASE StartProcess(c)
      <3>1. client' = [client EXCEPT ![c] =
                         Request("insert", client[c].id, client[c].name, {}, FALSE)]
            /\ client[c].pc = "start"
        BY <2>3 DEF StartProcess
      <3>2. client' \in [Clients -> ClientState]
        BY <3>1
      <3>3. client[c].id \in Ids /\ proc' = [proc EXCEPT ![client[c].id] = "alive"]
        BY <2>3 DEF StartProcess
      <3> QED
        BY <2>3, <3>1, <3>2, <3>3 DEF StartProcess
    <2> QED
      BY <1>1, <2>1, <2>2, <2>3
  <1>2. ASSUME NEW c \in Clients, InsertSessionStep(c) PROVE TypeInv'
    <2> PICK group \in GroupTags : InsertSession(c, group)
      BY <1>2 DEF InsertSessionStep
    <2>1. client' = [client EXCEPT ![c] = IF client[c].name = NoName THEN IdleClient
                         ELSE Request("setname", client[c].id, client[c].name, {}, FALSE)]
          /\ client[c].pc = "insert" /\ client[c].id \in Ids /\ group \in BOOLEAN
      BY DEF InsertSession
    <2>2. client' \in [Clients -> ClientState]
      BY <2>1
    <2>3. watch' = [watch EXCEPT ![client[c].id] = "running"]
          /\ mStatus' = [mStatus EXCEPT ![client[c].id] = "running"]
          /\ grouped' = [grouped EXCEPT ![client[c].id] = group]
          /\ waiter' = [waiter EXCEPT ![client[c].id] = WaiterAt("wait", NoName, FALSE)]
          /\ UNCHANGED <<nextID, mName, mDone, hookSent, proc, nameIndex, members, hooks>>
      BY DEF InsertSession
    <2> QED
      BY <2>1, <2>2, <2>3
  <1>3. ASSUME NEW c \in Clients, SetName(c) PROVE TypeInv'
    BY <1>3 DEF SetName, IndexName
  <1>4. ASSUME NEW c \in Clients, SetNameFails(c) PROVE TypeInv'
    <2>1. client' = [client EXCEPT ![c] =
                       Request("kill", NoId, NoName, {client[c].id}, FALSE)]
          /\ client[c].pc = "setname"
      BY <1>4 DEF SetNameFails
    <2>2. client' \in [Clients -> ClientState]
      BY <2>1
    <2> QED
      BY <1>4, <2>1, <2>2 DEF SetNameFails
  <1>5. ASSUME NEW c \in Clients, KillOne(c) \/ KillAll(c) \/ KillByTags(c)
        PROVE TypeInv'
    <2> PICK ids \in SUBSET Ids : StartKill(c, ids)
      BY <1>5 DEF KillOne, KillAll, KillByTags, Known, Running
    <2>1. client' \in [Clients -> ClientState]
      BY DEF StartKill
    <2> QED
      BY <2>1 DEF StartKill
  <1>6. ASSUME NEW c \in Clients, KillMark(c) PROVE TypeInv'
    BY <1>6 DEF KillMark
  <1>7. ASSUME NEW c \in Clients, KillMeta(c) PROVE TypeInv'
    BY <1>7 DEF KillMeta
  <1>8. ASSUME NEW c \in Clients, KillRelease(c) PROVE TypeInv'
    BY <1>8 DEF KillRelease, ReleaseName
  <1>9. ASSUME NEW c \in Clients, KillHook(c) PROVE TypeInv'
    <2>1. client' \in [Clients -> ClientState]
      BY <1>9 DEF KillHook
    <2>2. hooks' \in [Ids -> Nat] /\ members' \subseteq Names
      <3>1. client[c].id \in Ids
        BY <1>9 DEF KillHook
      <3>2. UNCHANGED <<hooks, members>> \/ ExitHook(client[c].id, client[c].name)
        BY <1>9 DEF KillHook
      <3>3. CASE ExitHook(client[c].id, client[c].name)
        <4>1. hooks' = [hooks EXCEPT ![client[c].id] = @ + 1]
              /\ members' \subseteq members
          BY <3>3 DEF ExitHook
        <4> QED
          BY <3>1, <4>1
      <3> QED
        BY <3>2, <3>3
    <2>3. \A d \in Clients :
            /\ client'[d].pc = "setname" => client'[d].name \in Names
            /\ client'[d].pc \notin {"idle", "kill"} => client'[d].id \in Ids
      BY <1>9 DEF KillHook
    <2> QED
      BY <1>9, <2>1, <2>2, <2>3 DEF KillHook
  <1>10. ASSUME NEW i \in Ids, ProcessExits(i) PROVE TypeInv'
    BY <1>10 DEF ProcessExits
  <1>11. ASSUME NEW i \in Ids, WaiterExit(i) \/ WaiterResult(i) \/ WaiterStatus(i)
         PROVE TypeInv'
    <2>1. CASE WaiterExit(i)
      BY <2>1 DEF WaiterExit
    <2>2. CASE WaiterResult(i)
      BY <2>2 DEF WaiterResult
    <2>3. CASE WaiterStatus(i)
      BY <2>3 DEF WaiterStatus
    <2> QED
      BY <1>11, <2>1, <2>2, <2>3
  <1>12. ASSUME NEW i \in Ids, WaiterClaim(i) PROVE TypeInv'
    BY <1>12 DEF WaiterClaim
  <1>13. ASSUME NEW i \in Ids, WaiterRelease(i) PROVE TypeInv'
    BY <1>13 DEF WaiterRelease, ReleaseName
  <1>14. ASSUME NEW i \in Ids, WaiterHook(i) PROVE TypeInv'
    <2>1. UNCHANGED <<hooks, members>> \/ ExitHook(i, waiter[i].name)
      BY <1>14 DEF WaiterHook
    <2>2. hooks' \in [Ids -> Nat] /\ members' \subseteq Names
      BY <2>1 DEF ExitHook
    <2> QED
      BY <1>14, <2>2 DEF WaiterHook
  <1>15. CASE UNCHANGED tableVars
    BY <1>15 DEF tableVars
  <1> HIDE DEF TypeInv
  <1> QED
    BY <1>1, <1>2, <1>3, <1>4, <1>5, <1>6, <1>7, <1>8, <1>9, <1>10, <1>11,
       <1>12, <1>13, <1>14, <1>15
    DEF TableNext, ClientStep, LaunchStep, KillStep, WaiterStep

\* The type invariant holds in every reachable state of the table.
THEOREM TypeCorrect == TableSpec => []TableTypeOK
  <1>1. TableInit => TypeInv
    BY InitInv DEF TableInv
  <1> QED
    BY <1>1, TypeStep, PTL DEF TableSpec, TypeInv

-----------------------------------------------------------------------------
(* The step lemma: one part of the invariant at a time, one case per action *)

\* The facts that the cases below use about the state before a step.
LEMMA InvParts ==
  TableInv => /\ TableTypeOK /\ TypeInv /\ FreshIDs /\ Launching /\ Naming
              /\ Killing /\ Waiting /\ Claims /\ NameIndexSound /\ RunningNameResolves
              /\ HookKept
  BY DEF TableInv, TypeInv

\* Taking an ID, failing to start and starting touch no session of the table.
LEMMA BeginLaunchInv ==
  ASSUME TableInv, TypeInv', NEW c \in Clients,
         BeginLaunchStep(c) \/ LaunchFails(c) \/ StartProcess(c)
  PROVE  TableInv'
  <1> USE NamesAssumption, MaxIDAssumption, InvParts
      DEF TableTypeOK, Ids, NoId, IdleClient, Request, ClientState
  <1>0. /\ UNCHANGED <<watch, mStatus, mName, mDone, hookSent, waiter, nameIndex, hooks>>
        /\ nextID' \in {nextID, nextID + 1}
        /\ \A d \in Clients \ {c} : client'[d] = client[d]
        /\ nextID \in Int /\ client[c].pc \in {"idle", "start"}
        /\ client'[c].targets = {} \/ client'[c].targets = client[c].targets
        /\ client'[c].pc \in {"idle", "start", "insert"}
        /\ \/ client'[c].pc = "idle"
           \/ client'[c].id = nextID /\ nextID' = nextID + 1
           \/ client'[c].id = client[c].id /\ InLaunch(c)
    BY DEF BeginLaunchStep, BeginLaunch, LaunchFails, StartProcess, sessionVars, InLaunch
  <1>a. \A d \in Clients : client'[d].pc \in {"setname", "meta", "release", "hook"} =>
          d # c /\ client'[d] = client[d]
    BY <1>0
  <1>b. \A d \in Clients : client[d].pc \in {"setname", "meta", "release", "hook"} =>
          d # c /\ client'[d] = client[d]
    BY <1>0
  <1> HIDE DEF TableTypeOK, ClientState
  <1>1. FreshIDs'
    BY <1>0 DEF FreshIDs
  <1>2. Naming'
    BY <1>0, <1>a DEF Naming, Known
  <1>3. Killing'
    BY <1>0, <1>a DEF Killing, Known, Running
  <1>4. Waiting'
    BY <1>0 DEF Waiting
  <1>5. Claims'
    BY <1>0, <1>a DEF Claims, OneClaim, ClientClaims, WaiterClaims
  <1>6. NameIndexSound'
    BY <1>0 DEF NameIndexSound, Known
  <1>7. RunningNameResolves'
    BY <1>0 DEF RunningNameResolves, Running
  <1>8. HookKept'
    BY <1>0, <1>a, <1>b DEF HookKept, ExitHookNotLost, HookAccounted, ClientClaims, WaiterClaims
  <1>9. Launching'
    <2>1. ASSUME NEW d \in Clients, InLaunch(d)'
          PROVE  /\ client'[d].id < nextID' /\ watch'[client'[d].id] = "none"
                 /\ \/ client'[d].id = nextID /\ d = c
                    \/ InLaunch(d) /\ client'[d].id = client[d].id
      <3>1. CASE d # c
        BY <1>0, <2>1, <3>1 DEF Launching, InLaunch, TypeInv
      <3>2. CASE d = c /\ client'[c].id = nextID /\ nextID' = nextID + 1
        BY <1>0, <2>1, <3>2 DEF FreshIDs, InLaunch, TypeInv
      <3>3. CASE d = c /\ client'[c].id = client[c].id /\ InLaunch(c)
        BY <1>0, <2>1, <3>3 DEF Launching, InLaunch, TypeInv
      <3> QED
        BY <1>0, <2>1, <3>1, <3>2, <3>3 DEF InLaunch
    <2> SUFFICES ASSUME NEW d \in Clients, NEW e \in Clients \ {d},
                        InLaunch(d)', InLaunch(e)'
                 PROVE  client'[d].id # client'[e].id
      BY <2>1 DEF Launching
    <2>2. \A f \in Clients : InLaunch(f) => client[f].id \in Ids /\ client[f].id < nextID
      BY DEF Launching, InLaunch, TypeInv
    <2>3. InLaunch(d) /\ InLaunch(e) => client[d].id # client[e].id
      BY DEF Launching
    <2> QED
      BY <1>0, <2>1, <2>2, <2>3
  <1> QED
    BY <1>1, <1>2, <1>3, <1>4, <1>5, <1>6, <1>7, <1>8, <1>9 DEF TableInv

\* A Launch inserts a session whose ID has no trace, whatever was inserted before.
LEMMA InsertSessionInv ==
  ASSUME TableInv, TypeInv', NEW c \in Clients, InsertSessionStep(c)
  PROVE  TableInv'
  <1> DEFINE id == client[c].id
  <1> USE NamesAssumption, MaxIDAssumption, InvParts
      DEF TableTypeOK, Ids, NoId, IdleClient, Request, NoWaiter, WaiterAt,
          ClientState, WaiterState, Status
  <1>0. /\ id \in Ids /\ id < nextID /\ watch[id] = "none" /\ client[c].pc = "insert"
        /\ \A d \in Clients \ {c} : InLaunch(d) => client[d].id # id
    BY DEF InsertSessionStep, InsertSession, Launching, InLaunch, TypeInv
  <1>a. /\ watch' = [watch EXCEPT ![id] = "running"]
        /\ waiter' = [waiter EXCEPT ![id] = [pc |-> "wait", name |-> NoName, send |-> FALSE]]
        /\ \A d \in Clients \ {c} : client'[d] = client[d]
        /\ client'[c].pc \in {"idle", "setname"} /\ client'[c].targets \subseteq client[c].targets
        /\ client'[c].pc = "setname" => client'[c].id = id
        /\ UNCHANGED <<nextID, mName, mDone, hookSent, nameIndex, hooks>>
    BY DEF InsertSessionStep, InsertSession
  <1> HIDE DEF id
  <1>b. \A d \in Clients : client[d].pc \in {"setname", "meta", "release", "hook"} =>
          d # c /\ client'[d] = client[d]
    BY <1>0, <1>a
  <1>c. \A d \in Clients : client'[d].pc \in {"meta", "release", "hook", "start", "insert"} =>
          d # c /\ client'[d] = client[d]
    BY <1>a
  <1> HIDE DEF TableTypeOK, ClientState
  <1>1. FreshIDs'
    BY <1>0, <1>a DEF FreshIDs, TableTypeOK
  <1>2. Naming'
    <2> SUFFICES ASSUME NEW d \in Clients, client'[d].pc = "setname"
                 PROVE  /\ watch'[client'[d].id] # "none" /\ client'[d].id \in Ids
                        /\ mName'[client'[d].id] = NoName
                        /\ d # c => client'[d].id # id
                        /\ \A e \in Clients \ {d} :
                             client'[e].pc = "setname" => client'[e].id # client'[d].id
      BY DEF Naming, Known
    <2>1. \A e \in Clients \ {c} : client[e].pc = "setname" => client[e].id \in Ids /\ client[e].id # id
      BY <1>0 DEF Naming, Known
    <2>2. watch \in [Ids -> Status \cup {"none"}]
      BY DEF TableTypeOK
    <2>3. CASE d = c
      BY <1>0, <1>a, <2>1, <2>2, <2>3 DEF FreshIDs
    <2>4. CASE d # c
      BY <1>0, <1>a, <2>1, <2>2, <2>4 DEF Naming, Known
    <2> QED
      BY <2>3, <2>4
  <1>3. Killing'
    BY <1>0, <1>a, <1>c DEF Killing, Known, Running, TableTypeOK
  <1>4. Waiting'
    BY <1>0, <1>a DEF FreshIDs, Waiting, TableTypeOK
  <1>5. Claims'
    BY <1>0, <1>a, <1>c DEF FreshIDs, Claims, OneClaim, ClientClaims, WaiterClaims, TableTypeOK
  <1>6. NameIndexSound'
    BY <1>0, <1>a DEF NameIndexSound, Known, TableTypeOK
  <1>7. RunningNameResolves'
    BY <1>0, <1>a DEF FreshIDs, RunningNameResolves, Running, TableTypeOK
  <1>8. HookKept'
    <2> SUFFICES ASSUME NEW j \in Ids PROVE
          /\ (hookSent[j] \/ waiter[j].pc = "done" => HookAccounted(j))'
          /\ (waiter[j].pc \in {"release", "hook", "done"} => hookSent[j])'
      BY DEF HookKept, ExitHookNotLost
    <2>1. CASE j = id
      BY <1>0, <1>a, <2>1 DEF FreshIDs, TableTypeOK
    <2>2. CASE j # id
      <3>1. \A d \in Clients : ClientClaims(d, j) => ClientClaims(d, j)'
        BY <1>b DEF ClientClaims
      <3>2. HookAccounted(j) => HookAccounted(j)'
        BY <1>a, <2>2, <3>1 DEF HookAccounted, WaiterClaims, TableTypeOK
      <3> QED
        BY <1>a, <2>2, <3>2 DEF HookKept, ExitHookNotLost, TableTypeOK
    <2> QED
      BY <2>1, <2>2
  <1>9. Launching'
    BY <1>0, <1>a, <1>c DEF Launching, InLaunch, TypeInv, TableTypeOK
  <1> QED
    BY <1>1, <1>2, <1>3, <1>4, <1>5, <1>6, <1>7, <1>8, <1>9 DEF TableInv

\* SetName gives a free name to a session that has none.
LEMMA SetNameInv ==
  ASSUME TableInv, TypeInv', NEW c \in Clients, SetName(c)
  PROVE  TableInv'
  <1> USE NamesAssumption, MaxIDAssumption, InvParts
      DEF SetName, IndexName, TableTypeOK, TypeInv, Ids, NoId, IdleClient, Request,
          NoWaiter, WaiterAt, ClientState, WaiterState, Status, sessionVars
  <1>1. FreshIDs'
    <2>1. watch[client[c].id] # "none" /\ mName' = [mName EXCEPT ![client[c].id] = client[c].name]
          /\ UNCHANGED <<nextID, watch, mDone, hookSent, hooks, waiter>>
      BY DEF Naming, Known
    <2> HIDE DEF SetName
    <2> QED
      BY <2>1 DEF FreshIDs
  <1>2. Naming'
    BY DEF Naming, Known
  <1>3. Killing'
    BY DEF Killing, Known, Running
  <1>4. Waiting'
    BY DEF Waiting
  <1>5. Claims'
    BY DEF Claims, OneClaim, ClientClaims, WaiterClaims
  <1>6. NameIndexSound'
    BY DEF NameIndexSound, Known, Naming
  <1>7. RunningNameResolves'
    BY DEF RunningNameResolves, Running, Naming, Known
  <1>8. HookKept'
    BY DEF HookKept, ExitHookNotLost, HookAccounted, ClientClaims, WaiterClaims
  <1>9. Launching'
    BY DEF Launching, InLaunch, Killing, Waiting, Known
  <1> QED
    BY <1>1, <1>2, <1>3, <1>4, <1>5, <1>6, <1>7, <1>8, <1>9 DEF TableInv

\* A failed SetName turns into a Kill of the same session.
LEMMA SetNameFailsInv ==
  ASSUME TableInv, TypeInv', NEW c \in Clients, SetNameFails(c)
  PROVE  TableInv'
  <1> USE NamesAssumption, MaxIDAssumption, InvParts
      DEF SetNameFails, TableTypeOK, TypeInv, Ids, NoId, IdleClient, Request,
          NoWaiter, WaiterAt, ClientState, WaiterState, Status, sessionVars
  <1>1. FreshIDs'
    BY DEF FreshIDs
  <1>2. Naming'
    BY DEF Naming, Known
  <1>3. Killing'
    BY DEF Killing, Known, Running, Naming
  <1>4. Waiting'
    BY DEF Waiting
  <1>5. Claims'
    BY DEF Claims, OneClaim, ClientClaims, WaiterClaims
  <1>6. NameIndexSound'
    BY DEF NameIndexSound, Known
  <1>7. RunningNameResolves'
    BY DEF RunningNameResolves, Running
  <1>8. HookKept'
    BY DEF HookKept, ExitHookNotLost, HookAccounted, ClientClaims, WaiterClaims
  <1>9. Launching'
    BY DEF Launching, InLaunch, Killing, Waiting, Known
  <1> QED
    BY <1>1, <1>2, <1>3, <1>4, <1>5, <1>6, <1>7, <1>8, <1>9 DEF TableInv

\* The requests that begin a Kill pick sessions of the table.
LEMMA StartKillInv ==
  ASSUME TableInv, TypeInv', NEW c \in Clients, KillOne(c) \/ KillAll(c) \/ KillByTags(c)
  PROVE  TableInv'
  <1> PICK ids \in SUBSET Known : StartKill(c, ids)
    BY DEF KillOne, KillAll, KillByTags, Known, Running
  <1> USE NamesAssumption, MaxIDAssumption, InvParts
      DEF StartKill, TableTypeOK, TypeInv, Ids, NoId, IdleClient, Request,
          NoWaiter, WaiterAt, ClientState, WaiterState, Status, sessionVars
  <1>1. FreshIDs'
    BY DEF FreshIDs
  <1>2. Naming'
    BY DEF Naming, Known
  <1>3. Killing'
    <2> SUFFICES ASSUME NEW d \in Clients PROVE
          /\ client'[d].targets \subseteq Known
          /\ client'[d].pc \in {"meta", "release", "hook"} =>
               client'[d].id \in Known \ Running
      BY DEF Killing, Known, Running
    <2>1. CASE d = c
      BY <2>1 DEF Killing
    <2>2. CASE d # c
      BY <2>2 DEF Killing
    <2> QED
      BY <2>1, <2>2
  <1>4. Waiting'
    BY DEF Waiting
  <1>5. Claims'
    BY DEF Claims, OneClaim, ClientClaims, WaiterClaims
  <1>6. NameIndexSound'
    BY DEF NameIndexSound, Known
  <1>7. RunningNameResolves'
    BY DEF RunningNameResolves, Running
  <1>8. HookKept'
    BY DEF HookKept, ExitHookNotLost, HookAccounted, ClientClaims, WaiterClaims
  <1>9. Launching'
    BY DEF Launching, InLaunch, Killing, Waiting, Known
  <1> QED
    BY <1>1, <1>2, <1>3, <1>4, <1>5, <1>6, <1>7, <1>8, <1>9 DEF TableInv

\* Kill takes its session out of Running.
LEMMA KillMarkInv ==
  ASSUME TableInv, TypeInv', NEW c \in Clients, KillMark(c)
  PROVE  TableInv'
  <1> USE NamesAssumption, MaxIDAssumption, InvParts
      DEF KillMark, TableTypeOK, TypeInv, Ids, NoId, IdleClient, Request,
          NoWaiter, WaiterAt, ClientState, WaiterState, Status, sessionVars
  <1>1. FreshIDs'
    BY DEF FreshIDs, Killing, Known
  <1>2. Naming'
    BY DEF Naming, Known, Killing
  <1>3. Killing'
    BY DEF Killing, Known, Running
  <1>4. Waiting'
    BY DEF Waiting, Killing, Known
  <1>5. Claims'
    BY DEF Claims, OneClaim, ClientClaims, WaiterClaims
  <1>6. NameIndexSound'
    BY DEF NameIndexSound, Known, Killing
  <1>7. RunningNameResolves'
    BY DEF RunningNameResolves, Running
  <1>8. HookKept'
    <2>1. \A d \in Clients, j \in Ids : ClientClaims(d, j) => ClientClaims(d, j)'
      BY DEF ClientClaims
    <2>2. UNCHANGED <<hooks, hookSent, waiter>>
      OBVIOUS
    <2> HIDE DEF KillMark
    <2> QED
      BY <2>1, <2>2 DEF HookKept, ExitHookNotLost, HookAccounted, WaiterClaims
  <1>9. Launching'
    BY DEF Launching, InLaunch, Killing, Waiting, Known
  <1> QED
    BY <1>1, <1>2, <1>3, <1>4, <1>5, <1>6, <1>7, <1>8, <1>9 DEF TableInv

\* Kill claims the exit hook if nobody has.
LEMMA KillMetaInv ==
  ASSUME TableInv, TypeInv', NEW c \in Clients, KillMeta(c)
  PROVE  TableInv'
  <1> USE NamesAssumption, MaxIDAssumption, InvParts
      DEF KillMeta, TableTypeOK, TypeInv, Ids, NoId, IdleClient, Request,
          NoWaiter, WaiterAt, ClientState, WaiterState, Status, sessionVars
  <1>1. FreshIDs'
    BY DEF FreshIDs, Killing, Known
  <1>2. Naming'
    BY DEF Naming, Known
  <1>3. Killing'
    BY DEF Killing, Known, Running
  <1>4. Waiting'
    BY DEF Waiting
  <1>5. Claims'
    <2> SUFFICES ASSUME NEW j \in Ids PROVE OneClaim(j)'
      BY DEF Claims
    <2>1. OneClaim(j)
      BY DEF Claims
    <2>2. CASE j # client[c].id
      BY <2>1, <2>2 DEF OneClaim, ClientClaims, WaiterClaims
    <2>3. CASE j = client[c].id
      <3>1. ASSUME NEW d \in Clients \ {c} PROVE ClientClaims(d, j)' <=> ClientClaims(d, j)
        BY DEF ClientClaims
      <3>5. client'[c] = Request("release", j, mName[j], client[c].targets, ~hookSent[j])
        BY <2>3
      <3>6. ClientClaims(c, j)' <=> ~hookSent[j]
        <4>1. client'[c].pc = "release" /\ client'[c].id = j
          BY <3>5
        <4>2. client'[c].send = ~hookSent[j]
          BY <3>5
        <4> QED
          BY <4>1, <4>2 DEF ClientClaims
      <3>2. WaiterClaims(j)' <=> WaiterClaims(j)
        BY DEF WaiterClaims
      <3>3. hookSent'[j] /\ hooks'[j] = hooks[j]
        BY <2>3
      <3>4. ClientClaims(c, j) => hookSent[j]
        BY <2>1 DEF OneClaim
      <3> QED
        BY <2>1, <3>1, <3>2, <3>3, <3>4, <3>6 DEF OneClaim
    <2> QED
      BY <2>2, <2>3
  <1>6. NameIndexSound'
    BY DEF NameIndexSound, Known
  <1>7. RunningNameResolves'
    BY DEF RunningNameResolves, Running
  <1>8. HookKept'
    <2> SUFFICES ASSUME NEW j \in Ids PROVE
          /\ (hookSent[j] \/ waiter[j].pc = "done" => HookAccounted(j))'
          /\ (waiter[j].pc \in {"release", "hook", "done"} => hookSent[j])'
      BY DEF HookKept, ExitHookNotLost
    <2>1. \A d \in Clients : ClientClaims(d, j) => ClientClaims(d, j)'
      BY DEF ClientClaims
    <2>2. HookAccounted(j) => HookAccounted(j)'
      BY <2>1 DEF HookAccounted, WaiterClaims
    <2>3. CASE hookSent[j] \/ j # client[c].id
      BY <2>2, <2>3 DEF HookKept, ExitHookNotLost
    <2>4. CASE ~hookSent[j] /\ j = client[c].id
      <3>1. client'[c] = Request("release", j, mName[j], client[c].targets, ~hookSent[j])
        BY <2>4
      <3>2. client'[c].send = ~hookSent[j]
        BY <3>1
      <3>3. client'[c].pc = "release" /\ client'[c].id = j
        BY <3>1
      <3>4. ClientClaims(c, j)' <=> ~hookSent[j]
        BY <3>2, <3>3 DEF ClientClaims
      <3> QED
        BY <2>4, <3>4 DEF HookAccounted, HookKept
    <2> QED
      BY <2>3, <2>4
  <1>9. Launching'
    BY DEF Launching, InLaunch, Killing, Waiting, Known
  <1> QED
    BY <1>1, <1>2, <1>3, <1>4, <1>5, <1>6, <1>7, <1>8, <1>9 DEF TableInv

\* Kill gives up the name of a session that is not running.
LEMMA KillReleaseInv ==
  ASSUME TableInv, TypeInv', NEW c \in Clients, KillRelease(c)
  PROVE  TableInv'
  <1> USE NamesAssumption, MaxIDAssumption, InvParts
      DEF KillRelease, ReleaseName, TableTypeOK, TypeInv, Ids, NoId, IdleClient, Request,
          NoWaiter, WaiterAt, ClientState, WaiterState, Status, sessionVars
  <1>1. FreshIDs'
    BY DEF FreshIDs
  <1>2. Naming'
    BY DEF Naming, Known
  <1>3. Killing'
    BY DEF Killing, Known, Running
  <1>4. Waiting'
    BY DEF Waiting
  <1>5. Claims'
    BY DEF Claims, OneClaim, ClientClaims, WaiterClaims
  <1>6. NameIndexSound'
    BY DEF NameIndexSound, Known
  <1>7. RunningNameResolves'
    BY DEF RunningNameResolves, Running, Killing, Known
  <1>8. HookKept'
    BY DEF HookKept, ExitHookNotLost, HookAccounted, ClientClaims, WaiterClaims
  <1>9. Launching'
    BY DEF Launching, InLaunch, Killing, Waiting, Known
  <1> QED
    BY <1>1, <1>2, <1>3, <1>4, <1>5, <1>6, <1>7, <1>8, <1>9 DEF TableInv

\* Kill calls the hook it claimed.
LEMMA KillHookInv ==
  ASSUME TableInv, TypeInv', NEW c \in Clients, KillHook(c)
  PROVE  TableInv'
  <1> USE NamesAssumption, MaxIDAssumption, InvParts
      DEF KillHook, ExitHook, TableTypeOK, TypeInv, Ids, NoId, IdleClient, Request,
          NoWaiter, WaiterAt, ClientState, WaiterState, Status, sessionVars
  <1>0. hooks' \in {hooks, [hooks EXCEPT ![client[c].id] = @ + 1]}
    OBVIOUS
  <1>1. FreshIDs'
    <2>1. \A i \in Ids : watch[i] = "none" => client[c].id # i
      BY DEF Killing, Known
    <2>2. UNCHANGED <<nextID, watch, mName, mDone, hookSent, waiter>>
      OBVIOUS
    <2> HIDE DEF KillHook
    <2> QED
      BY <1>0, <2>1, <2>2 DEF FreshIDs
  <1>2. Naming'
    BY DEF Naming, Known
  <1>3. Killing'
    BY DEF Killing, Known, Running
  <1>4. Waiting'
    BY DEF Waiting
  <1>5. Claims'
    <2> SUFFICES ASSUME NEW j \in Ids PROVE OneClaim(j)'
      BY DEF Claims
    <2>1. OneClaim(j)
      BY DEF Claims
    <2>2. CASE j # client[c].id
      <3>1. hooks'[j] = hooks[j] /\ hookSent'[j] = hookSent[j]
        BY <1>0, <2>2
      <3>2. WaiterClaims(j)' <=> WaiterClaims(j)
        BY <2>2 DEF WaiterClaims
      <3>3. \A d \in Clients : ClientClaims(d, j)' <=> ClientClaims(d, j)
        BY <2>2 DEF ClientClaims
      <3> QED
        BY <2>1, <3>1, <3>2, <3>3 DEF OneClaim
    <2>3. CASE j = client[c].id
      BY <2>1, <2>3 DEF OneClaim, ClientClaims, WaiterClaims
    <2> QED
      BY <2>2, <2>3
  <1>6. NameIndexSound'
    BY DEF NameIndexSound, Known
  <1>7. RunningNameResolves'
    BY DEF RunningNameResolves, Running
  <1>8. HookKept'
    <2> SUFFICES ASSUME NEW j \in Ids PROVE
          /\ (hookSent[j] \/ waiter[j].pc = "done" => HookAccounted(j))'
          /\ (waiter[j].pc \in {"release", "hook", "done"} => hookSent[j])'
      BY DEF HookKept, ExitHookNotLost
    <2>1. HookAccounted(j) => HookAccounted(j)'
      <3>1. CASE ClientClaims(c, j)
        <4>1. hooks[j] = 0
          BY <3>1 DEF Claims, OneClaim
        <4>2. hooks' = [hooks EXCEPT ![j] = hooks[j] + 1]
          <5>1. client[c].send /\ client[c].id = j
            BY <3>1 DEF ClientClaims
          <5> QED
            BY <5>1, Zenon
        <4> QED
          BY <4>1, <4>2 DEF HookAccounted
      <3>2. CASE ~ClientClaims(c, j)
        <4>1. \A d \in Clients : ClientClaims(d, j) => ClientClaims(d, j)'
          BY <3>2 DEF ClientClaims
        <4>2. hooks'[j] = hooks[j]
          <5>1. CASE client[c].send
            <6>1. client[c].id # j
              BY <3>2, <5>1 DEF ClientClaims
            <6> QED
              BY <1>0, <6>1
          <5>2. CASE ~client[c].send
            BY <5>2, Zenon
          <5> QED
            BY <5>1, <5>2
        <4> QED
          BY <4>1, <4>2 DEF HookAccounted, WaiterClaims
      <3> QED
        BY <3>1, <3>2
    <2> QED
      BY <2>1 DEF HookKept, ExitHookNotLost
  <1>9. Launching'
    BY DEF Launching, InLaunch, Killing, Waiting, Known
  <1> QED
    BY <1>1, <1>2, <1>3, <1>4, <1>5, <1>6, <1>7, <1>8, <1>9 DEF TableInv

\* The child process is no part of the invariant.
LEMMA ProcessExitsInv ==
  ASSUME TableInv, TypeInv', NEW i \in Ids, ProcessExits(i)
  PROVE  TableInv'
  <1> USE NamesAssumption, MaxIDAssumption, InvParts
      DEF ProcessExits, TableTypeOK, TypeInv, Ids, NoId, IdleClient, Request,
          NoWaiter, WaiterAt, ClientState, WaiterState, Status, sessionVars
  <1>1. FreshIDs'
    BY DEF FreshIDs
  <1>2. Naming'
    BY DEF Naming, Known
  <1>3. Killing'
    BY DEF Killing, Known, Running
  <1>4. Waiting'
    BY DEF Waiting
  <1>5. Claims'
    BY DEF Claims, OneClaim, ClientClaims, WaiterClaims
  <1>6. NameIndexSound'
    BY DEF NameIndexSound, Known
  <1>7. RunningNameResolves'
    BY DEF RunningNameResolves, Running
  <1>8. HookKept'
    BY DEF HookKept, ExitHookNotLost, HookAccounted, ClientClaims, WaiterClaims
  <1>9. Launching'
    BY DEF Launching, InLaunch, Killing, Waiting, Known
  <1> QED
    BY <1>1, <1>2, <1>3, <1>4, <1>5, <1>6, <1>7, <1>8, <1>9 DEF TableInv

\* The waiter of a running or killed session records the exit code.
LEMMA WaiterExitInv ==
  ASSUME TableInv, TypeInv', NEW i \in Ids, WaiterExit(i)
  PROVE  TableInv'
  <1> USE NamesAssumption, MaxIDAssumption, InvParts
      DEF WaiterExit, TableTypeOK, TypeInv, Ids, NoId, IdleClient, Request,
          NoWaiter, WaiterAt, ClientState, WaiterState, Status, sessionVars
  <1>1. FreshIDs'
    BY DEF FreshIDs, Waiting
  <1>2. Naming'
    BY DEF Naming, Known
  <1>3. Killing'
    BY DEF Killing, Known, Running
  <1>4. Waiting'
    BY DEF Waiting
  <1>5. Claims'
    BY DEF Claims, OneClaim, ClientClaims, WaiterClaims
  <1>6. NameIndexSound'
    BY DEF NameIndexSound, Known
  <1>7. RunningNameResolves'
    BY DEF RunningNameResolves, Running
  <1>8. HookKept'
    BY DEF HookKept, ExitHookNotLost, HookAccounted, ClientClaims, WaiterClaims
  <1>9. Launching'
    BY DEF Launching, InLaunch, Killing, Waiting, Known
  <1> QED
    BY <1>1, <1>2, <1>3, <1>4, <1>5, <1>6, <1>7, <1>8, <1>9 DEF TableInv

\* The waiter records the result.
LEMMA WaiterResultInv ==
  ASSUME TableInv, TypeInv', NEW i \in Ids, WaiterResult(i)
  PROVE  TableInv'
  <1> USE NamesAssumption, MaxIDAssumption, InvParts
      DEF WaiterResult, TableTypeOK, TypeInv, Ids, NoId, IdleClient, Request,
          NoWaiter, WaiterAt, ClientState, WaiterState, Status, sessionVars
  <1>1. FreshIDs'
    BY DEF FreshIDs, Waiting
  <1>2. Naming'
    BY DEF Naming, Known
  <1>3. Killing'
    BY DEF Killing, Known, Running
  <1>4. Waiting'
    BY DEF Waiting
  <1>5. Claims'
    BY DEF Claims, OneClaim, ClientClaims, WaiterClaims
  <1>6. NameIndexSound'
    BY DEF NameIndexSound, Known
  <1>7. RunningNameResolves'
    BY DEF RunningNameResolves, Running
  <1>8. HookKept'
    BY DEF HookKept, ExitHookNotLost, HookAccounted, ClientClaims, WaiterClaims
  <1>9. Launching'
    BY DEF Launching, InLaunch, Killing, Waiting, Known
  <1> QED
    BY <1>1, <1>2, <1>3, <1>4, <1>5, <1>6, <1>7, <1>8, <1>9 DEF TableInv

\* The waiter takes its session out of Running.
LEMMA WaiterStatusInv ==
  ASSUME TableInv, TypeInv', NEW i \in Ids, WaiterStatus(i)
  PROVE  TableInv'
  <1> USE NamesAssumption, MaxIDAssumption, InvParts
      DEF WaiterStatus, TableTypeOK, TypeInv, Ids, NoId, IdleClient, Request,
          NoWaiter, WaiterAt, ClientState, WaiterState, Status, sessionVars
  <1>1. FreshIDs'
    BY DEF FreshIDs, Waiting
  <1>2. Naming'
    BY DEF Naming, Known, Waiting
  <1>3. Killing'
    BY DEF Killing, Known, Running, Waiting
  <1>4. Waiting'
    BY DEF Waiting
  <1>5. Claims'
    BY DEF Claims, OneClaim, ClientClaims, WaiterClaims
  <1>6. NameIndexSound'
    BY DEF NameIndexSound, Known, Waiting
  <1>7. RunningNameResolves'
    BY DEF RunningNameResolves, Running
  <1>8. HookKept'
    BY DEF HookKept, ExitHookNotLost, HookAccounted, ClientClaims, WaiterClaims
  <1>9. Launching'
    BY DEF Launching, InLaunch, Killing, Waiting, Known
  <1> QED
    BY <1>1, <1>2, <1>3, <1>4, <1>5, <1>6, <1>7, <1>8, <1>9 DEF TableInv

\* The waiter claims the exit hook if no Kill has.
LEMMA WaiterClaimInv ==
  ASSUME TableInv, TypeInv', NEW i \in Ids, WaiterClaim(i)
  PROVE  TableInv'
  <1> USE NamesAssumption, MaxIDAssumption, InvParts
      DEF WaiterClaim, TableTypeOK, TypeInv, Ids, NoId, IdleClient, Request,
          NoWaiter, WaiterAt, ClientState, WaiterState, Status, sessionVars
  <1>1. FreshIDs'
    <2>1. watch[i] # "none"
      BY DEF Waiting
    <2>2. /\ UNCHANGED <<nextID, watch, mName, mDone, hooks>>
          /\ \A j \in Ids : j # i => hookSent'[j] = hookSent[j] /\ waiter'[j] = waiter[j]
      OBVIOUS
    <2> HIDE DEF WaiterClaim
    <2> QED
      BY <2>1, <2>2 DEF FreshIDs
  <1>2. Naming'
    BY DEF Naming, Known
  <1>3. Killing'
    BY DEF Killing, Known, Running
  <1>4. Waiting'
    BY DEF Waiting
  <1>5. Claims'
    <2> SUFFICES ASSUME NEW j \in Ids PROVE OneClaim(j)'
      BY DEF Claims
    <2>1. OneClaim(j)
      BY DEF Claims
    <2>2. CASE j # i
      BY <2>1, <2>2 DEF OneClaim, ClientClaims, WaiterClaims
    <2>3. CASE j = i
      <3>1. \A d \in Clients : ClientClaims(d, j)' <=> ClientClaims(d, j)
        BY DEF ClientClaims
      <3>2. WaiterClaims(j)' <=> ~hookSent[j]
        BY <2>3 DEF WaiterClaims
      <3>3. hookSent'[j] /\ hooks'[j] = hooks[j]
        BY <2>3
      <3> QED
        BY <2>1, <3>1, <3>2, <3>3 DEF OneClaim
    <2> QED
      BY <2>2, <2>3
  <1>6. NameIndexSound'
    BY DEF NameIndexSound, Known
  <1>7. RunningNameResolves'
    BY DEF RunningNameResolves, Running
  <1>8. HookKept'
    <2> SUFFICES ASSUME NEW j \in Ids PROVE
          /\ (hookSent[j] \/ waiter[j].pc = "done" => HookAccounted(j))'
          /\ (waiter[j].pc \in {"release", "hook", "done"} => hookSent[j])'
      BY DEF HookKept, ExitHookNotLost
    <2>1. HookAccounted(j) => HookAccounted(j)'
      BY DEF HookAccounted, ClientClaims, WaiterClaims
    <2>2. CASE hookSent[j] \/ j # i
      BY <2>1, <2>2 DEF HookKept, ExitHookNotLost
    <2>3. CASE ~hookSent[j] /\ j = i
      <3>1. waiter'[j] = WaiterAt("release", mName[j], ~hookSent[j])
        BY <2>3
      <3>2. waiter'[j].send = ~hookSent[j]
        BY <3>1
      <3>3. WaiterClaims(j)'
        BY <2>3, <3>1, <3>2 DEF WaiterClaims
      <3> QED
        BY <2>3, <3>3 DEF HookAccounted
    <2> QED
      BY <2>2, <2>3
  <1>9. Launching'
    BY DEF Launching, InLaunch, Killing, Waiting, Known
  <1> QED
    BY <1>1, <1>2, <1>3, <1>4, <1>5, <1>6, <1>7, <1>8, <1>9 DEF TableInv

\* The waiter gives up the name of a session that is not running.
LEMMA WaiterReleaseInv ==
  ASSUME TableInv, TypeInv', NEW i \in Ids, WaiterRelease(i)
  PROVE  TableInv'
  <1> USE NamesAssumption, MaxIDAssumption, InvParts
      DEF WaiterRelease, ReleaseName, TableTypeOK, TypeInv, Ids, NoId, IdleClient, Request,
          NoWaiter, WaiterAt, ClientState, WaiterState, Status, sessionVars
  <1>1. FreshIDs'
    BY DEF FreshIDs, Waiting
  <1>2. Naming'
    BY DEF Naming, Known
  <1>3. Killing'
    BY DEF Killing, Known, Running
  <1>4. Waiting'
    BY DEF Waiting
  <1>5. Claims'
    BY DEF Claims, OneClaim, ClientClaims, WaiterClaims
  <1>6. NameIndexSound'
    BY DEF NameIndexSound, Known
  <1>7. RunningNameResolves'
    BY DEF RunningNameResolves, Running, Waiting
  <1>8. HookKept'
    BY DEF HookKept, ExitHookNotLost, HookAccounted, ClientClaims, WaiterClaims
  <1>9. Launching'
    BY DEF Launching, InLaunch, Killing, Waiting, Known
  <1> QED
    BY <1>1, <1>2, <1>3, <1>4, <1>5, <1>6, <1>7, <1>8, <1>9 DEF TableInv

\* The waiter calls the hook it claimed.
LEMMA WaiterHookInv ==
  ASSUME TableInv, TypeInv', NEW i \in Ids, WaiterHook(i)
  PROVE  TableInv'
  <1> USE NamesAssumption, MaxIDAssumption, InvParts
      DEF WaiterHook, ExitHook, TableTypeOK, TypeInv, Ids, NoId, IdleClient, Request,
          NoWaiter, WaiterAt, ClientState, WaiterState, Status, sessionVars
  <1>0. \A j \in Ids \ {i} : hooks'[j] = hooks[j] /\ waiter'[j] = waiter[j]
    <2>1. CASE waiter[i].send
      <3>1. hooks' = [hooks EXCEPT ![i] = hooks[i] + 1]
        BY <2>1, Zenon
      <3> QED
        BY <3>1
    <2>2. CASE ~waiter[i].send
      BY <2>2
    <2> QED
      BY <2>1, <2>2
  <1>1. FreshIDs'
    <2>1. watch[i] # "none"
      BY DEF Waiting
    <2> QED
      BY <2>1, <1>0 DEF FreshIDs
  <1>2. Naming'
    BY DEF Naming, Known
  <1>3. Killing'
    BY DEF Killing, Known, Running
  <1>4. Waiting'
    BY DEF Waiting
  <1>5. Claims'
    <2> SUFFICES ASSUME NEW j \in Ids PROVE OneClaim(j)'
      BY DEF Claims
    <2>1. OneClaim(j)
      BY DEF Claims
    <2>2. CASE j # i
      <3>1. hooks'[j] = hooks[j] /\ hookSent'[j] = hookSent[j]
        BY <1>0, <2>2
      <3>2. WaiterClaims(j)' <=> WaiterClaims(j)
        BY <2>2 DEF WaiterClaims
      <3>3. \A d \in Clients : ClientClaims(d, j)' <=> ClientClaims(d, j)
        BY <2>2 DEF ClientClaims
      <3> QED
        BY <2>1, <3>1, <3>2, <3>3 DEF OneClaim
    <2>3. CASE j = i
      BY <2>1, <2>3 DEF OneClaim, ClientClaims, WaiterClaims
    <2> QED
      BY <2>2, <2>3
  <1>6. NameIndexSound'
    BY DEF NameIndexSound, Known
  <1>7. RunningNameResolves'
    BY DEF RunningNameResolves, Running
  <1>8. HookKept'
    <2> SUFFICES ASSUME NEW j \in Ids PROVE
          /\ (hookSent[j] \/ waiter[j].pc = "done" => HookAccounted(j))'
          /\ (waiter[j].pc \in {"release", "hook", "done"} => hookSent[j])'
      BY DEF HookKept, ExitHookNotLost
    <2>1. HookAccounted(j) => HookAccounted(j)'
      <3>1. CASE j = i /\ waiter[i].send
        <4>1. hooks[j] = 0
          BY <3>1 DEF Claims, OneClaim, WaiterClaims
        <4>2. hooks' = [hooks EXCEPT ![j] = hooks[j] + 1]
          BY <3>1, Zenon
        <4> QED
          BY <4>1, <4>2 DEF HookAccounted
      <3>2. CASE j # i
        BY <1>0, <3>2 DEF HookAccounted, ClientClaims, WaiterClaims
      <3>3. CASE j = i /\ ~waiter[i].send
        BY <3>3 DEF HookAccounted, ClientClaims, WaiterClaims
      <3> QED
        BY <3>1, <3>2, <3>3
    <2> QED
      BY <2>1 DEF HookKept, ExitHookNotLost
  <1>9. Launching'
    BY DEF Launching, InLaunch, Killing, Waiting, Known
  <1> QED
    BY <1>1, <1>2, <1>3, <1>4, <1>5, <1>6, <1>7, <1>8, <1>9 DEF TableInv

-----------------------------------------------------------------------------
(* The theorems                                                            *)

\* Every step of the table keeps the invariant.
LEMMA InvStep == TableInv /\ [TableNext]_tableVars => TableInv'
  <1> SUFFICES ASSUME TableInv, [TableNext]_tableVars PROVE TableInv'
    OBVIOUS
  <1>1. TypeInv'
    BY TypeStep DEF TableInv
  <1>2. CASE UNCHANGED tableVars
    BY <1>1, <1>2
    DEF tableVars, sessionVars, TableInv, FreshIDs, Launching, InLaunch, Naming, Killing, Waiting, Claims,
        OneClaim, ClientClaims, WaiterClaims, NameIndexSound, RunningNameResolves,
        HookKept, ExitHookNotLost, HookAccounted, Known, Running
  <1>3. ASSUME NEW c \in Clients, ClientStep(c) PROVE TableInv'
    BY <1>1, <1>3, BeginLaunchInv, InsertSessionInv, SetNameInv, SetNameFailsInv,
       StartKillInv, KillMarkInv, KillMetaInv, KillReleaseInv, KillHookInv
    DEF ClientStep, LaunchStep, KillStep
  <1>4. ASSUME NEW i \in Ids, ProcessExits(i) \/ WaiterStep(i) PROVE TableInv'
    BY <1>1, <1>4, ProcessExitsInv, WaiterExitInv, WaiterResultInv, WaiterStatusInv,
       WaiterClaimInv, WaiterReleaseInv, WaiterHookInv
    DEF WaiterStep
  <1> QED
    BY <1>2, <1>3, <1>4 DEF TableNext

\* The invariant holds in every reachable state of the table.
THEOREM Invariance == TableSpec => []TableInv
  BY InitInv, InvStep, PTL DEF TableSpec

\* In every reachable state a name in the index leads to a session that bears
\* it, whatever the number of clients, names and sessions.
THEOREM NameIndexIsSound == TableSpec => []NameIndexSound
  <1>1. TableInv => NameIndexSound
    BY DEF TableInv
  <1> QED
    BY <1>1, Invariance, PTL

\* In every reachable state a running named session is found by its name.
THEOREM RunningNamesResolve == TableSpec => []RunningNameResolves
  <1>1. TableInv => RunningNameResolves
    BY DEF TableInv
  <1> QED
    BY <1>1, Invariance, PTL

\* The exit hook of a session is called at most once, by Kill or the waiter.
THEOREM ExitHookAtMostOnce == TableSpec => []ExitHookOnce
  <1>1. TableInv => ExitHookOnce
    BY DEF TableInv, Claims, OneClaim, ExitHookOnce
  <1> QED
    BY <1>1, Invariance, PTL

\* The exit hook of an ended session has been called or is about to be.
THEOREM ExitHookIsNotLost == TableSpec => []ExitHookNotLost
  <1>1. TableInv => ExitHookNotLost
    BY DEF TableInv, HookKept
  <1> QED
    BY <1>1, Invariance, PTL

\* A completed session has its exit code and its result.
THEOREM CompletedAreRecorded == TableSpec => []CompletedIsRecorded
  <1>1. TableInv => CompletedIsRecorded
    BY DEF TableInv, TypeInv, TableTypeOK, Waiting, WaiterState, CompletedIsRecorded
  <1> QED
    BY <1>1, Invariance, PTL

-----------------------------------------------------------------------------
(* SessionTable implements SessionDirectory                                *)

AbsLife == [i \in Ids |-> Life(i)]
Stutter == UNCHANGED <<AbsLife, nameIndex, hooks>>

\* The life of a session depends on its watcher, and on the counter before that.
LEMMA LifeFacts ==
  /\ \A i \in Ids : /\ AbsLife[i] = "new" <=> watch[i] = "none" /\ ~(i < nextID)
                    /\ AbsLife[i] = "drawn" <=> watch[i] = "none" /\ i < nextID
                    /\ AbsLife[i] = "running" <=> watch[i] = "running"
                    /\ AbsLife[i] = "over" <=> watch[i] \notin {"none", "running"}
  /\ watch' = watch /\ nextID' = nextID => AbsLife' = AbsLife
  /\ \A i \in Ids, s \in Status :
       TableTypeOK /\ nextID' = nextID /\ watch' = [watch EXCEPT ![i] = s] =>
         AbsLife' = [AbsLife EXCEPT ![i] = IF s = "running" THEN "running" ELSE "over"]
  <1>1. \A i \in Ids : /\ AbsLife[i] = "new" <=> watch[i] = "none" /\ ~(i < nextID)
                       /\ AbsLife[i] = "drawn" <=> watch[i] = "none" /\ i < nextID
                       /\ AbsLife[i] = "running" <=> watch[i] = "running"
                       /\ AbsLife[i] = "over" <=> watch[i] \notin {"none", "running"}
    BY DEF AbsLife, Life
  <1>2. watch' = watch /\ nextID' = nextID => AbsLife' = AbsLife
    BY DEF AbsLife, Life
  <1>3. ASSUME NEW i \in Ids, NEW s \in Status, TableTypeOK, nextID' = nextID,
               watch' = [watch EXCEPT ![i] = s]
        PROVE  AbsLife' = [AbsLife EXCEPT ![i] = IF s = "running" THEN "running" ELSE "over"]
    BY <1>3 DEF AbsLife, Life, TableTypeOK, Status
  <1> QED
    BY <1>1, <1>2, <1>3

\* Whoever sets a watcher to an end ends the session, or it was over.
LEMMA EndsOrStutters ==
  ASSUME TableTypeOK, NEW i \in Ids, watch[i] # "none",
         NEW s \in {"killed", "completed"}, watch' = [watch EXCEPT ![i] = s],
         UNCHANGED <<nextID, nameIndex, hooks>>
  PROVE  Directory!Next \/ Stutter
  <1>1. AbsLife' = [AbsLife EXCEPT ![i] = "over"]
    BY LifeFacts DEF Status
  <1>2. CASE watch[i] = "running"
    <2>1. Directory!End(i)
      BY <1>1, <1>2, LifeFacts DEF Directory!End, AbsLife
    <2> QED
      BY <2>1 DEF Directory!Next
  <1>3. CASE watch[i] # "running"
    <2>1. AbsLife[i] = "over"
      BY <1>3, LifeFacts
    <2>2. AbsLife' = AbsLife
      BY <1>1, <2>1 DEF AbsLife
    <2> QED
      BY <2>2 DEF Stutter
  <1> QED
    BY <1>2, <1>3

\* releaseName frees the name of a session that is over, or nothing.
LEMMA FreesOrStutters ==
  ASSUME TableTypeOK, NEW i \in Ids, watch[i] \notin {"none", "running"},
         nameIndex' = ReleaseName(i), UNCHANGED <<nextID, watch, hooks>>
  PROVE  Directory!Next \/ Stutter
  <1>1. AbsLife' = AbsLife /\ AbsLife[i] = "over"
    BY LifeFacts
  <1>2. CASE mName[i] # NoName /\ nameIndex[mName[i]] = i
    <2>1. mName[i] \in Names
      BY <1>2 DEF TableTypeOK
    <2>2. nameIndex' = [nameIndex EXCEPT ![mName[i]] = NoId]
      BY <1>2 DEF ReleaseName
    <2>3. Directory!Free(i, mName[i])
      BY <1>1, <1>2, <2>2 DEF Directory!Free, AbsLife
    <2> QED
      BY <2>1, <2>3 DEF Directory!Next
  <1>3. CASE ~(mName[i] # NoName /\ nameIndex[mName[i]] = i)
    BY <1>1, <1>3 DEF ReleaseName, Stutter
  <1> QED
    BY <1>2, <1>3

\* The one call of the exit hook tells the end of a session that is over.
LEMMA TellsOrStutters ==
  ASSUME TableTypeOK, NEW i \in Ids, watch[i] \notin {"none", "running"},
         \/ hooks[i] = 0 /\ hooks' = [hooks EXCEPT ![i] = @ + 1]
         \/ UNCHANGED hooks,
         UNCHANGED <<nextID, watch, nameIndex>>
  PROVE  Directory!Next \/ Stutter
  <1>1. AbsLife' = AbsLife /\ AbsLife[i] = "over"
    BY LifeFacts
  <1>2. CASE hooks[i] = 0 /\ hooks' = [hooks EXCEPT ![i] = @ + 1]
    <2>1. hooks' = [hooks EXCEPT ![i] = 1]
      BY <1>2 DEF TableTypeOK
    <2>2. Directory!Tell(i)
      BY <1>1, <1>2, <2>1 DEF Directory!Tell, AbsLife
    <2> QED
      BY <2>2 DEF Directory!Next
  <1>3. CASE UNCHANGED hooks
    BY <1>1, <1>3 DEF Stutter
  <1> QED
    BY <1>2, <1>3

\* Taking an ID draws the next number.
LEMMA BeginLaunchDraws ==
  ASSUME TableInv, NEW c \in Clients, BeginLaunchStep(c)
  PROVE  Directory!Next
  <1> USE InvParts
  <1>1. PICK i \in Ids : i = nextID
    BY DEF BeginLaunchStep, BeginLaunch
  <1>2. nextID' = i + 1 /\ UNCHANGED <<watch, nameIndex, hooks>>
    BY <1>1 DEF BeginLaunchStep, BeginLaunch, sessionVars
  <1>3. watch[i] = "none" /\ \A j \in Ids : j >= i => watch[j] = "none"
    BY <1>1, MaxIDAssumption DEF FreshIDs, Ids, TableTypeOK
  <1>4. AbsLife[i] = "new" /\ \A j \in Ids : AbsLife[j] # "new" => j < i
    BY <1>1, <1>3, MaxIDAssumption DEF AbsLife, Life, Ids
  <1>5. AbsLife' = [AbsLife EXCEPT ![i] = "drawn"]
    <2>1. \A j \in Ids : j < nextID' <=> j < nextID \/ j = i
      BY <1>1, <1>2, MaxIDAssumption, InvParts DEF Ids, TableTypeOK
    <2>2. ASSUME NEW j \in Ids PROVE Life(j)' = IF j = i THEN "drawn" ELSE Life(j)
      BY <1>1, <1>2, <1>3, <2>1 DEF Life
    <2> QED
      BY <2>2 DEF AbsLife
  <1>6. Directory!Draw(i)
    BY <1>2, <1>4, <1>5 DEF Directory!Draw, AbsLife
  <1> QED
    BY <1>6 DEF Directory!Next

\* An insertion launches under a number that was drawn, and a name goes to a
\* session without one.
LEMMA LaunchesOrTakes ==
  ASSUME TableInv, NEW c \in Clients, InsertSessionStep(c) \/ SetName(c)
  PROVE  Directory!Next
  <1> USE InvParts
  <1>1. CASE InsertSessionStep(c)
    <2>1. PICK i \in Ids : /\ i = client[c].id /\ watch[i] = "none" /\ i < nextID
                           /\ watch' = [watch EXCEPT ![i] = "running"]
                           /\ UNCHANGED <<nextID, nameIndex, hooks>>
      BY <1>1 DEF InsertSessionStep, InsertSession, Launching, InLaunch, TypeInv
    <2>2. AbsLife' = [AbsLife EXCEPT ![i] = "running"] /\ AbsLife[i] = "drawn"
      BY <2>1, LifeFacts DEF Status
    <2>3. Directory!Launch(i)
      BY <2>1, <2>2 DEF Directory!Launch, AbsLife
    <2> QED
      BY <2>3 DEF Directory!Next
  <1>2. CASE SetName(c)
    <2> DEFINE i == client[c].id
               name == client[c].name
    <2>1. /\ i \in Ids /\ name \in Names /\ watch[i] # "none" /\ mName[i] = NoName
      BY <1>2 DEF SetName, TypeInv, Naming, Known
    <2>2. /\ nameIndex[name] \in {NoId, i} /\ UNCHANGED <<nextID, watch, hooks>>
          /\ nameIndex' = IndexName(i, name)
      BY <1>2 DEF SetName
    <2>3. \A n \in Names : nameIndex[n] # i /\ n # mName[i]
      BY <2>1, NamesAssumption DEF NameIndexSound, Ids, NoId
    <2>4. nameIndex' = [n \in Names |-> IF n = name THEN i
                                        ELSE IF nameIndex[n] = i THEN NoId ELSE nameIndex[n]]
      BY <2>2, <2>3 DEF IndexName
    <2>5. AbsLife' = AbsLife /\ AbsLife[i] \in {"running", "over"}
      BY <2>1, <2>2, LifeFacts
    <2> HIDE DEF i, name
    <2>6. Directory!Take(i, name)
      BY <2>2, <2>4, <2>5 DEF Directory!Take, AbsLife
    <2> QED
      BY <2>1, <2>6 DEF Directory!Next
  <1> QED
    BY <1>1, <1>2

\* Every step of the table is a step of the directory, or changes nothing in it.
LEMMA DirectoryStep ==
  ASSUME TableInv, [TableNext]_tableVars
  PROVE  Directory!Next \/ Stutter
  <1> USE InvParts
  <1>1. CASE UNCHANGED tableVars
    BY <1>1, LifeFacts DEF tableVars, sessionVars, Stutter
  <1>2. ASSUME NEW c \in Clients, BeginLaunchStep(c) \/ InsertSessionStep(c) \/ SetName(c)
        PROVE  Directory!Next
    BY <1>2, BeginLaunchDraws, LaunchesOrTakes
  <1>3. ASSUME NEW c \in Clients,
               \/ LaunchFails(c) \/ StartProcess(c) \/ SetNameFails(c)
               \/ KillOne(c) \/ KillAll(c) \/ KillByTags(c) \/ KillMeta(c)
        PROVE  Stutter
    <2>1. UNCHANGED <<nextID, watch, nameIndex, hooks>>
      BY <1>3 DEF LaunchFails, StartProcess, SetNameFails, KillOne, KillAll, KillByTags, StartKill,
                  KillMeta, sessionVars
    <2> QED
      BY <2>1, LifeFacts DEF Stutter
  <1>4. ASSUME NEW c \in Clients, KillMark(c)
        PROVE  Directory!Next \/ Stutter
    <2>1. PICK i \in client[c].targets : watch' = [watch EXCEPT ![i] = "killed"]
      BY <1>4 DEF KillMark
    <2>2. i \in Ids /\ watch[i] # "none"
      BY DEF Killing, Known
    <2> QED
      BY <1>4, <2>1, <2>2, EndsOrStutters DEF KillMark
  <1>5. ASSUME NEW c \in Clients, KillRelease(c) \/ KillHook(c)
        PROVE  Directory!Next \/ Stutter
    <2>1. PICK i \in Ids : i = client[c].id /\ watch[i] \notin {"none", "running"}
      BY <1>5 DEF KillRelease, KillHook, Killing, Known, Running, TypeInv
    <2>2. CASE KillRelease(c)
      BY <2>1, <2>2, FreesOrStutters DEF KillRelease, sessionVars
    <2>3. CASE KillHook(c)
      <3>1. client[c].send => hooks[i] = 0 /\ hooks' = [hooks EXCEPT ![i] = @ + 1]
        BY <2>1, <2>3 DEF KillHook, ExitHook, Claims, OneClaim, ClientClaims
      <3>2. ~client[c].send => UNCHANGED hooks
        BY <2>3 DEF KillHook
      <3>3. UNCHANGED <<nextID, watch, nameIndex>>
        BY <2>3 DEF KillHook, sessionVars
      <3> QED
        BY <2>1, <3>1, <3>2, <3>3, TellsOrStutters
    <2> QED
      BY <1>5, <2>2, <2>3
  <1>6. ASSUME NEW i \in Ids, ProcessExits(i) \/ WaiterExit(i) \/ WaiterResult(i) \/ WaiterClaim(i)
        PROVE  Stutter
    <2>1. UNCHANGED <<nextID, watch, nameIndex, hooks>>
      BY <1>6 DEF ProcessExits, WaiterExit, WaiterResult, WaiterClaim
    <2> QED
      BY <2>1, LifeFacts DEF Stutter
  <1>7. ASSUME NEW i \in Ids, WaiterStatus(i)
        PROVE  Directory!Next \/ Stutter
    BY <1>7, EndsOrStutters DEF WaiterStatus, Waiting
  <1>8. ASSUME NEW i \in Ids, WaiterRelease(i)
        PROVE  Directory!Next \/ Stutter
    BY <1>8, FreesOrStutters DEF WaiterRelease, Waiting, sessionVars
  <1>9. ASSUME NEW i \in Ids, WaiterHook(i)
        PROVE  Directory!Next \/ Stutter
    <2>1. waiter[i].send => hooks[i] = 0 /\ hooks' = [hooks EXCEPT ![i] = @ + 1]
      BY <1>9 DEF WaiterHook, ExitHook, Claims, OneClaim, WaiterClaims
    <2>2. ~waiter[i].send => UNCHANGED hooks
      BY <1>9 DEF WaiterHook
    <2>3. watch[i] \notin {"none", "running"} /\ UNCHANGED <<nextID, watch, nameIndex>>
      BY <1>9 DEF WaiterHook, Waiting, sessionVars
    <2> QED
      BY <2>1, <2>2, <2>3, TellsOrStutters
  <1> QED
    BY <1>1, <1>2, <1>3, <1>4, <1>5, <1>6, <1>7, <1>8, <1>9
    DEF TableNext, ClientStep, LaunchStep, KillStep, WaiterStep

\* SessionTable implements SessionDirectory: a session ends once and is told of
\* once, by whichever of Kill and the waiter comes first, and no releaseName, early
\* or late, takes a name from a session that runs.
THEOREM RefinesSessionDirectory == TableSpec => ImplementsDirectory
  <1>1. TableInit => Directory!Init
    BY MaxIDAssumption DEF TableInit, Directory!Init, Life, Ids
  <1>2. TableInv /\ [TableNext]_tableVars => [Directory!Next]_<<AbsLife, nameIndex, hooks>>
    BY DirectoryStep DEF Stutter
  <1> QED
    BY <1>1, <1>2, Invariance, PTL DEF TableSpec, ImplementsDirectory, Directory!Spec, AbsLife

-----------------------------------------------------------------------------
(* sessions.json: the inductive invariant                                  *)

PersistTypeOK ==
  /\ refresh \in [active : BOOLEAN, todo : SUBSET Ids, id : Ids \cup {NoId},
                  seen : Status \cup {"none"}, changed : BOOLEAN]
  /\ persistCh \in BOOLEAN
  /\ pm \in {"idle", "armed", "writing"}
  /\ snap \subseteq Ids /\ durable \subseteq Ids /\ forgotten \subseteq Ids
  /\ disk \in [ok : BOOLEAN, ids : SUBSET Ids]

\* Every ID of low has an ID of high at or above it.
Reaches(low, high) == \A i \in low : \E j \in high : i <= j

\* The IDs a restart would read back.
Listed == IF disk.ok THEN disk.ids ELSE {}

\* The IDs that a file has listed and that no torn file has taken away.
Kept == durable \ forgotten

\* The counter is above every ID that is on disk, or has been.
CounterAhead == \A i \in Kept \cup Listed : i < nextID

\* A client in Launch has an ID that no list has, and while the table is empty
\* that ID is above all of them.
LaunchAhead ==
  \A c \in Clients : InLaunch(c) =>
    /\ client[c].id \notin Kept \cup snap
    /\ Known = {} => \A i \in Kept : i < client[c].id

\* The table, the list PersistMeta is writing and a file that parses each end
\* at or above the largest ID ever listed.
ListsReach ==
  /\ Known # {} => Reaches(Kept, Known)
  /\ pm = "writing" => Reaches(Kept, snap)
  /\ snap \subseteq Known
  /\ disk.ok => Reaches(Kept, disk.ids)

\* Nothing asks for a write before there is a session to write.
SomethingToSave ==
  persistCh \/ pm = "armed" \/ refresh.active => Known # {}

PersistInv ==
  /\ TableInv /\ PersistTypeOK /\ CounterAhead /\ LaunchAhead /\ ListsReach
  /\ SomethingToSave

-----------------------------------------------------------------------------
(* Lemmas about Reaches and about the steps of the table                   *)

\* A larger target set is reached as well.
LEMMA ReachesMore ==
  ASSUME NEW low, NEW high, NEW more, high \subseteq more, Reaches(low, high)
  PROVE  Reaches(low, more)
  BY DEF Reaches

\* A set that is reached may grow by members of what reaches it.
LEMMA ReachesOwn ==
  ASSUME NEW high \in SUBSET Nat, NEW low, NEW part, part \subseteq high,
         Reaches(low, high)
  PROVE  Reaches(low \cup part, high)
  <1> SUFFICES ASSUME NEW i \in low \cup part PROVE \E j \in high : i <= j
    BY DEF Reaches
  <1>1. CASE i \in low
    BY <1>1 DEF Reaches
  <1>2. CASE i \in part
    <2>1. i \in high /\ i <= i
      BY <1>2
    <2> QED
      BY <2>1
  <1> QED
    BY <1>1, <1>2

\* A client is in Launch with the ID it had, or with the counter's.
LEMMA LaunchEntry ==
  ASSUME TableInv, NEW d \in Clients, ClientStep(d)
  PROVE  \E e \in ClientState :
           /\ client' = [client EXCEPT ![d] = e]
           /\ e.pc \in {"start", "insert"} => (client[d].pc = "start" /\ e.id = client[d].id) \/ e.id = nextID
  <1>0. client \in [Clients -> ClientState] /\ client' \in [Clients -> ClientState]
    <2>1. TypeInv'
      BY TypeStep, InvParts DEF TableNext
    <2> QED
      BY <2>1, InvParts DEF TypeInv, TableTypeOK
  <1>1. /\ client' = [client EXCEPT ![d] = client'[d]]
        /\ client'[d].pc \in {"start", "insert"} =>
             (client[d].pc = "start" /\ client'[d].id = client[d].id) \/ client'[d].id = nextID
    <2> USE <1>0 DEF Request, IdleClient, ClientState
    <2>1. CASE LaunchStep(d)
      <3>1. CASE BeginLaunchStep(d)
        BY <3>1 DEF BeginLaunchStep, BeginLaunch
      <3>2. CASE LaunchFails(d)
        BY <3>2 DEF LaunchFails
      <3>3. CASE StartProcess(d)
        BY <3>3 DEF StartProcess
      <3>4. CASE InsertSessionStep(d)
        <4> PICK group \in GroupTags : InsertSession(d, group)
          BY <3>4 DEF InsertSessionStep
        <4>1. client' = [client EXCEPT ![d] =
                 IF client[d].name = NoName THEN IdleClient
                 ELSE Request("setname", client[d].id, client[d].name, {}, FALSE)]
          BY DEF InsertSession
        <4> QED
          BY <4>1
      <3> QED
        BY <2>1, <3>1, <3>2, <3>3, <3>4 DEF LaunchStep
    <2>2. CASE SetName(d) \/ SetNameFails(d)
      BY <2>2 DEF SetName, SetNameFails
    <2>3. CASE KillOne(d) \/ KillAll(d) \/ KillByTags(d)
      BY <2>3 DEF KillOne, KillAll, KillByTags, StartKill
    <2>4. CASE KillStep(d)
      BY <2>4 DEF KillStep, KillMark, KillMeta, KillRelease, KillHook
    <2> QED
      BY <2>1, <2>2, <2>3, <2>4 DEF ClientStep
  <1> QED
    BY <1>0, <1>1

\* No step of the table takes a session out of it or moves the counter back;
\* the only session it adds has the ID of a client in Launch, and a client that
\* begins a Launch gets the counter's ID.
LEMMA TableGrows ==
  ASSUME TableInv, TableNext
  PROVE  /\ Known \subseteq Known'
         /\ \/ Known' = Known
            \/ \E c \in Clients : InLaunch(c) /\ Known' = Known \cup {client[c].id}
         /\ \A c \in Clients : InLaunch(c)' =>
              (InLaunch(c) /\ client'[c].id = client[c].id) \/ client'[c].id = nextID
         /\ nextID' \in Nat /\ nextID <= nextID'
  <1> USE NamesAssumption, MaxIDAssumption, InvParts
      DEF TableTypeOK, TypeInv, Ids, NoId, Known, sessionVars, Status
  <1>0. nextID \in 1 .. MaxID + 1 /\ watch \in [Ids -> Status \cup {"none"}]
    OBVIOUS
  <1>1. ASSUME NEW c \in Clients, InsertSessionStep(c) PROVE
          InLaunch(c) /\ nextID' = nextID /\ watch' = [watch EXCEPT ![client[c].id] = "running"]
    BY <1>1 DEF InsertSessionStep, InsertSession, InLaunch
  <1>2. ASSUME NEW c \in Clients, BeginLaunchStep(c) \/ LaunchFails(c) \/ StartProcess(c)
        PROVE  watch' = watch /\ nextID' \in {nextID, nextID + 1}
    BY <1>2 DEF BeginLaunchStep, BeginLaunch, LaunchFails, StartProcess
  <1>3. ASSUME NEW c \in Clients, KillMark(c) PROVE
          nextID' = nextID /\ \E i \in Known : watch' = [watch EXCEPT ![i] = "killed"]
    <2>1. client[c].targets \subseteq Known
      BY DEF Killing
    <2> HIDE DEF Known
    <2> QED
      BY <1>3, <2>1 DEF KillMark
  <1>4. ASSUME NEW i \in Ids, WaiterStatus(i) PROVE
          nextID' = nextID /\ i \in Known /\ watch' = [watch EXCEPT ![i] = "completed"]
    <2>1. watch[i] # "none"
      BY <1>4 DEF WaiterStatus, Waiting
    <2> QED
      BY <1>4, <2>1 DEF WaiterStatus
  <1>5. ASSUME NEW c \in Clients,
               \/ SetName(c) \/ SetNameFails(c) \/ KillOne(c) \/ KillAll(c)
               \/ KillByTags(c) \/ KillMeta(c) \/ KillRelease(c) \/ KillHook(c)
        PROVE  watch' = watch /\ nextID' = nextID
    BY <1>5 DEF SetName, SetNameFails, KillOne, KillAll, KillByTags, StartKill,
                KillMeta, KillRelease, KillHook
  <1>6. ASSUME NEW i \in Ids,
               \/ ProcessExits(i) \/ WaiterExit(i) \/ WaiterResult(i)
               \/ WaiterClaim(i) \/ WaiterRelease(i) \/ WaiterHook(i)
        PROVE  watch' = watch /\ nextID' = nextID
    BY <1>6 DEF ProcessExits, WaiterExit, WaiterResult, WaiterClaim, WaiterRelease,
                WaiterHook
  <1>7. \/ /\ nextID' = nextID
           /\ \E c \in Clients : InLaunch(c) /\ watch' = [watch EXCEPT ![client[c].id] = "running"]
        \/ watch' = watch /\ nextID' \in {nextID, nextID + 1}
        \/ /\ nextID' = nextID
           /\ \E i \in Known, s \in Status : watch' = [watch EXCEPT ![i] = s]
    <2> HIDE DEF Known
    <2> QED
    BY <1>1, <1>2, <1>3, <1>4, <1>5, <1>6
    DEF TableNext, ClientStep, LaunchStep, KillStep, WaiterStep
  <1>8. /\ Known \subseteq Known'
        /\ \/ Known' = Known
           \/ \E c \in Clients : InLaunch(c) /\ Known' = Known \cup {client[c].id}
    <2>1. ASSUME NEW c \in Clients, InLaunch(c), watch' = [watch EXCEPT ![client[c].id] = "running"]
          PROVE  Known' = Known \cup {client[c].id}
      BY <1>0, <2>1 DEF InLaunch
    <2>2. CASE watch' = watch
      BY <2>2
    <2>3. CASE \E i \in Known, s \in Status : watch' = [watch EXCEPT ![i] = s]
      BY <1>0, <2>3
    <2> HIDE DEF Known
    <2> QED
      BY <1>7, <2>1, <2>2, <2>3
  <1>9. \A c \in Clients : InLaunch(c)' =>
              (InLaunch(c) /\ client'[c].id = client[c].id) \/ client'[c].id = nextID
    <2>1. ASSUME NEW d \in Clients, ClientStep(d) PROVE
            \A c \in Clients : InLaunch(c)' =>
              (InLaunch(c) /\ client'[c].id = client[c].id) \/ client'[c].id = nextID
      <3>1. \E e \in ClientState :
              /\ client' = [client EXCEPT ![d] = e]
              /\ e.pc \in {"start", "insert"} => (client[d].pc = "start" /\ e.id = client[d].id) \/ e.id = nextID
        BY <2>1, LaunchEntry
      <3> QED
        BY <3>1 DEF InLaunch
    <2>2. ASSUME NEW i \in Ids, ProcessExits(i) \/ WaiterStep(i) PROVE client' = client
      BY <2>2 DEF ProcessExits, WaiterStep, WaiterExit, WaiterResult, WaiterStatus, WaiterClaim,
                  WaiterRelease, WaiterHook
    <2> QED
      BY <2>1, <2>2 DEF TableNext, InLaunch
  <1>10. nextID' \in Nat /\ nextID <= nextID'
    <2> HIDE DEF Known
    <2>1. nextID' \in {nextID, nextID + 1} /\ nextID \in Nat
      BY <1>0, <1>7
    <2> QED
      BY <2>1
  <1> QED
    BY <1>8, <1>9, <1>10

\* The steps of the table that signal the persistence manager leave a session
\* in the table.
LEMMA SignalHasSession ==
  ASSUME TableInv,
         \/ \E c \in Clients : InsertSessionStep(c) \/ SetName(c) \/ KillMeta(c)
         \/ \E i \in Ids : WaiterRelease(i)
  PROVE  Known' # {}
  <1> USE NamesAssumption, MaxIDAssumption, InvParts
      DEF TableTypeOK, TypeInv, Ids, NoId, Known, sessionVars, Status
  <1>1. ASSUME NEW c \in Clients, InsertSessionStep(c) PROVE Known' # {}
    <2>1. client[c].id \in Ids /\ watch' = [watch EXCEPT ![client[c].id] = "running"]
      BY <1>1 DEF InsertSessionStep, InsertSession
    <2>2. watch'[client[c].id] = "running"
      BY <2>1
    <2> QED
      BY <2>1, <2>2
  <1>2. ASSUME NEW c \in Clients, SetName(c) PROVE Known' # {}
    BY <1>2 DEF SetName, Naming
  <1>3. ASSUME NEW c \in Clients, KillMeta(c) PROVE Known' # {}
    BY <1>3 DEF KillMeta, Killing
  <1>4. ASSUME NEW i \in Ids, WaiterRelease(i) PROVE Known' # {}
    <2>1. watch[i] # "none" /\ watch' = watch
      BY <1>4 DEF WaiterRelease, Waiting
    <2> QED
      BY <2>1
  <1> QED
    BY <1>1, <1>2, <1>3, <1>4

-----------------------------------------------------------------------------
(* The step lemma                                                          *)

\* A step of the table with its call of triggerPersist.
LEMMA TableStepInv ==
  ASSUME PersistInv, TableStep
  PROVE  PersistInv' /\ TableNext
  <1> USE DEF PersistInv
  <1>1. TableNext
    BY DEF TableStep, LaunchSession, SignallingStep, SilentStep, TableNext, ClientStep,
           LaunchStep, KillStep, WaiterStep
  <1>2. TableInv'
    BY <1>1, InvStep
  <1>3. UNCHANGED <<refresh, diskVars>>
    BY DEF TableStep, LaunchSession, SignallingStep, SilentStep
  <1>4. /\ Known \subseteq Known'
        /\ \/ Known' = Known
           \/ \E c \in Clients : InLaunch(c) /\ Known' = Known \cup {client[c].id}
        /\ \A c \in Clients : InLaunch(c)' =>
             (InLaunch(c) /\ client'[c].id = client[c].id) \/ client'[c].id = nextID
        /\ nextID' \in Nat /\ nextID <= nextID'
    BY <1>1, TableGrows
  <1>5. /\ nextID \in Nat /\ Kept \subseteq Nat /\ Listed \subseteq Nat
        /\ \A c \in Clients : InLaunch(c) => client[c].id \in Nat
    <2>1. Ids \subseteq Nat /\ nextID \in Nat
      BY MaxIDAssumption DEF Ids, TableInv, TypeInv, TableTypeOK
    <2>2. Kept \subseteq Ids /\ Listed \subseteq Ids
      BY DEF PersistTypeOK, Kept, Listed
    <2>3. \A c \in Clients : InLaunch(c) => client[c].id \in Ids
      BY DEF TableInv, TypeInv, InLaunch
    <2> QED
      BY <2>1, <2>2, <2>3
  <1>6. PersistTypeOK'
    BY <1>3 DEF TableStep, LaunchSession, SignallingStep, SilentStep, TriggerPersist,
                PersistTypeOK, diskVars, histVars
  <1>0. Listed' = Listed /\ Kept' = Kept /\ snap' = snap /\ pm' = pm /\ disk' = disk
    BY <1>3 DEF diskVars, histVars, Listed, Kept
  <1>7. CounterAhead'
    <2>1. \A i \in Kept \cup Listed : i \in Nat /\ i < nextID
      BY <1>5 DEF CounterAhead
    <2>2. \A i \in Kept \cup Listed : i < nextID'
      BY <1>4, <1>5, <2>1
    <2> QED
      BY <1>0, <2>2 DEF CounterAhead
  <1>10. LaunchAhead'
    <2>1. \A i \in Known : i \in Nat /\ i < nextID
      BY MaxIDAssumption, InvParts DEF FreshIDs, Known, Ids, TypeInv, TableTypeOK
    <2>2. nextID \notin Kept \cup snap /\ \A i \in Kept : i < nextID
      BY <1>5, <2>1 DEF CounterAhead, ListsReach
    <2> SUFFICES ASSUME NEW c \in Clients, InLaunch(c)'
                 PROVE  /\ client'[c].id \notin Kept \cup snap
                        /\ Known = {} => \A i \in Kept : i < client'[c].id
      BY <1>0, <1>4 DEF LaunchAhead
    <2> QED
      BY <1>4, <2>2 DEF LaunchAhead
  <1>8. ListsReach'
    <2>1. Known' # {} => Reaches(Kept, Known')
      <3>1. CASE Known # {}
        BY <1>4, <3>1, ReachesMore DEF ListsReach
      <3>2. CASE Known = {} /\ Known' # {}
        <4>1. PICK c \in Clients : InLaunch(c) /\ Known' = {client[c].id}
          BY <1>4, <3>2
        <4>2. \A i \in Kept : i < client[c].id
          BY <3>2, <4>1 DEF LaunchAhead
        <4> QED
          BY <1>5, <4>1, <4>2 DEF Reaches
      <3> QED
        BY <3>1, <3>2
    <2> QED
      BY <1>0, <1>4, <2>1 DEF ListsReach
  <1>9. SomethingToSave'
    <2>1. CASE SilentStep
      BY <1>3, <1>4, <2>1 DEF SilentStep, SomethingToSave, diskVars
    <2>2. CASE LaunchSession \/ SignallingStep
      BY <2>2, SignalHasSession DEF LaunchSession, SignallingStep, SomethingToSave
    <2> QED
      BY <2>1, <2>2 DEF TableStep
  <1> QED
    BY <1>1, <1>2, <1>6, <1>7, <1>8, <1>9, <1>10

\* A write of RefreshStatuses moves Meta.Status only.
LEMMA RefreshInv ==
  ASSUME PersistInv, RefreshStep
  PROVE  PersistInv' /\ watch' = watch
  <1> USE DEF PersistInv, refreshUnchanged, diskVars, histVars
  <1>1. UNCHANGED <<nextID, watch, mName, mDone, grouped, hookSent, proc, waiter,
                    nameIndex, client, members, hooks, pm, snap, disk, histVars>>
    BY DEF RefreshStep, RefreshStart, RefreshRead, RefreshWrite, RefreshEnd
  <1>2. /\ mStatus' \in [Ids -> Status \cup {"none"}]
        /\ PersistTypeOK'
    <2> USE DEF PersistTypeOK, NoRefresh, TableInv, TypeInv, TableTypeOK, NoId, Known
    <2>1. CASE RefreshStart
      BY <2>1 DEF RefreshStart
    <2>2. CASE RefreshRead
      <3> PICK i \in refresh.todo :
            refresh' = [refresh EXCEPT !.id = i, !.seen = watch[i], !.todo = @ \ {i}]
        BY <2>2 DEF RefreshRead
      <3>1. i \in Ids /\ watch[i] \in Status \cup {"none"}
        OBVIOUS
      <3>2. UNCHANGED <<mStatus, persistCh, pm, snap, histVars, disk>>
        BY <2>2 DEF RefreshRead
      <3> QED
        BY <3>1, <3>2
    <2>3. CASE RefreshWrite
      BY <2>3 DEF RefreshWrite
    <2>4. CASE RefreshEnd
      BY <2>4 DEF RefreshEnd
    <2> QED
      BY <2>1, <2>2, <2>3, <2>4 DEF RefreshStep
  <1>3. TableInv'
    BY <1>1, <1>2
    DEF TableInv, TypeInv, TableTypeOK, FreshIDs, Launching, InLaunch, Naming,
        Killing, Waiting, Claims,
        OneClaim, ClientClaims, WaiterClaims, NameIndexSound, RunningNameResolves,
        HookKept, ExitHookNotLost, HookAccounted, Known, Running
  <1>4. CounterAhead' /\ LaunchAhead' /\ ListsReach'
    BY <1>1 DEF CounterAhead, LaunchAhead, InLaunch, ListsReach, Listed, Kept, Known, Reaches
  <1>5. SomethingToSave'
    BY <1>1 DEF SomethingToSave, Known, RefreshStep, RefreshStart, RefreshRead,
                RefreshWrite, RefreshEnd, NoRefresh, PersistTypeOK
  <1> QED
    BY <1>1, <1>2, <1>3, <1>4, <1>5

\* The steps of the persistence manager, and a write that fails.
LEMMA PersistStepInv ==
  ASSUME PersistInv, PersistStep \/ PersistFails
  PROVE  PersistInv' /\ watch' = watch
  <1> USE DEF PersistInv
  <1>1. UNCHANGED tableVars /\ UNCHANGED refresh
    BY DEF PersistStep, PersistSignal, PersistBegin, PersistEnd, PersistFails
  <1>2. /\ TableInv' /\ Known' = Known /\ nextID' = nextID /\ watch' = watch
        /\ client' = client /\ \A c \in Clients : InLaunch(c)' <=> InLaunch(c)
    BY <1>1, InvStep DEF tableVars, sessionVars, Known, InLaunch
  <1>x. \A c \in Clients : InLaunch(c) => client[c].id \notin Known
    BY InvParts DEF Launching, Known
  <1>3. Known \subseteq Ids /\ Ids \subseteq Nat
    BY MaxIDAssumption DEF Known, Ids
  <1>4. PersistTypeOK'
    <2> USE <1>1, <1>3 DEF PersistTypeOK
    <2>1. CASE PersistSignal
      BY <2>1 DEF PersistSignal, histVars
    <2>2. CASE PersistBegin
      BY <2>2 DEF PersistBegin, histVars
    <2>3. CASE PersistEnd
      BY <2>3 DEF PersistEnd
    <2>4. CASE PersistFails
      BY <2>4 DEF PersistFails, histVars
    <2> QED
      BY <2>1, <2>2, <2>3, <2>4 DEF PersistStep
  <1>5. CASE PersistSignal
    BY <1>1, <1>2, <1>4, <1>5
    DEF PersistSignal, CounterAhead, LaunchAhead, ListsReach, SomethingToSave, Listed, Kept,
        Reaches, histVars
  <1>6. CASE PersistBegin
    <2>1. Reaches(Kept, Known)
      BY <1>6 DEF PersistBegin, SomethingToSave, ListsReach
    <2> QED
      BY <1>1, <1>2, <1>x, <1>4, <1>6, <2>1
      DEF PersistBegin, CounterAhead, LaunchAhead, ListsReach, SomethingToSave, Listed, Kept,
          Reaches, histVars
  <1>7. CASE PersistEnd
    <2>1. \A i \in Known : i < nextID
      BY MaxIDAssumption, InvParts DEF FreshIDs, Known, Ids, TypeInv, TableTypeOK
    <2>2. snap \subseteq Known /\ Reaches(Kept, snap)
      BY <1>7 DEF PersistEnd, ListsReach
    <2>3. Reaches(Kept \cup snap, snap)
      BY <1>3, <2>2, ReachesOwn
    <2>4. /\ disk' = [ok |-> TRUE, ids |-> snap] /\ snap' = {}
          /\ pm' = "idle" /\ persistCh' = persistCh
          /\ Kept' = Kept \cup snap
      BY <1>7 DEF PersistEnd, Kept
    <2>5. CounterAhead'
      BY <1>2, <2>1, <2>2, <2>4 DEF CounterAhead, Listed
    <2>6. ListsReach'
      <3>1. Reaches(Kept', Known')
        BY <1>2, <2>2, <2>3, <2>4 DEF Reaches
      <3>2. Reaches(Kept', disk'.ids)
        BY <2>3, <2>4 DEF Reaches
      <3> QED
        BY <2>4, <3>1, <3>2 DEF ListsReach, Reaches
    <2>7. LaunchAhead'
      BY <1>2, <2>2, <2>4 DEF LaunchAhead
    <2> QED
      BY <1>1, <1>2, <1>4, <2>4, <2>5, <2>6, <2>7 DEF SomethingToSave
  <1>8. CASE PersistFails
    BY <1>1, <1>2, <1>4, <1>8
    DEF PersistFails, CounterAhead, LaunchAhead, ListsReach, SomethingToSave, Listed, Kept,
        Reaches, histVars
  <1> QED
    BY <1>2, <1>5, <1>6, <1>7, <1>8 DEF PersistStep

\* A restart empties the table and starts the counter above the listed IDs.
LEMMA RestartInv ==
  ASSUME PersistInv, Restart
  PROVE  PersistInv' /\ watch' = [i \in Ids |-> "none"]
  <1> USE DEF PersistInv
  <1>1. /\ nextID' \in 1 .. MaxID + 1
        /\ \A i \in Listed : i < nextID'
    <2>1. nextID' \in 0 .. MaxID + 1 /\ IsStartID(nextID')
      BY DEF Restart
    <2>2. Listed \subseteq Ids
      BY DEF Listed, PersistTypeOK
    <2> QED
      BY <2>1, <2>2, MaxIDAssumption DEF IsStartID, Listed, Ids
  <1>2. TableInv'
    <2> USE <1>1, NamesAssumption, MaxIDAssumption
        DEF Restart, IdleClient, Request, NoWaiter, WaiterAt, Ids, NoId
    <2>1. TypeInv'
      BY DEF TableInv, TypeInv, TableTypeOK, Status, ClientState, WaiterState
    <2>2. FreshIDs' /\ Launching' /\ Naming' /\ Killing' /\ Waiting'
      BY DEF FreshIDs, Launching, InLaunch, Naming, Killing, Waiting, Known, Running
    <2>3. Claims'
      BY DEF Claims, OneClaim, ClientClaims, WaiterClaims
    <2>4. NameIndexSound' /\ RunningNameResolves'
      BY DEF NameIndexSound, RunningNameResolves, Running
    <2>5. HookKept'
      BY DEF HookKept, ExitHookNotLost, HookAccounted
    <2> QED
      BY <2>1, <2>2, <2>3, <2>4, <2>5 DEF TableInv
  <1>3. PersistTypeOK'
    BY DEF PersistTypeOK, Restart, NoRefresh, NoId, Status
  <1>4. Known' = {}
    BY DEF Restart, Known
  <1>5. /\ pm' = "idle" /\ persistCh' = FALSE /\ ~refresh'.active
        /\ snap' = {} /\ disk' = disk /\ Kept' = IF disk.ok THEN Kept ELSE {}
        /\ \A c \in Clients : ~InLaunch(c)'
    BY DEF Restart, NoRefresh, Kept, InLaunch, IdleClient, Request
  <1>6. CounterAhead'
    <2>1. CASE disk.ok
      <3>1. Reaches(Kept, disk.ids) /\ Kept \subseteq Nat /\ disk.ids \subseteq Nat
        BY <2>1, MaxIDAssumption DEF ListsReach, PersistTypeOK, Ids, Kept
      <3>2. \A i \in Kept : i < nextID'
        BY <1>1, <2>1, <3>1, MaxIDAssumption DEF Reaches, Listed
      <3> QED
        BY <1>1, <1>5, <2>1, <3>2 DEF CounterAhead, Listed
    <2>2. CASE ~disk.ok
      BY <1>5, <2>2 DEF CounterAhead, Listed
    <2> QED
      BY <2>1, <2>2
  <1>7. ListsReach' /\ LaunchAhead' /\ SomethingToSave'
    BY <1>4, <1>5 DEF ListsReach, LaunchAhead, SomethingToSave, Reaches
  <1> QED
    BY <1>2, <1>3, <1>6, <1>7 DEF Restart

-----------------------------------------------------------------------------
(* The theorems about the table on disk                                    *)

\* The initial state has an empty table and an empty list.
LEMMA PersistInit == Init => PersistInv
  <1> SUFFICES ASSUME Init PROVE PersistInv
    OBVIOUS
  <1> USE DEF Init
  <1>1. TableInv
    BY InitInv
  <1>2. PersistTypeOK /\ SomethingToSave
    BY DEF PersistTypeOK, SomethingToSave, NoRefresh, NoId, Status
  <1>3. CounterAhead /\ LaunchAhead /\ ListsReach
    BY DEF CounterAhead, LaunchAhead, InLaunch, TableInit, IdleClient, Request, ListsReach, Listed,
           Kept, Reaches
  <1> QED
    BY <1>1, <1>2, <1>3 DEF PersistInv

\* Every step keeps the invariant.
LEMMA PersistInvStep == PersistInv /\ [Next]_vars => PersistInv'
  <1> SUFFICES ASSUME PersistInv, [Next]_vars PROVE PersistInv'
    OBVIOUS
  <1>1. CASE UNCHANGED vars
    <2>1. TableInv'
      BY <1>1, InvStep DEF vars, PersistInv
    <2> QED
      BY <1>1, <2>1
      DEF vars, tableVars, sessionVars, diskVars, histVars, PersistInv, PersistTypeOK,
          CounterAhead, LaunchAhead, InLaunch, ListsReach, SomethingToSave, Listed, Kept, Known,
          Reaches
  <1> QED
    BY <1>1, TableStepInv, RefreshInv, PersistStepInv, RestartInv DEF Next

\* The invariant holds in every reachable state of the node and its disk.
THEOREM PersistInvariance == Spec => []PersistInv
  BY PersistInit, PersistInvStep, PTL DEF Spec

\* An ID that a readable sessions.json has ever listed is not given to another
\* session, whatever crashes and failed writes come between, unless a restart
\* lost it to a file that the node's own write had torn, and no list since has it.
THEOREM DurableIDsNotReused == Spec => DurableIDNotReused
  <1> DEFINE Fresh == \A i \in Ids : Launched(i) => i \notin durable \ forgotten
  <1>1. PersistInv /\ [Next]_vars => [Fresh]_vars
    <2> SUFFICES ASSUME PersistInv, Next PROVE Fresh
      BY DEF vars
    <2>1. CASE TableStep
      <3>1. TableNext /\ TableInv
        BY <2>1, TableStepInv DEF PersistInv
      <3>2. \A i \in Ids : Launched(i) => \E c \in Clients : InLaunch(c) /\ i = client[c].id
        BY <3>1, TableGrows DEF Known, Launched
      <3> QED
        BY <3>2 DEF PersistInv, LaunchAhead, Kept
    <2>2. CASE RefreshStep \/ PersistStep \/ PersistFails
      BY <2>2, RefreshInv, PersistStepInv DEF Launched
    <2>3. CASE Restart
      BY <2>3, RestartInv DEF Launched
    <2> QED
      BY <2>1, <2>2, <2>3 DEF Next
  <1> QED
    BY <1>1, PersistInvariance, PTL DEF Spec, DurableIDNotReused

\* The guarantees of the table hold with the status refresh, whose write of
\* Meta.Status may be out of date, and across restarts.
THEOREM TableSafeAcrossRestarts ==
  Spec => [](/\ NameIndexSound /\ RunningNameResolves /\ ExitHookOnce
             /\ ExitHookNotLost /\ CompletedIsRecorded)
  <1>1. PersistInv => /\ NameIndexSound /\ RunningNameResolves /\ ExitHookOnce
                      /\ ExitHookNotLost /\ CompletedIsRecorded
    BY DEF PersistInv, TableInv, TypeInv, TableTypeOK, WaiterState, Waiting, Claims,
           OneClaim, HookKept, ExitHookOnce, CompletedIsRecorded
  <1> QED
    BY <1>1, PersistInvariance, PTL
=============================================================================
