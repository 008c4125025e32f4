------------------------------ MODULE KVStore ------------------------------
(***************************************************************************)
(* The in-memory key-value store of a node: internal/session/kvstore.go    *)
(* under handleKVSet and handleKVDelete of internal/node/handler.go.       *)
(*                                                                         *)
(* A value is known by the number of the Set that stored it.  A value with *)
(* a TTL owns a timer: time.AfterFunc starts a goroutine when it expires   *)
(* (the timer has "fired"), which then waits for kv.mu and calls Delete on *)
(* the key, whatever the key holds by then.  Stop keeps an armed timer     *)
(* from firing and does nothing to one that has fired.                     *)
(***************************************************************************)
EXTENDS Naturals

CONSTANTS
  Namespaces, Keys,
  MaxSets           \* bound: calls of Set

ASSUME MaxSetsAssumption == MaxSets \in Nat

VARIABLES
  sets,     \* calls of Set so far
  data,     \* KVStore.data: the Set whose value each key holds, 0 for none
  buckets,  \* the namespaces that have a map of their own
  expiring, \* the Sets whose value has an expiresAt
  timer     \* for each Set: where its timer is, and the key it will delete

kvVars == <<sets, data, buckets, expiring, timer>>

Places == Namespaces \X Keys
NoPlace == <<>>
Timer(state, place) == [state |-> state, place |-> place]
NoTimer == Timer("none", NoPlace)
Value(place) == data[place[1]][place[2]]

KVInit ==
  /\ sets = 0
  /\ data = [ns \in Namespaces |-> [k \in Keys |-> 0]]
  /\ buckets = {}
  /\ expiring = {}
  /\ timer = [n \in 1 .. MaxSets |-> NoTimer]

\* Mutant of Stopped: the timer of the value goes on.
StoppedNot(n) == timer

\* The timers after Stop of the timer of value n.
Stopped(n) ==
  IF n # 0 /\ timer[n].state = "armed"
    THEN [timer EXCEPT ![n] = Timer("stopped", timer[n].place)] ELSE timer

Put(ns, k, n) == [data EXCEPT ![ns] = [data[ns] EXCEPT ![k] = n]]

\* Mutant of Set: a key that holds a value keeps the timer it has.
SetKeepsTimer(ns, k, ttl) ==
  LET n == sets + 1 IN
  /\ sets < MaxSets
  /\ sets' = n
  /\ data' = Put(ns, k, n)
  /\ buckets' = buckets \cup {ns}
  /\ expiring' = IF ttl THEN expiring \cup {n} ELSE expiring
  /\ timer' = IF ttl /\ data[ns][k] = 0
                 THEN [timer EXCEPT ![n] = Timer("armed", <<ns, k>>)] ELSE timer

Set(ns, k, ttl) ==
  LET n == sets + 1 IN
  /\ sets < MaxSets
  /\ sets' = n
  /\ data' = Put(ns, k, n)
  /\ buckets' = buckets \cup {ns}
  /\ expiring' = IF ttl THEN expiring \cup {n} ELSE expiring
  /\ timer' = [Stopped(data[ns][k]) EXCEPT
                 ![n] = IF ttl THEN Timer("armed", <<ns, k>>) ELSE NoTimer]

\* Mutant of RemoveKey: a namespace is dropped as soon as a key of it goes.
RemoveBucket(ns, k) ==
  IF ns \in buckets
    THEN /\ data' = Put(ns, k, 0)
         /\ buckets' = buckets \ {ns}
    ELSE UNCHANGED <<data, buckets>>

\* Delete: the key, and the namespace when that was its last key.
RemoveKey(ns, k) ==
  IF ns \in buckets
    THEN /\ data' = Put(ns, k, 0)
         /\ buckets' = IF \A j \in Keys : data'[ns][j] = 0 THEN buckets \ {ns} ELSE buckets
    ELSE UNCHANGED <<data, buckets>>

Delete(ns, k) ==
  /\ RemoveKey(ns, k)
  /\ timer' = Stopped(data[ns][k])
  /\ UNCHANGED <<sets, expiring>>

TimerFires(n) ==
  /\ timer[n].state = "armed"
  /\ timer' = [timer EXCEPT ![n] = Timer("fired", timer[n].place)]
  /\ UNCHANGED <<sets, data, buckets, expiring>>

\* The goroutine of a timer gets kv.mu; the key may hold another value by now.
TimerDeletes(n) ==
  LET ns == timer[n].place[1]
      k  == timer[n].place[2] IN
  /\ timer[n].state = "fired"
  /\ RemoveKey(ns, k)
  /\ timer' = [Stopped(data[ns][k]) EXCEPT ![n] = Timer("done", timer[n].place)]
  /\ UNCHANGED <<sets, expiring>>

KVNext ==
  \/ \E ns \in Namespaces, k \in Keys :
       \/ \E ttl \in BOOLEAN : Set(ns, k, ttl)
       \/ Delete(ns, k)
  \/ \E n \in 1 .. MaxSets : TimerFires(n) \/ TimerDeletes(n)

KVSpec == KVInit /\ [][KVNext]_kvVars

\* Armed timers fire, and the goroutines they start get the lock.
KVFairness == \A n \in 1 .. MaxSets : WF_kvVars(TimerFires(n) \/ TimerDeletes(n))

KVFairSpec == KVSpec /\ KVFairness

-----------------------------------------------------------------------------
(* Properties                                                              *)

\* The values every variable may take; a value has a timer or has none.
KVTypeOK ==
  /\ sets \in 0 .. MaxSets
  /\ data \in [Namespaces -> [Keys -> 0 .. MaxSets]]
  /\ buckets \subseteq Namespaces
  /\ expiring \subseteq 1 .. MaxSets
  /\ timer \in [1 .. MaxSets -> {NoTimer} \cup
       [state : {"armed", "stopped", "fired", "done"}, place : Places]]

\* A timer that can still fire belongs to the value its key holds: Set and
\* Delete leave no armed timer of an older value behind.
ArmedTimerIsCurrent ==
  \A n \in 1 .. MaxSets : timer[n].state = "armed" => Value(timer[n].place) = n

\* What `cw kv list` shows is what will happen: a stored value has an expiresAt
\* exactly when its timer is armed, or the timer's goroutine is on its way, and
\* it is that very key that the timer will delete.
StoredValueWillExpire ==
  \A p \in Places : Value(p) # 0 =>
    IF Value(p) \in expiring
      THEN timer[Value(p)] \in {Timer("armed", p), Timer("fired", p)}
      ELSE timer[Value(p)] = NoTimer

\* A namespace has a map exactly as long as it has keys, so namespaces that are
\* used once (a cohort, a batch) do not stay for ever.
BucketIffKeys ==
  buckets = {ns \in Namespaces : \E k \in Keys : data[ns][k] # 0}

\* A value with a TTL does not stay for ever, replaced or not.
TTLExpires ==
  \A n \in 1 .. MaxSets :
    n \in expiring ~> \A p \in Places : Value(p) # n
=============================================================================
