-------------------------- MODULE SessionDirectory --------------------------
(***************************************************************************)
(* What the session table of a node promises, without locks, watchers and  *)
(* goroutines: numbers are drawn one after the other, each once; sessions  *)
(* are launched under them, in any order, and are over for good; a name    *)
(* leads to one session, a session has one name at most, and it loses it   *)
(* only when it takes another or is over; the end of a session is told     *)
(* once.  SessionTable implements it.                                      *)
(***************************************************************************)
EXTENDS Integers

CONSTANTS Ids, Names, NoId

VARIABLES
  life,    \* of each number: "new", "drawn", "running" or "over"
  holder,  \* the session a name leads to
  told     \* how often the end of a session has been told (the exit hook)

Init ==
  /\ life = [i \in Ids |-> "new"]
  /\ holder = [n \in Names |-> NoId]
  /\ told = [i \in Ids |-> 0]

Draw(i) ==
  /\ life[i] = "new" /\ \A j \in Ids : life[j] # "new" => j < i
  /\ life' = [life EXCEPT ![i] = "drawn"]
  /\ UNCHANGED <<holder, told>>

Launch(i) ==
  /\ life[i] = "drawn"
  /\ life' = [life EXCEPT ![i] = "running"]
  /\ UNCHANGED <<holder, told>>

\* A session takes a name that is free or its own, and gives up the one it had.
Take(i, name) ==
  /\ life[i] \in {"running", "over"} /\ holder[name] \in {NoId, i}
  /\ holder' = [n \in Names |-> IF n = name THEN i ELSE IF holder[n] = i THEN NoId ELSE holder[n]]
  /\ UNCHANGED <<life, told>>

End(i) ==
  /\ life[i] = "running"
  /\ life' = [life EXCEPT ![i] = "over"]
  /\ UNCHANGED <<holder, told>>

Free(i, name) ==
  /\ life[i] = "over" /\ holder[name] = i
  /\ holder' = [holder EXCEPT ![name] = NoId]
  /\ UNCHANGED <<life, told>>

Tell(i) ==
  /\ life[i] = "over" /\ told[i] = 0
  /\ told' = [told EXCEPT ![i] = 1]
  /\ UNCHANGED <<life, holder>>

Next == \E i \in Ids :
  \/ Draw(i) \/ Launch(i) \/ End(i) \/ Tell(i)
  \/ \E name \in Names : Take(i, name) \/ Free(i, name)

Spec == Init /\ [][Next]_<<life, holder, told>>
=============================================================================
