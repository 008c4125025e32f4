---------------------------- MODULE LocalProofs ----------------------------
(***************************************************************************)
(* Proofs about LocalInstances, for any number of commands and names, any  *)
(* ports and any bounds: a name that no command is at work on, and that    *)
(* nothing is known to have gone wrong with, is listed exactly when its    *)
(* runtime is there, with the ports and no process but that of the entry.  *)
(*                                                                         *)
(* Commands on one name do interleave.  What holds then is an agreement    *)
(* between the runtime and the entry that the one command that is about    *)
(* to change the entry will write; two such commands, or one that has read *)
(* an entry that is no longer there, will be found out when they write.    *)
(***************************************************************************)
EXTENDS LocalInstances, FiniteSetTheorems, FunctionTheorems, TLAPS

-----------------------------------------------------------------------------
(* Types                                                                   *)

RtStates  == {"missing", "made", "stopped", "running"}
EntryType == {NoEntry} \cup [ports : SUBSET Ports, pid : Nat]
ProcType ==
  [cmd : {"none", "create", "start", "stop", "rm", "ports"},
   pc : {"idle", "status", "make", "boot", "reconcile", "edit", "halt", "delete",
         "reload", "save", "write", "done"},
   name : Names, view : [Names -> EntryType], entry : EntryType, stale : SUBSET Names,
   seen : RtStates, own : BOOLEAN, then : {"done", "boot"}]

LocalTypeOK ==
  /\ file \in [Names -> EntryType] /\ rt \in [Names -> RtStates]
  /\ fwd \in [Names -> SUBSET Ports] /\ vm \in [Names -> Nat]
  /\ proc \in [Procs -> ProcType] /\ pids \in Nat

-----------------------------------------------------------------------------
(* The inductive invariant                                                 *)

\* What a command knows at each of its program points.
Working(r) == r.pc \notin {"idle", "done"}
Knows(r) ==
  /\ r.pc \in {"status", "make"} => r.cmd = "create"
  /\ r.pc = "reconcile" => r.cmd = "start"
  /\ r.pc = "edit" => r.cmd = "ports"
  /\ r.pc = "halt" => r.cmd = "stop"
  /\ r.pc = "delete" => r.cmd = "rm"
  /\ r.pc = "reload" => r.cmd \in {"start", "stop"}
  /\ r.pc = "boot" => r.cmd \in {"create", "start"}
  /\ r.own => r.cmd = "create"
  /\ r.then = "boot" => r.cmd = "start"
  /\ Working(r) => r.entry # NoEntry
  /\ Working(r) /\ r.cmd = "create" => r.view[r.name] = NoEntry
  /\ Working(r) /\ r.cmd # "create" /\ r.name \notin r.stale => r.view[r.name] # NoEntry
  /\ r.pc \in {"reconcile", "edit", "halt", "delete"} => r.entry = r.view[r.name]

\* A create boots what it has made, unless it shares the runtime of another.
Makes(r) == r.pc = "boot" /\ r.cmd = "create" /\ ~r.own => blame[r.name] # {}

Known == \A p \in Procs : Knows(proc[p]) /\ Makes(proc[p])

\* Only Firecracker VMs have a process, and names share none.
Mentions(n, k) ==
  \/ vm[n] = k \/ file[n].pid = k
  \/ \E p \in Procs : proc[p].view[n].pid = k \/ (Name(p) = n /\ proc[p].entry.pid = k)
Pids ==
  /\ \A n \in Names : backend[n] # "firecracker" => vm[n] = 0
  /\ \A k \in Nat \ {0}, n \in Names : Mentions(n, k) =>
       k <= pids /\ \A m \in Names : Mentions(m, k) => m = n

\* Saves that overlap are blamed on every name.
OneWriter == \A n \in Names : blame[n] = {} => \A p, q \in Writing : p = q

\* A command whose view of a name is not stale has read what is there.
ViewsKnown ==
  \A p \in Procs, n \in Names :
    blame[n] = {} /\ Working(proc[p]) /\ Writing = {} /\ n \notin proc[p].stale
      => proc[p].view[n] = file[n]

\* The entry of a name, also while the file is being written.
Effective(n) == IF Writing = {} THEN file[n] ELSE Content(CHOOSE p \in Writing : TRUE)[n]

\* The commands on a name that are about to save, what they will make of its
\* entry, and those that will change it.
Current(p, n) == n \notin proc[p].stale /\ proc[p].view[n] = Effective(n)
Saving(n) == {p \in Procs : Name(p) = n /\ proc[p].pc \in {"save", "reload"}}
Plan(r) == IF r.cmd = "rm" THEN NoEntry ELSE r.entry
Changing(n) == {p \in Saving(n) : Plan(proc[p]) # Effective(n)}

\* The creates that have made the runtime of a name and have yet to boot it.
Owners(n) == {p \in Procs : Name(p) = n /\ proc[p].pc = "boot" /\ proc[p].own}

\* Something has gone wrong with a name, or will when the file is written.
Doomed(n) ==
  \/ blame[n] # {}
  \/ \E p \in Saving(n) : ~Current(p, n)
  \/ \E p, q \in Changing(n) : p # q

\* The entry a name has, or will have once who changes it has saved.
IsGoal(e, n) ==
  IF Changing(n) = {} THEN e = Effective(n)
  ELSE \E p \in Changing(n) : e = Plan(proc[p])

\* The runtime is what the entry e says; without an entry it is what the one
\* create at work has made, if there is one.
Fits(e, n) ==
  IF e = NoEntry
    THEN /\ vm[n] = 0
         /\ Owners(n) = {} => rt[n] = "missing"
         /\ \A p, q \in Owners(n) : p = q
         /\ \A p \in Owners(n) : rt[n] # "missing" /\ (backend[n] = "lima" => fwd[n] = proc[p].entry.ports)
    ELSE /\ Owners(n) = {} /\ rt[n] # "missing"
         /\ backend[n] = "lima" => fwd[n] = e.ports
         /\ backend[n] = "firecracker" => vm[n] \in {0, e.pid}

Agrees(n) == ~Doomed(n) => \A e \in EntryType : IsGoal(e, n) => Fits(e, n)

LocalInv ==
  /\ LocalTypeOK /\ Known /\ Pids /\ OneWriter /\ ViewsKnown
  /\ \A n \in Names : Agrees(n)

-----------------------------------------------------------------------------
(* Entries and records                                                     *)

\* An entry has ports and a process; NoEntry has neither.
LEMMA EntryFacts ==
  /\ NoEntry.pid = -1 /\ NoEntry.ports = {}
  /\ \A e \in EntryType : e # NoEntry => e.pid \in Nat /\ e.ports \in SUBSET Ports /\ e = Entry(e.ports, e.pid)
  /\ \A ports \in SUBSET Ports, pid \in Nat :
       /\ Entry(ports, pid) \in EntryType /\ Entry(ports, pid) # NoEntry
       /\ Entry(ports, pid).pid = pid /\ Entry(ports, pid).ports = ports
  BY DEF NoEntry, Entry, EntryType

\* The record of a command that has not begun.
LEMMA ReadyFacts ==
  /\ Ready \in ProcType /\ Ready.pc = "idle" /\ Ready.cmd = "none" /\ ~Ready.own
  /\ Ready.then = "done" /\ Ready.stale = {} /\ Ready.entry = NoEntry
  /\ Ready.view = [n \in Names |-> NoEntry]
  <1>1. (CHOOSE n \in Names : TRUE) \in Names
    BY NamesAssumption
  <1>2. [n \in Names |-> NoEntry] \in [Names -> EntryType]
    BY DEF EntryType
  <1>3. NoEntry \in EntryType
    BY DEF EntryType
  <1> QED
    BY <1>1, <1>2, <1>3, Zenon DEF Ready, ProcType, RtStates

\* The entry of a name while one command writes the file.
LEMMA EffectiveWhen ==
  ASSUME NEW n
  PROVE  /\ Writing = {} => Effective(n) = file[n]
         /\ \A p : Writing = {p} => Effective(n) = Content(p)[n]
  BY DEF Effective

\* What a command writes: its plan for its name, what it has read for the others.
LEMMA ContentFacts ==
  ASSUME LocalTypeOK, NEW p \in Procs
  PROVE  /\ Content(p) \in [Names -> EntryType]
         /\ Content(p)[Name(p)] = Plan(proc[p]) /\ Plan(proc[p]) \in EntryType
         /\ \A n \in Names : n # Name(p) => Content(p)[n] = proc[p].view[n]
  <1>1. proc[p] \in ProcType
    BY DEF LocalTypeOK
  <1>2. proc[p].view \in [Names -> EntryType] /\ proc[p].entry \in EntryType /\ Name(p) \in Names
    BY <1>1 DEF ProcType, Name
  <1>3. Plan(proc[p]) \in EntryType
    BY <1>2 DEF Plan, EntryType
  <1>4. Content(p) = [proc[p].view EXCEPT ![Name(p)] = Plan(proc[p])]
    BY DEF Content, Plan
  <1> QED
    BY <1>2, <1>3, <1>4

\* The entry of a name is one, or none.
LEMMA EffectiveType ==
  ASSUME LocalTypeOK, NEW n \in Names
  PROVE  Effective(n) \in EntryType
  <1>1. CASE Writing = {}
    BY <1>1 DEF Effective, LocalTypeOK
  <1>2. CASE Writing # {}
    <2>1. (CHOOSE p \in Writing : TRUE) \in Procs
      BY <1>2 DEF Writing
    <2> QED
      BY <1>2, <2>1, ContentFacts DEF Effective
  <1> QED
    BY <1>1, <1>2

-----------------------------------------------------------------------------
(* The initial states                                                      *)

\* There are process numbers for the VMs that run when the commands begin.
LEMMA FirstPidFacts ==
  /\ FirstPid \in [Names -> 1 .. Cardinality(Names)]
  /\ \A m, n \in Names : m # n => FirstPid[m] # FirstPid[n]
  <1>1. ExistsBijection(Names, 1 .. Cardinality(Names))
    BY NamesAssumption, FS_CardinalityType, Fun_ExistsBijSymmetric
  <1>2. PICK f : f \in Bijection(Names, 1 .. Cardinality(Names))
    BY <1>1 DEF ExistsBijection
  <1>3. f \in [Names -> 1 .. Cardinality(Names)] /\ \A m, n \in Names : m # n => f[m] # f[n]
    BY <1>2 DEF Bijection, Injection, Surjection, IsInjective
  <1> QED
    BY <1>3, Zenon DEF FirstPid

\* What is listed at the start is stopped or running, and nobody is at work.
LEMMA LocalInitInv == Init => LocalInv
  <1> SUFFICES ASSUME Init PROVE LocalInv
    OBVIOUS
  <1>0. Cardinality(Names) \in Nat
    BY NamesAssumption, FS_CardinalityType
  <1>1. \A p \in Procs : proc[p] = Ready
    BY DEF Init
  <1>2. /\ vm \in [Names -> Nat]
        /\ \A n \in Names : vm[n] # 0 => vm[n] = FirstPid[n] /\ backend[n] = "firecracker" /\ rt[n] = "running"
        /\ \A n \in Names : FirstPid[n] \in 1 .. Cardinality(Names)
    BY <1>0, FirstPidFacts DEF Init
  <1>3. /\ file = [n \in Names |-> file[n]]
        /\ \A n \in Names : /\ rt[n] = "missing" => file[n] = NoEntry
                            /\ rt[n] # "missing" => file[n] = Entry({}, file[n].pid)
                                 /\ file[n].pid \in {0, FirstPid[n]} /\ vm[n] \in {0, file[n].pid}
                            /\ file[n] \in EntryType
    <2>1. PICK ended \in SUBSET {n \in Names : backend[n] = "firecracker" /\ rt[n] = "stopped"} :
            file = [n \in Names |-> IF rt[n] = "missing" THEN NoEntry
                                    ELSE Entry({}, IF n \in ended THEN FirstPid[n] ELSE vm[n])]
      BY DEF Init
    <2> SUFFICES ASSUME NEW n \in Names
                 PROVE  /\ rt[n] = "missing" => file[n] = NoEntry
                        /\ rt[n] # "missing" => file[n] = Entry({}, file[n].pid)
                             /\ file[n].pid \in {0, FirstPid[n]} /\ vm[n] \in {0, file[n].pid}
                        /\ file[n] \in EntryType
      BY <2>1
    <2>2. CASE rt[n] = "missing"
      BY <2>1, <2>2 DEF EntryType
    <2>3. CASE rt[n] # "missing"
      <3> DEFINE k == IF n \in ended THEN FirstPid[n] ELSE vm[n]
      <3>1. k \in Nat /\ k \in {0, FirstPid[n]} /\ vm[n] \in {0, k}
        BY <1>0, <1>2 DEF Init
      <3>2. file[n] = Entry({}, k)
        BY <2>1, <2>3
      <3> HIDE DEF k
      <3> QED
        BY <2>3, <3>1, <3>2, EntryFacts
    <2> QED
      BY <2>2, <2>3
  <1>4. LocalTypeOK
    <2>1. file \in [Names -> EntryType]
      <3>1. file = [n \in Names |-> file[n]] /\ \A n \in Names : file[n] \in EntryType
        BY <1>3, Zenon
      <3> QED
        BY <3>1
    <2>2. proc \in [Procs -> ProcType]
      BY ReadyFacts DEF Init
    <2>3. fwd \in [Names -> SUBSET Ports]
      BY DEF Init
    <2>4. rt \in [Names -> RtStates]
      BY DEF Init, RtStates
    <2> QED
      BY <1>0, <1>2, <2>1, <2>2, <2>3, <2>4 DEF Init, LocalTypeOK
  <1>5. Known
    <2>1. Knows(Ready) /\ Makes(Ready)
      BY ReadyFacts DEF Knows, Makes, Working
    <2> QED
      BY <1>1, <2>1, Zenon DEF Known
  <1>6. Pids
    <2>1. ASSUME NEW k \in Nat \ {0}, NEW n \in Names, Mentions(n, k)
          PROVE  FirstPid[n] = k
      <3>1. CASE file[n].pid = k
        <4>1. file[n].pid # -1 /\ file[n].pid # 0
          BY <3>1
        <4>2. rt[n] # "missing"
          <5>1. NoEntry.pid = -1
            BY EntryFacts
          <5>2. rt[n] = "missing" => file[n] = NoEntry
            BY <1>3, Zenon
          <5> QED
            BY <4>1, <5>1, <5>2
        <4> QED
          BY <1>3, <3>1, <4>1, <4>2
      <3>3. CASE vm[n] = k
        BY <1>2, <3>3
      <3>2. ASSUME NEW p \in Procs, proc[p].view[n].pid = k \/ (Name(p) = n /\ proc[p].entry.pid = k)
            PROVE  FALSE
        BY <3>2, <1>1, ReadyFacts, EntryFacts
      <3> QED
        BY <2>1, <3>1, <3>2, <3>3 DEF Mentions
    <2>2. \A k \in Nat \ {0}, n \in Names : Mentions(n, k) => k <= pids
      BY <1>0, <1>2, <2>1 DEF Init
    <2>3. \A k \in Nat \ {0}, n, m \in Names : Mentions(n, k) /\ Mentions(m, k) => m = n
      BY <1>2, <2>1, FirstPidFacts
    <2> QED
      BY <1>2, <2>2, <2>3 DEF Pids
  <1>7. Writing = {}
    BY <1>1, ReadyFacts DEF Writing, At
  <1>8. OneWriter /\ ViewsKnown
    BY <1>1, <1>7, ReadyFacts DEF OneWriter, ViewsKnown, Working
  <1>9. ASSUME NEW n \in Names PROVE Agrees(n)
    <2>1. Saving(n) = {} /\ Owners(n) = {}
      BY <1>1, ReadyFacts DEF Saving, Owners
    <2>2. Changing(n) = {}
      BY <2>1 DEF Changing
    <2>3. \A e : IsGoal(e, n) => e = file[n]
      BY <1>7, <2>2 DEF IsGoal, Effective
    <2>4. Fits(file[n], n)
      BY <1>2, <1>3, <2>1, EntryFacts DEF Fits, Init
    <2> QED
      BY <2>3, <2>4, Zenon DEF Agrees
  <1> QED
    BY <1>4, <1>5, <1>6, <1>8, <1>9 DEF LocalInv

-----------------------------------------------------------------------------
(* What the steps that leave the file alone have in common                 *)

\* The command p, at work on its runtime, goes on as r.
Work(p, r) ==
  /\ proc[p].pc \notin {"idle", "done", "reload", "save", "write"}
  /\ r \in ProcType /\ r.pc \notin {"idle", "write"} /\ proc' = [proc EXCEPT ![p] = r]
  /\ r.name = Name(p) /\ r.cmd = proc[p].cmd /\ r.view = proc[p].view /\ r.stale = proc[p].stale
  /\ Knows(r)
  /\ UNCHANGED <<backend, file>>
  /\ \A n \in Names : blame'[n] = {} => blame[n] = {}
  /\ rt' \in [Names -> RtStates] /\ fwd' \in [Names -> SUBSET Ports] /\ vm' \in [Names -> Nat]
  /\ \A n \in Names : n # Name(p) => rt'[n] = rt[n] /\ fwd'[n] = fwd[n] /\ vm'[n] = vm[n]

\* What work on a runtime leaves alone: the other commands, and who writes the file.
LEMMA WorkProcs ==
  ASSUME LocalTypeOK, NEW p \in Procs, NEW r, Work(p, r)
  PROVE  /\ proc'[p] = r /\ \A q \in Procs : q # p => proc'[q] = proc[q]
         /\ \A q \in Procs : /\ Name(q)' = Name(q) /\ proc'[q].cmd = proc[q].cmd
                             /\ proc'[q].view = proc[q].view /\ proc'[q].stale = proc[q].stale
         /\ Writing' = Writing /\ p \notin Writing
  <1>1. proc'[p] = r /\ \A q \in Procs : q # p => proc'[q] = proc[q]
    BY DEF Work, LocalTypeOK
  <1>2. \A q \in Procs : /\ Name(q)' = Name(q) /\ proc'[q].cmd = proc[q].cmd
                         /\ proc'[q].view = proc[q].view /\ proc'[q].stale = proc[q].stale
    BY <1>1 DEF Work, Name
  <1>3. r.pc # "write" /\ proc[p].pc # "write"
    BY DEF Work
  <1>4. Writing' = Writing /\ p \notin Writing
    BY <1>1, <1>3 DEF Writing, At
  <1> QED
    BY <1>1, <1>2, <1>4

\* It changes no entry, and no command's knowledge of one.
LEMMA WorkEffective ==
  ASSUME LocalTypeOK, NEW p \in Procs, NEW r, Work(p, r), NEW n \in Names
  PROVE  /\ Effective(n)' = Effective(n)
         /\ \A q \in Procs : Current(q, n)' <=> Current(q, n)
  <1>1. Effective(n)' = Effective(n)
    <2>1. CASE Writing = {}
      BY <2>1, WorkProcs DEF Effective, Work
    <2>2. CASE Writing # {}
      <3> DEFINE w == CHOOSE q \in Writing : TRUE
      <3>1. w \in Procs /\ w # p
        BY <2>2, WorkProcs DEF Writing
      <3>2. Writing' = Writing /\ proc'[w] = proc[w]
        BY <3>1, WorkProcs
      <3>3. Effective(n) = Content(w)[n]
        BY <2>2 DEF Effective
      <3>4. Effective(n)' = [proc'[w].view EXCEPT ![proc'[w].name] =
                               IF proc'[w].cmd = "rm" THEN NoEntry ELSE proc'[w].entry][n]
        BY <2>2, <3>2, Zenon DEF Effective, Content, Name
      <3>5. Content(w)[n] = [proc[w].view EXCEPT ![proc[w].name] =
                               IF proc[w].cmd = "rm" THEN NoEntry ELSE proc[w].entry][n]
        BY DEF Content, Name
      <3> HIDE DEF w
      <3> QED
        BY <3>2, <3>3, <3>4, <3>5
    <2> QED
      BY <2>1, <2>2
  <1>2. \A q \in Procs : Current(q, n)' <=> Current(q, n)
    BY <1>1, WorkProcs DEF Current
  <1> QED
    BY <1>1, <1>2

\* The commands on other names.
LEMMA WorkElsewhere ==
  ASSUME LocalTypeOK, NEW p \in Procs, NEW r, Work(p, r), NEW n \in Names, n # Name(p), Agrees(n)
  PROVE  Agrees(n)'
  <1>1. Saving(n)' = Saving(n) /\ Owners(n)' = Owners(n)
    <2>1. \A q \in Procs : Name(q) = n => q # p /\ proc'[q] = proc[q]
      BY WorkProcs
    <2> QED
      BY <2>1, WorkProcs DEF Saving, Owners
  <1>2. \A q \in Saving(n) \cup Owners(n) : q \in Procs /\ proc'[q] = proc[q]
    BY WorkProcs DEF Saving, Owners
  <1>3. Changing(n)' = Changing(n)
    BY <1>1, <1>2, WorkEffective DEF Changing
  <1>4. ~Doomed(n)' => ~Doomed(n)
    <2>1. blame'[n] = {} => blame[n] = {}
      BY DEF Work
    <2>2. \A q \in Saving(n) : Current(q, n)' <=> Current(q, n)
      BY <1>2, WorkEffective
    <2> QED
      BY <1>1, <1>3, <2>1, <2>2 DEF Doomed
  <1>5. \A e : IsGoal(e, n)' => IsGoal(e, n)
    <2>1. \A q \in Changing(n) : Plan(proc'[q]) = Plan(proc[q])
      BY <1>2 DEF Changing
    <2> QED
      BY <1>3, <2>1, WorkEffective DEF IsGoal
  <1>6. \A e : Fits(e, n) => Fits(e, n)'
    <2>1. rt'[n] = rt[n] /\ fwd'[n] = fwd[n] /\ vm'[n] = vm[n] /\ backend' = backend
      BY DEF Work
    <2> QED
      BY <1>1, <1>2, <2>1 DEF Fits
  <1> QED
    BY <1>4, <1>5, <1>6 DEF Agrees

\* The commands on the same name: p may be about to save now.
LEMMA WorkHere ==
  ASSUME LocalTypeOK, NEW p \in Procs, NEW r, Work(p, r), NEW n \in Names, n = Name(p)
  PROVE  /\ p \notin Saving(n)
         /\ Saving(n)' = IF r.pc \in {"save", "reload"} THEN Saving(n) \cup {p} ELSE Saving(n)
         /\ \A q \in Saving(n) : q \in Procs /\ q # p /\ proc'[q] = proc[q]
         /\ Changing(n)' = IF p \in Saving(n)' /\ Plan(r) # Effective(n) THEN Changing(n) \cup {p}
                           ELSE Changing(n)
         /\ ~Doomed(n)' => ~Doomed(n)
  <1>1. p \notin Saving(n)
    BY DEF Work, Saving
  <1>2. Saving(n)' = IF r.pc \in {"save", "reload"} THEN Saving(n) \cup {p} ELSE Saving(n)
    BY <1>1, WorkProcs DEF Saving
  <1>3. \A q \in Saving(n) : q \in Procs /\ q # p /\ proc'[q] = proc[q]
    BY <1>1, WorkProcs DEF Saving
  <1>4. Changing(n)' = IF p \in Saving(n)' /\ Plan(r) # Effective(n) THEN Changing(n) \cup {p}
                       ELSE Changing(n)
    <2>1. Effective(n)' = Effective(n) /\ proc'[p] = r
      BY WorkEffective, WorkProcs
    <2>2. \A q \in Saving(n) : Plan(proc'[q]) = Plan(proc[q])
      BY <1>3
    <2> QED
      BY <1>1, <1>2, <2>1, <2>2 DEF Changing
  <1>5. ~Doomed(n)' => ~Doomed(n)
    <2>1. blame'[n] = {} => blame[n] = {}
      BY DEF Work
    <2>2. \A q \in Saving(n) : q \in Saving(n)' /\ (Current(q, n)' <=> Current(q, n))
      BY <1>2, <1>3, WorkEffective
    <2>3. Changing(n) \subseteq Changing(n)'
      BY <1>4
    <2> QED
      BY <2>1, <2>2, <2>3 DEF Doomed
  <1> QED
    BY <1>1, <1>2, <1>3, <1>4, <1>5

\* A step that leads to no save keeps what fits.
LEMMA WorkQuiet ==
  ASSUME LocalTypeOK, NEW p \in Procs, NEW r, Work(p, r), NEW n \in Names, n = Name(p), Agrees(n),
         r.pc \notin {"save", "reload"},
         \A e \in EntryType : blame'[n] = {} /\ Fits(e, n) => Fits(e, n)'
  PROVE  Agrees(n)'
  <1>1. Saving(n)' = Saving(n) /\ p \notin Saving(n)
    BY WorkHere
  <1>2. Changing(n)' = Changing(n)
    BY <1>1, WorkHere
  <1>3. \A q \in Changing(n) : Plan(proc'[q]) = Plan(proc[q])
    BY WorkHere DEF Changing
  <1>4. \A e : IsGoal(e, n)' => IsGoal(e, n)
    BY <1>2, <1>3, WorkEffective DEF IsGoal
  <1>5. ~Doomed(n)' => ~Doomed(n) /\ blame'[n] = {}
    BY WorkHere DEF Doomed
  <1> QED
    BY <1>4, <1>5 DEF Agrees

\* A step that leads to a save: either the entry stays, and what fits is kept, or
\* the runtime now is what the command will write.
LEMMA WorkSaves ==
  ASSUME LocalTypeOK, NEW p \in Procs, NEW r, Work(p, r), NEW n \in Names, n = Name(p), Agrees(n),
         r.pc \in {"save", "reload"},
         blame'[n] = {} /\ n \notin proc[p].stale =>
           \/ Plan(r) = proc[p].view[n] /\ \A e \in EntryType : Fits(e, n) => Fits(e, n)'
           \/ Plan(r) # proc[p].view[n] /\ (Fits(proc[p].view[n], n) => Fits(Plan(r), n)')
  PROVE  Agrees(n)'
  <1> SUFFICES ASSUME ~Doomed(n)', NEW e \in EntryType, IsGoal(e, n)'
               PROVE  Fits(e, n)'
    BY DEF Agrees
  <1>1. p \in Saving(n)' /\ ~Doomed(n) /\ blame'[n] = {}
    BY WorkHere DEF Doomed
  <1>2. Current(p, n)
    BY <1>1, WorkEffective DEF Doomed
  <1>3. n \notin proc[p].stale /\ proc[p].view[n] = Effective(n) /\ Effective(n) \in EntryType
    BY <1>2, EffectiveType DEF Current
  <1>4. CASE Plan(r) = Effective(n) /\ \A g \in EntryType : Fits(g, n) => Fits(g, n)'
    <2>1. Changing(n)' = Changing(n)
      BY <1>4, WorkHere
    <2>2. \A q \in Changing(n) : Plan(proc'[q]) = Plan(proc[q])
      BY WorkHere DEF Changing
    <2>3. IsGoal(e, n)
      BY <2>1, <2>2, WorkEffective DEF IsGoal
    <2> QED
      BY <1>1, <1>4, <2>3 DEF Agrees
  <1>5. CASE Plan(r) # Effective(n) /\ (Fits(Effective(n), n) => Fits(Plan(r), n)')
    <2>1. Changing(n)' = Changing(n) \cup {p} /\ p \notin Changing(n)
      BY <1>1, <1>5, WorkHere DEF Changing
    <2>2. \A q \in Changing(n)' : q = p
      BY <2>1 DEF Doomed
    <2>3. Changing(n) = {} /\ Changing(n)' = {p}
      BY <2>1, <2>2
    <2>4. Fits(Effective(n), n)
      BY <1>1, <1>3, <2>3 DEF Agrees, IsGoal
    <2>5. e = Plan(proc'[p]) /\ proc'[p] = r
      BY <2>3, WorkProcs DEF IsGoal
    <2> QED
      BY <1>5, <2>4, <2>5
  <1> QED
    BY <1>1, <1>3, <1>4, <1>5

\* A step mentions no process of another name, and new ones once.
LEMMA PidsStep ==
  ASSUME Pids, pids \in Nat, pids' \in Nat, pids <= pids', NEW n \in Names,
         \A m \in Names : backend'[m] # "firecracker" => vm'[m] = 0,
         \A m \in Names, k \in Nat \ {0} : Mentions(m, k)' =>
           Mentions(m, k) \/ (m = n /\ k = pids + 1 /\ pids' = pids + 1)
  PROVE  Pids'
  <1>1. ASSUME NEW k \in Nat \ {0}, NEW m \in Names, Mentions(m, k)'
        PROVE  k <= pids'
    <2>1. CASE Mentions(m, k)
      <3>1. k <= pids
        BY <2>1 DEF Pids
      <3> QED
        BY <3>1
    <2>2. CASE k = pids + 1 /\ pids' = pids + 1
      BY <2>2
    <2> QED
      BY <1>1, <2>1, <2>2
  <1>2. ASSUME NEW k \in Nat \ {0}, NEW m \in Names, NEW j \in Names, Mentions(m, k)', Mentions(j, k)'
        PROVE  j = m
    <2>1. CASE k = pids + 1
      <3>1. ~(k <= pids)
        BY <2>1
      <3>2. ~Mentions(m, k) /\ ~Mentions(j, k)
        BY <3>1 DEF Pids
      <3> QED
        BY <1>2, <3>2
    <2>2. CASE k # pids + 1
      <3>1. Mentions(m, k) /\ Mentions(j, k)
        BY <1>2, <2>2
      <3> QED
        BY <3>1 DEF Pids
    <2> QED
      BY <2>1, <2>2
  <1> QED
    BY <1>1, <1>2 DEF Pids

\* Work on one name keeps the invariant when it keeps what it says of that name.
LEMMA WorkInv ==
  ASSUME LocalInv, NEW p \in Procs, NEW r, Work(p, r), NEW n \in Names, n = Name(p),
         r.pc = "boot" /\ r.cmd = "create" /\ ~r.own => blame'[n] # {},
         pids' \in Nat, pids <= pids',
         backend[n] # "firecracker" => vm'[n] = 0,
         vm'[n] \in {0, vm[n]} \/ (vm'[n] = pids + 1 /\ pids' = pids + 1),
         r.entry.pid \in {0, proc[p].entry.pid} \/ (r.entry.pid = pids + 1 /\ pids' = pids + 1),
         Agrees(n)'
  PROVE  LocalInv'
  <1> USE DEF LocalInv
  <1>0. /\ proc'[p] = r /\ \A q \in Procs : q # p => proc'[q] = proc[q]
        /\ \A q \in Procs : proc'[q].view = proc[q].view /\ proc'[q].stale = proc[q].stale
        /\ Writing' = Writing
        /\ r.name = n /\ Knows(r) /\ proc[p].pc \notin {"idle", "done"} /\ file' = file
        /\ \A m \in Names : blame'[m] = {} => blame[m] = {}
    <2>1. r.name = n /\ Knows(r) /\ proc[p].pc \notin {"idle", "done"} /\ file' = file
      BY DEF Work
    <2>2. \A m \in Names : blame'[m] = {} => blame[m] = {}
      BY DEF Work
    <2> QED
      BY <2>1, <2>2, WorkProcs
  <1>1. LocalTypeOK'
    <2>1. proc' \in [Procs -> ProcType]
      BY DEF Work, LocalTypeOK
    <2> QED
      BY <2>1 DEF Work, LocalTypeOK
  <1>2. Known'
    <2>1. Knows(proc'[p]) /\ Makes(proc[p])'
      <3>1. Knows(proc'[p])
        BY <1>0, Zenon
      <3> QED
        BY <1>0, <3>1 DEF Makes
    <2>2. ASSUME NEW q \in Procs, q # p
          PROVE  Knows(proc'[q]) /\ Makes(proc[q])'
      <3>1. proc'[q] = proc[q] /\ Name(q) \in Names
        BY <2>2, WorkProcs DEF LocalTypeOK, ProcType, Name
      <3>2. Knows(proc[q]) /\ Makes(proc[q])
        BY DEF Known
      <3>3. blame'[Name(q)] = {} => blame[Name(q)] = {}
        BY <3>1 DEF Work
      <3> QED
        BY <3>1, <3>2, <3>3 DEF Makes, Name
    <2>3. \A q \in Procs : Knows(proc'[q]) /\ Makes(proc[q])'
      BY <2>1, <2>2
    <2> QED
      BY <2>3 DEF Known, Knows, Working
  <1>3. Pids'
    <2>1. backend' = backend /\ file' = file
      BY DEF Work
    <2>2. \A m \in Names : backend'[m] # "firecracker" => vm'[m] = 0
      BY <2>1 DEF Work, Pids
    <2>3. ASSUME NEW m \in Names, NEW k \in Nat \ {0}, Mentions(m, k)'
          PROVE  Mentions(m, k) \/ (m = n /\ k = pids + 1 /\ pids' = pids + 1)
      <3>1. CASE vm'[m] = k
        <4>1. CASE m # n
          BY <3>1, <4>1 DEF Work, Mentions
        <4>2. CASE m = n
          BY <3>1, <4>2 DEF Mentions
        <4> QED
          BY <4>1, <4>2
      <3>2. CASE file'[m].pid = k
        BY <2>1, <3>2 DEF Mentions
      <3>3. ASSUME NEW q \in Procs,
                   proc'[q].view[m].pid = k \/ (proc'[q].name = m /\ proc'[q].entry.pid = k)
            PROVE  Mentions(m, k) \/ (m = n /\ k = pids + 1 /\ pids' = pids + 1)
        <4>1. CASE proc'[q].view[m].pid = k
          BY <4>1, WorkProcs DEF Mentions
        <4>2. CASE q # p /\ proc'[q].name = m /\ proc'[q].entry.pid = k
          BY <4>2, WorkProcs DEF Mentions, Name
        <4>3. CASE q = p /\ proc'[q].name = m /\ proc'[q].entry.pid = k
          <5>1. m = n /\ r.entry.pid = k
            BY <4>3, <1>0
          <5> QED
            BY <5>1 DEF Mentions
        <4> QED
          BY <3>3, <4>1, <4>2, <4>3
      <3>4. \/ vm'[m] = k \/ file'[m].pid = k
            \/ \E q \in Procs : proc'[q].view[m].pid = k \/ (proc'[q].name = m /\ proc'[q].entry.pid = k)
        BY <2>3 DEF Mentions, Name
      <3> QED
        BY <3>1, <3>2, <3>3, <3>4
    <2>4. pids \in Nat
      BY DEF LocalTypeOK
    <2> QED
      BY <2>2, <2>3, <2>4, PidsStep
  <1>4. OneWriter'
    BY <1>0 DEF OneWriter
  <1>5. ViewsKnown'
    <2>1. \A q \in Procs : Working(proc'[q]) => Working(proc[q])
      BY <1>0 DEF Working
    <2> QED
      BY <1>0, <2>1 DEF ViewsKnown
  <1>6. \A m \in Names : Agrees(m)'
    BY WorkElsewhere
  <1> QED
    BY <1>1, <1>2, <1>3, <1>4, <1>5, <1>6

-----------------------------------------------------------------------------
(* The steps of a command at work                                          *)

\* A command goes from one of its program points to another.
LEMMA Moved ==
  ASSUME LocalTypeOK, NEW p \in Procs,
         NEW pc \in {"idle", "status", "make", "boot", "reconcile", "edit", "halt", "delete",
                     "reload", "save", "write", "done"},
         Goes(p, pc)
  PROVE  \E r \in ProcType :
           /\ proc' = [proc EXCEPT ![p] = r] /\ r.pc = pc
           /\ r.cmd = proc[p].cmd /\ r.name = Name(p) /\ r.view = proc[p].view
           /\ r.entry = proc[p].entry /\ r.stale = proc[p].stale
           /\ r.own = proc[p].own /\ r.then = proc[p].then
  <1> DEFINE r == [proc[p] EXCEPT !.pc = pc]
  <1>1. proc[p] \in ProcType
    BY DEF LocalTypeOK
  <1>2. r \in ProcType
    BY <1>1 DEF ProcType
  <1>3. /\ r.pc = pc /\ r.cmd = proc[p].cmd /\ r.name = proc[p].name /\ r.view = proc[p].view
        /\ r.entry = proc[p].entry /\ r.stale = proc[p].stale
        /\ r.own = proc[p].own /\ r.then = proc[p].then
    BY <1>1 DEF ProcType
  <1>4. proc' = [proc EXCEPT ![p] = r]
    BY DEF Goes
  <1> HIDE DEF r
  <1> QED
    BY <1>2, <1>3, <1>4 DEF Name

\* What a command at work has and knows.
LEMMA AtWorkFacts ==
  ASSUME LocalInv, NEW p \in Procs
  PROVE  /\ proc[p] \in ProcType /\ Name(p) \in Names /\ Name(p) = proc[p].name
         /\ Knows(proc[p]) /\ Makes(proc[p]) /\ Agrees(Name(p))
         /\ rt[Name(p)] \in RtStates /\ vm[Name(p)] \in Nat /\ fwd[Name(p)] \in SUBSET Ports
         /\ file \in [Names -> EntryType]
         /\ backend[Name(p)] # "firecracker" => vm[Name(p)] = 0
  <1>1. proc[p] \in ProcType /\ Name(p) \in Names /\ Name(p) = proc[p].name
    BY DEF LocalInv, LocalTypeOK, ProcType, Name
  <1> QED
    BY <1>1 DEF LocalInv, LocalTypeOK, Known, Pids

\* Who owns a runtime after a step of p.
LEMMA OwnersHere ==
  ASSUME LocalTypeOK, NEW p \in Procs, NEW r, Work(p, r), NEW n \in Names, n = Name(p)
  PROVE  /\ \A q \in Procs : q \in Owners(n)' <=>
              IF q = p THEN r.pc = "boot" /\ r.own ELSE q \in Owners(n)
         /\ p \in Owners(n) <=> proc[p].pc = "boot" /\ proc[p].own
         /\ \A q \in Owners(n) : q \in Procs
         /\ \A q \in Owners(n)' : q \in Procs
         /\ \A q \in Owners(n) : q # p => proc'[q] = proc[q]
  <1>1. proc'[p] = r /\ r.name = n
    BY WorkProcs DEF Work
  <1>2. \A q \in Procs : q \in Owners(n)' <=>
              IF q = p THEN r.pc = "boot" /\ r.own ELSE q \in Owners(n)
    BY <1>1, WorkProcs DEF Owners
  <1>3. p \in Owners(n) <=> proc[p].pc = "boot" /\ proc[p].own
    BY DEF Owners
  <1>4. \A q \in Owners(n) : q \in Procs
    BY DEF Owners
  <1>5. \A q \in Owners(n)' : q \in Procs
    BY DEF Owners
  <1> QED
    BY <1>2, <1>3, <1>4, <1>5, WorkProcs

\* A step that makes and removes nothing keeps what fits.
LEMMA FitsKept ==
  ASSUME LocalTypeOK, NEW p \in Procs, NEW r, Work(p, r), NEW n \in Names, n = Name(p),
         ~(proc[p].pc = "boot" /\ proc[p].own), ~(r.pc = "boot" /\ r.own),
         rt'[n] = "missing" <=> rt[n] = "missing", fwd'[n] = fwd[n], vm'[n] = vm[n]
  PROVE  \A e : Fits(e, n) => Fits(e, n)'
  <1>1. \A q : q \in Owners(n)' <=> q \in Owners(n)
    BY OwnersHere
  <1>2. Owners(n)' = Owners(n)
    BY <1>1
  <1>3. \A q \in Owners(n) : proc'[q] = proc[q]
    BY OwnersHere
  <1>4. backend' = backend
    BY DEF Work
  <1> QED
    BY <1>2, <1>3, <1>4 DEF Fits

\* So it keeps the invariant, when it leads to no save.
LEMMA NothingMade ==
  ASSUME LocalInv, NEW p \in Procs, NEW r, Work(p, r), NEW n \in Names, n = Name(p),
         ~(proc[p].pc = "boot" /\ proc[p].own), r.pc # "boot" \/ r.cmd # "create", ~r.own \/ r.pc # "boot",
         r.pc \notin {"save", "reload"}, r.entry.pid = proc[p].entry.pid,
         rt'[n] = "missing" <=> rt[n] = "missing", fwd' = fwd, vm' = vm, pids' = pids
  PROVE  LocalInv'
  <1>1. \A e \in EntryType : Fits(e, n) => Fits(e, n)'
    BY FitsKept DEF LocalInv
  <1>2. Agrees(n)'
    BY <1>1, WorkQuiet DEF LocalInv
  <1>3. pids \in Nat /\ (backend[n] # "firecracker" => vm[n] = 0)
    BY DEF LocalInv, LocalTypeOK, Pids
  <1> QED
    BY <1>2, <1>3, WorkInv

\* limaInstanceStatus only looks.
LEMMA StatusInv ==
  ASSUME LocalInv, NEW p \in Procs, Status(p)
  PROVE  LocalInv'
  <1> DEFINE n == Name(p)
             s == [proc[p] EXCEPT !.pc = "make", !.seen = rt[n]]
  <1>1. /\ proc[p].pc = "status" /\ proc' = [proc EXCEPT ![p] = s]
        /\ UNCHANGED <<backend, file, blame, rt, fwd, vm, pids>>
    BY DEF Status, At, runtimes
  <1>2. /\ s \in ProcType /\ s.pc = "make" /\ s.cmd = proc[p].cmd /\ s.name = n /\ s.view = proc[p].view
        /\ s.entry = proc[p].entry /\ s.stale = proc[p].stale /\ s.own = proc[p].own
        /\ s.then = proc[p].then
    BY AtWorkFacts DEF ProcType
  <1> HIDE DEF s
  <1>3. PICK r : r = s
    OBVIOUS
  <1>4. Knows(r)
    BY <1>1, <1>2, <1>3, AtWorkFacts DEF Knows, Working, n
  <1>5. Work(p, r)
    BY <1>1, <1>2, <1>3, <1>4, AtWorkFacts DEF Work, LocalInv, LocalTypeOK
  <1> QED
    BY <1>1, <1>2, <1>3, <1>5, NothingMade, AtWorkFacts

\* A create that finds no runtime makes one, and owns it.
LEMMA OwnerFits ==
  ASSUME LocalTypeOK, NEW p \in Procs, NEW r, Work(p, r), NEW n \in Names, n = Name(p),
         proc[p].pc = "make", r.pc = "boot", r.own,
         rt[n] = "missing", rt'[n] # "missing", vm'[n] = vm[n],
         backend[n] = "lima" => fwd'[n] = r.entry.ports
  PROVE  \A e : Fits(e, n) => Fits(e, n)'
  <1> SUFFICES ASSUME NEW e, Fits(e, n) PROVE Fits(e, n)'
    OBVIOUS
  <1>1. e = NoEntry /\ Owners(n) = {}
    BY DEF Fits
  <1>2. Owners(n)' = {p}
    <2>1. p \in Owners(n)'
      BY OwnersHere
    <2>2. \A q \in Owners(n)' : q = p
      BY <1>1, OwnersHere
    <2> QED
      BY <2>1, <2>2
  <1>3. vm[n] = 0
    BY <1>1 DEF Fits
  <1>4. proc'[p] = r /\ backend' = backend
    BY WorkProcs DEF Work
  <1> QED
    BY <1>1, <1>2, <1>3, <1>4 DEF Fits

\* The record of a command that goes on to boot.
LEMMA MadeRecord ==
  ASSUME LocalInv, NEW p \in Procs, NEW own \in BOOLEAN, Made(p, own), proc[p].pc = "make"
  PROVE  \E r \in ProcType :
           /\ proc' = [proc EXCEPT ![p] = r] /\ r.pc = "boot" /\ r.own = own
           /\ r.cmd = "create" /\ r.cmd = proc[p].cmd /\ r.name = Name(p) /\ r.view = proc[p].view
           /\ r.entry = proc[p].entry /\ r.stale = proc[p].stale /\ Knows(r)
  <1> DEFINE r == [proc[p] EXCEPT !.pc = "boot", !.own = own]
  <1>1. proc' = [proc EXCEPT ![p] = r]
    BY DEF Made
  <1>2. /\ r \in ProcType /\ r.pc = "boot" /\ r.own = own /\ r.cmd = proc[p].cmd
        /\ r.name = proc[p].name /\ r.view = proc[p].view /\ r.entry = proc[p].entry
        /\ r.stale = proc[p].stale /\ r.then = proc[p].then
    BY AtWorkFacts DEF ProcType
  <1> HIDE DEF r
  <1>3. proc[p].cmd = "create" /\ Knows(proc[p])
    BY AtWorkFacts DEF Knows
  <1>4. Knows(r)
    BY <1>2, <1>3 DEF Knows, Working
  <1> QED
    BY <1>1, <1>2, <1>3, <1>4 DEF Name

\* docker create and incus init: the one who makes the runtime owns it.
LEMMA MakeContainerInv ==
  ASSUME LocalInv, NEW p \in Procs, MakeDocker(p) \/ MakeIncus(p)
  PROVE  LocalInv'
  <1>0. PICK n \in Names : n = Name(p)
    BY AtWorkFacts
  <1>1. /\ proc[p].pc = "make" /\ backend[n] # "lima"
        /\ IF rt[n] = "missing" THEN rt' = [rt EXCEPT ![n] = "made"] /\ Made(p, TRUE)
           ELSE Goes(p, "done") /\ UNCHANGED rt
        /\ UNCHANGED <<backend, file, fwd, vm, blame, pids>>
    BY <1>0 DEF MakeDocker, MakeIncus, MakeContainer, At, Kind
  <1>2. CASE rt[n] = "missing"
    <2>1. PICK r \in ProcType :
           /\ proc' = [proc EXCEPT ![p] = r] /\ r.pc = "boot" /\ r.own = TRUE
           /\ r.cmd = "create" /\ r.cmd = proc[p].cmd /\ r.name = n /\ r.view = proc[p].view
           /\ r.entry = proc[p].entry /\ r.stale = proc[p].stale /\ Knows(r)
      BY <1>0, <1>1, <1>2, MadeRecord
    <2>2. /\ rt' \in [Names -> RtStates] /\ rt'[n] = "made"
          /\ \A m \in Names : m # n => rt'[m] = rt[m]
      BY <1>0, <1>1, <1>2, AtWorkFacts DEF LocalInv, LocalTypeOK, RtStates
    <2>3. Work(p, r)
      BY <1>0, <1>1, <2>1, <2>2 DEF Work, LocalInv, LocalTypeOK
    <2>4. \A e : Fits(e, n) => Fits(e, n)'
      BY <1>0, <1>1, <1>2, <2>1, <2>2, <2>3, OwnerFits, AtWorkFacts DEF LocalInv
    <2>5. Agrees(n)'
      BY <1>0, <2>1, <2>3, <2>4, WorkQuiet, AtWorkFacts DEF LocalInv
    <2> QED
      BY <1>0, <1>1, <2>1, <2>3, <2>5, WorkInv, AtWorkFacts DEF LocalInv, LocalTypeOK
  <1>3. CASE rt[n] # "missing"
    <2>1. PICK r \in ProcType :
           /\ proc' = [proc EXCEPT ![p] = r] /\ r.pc = "done"
           /\ r.cmd = proc[p].cmd /\ r.name = n /\ r.view = proc[p].view
           /\ r.entry = proc[p].entry /\ r.stale = proc[p].stale
           /\ r.own = proc[p].own /\ r.then = proc[p].then
      BY <1>0, <1>1, <1>3, Moved DEF LocalInv
    <2>2. Knows(r)
      BY <2>1, AtWorkFacts DEF Knows, Working
    <2>3. Work(p, r)
      BY <1>0, <1>1, <1>3, <2>1, <2>2 DEF Work, LocalInv, LocalTypeOK
    <2> QED
      BY <1>0, <1>1, <1>3, <2>1, <2>3, NothingMade, AtWorkFacts
  <1> QED
    BY <1>2, <1>3

\* Blame only grows.
LEMMA BlamedFacts ==
  ASSUME NEW names, NEW cause, Blamed(names, cause)
  PROVE  \A n \in Names : blame'[n] = {} => blame[n] = {} /\ n \notin names
  BY DEF Blamed

\* A create that shares the runtime of another, or gives up, is blamed when it
\* has touched it.
LEMMA MakeLimaInv ==
  ASSUME LocalInv, NEW p \in Procs, MakeLima(p)
  PROVE  LocalInv'
  <1>0. PICK n \in Names : n = Name(p)
    BY AtWorkFacts
  <1>1. /\ proc[p].pc = "make" /\ backend[n] = "lima"
        /\ UNCHANGED <<backend, file, vm, pids>>
        /\ \/ /\ IF rt[n] = "missing" THEN Goes(p, "done") ELSE Made(p, FALSE)
              /\ Blamed({n}, "shared") /\ UNCHANGED <<rt, fwd>>
           \/ /\ rt[n] = "missing" /\ rt' = [rt EXCEPT ![n] = "made"]
              /\ fwd' = [fwd EXCEPT ![n] = proc[p].entry.ports]
              /\ Made(p, TRUE) /\ UNCHANGED blame
           \/ /\ rt' = [rt EXCEPT ![n] = "missing"] /\ fwd' = [fwd EXCEPT ![n] = {}]
              /\ Goes(p, "done") /\ Blamed({n}, "shared")
    BY <1>0 DEF MakeLima, At, Kind
  <1>2. /\ \A m \in Names : blame'[m] = {} => blame[m] = {}
        /\ rt' \in [Names -> RtStates] /\ fwd' \in [Names -> SUBSET Ports] /\ vm' \in [Names -> Nat]
        /\ \A m \in Names : m # n => rt'[m] = rt[m] /\ fwd'[m] = fwd[m] /\ vm'[m] = vm[m]
    <2>1. proc[p].entry \in EntryType /\ proc[p].entry.ports \in SUBSET Ports
      BY EntryFacts, AtWorkFacts DEF ProcType
    <2>2. rt \in [Names -> RtStates] /\ fwd \in [Names -> SUBSET Ports] /\ vm \in [Names -> Nat]
      BY DEF LocalInv, LocalTypeOK
    <2>3. "made" \in RtStates /\ "missing" \in RtStates
      BY DEF RtStates
    <2>4. \A m \in Names : blame'[m] = {} => blame[m] = {}
      BY <1>1, BlamedFacts
    <2>5. /\ rt' \in [Names -> RtStates]
          /\ \A m \in Names : m # n => rt'[m] = rt[m]
      BY <1>1, <2>2, <2>3
    <2>6. /\ fwd' \in [Names -> SUBSET Ports]
          /\ \A m \in Names : m # n => fwd'[m] = fwd[m]
      BY <1>1, <2>1, <2>2
    <2> QED
      BY <1>1, <2>2, <2>4, <2>5, <2>6
  <1>3. CASE Goes(p, "done") /\ Blamed({n}, "shared")
    <2>1. PICK r \in ProcType :
           /\ proc' = [proc EXCEPT ![p] = r] /\ r.pc = "done"
           /\ r.cmd = proc[p].cmd /\ r.name = Name(p) /\ r.view = proc[p].view
           /\ r.entry = proc[p].entry /\ r.stale = proc[p].stale
           /\ r.own = proc[p].own /\ r.then = proc[p].then
      BY <1>3, Moved DEF LocalInv
    <2>2. Knows(r)
      BY <2>1, AtWorkFacts DEF Knows, Working
    <2>3. Work(p, r)
      BY <1>0, <1>1, <1>2, <2>1, <2>2 DEF Work
    <2>4. blame'[n] # {}
      BY <1>3, BlamedFacts
    <2>5. Agrees(n)'
      BY <2>4 DEF Agrees, Doomed
    <2> QED
      BY <1>0, <1>1, <2>1, <2>3, <2>5, WorkInv, AtWorkFacts DEF LocalInv, LocalTypeOK
  <1>4. CASE Made(p, FALSE) /\ Blamed({n}, "shared")
    <2>1. PICK r \in ProcType :
           /\ proc' = [proc EXCEPT ![p] = r] /\ r.pc = "boot" /\ r.own = FALSE
           /\ r.cmd = "create" /\ r.cmd = proc[p].cmd /\ r.name = Name(p) /\ r.view = proc[p].view
           /\ r.entry = proc[p].entry /\ r.stale = proc[p].stale /\ Knows(r)
      BY <1>1, <1>4, MadeRecord
    <2>3. Work(p, r)
      BY <1>0, <1>1, <1>2, <2>1 DEF Work
    <2>4. blame'[n] # {}
      BY <1>4, BlamedFacts
    <2>5. Agrees(n)'
      BY <2>4 DEF Agrees, Doomed
    <2> QED
      BY <1>0, <1>1, <2>1, <2>3, <2>4, <2>5, WorkInv, AtWorkFacts DEF LocalInv, LocalTypeOK
  <1>5. CASE /\ rt[n] = "missing" /\ rt' = [rt EXCEPT ![n] = "made"]
             /\ fwd' = [fwd EXCEPT ![n] = proc[p].entry.ports]
             /\ Made(p, TRUE) /\ UNCHANGED blame
    <2>1. PICK r \in ProcType :
           /\ proc' = [proc EXCEPT ![p] = r] /\ r.pc = "boot" /\ r.own = TRUE
           /\ r.cmd = "create" /\ r.cmd = proc[p].cmd /\ r.name = Name(p) /\ r.view = proc[p].view
           /\ r.entry = proc[p].entry /\ r.stale = proc[p].stale /\ Knows(r)
      BY <1>1, <1>5, MadeRecord
    <2>2. rt'[n] = "made" /\ fwd'[n] = r.entry.ports
      BY <1>5, <2>1 DEF LocalInv, LocalTypeOK
    <2>3. Work(p, r)
      BY <1>0, <1>1, <1>2, <2>1 DEF Work
    <2>4. \A e : Fits(e, n) => Fits(e, n)'
      BY <1>0, <1>1, <1>5, <2>1, <2>2, <2>3, OwnerFits DEF LocalInv
    <2>5. Agrees(n)'
      BY <1>0, <2>1, <2>3, <2>4, WorkQuiet, AtWorkFacts DEF LocalInv
    <2> QED
      BY <1>0, <1>1, <2>1, <2>3, <2>5, WorkInv, AtWorkFacts DEF LocalInv, LocalTypeOK
  <1> QED
    BY <1>1, <1>3, <1>4, <1>5

\* A disk that was there is blamed; the create owns it all the same.
LEMMA MakeFirecrackerInv ==
  ASSUME LocalInv, NEW p \in Procs, MakeFirecracker(p)
  PROVE  LocalInv'
  <1>0. PICK n \in Names : n = Name(p)
    BY AtWorkFacts
  <1>1. /\ proc[p].pc = "make" /\ backend[n] = "firecracker" /\ Made(p, TRUE)
        /\ rt' = [rt EXCEPT ![n] = IF rt[n] = "missing" THEN "made" ELSE rt[n]]
        /\ IF rt[n] = "missing" THEN UNCHANGED blame ELSE Blamed({n}, "shared")
        /\ UNCHANGED <<backend, file, fwd, vm, pids>>
    BY <1>0 DEF MakeFirecracker, At, Kind
  <1>2. /\ \A m \in Names : blame'[m] = {} => blame[m] = {}
        /\ rt' \in [Names -> RtStates] /\ rt'[n] # "missing"
        /\ \A m \in Names : m # n => rt'[m] = rt[m]
    <2>1. rt \in [Names -> RtStates] /\ "made" \in RtStates
      BY DEF LocalInv, LocalTypeOK, RtStates
    <2> QED
      BY <1>1, <2>1, BlamedFacts
  <1>3. PICK r \in ProcType :
         /\ proc' = [proc EXCEPT ![p] = r] /\ r.pc = "boot" /\ r.own = TRUE
         /\ r.cmd = "create" /\ r.cmd = proc[p].cmd /\ r.name = Name(p) /\ r.view = proc[p].view
         /\ r.entry = proc[p].entry /\ r.stale = proc[p].stale /\ Knows(r)
    BY <1>1, MadeRecord
  <1>4. Work(p, r)
    BY <1>0, <1>1, <1>2, <1>3 DEF Work, LocalInv, LocalTypeOK
  <1>5. CASE rt[n] = "missing"
    <2>1. \A e : Fits(e, n) => Fits(e, n)'
      BY <1>0, <1>1, <1>2, <1>3, <1>4, <1>5, OwnerFits DEF LocalInv
    <2>2. Agrees(n)'
      BY <1>0, <1>3, <1>4, <2>1, WorkQuiet, AtWorkFacts DEF LocalInv
    <2> QED
      BY <1>0, <1>1, <1>3, <1>4, <2>2, WorkInv, AtWorkFacts DEF LocalInv, LocalTypeOK
  <1>6. CASE rt[n] # "missing"
    <2>1. blame'[n] # {}
      BY <1>1, <1>6, BlamedFacts
    <2>2. Agrees(n)'
      BY <2>1 DEF Agrees, Doomed
    <2> QED
      BY <1>0, <1>1, <1>3, <1>4, <2>2, WorkInv, AtWorkFacts DEF LocalInv, LocalTypeOK
  <1> QED
    BY <1>5, <1>6

\* A create that has booted what it owns is about to list it, as it is.
LEMMA CreateSaves ==
  ASSUME LocalInv, NEW p \in Procs, NEW r, Work(p, r), NEW n \in Names, n = Name(p),
         proc[p].pc = "boot", proc[p].cmd = "create", r.pc = "save", r.entry # NoEntry,
         r.entry.ports = proc[p].entry.ports,
         rt'[n] # "missing", fwd'[n] = fwd[n], backend[n] = "firecracker" => r.entry.pid = vm'[n]
  PROVE  Agrees(n)'
  <1>1. proc[p].view[n] = NoEntry /\ r.cmd = "create"
    BY AtWorkFacts DEF Knows, Working, Work
  <1>2. Plan(r) = r.entry
    BY <1>1 DEF Plan
  <1>3. ASSUME blame'[n] = {}, Fits(NoEntry, n)
        PROVE  Fits(r.entry, n)'
    <2>1. proc[p].own
      BY <1>3, AtWorkFacts DEF Makes, Work
    <2>2. p \in Owners(n)
      BY <2>1, OwnersHere DEF LocalInv
    <2>3. Owners(n)' = {}
      <3>1. ASSUME NEW q \in Owners(n)' PROVE FALSE
        <4>1. q \in Procs /\ q # p /\ q \in Owners(n)
          BY <3>1, OwnersHere DEF LocalInv
        <4> QED
          BY <1>3, <2>2, <4>1 DEF Fits
      <3> QED
        BY <3>1
    <2>4. backend[n] = "lima" => fwd[n] = proc[p].entry.ports
      BY <1>3, <2>2 DEF Fits
    <2>5. backend' = backend
      BY DEF Work
    <2> QED
      BY <2>3, <2>4, <2>5 DEF Fits
  <1>4. blame'[n] = {} => Plan(r) # proc[p].view[n] /\ (Fits(proc[p].view[n], n) => Fits(Plan(r), n)')
    BY <1>1, <1>2, <1>3
  <1> QED
    BY <1>4, WorkSaves DEF LocalInv

\* docker start, incus start and limactl start, of a create or of a start.
LEMMA RunsInv ==
  ASSUME LocalInv, NEW p \in Procs, BootContainer(p) \/ BootLima(p)
  PROVE  LocalInv'
  <1>0. PICK n \in Names : n = Name(p)
    BY AtWorkFacts
  <1>1. /\ proc[p].pc = "boot" /\ backend[n] # "firecracker" /\ rt[n] # "missing"
        /\ rt' = [rt EXCEPT ![n] = "running"]
        /\ Goes(p, IF proc[p].cmd = "create" THEN "save" ELSE "done")
        /\ UNCHANGED <<backend, file, fwd, vm, blame, pids>>
    BY <1>0 DEF BootContainer, BootLima, Runs, At, Kind, AfterBoot
  <1>2. /\ rt' \in [Names -> RtStates] /\ rt'[n] = "running"
        /\ \A m \in Names : m # n => rt'[m] = rt[m]
    <2>1. rt \in [Names -> RtStates] /\ "running" \in RtStates
      BY DEF LocalInv, LocalTypeOK, RtStates
    <2> QED
      BY <1>1, <2>1
  <1>3. PICK r \in ProcType :
         /\ proc' = [proc EXCEPT ![p] = r] /\ r.pc = IF proc[p].cmd = "create" THEN "save" ELSE "done"
         /\ r.cmd = proc[p].cmd /\ r.name = Name(p) /\ r.view = proc[p].view
         /\ r.entry = proc[p].entry /\ r.stale = proc[p].stale
         /\ r.own = proc[p].own /\ r.then = proc[p].then
    BY <1>1, Moved DEF LocalInv
  <1>4. Knows(r)
    BY <1>1, <1>3, AtWorkFacts DEF Knows, Working
  <1>5. Work(p, r)
    BY <1>0, <1>1, <1>2, <1>3, <1>4 DEF Work, LocalInv, LocalTypeOK
  <1>6. CASE proc[p].cmd = "create"
    <2>1. r.entry # NoEntry
      BY <1>1, <1>3, AtWorkFacts DEF Knows, Working
    <2>2. Agrees(n)'
      BY <1>0, <1>1, <1>2, <1>3, <1>5, <1>6, <2>1, CreateSaves
    <2> QED
      BY <1>0, <1>1, <1>3, <1>5, <1>6, <2>2, WorkInv, AtWorkFacts DEF LocalInv, LocalTypeOK
  <1>7. CASE proc[p].cmd # "create"
    <2>1. ~proc[p].own
      BY <1>7, AtWorkFacts DEF Knows
    <2> QED
      BY <1>0, <1>1, <1>2, <1>3, <1>5, <1>7, <2>1, NothingMade, AtWorkFacts
  <1> QED
    BY <1>6, <1>7

\* A start of a Firecracker VM: the new process is not that of the entry.
LEMMA BootFirecrackerInv ==
  ASSUME LocalInv, NEW p \in Procs, BootFirecracker(p)
  PROVE  LocalInv'
  <1>0. PICK n \in Names : n = Name(p)
    BY AtWorkFacts
  <1> DEFINE pc == IF proc[p].cmd = "create" THEN "save" ELSE "reload"
             s == [proc[p] EXCEPT !.pc = pc, !.then = "done",
                                  !.entry = [proc[p].entry EXCEPT !.pid = pids + 1]]
  <1>1. /\ proc[p].pc = "boot" /\ backend[n] = "firecracker" /\ rt[n] # "missing"
        /\ rt' = [rt EXCEPT ![n] = "running"]
        /\ pids' = pids + 1 /\ vm' = [vm EXCEPT ![n] = pids + 1]
        /\ IF vm[n] # 0 THEN Blamed({n}, "again") ELSE UNCHANGED blame
        /\ UNCHANGED <<backend, file, fwd>>
    BY <1>0 DEF BootFirecracker, At, Kind
  <1>2. /\ rt' \in [Names -> RtStates] /\ rt'[n] = "running"
        /\ \A m \in Names : m # n => rt'[m] = rt[m]
    <2>1. rt \in [Names -> RtStates] /\ "running" \in RtStates
      BY DEF LocalInv, LocalTypeOK, RtStates
    <2> QED
      BY <1>1, <2>1
  <1>3. /\ pids \in Nat /\ pids' \in Nat /\ pids <= pids'
        /\ vm' \in [Names -> Nat] /\ vm'[n] = pids + 1
        /\ \A m \in Names : m # n => vm'[m] = vm[m]
    BY <1>1 DEF LocalInv, LocalTypeOK
  <1>4. \A m \in Names : blame'[m] = {} => blame[m] = {}
    BY <1>1, BlamedFacts
  <1>5. proc[p].cmd \in {"create", "start"}
    BY <1>1, AtWorkFacts DEF Knows
  <1>6. proc' = [proc EXCEPT ![p] = s]
    <2>1. AfterBoot(p) = pc
      BY <1>0, <1>1, <1>5 DEF AfterBoot, Kind
    <2> QED
      BY <2>1 DEF BootFirecracker
  <1>7. /\ proc[p].entry \in EntryType /\ proc[p].entry # NoEntry
        /\ [proc[p].entry EXCEPT !.pid = pids + 1] = Entry(proc[p].entry.ports, pids + 1)
        /\ Entry(proc[p].entry.ports, pids + 1) \in EntryType
    <2>1. proc[p].entry \in EntryType /\ proc[p].entry # NoEntry
      BY <1>1, AtWorkFacts DEF ProcType, Knows, Working
    <2>2. proc[p].entry.ports \in SUBSET Ports
      BY <2>1, EntryFacts
    <2>3. [proc[p].entry EXCEPT !.pid = pids + 1] = Entry(proc[p].entry.ports, pids + 1)
      BY <2>1 DEF EntryType, Entry
    <2> QED
      BY <1>3, <2>1, <2>2, <2>3, EntryFacts
  <1>8. /\ s \in ProcType /\ s.pc = pc /\ s.then = "done"
        /\ s.entry = Entry(proc[p].entry.ports, pids + 1)
        /\ s.cmd = proc[p].cmd /\ s.name = Name(p) /\ s.view = proc[p].view
        /\ s.stale = proc[p].stale /\ s.own = proc[p].own
    BY <1>7, AtWorkFacts DEF ProcType
  <1> HIDE DEF s
  <1>9. PICK r \in ProcType : r = s
    BY <1>8
  <1>10. /\ r.entry # NoEntry /\ r.entry.pid = pids + 1 /\ r.entry.ports = proc[p].entry.ports
    BY <1>3, <1>7, <1>8, <1>9, EntryFacts
  <1>11. Knows(r)
    BY <1>1, <1>5, <1>8, <1>9, <1>10, AtWorkFacts DEF Knows, Working
  <1>12. Work(p, r)
    BY <1>0, <1>1, <1>2, <1>3, <1>4, <1>6, <1>8, <1>9, <1>11 DEF Work, LocalInv, LocalTypeOK
  <1>13. Agrees(n)'
    <2>1. CASE proc[p].cmd = "create"
      BY <1>0, <1>1, <1>2, <1>3, <1>8, <1>9, <1>10, <1>12, <2>1, CreateSaves
    <2>2. CASE proc[p].cmd = "start"
      <3>1. r.pc = "reload" /\ Plan(r) = r.entry
        BY <1>8, <1>9, <2>2 DEF Plan
      <3>2. ASSUME n \notin proc[p].stale
            PROVE  Plan(r) # proc[p].view[n] /\ (Fits(proc[p].view[n], n) => Fits(Plan(r), n)')
        <4>1. proc[p].view[n] # NoEntry /\ proc[p].view[n] \in EntryType
          BY <1>0, <1>1, <2>2, <3>2, AtWorkFacts DEF Knows, Working, ProcType
        <4>2. proc[p].view[n].pid # pids + 1
          <5> SUFFICES ASSUME proc[p].view[n].pid = pids + 1 PROVE FALSE
            OBVIOUS
          <5>1. pids + 1 \in Nat \ {0} /\ Mentions(n, pids + 1)
            BY <1>3 DEF Mentions
          <5>2. pids + 1 <= pids
            BY <5>1 DEF LocalInv, Pids
          <5> QED
            BY <1>3, <5>2
        <4>3. ASSUME Fits(proc[p].view[n], n) PROVE Fits(Plan(r), n)'
          <5>1. Owners(n) = {}
            BY <4>1, <4>3 DEF Fits
          <5>2. ~r.own
            BY <1>8, <1>9, <2>2, AtWorkFacts DEF Knows
          <5>3. Owners(n)' = {}
            BY <1>0, <1>12, <5>1, <5>2, OwnersHere DEF LocalInv
          <5>4. backend' = backend
            BY <1>1
          <5> QED
            BY <1>1, <1>2, <1>3, <1>10, <3>1, <5>3, <5>4 DEF Fits
        <4> QED
          BY <1>10, <3>1, <4>2, <4>3
      <3> QED
        BY <1>0, <1>12, <3>1, <3>2, WorkSaves, AtWorkFacts DEF LocalInv
    <2> QED
      BY <1>5, <2>1, <2>2
  <1>14. r.pc # "boot"
    BY <1>8, <1>9
  <1> QED
    BY <1>0, <1>1, <1>3, <1>10, <1>12, <1>13, <1>14, WorkInv

\* A create that fails removes what it owns: nothing is listed then.
LEMMA BootFailsInv ==
  ASSUME LocalInv, NEW p \in Procs, BootFails(p)
  PROVE  LocalInv'
  <1>0. PICK n \in Names : n = Name(p)
    BY AtWorkFacts
  <1>1. /\ proc[p].pc = "boot" /\ Goes(p, "done") /\ Cleanup(p)
        /\ UNCHANGED <<backend, file, blame, pids>>
    BY DEF BootFails, At
  <1>2. PICK r \in ProcType :
         /\ proc' = [proc EXCEPT ![p] = r] /\ r.pc = "done"
         /\ r.cmd = proc[p].cmd /\ r.name = Name(p) /\ r.view = proc[p].view
         /\ r.entry = proc[p].entry /\ r.stale = proc[p].stale
         /\ r.own = proc[p].own /\ r.then = proc[p].then
    BY <1>1, Moved DEF LocalInv
  <1>3. Knows(r)
    BY <1>2, AtWorkFacts DEF Knows, Working
  <1>4. CASE proc[p].own
    <2>1. /\ rt' = [rt EXCEPT ![n] = "missing"] /\ fwd' = [fwd EXCEPT ![n] = {}]
          /\ vm' = [vm EXCEPT ![n] = 0]
      BY <1>0, <1>1, <1>4 DEF Cleanup
    <2>2. /\ rt' \in [Names -> RtStates] /\ fwd' \in [Names -> SUBSET Ports] /\ vm' \in [Names -> Nat]
          /\ \A m \in Names : m # n => rt'[m] = rt[m] /\ fwd'[m] = fwd[m] /\ vm'[m] = vm[m]
          /\ rt'[n] = "missing" /\ vm'[n] = 0
      <3>1. "missing" \in RtStates
        BY DEF RtStates
      <3> QED
        BY <2>1, <3>1 DEF LocalInv, LocalTypeOK
    <2>3. Work(p, r)
      BY <1>0, <1>1, <1>2, <1>3, <2>2 DEF Work
    <2>4. ASSUME NEW e, Fits(e, n) PROVE Fits(e, n)'
      <3>1. p \in Owners(n)
        BY <1>0, <1>1, <1>4, <2>3, OwnersHere DEF LocalInv
      <3>2. e = NoEntry /\ \A q \in Owners(n) : q = p
        BY <2>4, <3>1 DEF Fits
      <3>3. \A q \in Owners(n)' : FALSE
        BY <1>0, <1>2, <2>3, <3>2, OwnersHere DEF LocalInv
      <3>4. Owners(n)' = {}
        BY <3>3
      <3> QED
        BY <2>2, <3>2, <3>4 DEF Fits
    <2>5. Agrees(n)'
      BY <1>0, <1>2, <2>3, <2>4, WorkQuiet, AtWorkFacts DEF LocalInv
    <2> QED
      BY <1>0, <1>1, <1>2, <2>2, <2>3, <2>5, WorkInv DEF LocalInv, LocalTypeOK
  <1>5. CASE ~proc[p].own
    <2>1. UNCHANGED <<rt, fwd, vm>>
      BY <1>1, <1>5 DEF Cleanup
    <2>2. Work(p, r)
      BY <1>1, <1>2, <1>3, <2>1 DEF Work, LocalInv, LocalTypeOK
    <2> QED
      BY <1>0, <1>1, <1>2, <1>5, <2>1, <2>2, NothingMade
  <1> QED
    BY <1>4, <1>5

\* The entry of a command gets ports, and is to be saved.
LEMMA PortsRecord ==
  ASSUME LocalInv, NEW p \in Procs, NEW ports \in SUBSET Ports, NEW then \in {"done", "boot"},
         proc[p].pc \in {"reconcile", "edit"}, then = "boot" => proc[p].pc = "reconcile",
         proc' = [proc EXCEPT ![p] = [proc[p] EXCEPT !.pc = "save", !.then = then,
                                        !.entry = [proc[p].entry EXCEPT !.ports = ports]]]
  PROVE  \E r \in ProcType :
           /\ proc' = [proc EXCEPT ![p] = r] /\ r.pc = "save"
           /\ r.entry = Entry(ports, proc[p].entry.pid) /\ r.entry # NoEntry /\ r.cmd # "create"
           /\ r.entry.pid = proc[p].entry.pid /\ r.entry.ports = ports
           /\ r.cmd = proc[p].cmd /\ r.name = Name(p) /\ r.view = proc[p].view
           /\ r.stale = proc[p].stale /\ r.own = proc[p].own /\ Knows(r) /\ Plan(r) = r.entry
  <1> DEFINE s == [proc[p] EXCEPT !.pc = "save", !.then = then,
                                  !.entry = [proc[p].entry EXCEPT !.ports = ports]]
  <1>1. proc[p].entry \in EntryType /\ proc[p].entry # NoEntry /\ proc[p].entry.pid \in Nat
    BY EntryFacts, AtWorkFacts DEF ProcType, Knows, Working
  <1>2. [proc[p].entry EXCEPT !.ports = ports] = Entry(ports, proc[p].entry.pid)
    BY <1>1 DEF EntryType, Entry
  <1>3. /\ Entry(ports, proc[p].entry.pid) \in EntryType /\ Entry(ports, proc[p].entry.pid) # NoEntry
        /\ Entry(ports, proc[p].entry.pid).pid = proc[p].entry.pid
        /\ Entry(ports, proc[p].entry.pid).ports = ports
    BY <1>1, EntryFacts
  <1>4. /\ s \in ProcType /\ s.pc = "save" /\ s.then = then
        /\ s.entry = Entry(ports, proc[p].entry.pid)
        /\ s.cmd = proc[p].cmd /\ s.name = Name(p) /\ s.view = proc[p].view
        /\ s.stale = proc[p].stale /\ s.own = proc[p].own
    BY <1>2, <1>3, AtWorkFacts DEF ProcType
  <1>5. proc' = [proc EXCEPT ![p] = s]
    OBVIOUS
  <1> HIDE DEF s
  <1>6. proc[p].cmd \in {"start", "ports"} /\ (then = "boot" => proc[p].cmd = "start")
    BY AtWorkFacts DEF Knows
  <1>7. Knows(s)
    BY <1>3, <1>4, <1>6, AtWorkFacts DEF Knows, Working
  <1>8. Plan(s) = s.entry
    BY <1>4, <1>6 DEF Plan
  <1> QED
    BY <1>3, <1>4, <1>5, <1>6, <1>7, <1>8

\* New ports are to be listed, as the VM forwards them.
LEMMA PortsSave ==
  ASSUME LocalInv, NEW p \in Procs, NEW r, Work(p, r), NEW n \in Names, n = Name(p),
         proc[p].pc \in {"reconcile", "edit"}, r.pc = "save", r.cmd # "create",
         r.entry # NoEntry, Plan(r) = r.entry,
         r.entry.pid = proc[p].entry.pid, r.entry.ports # proc[p].entry.ports,
         rt' = rt, vm' = vm, pids' = pids,
         backend[n] = "lima" /\ rt[n] # "missing" /\ fwd[n] = proc[p].entry.ports => fwd'[n] = r.entry.ports
  PROVE  LocalInv'
  <1>1. proc[p].entry = proc[p].view[n] /\ ~r.own /\ proc[p].entry # NoEntry /\ ~proc[p].own
    BY AtWorkFacts DEF Knows, Working, Work
  <1>2. ASSUME Fits(proc[p].view[n], n) PROVE Fits(Plan(r), n)'
    <2>1. Owners(n) = {} /\ rt[n] # "missing"
      BY <1>1, <1>2 DEF Fits
    <2>2. Owners(n)' = {}
      BY <1>1, <2>1, OwnersHere DEF LocalInv
    <2>3. /\ backend[n] = "lima" => fwd[n] = proc[p].entry.ports
          /\ backend[n] = "firecracker" => vm[n] \in {0, proc[p].entry.pid}
      BY <1>1, <1>2 DEF Fits
    <2>4. backend' = backend
      BY DEF Work
    <2> QED
      BY <2>1, <2>2, <2>3, <2>4 DEF Fits
  <1>3. Plan(r) # proc[p].view[n]
    BY <1>1
  <1>4. Agrees(n)'
    BY <1>2, <1>3, WorkSaves DEF LocalInv
  <1> QED
    BY <1>4, WorkInv, AtWorkFacts DEF LocalInv, LocalTypeOK

\* The ports of codewire.yaml, which a stopped Lima VM forwards from now on.
LEMMA ReconcileInv ==
  ASSUME LocalInv, NEW p \in Procs, NEW ports \in SUBSET Ports, Reconcile(p, ports)
  PROVE  LocalInv'
  <1>0. PICK n \in Names : n = Name(p)
    BY AtWorkFacts
  <1>1. /\ proc[p].pc = "reconcile" /\ UNCHANGED <<backend, file, rt, vm, blame, pids>>
        /\ \/ \E pc \in {"boot", "done"} : Goes(p, pc) /\ UNCHANGED fwd
           \/ /\ proc[p].entry.ports # ports
              /\ proc' = [proc EXCEPT ![p] = [proc[p] EXCEPT !.pc = "save", !.then = "boot",
                                        !.entry = [proc[p].entry EXCEPT !.ports = ports]]]
              /\ IF backend[n] = "lima" /\ rt[n] # "missing"
                   THEN fwd' = [fwd EXCEPT ![n] = ports] ELSE UNCHANGED fwd
    <2>1. CASE proc[p].entry.ports = ports
      <3>1. Goes(p, "boot") /\ UNCHANGED fwd
        BY <2>1, Zenon DEF Reconcile
      <3> QED
        BY <3>1 DEF Reconcile, At
    <2>2. CASE proc[p].entry.ports # ports /\ Kind(p) = "lima" /\ rt[Name(p)] = "running"
      <3>1. Goes(p, "done") /\ UNCHANGED fwd
        BY <2>2 DEF Reconcile
      <3> QED
        BY <3>1 DEF Reconcile, At
    <2>3. CASE proc[p].entry.ports # ports /\ ~(Kind(p) = "lima" /\ rt[Name(p)] = "running")
      <3>1. /\ proc' = [proc EXCEPT ![p].pc = "save", ![p].then = "boot", ![p].entry.ports = ports]
            /\ IF Kind(p) = "lima" /\ rt[Name(p)] # "missing"
                 THEN fwd' = [fwd EXCEPT ![Name(p)] = ports] ELSE UNCHANGED fwd
        BY <2>3 DEF Reconcile
      <3>2. proc' = [proc EXCEPT ![p] = [proc[p] EXCEPT !.pc = "save", !.then = "boot",
                                        !.entry = [proc[p].entry EXCEPT !.ports = ports]]]
        BY <3>1
      <3>3. proc[p].pc = "reconcile" /\ UNCHANGED <<backend, file, rt, vm, blame, pids>>
        BY DEF Reconcile, At
      <3> QED
        BY <1>0, <2>3, <3>1, <3>2, <3>3 DEF Kind
    <2> QED
      BY <2>1, <2>2, <2>3
  <1>2. proc[p].cmd = "start" /\ ~proc[p].own
    BY <1>1, AtWorkFacts DEF Knows
  <1>3. ASSUME NEW pc \in {"boot", "done"}, Goes(p, pc), UNCHANGED fwd
        PROVE  LocalInv'
    <2>1. PICK r \in ProcType :
           /\ proc' = [proc EXCEPT ![p] = r] /\ r.pc = pc
           /\ r.cmd = proc[p].cmd /\ r.name = Name(p) /\ r.view = proc[p].view
           /\ r.entry = proc[p].entry /\ r.stale = proc[p].stale
           /\ r.own = proc[p].own /\ r.then = proc[p].then
      BY <1>3, Moved DEF LocalInv
    <2>2. Knows(r)
      BY <1>1, <1>2, <2>1, AtWorkFacts DEF Knows, Working
    <2>3. Work(p, r)
      BY <1>1, <1>3, <2>1, <2>2 DEF Work, LocalInv, LocalTypeOK
    <2> QED
      BY <1>0, <1>1, <1>2, <1>3, <2>1, <2>3, NothingMade
  <1>4. CASE /\ proc[p].entry.ports # ports
             /\ proc' = [proc EXCEPT ![p] = [proc[p] EXCEPT !.pc = "save", !.then = "boot",
                                        !.entry = [proc[p].entry EXCEPT !.ports = ports]]]
             /\ IF backend[n] = "lima" /\ rt[n] # "missing"
                   THEN fwd' = [fwd EXCEPT ![n] = ports] ELSE UNCHANGED fwd
    <2>1. PICK r \in ProcType :
           /\ proc' = [proc EXCEPT ![p] = r] /\ r.pc = "save"
           /\ r.entry = Entry(ports, proc[p].entry.pid) /\ r.entry # NoEntry /\ r.cmd # "create"
           /\ r.entry.pid = proc[p].entry.pid /\ r.entry.ports = ports
           /\ r.cmd = proc[p].cmd /\ r.name = Name(p) /\ r.view = proc[p].view
           /\ r.stale = proc[p].stale /\ r.own = proc[p].own /\ Knows(r) /\ Plan(r) = r.entry
      BY <1>1, <1>4, PortsRecord
    <2>2. /\ fwd' \in [Names -> SUBSET Ports]
          /\ \A m \in Names : m # n => fwd'[m] = fwd[m]
          /\ backend[n] = "lima" /\ rt[n] # "missing" => fwd'[n] = ports
      BY <1>4 DEF LocalInv, LocalTypeOK
    <2>3. Work(p, r)
      BY <1>0, <1>1, <2>1, <2>2 DEF Work, LocalInv, LocalTypeOK
    <2> QED
      BY <1>0, <1>1, <1>4, <2>1, <2>2, <2>3, PortsSave
  <1> QED
    BY <1>1, <1>3, <1>4

\* A save of what was read keeps the invariant, when nothing was made or removed.
LEMMA NothingChanged ==
  ASSUME LocalInv, NEW p \in Procs, NEW r, Work(p, r), NEW n \in Names, n = Name(p),
         proc[p].pc # "boot", r.pc \in {"save", "reload"}, Plan(r) = proc[p].view[n],
         r.entry.pid \in {0, proc[p].entry.pid},
         rt'[n] = "missing" <=> rt[n] = "missing", fwd' = fwd, vm' = vm, pids' = pids
  PROVE  LocalInv'
  <1>1. \A e : Fits(e, n) => Fits(e, n)'
    BY FitsKept DEF LocalInv
  <1>2. Agrees(n)'
    BY <1>1, WorkSaves DEF LocalInv
  <1>3. pids \in Nat /\ (backend[n] # "firecracker" => vm[n] = 0)
    BY DEF LocalInv, LocalTypeOK, Pids
  <1> QED
    BY <1>2, <1>3, WorkInv

\* A port that is new is forwarded and will be listed.
LEMMA EditPortsInv ==
  ASSUME LocalInv, NEW p \in Procs, NEW port \in Ports, EditPorts(p, port)
  PROVE  LocalInv'
  <1>0. PICK n \in Names : n = Name(p)
    BY AtWorkFacts
  <1>1. proc[p].pc = "edit" /\ UNCHANGED <<backend, file, rt, vm, blame, pids>>
    BY DEF EditPorts, At
  <1>2. proc[p].cmd = "ports" /\ ~proc[p].own /\ proc[p].entry = proc[p].view[n]
    BY <1>0, <1>1, AtWorkFacts DEF Knows
  <1>3. ASSUME NEW pc \in {"save", "done"}, Goes(p, pc), UNCHANGED fwd
        PROVE  LocalInv'
    <2>1. PICK r \in ProcType :
           /\ proc' = [proc EXCEPT ![p] = r] /\ r.pc = pc
           /\ r.cmd = proc[p].cmd /\ r.name = Name(p) /\ r.view = proc[p].view
           /\ r.entry = proc[p].entry /\ r.stale = proc[p].stale
           /\ r.own = proc[p].own /\ r.then = proc[p].then
      BY <1>3, Moved DEF LocalInv
    <2>2. Knows(r)
      BY <1>1, <1>2, <2>1, AtWorkFacts DEF Knows, Working
    <2>3. Work(p, r)
      BY <1>1, <1>3, <2>1, <2>2 DEF Work, LocalInv, LocalTypeOK
    <2>4. Plan(r) = proc[p].view[n]
      BY <1>2, <2>1 DEF Plan
    <2>5. CASE pc = "save"
      BY <1>0, <1>1, <1>3, <2>1, <2>3, <2>4, <2>5, NothingChanged
    <2>6. CASE pc = "done"
      BY <1>0, <1>1, <1>2, <1>3, <2>1, <2>3, <2>6, NothingMade
    <2> QED
      BY <2>5, <2>6
  <1>4. CASE port \in proc[p].entry.ports \/ rt[n] = "missing"
    <2>1. \E pc \in {"save", "done"} : Goes(p, pc) /\ UNCHANGED fwd
      BY <1>0, <1>4 DEF EditPorts
    <2> QED
      BY <2>1, <1>3
  <1>5. CASE port \notin proc[p].entry.ports /\ rt[n] # "missing"
    <2> DEFINE ports == proc[p].entry.ports \cup {port}
    <2>1. /\ fwd' = [fwd EXCEPT ![n] = fwd[n] \cup {port}]
          /\ proc' = [proc EXCEPT ![p].pc = "save", ![p].entry.ports = @ \cup {port}]
      BY <1>0, <1>5 DEF EditPorts
    <2>2. proc[p] \in ProcType /\ proc[p].entry \in EntryType /\ proc[p].entry # NoEntry
      BY <1>1, AtWorkFacts DEF ProcType, Knows, Working
    <2>3. ports \in SUBSET Ports
      BY <2>2, EntryFacts
    <2>4. proc[p].then = "done"
      BY <1>2, <2>2, AtWorkFacts DEF Knows, ProcType
    <2>5. proc' = [proc EXCEPT ![p] = [proc[p] EXCEPT !.pc = "save", !.then = "done",
                                         !.entry = [proc[p].entry EXCEPT !.ports = ports]]]
      <3>1. [proc[p] EXCEPT !.pc = "save", !.entry.ports = ports] =
              [proc[p] EXCEPT !.pc = "save", !.then = "done",
                              !.entry = [proc[p].entry EXCEPT !.ports = ports]]
        BY <2>2, <2>4 DEF ProcType
      <3>2. proc' = [proc EXCEPT ![p] = [proc[p] EXCEPT !.pc = "save", !.entry.ports = ports]]
        BY <2>1
      <3> QED
        BY <3>1, <3>2
    <2>6. PICK newPorts \in SUBSET Ports : newPorts = ports
      BY <2>3
    <2>7. PICK r \in ProcType :
           /\ proc' = [proc EXCEPT ![p] = r] /\ r.pc = "save"
           /\ r.entry = Entry(newPorts, proc[p].entry.pid) /\ r.entry # NoEntry /\ r.cmd # "create"
           /\ r.entry.pid = proc[p].entry.pid /\ r.entry.ports = newPorts
           /\ r.cmd = proc[p].cmd /\ r.name = Name(p) /\ r.view = proc[p].view
           /\ r.stale = proc[p].stale /\ r.own = proc[p].own /\ Knows(r) /\ Plan(r) = r.entry
      BY <1>1, <2>5, <2>6, PortsRecord
    <2>8. /\ fwd' \in [Names -> SUBSET Ports] /\ fwd'[n] = fwd[n] \cup {port}
          /\ \A m \in Names : m # n => fwd'[m] = fwd[m]
      BY <2>1 DEF LocalInv, LocalTypeOK
    <2>9. Work(p, r)
      BY <1>0, <1>1, <2>7, <2>8 DEF Work, LocalInv, LocalTypeOK
    <2>10. r.entry.ports # proc[p].entry.ports
      BY <1>5, <2>6, <2>7
    <2>11. fwd[n] = proc[p].entry.ports => fwd'[n] = r.entry.ports
      BY <2>6, <2>7, <2>8
    <2> HIDE DEF ports
    <2> QED
      BY <1>0, <1>1, <2>7, <2>9, <2>10, <2>11, PortsSave
  <1> QED
    BY <1>4, <1>5

\* A stop of docker, incus or lima lists nothing; that of Firecracker stops the
\* process of its entry, and no other VM of the name or of another.
LEMMA HaltInv ==
  ASSUME LocalInv, NEW p \in Procs, Halt(p)
  PROVE  LocalInv'
  <1>0. PICK n \in Names : n = Name(p)
    BY AtWorkFacts
  <1>1. proc[p].pc = "halt" /\ UNCHANGED <<backend, file, fwd, blame, pids>>
    BY DEF Halt, At
  <1>2. proc[p].cmd = "stop" /\ ~proc[p].own /\ proc[p].entry = proc[p].view[n] /\ proc[p].entry # NoEntry
    BY <1>0, <1>1, AtWorkFacts DEF Knows, Working
  <1>3. rt \in [Names -> RtStates] /\ "stopped" \in RtStates /\ vm \in [Names -> Nat]
    BY DEF LocalInv, LocalTypeOK, RtStates
  <1>4. CASE backend[n] # "firecracker"
    <2>1. /\ rt' = [rt EXCEPT ![n] = IF rt[n] = "missing" THEN rt[n] ELSE "stopped"]
          /\ Goes(p, "done") /\ UNCHANGED vm
      BY <1>0, <1>4 DEF Halt, Kind
    <2>2. /\ rt' \in [Names -> RtStates] /\ (rt'[n] = "missing" <=> rt[n] = "missing")
          /\ \A m \in Names : m # n => rt'[m] = rt[m]
      BY <1>3, <2>1
    <2>3. PICK r \in ProcType :
           /\ proc' = [proc EXCEPT ![p] = r] /\ r.pc = "done"
           /\ r.cmd = proc[p].cmd /\ r.name = Name(p) /\ r.view = proc[p].view
           /\ r.entry = proc[p].entry /\ r.stale = proc[p].stale
           /\ r.own = proc[p].own /\ r.then = proc[p].then
      BY <2>1, Moved DEF LocalInv
    <2>4. Knows(r)
      BY <2>3, AtWorkFacts DEF Knows, Working
    <2>5. Work(p, r)
      BY <1>0, <1>1, <2>1, <2>2, <2>3, <2>4 DEF Work, LocalInv, LocalTypeOK
    <2> QED
      BY <1>0, <1>1, <1>2, <2>1, <2>2, <2>3, <2>5, NothingMade
  <1>5. CASE backend[n] = "firecracker"
    <2> DEFINE e == proc[p].entry
               s == [proc[p] EXCEPT !.pc = "reload", !.entry = [e EXCEPT !.pid = 0]]
    <2>1. /\ vm' = [m \in Names |-> IF vm[m] = e.pid THEN 0 ELSE vm[m]]
          /\ rt' = [rt EXCEPT ![n] = IF vm'[n] = 0 /\ rt[n] = "running" THEN "stopped" ELSE rt[n]]
          /\ proc' = [proc EXCEPT ![p].pc = "reload", ![p].entry.pid = 0]
      BY <1>0, <1>5 DEF Halt, Killed, Kind
    <2>2. /\ rt' \in [Names -> RtStates] /\ (rt'[n] = "missing" <=> rt[n] = "missing")
          /\ \A m \in Names : m # n => rt'[m] = rt[m]
      BY <1>3, <2>1
    <2>3. e \in EntryType /\ e.pid \in Nat /\ e.ports \in SUBSET Ports
      BY <1>2, EntryFacts, AtWorkFacts DEF ProcType
    <2>4. /\ vm' \in [Names -> Nat] /\ vm'[n] = IF vm[n] = e.pid THEN 0 ELSE vm[n]
          /\ \A m \in Names : m # n => vm'[m] = vm[m]
      <3>1. ASSUME NEW m \in Names, m # n, vm[m] = e.pid PROVE vm[m] = 0
        <4>1. Mentions(m, e.pid) /\ Mentions(n, e.pid)
          BY <1>0, <3>1 DEF Mentions
        <4> QED
          BY <2>3, <3>1, <4>1 DEF LocalInv, Pids
      <3> QED
        BY <1>3, <2>1, <3>1
    <2>5. /\ [e EXCEPT !.pid = 0] = Entry(e.ports, 0) /\ Entry(e.ports, 0) \in EntryType
          /\ Entry(e.ports, 0) # NoEntry /\ Entry(e.ports, 0).pid = 0
          /\ Entry(e.ports, 0).ports = e.ports
      <3>1. [e EXCEPT !.pid = 0] = Entry(e.ports, 0)
        BY <1>2, <2>3 DEF EntryType, Entry
      <3> QED
        BY <2>3, <3>1, EntryFacts
    <2>6. proc' = [proc EXCEPT ![p] = s]
      BY <2>1
    <2>7. /\ s \in ProcType /\ s.pc = "reload" /\ s.entry = Entry(e.ports, 0)
          /\ s.cmd = proc[p].cmd /\ s.name = Name(p) /\ s.view = proc[p].view
          /\ s.stale = proc[p].stale /\ s.own = proc[p].own /\ s.then = proc[p].then
      BY <2>5, AtWorkFacts DEF ProcType
    <2> HIDE DEF s
    <2>8. PICK r \in ProcType : r = s
      BY <2>7
    <2>9. Knows(r)
      BY <1>1, <1>2, <2>5, <2>7, <2>8, AtWorkFacts DEF Knows, Working
    <2>10. Work(p, r)
      BY <1>0, <1>1, <2>2, <2>4, <2>6, <2>7, <2>8, <2>9 DEF Work, LocalInv, LocalTypeOK
    <2>11. Plan(r) = Entry(e.ports, 0) /\ r.entry.pid = 0 /\ r.pc = "reload"
      BY <1>2, <2>5, <2>7, <2>8 DEF Plan
    <2>12. CASE e.pid = 0
      <3>1. vm' = vm
        BY <1>3, <2>1, <2>12
      <3>2. e = Entry(e.ports, 0)
        BY <1>2, <2>3, <2>12, EntryFacts
      <3> QED
        BY <1>0, <1>1, <1>2, <2>2, <2>10, <2>11, <3>1, <3>2, NothingChanged
    <2>13. CASE e.pid # 0
      <3>1. Plan(r) # proc[p].view[n]
        BY <1>2, <2>5, <2>11, <2>13
      <3>2. ASSUME Fits(proc[p].view[n], n) PROVE Fits(Plan(r), n)'
        <4>1. Owners(n) = {} /\ rt[n] # "missing" /\ vm[n] \in {0, e.pid}
          BY <1>2, <1>5, <3>2 DEF Fits
        <4>2. Owners(n)' = {}
          BY <1>0, <2>10, <2>11, <4>1, OwnersHere DEF LocalInv
        <4>3. vm'[n] = 0 /\ rt'[n] # "missing" /\ backend'[n] = "firecracker"
          BY <1>1, <1>5, <2>2, <2>4, <4>1
        <4> QED
          BY <2>5, <2>11, <4>2, <4>3 DEF Fits
      <3>3. Agrees(n)'
        BY <1>0, <2>10, <2>11, <3>1, <3>2, WorkSaves DEF LocalInv
      <3>4. pids \in Nat /\ vm'[n] \in {0, vm[n]}
        BY <2>4 DEF LocalInv, LocalTypeOK
      <3> QED
        BY <1>0, <1>1, <1>5, <2>10, <2>11, <3>3, <3>4, WorkInv
    <2> QED
      BY <2>12, <2>13
  <1> QED
    BY <1>4, <1>5

\* An rm removes the runtime first and the entry later.
LEMMA DeleteInv ==
  ASSUME LocalInv, NEW p \in Procs, Delete(p)
  PROVE  LocalInv'
  <1>0. PICK n \in Names : n = Name(p)
    BY AtWorkFacts
  <1>1. /\ proc[p].pc = "delete" /\ Goes(p, "save")
        /\ rt' = [rt EXCEPT ![n] = "missing"] /\ fwd' = [fwd EXCEPT ![n] = {}]
        /\ vm' = [vm EXCEPT ![n] = 0]
        /\ UNCHANGED <<backend, file, blame, pids>>
    BY <1>0 DEF Delete, At
  <1>2. /\ rt' \in [Names -> RtStates] /\ fwd' \in [Names -> SUBSET Ports] /\ vm' \in [Names -> Nat]
        /\ \A m \in Names : m # n => rt'[m] = rt[m] /\ fwd'[m] = fwd[m] /\ vm'[m] = vm[m]
        /\ rt'[n] = "missing" /\ vm'[n] = 0
    <2>1. "missing" \in RtStates
      BY DEF RtStates
    <2> QED
      BY <1>1, <2>1 DEF LocalInv, LocalTypeOK
  <1>3. PICK r \in ProcType :
         /\ proc' = [proc EXCEPT ![p] = r] /\ r.pc = "save"
         /\ r.cmd = proc[p].cmd /\ r.name = Name(p) /\ r.view = proc[p].view
         /\ r.entry = proc[p].entry /\ r.stale = proc[p].stale
         /\ r.own = proc[p].own /\ r.then = proc[p].then
    BY <1>1, Moved DEF LocalInv
  <1>4. proc[p].cmd = "rm" /\ ~proc[p].own
    BY <1>1, AtWorkFacts DEF Knows
  <1>5. Knows(r)
    BY <1>1, <1>3, <1>4, AtWorkFacts DEF Knows, Working
  <1>6. Work(p, r)
    BY <1>0, <1>1, <1>2, <1>3, <1>5 DEF Work
  <1>7. Plan(r) = NoEntry
    BY <1>3, <1>4 DEF Plan
  <1>8. ASSUME n \notin proc[p].stale
        PROVE  Plan(r) # proc[p].view[n] /\ (Fits(proc[p].view[n], n) => Fits(Plan(r), n)')
    <2>1. proc[p].view[n] # NoEntry
      BY <1>0, <1>1, <1>4, <1>8, AtWorkFacts DEF Knows, Working
    <2>2. ASSUME Fits(proc[p].view[n], n) PROVE Fits(NoEntry, n)'
      <3>1. Owners(n) = {}
        BY <2>1, <2>2 DEF Fits
      <3>2. \A q \in Owners(n)' : FALSE
        BY <1>0, <1>3, <1>6, <3>1, OwnersHere DEF LocalInv
      <3>3. Owners(n)' = {}
        BY <3>2
      <3> QED
        BY <1>2, <3>3 DEF Fits
    <2> QED
      BY <1>7, <2>1, <2>2
  <1>9. Agrees(n)'
    BY <1>0, <1>3, <1>6, <1>8, WorkSaves, AtWorkFacts DEF LocalInv
  <1> QED
    BY <1>0, <1>1, <1>2, <1>3, <1>6, <1>9, WorkInv DEF LocalInv, LocalTypeOK

-----------------------------------------------------------------------------
(* The steps that read or write the file                                   *)

\* The command p, and no other, goes on as r.
Steps(p, r) ==
  /\ proc' = [proc EXCEPT ![p] = r]
  /\ UNCHANGED backend /\ UNCHANGED runtimes
  /\ \A n \in Names : blame'[n] = {} => blame[n] = {}

\* Only the command p changes.
LEMMA StepsProcs ==
  ASSUME LocalTypeOK, NEW p \in Procs, NEW r \in ProcType, Steps(p, r)
  PROVE  /\ proc'[p] = r /\ \A q \in Procs : q # p => proc'[q] = proc[q]
         /\ proc' \in [Procs -> ProcType]
  BY DEF Steps, LocalTypeOK

\* What commands know is kept when the one that goes on knows it.
LEMMA StepsKnown ==
  ASSUME LocalInv, NEW p \in Procs, NEW r \in ProcType, Steps(p, r),
         Knows(r), r.pc = "boot" => r.cmd # "create"
  PROVE  Known'
  <1>1. Knows(proc'[p]) /\ Makes(proc[p])'
    <2>1. proc'[p] = r
      BY StepsProcs DEF LocalInv
    <2>2. Knows(proc'[p])
      BY <2>1, Zenon
    <2> QED
      BY <2>1, <2>2 DEF Makes
  <1>2. ASSUME NEW q \in Procs, q # p
        PROVE  Knows(proc'[q]) /\ Makes(proc[q])'
    <2>1. proc'[q] = proc[q]
      BY <1>2, StepsProcs DEF LocalInv
    <2>2. Knows(proc[q]) /\ Makes(proc[q]) /\ proc[q].name \in Names
      BY AtWorkFacts
    <2>3. blame'[proc[q].name] = {} => blame[proc[q].name] = {}
      BY <2>2 DEF Steps
    <2> QED
      BY <2>1, <2>2, <2>3 DEF Makes
  <1>3. \A q \in Procs : Knows(proc'[q]) /\ Makes(proc[q])'
    BY <1>1, <1>2
  <1> QED
    BY <1>3 DEF Known, Knows, Working

\* A step mentions no process that was not mentioned, when what a command reads
\* or writes is in the file, in its view or in its entry.
LEMMA StepsPids ==
  ASSUME LocalInv, LocalTypeOK', UNCHANGED backend, UNCHANGED runtimes,
         \A n \in Names, k \in Nat \ {0} : file'[n].pid = k => Mentions(n, k),
         \A q \in Procs, n \in Names, k \in Nat \ {0} :
           proc'[q].view[n].pid = k \/ (proc'[q].name = n /\ proc'[q].entry.pid = k) => Mentions(n, k)
  PROVE  Pids'
  <1>1. vm' = vm /\ pids' = pids /\ backend' = backend /\ pids \in Nat
    BY DEF runtimes, LocalInv, LocalTypeOK
  <1>2. ASSUME NEW n \in Names, NEW k \in Nat \ {0}, Mentions(n, k)'
        PROVE  Mentions(n, k)
    <2>1. CASE vm'[n] = k
      BY <1>1, <2>1 DEF Mentions
    <2>2. CASE file'[n].pid = k
      BY <2>2
    <2>3. CASE \E q \in Procs : proc'[q].view[n].pid = k \/ (proc'[q].name = n /\ proc'[q].entry.pid = k)
      BY <2>3
    <2> QED
      BY <1>2, <2>1, <2>2, <2>3 DEF Mentions, Name
  <1>3. PICK n \in Names : TRUE
    BY NamesAssumption
  <1>4. \A m \in Names : backend'[m] # "firecracker" => vm'[m] = 0
    BY <1>1 DEF LocalInv, Pids
  <1> QED
    BY <1>1, <1>2, <1>3, <1>4, PidsStep DEF LocalInv

\* The entry of a name, when the file and who writes it stay as they are.
LEMMA EffectiveKept ==
  ASSUME NEW n, Writing' = Writing, file' = file, \A q \in Writing : proc'[q] = proc[q]
  PROVE  Effective(n)' = Effective(n)
  <1>1. CASE Writing = {}
    BY <1>1 DEF Effective
  <1>2. CASE Writing # {}
    <2> DEFINE w == CHOOSE q \in Writing : TRUE
    <2>1. w \in Writing
      BY <1>2
    <2>2. proc'[w] = proc[w]
      BY <2>1
    <2>3. Effective(n) = Content(w)[n]
      BY <1>2 DEF Effective
    <2>4. Effective(n)' = [proc'[w].view EXCEPT ![proc'[w].name] =
                             IF proc'[w].cmd = "rm" THEN NoEntry ELSE proc'[w].entry][n]
      BY <1>2, Zenon DEF Effective, Content, Name
    <2>5. Content(w)[n] = [proc[w].view EXCEPT ![proc[w].name] =
                             IF proc[w].cmd = "rm" THEN NoEntry ELSE proc[w].entry][n]
      BY DEF Content, Name
    <2> HIDE DEF w
    <2> QED
      BY <2>2, <2>3, <2>4, <2>5
  <1> QED
    BY <1>1, <1>2

\* A name keeps its agreement when its entry and the commands that own or will save
\* it stay, none of these gets to know more than it knew, and its runtime stays or
\* has ended.
LEMMA AgreesWhenEnded ==
  ASSUME NEW n \in Names, Agrees(n), blame'[n] = {} => blame[n] = {},
         UNCHANGED backend, Effective(n)' = Effective(n),
         fwd'[n] = fwd[n], vm'[n] \in {0, vm[n]}, rt'[n] = "missing" <=> rt[n] = "missing",
         \A q \in Procs : /\ q \in Saving(n)' <=> q \in Saving(n)
                          /\ q \in Owners(n)' <=> q \in Owners(n),
         \A q \in Saving(n) \cup Owners(n) :
           /\ Plan(proc'[q]) = Plan(proc[q]) /\ proc'[q].entry = proc[q].entry
           /\ Current(q, n)' => Current(q, n)
  PROVE  Agrees(n)'
  <1>1. Saving(n)' = Saving(n) /\ Owners(n)' = Owners(n)
    <2>1. Saving(n) \subseteq Procs /\ Owners(n) \subseteq Procs
      BY DEF Saving, Owners
    <2>2. Saving(n)' \subseteq Procs /\ Owners(n)' \subseteq Procs
      BY DEF Saving, Owners
    <2> QED
      BY <2>1, <2>2
  <1>2. Changing(n)' = Changing(n)
    BY <1>1 DEF Changing
  <1>3. ~Doomed(n)' => ~Doomed(n)
    BY <1>1, <1>2 DEF Doomed
  <1>4. \A e : IsGoal(e, n)' => IsGoal(e, n)
    <2>1. \A q \in Changing(n) : Plan(proc'[q]) = Plan(proc[q])
      BY DEF Changing
    <2> QED
      BY <1>2, <2>1 DEF IsGoal
  <1>5. ASSUME NEW e, Fits(e, n) PROVE Fits(e, n)'
    <2>1. \A q \in Owners(n) : proc'[q].entry = proc[q].entry
      OBVIOUS
    <2> QED
      BY <1>1, <1>5, <2>1 DEF Fits
  <1> QED
    BY <1>3, <1>4, <1>5 DEF Agrees

\* It keeps it all the more when its runtime stays.
LEMMA AgreesKept ==
  ASSUME NEW n \in Names, Agrees(n), blame'[n] = {} => blame[n] = {},
         UNCHANGED backend, UNCHANGED runtimes, Effective(n)' = Effective(n),
         \A q \in Procs : /\ q \in Saving(n)' <=> q \in Saving(n)
                          /\ q \in Owners(n)' <=> q \in Owners(n),
         \A q \in Saving(n) \cup Owners(n) :
           /\ Plan(proc'[q]) = Plan(proc[q]) /\ proc'[q].entry = proc[q].entry
           /\ Current(q, n)' => Current(q, n)
  PROVE  Agrees(n)'
  <1>1. fwd' = fwd /\ vm' = vm /\ rt' = rt
    BY DEF runtimes
  <1> QED
    BY <1>1, AgreesWhenEnded

\* A command that begins knows what is in the file.
LEMMA BeginsInv ==
  ASSUME LocalInv, NEW p \in Procs, NEW n \in Names, NEW cmd, NEW pc, NEW entry \in EntryType,
         Begins(p, cmd, n, entry, pc), entry # NoEntry,
         \/ /\ cmd = "create" /\ pc \in {"status", "make"}
            /\ file[n] = NoEntry /\ entry.pid = 0
         \/ /\ <<cmd, pc>> \in {<<"start", "reconcile">>, <<"stop", "halt">>,
                               <<"rm", "delete">>, <<"ports", "edit">>}
            /\ entry = file[n]
  PROVE  LocalInv'
  <1> DEFINE s == [Ready EXCEPT !.cmd = cmd, !.name = n, !.view = file, !.entry = entry, !.pc = pc]
  <1>1. /\ proc[p].pc = "idle" /\ proc' = [proc EXCEPT ![p] = s] /\ UNCHANGED <<backend, file, blame>>
        /\ UNCHANGED runtimes
    BY DEF Begins, At
  <1>2. file \in [Names -> EntryType] /\ LocalTypeOK
    BY DEF LocalInv, LocalTypeOK
  <1>3. /\ s \in ProcType /\ s.cmd = cmd /\ s.name = n /\ s.view = file /\ s.entry = entry /\ s.pc = pc
        /\ ~s.own /\ s.then = "done" /\ s.stale = {}
    BY <1>2, ReadyFacts DEF ProcType
  <1> HIDE DEF s
  <1>4. PICK r \in ProcType : r = s
    BY <1>3
  <1>5. Steps(p, r)
    BY <1>1, <1>4 DEF Steps
  <1>6. /\ proc'[p] = r /\ \A q \in Procs : q # p => proc'[q] = proc[q]
        /\ proc' \in [Procs -> ProcType]
    BY <1>2, <1>5, StepsProcs
  <1>7. Knows(r) /\ r.pc \notin {"idle", "boot", "reload", "save", "write", "done"}
    BY <1>3, <1>4 DEF Knows, Working
  <1>8. LocalTypeOK'
    BY <1>1, <1>2, <1>6 DEF LocalTypeOK, runtimes
  <1>9. Known'
    BY <1>5, <1>7, StepsKnown
  <1>10. Pids'
    <2>1. \A m \in Names, k \in Nat \ {0} : file'[m].pid = k => Mentions(m, k)
      BY <1>1 DEF Mentions
    <2>2. ASSUME NEW q \in Procs, NEW m \in Names, NEW k \in Nat \ {0},
                 proc'[q].view[m].pid = k \/ (proc'[q].name = m /\ proc'[q].entry.pid = k)
          PROVE  Mentions(m, k)
      <3>1. CASE q # p
        BY <1>6, <2>2, <3>1 DEF Mentions, Name
      <3>2. CASE q = p
        BY <1>3, <1>4, <1>6, <2>2, <3>2 DEF Mentions
      <3> QED
        BY <3>1, <3>2
    <2> QED
      BY <1>1, <1>8, <2>1, <2>2, StepsPids
  <1>11. Writing' = Writing /\ p \notin Writing
    BY <1>1, <1>6, <1>7 DEF Writing, At
  <1>12. OneWriter' /\ ViewsKnown'
    <2>1. \A q \in Procs : q # p => proc'[q] = proc[q]
      BY <1>6
    <2>2. proc'[p].view = file'
      BY <1>1, <1>3, <1>4, <1>6
    <2> QED
      BY <1>1, <1>11, <2>1, <2>2 DEF LocalInv, OneWriter, ViewsKnown
  <1>13. ASSUME NEW m \in Names PROVE Agrees(m)'
    <2>1. Effective(m)' = Effective(m)
      BY <1>1, <1>6, <1>11, EffectiveKept DEF Writing
    <2>2. p \notin Saving(m) \cup Owners(m)
      BY <1>1 DEF Saving, Owners
    <2>3. p \notin Saving(m)' /\ p \notin Owners(m)'
      BY <1>6, <1>7 DEF Saving, Owners
    <2>4. ASSUME NEW q \in Procs, q # p
          PROVE  (q \in Saving(m)' <=> q \in Saving(m)) /\ (q \in Owners(m)' <=> q \in Owners(m))
      BY <1>6, <2>4 DEF Saving, Owners, Name
    <2>5. ASSUME NEW q \in Saving(m) \cup Owners(m)
          PROVE  proc'[q] = proc[q] /\ (Current(q, m)' => Current(q, m))
      <3>1. proc'[q] = proc[q]
        BY <1>6, <2>2, <2>5 DEF Saving, Owners
      <3> QED
        BY <2>1, <3>1 DEF Current
    <2> QED
      BY <1>1, <2>1, <2>2, <2>3, <2>4, <2>5, AgreesKept DEF LocalInv
  <1> QED
    BY <1>8, <1>9, <1>10, <1>12, <1>13 DEF LocalInv

\* A create finds its name not listed, the other commands find theirs listed.
LEMMA BeginInv ==
  ASSUME LocalInv, NEW p \in Procs, NEW n \in Names, NEW ports \in SUBSET Ports,
         Create(p, n, ports) \/ Start(p, n) \/ Stop(p, n) \/ Rm(p, n) \/ PublishPorts(p, n)
  PROVE  LocalInv'
  <1>1. file[n] \in EntryType
    BY DEF LocalInv, LocalTypeOK
  <1>2. CASE Create(p, n, ports)
    <2>1. PICK pc \in {"status", "make"} : Begins(p, "create", n, Entry(ports, 0), pc)
      BY <1>2 DEF Create
    <2>2. file[n] = NoEntry
      BY <1>2 DEF Create, Listed
    <2> QED
      BY <2>1, <2>2, EntryFacts, BeginsInv
  <1>3. ASSUME NEW entry \in EntryType, entry = file[n], entry # NoEntry,
               \/ Begins(p, "start", n, entry, "reconcile") \/ Begins(p, "stop", n, entry, "halt")
               \/ Begins(p, "rm", n, entry, "delete") \/ Begins(p, "ports", n, entry, "edit")
        PROVE  LocalInv'
    <2>1. CASE Begins(p, "start", n, entry, "reconcile")
      BY <1>3, <2>1, BeginsInv
    <2>2. CASE Begins(p, "stop", n, entry, "halt")
      BY <1>3, <2>2, BeginsInv
    <2>3. CASE Begins(p, "rm", n, entry, "delete")
      BY <1>3, <2>3, BeginsInv
    <2>4. CASE Begins(p, "ports", n, entry, "edit")
      BY <1>3, <2>4, BeginsInv
    <2> QED
      BY <1>3, <2>1, <2>2, <2>3, <2>4
  <1>4. PICK entry \in EntryType : entry = file[n]
    BY <1>1
  <1>5. CASE Start(p, n) \/ Stop(p, n) \/ Rm(p, n) \/ PublishPorts(p, n)
    <2>1. entry # NoEntry
      BY <1>4, <1>5 DEF Start, Stop, Rm, PublishPorts, Listed
    <2>2. \/ Begins(p, "start", n, entry, "reconcile") \/ Begins(p, "stop", n, entry, "halt")
          \/ Begins(p, "rm", n, entry, "delete") \/ Begins(p, "ports", n, entry, "edit")
      BY <1>4, <1>5, Zenon DEF Start, Stop, Rm, PublishPorts
    <2> QED
      BY <1>3, <1>4, <2>1, <2>2
  <1> QED
    BY <1>2, <1>5

\* A command that reads the file anew knows what is there, and what of it has
\* changed since it began.
LEMMA ReloadInv ==
  ASSUME LocalInv, NEW p \in Procs, Reload(p)
  PROVE  LocalInv'
  <1> DEFINE stale == {m \in {Name(p)} : m \in proc[p].stale \/ file[m] # proc[p].view[m]}
             s == [proc[p] EXCEPT !.pc = "save", !.view = file, !.stale = stale]
  <1>1. /\ proc[p].pc = "reload" /\ proc' = [proc EXCEPT ![p] = s] /\ UNCHANGED <<backend, file, blame>>
        /\ UNCHANGED runtimes
    BY DEF Reload, At
  <1>2. /\ file \in [Names -> EntryType] /\ LocalTypeOK /\ proc[p] \in ProcType
        /\ Name(p) \in Names /\ Knows(proc[p])
    BY AtWorkFacts DEF LocalInv
  <1>3. /\ s \in ProcType /\ s.pc = "save" /\ s.view = file /\ s.stale = stale
        /\ s.cmd = proc[p].cmd /\ s.name = Name(p) /\ s.entry = proc[p].entry
        /\ s.own = proc[p].own /\ s.then = proc[p].then
    BY <1>2 DEF ProcType, Name
  <1> HIDE DEF s
  <1>4. PICK r \in ProcType : r = s
    BY <1>3
  <1>5. Steps(p, r)
    BY <1>1, <1>4 DEF Steps
  <1>6. /\ proc'[p] = r /\ \A q \in Procs : q # p => proc'[q] = proc[q]
        /\ proc' \in [Procs -> ProcType]
    BY <1>2, <1>5, StepsProcs
  <1>7. \A m \in Names : m = Name(p) /\ m \notin r.stale =>
          m \notin proc[p].stale /\ file[m] = proc[p].view[m]
    BY <1>3, <1>4
  <1>8. proc[p].cmd # "create"
    BY <1>1, <1>2 DEF Knows
  <1>9. Knows(r)
    <2>1. Name(p) \notin r.stale => r.view[Name(p)] # NoEntry
      BY <1>1, <1>2, <1>3, <1>4, <1>7, <1>8 DEF Knows, Working, Name
    <2> QED
      BY <1>1, <1>2, <1>3, <1>4, <1>8, <2>1 DEF Knows, Working
  <1>10. LocalTypeOK'
    BY <1>1, <1>2, <1>6 DEF LocalTypeOK, runtimes
  <1>11. Known'
    BY <1>3, <1>4, <1>5, <1>9, StepsKnown
  <1>12. Pids'
    <2>1. \A m \in Names, k \in Nat \ {0} : file'[m].pid = k => Mentions(m, k)
      BY <1>1 DEF Mentions
    <2>2. ASSUME NEW q \in Procs, NEW m \in Names, NEW k \in Nat \ {0},
                 proc'[q].view[m].pid = k \/ (proc'[q].name = m /\ proc'[q].entry.pid = k)
          PROVE  Mentions(m, k)
      <3>1. CASE q # p
        BY <1>6, <2>2, <3>1 DEF Mentions, Name
      <3>2. CASE q = p
        BY <1>3, <1>4, <1>6, <2>2, <3>2 DEF Mentions
      <3> QED
        BY <3>1, <3>2
    <2> QED
      BY <1>1, <1>10, <2>1, <2>2, StepsPids
  <1>13. Writing' = Writing /\ p \notin Writing
    BY <1>1, <1>3, <1>4, <1>6 DEF Writing, At
  <1>14. OneWriter' /\ ViewsKnown'
    <2>1. proc'[p].view = file'
      BY <1>1, <1>3, <1>4, <1>6
    <2> QED
      BY <1>1, <1>6, <1>13, <2>1 DEF LocalInv, OneWriter, ViewsKnown
  <1>15. ASSUME NEW m \in Names PROVE Agrees(m)'
    <2>1. Effective(m)' = Effective(m)
      BY <1>1, <1>6, <1>13, EffectiveKept DEF Writing
    <2>2. ASSUME NEW q \in Procs
          PROVE  (q \in Saving(m)' <=> q \in Saving(m)) /\ (q \in Owners(m)' <=> q \in Owners(m))
      BY <1>1, <1>3, <1>4, <1>6 DEF Saving, Owners, Name
    <2>3. ASSUME NEW q \in Saving(m) \cup Owners(m)
          PROVE  /\ Plan(proc'[q]) = Plan(proc[q]) /\ proc'[q].entry = proc[q].entry
                 /\ Current(q, m)' => Current(q, m)
      <3>1. CASE q # p
        <4>1. proc'[q] = proc[q]
          BY <1>6, <2>3, <3>1 DEF Saving, Owners
        <4> QED
          BY <2>1, <4>1 DEF Current
      <3>2. CASE q = p
        <4>1. m = Name(p)
          BY <2>3, <3>2 DEF Saving, Owners
        <4>2. Current(q, m)' => Current(q, m)
          BY <1>3, <1>4, <1>6, <1>7, <2>1, <3>2, <4>1 DEF Current
        <4> QED
          BY <1>3, <1>4, <1>6, <3>2, <4>2 DEF Plan
      <3> QED
        BY <3>1, <3>2
    <2> QED
      BY <1>1, <2>1, <2>2, <2>3, AgreesKept DEF LocalInv
  <1> QED
    BY <1>10, <1>11, <1>12, <1>14, <1>15 DEF LocalInv

\* What is blamed stays blamed, and every name given is.
LEMMA BlamedNames ==
  ASSUME NEW names, NEW cause, Blamed(names, cause)
  PROVE  \A n \in Names : blame'[n] = {} => n \notin names /\ blame[n] = {}
  BY DEF Blamed

\* A save that takes back nothing writes what the command had planned, and no
\* other command on the name that is about to save can have read that.
LEMMA TruncateInv ==
  ASSUME LocalInv, NEW p \in Procs, Truncate(p)
  PROVE  LocalInv'
  <1>1. /\ proc[p].pc = "save" /\ Goes(p, "write") /\ UNCHANGED backend /\ UNCHANGED runtimes
        /\ file' = [n \in Names |-> NoEntry]
    BY DEF Truncate, At
  <1>2. \A n \in Names : blame'[n] = {} => /\ blame[n] = {} /\ Writing = {} /\ n \notin proc[p].stale
    BY BlamedNames DEF Truncate, Overwritten
  <1>3. PICK r \in ProcType :
         /\ proc' = [proc EXCEPT ![p] = r] /\ r.pc = "write"
         /\ r.cmd = proc[p].cmd /\ r.name = Name(p) /\ r.view = proc[p].view
         /\ r.entry = proc[p].entry /\ r.stale = proc[p].stale
         /\ r.own = proc[p].own /\ r.then = proc[p].then
    BY <1>1, Moved DEF LocalInv
  <1>4. Steps(p, r)
    BY <1>1, <1>2, <1>3 DEF Steps
  <1>5. /\ proc'[p] = r /\ \A q \in Procs : q # p => proc'[q] = proc[q]
        /\ proc' \in [Procs -> ProcType]
    BY <1>4, StepsProcs DEF LocalInv
  <1>6. Knows(r)
    BY <1>1, <1>3, AtWorkFacts DEF Knows, Working
  <1>7. LocalTypeOK'
    BY <1>1, <1>5, EntryFacts DEF LocalInv, LocalTypeOK, runtimes, EntryType
  <1>8. Known'
    BY <1>3, <1>4, <1>6, StepsKnown
  <1>9. Pids'
    <2>1. \A m \in Names, k \in Nat \ {0} : file'[m].pid = k => Mentions(m, k)
      BY <1>1, EntryFacts
    <2>2. ASSUME NEW q \in Procs, NEW m \in Names, NEW k \in Nat \ {0},
                 proc'[q].view[m].pid = k \/ (proc'[q].name = m /\ proc'[q].entry.pid = k)
          PROVE  Mentions(m, k)
      BY <1>3, <1>5, <2>2 DEF Mentions, Name
    <2> QED
      BY <1>1, <1>7, <2>1, <2>2, StepsPids
  <1>10. p \in Writing' /\ (Writing = {} => Writing' = {p})
    BY <1>3, <1>5 DEF Writing, At
  <1>11. OneWriter'
    BY <1>2, <1>10 DEF OneWriter
  <1>12. ViewsKnown'
    BY <1>10 DEF ViewsKnown
  <1>13. ASSUME NEW n \in Names PROVE Agrees(n)'
    <2> SUFFICES ASSUME blame'[n] = {} PROVE Agrees(n)'
      BY DEF Agrees, Doomed
    <2>1. blame[n] = {} /\ Writing = {} /\ Writing' = {p} /\ n \notin proc[p].stale
      BY <1>2, <1>10
    <2>2. Effective(n) = file[n] /\ proc[p].view[n] = file[n]
      BY <1>1, <2>1 DEF Effective, LocalInv, ViewsKnown, Working
    <2>3. Effective(n)' = IF n = Name(p) THEN Plan(proc[p]) ELSE file[n]
      <3>1. Effective(n)' = [proc'[p].view EXCEPT ![proc'[p].name] =
                               IF proc'[p].cmd = "rm" THEN NoEntry ELSE proc'[p].entry][n]
        BY <2>1 DEF Effective, Content, Name
      <3>2. Effective(n)' = Content(p)[n]
        BY <1>3, <1>5, <3>1 DEF Content, Name
      <3> QED
        BY <2>2, <3>2, ContentFacts DEF LocalInv
    <2>4. p \notin Saving(n)'
      BY <1>3, <1>5 DEF Saving
    <2>5. ASSUME NEW q \in Procs, q # p
          PROVE  (q \in Saving(n)' <=> q \in Saving(n)) /\ (q \in Owners(n)' <=> q \in Owners(n))
      BY <1>5, <2>5 DEF Saving, Owners, Name
    <2>6. p \notin Owners(n) /\ p \notin Owners(n)'
      BY <1>1, <1>3, <1>5 DEF Owners
    <2>7. CASE n # Name(p)
      <3>1. p \notin Saving(n)
        BY <2>7 DEF Saving
      <3>2. Effective(n)' = Effective(n)
        BY <2>2, <2>3, <2>7
      <3>3. ASSUME NEW q \in Saving(n) \cup Owners(n)
            PROVE  proc'[q] = proc[q] /\ (Current(q, n)' => Current(q, n))
        <4>1. proc'[q] = proc[q]
          BY <1>5, <2>6, <3>1, <3>3 DEF Saving, Owners
        <4> QED
          BY <3>2, <4>1 DEF Current
      <3> QED
        BY <1>1, <2>1, <2>4, <2>5, <2>6, <3>1, <3>2, <3>3, AgreesKept DEF LocalInv
    <2>8. CASE n = Name(p)
      <3> SUFFICES ASSUME ~Doomed(n)', NEW e \in EntryType, IsGoal(e, n)' PROVE Fits(e, n)'
        BY DEF Agrees
      <3>1. Fits(e, n) => Fits(e, n)'
        <4>1. Owners(n)' = Owners(n)
          BY <2>5, <2>6 DEF Owners
        <4>2. \A q \in Owners(n) : proc'[q] = proc[q]
          BY <1>5, <2>6 DEF Owners
        <4> QED
          BY <1>1, <4>1, <4>2 DEF Fits, runtimes
      <3>2. p \in Saving(n) /\ Current(p, n)
        BY <1>1, <2>1, <2>2, <2>8 DEF Saving, Current
      <3>3. \A q \in Saving(n) : q # p => /\ q \in Saving(n)' /\ Current(q, n)' /\ proc'[q] = proc[q]
        <4>1. \A q \in Saving(n) : q # p => q \in Saving(n)' /\ proc'[q] = proc[q]
          BY <1>5, <2>5 DEF Saving
        <4> QED
          BY <4>1 DEF Doomed
      <3>4. CASE Plan(proc[p]) = Effective(n)
        <4>1. Effective(n)' = Effective(n) /\ p \notin Changing(n)
          BY <2>3, <2>8, <3>4 DEF Changing
        <4>2. Changing(n)' = Changing(n)
          <5>1. \A q \in Saving(n)' : q \in Saving(n) /\ q # p
            BY <2>4, <2>5 DEF Saving
          <5> QED
            BY <3>3, <4>1, <5>1 DEF Changing
        <4>3. \A q \in Saving(n) : Current(q, n)
          BY <3>2, <3>3, <4>1 DEF Current
        <4>4. ~Doomed(n)
          BY <2>1, <4>2, <4>3 DEF Doomed
        <4>5. \A q \in Changing(n) : Plan(proc'[q]) = Plan(proc[q])
          BY <3>3, <4>1 DEF Changing
        <4>6. IsGoal(e, n)
          BY <4>1, <4>2, <4>5 DEF IsGoal
        <4> QED
          BY <3>1, <4>4, <4>6 DEF LocalInv, Agrees
      <3>5. CASE Plan(proc[p]) # Effective(n)
        <4>1. ASSUME NEW q \in Saving(n), q # p PROVE FALSE
          <5>1. proc'[q] = proc[q] /\ n \notin proc[q].stale /\ proc[q].view[n] = Plan(proc[p])
            BY <2>3, <2>8, <3>3, <4>1 DEF Current
          <5>2. q \in Procs /\ Working(proc[q])
            BY <4>1 DEF Saving, Working
          <5>3. proc[q].view[n] = file[n]
            BY <2>1, <5>1, <5>2 DEF LocalInv, ViewsKnown
          <5> QED
            BY <2>2, <3>5, <5>1, <5>3
        <4>2. Saving(n) = {p} /\ Changing(n) = {p}
          BY <3>2, <3>5, <4>1 DEF Changing
        <4>3. ~Doomed(n)
          BY <2>1, <3>2, <4>2 DEF Doomed
        <4>4. Saving(n)' = {}
          BY <2>4, <2>5, <4>2 DEF Saving
        <4>5. Changing(n)' = {}
          BY <4>4 DEF Changing
        <4>6. e = Plan(proc[p])
          BY <2>3, <2>8, <4>5 DEF IsGoal
        <4>7. IsGoal(e, n)
          BY <4>2, <4>6 DEF IsGoal
        <4> QED
          BY <3>1, <4>3, <4>7 DEF LocalInv, Agrees
      <3> QED
        BY <3>4, <3>5
    <2> QED
      BY <2>7, <2>8
  <1> QED
    BY <1>7, <1>8, <1>9, <1>11, <1>12, <1>13 DEF LocalInv

\* A command that breaks off is blamed on its name, and on every name when it
\* leaves the file empty.
LEMMA BreaksOffInv ==
  ASSUME LocalInv, NEW p \in Procs, BreaksOff(p)
  PROVE  LocalInv'
  <1>1. /\ Goes(p, "done") /\ UNCHANGED <<backend, file>> /\ UNCHANGED runtimes
        /\ proc[p].pc # "idle"
    BY DEF BreaksOff, AtWork, At
  <1>2. \A n \in Names : blame'[n] = {} => /\ blame[n] = {} /\ n # Name(p) /\ p \notin Writing
    BY BlamedNames DEF BreaksOff, Writing
  <1>3. PICK r \in ProcType :
         /\ proc' = [proc EXCEPT ![p] = r] /\ r.pc = "done"
         /\ r.cmd = proc[p].cmd /\ r.name = Name(p) /\ r.view = proc[p].view
         /\ r.entry = proc[p].entry /\ r.stale = proc[p].stale
         /\ r.own = proc[p].own /\ r.then = proc[p].then
    BY <1>1, Moved DEF LocalInv
  <1>4. Steps(p, r)
    BY <1>1, <1>2, <1>3 DEF Steps
  <1>5. /\ proc'[p] = r /\ \A q \in Procs : q # p => proc'[q] = proc[q]
        /\ proc' \in [Procs -> ProcType]
    BY <1>4, StepsProcs DEF LocalInv
  <1>6. Knows(r)
    BY <1>3, AtWorkFacts DEF Knows, Working
  <1>7. LocalTypeOK'
    BY <1>1, <1>5 DEF LocalInv, LocalTypeOK, runtimes
  <1>8. Known'
    BY <1>3, <1>4, <1>6, StepsKnown
  <1>9. Pids'
    <2>1. \A m \in Names, k \in Nat \ {0} : file'[m].pid = k => Mentions(m, k)
      BY <1>1 DEF Mentions
    <2>2. ASSUME NEW q \in Procs, NEW m \in Names, NEW k \in Nat \ {0},
                 proc'[q].view[m].pid = k \/ (proc'[q].name = m /\ proc'[q].entry.pid = k)
          PROVE  Mentions(m, k)
      BY <1>3, <1>5, <2>2 DEF Mentions, Name
    <2> QED
      BY <1>1, <1>7, <2>1, <2>2, StepsPids
  <1>10. Writing' = Writing \ {p}
    BY <1>3, <1>5 DEF Writing, At
  <1>11. OneWriter'
    BY <1>2, <1>10 DEF LocalInv, OneWriter
  <1>12. ViewsKnown'
    BY <1>1, <1>2, <1>3, <1>5, <1>10 DEF LocalInv, ViewsKnown, Working
  <1>13. ASSUME NEW n \in Names PROVE Agrees(n)'
    <2> SUFFICES ASSUME blame'[n] = {} PROVE Agrees(n)'
      BY DEF Agrees, Doomed
    <2>1. n # Name(p) /\ Writing' = Writing /\ p \notin Writing
      BY <1>2, <1>10
    <2>2. Effective(n)' = Effective(n)
      BY <1>1, <1>5, <2>1, EffectiveKept DEF Writing
    <2>3. ASSUME NEW q \in Procs
          PROVE  (q \in Saving(n)' <=> q \in Saving(n)) /\ (q \in Owners(n)' <=> q \in Owners(n))
      BY <1>3, <1>5, <2>1 DEF Saving, Owners, Name
    <2>4. ASSUME NEW q \in Saving(n) \cup Owners(n)
          PROVE  proc'[q] = proc[q] /\ (Current(q, n)' => Current(q, n))
      <3>1. proc'[q] = proc[q]
        BY <1>5, <2>1, <2>4 DEF Saving, Owners
      <3> QED
        BY <2>2, <3>1 DEF Current
    <2> QED
      BY <1>1, <1>2, <2>2, <2>3, <2>4, AgreesKept DEF LocalInv
  <1> QED
    BY <1>7, <1>8, <1>9, <1>11, <1>12, <1>13 DEF LocalInv

\* Who wrote knows the file; who else is at work knows what has changed.
LEMMA WriteProcs ==
  ASSUME LocalInv, NEW p \in Procs, Write(p)
  PROVE  /\ \A q \in Procs : /\ proc'[q] \in ProcType
                             /\ proc'[q].name = proc[q].name /\ proc'[q].cmd = proc[q].cmd
                             /\ proc'[q].entry = proc[q].entry /\ proc'[q].own = proc[q].own
                             /\ proc'[q].then = proc[q].then
         /\ proc'[p].pc = proc[p].then /\ proc'[p].view = Content(p)
         /\ \A q \in Procs \ {p} :
              /\ proc'[q].pc = proc[q].pc /\ proc'[q].view = proc[q].view
              /\ proc[q].stale \subseteq proc'[q].stale
              /\ Working(proc[q]) => \A n \in Names : n \notin proc'[q].stale => proc[q].view[n] = Content(p)[n]
         /\ proc' \in [Procs -> ProcType]
  <1>1. Content(p) \in [Names -> EntryType]
    BY ContentFacts DEF LocalInv
  <1>2. ASSUME NEW q \in Procs \ {p}
        PROVE  /\ proc'[q] \in ProcType
               /\ proc'[q].name = proc[q].name /\ proc'[q].cmd = proc[q].cmd
               /\ proc'[q].entry = proc[q].entry /\ proc'[q].own = proc[q].own
               /\ proc'[q].then = proc[q].then
               /\ proc'[q].pc = proc[q].pc /\ proc'[q].view = proc[q].view
               /\ proc[q].stale \subseteq proc'[q].stale
               /\ Working(proc[q]) => \A n \in Names : n \notin proc'[q].stale => proc[q].view[n] = Content(p)[n]
    <2> DEFINE changed == {n \in Names : Content(p)[n] # proc[q].view[n]}
               s == [proc[q] EXCEPT !.stale = proc[q].stale \cup changed]
    <2>1. proc[q] \in ProcType
      BY DEF LocalInv, LocalTypeOK
    <2>2. /\ s \in ProcType /\ s.name = proc[q].name /\ s.cmd = proc[q].cmd /\ s.pc = proc[q].pc
          /\ s.entry = proc[q].entry /\ s.own = proc[q].own /\ s.then = proc[q].then
          /\ s.view = proc[q].view /\ s.stale = proc[q].stale \cup changed
      BY <2>1 DEF ProcType
    <2>3. CASE Working(proc[q])
      <3>1. proc'[q] = s
        BY <2>3 DEF Write, AtWork, At, Working
      <3> HIDE DEF s
      <3> QED
        BY <2>2, <3>1
    <2>4. CASE ~Working(proc[q])
      <3>1. proc'[q] = proc[q]
        BY <2>4 DEF Write, AtWork, At, Working
      <3> QED
        BY <2>1, <2>4, <3>1
    <2> QED
      BY <2>3, <2>4
  <1>3. /\ proc'[p] \in ProcType
        /\ proc'[p].name = proc[p].name /\ proc'[p].cmd = proc[p].cmd
        /\ proc'[p].entry = proc[p].entry /\ proc'[p].own = proc[p].own
        /\ proc'[p].then = proc[p].then
        /\ proc'[p].pc = proc[p].then /\ proc'[p].view = Content(p)
    <2> DEFINE s == [proc[p] EXCEPT !.pc = proc[p].then, !.view = Content(p)]
    <2>1. proc[p] \in ProcType
      BY DEF LocalInv, LocalTypeOK
    <2>2. /\ s \in ProcType /\ s.name = proc[p].name /\ s.cmd = proc[p].cmd /\ s.pc = proc[p].then
          /\ s.entry = proc[p].entry /\ s.own = proc[p].own /\ s.then = proc[p].then
          /\ s.view = Content(p)
      BY <1>1, <2>1 DEF ProcType
    <2>3. proc'[p] = s
      BY DEF Write
    <2> HIDE DEF s
    <2> QED
      BY <2>2, <2>3
  <1>4. proc' \in [Procs -> ProcType]
    <2>1. \A q \in Procs : proc'[q] \in ProcType
      BY <1>2, <1>3
    <2>2. proc' = [q \in Procs |-> proc'[q]]
      BY DEF Write
    <2> QED
      BY <2>1, <2>2
  <1> QED
    BY <1>2, <1>3, <1>4

\* What is written is what the file was going to hold.
LEMMA WriteInv ==
  ASSUME LocalInv, NEW p \in Procs, Write(p)
  PROVE  LocalInv'
  <1>1. /\ proc[p].pc = "write" /\ UNCHANGED <<backend, blame>> /\ UNCHANGED runtimes
        /\ file' = Content(p) /\ p \in Writing
    BY DEF Write, At, Writing
  <1>2. /\ Content(p) \in [Names -> EntryType] /\ Content(p)[Name(p)] = Plan(proc[p])
        /\ \A n \in Names : n # Name(p) => Content(p)[n] = proc[p].view[n]
    BY ContentFacts DEF LocalInv
  <1>3. /\ Knows(proc[p]) /\ proc[p] \in ProcType /\ Working(proc[p]) /\ proc[p].then \in {"done", "boot"}
        /\ proc[p].then = "boot" => proc[p].cmd = "start"
    BY <1>1, AtWorkFacts DEF Knows, Working, ProcType
  <1>4. LocalTypeOK'
    BY <1>1, <1>2, WriteProcs DEF LocalInv, LocalTypeOK, runtimes
  <1>5. Known'
    <2>1. Knows(proc'[p]) /\ Makes(proc[p])'
      <3>1. proc'[p].pc = "boot" => proc'[p].view[proc'[p].name] # NoEntry
        BY <1>2, <1>3, WriteProcs DEF Name, Plan, Knows
      <3>2. proc'[p].pc \in {"done", "boot"} /\ (proc'[p].pc = "boot" => proc'[p].cmd = "start")
        BY <1>3, WriteProcs
      <3>3. proc'[p].entry # NoEntry
        BY <1>3, WriteProcs DEF Knows
      <3>4. /\ proc'[p].own => proc'[p].cmd = "create"
            /\ proc'[p].then = "boot" => proc'[p].cmd = "start"
        BY <1>3, WriteProcs DEF Knows
      <3>5. Knows(proc'[p])
        BY <3>1, <3>2, <3>3, <3>4 DEF Knows, Working
      <3> QED
        BY <3>2, <3>5 DEF Makes
    <2>2. ASSUME NEW q \in Procs \ {p}
          PROVE  Knows(proc'[q]) /\ Makes(proc[q])'
      <3>1. Knows(proc[q]) /\ Makes(proc[q])
        BY AtWorkFacts
      <3>2. Knows(proc'[q])
        BY <3>1, WriteProcs DEF Knows, Working
      <3>3. Makes(proc[q])'
        BY <1>1, <3>1, WriteProcs DEF Makes
      <3> QED
        BY <3>2, <3>3
    <2>3. \A q \in Procs : Knows(proc'[q]) /\ Makes(proc[q])'
      BY <2>1, <2>2
    <2> QED
      BY <2>3 DEF Known, Knows, Working
  <1>6. ASSUME NEW m \in Names, NEW k \in Nat \ {0}, Content(p)[m].pid = k
        PROVE  Mentions(m, k)
    <2>1. CASE m # Name(p)
      BY <1>2, <1>6, <2>1 DEF Mentions
    <2>2. CASE m = Name(p)
      <3>1. Plan(proc[p]) = proc[p].entry
        BY <1>2, <1>6, <2>2, EntryFacts DEF Plan
      <3> QED
        BY <1>2, <1>6, <2>2, <3>1 DEF Mentions
    <2> QED
      BY <2>1, <2>2
  <1>7. Pids'
    <2>1. \A m \in Names, k \in Nat \ {0} : file'[m].pid = k => Mentions(m, k)
      BY <1>1, <1>6
    <2>2. ASSUME NEW q \in Procs, NEW m \in Names, NEW k \in Nat \ {0},
                 proc'[q].view[m].pid = k \/ (proc'[q].name = m /\ proc'[q].entry.pid = k)
          PROVE  Mentions(m, k)
      <3>1. CASE proc'[q].view[m].pid = k
        BY <1>6, <3>1, WriteProcs DEF Mentions
      <3>2. CASE proc'[q].name = m /\ proc'[q].entry.pid = k
        BY <3>2, WriteProcs DEF Mentions, Name
      <3> QED
        BY <2>2, <3>1, <3>2
    <2> QED
      BY <1>1, <1>4, <2>1, <2>2, StepsPids
  <1>8. Writing' = Writing \ {p}
    <2>1. proc'[p].pc # "write"
      BY <1>3, WriteProcs
    <2> QED
      BY <2>1, WriteProcs DEF Writing, At
  <1>9. OneWriter'
    BY <1>1, <1>8 DEF LocalInv, OneWriter
  <1>10. ViewsKnown'
    <2>1. \A q \in Procs \ {p} : Working(proc'[q]) <=> Working(proc[q])
      BY WriteProcs DEF Working
    <2> QED
      BY <1>1, <2>1, WriteProcs DEF ViewsKnown
  <1>11. ASSUME NEW n \in Names PROVE Agrees(n)'
    <2> SUFFICES ASSUME blame'[n] = {} PROVE Agrees(n)'
      BY DEF Agrees, Doomed
    <2>1. Writing = {p} /\ Writing' = {}
      BY <1>1, <1>8 DEF LocalInv, OneWriter
    <2>2. Effective(n)' = Effective(n)
      BY <1>1, <2>1 DEF Effective
    <2>3. p \notin Saving(n) /\ p \notin Saving(n)'
      BY <1>1, <1>3, WriteProcs DEF Saving
    <2>4. p \notin Owners(n) /\ p \notin Owners(n)'
      BY <1>1, <1>3, WriteProcs DEF Owners, Knows
    <2>5. ASSUME NEW q \in Procs, q # p
          PROVE  (q \in Saving(n)' <=> q \in Saving(n)) /\ (q \in Owners(n)' <=> q \in Owners(n))
      BY <2>5, WriteProcs DEF Saving, Owners, Name
    <2>6. ASSUME NEW q \in Saving(n) \cup Owners(n)
          PROVE  /\ Plan(proc'[q]) = Plan(proc[q]) /\ proc'[q].entry = proc[q].entry
                 /\ Current(q, n)' => Current(q, n)
      <3>1. q \in Procs /\ q # p
        BY <2>3, <2>4, <2>6 DEF Saving, Owners
      <3>2. Plan(proc'[q]) = Plan(proc[q]) /\ proc'[q].entry = proc[q].entry
        BY <3>1, WriteProcs DEF Plan
      <3>3. Current(q, n)' => Current(q, n)
        BY <2>2, <3>1, WriteProcs DEF Current
      <3> QED
        BY <3>2, <3>3
    <2> QED
      BY <1>1, <2>2, <2>3, <2>4, <2>5, <2>6, AgreesKept DEF LocalInv
  <1> QED
    BY <1>4, <1>5, <1>7, <1>9, <1>10, <1>11 DEF LocalInv

\* A runtime that ends by itself is still there, and no process of it runs.
LEMMA RuntimeEndsInv ==
  ASSUME LocalInv, NEW n \in Names, RuntimeEnds(n)
  PROVE  LocalInv'
  <1>1. /\ backend' = backend /\ file' = file /\ fwd' = fwd
        /\ proc' = proc /\ blame' = blame /\ pids' = pids
        /\ rt[n] = "running" /\ rt' = [rt EXCEPT ![n] = "stopped"] /\ vm' = [vm EXCEPT ![n] = 0]
    BY DEF RuntimeEnds
  <1>2. /\ rt' \in [Names -> RtStates] /\ vm' \in [Names -> Nat]
        /\ \A m \in Names : vm'[m] \in {0, vm[m]} /\ (rt'[m] = "missing" <=> rt[m] = "missing")
    BY <1>1 DEF LocalInv, LocalTypeOK, RtStates
  <1>3. LocalTypeOK'
    BY <1>1, <1>2 DEF LocalInv, LocalTypeOK
  <1>4. Known'
    BY <1>1 DEF LocalInv, Known, Knows, Makes, Working
  <1>5. Pids'
    <2>1. \A m \in Names : backend'[m] # "firecracker" => vm'[m] = 0
      BY <1>1, <1>2 DEF LocalInv, Pids
    <2>2. \A m \in Names, k \in Nat \ {0} : Mentions(m, k)' => Mentions(m, k)
      BY <1>1, <1>2 DEF Mentions, Name
    <2>3. Pids /\ pids \in Nat /\ pids' \in Nat /\ pids <= pids'
      BY <1>1 DEF LocalInv, LocalTypeOK
    <2> QED
      BY <2>1, <2>2, <2>3, PidsStep
  <1>6. Writing' = Writing
    BY <1>1 DEF Writing, At
  <1>7. OneWriter' /\ ViewsKnown'
    BY <1>1, <1>6 DEF LocalInv, OneWriter, ViewsKnown, Working
  <1>8. ASSUME NEW m \in Names PROVE Agrees(m)'
    <2>1. Effective(m)' = Effective(m)
      BY <1>1, <1>6, EffectiveKept
    <2>2. \A q \in Procs : /\ q \in Saving(m)' <=> q \in Saving(m)
                           /\ q \in Owners(m)' <=> q \in Owners(m)
      BY <1>1 DEF Saving, Owners, Name
    <2>3. \A q : Current(q, m)' => Current(q, m)
      BY <1>1, <2>1 DEF Current
    <2>4. \A q \in Procs : Plan(proc'[q]) = Plan(proc[q])
      BY <1>1
    <2> QED
      BY <1>1, <1>2, <2>1, <2>2, <2>3, <2>4, AgreesWhenEnded DEF LocalInv
  <1> QED
    BY <1>3, <1>4, <1>5, <1>7, <1>8 DEF LocalInv

-----------------------------------------------------------------------------
(* The theorems                                                            *)

\* A step that changes nothing.
LEMMA LocalStutters ==
  ASSUME LocalInv, UNCHANGED vars
  PROVE  LocalInv'
  <1>1. /\ backend' = backend /\ file' = file /\ rt' = rt /\ fwd' = fwd /\ vm' = vm
        /\ proc' = proc /\ blame' = blame /\ pids' = pids /\ UNCHANGED runtimes
    BY DEF vars, runtimes
  <1>2. LocalTypeOK'
    BY <1>1 DEF LocalInv, LocalTypeOK
  <1>3. Known'
    BY <1>1 DEF LocalInv, Known, Knows, Makes, Working
  <1>4. Pids'
    BY <1>1 DEF LocalInv, Pids, Mentions, Name
  <1>5. Writing' = Writing
    BY <1>1 DEF Writing, At
  <1>6. OneWriter' /\ ViewsKnown'
    BY <1>1, <1>5 DEF LocalInv, OneWriter, ViewsKnown, Working
  <1>7. ASSUME NEW n \in Names PROVE Agrees(n)'
    <2>1. Effective(n)' = Effective(n)
      BY <1>1, <1>5, EffectiveKept
    <2>2. \A q \in Procs : /\ q \in Saving(n)' <=> q \in Saving(n)
                           /\ q \in Owners(n)' <=> q \in Owners(n)
      BY <1>1 DEF Saving, Owners, Name
    <2>3. \A q : Current(q, n)' => Current(q, n)
      BY <1>1, <2>1 DEF Current
    <2> QED
      BY <1>1, <2>1, <2>2, <2>3, AgreesKept DEF LocalInv
  <1> QED
    BY <1>2, <1>3, <1>4, <1>6, <1>7 DEF LocalInv

\* Every action of Next keeps the invariant.
LEMMA LocalStepInv == LocalInv /\ [Next]_vars => LocalInv'
  <1> SUFFICES ASSUME LocalInv, [Next]_vars PROVE LocalInv'
    OBVIOUS
  <1>1. CASE UNCHANGED vars
    BY <1>1, LocalStutters
  <1>2. ASSUME NEW p \in Procs, NEW n \in Names,
               \/ \E ports \in SUBSET Ports : Create(p, n, ports)
               \/ Start(p, n) \/ Stop(p, n) \/ Rm(p, n) \/ PublishPorts(p, n)
        PROVE  LocalInv'
    <2>1. PICK ports \in SUBSET Ports :
            Create(p, n, ports) \/ Start(p, n) \/ Stop(p, n) \/ Rm(p, n) \/ PublishPorts(p, n)
      <3>1. {} \in SUBSET Ports
        OBVIOUS
      <3> QED
        BY <1>2, <3>1
    <2> QED
      BY <2>1, BeginInv
  <1>3. ASSUME NEW p \in Procs, Status(p) \/ MakeDocker(p) \/ MakeIncus(p) \/ MakeLima(p) \/ MakeFirecracker(p)
        PROVE  LocalInv'
    BY <1>3, StatusInv, MakeContainerInv, MakeLimaInv, MakeFirecrackerInv DEF MakeDocker, MakeIncus
  <1>4. ASSUME NEW p \in Procs, BootContainer(p) \/ BootLima(p) \/ BootFirecracker(p) \/ BootFails(p)
        PROVE  LocalInv'
    BY <1>4, RunsInv, BootFirecrackerInv, BootFailsInv DEF BootContainer, BootLima
  <1>5. ASSUME NEW p \in Procs,
               \/ \E ports \in SUBSET Ports : Reconcile(p, ports)
               \/ \E port \in Ports : EditPorts(p, port)
               \/ Halt(p) \/ Delete(p)
        PROVE  LocalInv'
    BY <1>5, ReconcileInv, EditPortsInv, HaltInv, DeleteInv
  <1>6. ASSUME NEW p \in Procs, Reload(p) \/ Truncate(p) \/ Write(p) \/ BreaksOff(p)
        PROVE  LocalInv'
    BY <1>6, ReloadInv, TruncateInv, WriteInv, BreaksOffInv
  <1>7. ASSUME NEW n \in Names, RuntimeEnds(n)
        PROVE  LocalInv'
    BY <1>7, RuntimeEndsInv
  <1> QED
    BY <1>1, <1>2, <1>3, <1>4, <1>5, <1>6, <1>7 DEF Next

\* Commands interleave, but the runtime of a name and the entry its commands will
\* leave agree, unless something has gone or will go wrong with it.
THEOREM LocalInvariance == Spec => []LocalInv
  BY LocalInitInv, LocalStepInv, PTL DEF Spec

\* A settled name: nobody will save or boot, so its entry is the one in the file.
LEMMA SettledFits ==
  ASSUME LocalInv, NEW n \in Names, Settled(n)
  PROVE  file[n] \in EntryType /\ Owners(n) = {} /\ Fits(file[n], n)
  <1>1. file[n] \in EntryType
    BY DEF LocalInv, LocalTypeOK
  <1>2. Saving(n) = {} /\ Owners(n) = {}
    BY DEF Settled, Saving, Owners, AtWork, At
  <1>3. ~Doomed(n) /\ Changing(n) = {} /\ Effective(n) = file[n]
    BY <1>2 DEF Settled, Doomed, Changing, Effective
  <1> QED
    BY <1>1, <1>2, <1>3 DEF LocalInv, Agrees, IsGoal

\* However many commands come and go, a create that cannot boot its runtime leaves
\* none behind that `cw local list` does not show: its cleanup deletes it.
THEOREM RuntimesAreListed == Spec => []RuntimeIsListed
  <1>1. LocalInv => RuntimeIsListed
    BY SettledFits DEF RuntimeIsListed, Listed, Fits
  <1> QED
    BY <1>1, LocalInvariance, PTL

\* What is listed is there, with the ports a Lima VM forwards, and a Firecracker VM
\* has no process but the listed one: each command saves what it has made of the
\* runtime, and a runtime that ends by itself leaves the entry right.
THEOREM ListedRuntimesAreThere == Spec => []ListedIsThere
  <1>1. LocalInv => ListedIsThere
    BY SettledFits DEF ListedIsThere, Listed, Fits
  <1> QED
    BY <1>1, LocalInvariance, PTL
=============================================================================
