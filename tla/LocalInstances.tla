--------------------------- MODULE LocalInstances ---------------------------
(***************************************************************************)
(* `cw local`: the runtimes on one's own machine and the file that lists   *)
(* them (cmd/cw/local_cmd.go, lima_backend.go, firecracker_backend.go and  *)
(* internal/config/local_instances.go).                                    *)
(*                                                                         *)
(* Every command is a process of its own.  It reads the whole file, works  *)
(* on a runtime for seconds or minutes, and writes the whole file back:    *)
(* there is no lock.  os.Create empties the file before it is written.     *)
(***************************************************************************)
EXTENDS Integers, FiniteSets

CONSTANTS
  Procs,     \* commands, each run once
  Names,     \* instance names
  Backends,  \* "docker", "incus", "lima", "firecracker"
  Ports,     \* published ports
  MaxPid,    \* bound: Firecracker processes started
  MaxFaults  \* bound: commands that break off, or starts that fail

ASSUME NamesAssumption == IsFiniteSet(Names) /\ Names # {}
ASSUME BackendsAssumption == Backends \subseteq {"docker", "incus", "lima", "firecracker"}

VARIABLES
  backend,  \* the backend a name is used with
  file,     \* local_instances.toml: the entries by name
  rt,       \* the runtime of a name: "missing", "made", "stopped" or "running"
  fwd,      \* the ports a Lima VM forwards
  vm,       \* the process of a Firecracker VM, 0 for none
  stray,    \* Firecracker processes that nothing refers to any more, ended or not
  proc,     \* the commands
  blame,    \* history: what has come between the file and the runtime of a name
  pids, faults

vars == <<backend, file, rt, fwd, vm, stray, proc, blame, pids, faults>>
runtimes == <<rt, fwd, vm, stray, pids>>

NoEntry == [ports |-> {}, pid |-> -1]  \* not in the file
Entry(ports, pid) == [ports |-> ports, pid |-> pid]
Listed(f, n) == f[n] # NoEntry

\* view: the file as it was read; entry: the instance in the command's memory;
\* stale: the names whose entries others have changed since (history); own: a
\* create has a cleanup to do; then: what follows when the file is written.
Ready == [cmd |-> "none", pc |-> "idle", name |-> CHOOSE n \in Names : TRUE,
          view |-> [n \in Names |-> NoEntry], entry |-> NoEntry, stale |-> {},
          seen |-> "missing", own |-> FALSE, then |-> "done"]

\* The process of each Firecracker VM started before the commands begin.
FirstPid == CHOOSE f \in [Names -> 1 .. Cardinality(Names)] :
              \A m, n \in Names : m # n => f[m] # f[n]

\* A machine in use: what is listed is stopped or running.  The process that is
\* listed for a Firecracker VM may have ended by itself.
Init ==
  /\ backend \in [Names -> Backends]
  /\ rt \in [Names -> {"missing", "stopped", "running"}]
  /\ vm = [n \in Names |-> IF backend[n] = "firecracker" /\ rt[n] = "running" THEN FirstPid[n] ELSE 0]
  /\ \E ended \in SUBSET {n \in Names : backend[n] = "firecracker" /\ rt[n] = "stopped"} :
       file = [n \in Names |-> IF rt[n] = "missing" THEN NoEntry
                               ELSE Entry({}, IF n \in ended THEN FirstPid[n] ELSE vm[n])]
  /\ fwd = [n \in Names |-> {}]
  /\ stray = {} /\ pids = Cardinality(Names) /\ faults = 0
  /\ proc = [p \in Procs |-> Ready]
  /\ blame = [n \in Names |-> {}]

Fault == faults < MaxFaults /\ faults' = faults + 1
Name(p) == proc[p].name
Kind(p) == backend[Name(p)]
At(p, pc) == proc[p].pc = pc
AtWork(p) == ~At(p, "idle") /\ ~At(p, "done")
Goes(p, pc) == proc' = [proc EXCEPT ![p].pc = pc]
Blamed(names, cause) ==
  blame' = [n \in Names |-> IF n \in names THEN blame[n] \cup {cause} ELSE blame[n]]

-----------------------------------------------------------------------------
(* A command begins                                                        *)

\* The command p begins: it reads the file, and takes the instance it is about.
Begins(p, cmd, n, entry, pc) ==
  /\ At(p, "idle")
  /\ proc' = [proc EXCEPT ![p] = [Ready EXCEPT
       !.cmd = cmd, !.name = n, !.view = file, !.entry = entry, !.pc = pc]]
  /\ UNCHANGED <<backend, file, blame, faults>> /\ UNCHANGED runtimes

\* A create wants a name that is not listed, the others one that is.
Create(p, n, ports) ==
  ~Listed(file, n)
  /\ Begins(p, "create", n, Entry(ports, 0), IF backend[n] = "lima" THEN "status" ELSE "make")
Start(p, n) == Listed(file, n) /\ Begins(p, "start", n, file[n], "reconcile")
Stop(p, n)  == Listed(file, n) /\ Begins(p, "stop", n, file[n], "halt")
Rm(p, n)    == Listed(file, n) /\ Begins(p, "rm", n, file[n], "delete")
PublishPorts(p, n) ==
  Listed(file, n) /\ backend[n] = "lima" /\ Begins(p, "ports", n, file[n], "edit")

-----------------------------------------------------------------------------
(* create                                                                  *)

\* limaInstanceStatus
Status(p) ==
  /\ At(p, "status")
  /\ proc' = [proc EXCEPT ![p].pc = "make", ![p].seen = rt[Name(p)]]
  /\ UNCHANGED <<backend, file, blame, faults>> /\ UNCHANGED runtimes

Made(p, own) == proc' = [proc EXCEPT ![p].pc = "boot", ![p].own = own]

\* A name in use is refused, and nothing is removed.
MakeContainer(p) ==
  LET n == Name(p) IN
  /\ At(p, "make")
  /\ IF rt[n] = "missing"
       THEN rt' = [rt EXCEPT ![n] = "made"] /\ Made(p, TRUE)
       ELSE Goes(p, "done") /\ UNCHANGED rt
  /\ UNCHANGED <<backend, file, fwd, vm, stray, blame, pids, faults>>

\* docker create; incus init, and the configuration that follows it.
MakeDocker(p) == Kind(p) = "docker" /\ MakeContainer(p)
MakeIncus(p)  == Kind(p) = "incus" /\ MakeContainer(p)

\* ensureLimaVMForCreate: a VM that is there is used again, with the ports it
\* forwards; one that is not is created.  If that fails, were it because the VM
\* is there by now, the VM is deleted.
MakeLima(p) ==
  LET n == Name(p) IN
  /\ At(p, "make") /\ Kind(p) = "lima"
  /\ CASE proc[p].seen # "missing" ->
            /\ IF rt[n] = "missing" THEN Goes(p, "done") ELSE Made(p, FALSE)
            /\ Blamed({n}, "shared") /\ UNCHANGED <<rt, fwd>>
       [] proc[p].seen = "missing" /\ rt[n] = "missing" ->
            /\ rt' = [rt EXCEPT ![n] = "made"]
            /\ fwd' = [fwd EXCEPT ![n] = proc[p].entry.ports]
            /\ Made(p, TRUE) /\ UNCHANGED blame
       [] OTHER ->
            /\ rt' = [rt EXCEPT ![n] = "missing"] /\ fwd' = [fwd EXCEPT ![n] = {}]
            /\ Goes(p, "done") /\ Blamed({n}, "shared")
  /\ UNCHANGED <<backend, file, vm, stray, pids, faults>>

\* buildFirecrackerRootfs writes the disk of the name, whoever uses it.
MakeFirecracker(p) ==
  LET n == Name(p) IN
  /\ At(p, "make") /\ Kind(p) = "firecracker"
  /\ rt' = [rt EXCEPT ![n] = IF @ = "missing" THEN "made" ELSE @]
  /\ IF rt[n] = "missing" THEN UNCHANGED blame ELSE Blamed({n}, "shared")
  /\ Made(p, TRUE)
  /\ UNCHANGED <<backend, file, fwd, vm, stray, pids, faults>>

-----------------------------------------------------------------------------
(* Starting, for create and for start                                      *)

AfterBoot(p) ==
  CASE proc[p].cmd = "create"                            -> "save"
    [] proc[p].cmd = "start" /\ Kind(p) = "firecracker"  -> "reload"
    [] OTHER                                             -> "done"

Runs(p) ==
  LET n == Name(p) IN
  /\ At(p, "boot") /\ rt[n] # "missing"
  /\ rt' = [rt EXCEPT ![n] = "running"]
  /\ Goes(p, AfterBoot(p))
  /\ UNCHANGED <<backend, file, fwd, vm, stray, blame, pids, faults>>

\* docker start, incus start; limactl start, and the workspace container.
BootContainer(p) == Kind(p) \in {"docker", "incus"} /\ Runs(p)
BootLima(p)      == Kind(p) = "lima" /\ Runs(p)

\* startFirecrackerProcess: it looks for no VM of the name that is running, but
\* takes over its socket; the process has a new PID.
BootFirecracker(p) ==
  LET n == Name(p) IN
  /\ At(p, "boot") /\ Kind(p) = "firecracker" /\ rt[n] # "missing" /\ pids < MaxPid
  /\ rt' = [rt EXCEPT ![n] = "running"]
  /\ pids' = pids + 1
  /\ vm' = [vm EXCEPT ![n] = pids + 1]
  /\ stray' = stray \cup ({vm[n]} \ {0})
  /\ IF vm[n] # 0 THEN Blamed({n}, "again") ELSE UNCHANGED blame
  /\ proc' = [proc EXCEPT ![p].pc = AfterBoot(p), ![p].then = "done",
                                ![p].entry.pid = pids + 1]
  /\ UNCHANGED <<backend, file, fwd, faults>>

\* Mutant of Cleanup: what was made stays.
CleanupNothing(p) == UNCHANGED <<rt, fwd, vm, stray>>

\* A create that fails deletes what it has made, by its name.
Cleanup(p) ==
  LET n == Name(p) IN
  IF proc[p].own
    THEN /\ rt' = [rt EXCEPT ![n] = "missing"] /\ fwd' = [fwd EXCEPT ![n] = {}]
         /\ vm' = [vm EXCEPT ![n] = 0] /\ stray' = stray \cup ({vm[n]} \ {0})
    ELSE UNCHANGED <<rt, fwd, vm, stray>>

\* It does not start: it has been deleted, or some step of its start fails.
BootFails(p) ==
  /\ At(p, "boot")
  /\ \/ rt[Name(p)] = "missing" /\ UNCHANGED faults
     \/ rt[Name(p)] # "missing" /\ Fault
  /\ Cleanup(p) /\ Goes(p, "done")
  /\ UNCHANGED <<backend, file, blame, pids>>

-----------------------------------------------------------------------------
(* start, ports, stop and rm                                               *)

\* reconcileLocalInstancePortsFromConfig: codewire.yaml has the ports.  What has
\* changed is saved before the runtime starts.
Reconcile(p, ports) ==
  LET n == Name(p) IN
  /\ At(p, "reconcile")
  /\ CASE proc[p].entry.ports = ports -> Goes(p, "boot") /\ UNCHANGED fwd
       [] proc[p].entry.ports # ports /\ Kind(p) = "lima" /\ rt[n] = "running" ->
            Goes(p, "done") /\ UNCHANGED fwd
       [] OTHER ->
            /\ proc' = [proc EXCEPT ![p].pc = "save", ![p].then = "boot",
                                    ![p].entry.ports = ports]
            /\ IF Kind(p) = "lima" /\ rt[n] # "missing"
                 THEN fwd' = [fwd EXCEPT ![n] = ports] ELSE UNCHANGED fwd
  /\ UNCHANGED <<backend, file, rt, vm, stray, blame, pids, faults>>

\* addLimaPortForwards: what the entry has already is not added again.
EditPorts(p, port) ==
  LET n == Name(p) IN
  /\ At(p, "edit")
  /\ IF port \in proc[p].entry.ports THEN Goes(p, "save") /\ UNCHANGED fwd
     ELSE IF rt[n] = "missing" THEN Goes(p, "done") /\ UNCHANGED fwd
     ELSE /\ fwd' = [fwd EXCEPT ![n] = @ \cup {port}]
          /\ proc' = [proc EXCEPT ![p].pc = "save", ![p].entry.ports = @ \cup {port}]
  /\ UNCHANGED <<backend, file, rt, vm, stray, blame, pids, faults>>

\* The Firecracker process an entry names is stopped; PID 0 is none.
Killed(p) ==
  /\ vm' = [n \in Names |-> IF vm[n] = proc[p].entry.pid THEN 0 ELSE vm[n]]
  /\ stray' = stray \ {proc[p].entry.pid}

Halt(p) ==
  LET n == Name(p) IN
  /\ At(p, "halt")
  /\ IF Kind(p) = "firecracker"
       THEN /\ Killed(p)
            /\ rt' = [rt EXCEPT ![n] = IF vm'[n] = 0 /\ @ = "running" THEN "stopped" ELSE @]
            /\ proc' = [proc EXCEPT ![p].pc = "reload", ![p].entry.pid = 0]
       ELSE /\ rt' = [rt EXCEPT ![n] = IF @ = "missing" THEN @ ELSE "stopped"]
            /\ Goes(p, "done") /\ UNCHANGED <<vm, stray>>
  /\ UNCHANGED <<backend, file, fwd, blame, pids, faults>>

\* deleteLocalRuntime: one that is not there is no error.  For Firecracker the
\* process of the entry is stopped, and the directory of the name removed.
Delete(p) ==
  LET n == Name(p) IN
  /\ At(p, "delete")
  /\ rt' = [rt EXCEPT ![n] = "missing"] /\ fwd' = [fwd EXCEPT ![n] = {}]
  /\ LET left == {vm[n]} \ {0, proc[p].entry.pid} IN
       /\ vm' = [vm EXCEPT ![n] = 0]
       /\ stray' = (stray \ {proc[p].entry.pid}) \cup left
  /\ Goes(p, "save")
  /\ UNCHANGED <<backend, file, blame, pids, faults>>

-----------------------------------------------------------------------------
(* Writing the file                                                        *)

\* saveLocalInstanceState reads the file anew; the command's own instance is
\* still the one it read when it began.
Reload(p) ==
  /\ At(p, "reload")
  /\ proc' = [proc EXCEPT ![p].pc = "save", ![p].view = file,
       ![p].stale = {n \in {Name(p)} : n \in proc[p].stale \/ file[n] # proc[p].view[n]}]
  /\ UNCHANGED <<backend, file, blame, faults>> /\ UNCHANGED runtimes

Writing == {p \in Procs : At(p, "write")}

\* The names whose entries a save takes back to what they were: those that have
\* changed since the command read them, all of them when two saves overlap.
Overwritten(p) == IF Writing # {} THEN Names ELSE proc[p].stale

\* os.Create
Truncate(p) ==
  /\ At(p, "save")
  /\ file' = [n \in Names |-> NoEntry]
  /\ Goes(p, "write")
  /\ Blamed(Overwritten(p), "overwritten")
  /\ UNCHANGED <<backend, faults>> /\ UNCHANGED runtimes

\* Mutant of Content: an rm leaves the entry.
ContentKept(p) == [proc[p].view EXCEPT ![Name(p)] = proc[p].entry]

\* What a command writes: the file it has read, with its instance changed.
Content(p) ==
  [proc[p].view EXCEPT ![Name(p)] = IF proc[p].cmd = "rm" THEN NoEntry ELSE proc[p].entry]

\* A start whose ports have changed goes on to start the runtime.
Write(p) ==
  /\ At(p, "write")
  /\ file' = Content(p)
  /\ proc' = [q \in Procs |->
       IF q = p THEN [proc[p] EXCEPT !.pc = proc[p].then, !.view = Content(p)]
       ELSE IF AtWork(q)
         THEN [proc[q] EXCEPT !.stale = @ \cup {n \in Names : Content(p)[n] # proc[q].view[n]}]
       ELSE proc[q]]
  /\ UNCHANGED <<backend, blame, faults>> /\ UNCHANGED runtimes

\* A runtime ends by itself: a guest powers off, a container's command exits, the
\* host reboots.  The file goes on naming the process.
RuntimeEnds(n) ==
  /\ rt[n] = "running"
  /\ rt' = [rt EXCEPT ![n] = "stopped"] /\ vm' = [vm EXCEPT ![n] = 0]
  /\ UNCHANGED <<backend, file, fwd, stray, proc, blame, pids, faults>>

\* A command is interrupted, a backend's program fails, or the file cannot be
\* written: what has been done stays as it is.
BreaksOff(p) ==
  /\ AtWork(p) /\ Fault
  /\ Blamed(IF At(p, "write") THEN Names ELSE {Name(p)}, "broken off")
  /\ Goes(p, "done")
  /\ UNCHANGED <<backend, file>> /\ UNCHANGED runtimes

Next ==
  \/ \E p \in Procs :
       \/ \E n \in Names :
            \/ \E ports \in SUBSET Ports : Create(p, n, ports)
            \/ Start(p, n) \/ Stop(p, n) \/ Rm(p, n) \/ PublishPorts(p, n)
       \/ Status(p) \/ MakeDocker(p) \/ MakeIncus(p) \/ MakeLima(p) \/ MakeFirecracker(p)
       \/ BootContainer(p) \/ BootLima(p) \/ BootFirecracker(p) \/ BootFails(p)
       \/ \E ports \in SUBSET Ports : Reconcile(p, ports)
       \/ \E port \in Ports : EditPorts(p, port)
       \/ Halt(p) \/ Delete(p) \/ Reload(p) \/ Truncate(p) \/ Write(p) \/ BreaksOff(p)
  \/ \E n \in Names : RuntimeEnds(n)

Spec == Init /\ [][Next]_vars

-----------------------------------------------------------------------------
(* Properties                                                              *)

\* No command is at work on a name, and nothing is known to have gone wrong with
\* it: no command broke off, no save took back what another had written, no create
\* took over or deleted what another had made, no running Firecracker VM was
\* started again.
Settled(n) ==
  /\ blame[n] = {} /\ Writing = {}
  /\ \A p \in Procs : Name(p) = n => ~AtWork(p)

\* `cw local list` shows every runtime: a create that cannot make or boot its
\* runtime leaves none behind that is not listed, whoever is at work beside it.
\* One that breaks off, its file not saved for instance, is blamed.
RuntimeIsListed ==
  \A n \in Names : Settled(n) /\ (rt[n] # "missing" \/ vm[n] # 0) => Listed(file, n)

\* What is listed is there, with the ports the entry says, and no process but that
\* of the entry runs for it; that one may have ended by itself.
ListedIsThere ==
  \A n \in Names : Settled(n) /\ Listed(file, n) =>
    /\ rt[n] # "missing"
    /\ backend[n] = "lima" => fwd[n] = file[n].ports
    /\ backend[n] = "firecracker" => vm[n] \in {0, file[n].pid}
=============================================================================
