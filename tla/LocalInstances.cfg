SPECIFICATION Spec
CONSTANTS
  Procs = {c1, c2}
  Names = {n1, n2}
  Backends = {"docker", "incus", "lima", "firecracker"}
  Ports = {8080}
  MaxPid = 4
  MaxFaults = 1
INVARIANTS RuntimeIsListed ListedIsThere
CHECK_DEADLOCK FALSE
