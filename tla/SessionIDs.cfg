SPECIFICATION Spec
CONSTANTS
  Clients = {c1}
  Names = {}
  NoName = NoName
  GroupTags = {FALSE}
  MaxID = 2
  MaxFaults = 2
  RefreshTicks = FALSE
PROPERTY DurableIDNotReused
CHECK_DEADLOCK FALSE
