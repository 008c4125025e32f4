SPECIFICATION FairSpec
CONSTANTS
  Clients = {c1}
  Names = {n1}
  NoName = NoName
  GroupTags = {FALSE}
  MaxID = 1
  MaxFaults = 2
  RefreshTicks = TRUE
PROPERTY DiskCatchesUp
CHECK_DEADLOCK FALSE
