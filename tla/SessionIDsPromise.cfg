SPECIFICATION FairSpec
CONSTANTS
  Clients = {c1}
  Names = {n1}
  NoName = NoName
  GroupTags = {FALSE}
  MaxID = 2
  MaxFaults = 2
  RefreshTicks = TRUE
PROPERTY IDsSurviveRestarts
CHECK_DEADLOCK FALSE
