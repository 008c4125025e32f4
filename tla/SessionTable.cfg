SPECIFICATION TableSpec
CONSTANTS
  Clients = {c1, c2}
  Names = {n1}
  NoName = NoName
  GroupTags = {TRUE}
  MaxID = 2
SYMMETRY Symmetry
INVARIANTS NameIndexSound RunningNameResolves ExitHookNotLost CompletedIsRecorded
PROPERTY ImplementsDirectory
CHECK_DEADLOCK FALSE
