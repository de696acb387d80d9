SPECIFICATION Spec
CONSTANTS
  Tabs = {1, 2}
  Actors = {1}
  Returned = {2}
  Users = {"ann", "bob"}
  MemberOf <- Memberships
  Nobody = "nobody"
  MaxChanges = 2
  MaxSignals = 2
  MaxChecks = 2
  Viewers = {1, 2}
  MaxEdits = 2
  Rules = {1}
  NewRule = 1
  MaxVersion = 3
  MaxSnapshots = 2
  Channels = {"soil", "air"}
  TileChannel = "soil"
  MaxTime = 3
  MaxOpens = 2
  Window = 1
  RAW_CAP = 1
INVARIANTS
  ActsWhereShown
  NoNameLost
  ShownIsCurrent
CHECK_DEADLOCK FALSE
