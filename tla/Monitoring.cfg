SPECIFICATION MonitoringSpec
CONSTANTS
  Readings = {r1, r2}
  Stamps = {0, 2}
  LastDay = 3
  MaxFaults = 1
  MinutesPerHour = 1
  HoursPerDay = 2
  RawDays = 2
  MinuteDays = 1
  Ahead = 0
  Limit = 1
  Devices = {1, 2, 3}
  SourcesOf <- Sources
  ChannelsOf <- Provisioned
  Grace <- Graces
  Camera = 1
  Skew = 0
  Retention = 1
  PageSize = 1
  LastTick = 2
  MaxUploads = 2
  Conns = {1}
  Leases = {"ann", "bob"}
  NoConn = 0
  MaxStray = 1
  MaxBreaks = 1
  Runs = {1, 2}
  Members = {"theirs", "ours"}
  Own = {"createrole"}
  ToAll = {"public"}
  Revocable = {"ours"}
  NoRun = 0
  MaxGrants = 2
INVARIANTS KeptSound FleetSound DatabaseSafe
PROPERTY RetentionCatchesUp
CHECK_DEADLOCK FALSE
