SPECIFICATION FairSpec
CONSTANTS
  Calls = {1, 2}
  Actors = {1, 2}
  ActorLimit = 1
  TenantLimit = 2
  GlobalLimit = 2
  Concurrency = 2
  MaxIterations = 2
  MaxCalls = 3
  Reconnects = 1
  Ceiling = 2
  MaxFaults = 1
INVARIANTS AllowanceHeld SpendSound
PROPERTY CallsEnd
CHECK_DEADLOCK FALSE
