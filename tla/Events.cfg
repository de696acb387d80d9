SPECIFICATION FairSpec
CONSTANTS
  MaxUser = 2
  MaxSends = 2
  MaxSpec = 1
  Statuses = {"planning"}
  MaxFaults = 1
  Streams = {1}
  PerOwner = 1
  Lookback = 1
  Waits = 1
  Retries = 0
INVARIANTS TranscriptInOrder SentOnce StreamsSound
PROPERTY NeverSilentlyBehind
CHECK_DEADLOCK FALSE
