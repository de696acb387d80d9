SPECIFICATION MCSpec
CONSTANTS
  None = None
  Boards = {"sensor", "camera"}
  Signers = {"ann"}
  RequestIds = {"first"}
  Stamps = {1, 2}
  MaxVersions = 2
  MaxSamples = 3
  Frames = {1, 2, 3, 9}
  Foreign = {9}
  Refused = {2}
  Cards = {"a", "b"}
  MaxSpool = 2
  MaxQuarantine = 1
  MaxAge = 0
  MissLimit = 2
  MaxDay = 1
  MaxFaults = 1
INVARIANTS TablesTruthful StoredOnce CardSound
PROPERTIES SequencesKept NothingLostSilently PicturesDrain
CHECK_DEADLOCK FALSE
