SPECIFICATION Spec
CONSTANTS
  None = None
  Boards = {"camera"}
  Signers = {"ann"}
  RequestIds = {"first", "second"}
  Stamps = {1, 2}
  MaxVersions = 2
  MaxSamples = 2
INVARIANT NoSequenceConflict
CHECK_DEADLOCK FALSE
