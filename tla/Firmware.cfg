SPECIFICATION CodegenSpec
CONSTANTS
  c1 = c1 c2 = c2
  Builds = {b1}
  Requests = {q1, q2}
  Solutions <- TwoPlans
  Workers = {w1, w2}
  NoWorker = NoWorker
  MaxSpec = 2
  MaxEvidence = 2
  MaxVersions = 2
  PageRows = 2
  MaxAttempts = 2
  MaxEvents = 4
  Objects = 3
INVARIANTS PublishedWhole DesignsSound
PROPERTIES LateWorkersHarmless WorkEnds
CHECK_DEADLOCK FALSE
