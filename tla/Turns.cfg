SPECIFICATION MCSpec
CONSTANTS
  m1 = m1 m2 = m2 g1 = g1 g2 = g2 k1 = k1 k2 = k2
  Ids = {m1, m2}
  Gateways = {g1, g2}
  Calls = {k1, k2}
  None = None
  Clock = {1, 5}
  MaxPasses = 2
  MaxRounds = 1
  Answers <- AnyAnswer
  Trouble = {"transient", "slow"}
  MaxFaults = 1
INVARIANTS TurnsSound
PROPERTIES SpecsInSequence NoQuestionLeft
CHECK_DEADLOCK FALSE
