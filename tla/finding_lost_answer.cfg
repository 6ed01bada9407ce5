\* GitHub's answer to a refresh is lost, the next refresh refused.
SPECIFICATION Spec
CONSTANTS
  Workers = {w1}
  Requests = {q1}
  PoolSize = 1
  MaxPairs = 2
  Null = Null
INVARIANT
  BlipForcesNobodyOut
CHECK_DEADLOCK FALSE
