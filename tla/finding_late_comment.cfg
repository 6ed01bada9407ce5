\* One worker. A comment that arrives between the last sync and a reminder.
SPECIFICATION Spec
CONSTANTS
  Workers = {w1}
  Reviews = {r1}
  FormThresholds = {}
  DefaultThreshold = 1
  DedupWindow = 3
  EmailCap = 1
  MaxTime = 5
  MaxMoves = 2
  MaxAborts = 0
  Null = Null
INVARIANT
  EveryCrossingIsDue
CHECK_DEADLOCK FALSE
