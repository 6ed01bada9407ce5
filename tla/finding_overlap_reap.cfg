\* Two workers. Two syncs of one user overlap, and one reaps what both saw.
SPECIFICATION Spec
CONSTANTS
  Workers = {w1, w2}
  Reviews = {r1}
  FormThresholds = {}
  DefaultThreshold = 1
  DedupWindow = 3
  EmailCap = 1
  MaxTime = 5
  MaxMoves = 2
  MaxAborts = 0
  Null = Null
PROPERTY
  OnlyUnseenReaped
CHECK_DEADLOCK FALSE
