\* Two reviews and emails of one item: who is left out of an email gets the
\* next one, and the dashboard follows GitHub, in spite of a job that dies.
SPECIFICATION LiveSpec
CONSTANTS
  Workers = {w1}
  Reviews = {r1, r2}
  FormThresholds = {}
  DefaultThreshold = 1
  DedupWindow = 2
  EmailCap = 1
  MaxTime = 3
  MaxMoves = 1
  MaxAborts = 1
  Null = Null
PROPERTIES
  DashboardConverges
  DueIsReminded
\* The clock is bounded, and a deleted account does nothing more.
CHECK_DEADLOCK FALSE
