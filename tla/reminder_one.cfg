\* One review, one worker: the whole life of a row, with re-nudges, settings
\* that change under a running job, and jobs that die.
SPECIFICATION Spec
CONSTANTS
  Workers = {w1}
  Reviews = {r1}
  FormThresholds = {0, 1, 2}
  DefaultThreshold = 1
  DedupWindow = 1
  EmailCap = 1
  MaxTime = 4
  MaxMoves = 3
  MaxAborts = 1
  Null = Null
INVARIANTS
  TypeOK
  NoOrphans
  WatchedOnly
  OptOutHonoured
PROPERTIES
  FlagsKept
  NoRepeat
  StampFollowsMail
  OnlyUnseenReaped
  BacklogOnlyClears
  ImplementsPromise
\* The clock is bounded, and a deleted account does nothing more.
CHECK_DEADLOCK FALSE
