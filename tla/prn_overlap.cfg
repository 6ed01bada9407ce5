\* Two processes over one state file, with one pull request, under fairness.
SPECIFICATION LiveSpec
CONSTANTS
  Pulls = {1}
  PageSize = 1
  MaxResults = 2
  DefaultThreshold = 1
  DedupWindow = 0
  CommandLines <- MCFewCommandLines
  Runs = {p1, p2}
  MaxTime = 3
  MaxMoves = 1
  MaxMishaps = 1
  NoReview = NoReview
  Shell = Shell
  NoValue = NoValue
  NoFile = NoFile
  Torn = Torn
  Null = Null
INVARIANT
  WatchedOnly
PROPERTY
  DueIsAlerted
