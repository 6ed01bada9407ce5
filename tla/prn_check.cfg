\* Two pull requests on pages of one, a ceiling of two reviews, one process.
SPECIFICATION Spec
CONSTANTS
  Pulls = {1, 2}
  PageSize = 1
  MaxResults = 2
  DefaultThreshold = 1
  DedupWindow = 1
  CommandLines <- MCCommandLines
  Runs = {p1}
  MaxTime = 4
  MaxMoves = 2
  MaxMishaps = 1
  NoReview = NoReview
  Shell = Shell
  NoValue = NoValue
  NoFile = NoFile
  Torn = Torn
  Null = Null
INVARIANTS
  TypeOK
  StateFileWhole
  StampsAreTrue
PROPERTIES
  SweepIsComplete
  ImplementsPromise
