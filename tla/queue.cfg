\* Old and new process of a deployment, one user, both kinds of jobs.
SPECIFICATION Spec
CONSTANTS
  Users = {u1}
  Reliable = {u1}
  Kinds = {"SyncUser", "SendReminder"}
  Processes = {p1, p2}
  Slots = {s1, s2}
  MaxRetries = 1
  MaxStops = 2
  MaxMoves = 1
  Null = Null
SYMMETRY Symmetry
INVARIANTS
  TypeOK
  OneRunner
  NoLockLeftBehind
PROPERTIES
  NoJobLost
