\* Two users, of whom only u2 can rely on being enqueued at times.
SPECIFICATION LiveSpec
CONSTANTS
  Users = {u1, u2}
  Reliable = {u2}
  Kinds = {"SyncUser"}
  Processes = {p1}
  Slots = {s1, s2}
  MaxRetries = 1
  MaxStops = 1
  MaxMoves = 1
  Null = Null
PROPERTIES
  JobsEnd
  EveryoneIsServed
