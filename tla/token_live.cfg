\* A sync and a request with two connections: does every call end, and does a
\* sync find out that the grant is gone?
SPECIFICATION LiveSpec
CONSTANTS
  Workers = {w1}
  Requests = {q1}
  PoolSize = 2
  MaxPairs = 2
  Null = Null
PROPERTIES
  EveryCallEnds
  DeadPairNoticed
\* GitHub's last pair may be used up while nobody has an account.
CHECK_DEADLOCK FALSE
