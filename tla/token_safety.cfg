\* A sync and two requests with two connections: refreshes, sign-ins and
\* disconnects in every order, also cut short.
SPECIFICATION Spec
CONSTANTS
  Workers = {w1}
  Requests = {q1, q2}
  PoolSize = 2
  MaxPairs = 3
  Null = Null
SYMMETRY Interchangeable
INVARIANTS
  TypeOK
  RefreshesCurrentPair
  StoredPairUsable
  LockedOutOnlyIfRefused
  TokenSurvivesUse
PROPERTY
  DisconnectDeletes
\* GitHub's last pair may be used up while nobody has an account.
CHECK_DEADLOCK FALSE
