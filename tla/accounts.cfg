\* Two browsers, two GitHub accounts, two requests at a time, one failure.
SPECIFICATION Spec
CONSTANTS
  Browsers = {b1, b2}
  Requests = {q1, q2}
  Persons = {ann, ben}
  MaxUsers = 2
  MaxSessions = 2
  MaxLogins = 2
  MaxFaults = 1
  Null = Null
SYMMETRY Symmetry
INVARIANTS
  TypeOK
  TokensReadable
  OneRowPerAccount
  NoGhosts
  SessionsAreOwn
PROPERTIES
  FormsActForTheirUser
  StaysSignedIn
CHECK_DEADLOCK FALSE
