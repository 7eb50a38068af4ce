SPECIFICATION SpecToClash
CONSTANTS
  Contexts = {c1, c2}
  Users = {u1, u2}
  NumSessions = 2
  Timeout = 1
  MaxTick = 3
  MaxLogins = 2
  NULL = NULL
INVARIANTS
  TypeOK
  CookieOpensOwn
  StaysLoggedIn
  IdleSessionsEnd
SYMMETRY Symmetry
CHECK_DEADLOCK FALSE
