SPECIFICATION Spec
CONSTANTS
  c1 = c1
  c2 = c2
  home = home
  away = away
  abroad = abroad
  a = a
  b = b
  bad = bad
  p = p
  Client <- MCClient
  Meta <- MCMeta
  Name <- MCOneName
  ValidName <- MCOneValidName
  Password <- MCPassword
  MaxSessions = 2
  Expiry = 0
  MaxUser = 2
  MaxToken = 3
  MaxTime = 1
CHECK_DEADLOCK FALSE
SYMMETRY Symmetry
VIEW MCView
INVARIANTS ServedLoggedIn RevokedGone SessionsApart
PROPERTIES SessionsEndRightly
