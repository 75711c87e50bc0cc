SPECIFICATION MCSpec
CONSTANTS
  i1 = i1
  i2 = i2
  a = a
  b = b
  s1 = s1
  k1 = k1
  k2 = k2
  None = None
  Installations = {i1, i2}
  Users = {a, b}
  Tokens = {k1, k2}
  Sessions = {s1, s2}
  UserOf <- TwoAccounts
  Operations = {o1}
  Threads = {t1}
  Contents <- Leaving
  Withdrawing = {}
  LoggingOut = {s1}
  Lapsing = {}
  MaxRotations = 1
  MaxMishaps = 0
SYMMETRY Symmetry
CHECK_DEADLOCK FALSE
INVARIANT EveryLogoutSilences
