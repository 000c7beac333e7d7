SPECIFICATION Spec
CONSTANTS
  Users = {u1, u2}
  Emails = {e1}
  Tokens = {t1}
  Calls = {c1, c2}
  EXPIRY = 2
  BUFFER = 1
  ATTEMPTS = 2
  MaxTime = 3
  MaxMishaps = 1
  Null = Null
SYMMETRY Symmetry
INVARIANT TypeOK EmailUnique RejectedBounded RevokedIsRefused SuspensionTakesEffect
CHECK_DEADLOCK FALSE
