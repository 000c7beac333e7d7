SPECIFICATION Spec
CONSTANTS
  Users = {u1}
  Intents = {p1, p2}
  Calls = {c1, c2}
  Amount = 1
  MaxMishaps = 1
  MaxSpent = 1
  Null = Null
INVARIANT TypeOK CreditedOnce TopUpExact AckedIsCredited
