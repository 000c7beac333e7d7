SPECIFICATION FairSpec
CONSTANTS
  Seats = {s1}
  Users = {u1}
  Tokens = {t1, t2}
  Workers = {w1, w2}
  Null = Null
  HoldSeconds = 1
  IdempotencySeconds = 1
  MaxDeadlockRetries = 2
  MaxTime = 1
PROPERTY CallsAreAnswered ImplementsLedger
