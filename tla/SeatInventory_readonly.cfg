SPECIFICATION Spec
CONSTANTS
  Seats = {s1}
  Users = {u1}
  Tokens = {t1}
  Workers = {w1, w2}
  Null = Null
  HoldSeconds = 1
  IdempotencySeconds = 2
  MaxDeadlockRetries = 1
  MaxTime = 1
PROPERTY SoldRowIsLeftAlone
