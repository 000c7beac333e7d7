SPECIFICATION Spec
CONSTANTS
  Seats = {s1}
  Users = {u1, u2}
  Tokens = {t1, t2}
  Workers = {w1, w2}
  Null = Null
  HoldSeconds = 1
  IdempotencySeconds = 2
  MaxDeadlockRetries = 2
  MaxTime = 2
SYMMETRY Symmetry
INVARIANT TypeOK HoldHonoured SoldOnce OverwriteNeedsLapse ReleaseAckIsFinal CacheAuthentic

