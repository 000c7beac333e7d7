SPECIFICATION Spec
CONSTANTS
  Services = {a}
  Calls = {c1, c2, c3}
  MaxOutstanding = 2
  TotalTimeout = 2
  MaxRetries = 1
  Backoff = 1
  FailureThreshold = 2
  RecoveryTimeout = 2
  HalfOpenMax = 1
  Null = Null
INVARIANT TypeOK OutstandingBounded WritesSentOnce
PROPERTY FailingServiceRests CallersAnswered
