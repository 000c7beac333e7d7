SPECIFICATION FairSpec
CONSTANTS
  Seats = {s1}
  Users = {u1, u2}
  Tokens = {t1, t2}
  Calls = {c1}
  TicketIds = {k1}
  Null = Null
  Price = 1
  InitialCredits = 1
PROPERTY HoldsEnd
