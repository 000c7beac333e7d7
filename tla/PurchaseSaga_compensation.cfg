SPECIFICATION Spec
CONSTANTS
  Seats = {s1}
  Users = {u1}
  Tokens = {t1}
  Calls = {c1}
  TicketIds = {k1}
  Null = Null
  Price = 1
  InitialCredits = 1
PROPERTY CompensationFreesSeat
