SPECIFICATION Spec
CONSTANTS
  Users = {u1, u2}
  Tickets = {k1}
  ListingIds = {l1}
  TransferIds = {t1}
  Calls = {c1}
  Price = 1
  InitialCredits = 1
  MaxMishaps = 1
  Null = Null
PROPERTY CompensationReturnsTicket
CHECK_DEADLOCK FALSE
