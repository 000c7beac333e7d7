SPECIFICATION Spec
CONSTANTS
  Seats = {s1, s2}
  Users = {u1}
  Tokens = {t1, t2}
  Calls = {c1, c2}
  TicketIds = {k1, k2}
  Null = Null
  Price = 1
  InitialCredits = 2
SYMMETRY Symmetry
INVARIANT TypeOK OneTicketPerSeat ReceiptsArePaid BalanceExact
PROPERTY BuyerKeepsHold
