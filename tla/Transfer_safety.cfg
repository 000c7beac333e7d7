SPECIFICATION Spec
CONSTANTS
  Users = {u1, u2, u3}
  Tickets = {k1}
  ListingIds = {l1}
  TransferIds = {t1, t2}
  Calls = {c1, c2}
  Price = 1
  InitialCredits = 2
  MaxMishaps = 1
  Null = Null
SYMMETRY Symmetry
INVARIANT TypeOK ConsentBeforeMove TransferBalancesExact ChargedOnce
PROPERTY TakenFromSeller
CHECK_DEADLOCK FALSE
