CONSTANTS
  d1 = d1
  d2 = d2
  f1 = f1
  z1 = z1
  s1 = s1
  l1 = l1
  l2 = l2
  a1 = a1
  u0 = u0
  u1 = u1
  u2 = u2
  n1 = n1
  n2 = n2
  x1 = x1
  Debits <- MCDebits
  Freezes <- MCFreezes
  Unfreezes <- MCUnfreezes
  Settles <- MCSettles
  Links <- MCLinks
  Opened <- MCOpened
  User <- MCUser
  Number <- MCNumber
  Amount <- MCAmount
  ExternalId <- MCExternalId
  Deposit = 1000
  Nobody = Nobody
  MaxDbErrors = 1
  MaxCrashes = 1
SPECIFICATION Spec
INVARIANTS
  MoneyIsSafe
  BooksAreRight
  LinkedOnce
PROPERTIES
  ImplementsLedger
SYMMETRY Symmetry
CHECK_DEADLOCK FALSE
