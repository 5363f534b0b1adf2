CONSTANTS
  t1 = t1
  t2 = t2
  x1 = x1
  x2 = x2
  v1 = v1
  v2 = v2
  k1 = k1
  c1 = c1
  None = None
  Transactions <- OneTransaction
  References <- OneReference
  Verifications <- TwoVerifications
  Cancellations <- OneCancellation
  Callbacks <- OneCallback
  Refunds <- NoCalls
  Known <- OneTransaction
  MaxFaults = 0
SPECIFICATION FairSpec
PROPERTIES
  EventuallyNotPending
  ConfirmedIsConcluded
CHECK_DEADLOCK FALSE
