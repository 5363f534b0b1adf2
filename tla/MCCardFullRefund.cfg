CONSTANTS
  t1 = t1
  u1 = u1
  x1 = x1
  y1 = y1
  c1 = c1
  c2 = c2
  v1 = v1
  f1 = f1
  f2 = f2
  None = None
  Transactions <- MCTransactions
  References <- MCReferences
  Issued <- MCIssued
  RefundOf <- MCRefundOf
  RefundTransaction <- MCRefundTransaction
  PaymentOf <- MCPaymentOf
  Callbacks <- MCCallbacks
  Verifications <- MCVerifications
  Refunds <- MCRefunds
  MinLength = 4
  BinLength = 1
  KnownBins <- MCKnownBins
  Cards <- MCCards
  Months <- MCMonths
  Rows <- MCRows
  Date <- MCDate
  Wanted <- MCWanted
  Tables <- MCTables
  Limits <- MCLimits
  Listing = Listing
  MaxFaults = 0
SPECIFICATION MCSpec
PROPERTIES
  FullRefundMarksPayment
CHECK_DEADLOCK FALSE
