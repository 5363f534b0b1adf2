CONSTANTS
  t1 = t1
  t2 = t2
  t3 = t3
  v1 = v1
  v2 = v2
  v3 = v3
  b1 = b1
  b2 = b2
  b3 = b3
  Unset = Unset
  Nothing = Nothing
  Transfers <- MCTransfers
  Verifications <- MCVerifications
  Banks <- MCBanks
  Source <- MCSource
  Destination <- MCDestination
  BankAnswers = TRUE
  MaxThrows = 2
  MaxDbErrors = 2
  MaxCrashes = 1
SPECIFICATION Spec
SYMMETRY Symmetry
INVARIANTS
  ReportsFollowBank
  FreshVerificationSettles
PROPERTIES
  DecisionNeverFlips
CHECK_DEADLOCK FALSE
