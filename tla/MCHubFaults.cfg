CONSTANTS
  r1 = r1
  r2 = r2
  v1 = v1
  v2 = v2
  ref = ref
  Requests <- MCRequests
  References <- MCReferences
  ReferenceOf <- MCReferenceOf
  Verifications <- MCVerifications
  MaxRetryAttempts = 2
  MaxDbErrors = 1
  MaxCrashes = 1
SPECIFICATION Spec
SYMMETRY Symmetry
INVARIANTS
  TypeOK
  OneTransactionPerReference
  ProcessingHasLedger
  RetriesAreCounted
  AuthorizedByAll
  SettledIsConfirmed
PROPERTIES
  ImplementsLifecycle
CHECK_DEADLOCK FALSE
