CONSTANTS
  r1 = r1
  r2 = r2
  v1 = v1
  v2 = v2
  ref = ref
  Requests <- OneRequest
  References <- MCReferences
  ReferenceOf <- OneReference
  Verifications <- MCVerifications
  MaxRetryAttempts = 3
  MaxDbErrors = 0
  MaxCrashes = 0
SPECIFICATION FairSpec
PROPERTIES
  EventuallyDecided
  AcceptedNotReprocessed
CHECK_DEADLOCK FALSE
