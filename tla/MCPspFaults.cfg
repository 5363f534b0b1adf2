CONSTANTS
  t1 = t1
  t2 = t2
  x1 = x1
  v1 = v1
  v2 = v2
  k1 = k1
  None = None
  Transactions <- MCTransactions
  Known <- MCKnown
  References <- MCReferences
  PspVerifications <- MCPspVerifications
  PspCancellations <- MCPspCancellations
  MaxFaults = 1
SPECIFICATION PspSpec
SYMMETRY Symmetry
INVARIANTS
  SuccessfulIsRecorded
  AttemptsFollowReplies
CHECK_DEADLOCK FALSE
