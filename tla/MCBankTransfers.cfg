CONSTANTS
  r1 = r1
  c1 = c1
  a1 = a1
  a2 = a2
  k1 = k1
  u1 = u1
  u2 = u2
  n1 = n1
  n2 = n2
  Nobody = Nobody
  Receives <- MCReceives
  Credits <- MCCredits
  Adds <- MCAdds
  Verifies <- MCVerifies
  Users <- MCUsers
  Accounts <- MCAccounts
  Valid <- MCValid
  Amount <- MCAmount
  MaxDbErrors = 2
  MaxCrashes = 1
SPECIFICATION Spec
INVARIANTS
  ToldTheTruth
  AccountsAgree
  StatisticsMatchReplies
PROPERTIES
  ReceivedIsDecided
CHECK_DEADLOCK FALSE
