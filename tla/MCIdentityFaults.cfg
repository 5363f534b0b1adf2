CONSTANTS
  r1 = r1
  r2 = r2
  o1 = o1
  l1 = l1
  f1 = f1
  f2 = f2
  f3 = f3
  q1 = q1
  e1 = e1
  e2 = e2
  x1 = x1
  g1 = g1
  g2 = g2
  v1 = v1
  v2 = v2
  v3 = v3
  d1 = d1
  d2 = d2
  k1 = k1
  k2 = k2
  k3 = k3
  h1 = h1
  b1 = b1
  b2 = b2
  b3 = b3
  z1 = z1
  mail1 = mail1
  mail2 = mail2
  phone1 = phone1
  Nobody = Nobody
  Registrations <- MCRegistrations
  OAuths <- MCOAuths
  Logins <- MCLogins
  Refreshes <- MCRefreshes
  Logouts <- MCLogouts
  Updates <- MCUpdates
  Deletes <- MCDeletes
  Generations <- MCGenerations
  Verifies <- MCVerifies
  EmailOf <- MCEmailOf
  PhoneOf <- MCPhoneOf
  Devices <- MCDevices
  Owner <- MCOwner
  KeyRegs <- MCKeyRegs
  Challenges <- MCChallenges
  Responses <- MCResponses
  Removals <- MCRemovals
  DeviceOf <- MCDeviceOf
  Separate <- MCSeparate
  Mixes <- MCMixes
SPECIFICATION Spec
INVARIANTS
  RowsHaveOwners
  RemovedForGood
  TokensSpentOnce
  CodesSingleUse
  ChallengeAnsweredOnce
CHECK_DEADLOCK FALSE
