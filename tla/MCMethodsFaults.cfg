CONSTANTS
  m1 = m1
  m2 = m2
  m3 = m3
  s1 = s1
  s2 = s2
  r1 = r1
  r2 = r2
  None = None
  Methods <- MCMethods
  Setters <- MCSetters
  Removers <- MCRemovers
  MaxFaults = 1
SPECIFICATION MethodsSpec
SYMMETRY Symmetry
INVARIANTS
  DefaultIsSound
PROPERTIES
  RemovedMethodsStay
CHECK_DEADLOCK FALSE
