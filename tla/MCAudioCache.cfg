SPECIFICATION Spec
CONSTANTS
  MaxRequests = 3
  PoolSize = 2
  MaxCleanups = 2
  PurgeLimit = 1
  Contents = {c1, c2}
SYMMETRY ContentSymmetry
INVARIANTS
  TypeOK
  SingleFlightUnlessLapsed
  LiveEntriesAreBacked
