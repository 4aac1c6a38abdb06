SPECIFICATION Spec
CONSTANTS
  MaxRequests = 2
  PoolSize = 2
  MaxCleanups = 0
  PurgeLimit = 1
  Contents = {c1}
INVARIANTS
  OneAcquisition
