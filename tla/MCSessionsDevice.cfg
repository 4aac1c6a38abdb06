SPECIFICATION Spec
CONSTANTS
  Users = {u1}
  Keys = {k1}
  NoKey = NoKey
  Nobody = Nobody
  MaxRequests = 3
  MaxDevices = 1
  MaxSessions = 2
  PoolSize = 2
INVARIANTS
  RevokedDeviceHasNoSession
