SPECIFICATION FairSpec
CONSTANTS
  Users = {u1, u2}
  Keys = {k1}
  NoKey = NoKey
  Nobody = Nobody
  MaxRequests = 3
  MaxDevices = 1
  MaxSessions = 1
  PoolSize = 2
PROPERTIES
  RequestsAreAnswered
