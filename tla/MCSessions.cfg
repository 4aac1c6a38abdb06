SPECIFICATION Spec
CONSTANTS
  Users = {u1}
  Keys = {k1, k2}
  NoKey = NoKey
  Nobody = Nobody
  MaxRequests = 4
  MaxDevices = 1
  MaxSessions = 1
  PoolSize = 2
SYMMETRY KeySymmetry
INVARIANTS
  TypeOK
  LogoutAllIsComplete
  RevokedDeviceStaysOut
  ReplayedTokenRejected
  SuspensionBars
  LimitExceededOnlyByUnlockedCount
  DeviceTableRacesOnlyByOverlap
PROPERTIES
  EvictsExpiredFirst
