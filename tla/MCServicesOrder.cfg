SPECIFICATION MCSpec
CONSTANTS
  MaxRequests = 5
  PoolSize = 2
  Keys = {k1}
  NoKey = NoKey
  Users = {u1}
  LibraryRequests = 5
  LibraryTracks = {t1, t2}
  Containers = {api1}
  Shells = {shell1}
PROPERTIES
  AddsAtAFreePosition
CHECK_DEADLOCK FALSE
