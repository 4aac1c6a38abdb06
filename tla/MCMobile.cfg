SPECIFICATION MCSpec
CONSTANTS
  Tracks = {t1, t2}
  NoTrack = none
  Taps = {u1, u2}
  Loops = {p1, p2}
  MaxFaults = 1
  PlayerTracks = {t1, t2}
  NoCurrent = nothing
  MaxCalls = 3
  MaxPending = 1
  Accounts = {a1, a2}
  NoAccount = nobody
  MaxSigns = 5
INVARIANTS
  CompletedIsIndexed
  OneLoopPerJob
  MobileTypeOK
  ShowsWhatPlays
  UserMatchesToken
PROPERTIES
  QueuedJobsSettle
  InterruptedIsStuck
CHECK_DEADLOCK FALSE
