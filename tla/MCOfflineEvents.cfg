SPECIFICATION FairSpec
CONSTANTS
  MaxEvents = 2
  OnStart = start
  OnConnect = {c1}
  QueueCap = 3
  BatchLimit = 2
  MaxFaults = 1
INVARIANTS
  TypeOK
  LostOnlyByHazard
  AcceptedIsRecorded
  ConflictOnlyByRival
PROPERTY
  TrackedIsRecorded
