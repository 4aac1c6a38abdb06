SPECIFICATION FairSpec
CONSTANTS
  MaxTracks = 2
  Requests = {r1, r2}
  Workers = {w1, w2}
  MaxCrashes = 1
INVARIANTS
  TakedownHoldsUnlessRaced
  DraftAfterRequestOnlyByTranscode
  TrackIsBacked
  AnsweredUploadHasItsTrack
PROPERTIES
  UploadsLeaveProcessing
