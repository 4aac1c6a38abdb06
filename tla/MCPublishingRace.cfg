SPECIFICATION Spec
CONSTANTS
  MaxTracks = 1
  Requests = {r1, r2}
  Workers = {w1}
  MaxCrashes = 1
PROPERTIES
  OnlyProcessingBecomesDraft
