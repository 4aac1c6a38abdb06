SPECIFICATION FairSpec
CONSTANTS
  MaxJobs = 3
  Keys = {k1}
  NoKey = NoKey
  Workers = {w1, w2}
  Cancellers = {c1}
  MaxCrashes = 1
  SessionFactoryBound = TRUE
INVARIANTS
  TypeOK
  ExactlyOnce
  EnqueueIsAtomicWithWork
PROPERTIES
  ImplementsTaskQueue
  PendingJobsSettle
