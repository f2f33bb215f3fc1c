\* Three markets, batches of two, texts that change under the job.
SPECIFICATION Spec
CONSTANTS
  j1 = j1
  Jobs = {j1}
  Markets = {1, 2, 3}
  Fields <- MCFields
  Versions = {0, 1}
  BatchSize = 2
  MaxRetries = 1
  EachBatch = TRUE
INVARIANTS
  BatchingIsTransparent
  DisplayIsFaithful
CHECK_DEADLOCK FALSE
