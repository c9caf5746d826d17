\* A policy whose observations never come back.
SPECIFICATION FairSpec
CONSTANTS
  MaxRollouts = 1
  Stages = 2
  HeldStages = 1
  Hysteresis = 1
  Consecutive = 1
  MaxRetries = 1
  HeadStart = TRUE
  SetupMayFail = FALSE
  ObservationsStop = TRUE
  MaxReads = 2
  QueueCap = 1
PROPERTY TimeoutEnds
CHECK_DEADLOCK FALSE
