\* One rollout under fairness, with observations that stop and setups that fail.
SPECIFICATION FairSpec
CONSTANTS
  MaxRollouts = 1
  Stages = 2
  HeldStages = 1
  Hysteresis = 1
  Consecutive = 1
  MaxRetries = 1
  HeadStart = TRUE
  SetupMayFail = TRUE
  ObservationsStop = TRUE
  MaxReads = 2
  QueueCap = 1
PROPERTY RolloutEnds
CHECK_DEADLOCK FALSE
