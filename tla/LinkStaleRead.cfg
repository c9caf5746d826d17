\* A read that arrives after the plan has moved on.
SPECIFICATION Spec
CONSTANTS
  MaxRollouts = 1
  Stages = 3
  HeldStages = 1
  Hysteresis = 1
  Consecutive = 1
  MaxRetries = 0
  HeadStart = FALSE
  SetupMayFail = FALSE
  ObservationsStop = FALSE
  MaxReads = 3
  QueueCap = 1
PROPERTY StaleReadsDropped
CHECK_DEADLOCK FALSE
