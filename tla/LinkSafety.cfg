\* Two rollouts, the first of which may fail anywhere, with a replan; PolicyStates lost and repeated.
\* Or one rollout whose PolicyStates are overtaken too.
SPECIFICATION WideSpec
CONSTANTS
  MaxRollouts = 2
  Stages = 2
  HeldStages = 1
  Hysteresis = 1
  Consecutive = 2
  MaxRetries = 1
  HeadStart = TRUE
  SetupMayFail = TRUE
  ObservationsStop = FALSE
  MaxReads = 2
  QueueCap = 2
INVARIANTS TypeOK VersionNamesPrompt NoOldPrompt ReadsCountOnce
CHECK_DEADLOCK FALSE
