\* A placement and its retry on the tray, and a flip, with requests that are
\* refused or not answered, verdicts that are lost or late, and a capture left over.
SPECIFICATION MCFairSpec
CONSTANTS
  Starts = {"recognizer"}
  Verified = {"flip", "place"}
  Hysteresis = 1
  Consecutive = 1
  Captures = 2
  MayRefuse = TRUE
  MaxLeft = 1
  PerSubtask = 1
  MaxRetries = 1
INVARIANTS TypeOK OneRequestPending
PROPERTIES ReleasedNeedsOk ReleaseIsDecided
CHECK_DEADLOCK FALSE
