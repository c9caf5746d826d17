\* A goal without a manager: a stop can be lost, the episode clock still ends everything.
\* Two goals of the single-node policies, the second sent at any time after the first began.
\* The limits: a workspace of three places, an observation a tick old, a watchdog of two.
CONSTANTS
  g1 = g1  NoGoal = NoGoal
  Goals <- OneGoal  Standalone <- OneGoal  Reloads <- NoGoals
  ManagerPrompts <- NoGoals  IsMvla = FALSE
  DeadmanTicks = 0  StaleTicks = 0  EpisodeTicks = 1  WatchdogTicks = 1
  ChunkSteps = 1  ExecuteSteps = 0  MaxLead = 0
  MaxGoals = 2  Workers = 2  ChunkLen = 2  MaxInflight = 1  MaxPasses = 1
  Nobody = Nobody  Careful = TRUE  Kinds = {"pi05", "smolvla"}
  Speeds <- UpToThree  MaxSpeed = 2  MaxChange = 1  Low = 0  High = 2  MaxLag = 1  WatchTicks = 2
SPECIFICATION NodesSpec
INVARIANTS QueueSafe CountBelowCalls LimitsHold GripperFollows
PROPERTIES NoSurge ArmsRest AllGoalsEnd
CHECK_DEADLOCK FALSE
