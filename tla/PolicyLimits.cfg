\* A manager-driven and a standalone goal that may overlap, with limits of up to
\* one period: every order of the goal threads, the timer, the inference thread
\* and the subscription.
CONSTANTS
  g1 = g1  g2 = g2  g3 = g3  NoGoal = NoGoal
  Goals <- TwoGoals  Standalone <- SecondOnly  Reloads <- NoGoals
  ManagerPrompts <- Prompts3  IsMvla = TRUE
  DeadmanTicks = 1  StaleTicks = 0  EpisodeTicks = 1  WatchdogTicks = 1
  ChunkSteps = 2  ExecuteSteps = 1  MaxLead = 0
SPECIFICATION Spec
INVARIANTS TypeOK MotionLimits CommandInv
CHECK_DEADLOCK FALSE
