\* Two goals that reload a checkpoint and a third that does not.
CONSTANTS
  g1 = g1  g2 = g2  g3 = g3  NoGoal = NoGoal
  Goals <- ThreeGoals  Standalone <- LastTwo  Reloads <- FirstTwo
  ManagerPrompts <- NoGoals  IsMvla = FALSE
  DeadmanTicks = 0  StaleTicks = 0  EpisodeTicks = 0  WatchdogTicks = 1
  ChunkSteps = 1  ExecuteSteps = 0  MaxLead = 0
SPECIFICATION Spec
INVARIANTS CommandInv
CHECK_DEADLOCK FALSE
