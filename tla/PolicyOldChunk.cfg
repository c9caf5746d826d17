\* executor.py: results that arrive after the stop are thrown away.
CONSTANTS
  g1 = g1  g2 = g2  g3 = g3  NoGoal = NoGoal
  Goals <- TwoGoals  Standalone <- NoGoals  Reloads <- NoGoals
  ManagerPrompts <- OnlyRun  IsMvla = TRUE
  DeadmanTicks = 1  StaleTicks = 1  EpisodeTicks = 1  WatchdogTicks = 1
  ChunkSteps = 2  ExecuteSteps = 1  MaxLead = 0
SPECIFICATION Spec
INVARIANTS ChunkOfThisEpisode
CHECK_DEADLOCK FALSE
