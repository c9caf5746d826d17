\* The node: three episode numbers and one crash, in any order of commands, frames,
\* failures of the encoders and of the disk, a shutdown and a restart.
\* The collector: three recordings, a failure of the worker and two restarts.
\* The streams: a camera and the action, episodes of three rows.
CONSTANTS
  MaxEpisodes = 3  MaxRows = 3  MaxCrashes = 1  QueueSize = 2
  OnOverflow = "abort"  AsyncSave = TRUE  UndoDepth = 2
  MaxRecs = 3  MaxFrames = 2  MaxStarts = 3  MaxTrouble = 1  Nothing = Nothing
  Streams = {"front", "action"}  Cameras = {"front"}  Staleness = 1  Warmup = 1
  RequireAll = TRUE  MaxFrameRows = 3
SPECIFICATION RecordersSpec
INVARIANTS FilesAgree EveryRowSaved FramesFollowRows EpisodesKept ScreenHonest
PROPERTIES StoreSpec AlwaysServes
CHECK_DEADLOCK FALSE
