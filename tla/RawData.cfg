\* The editor: two episodes, two edits, three requests of the page, two when one is
\* for a video, one crash.  The tools: two recorded episodes, two runs of the merge of
\* which one may die, one edit.
CONSTANTS
  Episodes = {e1, e2}  Keep = 1  MaxEdits = 2  MaxRequests = 3  MaxTime = 2  MaxCrashes = 1
  Servers = {s1, s2}  Main = s1  Together = 2  Viewers = {w1, w2}  MaxRecordings = 2  Lengths <- TwoLengths  PacketCounts = {0, 1, 3, 8}
  None = None  Empty = Empty  Mixed = Mixed  NoFile = NoFile  Original = Original
  SourceEpisodes <- TwoEpisodes  Unreadable <- SecondOnly  MaxMerges = 2  MaxDeaths = 1  Nothing = Nothing
  Frames = 3  Labels = {a, b}  MaxStores = 1  Forms <- SomePayloads  NoLabel = NoLabel  NoTrim = NoTrim
SYMMETRY Symmetry
SPECIFICATION RawSpec
INVARIANTS EditsKept ProxiesWhole MergesKeep RowsFollowEdits
PROPERTIES HistoryHolds
CHECK_DEADLOCK FALSE
