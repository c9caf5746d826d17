\* max_server: four goals of any kind, from careful clients and from others.
\* The bridge: two clicks of one message each, one action, one restart of the page.
\* The model server: three commands of a page that begins to listen at any time.
\* The old editor: two data sets, two loads, two exports, one look at an episode, one crash.
CONSTANTS
  MaxGoals = 4  MaxRash = 2  None = None
  Roles <- Inputs  Reprs <- Types  Other = "other"  Needs <- InputsOf
  Model = Model  Web = Web  Clients = {Model, Web}  NoClient = NoClient  NoCommand = NoCommand
  Topics = {"robot"}  NamedJoints = FALSE
  MaxClicks = 2  BurstLen = 1  MaxSends = 1  MaxRestarts = 1
  Devices = {"camera"}
  MaxLoads = 2  MaxStarts = 2  MaxActions = 1  MaxCmds = 3
  d1 = d1  d2 = d2  Datasets = {d1, d2}  Layout <- TwoLayouts  NewPaths = {p1}  Targets = {d2, p1}
  Tick = 4  TrimChoices <- FewTrims  NoData = NoData
  MaxDataLoads = 2  MaxExports = 2  MaxViews = 1  MaxRequests = 3  MaxCrashes = 1
SPECIFICATION BackendsSpec
INVARIANTS MaxServerSafe PoseSafe ModelSafe RequestsExclude ExportFaithful
PROPERTIES ServersAnswer WrittenOnce ExportEnds
CHECK_DEADLOCK FALSE
