--------------------------- MODULE LerobotExport ---------------------------
(* The editor backend for LeRobot data sets: requests load a data set into  *)
(* one object that all handlers read, show the frames of an episode, and    *)
(* start an export, which a thread of its own writes while the page asks    *)
(* for its status.  Handlers run at the same time.                          *)
EXTENDS Integers, SequencesExt, FiniteSetsExt

CONSTANTS Datasets,   \* data sets there are
          Layout,     \* Layout[d]: the episodes of d, [length, file, from], from its global first row
          NewPaths,   \* folders to export to
          Targets,    \* bound: the paths a page asks to export to
          Tick,       \* bound: parts of a frame in which trims are given
          TrimChoices, \* bound: trims a page may send, by episode: a partial function to [start, end]
          MaxDataLoads, MaxExports, MaxViews, \* bounds: requests of each kind
          MaxRequests, MaxCrashes, \* bounds: requests of all kinds, ends of the process
          NoData \* nothing loaded

ASSUME LayoutAssumption ==
  /\ {Tick, MaxDataLoads, MaxExports, MaxViews, MaxRequests, MaxCrashes} \subseteq Nat /\ Tick > 0
  /\ \A d \in Datasets : Layout[d] \in Seq([length : Nat, file : Nat, from : Nat])
\* A trim starts and ends at some part of a frame.
ASSUME TrimAssumption ==
  \A trims \in TrimChoices : \A i \in DOMAIN trims : trims[i] \in [start : Int, end : Int]
ASSUME PathsAssumption ==
  Datasets \cap NewPaths = {} /\ Targets \subseteq Datasets \cup NewPaths /\ NoData \notin Datasets \cup NewPaths

VARIABLES dataset, \* STATE: path, info, episodes, episodes_by_index, each of some data set
          loads,   \* requests to load
          exports, \* requests to export and their threads
          export,  \* EXPORT_STATE
          folders, \* what lies under each path
          views,   \* requests for frames
          crashes,
          mingled  \* two loads overlapped (history)

exportVars == <<dataset, loads, exports, export, folders, views, crashes, mingled>>

Paths == Datasets \cup NewPaths
Parts == <<"path", "info", "episodes", "by_index">>
Unloaded == [part \in ToSet(Parts) |-> NoData]
NoExport == [running |-> FALSE, progress |-> 0, total |-> 0, message |-> "", error |-> FALSE, out_path |-> NoData]
Absent == [by |-> -1, episodes |-> <<>>, whole |-> FALSE] \* no folder, or an empty one
_require_loaded == \A part \in {"path", "info", "episodes"} : dataset[part] # NoData

FileRows(d, file) == {i \in DOMAIN Layout[d] : Layout[d][i].file = file}
Rows(d, file) == FoldSet(LAMBDA i, n : n + Layout[d][i].length, 0, FileRows(d, file))
Base(d, file) == Min({Layout[d][i].from : i \in FileRows(d, file)})
\* Position in its file of the first row of an episode.
Place(d, i) == Layout[d][i].from - Base(d, Layout[d][i].file)
\* What slicing a file's table yields: no rows behind its end.
Slice(d, file, first, n) == [k \in 1..Min({n, Max({0, Rows(d, file) - first})}) |-> <<d, file, first + k - 1>>]
RowsOf(d, i, first, n) == Slice(d, Layout[d][i].file, Place(d, i) + first, n)

ExportInit ==
  /\ dataset = Unloaded /\ loads = <<>> /\ exports = <<>> /\ export = NoExport /\ views = <<>>
  /\ folders = [p \in Paths |-> IF p \in Datasets THEN [by |-> 0, episodes |-> <<>>, whole |-> TRUE] ELSE Absent]
  /\ crashes = 0 /\ mingled = FALSE

----------------------------------------------------------------------------
(* Loading. *)

Loaded == [of |-> NoData, next |-> Len(Parts) + 1]
Assigning(l) == loads[l].next \in DOMAIN Parts
\* info.json and the episodes have been read; otherwise nothing changes.
Load(d) ==
  /\ Len(loads) < MaxDataLoads /\ loads' = Append(loads, [of |-> d, next |-> 1])
  /\ mingled' = (mingled \/ \E k \in DOMAIN loads : Assigning(k))
  /\ UNCHANGED <<dataset, exports, export, folders, views, crashes>>
\* Whoever reads the object meanwhile sees parts of two data sets.
Snapping(x) == exports[x].pc \in {"info", "episodes"}
AssignBegun(l) ==
  /\ Assigning(l)
  /\ loads' = [loads EXCEPT ![l] = IF loads[l].next = Len(Parts) THEN Loaded
                                   ELSE [of |-> loads[l].of, next |-> loads[l].next + 1]]
  /\ exports' = [x \in DOMAIN exports |-> IF Snapping(x) THEN [exports[x] EXCEPT !.overlapped = TRUE] ELSE exports[x]]
  /\ views' = [v \in DOMAIN views |-> IF views[v].pc = "rows" THEN [views[v] EXCEPT !.overlapped = TRUE] ELSE views[v]]
  /\ UNCHANGED <<export, folders, crashes, mingled>>
Assign(l) == AssignBegun(l) /\ dataset' = [dataset EXCEPT ![Parts[loads[l].next]] = loads[l].of]
Assigns == \E l \in DOMAIN loads : Assigning(l)

----------------------------------------------------------------------------
(* The frames of an episode. *)

episode_frames(i) ==
  /\ Len(views) < MaxViews /\ _require_loaded
  /\ dataset.by_index # NoData /\ i \in DOMAIN Layout[dataset.by_index]
  /\ views' = Append(views, [pc |-> "rows", of |-> dataset.by_index, episode |-> i, rows |-> <<>>, overlapped |-> Assigns])
  /\ UNCHANGED <<dataset, loads, exports, export, folders, crashes, mingled>>
\* By the rows' numbers in the whole data set.
ReadFrames(v) ==
  /\ views[v].pc = "rows"
  /\ LET ep == Layout[views[v].of][views[v].episode] IN
     views' = [views EXCEPT ![v] = [@ EXCEPT !.pc = "shown", !.rows = Slice(dataset.path, ep.file, ep.from, ep.length)]]
  /\ UNCHANGED <<dataset, loads, exports, export, folders, crashes, mingled>>

----------------------------------------------------------------------------
(* The request to export. *)

Asked(out, trims) ==
  [pc |-> "compare", out |-> out, trims |-> trims, root |-> NoData, info |-> NoData, eps |-> NoData,
   at |-> 1, overlapped |-> FALSE]
Over == [Asked(NoData, <<>>) EXCEPT !.pc = "died"]
Vanish(x) == exports' = [exports EXCEPT ![x] = Over]
Now(x, pc) == exports' = [exports EXCEPT ![x].pc = pc]
AskExport(out, trims) ==
  /\ Len(exports) < MaxExports /\ _require_loaded /\ ~export.running
  /\ exports' = Append(exports, Asked(out, trims))
  /\ UNCHANGED <<dataset, loads, export, folders, views, crashes, mingled>>
Compare(x) ==
  /\ exports[x].pc = "compare" /\ (IF exports[x].out = dataset.path THEN Vanish(x) ELSE Now(x, "root"))
  /\ UNCHANGED <<dataset, loads, export, folders, views, crashes, mingled>>
\* The snapshot, part by part.
TakeRoot(x) ==
  /\ exports[x].pc = "root"
  /\ exports' = [exports EXCEPT ![x] = [@ EXCEPT !.pc = "info", !.root = dataset.path, !.overlapped = Assigns]]
  /\ UNCHANGED <<dataset, loads, export, folders, views, crashes, mingled>>
TakeInfo(x) ==
  /\ exports[x].pc = "info" /\ exports' = [exports EXCEPT ![x] = [@ EXCEPT !.pc = "episodes", !.info = dataset.info]]
  /\ UNCHANGED <<dataset, loads, export, folders, views, crashes, mingled>>
\* The thread starts and the page is told so.
TakeEpisodes(x) ==
  /\ exports[x].pc = "episodes" /\ exports' = [exports EXCEPT ![x] = [@ EXCEPT !.pc = "claim", !.eps = dataset.episodes]]
  /\ UNCHANGED <<dataset, loads, export, folders, views, crashes, mingled>>

----------------------------------------------------------------------------
(* The thread. *)

Working == {"create", "episode", "reset"}
Outside == UNCHANGED <<dataset, loads, views, crashes, mingled>>
\* An error in the features or the tasks ends the thread: nothing tells of it.
PrepareFails(x) == exports[x].pc = "claim" /\ Vanish(x) /\ Outside /\ UNCHANGED <<export, folders>>
Started(x) ==
  [running |-> TRUE, progress |-> 0, total |-> Len(Layout[exports[x].eps]), message |-> "starting",
   error |-> FALSE, out_path |-> exports[x].out]
\* Mutant: the handler's look at running is enough.
ClaimUnlocked(x) ==
  /\ exports[x].pc = "claim" /\ Now(x, "create") /\ export' = Started(x) /\ Outside /\ UNCHANGED folders
\* The second of two ends without a trace.
Claim(x) ==
  /\ exports[x].pc = "claim"
  /\ IF export.running THEN Vanish(x) /\ UNCHANGED export ELSE Now(x, "create") /\ export' = Started(x)
  /\ Outside /\ UNCHANGED folders

Fails(x) ==
  /\ exports[x].pc \in Working \ {"reset"} /\ Now(x, "reset")
  /\ export' = [export EXCEPT !.error = TRUE, !.message = "failed"] /\ Outside /\ UNCHANGED folders
Made(x) == folders' = [folders EXCEPT ![exports[x].out] = [by |-> x, episodes |-> <<>>, whole |-> FALSE]]
\* Mutant: a folder with files in it will do.
CreateAnywhere(x) ==
  /\ exports[x].pc = "create" /\ Now(x, "episode") /\ Made(x) /\ Outside /\ UNCHANGED export
\* In a folder with files in it the export fails.
Create(x) ==
  /\ exports[x].pc = "create" /\ folders[exports[x].out] = Absent
  /\ Now(x, "episode") /\ Made(x) /\ Outside /\ UNCHANGED export

\* A half goes to the even number.
Round(t) ==
  LET n == t \div Tick
      rest == 2 * (t % Tick) IN
  IF rest < Tick \/ (rest = Tick /\ n % 2 = 0) THEN n ELSE n + 1
Within(t, full) == Max({0, Min({t, full})})
\* The frames first..last-1 of an episode.
Kept(ep, trim) ==
  [first |-> Round(Within(trim.start, ep.length * Tick)),
   last |-> Min({ep.length, Round(Within(trim.end, ep.length * Tick))})]
TrimOf(x, i) ==
  IF i \in DOMAIN exports[x].trims THEN exports[x].trims[i]
  ELSE [start |-> 0, end |-> Layout[exports[x].eps][i].length * Tick]
\* Less than half a frame.
Blank(x, i) ==
  LET full == Layout[exports[x].eps][i].length * Tick IN
  2 * Within(TrimOf(x, i).end, full) <= 2 * Within(TrimOf(x, i).start, full) + Tick
KeptOf(x, i) == Kept(Layout[exports[x].eps][i], TrimOf(x, i))
At(x) == exports[x].pc = "episode" /\ exports[x].at \in DOMAIN Layout[exports[x].eps]
Skipped(x, i) == Blank(x, i) \/ KeptOf(x, i).last <= KeptOf(x, i).first
Onward(x) == exports' = [exports EXCEPT ![x].at = exports[x].at + 1]

\* Progress stays where it is when rounding leaves no frame.
SkipEpisode(x) ==
  /\ At(x) /\ Skipped(x, exports[x].at) /\ Onward(x)
  /\ export' = IF Blank(x, exports[x].at) THEN [export EXCEPT !.progress = exports[x].at] ELSE export
  /\ Outside /\ UNCHANGED folders
\* Rows from the start of the file, pictures from the episode's start in it;
\* too few of either is an error.
Rows_(x, i) == Slice(exports[x].root, Layout[exports[x].eps][i].file, KeptOf(x, i).first, KeptOf(x, i).last - KeptOf(x, i).first)
Videos_(x, i) ==
  Slice(exports[x].root, Layout[exports[x].eps][i].file, Place(exports[x].eps, i) + KeptOf(x, i).first,
        KeptOf(x, i).last - KeptOf(x, i).first)
\* The data set written gets one more episode.
Adds(x, ep) ==
  folders' = [folders EXCEPT ![exports[x].out] = [@ EXCEPT !.episodes = Append(folders[exports[x].out].episodes, ep)]]
\* Mutant: pictures from the start of the file as well.
WriteFromFile(x) ==
  LET i == exports[x].at IN
  /\ At(x) /\ ~Skipped(x, i) /\ Onward(x)
  /\ DOMAIN Videos_(x, i) = 1..(KeptOf(x, i).last - KeptOf(x, i).first) /\ DOMAIN Rows_(x, i) = DOMAIN Videos_(x, i)
  /\ Adds(x, [of |-> i, rows |-> Rows_(x, i), videos |-> Rows_(x, i)])
  /\ export' = [export EXCEPT !.progress = i, !.message = "episode"] /\ Outside
WriteEpisode(x) ==
  LET i == exports[x].at IN
  /\ At(x) /\ ~Skipped(x, i) /\ Onward(x)
  /\ DOMAIN Videos_(x, i) = 1..(KeptOf(x, i).last - KeptOf(x, i).first) /\ DOMAIN Rows_(x, i) = DOMAIN Videos_(x, i)
  /\ Adds(x, [of |-> i, rows |-> Rows_(x, i), videos |-> Videos_(x, i)])
  /\ export' = [export EXCEPT !.progress = i, !.message = "episode"] /\ Outside
Finalize(x) ==
  /\ exports[x].pc = "episode" /\ ~At(x) /\ Now(x, "reset")
  /\ folders' = [folders EXCEPT ![exports[x].out].whole = TRUE]
  /\ export' = [export EXCEPT !.message = "done", !.progress = export.total] /\ Outside
\* Mutant: only a finished export is not running any more.
ResetIfDone(x) ==
  /\ exports[x].pc = "reset" /\ Now(x, "ended")
  /\ export' = [export EXCEPT !.running = export.error] /\ Outside /\ UNCHANGED folders
Reset(x) ==
  /\ exports[x].pc = "reset" /\ Now(x, "ended")
  /\ export' = [export EXCEPT !.running = FALSE] /\ Outside /\ UNCHANGED folders

\* Threads end with the process; what they wrote stays.
Crash ==
  /\ crashes < MaxCrashes /\ crashes' = crashes + 1
  /\ dataset' = Unloaded /\ export' = NoExport
  /\ loads' = [l \in DOMAIN loads |-> Loaded]
  /\ exports' = [x \in DOMAIN exports |-> IF exports[x].pc \in Working \cup {"ended"}
                                       THEN [exports[x] EXCEPT !.pc = "ended"] ELSE Over]
  /\ views' = [v \in DOMAIN views |-> [views[v] EXCEPT !.pc = IF views[v].pc = "rows" THEN "lost" ELSE views[v].pc]]
  /\ UNCHANGED <<folders, mingled>>

----------------------------------------------------------------------------
Thread(x) ==
  \/ PrepareFails(x) \/ Claim(x) \/ Fails(x) \/ Reset(x)
  \/ Create(x) \/ SkipEpisode(x) \/ WriteEpisode(x) \/ Finalize(x)
Handlers ==
  \/ \E i \in 1..Max({Len(Layout[d]) : d \in Datasets}) : episode_frames(i)
  \/ \E v \in DOMAIN views : ReadFrames(v)
  \/ \E out \in Targets : \E trims \in TrimChoices : AskExport(out, trims)
  \/ \E x \in DOMAIN exports : Compare(x) \/ TakeRoot(x) \/ TakeInfo(x) \/ TakeEpisodes(x)
Loader ==
  \/ \E d \in Datasets : Load(d)
  \/ \E l \in DOMAIN loads : Assign(l)

Bounded == Len(loads) + Len(exports) + Len(views) <= MaxRequests
ExportNext == (Handlers \/ Loader \/ Crash \/ \E x \in DOMAIN exports : Thread(x)) /\ Bounded'
\* A thread that has started goes on.
ExportFairness == \A x \in 1..MaxExports : WF_exportVars(x \in DOMAIN exports /\ Thread(x))
ExportSpec == ExportInit /\ [][ExportNext]_exportVars /\ ExportFairness

----------------------------------------------------------------------------
\* Type invariant: the values every variable takes.
ExportTypeOK ==
  /\ \A part \in ToSet(Parts) : dataset[part] \in Datasets \cup {NoData}
  /\ \A l \in DOMAIN loads : loads[l].of \in Datasets \cup {NoData} /\ loads[l].next \in 0..Len(Parts) + 1
  /\ \A x \in DOMAIN exports :
       /\ exports[x].pc \in {"compare", "root", "info", "episodes", "claim", "died", "ended"} \cup Working
       /\ exports[x].out \in Paths \cup {NoData} /\ {exports[x].root, exports[x].info, exports[x].eps} \subseteq Datasets \cup {NoData}
  /\ export.running \in BOOLEAN /\ export.error \in BOOLEAN /\ export.progress \in 0..export.total
  /\ export.message \in {"", "starting", "episode", "done", "failed"}
  /\ export.out_path \in Paths \cup {NoData}
  /\ \A p \in Paths : folders[p] = Absent \/ folders[p].by \in 0..MaxExports
  /\ \A v \in DOMAIN views : views[v].pc \in {"rows", "shown", "lost"}

\* The four parts of the loaded data set are of one data set between loads, as
\* long as no two of them overlapped.
StateWhole ==
  ~mingled /\ ~Assigns => Cardinality({dataset[part] : part \in ToSet(Parts)}) = 1

\* Two requests may both be told that their export has started, but one thread
\* at most writes, and the status tells of that one.
OneWriter ==
  \A x \in DOMAIN exports : exports[x].pc \in Working =>
    /\ export.running /\ export.out_path = exports[x].out
    /\ \A y \in DOMAIN exports : exports[y].pc \in Working => y = x

\* What an export says it has done is there and closed: of every episode the
\* frames whose middle lies inside its trim and none whose middle lies
\* outside, unless the trim keeps half a frame or less.
DoneIsThere ==
  export.message = "done" => LET folder == folders[export.out_path] IN
    /\ folder.whole /\ export.progress = export.total
    /\ LET d == exports[folder.by].eps IN \A i \in DOMAIN Layout[d] :
         LET as == {k \in DOMAIN folder.episodes : folder.episodes[k].of = i}
             trim == TrimOf(folder.by, i)
             Middle(n) == 2 * n * Tick + Tick
             kept == {n \in 0..Layout[d][i].length - 1 : 2 * trim.start < Middle(n) /\ Middle(n) < 2 * trim.end}
             frames(k) == 0..Len(folder.episodes[k].videos) - 1 IN
         /\ Cardinality(as) <= 1
         /\ as = {} => Blank(folder.by, i) \/ kept = {}
         /\ \A k \in as :
              /\ \A n \in kept : n - KeptOf(folder.by, i).first \in frames(k)
              /\ \A m \in frames(k) :
                   LET n == KeptOf(folder.by, i).first + m IN 2 * trim.start <= Middle(n) /\ Middle(n) <= 2 * trim.end

\* No load assigned a part while the export read its snapshot part by part, nor
\* did two loads ever overlap.
Torn(x) == mingled \/ exports[x].overlapped
\* What the export x should write of the episode ep, as many as it has pictures of.
OwnRows(x, ep) == RowsOf(exports[x].eps, ep.of, KeptOf(x, ep.of).first, Len(ep.videos))
Exported == {p \in NewPaths : folders[p] # Absent /\ ~Torn(folders[p].by)}

\* An export whose snapshot is not torn reads one data set, and the pictures it
\* writes are those of the episode it names, in order.  The rows beside them are
\* the episode's own for the first episode of a file and for no other.
PicturesOfEpisode ==
  \A p \in Exported : \A k \in DOMAIN folders[p].episodes :
    LET x == folders[p].by
        ep == folders[p].episodes[k] IN
    /\ exports[x].root = exports[x].eps /\ exports[x].info = exports[x].eps
    /\ ep.videos = OwnRows(x, ep)
    /\ ep.rows = OwnRows(x, ep) <=> Place(exports[x].eps, ep.of) = 0

\* The frames shown are those of the episode in files whose first row is the
\* first of the data set, and in no others.
Shown(v) == views[v].pc = "shown" /\ ~views[v].overlapped /\ ~mingled
OwnFrames(v) == RowsOf(views[v].of, views[v].episode, 0, Layout[views[v].of][views[v].episode].length)
FramesOfEpisode ==
  \A v \in DOMAIN views : Shown(v) /\ 1 \in DOMAIN OwnFrames(v) =>
    (views[v].rows = OwnFrames(v) <=> Base(views[v].of, Layout[views[v].of][views[v].episode].file) = 0)

\* No recorded data set is written over, nor is an export by a later one, also
\* when the loaded data set changes during the request or the process ended.
WrittenOnce ==
  [][\A p \in Paths : folders[p] # Absent =>
       /\ folders'[p] # Absent /\ folders'[p].by = folders[p].by
       /\ folders[p].whole => folders'[p] = folders[p]]_exportVars

\* An export that runs ends, and then another may start.
ExportEnds == export.running ~> ~export.running

\* However requests overlap, one export writes at most (server.py:465); the data
\* set loaded is whole between loads that did not overlap each other (:138).
RequestsExclude == ExportTypeOK /\ StateWhole /\ OneWriter

\* An export that says it is done holds each episode's frames within its trim;
\* which of its pictures and rows, and of the frames shown, are the episode's own.
ExportFaithful == DoneIsThere /\ PicturesOfEpisode /\ FramesOfEpisode
=============================================================================
