------------------------------ MODULE Recorder ------------------------------
(***************************************************************************)
(* The episode recorder of max_data_collect: RecorderNode with its         *)
(* commands and its frame timer, EpisodeWriter with its bounded queue and  *)
(* writer thread, the thread that finishes a save, and Dataset with the    *)
(* episode directories and metadata.json.                                  *)
(*                                                                         *)
(* Commands and timers run one at a time on the node's single-threaded     *)
(* executor and hold RecorderNode._lock.  A callback that waits for the    *)
(* writer or removes files is several steps (pc); the writer thread, the   *)
(* save thread and a crash may come in between.  What is on disk survives  *)
(* a crash, the rest does not.                                             *)
(***************************************************************************)
EXTENDS Naturals, Sequences, FiniteSets, SequencesExt

CONSTANTS
  MaxEpisodes,  \* bound: episode numbers
  MaxRows,      \* bound: frames put in the queue of an episode
  MaxCrashes,   \* bound: crashes
  QueueSize,    \* recording.queue_size
  OnOverflow,   \* recording.on_overflow
  AsyncSave,    \* storage.async_save
  UndoDepth     \* storage.undo_depth

ASSUME ConstantsAssumption ==
  /\ MaxEpisodes \in Nat /\ MaxRows \in Nat /\ MaxCrashes \in Nat
  /\ QueueSize \in Nat \ {0} /\ UndoDepth \in Nat
  /\ OnOverflow \in {"abort", "drop"} /\ AsyncSave \in BOOLEAN

VARIABLES
  pc,        \* the executor's thread
  leaving,   \* destroy_node has been called
  state,     \* RecorderNode._state
  current,   \* RecorderNode._episode_id
  writer,    \* the episode of RecorderNode._writer
  saved,     \* RecorderNode._saved
  victim,    \* the episode an undo is removing
  next,      \* Dataset._next_index
  queue,     \* EpisodeWriter._queue
  thread,    \* the writer thread; "dead" with _error set
  accepted,  \* frames put in the queue
  rows,      \* EpisodeWriter.written
  joined,    \* EpisodeWriter._thread is None again
  saver,     \* the save in progress: _finish_save and EpisodeWriter.finish
  target,    \* its episode
  dir,       \* episode directories
  index,     \* episodes in metadata.json
  cut,       \* episodes whose save or removal the end of the process cut short
  crashes

nodeVars   == <<pc, leaving, state, current, writer, saved, victim, next>>
writerVars == <<queue, thread, accepted, rows, joined>>
saveVars   == <<saver, target>>
diskVars   == <<dir, index>>
vars == <<nodeVars, writerVars, saveVars, diskVars, cut, crashes>>

None     == 0
Episodes == 1..MaxEpisodes

NodeOK ==
  /\ pc \in {"free", "put", "join", "remove", "undo", "unregister", "finish", "leaving", "down"}
  /\ leaving \in BOOLEAN
  /\ state \in {"idle", "recording", "pending", "saving"}
  /\ {current, writer, victim} \subseteq Episodes \cup {None}
  /\ saved \in Seq(Episodes) /\ Len(saved) <= UndoDepth
  /\ next \in 1..MaxEpisodes + 1
WriterOK ==
  /\ queue \in Seq({"row", "end"}) /\ Len(queue) <= QueueSize
  /\ thread \in {"none", "alive", "ended", "dead"}
  /\ accepted \in 0..MaxRows /\ rows \in Nat /\ joined \in BOOLEAN
SaveOK ==
  /\ saver \in {"none", "put", "join", "write", "register", "commit", "cleanup", "final"}
  /\ target \in Episodes \cup {None}
DiskOK ==
  /\ dir \in [Episodes -> {"none", "open", "full"}]
  /\ index \subseteq Episodes /\ cut \subseteq Episodes /\ crashes \in 0..MaxCrashes
TypeOK == NodeOK /\ WriterOK /\ SaveOK /\ DiskOK

NoWriter ==
  /\ queue' = <<>> /\ thread' = "none" /\ accepted' = 0 /\ rows' = 0 /\ joined' = FALSE

Init ==
  /\ pc = "free" /\ leaving = FALSE /\ state = "idle"
  /\ current = None /\ writer = None /\ saved = <<>> /\ victim = None /\ next = 1
  /\ queue = <<>> /\ thread = "none" /\ accepted = 0 /\ rows = 0 /\ joined = FALSE
  /\ saver = "none" /\ target = None
  /\ dir = [e \in Episodes |-> "none"] /\ index = {} /\ cut = {} /\ crashes = 0

-----------------------------------------------------------------------------
(* The writer thread.                                                      *)

Room == Len(queue) < QueueSize

WriteRow ==
  /\ thread = "alive" /\ queue # <<>> /\ Head(queue) = "row"
  /\ queue' = Tail(queue) /\ rows' = rows + 1
  /\ UNCHANGED <<nodeVars, thread, accepted, joined, saveVars, diskVars, cut, crashes>>

\* An encoder fails: the thread returns and leaves the queue as it is.
WriteFails ==
  /\ thread = "alive" /\ queue # <<>> /\ Head(queue) = "row"
  /\ queue' = Tail(queue) /\ thread' = "dead"
  /\ UNCHANGED <<nodeVars, accepted, rows, joined, saveVars, diskVars, cut, crashes>>

WriteEnds ==
  /\ thread = "alive" /\ queue # <<>> /\ Head(queue) = "end"
  /\ queue' = Tail(queue) /\ thread' = "ended"
  /\ UNCHANGED <<nodeVars, accepted, rows, joined, saveVars, diskVars, cut, crashes>>

\* Mutant: the drain does not wait for the thread.
OverAlways == TRUE
\* What the join in _drain waits for.
Over == thread # "alive"

-----------------------------------------------------------------------------
(* Discarding an episode: _drop_pending and EpisodeWriter.discard.          *)

Discard == pc' = "put"

\* put(None) waits for room in the queue, for ever if the thread is dead.
DiscardPut ==
  /\ pc = "put" /\ Room
  /\ queue' = Append(queue, "end")
  /\ pc' = IF joined THEN "remove" ELSE "join"
  /\ UNCHANGED <<leaving, state, current, writer, saved, victim, next, thread, accepted, rows,
                 joined, saveVars, diskVars, cut, crashes>>

DiscardJoin ==
  /\ pc = "join" /\ Over
  /\ pc' = "remove" /\ joined' = TRUE
  /\ UNCHANGED <<leaving, state, current, writer, saved, victim, next, queue, thread, accepted,
                 rows, saveVars, diskVars, cut, crashes>>

\* The node forgets the episode.
Dropped ==
  /\ writer' = None /\ current' = None /\ state' = "idle"
  /\ pc' = IF leaving THEN "leaving" ELSE "free"
  /\ IF saver = "none" THEN NoWriter ELSE UNCHANGED writerVars
  /\ UNCHANGED <<leaving, saved, victim, next, saveVars, index, cut, crashes>>

\* Not drained within 30 s, or _thread is None when it is looked at again,
\* since the save thread has joined it: a warning, and the directory stays.
DiscardFails ==
  /\ pc = "join" /\ (thread = "alive" \/ joined)
  /\ Dropped /\ UNCHANGED dir

DiscardRemove ==
  /\ pc = "remove"
  /\ dir' = [dir EXCEPT ![writer] = "none"]
  /\ Dropped

-----------------------------------------------------------------------------
(* The frame timer.                                                        *)

Ticks == pc = "free" /\ state = "recording"

\* A source has gone quiet.
TickStale ==
  /\ Ticks
  /\ Discard
  /\ UNCHANGED <<leaving, state, current, writer, saved, victim, next, writerVars, saveVars,
                 diskVars, cut, crashes>>

TickPut ==
  /\ Ticks /\ thread # "dead" /\ Room /\ accepted < MaxRows
  /\ queue' = Append(queue, "row") /\ accepted' = accepted + 1
  /\ UNCHANGED <<nodeVars, thread, rows, joined, saveVars, diskVars, cut, crashes>>

\* The writer has failed, or its queue is full.
TickAborts ==
  /\ Ticks /\ (thread = "dead" \/ (~Room /\ OnOverflow = "abort"))
  /\ Discard
  /\ UNCHANGED <<leaving, state, current, writer, saved, victim, next, writerVars, saveVars,
                 diskVars, cut, crashes>>

-----------------------------------------------------------------------------
(* Commands.  One that does not apply to the state changes nothing.        *)

\* Dataset.allocate: the first number from next on that has no directory.
Allocated(e) == e >= next /\ dir[e] = "none" /\ \A f \in next..e - 1 : dir[f] # "none"

Start(e) ==
  /\ pc = "free" /\ state = "idle" /\ Allocated(e)
  /\ next' = e + 1 /\ dir' = [dir EXCEPT ![e] = "open"]
  /\ writer' = e /\ current' = e /\ state' = "recording"
  /\ queue' = <<>> /\ thread' = "alive" /\ accepted' = 0 /\ rows' = 0 /\ joined' = FALSE
  /\ UNCHANGED <<pc, leaving, saved, victim, saveVars, index, cut, crashes>>

\* The writer does not start: its directory is removed, its number is used up.
StartFails(e) ==
  /\ pc = "free" /\ state = "idle" /\ Allocated(e)
  /\ next' = e + 1
  /\ UNCHANGED <<pc, leaving, state, current, writer, saved, victim, writerVars, saveVars,
                 diskVars, cut, crashes>>

Stop ==
  /\ pc = "free" /\ state = "recording"
  /\ state' = "pending"
  /\ UNCHANGED <<pc, leaving, current, writer, saved, victim, next, writerVars, saveVars,
                 diskVars, cut, crashes>>

Buffered == pc = "free" /\ state \in {"recording", "pending"}

\* SAVE when no frame has been written yet, though some may be in the queue.
SaveEmpty ==
  /\ Buffered /\ rows = 0
  /\ state' = "pending" /\ Discard
  /\ UNCHANGED <<leaving, current, writer, saved, victim, next, writerVars, saveVars,
                 diskVars, cut, crashes>>

Save ==
  /\ Buffered /\ rows > 0
  /\ saver' = "put" /\ target' = writer
  /\ IF AsyncSave THEN state' = "saving" /\ pc' = "free" ELSE state' = "pending" /\ pc' = "finish"
  /\ UNCHANGED <<leaving, current, writer, saved, victim, next, writerVars, diskVars, cut, crashes>>

DeleteBuffered ==
  /\ Buffered
  /\ state' = "pending" /\ Discard
  /\ UNCHANGED <<leaving, current, writer, saved, victim, next, writerVars, saveVars,
                 diskVars, cut, crashes>>

\* DELETE while idle undoes the last save: first the files ...
DeleteSaved ==
  /\ pc = "free" /\ state = "idle" /\ saved # <<>>
  /\ victim' = Last(saved) /\ saved' = Front(saved)
  /\ pc' = "undo"
  /\ UNCHANGED <<leaving, state, current, writer, next, writerVars, saveVars, diskVars, cut, crashes>>

UndoRemove ==
  /\ pc = "undo"
  /\ dir' = [dir EXCEPT ![victim] = "none"]
  /\ pc' = "unregister"
  /\ UNCHANGED <<leaving, state, current, writer, saved, victim, next, writerVars, saveVars,
                 index, cut, crashes>>

\* ... then the entry in metadata.json.
UndoUnregister ==
  /\ pc = "unregister"
  /\ index' = index \ {victim} /\ victim' = None
  /\ pc' = "free"
  /\ UNCHANGED <<leaving, state, current, writer, saved, next, writerVars, saveVars, dir, cut, crashes>>

-----------------------------------------------------------------------------
(* The save: _finish_save, on a thread of its own or inside the command.    *)

\* The lock is not held by a callback that waits; a save inside the command
\* holds it itself.
LockFree == pc \in {"free", "finish", "leaving"}

\* After the drain: the error of the writer thread fails the save.
Drained == IF thread = "dead" THEN "cleanup" ELSE "write"

SavePut ==
  /\ saver = "put" /\ Room
  /\ queue' = Append(queue, "end")
  /\ saver' = IF joined THEN Drained ELSE "join"
  /\ UNCHANGED <<nodeVars, thread, accepted, rows, joined, target, diskVars, cut, crashes>>

SaveJoin ==
  /\ saver = "join" /\ Over
  /\ joined' = TRUE
  /\ saver' = Drained
  /\ UNCHANGED <<nodeVars, queue, thread, accepted, rows, target, diskVars, cut, crashes>>

\* The encoders are closed, data.hdf5 and tasks.json are written.
SaveWrite ==
  /\ saver = "write" /\ dir[target] = "open"
  /\ dir' = [dir EXCEPT ![target] = "full"]
  /\ saver' = "register"
  /\ UNCHANGED <<nodeVars, writerVars, target, index, cut, crashes>>

\* Dataset.register; metadata.json is replaced as a whole.
SaveRegister ==
  /\ saver = "register"
  /\ index' = index \cup {target}
  /\ cut' = IF leaving THEN cut ELSE cut \ {target}
  /\ saver' = "commit"
  /\ UNCHANGED <<nodeVars, writerVars, target, dir, crashes>>

\* Not drained within 600 s, joined by a discard, or storage fails.
SaveFails ==
  /\ \/ saver = "join" /\ (thread = "alive" \/ joined)
     \/ saver \in {"write", "register"}
  /\ saver' = "cleanup"
  /\ UNCHANGED <<nodeVars, writerVars, target, diskVars, cut, crashes>>

UndoList ==
  LET list == Append(saved, target)
  IN IF Len(list) <= UndoDepth THEN list ELSE SubSeq(list, Len(list) - UndoDepth + 1, Len(list))

SaveCommit ==
  /\ saver = "commit" /\ LockFree
  /\ saved' = UndoList /\ current' = target
  /\ saver' = "final"
  /\ UNCHANGED <<pc, leaving, state, writer, victim, next, writerVars, target, diskVars, cut, crashes>>

\* Mutant: a failed save leaves its files.
SaveCleanupKeeps ==
  /\ saver = "cleanup" /\ saver' = "final"
  /\ UNCHANGED <<nodeVars, writerVars, target, diskVars, cut, crashes>>
SaveCleanup ==
  /\ saver = "cleanup"
  /\ dir' = [dir EXCEPT ![target] = "none"]
  /\ saver' = "final"
  /\ UNCHANGED <<nodeVars, writerVars, target, index, cut, crashes>>

\* Mutant: only a save that succeeded returns to idle.
SaveFinalCommitted ==
  /\ saver = "final" /\ LockFree
  /\ state' = IF target \in index THEN "idle" ELSE state
  /\ writer' = None /\ saver' = "none" /\ target' = None /\ NoWriter
  /\ pc' = IF pc = "finish" THEN "free" ELSE pc
  /\ UNCHANGED <<leaving, current, saved, victim, next, diskVars, cut, crashes>>
SaveFinal ==
  /\ saver = "final" /\ LockFree
  /\ state' = "idle"
  /\ writer' = None /\ saver' = "none" /\ target' = None /\ NoWriter
  /\ pc' = IF pc = "finish" THEN "free" ELSE pc
  /\ UNCHANGED <<leaving, current, saved, victim, next, diskVars, cut, crashes>>

-----------------------------------------------------------------------------
(* The end of the process.                                                 *)

\* destroy_node: an episode in flight is discarded, one being saved too.
Shutdown ==
  /\ pc = "free"
  /\ leaving' = TRUE
  /\ IF writer # None THEN Discard ELSE pc' = "leaving"
  /\ cut' = IF saver # "none" THEN cut \cup {target} ELSE cut
  /\ UNCHANGED <<state, current, writer, saved, victim, next, writerVars, saveVars, diskVars, crashes>>

\* Episodes whose directory is being removed.
Removing == {e \in Episodes : \/ pc = "remove" /\ e = writer
                              \/ pc = "undo" /\ e = victim
                              \/ saver = "cleanup" /\ e = target}

\* Everything but the disk is lost; of an episode that is being removed some
\* files may be left.
Ends ==
  /\ pc' = "down" /\ leaving' = FALSE /\ state' = "idle"
  /\ current' = None /\ writer' = None /\ saved' = <<>> /\ victim' = None
  /\ saver' = "none" /\ target' = None /\ NoWriter
  /\ \E part \in SUBSET {e \in Removing : dir[e] = "full"} :
       dir' = [e \in Episodes |-> IF e \in part THEN "open" ELSE dir[e]]
  /\ UNCHANGED <<next, index>>

Exit ==
  /\ pc = "leaving"
  /\ Ends /\ UNCHANGED <<cut, crashes>>

Crash ==
  /\ pc # "down" /\ crashes < MaxCrashes
  /\ crashes' = crashes + 1
  /\ cut' = cut \cup ({target, victim} \ {None})
  /\ Ends

\* Dataset.open: numbering goes on after the highest directory.
Restart ==
  /\ pc = "down"
  /\ pc' = "free"
  /\ \E n \in 0..MaxEpisodes :
       /\ n # None => dir[n] # "none"
       /\ \A e \in Episodes : e > n => dir[e] = "none"
       /\ next' = n + 1
  /\ UNCHANGED <<leaving, state, current, writer, saved, victim, writerVars, saveVars, diskVars,
                 cut, crashes>>

-----------------------------------------------------------------------------
Writes == WriteRow \/ WriteFails \/ WriteEnds
Discards == DiscardPut \/ DiscardJoin \/ DiscardFails \/ DiscardRemove
Undoes == UndoRemove \/ UndoUnregister
Saves == SavePut \/ SaveJoin \/ SaveWrite \/ SaveRegister \/ SaveFails
         \/ SaveCommit \/ SaveCleanup \/ SaveFinal
Commands == (\E e \in Episodes : Start(e) \/ StartFails(e))
            \/ Stop \/ SaveEmpty \/ Save \/ DeleteBuffered \/ DeleteSaved

Next ==
  \/ Writes \/ TickStale \/ TickPut \/ TickAborts
  \/ Commands \/ Discards \/ Undoes \/ Saves
  \/ Shutdown \/ Exit \/ Crash \/ Restart

Spec == Init /\ [][Next]_vars

-----------------------------------------------------------------------------
(* Correctness.                                                            *)

\* Saved and not yet registered, or removed and not yet taken from the index.
InFlight(e) ==
  \/ e = target /\ saver \in {"register", "cleanup"}
  \/ e = victim /\ pc = "unregister"

(* metadata.json lists an episode exactly when its files are complete, unless
   its save or removal was cut short by the end of the process. *)
IndexAgrees ==
  \A e \in Episodes : e \in cut \/ InFlight(e) \/ (e \in index <=> dir[e] = "full")

(* What DELETE would undo is an episode that is listed and complete: no number
   is given to another episode while it can still be undone. *)
UndoIsSaved == \A e \in ToSet(saved) : e \in cut \/ (e \in index /\ dir[e] = "full")

(* The episode that is written to data.hdf5 has every frame that was put in
   the queue, also those that were waiting when SAVE came. *)
EveryRowSaved ==
  saver \in {"write", "register", "commit"} /\ target \notin cut => rows = accepted

\* The queue is full and nobody takes from it.
Jammed == thread = "dead" /\ ~Room

(* The recorder always comes back to serve commands: every save, discard and
   undo ends, unless the writer died with its queue full. *)
Serves == pc = "free" /\ state # "saving"
ServesAgain == []<>(Serves \/ Jammed \/ pc = "down")

(* The index, the files and the undo list agree, whatever failed and wherever
   the process ended (recorder_node.py:262-318, dataset.py). *)
FilesAgree == TypeOK /\ IndexAgrees /\ UndoIsSaved
=============================================================================
