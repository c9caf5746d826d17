---------------------------- MODULE DataCollect -----------------------------
(* The stand-alone collector: the main loop reads keys and adds frames, and *)
(* hands everything that touches the data set to one worker thread through  *)
(* an unbounded queue.  Deleting the last episode writes the rest of the    *)
(* data set anew and swaps folders; a start repairs what a crash has left,  *)
(* and data_recover.py, run by hand, what a start does not.                 *)
EXTENDS Integers, SequencesExt, FiniteSetsExt

CONSTANTS MaxRecs,    \* bound: recordings that are started
          MaxFrames,  \* bound: frames of one recording
          MaxStarts,  \* bound: starts of the program
          MaxTrouble, \* bound: operations of the worker that fail
          Nothing        \* no folder; no command

ASSUME SizesAssumption == {MaxRecs, MaxFrames, MaxStarts, MaxTrouble} \subseteq Nat

VARIABLES main,      \* the main thread: down, recover, sweep, clean, load, run, wait
          recording, \* _recording
          rec,       \* number of the present or last recording (history)
          shown,     \* _frame_count
          saves,     \* _pending_saves
          deletes,   \* _pending_deletes
          numSaved,  \* _num_saved
          orders,     \* _queue
          worker,    \* the worker thread, at its queue or inside a command
          job,       \* the command it works on
          buffer,    \* dataset.episode_buffer: the recording of each frame
          fresh,     \* episodes saved but still in the writers' memory
          count,     \* dataset.num_episodes
          root, tmp, bak, \* the folders: their episodes, are they whole, and how
                     \* many episodes info.json counts that no file has
          mend,      \* data_recover.py: no, check, info, stats, or again
          starts,    \* starts so far
          trouble    \* commands of this process that failed (history)

operator == <<recording, rec, shown>>
pending == <<saves, deletes, numSaved>>
dataset == <<buffer, fresh, count>>
folders == <<root, tmp, bak, mend>>
collectVars == <<main, recording, rec, shown, saves, deletes, numSaved, orders, worker,
          job, buffer, fresh, count, root, tmp, bak, mend, starts, trouble>>

Swapping == {"aside", "swap"}
Deleted == {"sweep", "sweeping", "reload", "told"}
Deleting == {"clear", "flush", "write", "writing"} \cup Swapping \cup Deleted
Working == main \in {"run", "wait"} /\ worker # "ended"

Folder(eps) == [eps |-> eps, whole |-> TRUE, torn |-> 0]
Partial(folder) == [folder EXCEPT !.whole = FALSE]
Stored == root.eps \o fresh
\* What a start would find.
Durable == IF root # Nothing THEN root.eps ELSE IF bak # Nothing THEN bak.eps ELSE <<>>

CollectInit ==
  /\ main = "down" /\ recording = FALSE /\ rec = 0 /\ shown = 0
  /\ saves = 0 /\ deletes = 0 /\ numSaved = 0
  /\ orders = <<>> /\ worker = "ended" /\ job = Nothing
  /\ buffer = <<>> /\ fresh = <<>> /\ count = 0
  /\ root = Nothing /\ tmp = Nothing /\ bak = Nothing /\ mend = "no"
  /\ starts = 0 /\ trouble = {}

----------------------------------------------------------------------------
(* A start: what an interrupted deletion has left is put right first. *)

StartUp ==
  /\ main = "down" /\ starts < MaxStarts
  /\ mend = "no"    \* the operator runs a repair to its end
  /\ main' = "recover" /\ starts' = starts + 1
  /\ UNCHANGED <<operator, pending, orders, worker, job, dataset, folders, trouble>>

\* Mutant: the folder that was being written replaces the lost one.
RollForward ==
  /\ main = "recover" /\ main' = "sweep"
  /\ IF root = Nothing /\ tmp # Nothing THEN root' = tmp /\ tmp' = Nothing ELSE UNCHANGED <<root, tmp>>
  /\ UNCHANGED <<operator, pending, orders, worker, job, dataset, bak, mend, starts, trouble>>
RollBack ==
  /\ main = "recover" /\ main' = "sweep"
  /\ IF root = Nothing /\ bak # Nothing THEN root' = bak /\ bak' = Nothing ELSE UNCHANGED <<root, bak>>
  /\ UNCHANGED <<operator, pending, orders, worker, job, dataset, tmp, mend, starts, trouble>>

SweepTmp ==
  /\ main = "sweep" /\ main' = "clean" /\ tmp' = Nothing
  /\ UNCHANGED <<operator, pending, orders, worker, job, dataset, root, bak, mend, starts, trouble>>
SweepBak ==
  /\ main = "clean" /\ main' = "load" /\ bak' = Nothing
  /\ UNCHANGED <<operator, pending, orders, worker, job, dataset, root, tmp, mend, starts, trouble>>

\* A folder without tasks.parquet has no episode and is made anew.
Load ==
  /\ main = "load" /\ (root # Nothing => root.torn = 0)
  /\ main' = "run" /\ worker' = "get"
  /\ root' = IF root = Nothing THEN Folder(<<>>) ELSE root
  /\ numSaved' = Len(root'.eps) /\ count' = Len(root'.eps)
  /\ UNCHANGED <<operator, saves, deletes, orders, job, buffer, fresh, tmp, bak, mend, starts, trouble>>

\* A new process begins with nothing in memory.
Down ==
  /\ main' = "down" /\ recording' = FALSE /\ shown' = 0 /\ UNCHANGED rec
  /\ saves' = 0 /\ deletes' = 0 /\ numSaved' = 0 /\ orders' = <<>>
  /\ worker' = "ended" /\ job' = Nothing
  /\ buffer' = <<>> /\ fresh' = <<>> /\ count' = 0 /\ trouble' = {}

\* A file that was never closed cannot be read: the program ends with an error.
LoadFails ==
  /\ main = "load" /\ root # Nothing /\ root.torn > 0
  /\ Down /\ UNCHANGED <<folders, starts>>

----------------------------------------------------------------------------
(* The repair of a data set that does not load (data_recover.py); its first *)
(* episodes, the ones in closed files, are kept.                            *)

Mending(from, to) == main = "down" /\ mend \in from /\ mend' = to /\ root # Nothing
NotRunning == UNCHANGED <<main, operator, pending, orders, worker, job, dataset, tmp, bak, starts, trouble>>

\* There is a closed file to keep.  What is gone already is skipped, so the
\* repair may be begun again.
RemoveTorn ==
  /\ Mending({"no", "again"}, "check") /\ root.eps # <<>> /\ (mend = "no" => root.torn > 0)
  /\ UNCHANGED root /\ NotRunning
CheckKept == Mending({"check"}, "info") /\ UNCHANGED root /\ NotRunning
WriteInfo == Mending({"info"}, "stats") /\ root' = [root EXCEPT !.torn = 0] /\ NotRunning
WriteStats == Mending({"stats"}, "loads") /\ UNCHANGED root /\ NotRunning
LoadsAgain == Mending({"loads"}, "no") /\ UNCHANGED root /\ NotRunning
\* The repair itself may be cut short.
MendCut == Mending({"check", "info", "stats", "loads"}, "again") /\ UNCHANGED root /\ NotRunning

----------------------------------------------------------------------------
(* The main loop: a key or a frame per pass. *)

Put(cmd) == orders' = Append(orders, cmd)
Idle == recording' = FALSE /\ shown' = 0 /\ UNCHANGED rec
Elsewhere == UNCHANGED <<worker, job, dataset, folders, starts, trouble>>

Record ==
  /\ main = "run" /\ ~recording /\ rec < MaxRecs
  /\ recording' = TRUE /\ rec' = rec + 1 /\ shown' = 0
  /\ UNCHANGED <<main, pending, orders>> /\ Elsewhere

\* Mutant: frames are dropped, and counted, while a deletion runs.
AddFrameIfQuiet ==
  /\ main = "run" /\ recording /\ shown < MaxFrames
  /\ IF deletes > 0 THEN UNCHANGED orders ELSE Put([kind |-> "frame", rec |-> rec])
  /\ shown' = shown + 1
  /\ UNCHANGED <<main, recording, rec, pending>> /\ Elsewhere
\* The warm-up is over and every topic has a value.
AddFrame ==
  /\ main = "run" /\ recording /\ shown < MaxFrames
  /\ Put([kind |-> "frame", rec |-> rec]) /\ shown' = shown + 1
  /\ UNCHANGED <<main, recording, rec, pending>> /\ Elsewhere

SaveKey ==
  /\ main = "run" /\ recording /\ shown > 0
  /\ saves' = saves + 1 /\ Put([kind |-> "save", rec |-> rec, frames |-> shown])
  /\ Idle /\ UNCHANGED <<main, deletes, numSaved>> /\ Elsewhere

\* r, or space before the first frame.
DiscardKey ==
  /\ main = "run" /\ recording
  /\ saves' = saves + 1 /\ Put([kind |-> "discard", rec |-> rec])
  /\ Idle /\ UNCHANGED <<main, deletes, numSaved>> /\ Elsewhere

\* Mutant: only deletions are waited for.
DeleteEarly ==
  /\ main = "run" /\ ~recording /\ deletes = 0 /\ numSaved > 0
  /\ deletes' = deletes + 1
  /\ Put([kind |-> "delete", index |-> numSaved])
  /\ UNCHANGED <<main, operator, saves, numSaved>> /\ Elsewhere
\* The operator means the last episode that is shown as saved.
DeleteLast ==
  /\ main = "run" /\ ~recording /\ saves = 0 /\ deletes = 0 /\ numSaved > 0
  /\ deletes' = deletes + 1
  /\ Put([kind |-> "delete", index |-> numSaved])
  /\ UNCHANGED <<main, operator, saves, numSaved>> /\ Elsewhere

\* q: the main thread waits for everything before it in the queue.
Quit ==
  /\ main = "run" /\ main' = "wait" /\ Idle
  /\ IF recording
     THEN /\ saves' = saves + 1
          /\ orders' = orders \o <<[kind |-> "discard", rec |-> rec], [kind |-> "finalize"]>>
     ELSE saves' = saves /\ Put([kind |-> "finalize"])
  /\ UNCHANGED <<deletes, numSaved>> /\ Elsewhere

----------------------------------------------------------------------------
(* The worker. *)

Unheard == UNCHANGED <<main, operator, starts>>
Take(kind) ==
  /\ Working /\ worker = "get" /\ orders # <<>> /\ Head(orders).kind = kind
  /\ orders' = Tail(orders)
Trouble(kind) == Cardinality(trouble) < MaxTrouble /\ trouble' = trouble \cup {kind}
Fine == UNCHANGED trouble

TakeFrame ==
  /\ Take("frame")
  /\ \/ buffer' = Append(buffer, Head(orders).rec) /\ Fine
     \/ buffer' = buffer /\ Trouble("frame")
  /\ UNCHANGED <<pending, worker, job, fresh, count, folders>> /\ Unheard

SaveEpisode ==
  /\ Take("save") /\ buffer # <<>>
  /\ fresh' = Append(fresh, [rec |-> Head(orders).rec, meant |-> Head(orders).frames, frames |-> buffer])
  /\ count' = count + 1 /\ buffer' = <<>> /\ worker' = "saved"
  /\ UNCHANGED <<pending, job, folders>> /\ Fine /\ Unheard
\* A discard that succeeds: one step, the count of episodes stays.
ClearBuffer ==
  /\ Take("discard")
  /\ buffer' = <<>> /\ saves' = saves - 1
  /\ UNCHANGED <<deletes, numSaved, worker, job, fresh, count, folders>> /\ Fine /\ Unheard
\* An empty buffer cannot be saved; the frames of a failed save may stay.
SaveError ==
  /\ Take("save") /\ saves' = saves - 1
  /\ \/ buffer = <<>> /\ buffer' = <<>> /\ Fine
     \/ buffer # <<>> /\ buffer' \in {buffer, <<>>} /\ Trouble("save")
  /\ UNCHANGED <<deletes, numSaved, worker, job, fresh, count, folders>> /\ Unheard
DiscardError ==
  /\ Take("discard") /\ saves' = saves - 1 /\ Trouble("discard")
  /\ UNCHANGED <<deletes, numSaved, worker, job, dataset, folders>> /\ Unheard
CountSave ==
  /\ Working /\ worker = "saved" /\ worker' = "get"
  /\ numSaved' = count /\ saves' = saves - 1
  /\ UNCHANGED <<deletes, orders, job, dataset, folders>> /\ Fine /\ Unheard

Finalize ==
  /\ Take("finalize")
  /\ root' = [root EXCEPT !.eps = Stored] /\ fresh' = <<>> /\ worker' = "ended"
  /\ UNCHANGED <<pending, job, buffer, count, tmp, bak, mend>> /\ Fine /\ Unheard
\* The event is set only after finalize(): it is never set now.
FinalizeFails ==
  /\ Take("finalize") /\ Trouble("finalize")
  /\ UNCHANGED <<pending, worker, job, dataset, folders>> /\ Unheard

----------------------------------------------------------------------------
(* Deleting the last episode, step by step. *)

Step(from, to) == Working /\ worker = from /\ worker' = to
Rest == UNCHANGED <<pending, orders, job>> /\ Fine /\ Unheard

TakeDelete ==
  /\ Take("delete") /\ job' = Head(orders)
  /\ worker' = IF count > 0 THEN "clear" ELSE "told"
  /\ UNCHANGED <<pending, dataset, folders>> /\ Fine /\ Unheard
DropBuffer ==
  /\ Step("clear", "flush") /\ buffer' = <<>>
  /\ UNCHANGED <<fresh, count, folders>> /\ Rest
\* The writers are closed; the list of episodes must reach the last one.
Flush ==
  /\ Working /\ worker = "flush"
  /\ root' = [root EXCEPT !.eps = Stored] /\ fresh' = <<>>
  /\ worker' = IF count <= Len(Stored) THEN "write" ELSE "told"
  /\ UNCHANGED <<buffer, count, tmp, bak, mend>> /\ Rest
RemoveStale ==
  /\ Step("write", "writing") /\ bak' = Nothing
  /\ tmp' = Partial(Folder(RemoveAt(root.eps, count)))
  /\ UNCHANGED <<dataset, root, mend>> /\ Rest
WriteRest ==
  /\ Step("writing", "aside") /\ tmp' = [tmp EXCEPT !.whole = TRUE]
  /\ UNCHANGED <<dataset, root, bak, mend>> /\ Rest
SetAside ==
  /\ Step("aside", "swap") /\ bak' = root /\ root' = Nothing
  /\ UNCHANGED <<dataset, tmp, mend>> /\ Rest
Swap ==
  /\ Step("swap", "sweep") /\ root' = tmp /\ tmp' = Nothing
  /\ UNCHANGED <<dataset, bak, mend>> /\ Rest
RemoveBackup ==
  /\ Step("sweep", "sweeping") /\ bak' = Partial(bak)
  /\ UNCHANGED <<dataset, root, tmp, mend>> /\ Rest
BackupGone ==
  /\ Step("sweeping", "reload") /\ bak' = Nothing
  /\ UNCHANGED <<dataset, root, tmp, mend>> /\ Rest
Reload ==
  /\ Step("reload", "told") /\ buffer' = <<>> /\ fresh' = <<>> /\ count' = Len(root.eps)
  /\ UNCHANGED folders /\ Rest
CountDelete ==
  /\ Working /\ worker = "told" /\ worker' = "get" /\ job' = Nothing
  /\ numSaved' = count /\ deletes' = deletes - 1
  /\ UNCHANGED <<saves, orders, dataset, folders>> /\ Fine /\ Unheard

\* An exception in any step; only a failed second rename is undone.
DeleteFails ==
  /\ Working /\ worker \in Deleting \ {"told"} /\ Trouble(worker)
  /\ worker' = "get" /\ job' = Nothing /\ deletes' = deletes - 1
  /\ IF worker = "swap" THEN root' = bak /\ bak' = Nothing ELSE UNCHANGED <<root, bak>>
  /\ UNCHANGED <<saves, numSaved, orders, dataset, tmp, mend>> /\ Unheard

----------------------------------------------------------------------------
(* The end of the process: after finalize, by an interrupt or by a kill. *)

Leave ==
  /\ main = "wait" /\ worker = "ended" /\ Down
  /\ UNCHANGED <<folders, starts>>
\* Of the episodes in the writers' memory, some of the first are in files that
\* were closed; info.json counts the others too.
Killed ==
  /\ main # "down" /\ Down
  /\ IF root = Nothing THEN UNCHANGED root
     ELSE \E n \in 0..Len(fresh) :
            root' = [root EXCEPT !.eps = @ \o SubSeq(fresh, 1, n), !.torn = @ + Len(fresh) - n]
  /\ UNCHANGED <<tmp, bak, mend, starts>>

----------------------------------------------------------------------------
Operator == Record \/ AddFrame \/ SaveKey \/ DiscardKey \/ DeleteLast \/ Quit
Delete == \/ TakeDelete \/ DropBuffer \/ Flush \/ RemoveStale \/ WriteRest \/ SetAside
          \/ Swap \/ RemoveBackup \/ BackupGone \/ Reload \/ CountDelete \/ DeleteFails
Work == \/ TakeFrame \/ SaveEpisode \/ ClearBuffer \/ SaveError \/ DiscardError
        \/ CountSave \/ Finalize \/ FinalizeFails \/ Delete
Begin == StartUp \/ RollBack \/ SweepTmp \/ SweepBak \/ Load \/ LoadFails
Mend == RemoveTorn \/ CheckKept \/ WriteInfo \/ WriteStats \/ LoadsAgain \/ MendCut
CollectNext == Begin \/ Mend \/ Operator \/ Work \/ Leave \/ Killed
CollectSpec == CollectInit /\ [][CollectNext]_collectVars


----------------------------------------------------------------------------
Episode == [rec : 1..MaxRecs, meant : 1..MaxFrames, frames : Seq(1..MaxRecs)]
Present == [eps : Seq(Episode), whole : BOOLEAN, torn : 0..MaxRecs]
Folders == {Nothing} \cup Present
ASSUME NothingAssumption == Nothing \notin Present
Orders == [kind : {"frame", "discard"}, rec : 1..MaxRecs]
            \cup [kind : {"save"}, rec : 1..MaxRecs, frames : 1..MaxFrames]
            \cup [kind : {"delete"}, index : Nat] \cup [kind : {"finalize"}]

\* Type invariant: the values every variable takes.
CollectTypeOK ==
  /\ main \in {"down", "recover", "sweep", "clean", "load", "run", "wait"}
  /\ recording \in BOOLEAN /\ rec \in 0..MaxRecs /\ shown \in 0..MaxFrames
  /\ saves \in Nat /\ deletes \in 0..1 /\ numSaved \in Nat
  /\ orders \in Seq(Orders) /\ job \in Orders \cup {Nothing}
  /\ worker \in {"get", "saved", "ended"} \cup Deleting
  /\ buffer \in Seq(1..MaxRecs) /\ fresh \in Seq(Episode) /\ count \in Nat
  /\ {root, tmp, bak} \subseteq Folders
  /\ mend \in {"no", "check", "info", "stats", "loads", "again"}
  /\ starts \in 0..MaxStarts
  /\ trouble \subseteq {"frame", "save", "discard", "finalize"} \cup Deleting

Waiting(kinds) == Cardinality({i \in DOMAIN orders : orders[i].kind \in kinds})

\* The two numbers on the screen are the commands the worker has not finished,
\* whatever fails: t waits for them to be zero and would wait for ever.
PendingsHonest ==
  /\ saves = Waiting({"save", "discard"}) + (IF worker = "saved" THEN 1 ELSE 0)
  /\ deletes = Waiting({"delete"}) + (IF worker \in Deleting THEN 1 ELSE 0)

\* The frames of one recording never end up in the episode of another one, as
\* long as no save and no discard failed: a failed one leaves its frames.
OwnFrames ==
  trouble \cap {"save", "discard"} = {} =>
    \A n \in DOMAIN fresh : ToSet(fresh[n].frames) = {fresh[n].rec}

\* An episode has as many frames as the operator was shown when saving it, also
\* when a deletion, which drops the worker's buffer, was requested in between.
WholeEpisodes ==
  trouble \cap {"frame", "save", "discard"} = {} =>
    \A n \in DOMAIN fresh : Len(fresh[n].frames) = fresh[n].meant

\* The number of saved episodes on the screen is the number that is stored, when
\* nothing is pending; a deletion that fails after its swap leaves it one too high.
ShownIsStored ==
  main = "run" /\ saves = 0 /\ deletes = 0 /\ trouble \cap Deleted = {} =>
    numSaved = Len(Stored) /\ numSaved = count

\* A deletion removes the episode whose number the operator was shown.
DeletesShown ==
  worker \in {"writing"} \cup Swapping =>
    /\ job.index = count /\ count = Len(Durable)
    /\ tmp.eps = Front(Durable)

\* At every moment at which the process may die, a start would find a data set
\* that no deletion has left in part: one of the two complete folders is under a
\* name it looks at.
AlwaysRecoverable ==
  /\ root # Nothing => root.whole /\ (worker # "ended" => root.torn = 0)
  /\ root = Nothing /\ bak # Nothing => bak.whole
  /\ \A n \in DOMAIN Durable, k \in DOMAIN Durable : Durable[n].rec = Durable[k].rec => n = k

\* What the folders and the queue do is what a list of episodes does that only
\* grows at its end and loses its last one once per request.
Store == INSTANCE EpisodeList WITH
  list <- Durable, asked <- IF worker \in Deleted THEN deletes - 1 ELSE deletes
StoreSpec == Store!Spec

\* q ends the program, with everything before it in the queue done, unless
\* finalize() itself fails (then the main thread waits for an event for ever).
QuitEnds == []<>(main # "wait" \/ "finalize" \in trouble)
\* A deletion is answered: t and the screen are free again, or the program ends.
DeletesAnswered == []<>(deletes = 0)

\* The stored episodes are those that were recorded, whole and not mixed, and a
\* start can find them, wherever the process ends.
EpisodesKept == CollectTypeOK /\ OwnFrames /\ WholeEpisodes /\ AlwaysRecoverable

\* What the screen says, by which the operator decides what to delete, is true
\* (data_collect.py:816-850).
ScreenHonest == PendingsHonest /\ ShownIsStored /\ DeletesShown
=============================================================================
