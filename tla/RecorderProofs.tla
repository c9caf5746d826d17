--------------------------- MODULE RecorderProofs ---------------------------
(***************************************************************************)
(* The recorder node.  For every number of episodes, crashes and frames,   *)
(* every queue size and undo depth, saves in the background or inside the  *)
(* command: the files and metadata.json agree, what can be undone is what  *)
(* was saved, and a saved episode has all its frames.  For any streams,    *)
(* timeouts and lengths: rows are fresh and the videos keep step with them. *)
(***************************************************************************)
EXTENDS Recorder, FrameStream, SequenceTheorems, TLAPS

-----------------------------------------------------------------------------
(* The inductive invariant.                                                *)

Discarding == pc \in {"put", "join", "remove"}
Undoing    == pc \in {"undo", "unregister"}

\* Who holds which episode.
HoldInv ==
  /\ leaving => pc \in {"put", "join", "remove", "leaving"}
  /\ pc = "leaving" => leaving
  /\ saver # "none" =>
       /\ target \in Episodes
       /\ leaving => target \in cut
       /\ ~leaving => /\ writer = target
                      /\ \/ pc = "free" /\ state = "saving"
                         \/ pc = "finish" /\ state = "pending"
  /\ ~leaving /\ (pc = "finish" \/ state = "saving") => saver # "none"
  /\ Discarding => writer \in Episodes /\ (saver # "none" => leaving /\ writer = target)
  /\ ~leaving /\ state = "idle" => writer = None /\ saver = "none"
  /\ ~leaving /\ state \in {"recording", "pending"} /\ saver = "none" => writer \in Episodes
  /\ Undoing => victim \in Episodes /\ state = "idle" /\ ~leaving

\* What is on disk of the episodes somebody holds.
DiskInv ==
  /\ writer \in Episodes /\ saver = "none" => dir[writer] = "open"
  /\ saver \in {"put", "join", "write"} /\ target \notin cut => dir[target] = "open"
  /\ saver \in {"register", "cleanup"} /\ target \notin cut => target \notin index
  /\ saver \in {"register", "commit"} /\ ~leaving => dir[target] = "full"
  /\ saver = "commit" /\ ~leaving => target \in index /\ target \notin cut
  /\ pc = "unregister" => dir[victim] = "none"

\* An episode is on the undo list once, and nobody else holds it.
UndoInv ==
  ~leaving =>
    /\ \A i, j \in 1..Len(saved) : saved[i] = saved[j] => i = j
    /\ \A i \in 1..Len(saved) :
         /\ saved[i] \notin cut
         /\ saver # "final" => saved[i] # writer
         /\ Undoing => saved[i] # victim

Counting == ~leaving /\ ~Discarding

\* Frames are written, or in the queue before the end.
RowsInv ==
  Counting =>
    /\ saver \in {"none", "put", "join"} => ~joined /\ (writer \in Episodes => thread # "none")
    /\ saver \in {"none", "put"} => thread # "ended"
    /\ saver \in {"none", "put"} /\ thread = "alive" =>
         rows + Len(queue) = accepted /\ \A i \in 1..Len(queue) : queue[i] = "row"
    /\ saver = "join" /\ thread = "alive" =>
         /\ Len(queue) > 0 /\ queue[Len(queue)] = "end" /\ rows + Len(queue) = accepted + 1
         /\ \A i \in 1..Len(queue) - 1 : queue[i] = "row"
    /\ saver = "join" /\ thread = "ended" => rows = accepted
    /\ saver \in {"write", "register", "commit"} => rows = accepted /\ thread # "alive"

SavedOK == \A i \in 1..Len(saved) : saved[i] \in cut \/ (saved[i] \in index /\ dir[saved[i]] = "full")
StoreInv == TypeOK /\ HoldInv /\ DiskInv /\ UndoInv /\ RowsInv /\ IndexAgrees /\ SavedOK

-----------------------------------------------------------------------------
(* Constants and sequences.                                                *)

LEMMA Constants ==
  /\ MaxEpisodes \in Nat /\ MaxRows \in Nat /\ MaxCrashes \in Nat
  /\ QueueSize \in Nat /\ QueueSize > 0 /\ UndoDepth \in Nat
  /\ Episodes = 1..MaxEpisodes /\ None = 0 /\ None \notin Episodes
  BY ConstantsAssumption DEF Episodes, None

LEMMA Empty == Len(<<>>) = 0 /\ <<>> \in Seq({"row", "end"}) /\ <<>> \in Seq(Episodes)
  BY EmptySeq, Zenon

\* What is left when the last save is undone.
LEMMA FrontOfSaved ==
  ASSUME NEW list \in Seq(Episodes), list # <<>>
  PROVE  /\ Len(list) \in Nat \ {0} /\ Last(list) = list[Len(list)] /\ Last(list) \in Episodes
         /\ Front(list) \in Seq(Episodes) /\ Len(Front(list)) = Len(list) - 1
         /\ \A i \in 1..Len(list) - 1 : Front(list)[i] = list[i]
<1>1. Len(list) \in Nat \ {0}
  BY EmptySeq
<1>2. \A i \in 1..Len(list) : list[i] \in Episodes
  BY ElementOfSeq
<1>3. \A i \in 1..Len(list) - 1 : list[i] \in Episodes
  BY <1>1, <1>2
<1>4. 1 \in Int /\ Len(list) - 1 \in Int
  BY <1>1
<1>5. /\ SubSeq(list, 1, Len(list) - 1) \in Seq(Episodes)
      /\ Len(SubSeq(list, 1, Len(list) - 1)) =
           IF 1 <= Len(list) - 1 THEN (Len(list) - 1) - 1 + 1 ELSE 0
      /\ \A i \in 1..(Len(list) - 1) - 1 + 1 : SubSeq(list, 1, Len(list) - 1)[i] = list[1 + i - 1]
  BY <1>3, <1>4, SubSeqProperties
<1>6. Front(list) = SubSeq(list, 1, Len(list) - 1) /\ Last(list) = list[Len(list)]
  BY DEF Front, Last
<1>7. Len(Front(list)) = Len(list) - 1
  <2> DEFINE n == Len(list)
  <2>1. n \in Nat \ {0} /\ Len(Front(list)) = IF 1 <= n - 1 THEN (n - 1) - 1 + 1 ELSE 0
    BY <1>1, <1>5, <1>6
  <2> HIDE DEF n
  <2>2. Len(Front(list)) = n - 1
    BY <2>1
  <2> QED
    BY <2>2 DEF n
<1>8. \A i \in 1..Len(list) - 1 : Front(list)[i] = list[i]
  BY <1>1, <1>5, <1>6
<1>9. list[Len(list)] \in Episodes
  BY <1>1, <1>2
<1> QED
  BY <1>1, <1>5, <1>6, <1>7, <1>8, <1>9

\* After a save the undo list is the end of the list with the episode appended.
LEMMA SavedList ==
  ASSUME saved \in Seq(Episodes), target \in Episodes
  PROVE  /\ UndoList \in Seq(Episodes) /\ Len(UndoList) <= UndoDepth /\ Len(saved) \in Nat
         /\ \E from \in Nat : /\ Len(UndoList) = Len(saved) + 1 - from
                              /\ \A i \in 1..Len(UndoList) : UndoList[i] = Append(saved, target)[i + from]
<1> DEFINE list == Append(saved, target)
<1>1. list \in Seq(Episodes) /\ Len(list) = Len(saved) + 1 /\ Len(saved) \in Nat
  BY AppendProperties, LenProperties
<1>2. \A i \in 1..Len(list) : list[i] \in Episodes
  BY <1>1, ElementOfSeq
<1>3. UndoList = IF Len(list) <= UndoDepth THEN list
                 ELSE SubSeq(list, Len(list) - UndoDepth + 1, Len(list))
  BY DEF UndoList
<1> HIDE DEF list
<1>4. CASE Len(list) <= UndoDepth
  <2>1. UndoList = list
    BY <1>3, <1>4
  <2>2. \A i \in 1..Len(UndoList) : UndoList[i] = list[i + 0]
    BY <1>1, <2>1
  <2>3. 0 \in Nat /\ Len(UndoList) = Len(saved) + 1 - 0
    BY <1>1, <2>1
  <2> QED
    BY <1>1, <1>4, <2>1, <2>2, <2>3 DEF list
<1>5. CASE ~(Len(list) <= UndoDepth)
  <2> DEFINE from == Len(list) - UndoDepth
  <2>1. from \in Nat /\ from + 1 \in Int /\ Len(list) \in Int /\ from + 1 <= Len(list) + 1
        /\ from + UndoDepth = Len(list)
    BY <1>1, <1>5, Constants
  <2>2. UndoList = SubSeq(list, from + 1, Len(list))
    BY <1>3, <1>5
  <2>3. \A i \in from + 1..Len(list) : list[i] \in Episodes
    BY <1>1, <1>2, <2>1
  <2> HIDE DEF from
  <2>4. /\ SubSeq(list, from + 1, Len(list)) \in Seq(Episodes)
        /\ Len(SubSeq(list, from + 1, Len(list))) =
             IF from + 1 <= Len(list) THEN Len(list) - (from + 1) + 1 ELSE 0
        /\ \A i \in 1..Len(list) - (from + 1) + 1 :
             SubSeq(list, from + 1, Len(list))[i] = list[(from + 1) + i - 1]
    BY <2>1, <2>3, SubSeqProperties
  <2>5. Len(UndoList) = UndoDepth
    BY <1>1, <2>1, <2>2, <2>4, Constants
  <2>6. \A i \in 1..Len(UndoList) : UndoList[i] = list[i + from]
    BY <1>1, <2>1, <2>2, <2>4, <2>5, Constants
  <2>7. Len(UndoList) = Len(saved) + 1 - from
    BY <1>1, <2>1, <2>5, Constants
  <2>8. UndoList \in Seq(Episodes) /\ Len(UndoList) <= UndoDepth
    BY <2>2, <2>4, <2>5, Constants
  <2>9. \E f \in Nat : /\ Len(UndoList) = Len(saved) + 1 - f
                       /\ \A i \in 1..Len(UndoList) : UndoList[i] = list[i + f]
    BY <2>1, <2>6, <2>7
  <2> QED
    BY <1>1, <2>8, <2>9 DEF list
<1> QED
  BY <1>4, <1>5

-----------------------------------------------------------------------------
(* Types.                                                                  *)

LEMMA SameNode == NodeOK /\ UNCHANGED nodeVars => NodeOK'
  BY DEF NodeOK, nodeVars
LEMMA SameWriter == WriterOK /\ UNCHANGED writerVars => WriterOK'
  BY DEF WriterOK, writerVars
LEMMA SameSave == SaveOK /\ UNCHANGED saveVars => SaveOK'
  BY DEF SaveOK, saveVars
LEMMA SameDisk == DiskOK /\ UNCHANGED <<diskVars, cut, crashes>> => DiskOK'
  BY DEF DiskOK, diskVars

\* No writer, or one that has just started.
LEMMA FreshWriter ==
  ASSUME queue' = <<>>, thread' \in {"none", "alive"}, accepted' = 0, rows' = 0, joined' = FALSE
  PROVE  WriterOK'
<1>1. 0 \in 0..MaxRows /\ 0 \in Nat /\ 0 <= QueueSize
  BY Constants
<1> QED
  BY <1>1, Empty DEF WriterOK

\* A frame or the end is put in a queue that has room.
LEMMA PutInQueue ==
  ASSUME WriterOK, Room, NEW x \in {"row", "end"}
  PROVE  Append(queue, x) \in Seq({"row", "end"}) /\ Len(Append(queue, x)) <= QueueSize
<1>1. queue \in Seq({"row", "end"}) /\ Len(queue) < QueueSize
  BY DEF WriterOK, Room
<1>2. Len(queue) \in Nat /\ Append(queue, x) \in Seq({"row", "end"})
      /\ Len(Append(queue, x)) = Len(queue) + 1
  BY <1>1, AppendProperties, LenProperties
<1> QED
  BY <1>1, <1>2, Constants

LEMMA TypeInit == Init => TypeOK
<1> SUFFICES ASSUME Init PROVE TypeOK
  OBVIOUS
<1>1. 0 \in 0..MaxRows /\ 0 \in Nat /\ 0 <= QueueSize /\ 0 <= UndoDepth /\ 0 \in 0..MaxCrashes
      /\ 1 \in 1..MaxEpisodes + 1
  BY Constants
<1>2. NodeOK
  BY <1>1, Empty DEF Init, NodeOK
<1>3. WriterOK
  BY <1>1, Empty DEF Init, WriterOK
<1>4. SaveOK /\ DiskOK
  BY <1>1 DEF Init, SaveOK, DiskOK
<1> QED
  BY <1>2, <1>3, <1>4 DEF TypeOK

LEMMA TypeWrites == TypeOK /\ Writes => TypeOK'
<1> SUFFICES ASSUME TypeOK, Writes PROVE TypeOK'
  OBVIOUS
<1>1. queue \in Seq({"row", "end"}) /\ queue # <<>> /\ Len(queue) <= QueueSize
  BY DEF Writes, WriteRow, WriteFails, WriteEnds, TypeOK, WriterOK
<1>2. Len(queue) \in Nat /\ Tail(queue) \in Seq({"row", "end"}) /\ Len(Tail(queue)) = Len(queue) - 1
  BY <1>1, HeadTailProperties, LenProperties
<1>3. Len(Tail(queue)) <= QueueSize
  BY <1>1, <1>2, Constants
<1>4. WriterOK'
  BY SMTT(30), <1>2, <1>3 DEF Writes, WriteRow, WriteFails, WriteEnds, TypeOK, WriterOK
<1>5. UNCHANGED <<nodeVars, saveVars, diskVars, cut, crashes>>
  BY DEF Writes, WriteRow, WriteFails, WriteEnds
<1> QED
  BY <1>4, <1>5, SameNode, SameSave, SameDisk DEF TypeOK

\* The writer's episode is forgotten.
LEMMA TypeDropped ==
  ASSUME TypeOK, Dropped, dir' \in [Episodes -> {"none", "open", "full"}]
  PROVE  TypeOK'
<1>1. WriterOK'
  BY FreshWriter, SameWriter DEF Dropped, NoWriter, TypeOK
<1>2. NodeOK'
  BY DEF Dropped, TypeOK, NodeOK
<1>3. SaveOK' /\ DiskOK'
  BY SameSave DEF Dropped, TypeOK, DiskOK
<1> QED
  BY <1>1, <1>2, <1>3 DEF TypeOK

LEMMA TypeDiscards == TypeOK /\ Discards => TypeOK'
<1> SUFFICES ASSUME TypeOK, Discards PROVE TypeOK'
  OBVIOUS
<1>1. CASE DiscardPut
  <2>1. NodeOK'
    BY <1>1 DEF DiscardPut, TypeOK, NodeOK
  <2>2. WriterOK'
    BY <1>1, PutInQueue DEF DiscardPut, TypeOK, WriterOK
  <2> QED
    BY <1>1, <2>1, <2>2, SameSave, SameDisk DEF DiscardPut, TypeOK
<1>2. CASE DiscardJoin
  <2>1. NodeOK'
    BY <1>2 DEF DiscardJoin, TypeOK, NodeOK
  <2>2. WriterOK'
    BY <1>2 DEF DiscardJoin, TypeOK, WriterOK
  <2> QED
    BY <1>2, <2>1, <2>2, SameSave, SameDisk DEF DiscardJoin, TypeOK
<1>3. CASE DiscardFails
  BY <1>3, TypeDropped DEF DiscardFails, TypeOK, DiskOK
<1>4. CASE DiscardRemove
  BY <1>4, TypeDropped DEF DiscardRemove, TypeOK, DiskOK
<1> QED
  BY <1>1, <1>2, <1>3, <1>4 DEF Discards

LEMMA TypeTicks == TypeOK /\ (TickStale \/ TickPut \/ TickAborts) => TypeOK'
<1> SUFFICES ASSUME TypeOK, TickStale \/ TickPut \/ TickAborts PROVE TypeOK'
  OBVIOUS
<1>1. CASE TickPut
  <2>1. accepted + 1 \in 0..MaxRows
    BY <1>1, Constants DEF TickPut, TypeOK, WriterOK
  <2>2. WriterOK'
    BY <1>1, <2>1, PutInQueue DEF TickPut, TypeOK, WriterOK
  <2> QED
    BY <1>1, <2>2, SameNode, SameSave, SameDisk DEF TickPut, TypeOK
<1>2. CASE TickStale \/ TickAborts
  <2>1. NodeOK'
    BY <1>2 DEF TickStale, TickAborts, Discard, TypeOK, NodeOK
  <2> QED
    BY <1>2, <2>1, SameWriter, SameSave, SameDisk DEF TickStale, TickAborts, TypeOK
<1> QED
  BY <1>1, <1>2

LEMMA TypeCommands == TypeOK /\ Commands => TypeOK'
<1> SUFFICES ASSUME TypeOK, Commands PROVE TypeOK'
  OBVIOUS
<1>1. ASSUME NEW e \in Episodes, Start(e) PROVE TypeOK'
  <2>1. e + 1 \in 1..MaxEpisodes + 1
    BY Constants
  <2>2. WriterOK'
    BY <1>1, FreshWriter DEF Start
  <2>3. NodeOK'
    BY <1>1, <2>1 DEF Start, TypeOK, NodeOK
  <2>4. DiskOK'
    BY <1>1 DEF Start, TypeOK, DiskOK
  <2> QED
    BY <1>1, <2>2, <2>3, <2>4, SameSave DEF Start, TypeOK
<1>2. ASSUME NEW e \in Episodes, StartFails(e) PROVE TypeOK'
  <2>1. e + 1 \in 1..MaxEpisodes + 1
    BY Constants
  <2>2. NodeOK'
    BY <1>2, <2>1 DEF StartFails, TypeOK, NodeOK
  <2> QED
    BY <1>2, <2>2, SameWriter, SameSave, SameDisk DEF StartFails, TypeOK
<1>3. CASE Stop \/ SaveEmpty \/ DeleteBuffered
  <2>1. NodeOK'
    BY <1>3 DEF Stop, SaveEmpty, DeleteBuffered, Discard, TypeOK, NodeOK
  <2> QED
    BY <1>3, <2>1, SameWriter, SameSave, SameDisk DEF Stop, SaveEmpty, DeleteBuffered, TypeOK
<1>4. CASE Save
  <2>1. NodeOK'
    BY <1>4 DEF Save, TypeOK, NodeOK
  <2>2. SaveOK'
    BY <1>4 DEF Save, TypeOK, NodeOK, SaveOK
  <2> QED
    BY <1>4, <2>1, <2>2, SameWriter, SameDisk DEF Save, TypeOK
<1>5. CASE DeleteSaved
  <2>1. saved \in Seq(Episodes) /\ saved # <<>> /\ Len(saved) <= UndoDepth
    BY <1>5 DEF DeleteSaved, TypeOK, NodeOK
  <2>2. Front(saved) \in Seq(Episodes) /\ Len(Front(saved)) <= UndoDepth /\ Last(saved) \in Episodes
    BY <2>1, FrontOfSaved, Constants
  <2>3. NodeOK'
    BY <1>5, <2>2 DEF DeleteSaved, TypeOK, NodeOK
  <2> QED
    BY <1>5, <2>3, SameWriter, SameSave, SameDisk DEF DeleteSaved, TypeOK
<1> QED
  BY <1>1, <1>2, <1>3, <1>4, <1>5 DEF Commands

LEMMA TypeSaves == TypeOK /\ HoldInv /\ Saves => TypeOK'
<1> SUFFICES ASSUME TypeOK, HoldInv, Saves PROVE TypeOK'
  OBVIOUS
<1>0. target \in Episodes
  BY DEF HoldInv, Saves, SavePut, SaveJoin, SaveWrite, SaveRegister, SaveFails, SaveCommit,
         SaveCleanup, SaveFinal
<1>1. CASE SavePut
  <2>1. WriterOK'
    BY <1>1, PutInQueue DEF SavePut, TypeOK, WriterOK
  <2>2. SaveOK'
    BY <1>1 DEF SavePut, Drained, TypeOK, SaveOK
  <2> QED
    BY <1>1, <2>1, <2>2, SameNode, SameDisk DEF SavePut, TypeOK
<1>2. CASE SaveJoin
  <2>1. WriterOK'
    BY <1>2 DEF SaveJoin, TypeOK, WriterOK
  <2>2. SaveOK'
    BY <1>2 DEF SaveJoin, Drained, TypeOK, SaveOK
  <2> QED
    BY <1>2, <2>1, <2>2, SameNode, SameDisk DEF SaveJoin, TypeOK
<1>3. CASE SaveWrite \/ SaveRegister \/ SaveFails \/ SaveCleanup
  <2>1. SaveOK'
    BY <1>3 DEF SaveWrite, SaveRegister, SaveFails, SaveCleanup, TypeOK, SaveOK
  <2>2. DiskOK'
    BY <1>0, <1>3 DEF SaveWrite, SaveRegister, SaveFails, SaveCleanup, TypeOK, DiskOK, diskVars
  <2> QED
    BY <1>3, <2>1, <2>2, SameNode, SameWriter
    DEF SaveWrite, SaveRegister, SaveFails, SaveCleanup, TypeOK
<1>4. CASE SaveCommit
  <2>1. saved' \in Seq(Episodes) /\ Len(saved') <= UndoDepth
    BY <1>0, <1>4, SavedList DEF SaveCommit, TypeOK, NodeOK
  <2>2. NodeOK'
    BY <1>0, <1>4, <2>1 DEF SaveCommit, TypeOK, NodeOK
  <2>3. SaveOK'
    BY <1>4 DEF SaveCommit, TypeOK, SaveOK
  <2> QED
    BY <1>4, <2>2, <2>3, SameWriter, SameDisk DEF SaveCommit, TypeOK
<1>5. CASE SaveFinal
  <2>1. WriterOK'
    BY <1>5, FreshWriter DEF SaveFinal, NoWriter
  <2>2. NodeOK'
    BY <1>5 DEF SaveFinal, TypeOK, NodeOK
  <2>3. SaveOK'
    BY <1>5 DEF SaveFinal, SaveOK
  <2> QED
    BY <1>5, <2>1, <2>2, <2>3, SameDisk DEF SaveFinal, TypeOK
<1> QED
  BY <1>1, <1>2, <1>3, <1>4, <1>5 DEF Saves

LEMMA TypeEnds == TypeOK /\ HoldInv /\ (Undoes \/ Shutdown \/ Exit \/ Crash \/ Restart) => TypeOK'
<1> SUFFICES ASSUME TypeOK, HoldInv, Undoes \/ Shutdown \/ Exit \/ Crash \/ Restart PROVE TypeOK'
  OBVIOUS
<1>1. CASE UndoRemove
  <2>1. NodeOK'
    BY <1>1 DEF UndoRemove, TypeOK, NodeOK
  <2>2. DiskOK'
    BY <1>1 DEF UndoRemove, TypeOK, DiskOK
  <2> QED
    BY <1>1, <2>1, <2>2, SameWriter, SameSave DEF UndoRemove, TypeOK
<1>2. CASE UndoUnregister
  <2>1. NodeOK'
    BY <1>2 DEF UndoUnregister, TypeOK, NodeOK
  <2>2. DiskOK'
    BY <1>2 DEF UndoUnregister, TypeOK, DiskOK
  <2> QED
    BY <1>2, <2>1, <2>2, SameWriter, SameSave DEF UndoUnregister, TypeOK
<1>3. CASE Shutdown
  <2>1. NodeOK'
    BY <1>3 DEF Shutdown, Discard, TypeOK, NodeOK
  <2>2. DiskOK'
    BY <1>3 DEF Shutdown, HoldInv, TypeOK, DiskOK, diskVars
  <2> QED
    BY <1>3, <2>1, <2>2, SameWriter, SameSave DEF Shutdown, TypeOK
<1>4. CASE Exit \/ Crash
  <2>0. Ends
    BY <1>4 DEF Exit, Crash
  <2>1. WriterOK'
    BY <2>0, FreshWriter DEF Ends, NoWriter
  <2>2. 0 <= UndoDepth
    BY Constants
  <2>3. NodeOK'
    BY <2>0, <2>2, Empty DEF Ends, TypeOK, NodeOK
  <2>4. dir' \in [Episodes -> {"none", "open", "full"}]
    BY <2>0 DEF Ends, TypeOK, DiskOK
  <2>5. cut' \subseteq Episodes
    BY <1>4 DEF Exit, Crash, TypeOK, DiskOK, SaveOK, NodeOK
  <2>6. crashes' \in 0..MaxCrashes
    BY <1>4, Constants DEF Exit, Crash, TypeOK, DiskOK
  <2>7. DiskOK'
    BY <2>0, <2>4, <2>5, <2>6 DEF Ends, TypeOK, DiskOK
  <2>8. SaveOK'
    BY <2>0 DEF Ends, SaveOK
  <2> QED
    BY <2>1, <2>3, <2>7, <2>8 DEF TypeOK
<1>5. CASE Restart
  <2>1. next' \in 1..MaxEpisodes + 1
    BY <1>5, Constants DEF Restart
  <2>2. NodeOK'
    BY <1>5, <2>1 DEF Restart, TypeOK, NodeOK
  <2> QED
    BY <1>5, <2>2, SameWriter, SameSave, SameDisk DEF Restart, TypeOK
<1> QED
  BY <1>1, <1>2, <1>3, <1>4, <1>5 DEF Undoes

-----------------------------------------------------------------------------
(* Who holds which episode.                                                *)

LEMMA HoldInit == Init => HoldInv
  BY DEF Init, HoldInv, Discarding, Undoing

LEMMA HoldWrites == HoldInv /\ Writes => HoldInv'
  BY DEF Writes, WriteRow, WriteFails, WriteEnds, nodeVars, saveVars, HoldInv, Discarding, Undoing

LEMMA HoldTicks == HoldInv /\ (TickStale \/ TickPut \/ TickAborts) => HoldInv'
<1> SUFFICES ASSUME HoldInv, TickStale \/ TickPut \/ TickAborts PROVE HoldInv'
  OBVIOUS
<1>1. CASE TickPut
  BY <1>1 DEF TickPut, nodeVars, saveVars, HoldInv, Discarding, Undoing
<1>2. CASE TickStale \/ TickAborts
  BY <1>2 DEF TickStale, TickAborts, Ticks, Discard, saveVars, HoldInv, Discarding, Undoing
<1> QED
  BY <1>1, <1>2

LEMMA HoldDiscards == HoldInv /\ Discards => HoldInv'
<1> SUFFICES ASSUME HoldInv, Discards PROVE HoldInv'
  OBVIOUS
<1>1. CASE DiscardPut
  BY <1>1 DEF DiscardPut, saveVars, HoldInv, Discarding, Undoing
<1>2. CASE DiscardJoin
  BY <1>2 DEF DiscardJoin, saveVars, HoldInv, Discarding, Undoing
<1>3. CASE DiscardFails \/ DiscardRemove
  BY <1>3 DEF DiscardFails, DiscardRemove, Dropped, saveVars, HoldInv, Discarding, Undoing
<1> QED
  BY <1>1, <1>2, <1>3 DEF Discards

LEMMA HoldCommands == TypeOK /\ HoldInv /\ Commands => HoldInv'
<1> SUFFICES ASSUME TypeOK, HoldInv, Commands PROVE HoldInv'
  OBVIOUS
<1>1. ASSUME NEW e \in Episodes, Start(e) \/ StartFails(e) PROVE HoldInv'
  BY <1>1 DEF Start, StartFails, saveVars, HoldInv, Discarding, Undoing
<1>2. CASE Stop \/ SaveEmpty \/ DeleteBuffered
  BY <1>2 DEF Stop, SaveEmpty, DeleteBuffered, Buffered, Discard, saveVars, HoldInv, Discarding, Undoing
<1>3. CASE Save
  BY <1>3 DEF Save, Buffered, HoldInv, Discarding, Undoing
<1>4. CASE DeleteSaved
  <2>1. Last(saved) \in Episodes
    BY <1>4, FrontOfSaved DEF DeleteSaved, TypeOK, NodeOK
  <2> QED
    BY <1>4, <2>1 DEF DeleteSaved, saveVars, HoldInv, Discarding, Undoing
<1> QED
  BY <1>1, <1>2, <1>3, <1>4 DEF Commands

LEMMA HoldSaves == HoldInv /\ Saves => HoldInv'
<1> SUFFICES ASSUME HoldInv, Saves PROVE HoldInv'
  OBVIOUS
<1>1. CASE SavePut \/ SaveJoin \/ SaveWrite \/ SaveFails \/ SaveCleanup
  BY <1>1 DEF SavePut, SaveJoin, SaveWrite, SaveFails, SaveCleanup, Drained, nodeVars, HoldInv,
              Discarding, Undoing
<1>2. CASE SaveRegister
  BY <1>2 DEF SaveRegister, nodeVars, HoldInv, Discarding, Undoing
<1>3. CASE SaveCommit
  BY <1>3 DEF SaveCommit, HoldInv, Discarding, Undoing
<1>4. CASE SaveFinal
  BY <1>4 DEF SaveFinal, LockFree, HoldInv, Discarding, Undoing
<1> QED
  BY <1>1, <1>2, <1>3, <1>4 DEF Saves

LEMMA HoldEnds ==
  TypeOK /\ HoldInv /\ (Undoes \/ Shutdown \/ Exit \/ Crash \/ Restart) => HoldInv'
<1> SUFFICES ASSUME TypeOK, HoldInv, Undoes \/ Shutdown \/ Exit \/ Crash \/ Restart PROVE HoldInv'
  OBVIOUS
<1>1. CASE Undoes
  BY <1>1 DEF Undoes, UndoRemove, UndoUnregister, saveVars, HoldInv, Discarding, Undoing
<1>2. CASE Shutdown
  BY <1>2, Constants DEF Shutdown, Discard, saveVars, TypeOK, NodeOK, HoldInv, Discarding, Undoing
<1>3. CASE Exit \/ Crash
  BY <1>3 DEF Exit, Crash, Ends, HoldInv, Discarding, Undoing
<1>4. CASE Restart
  BY <1>4 DEF Restart, saveVars, HoldInv, Discarding, Undoing
<1> QED
  BY <1>1, <1>2, <1>3, <1>4

-----------------------------------------------------------------------------
(* The files and the index.                                                *)

LEMMA DiskInit == Init => DiskInv /\ IndexAgrees
  BY Constants DEF Init, DiskInv, IndexAgrees, InFlight

\* Steps that touch neither the disk nor who holds what.
LEMMA DiskSame ==
  ASSUME DiskInv, IndexAgrees, UNCHANGED <<pc, leaving, writer, victim, saveVars, diskVars, cut>>
  PROVE  DiskInv' /\ IndexAgrees'
  BY DEF DiskInv, IndexAgrees, InFlight, saveVars, diskVars

LEMMA DiskTicks ==
  DiskInv /\ IndexAgrees /\ (TickStale \/ TickPut \/ TickAborts) => DiskInv' /\ IndexAgrees'
<1> SUFFICES ASSUME DiskInv, IndexAgrees, TickStale \/ TickPut \/ TickAborts
             PROVE  DiskInv' /\ IndexAgrees'
  OBVIOUS
<1>1. CASE TickPut
  BY <1>1, DiskSame DEF TickPut, nodeVars
<1>2. CASE TickStale \/ TickAborts
  BY <1>2 DEF TickStale, TickAborts, Ticks, Discard, DiskInv, IndexAgrees, InFlight, saveVars, diskVars
<1> QED
  BY <1>1, <1>2

LEMMA DiskDiscards ==
  TypeOK /\ HoldInv /\ DiskInv /\ IndexAgrees /\ Discards => DiskInv' /\ IndexAgrees'
<1> SUFFICES ASSUME TypeOK, HoldInv, DiskInv, IndexAgrees, Discards PROVE DiskInv' /\ IndexAgrees'
  OBVIOUS
<1>1. CASE DiscardPut \/ DiscardJoin
  BY <1>1 DEF DiscardPut, DiscardJoin, DiskInv, IndexAgrees, InFlight, saveVars, diskVars
<1>2. CASE DiscardFails
  BY <1>2, Constants DEF DiscardFails, Dropped, DiskInv, IndexAgrees, InFlight, saveVars
<1>3. CASE DiscardRemove
  <2>1. writer \in Episodes /\ pc' # "unregister" /\ writer' \notin Episodes
        /\ (saver # "none" => leaving /\ leaving' /\ target \in cut /\ writer = target)
    BY <1>3, Constants DEF DiscardRemove, Dropped, HoldInv, Discarding
  <2>2. \A e \in Episodes : dir'[e] = IF e = writer THEN "none" ELSE dir[e]
    BY <1>3 DEF DiscardRemove, TypeOK, DiskOK
  <2>3. saver = "none" => writer \in cut \/ writer \notin index
    BY <1>3, <2>1 DEF DiscardRemove, DiskInv, IndexAgrees, InFlight
  <2>4. UNCHANGED <<saver, target, index, cut>>
    BY <1>3 DEF DiscardRemove, Dropped, saveVars
  <2>5. DiskInv'
    BY <2>1, <2>4 DEF DiskInv
  <2>6. IndexAgrees'
    BY <1>3, <2>1, <2>2, <2>3, <2>4 DEF DiscardRemove, IndexAgrees, InFlight
  <2> QED
    BY <2>5, <2>6
<1> QED
  BY <1>1, <1>2, <1>3 DEF Discards

LEMMA DiskCommands ==
  TypeOK /\ HoldInv /\ DiskInv /\ IndexAgrees /\ Commands => DiskInv' /\ IndexAgrees'
<1> SUFFICES ASSUME TypeOK, HoldInv, DiskInv, IndexAgrees, Commands PROVE DiskInv' /\ IndexAgrees'
  OBVIOUS
<1>1. ASSUME NEW e \in Episodes, Start(e) PROVE DiskInv' /\ IndexAgrees'
  <2>1. saver = "none" /\ saver' = "none" /\ pc = "free" /\ pc' = "free" /\ dir[e] = "none" /\ writer' = e
    BY <1>1 DEF Start, Allocated, HoldInv, saveVars
  <2>2. \A f \in Episodes : dir'[f] = IF f = e THEN "open" ELSE dir[f]
    BY <1>1 DEF Start, TypeOK, DiskOK
  <2>3. DiskInv'
    BY <2>1, <2>2 DEF DiskInv
  <2>4. IndexAgrees'
    BY <1>1, <2>1, <2>2 DEF Start, IndexAgrees, InFlight, saveVars
  <2> QED
    BY <2>3, <2>4
<1>2. ASSUME NEW e \in Episodes, StartFails(e) PROVE DiskInv' /\ IndexAgrees'
  BY <1>2, DiskSame DEF StartFails
<1>3. CASE Stop \/ SaveEmpty \/ DeleteBuffered
  BY <1>3 DEF Stop, SaveEmpty, DeleteBuffered, Buffered, Discard, DiskInv, IndexAgrees, InFlight,
              saveVars, diskVars
<1>4. CASE Save
  <2>1. saver = "none" /\ saver' = "put" /\ writer \in Episodes /\ target' = writer
        /\ pc # "unregister" /\ pc' # "unregister"
    BY <1>4 DEF Save, Buffered, HoldInv
  <2> QED
    BY <1>4, <2>1 DEF Save, DiskInv, IndexAgrees, InFlight, diskVars
<1>5. CASE DeleteSaved
  BY <1>5 DEF DeleteSaved, DiskInv, IndexAgrees, InFlight, saveVars, diskVars
<1> QED
  BY <1>1, <1>2, <1>3, <1>4, <1>5 DEF Commands

LEMMA DiskSaves ==
  TypeOK /\ HoldInv /\ DiskInv /\ IndexAgrees /\ Saves => DiskInv' /\ IndexAgrees'
<1> SUFFICES ASSUME TypeOK, HoldInv, DiskInv, IndexAgrees, Saves PROVE DiskInv' /\ IndexAgrees'
  OBVIOUS
<1>0. target \in Episodes /\ saver # "none" /\ (leaving => target \in cut)
  BY DEF HoldInv, Saves, SavePut, SaveJoin, SaveWrite, SaveRegister, SaveFails, SaveCommit,
         SaveCleanup, SaveFinal
<1>1. CASE SavePut \/ SaveJoin
  <2>1. saver \in {"put", "join"} /\ saver' \in {"join", "write", "cleanup"}
    BY <1>1 DEF SavePut, SaveJoin, Drained
  <2>2. UNCHANGED <<pc, leaving, writer, victim, target, dir, index, cut>>
    BY <1>1 DEF SavePut, SaveJoin, nodeVars, diskVars
  <2> QED
    BY <1>0, <2>1, <2>2 DEF DiskInv, IndexAgrees, InFlight
<1>2. CASE SaveWrite
  <2>1. \A e \in Episodes : dir'[e] = IF e = target THEN "full" ELSE dir[e]
    BY <1>2 DEF SaveWrite, TypeOK, DiskOK
  <2>2. UNCHANGED <<pc, leaving, writer, victim, target, index, cut>> /\ saver = "write" /\ saver' = "register"
    BY <1>2 DEF SaveWrite, nodeVars
  <2>3. pc = "unregister" => victim # target
    BY <1>2 DEF SaveWrite, HoldInv, DiskInv, Undoing
  <2>4. DiskInv'
    BY <1>0, <1>2, <2>1, <2>2, <2>3 DEF SaveWrite, DiskInv, HoldInv, Undoing, IndexAgrees, InFlight
  <2>5. IndexAgrees'
    BY <2>1, <2>2 DEF IndexAgrees, InFlight
  <2> QED
    BY <2>4, <2>5
<1>3. CASE SaveRegister
  <2>1. UNCHANGED <<pc, leaving, writer, victim, target, dir>> /\ saver = "register" /\ saver' = "commit"
        /\ index' = index \cup {target} /\ cut' = IF leaving THEN cut ELSE cut \ {target}
    BY <1>3 DEF SaveRegister, nodeVars
  <2> QED
    BY <1>0, <2>1 DEF DiskInv, IndexAgrees, InFlight
<1>4. CASE SaveFails
  <2>1. UNCHANGED <<pc, leaving, writer, victim, target, dir, index, cut>> /\ saver' = "cleanup"
        /\ saver \in {"join", "write", "register"}
    BY <1>4 DEF SaveFails, nodeVars, diskVars
  <2> QED
    BY <1>0, <2>1 DEF DiskInv, IndexAgrees, InFlight
<1>5. CASE SaveCommit
  <2>1. UNCHANGED <<pc, leaving, writer, victim, target, dir, index, cut>> /\ saver' = "final"
        /\ saver = "commit"
    BY <1>5 DEF SaveCommit, diskVars
  <2> QED
    BY <2>1 DEF DiskInv, IndexAgrees, InFlight
<1>6. CASE SaveCleanup
  <2>1. \A e \in Episodes : dir'[e] = IF e = target THEN "none" ELSE dir[e]
    BY <1>6 DEF SaveCleanup, TypeOK, DiskOK
  <2>2. UNCHANGED <<pc, leaving, writer, victim, target, index, cut>> /\ saver = "cleanup" /\ saver' = "final"
    BY <1>6 DEF SaveCleanup, nodeVars
  <2>3. DiskInv'
    BY <2>1, <2>2 DEF DiskInv, HoldInv, Undoing
  <2>4. IndexAgrees'
    BY <2>1, <2>2 DEF DiskInv, IndexAgrees, InFlight
  <2> QED
    BY <2>3, <2>4
<1>7. CASE SaveFinal
  <2>1. UNCHANGED <<victim, dir, index, cut>> /\ saver = "final" /\ saver' = "none" /\ writer' \notin Episodes
        /\ pc # "unregister" /\ pc' # "unregister"
    BY <1>7, Constants DEF SaveFinal, LockFree, diskVars
  <2> QED
    BY <2>1 DEF DiskInv, IndexAgrees, InFlight
<1> QED
  BY <1>1, <1>2, <1>3, <1>4, <1>5, <1>6, <1>7 DEF Saves

LEMMA DiskEnds ==
  TypeOK /\ HoldInv /\ DiskInv /\ IndexAgrees /\ (Undoes \/ Shutdown \/ Exit \/ Crash \/ Restart)
    => DiskInv' /\ IndexAgrees'
<1> SUFFICES ASSUME TypeOK, HoldInv, DiskInv, IndexAgrees,
                    Undoes \/ Shutdown \/ Exit \/ Crash \/ Restart
             PROVE  DiskInv' /\ IndexAgrees'
  OBVIOUS
<1>1. CASE UndoRemove
  <2>1. victim \in Episodes /\ saver = "none" /\ writer \notin Episodes /\ ~leaving
    BY <1>1, Constants DEF UndoRemove, HoldInv, Undoing
  <2>2. \A e \in Episodes : dir'[e] = IF e = victim THEN "none" ELSE dir[e]
    BY <1>1 DEF UndoRemove, TypeOK, DiskOK
  <2> QED
    BY <1>1, <2>1, <2>2 DEF UndoRemove, DiskInv, IndexAgrees, InFlight, saveVars
<1>2. CASE UndoUnregister
  <2>1. saver = "none" /\ writer \notin Episodes
    BY <1>2, Constants DEF UndoUnregister, HoldInv, Undoing
  <2> QED
    BY <1>2, <2>1 DEF UndoUnregister, DiskInv, IndexAgrees, InFlight, saveVars
<1>3. CASE Shutdown
  <2>1. UNCHANGED <<writer, victim, saver, target, dir, index>> /\ leaving' /\ pc = "free"
        /\ pc' # "unregister" /\ cut' = IF saver # "none" THEN cut \cup {target} ELSE cut
    BY <1>3 DEF Shutdown, Discard, saveVars, diskVars
  <2> QED
    BY <2>1 DEF DiskInv, IndexAgrees, InFlight
<1>4. CASE Exit \/ Crash
  <2>1. Ends /\ saver' = "none" /\ writer' \notin Episodes /\ pc' = "down" /\ index' = index
    BY <1>4, Constants DEF Exit, Crash, Ends
  <2>2. DiskInv'
    BY <2>1 DEF DiskInv
  <2>3. cut \subseteq cut' /\ \A e \in Episodes : InFlight(e) => e \in cut'
    BY <1>4, Constants DEF Exit, Crash, InFlight, HoldInv, Discarding, Undoing
  <2>4. PICK part \in SUBSET {e \in Removing : dir[e] = "full"} :
          dir' = [e \in Episodes |-> IF e \in part THEN "open" ELSE dir[e]]
    BY <2>1 DEF Ends
  <2>5. \A e \in Removing : dir[e] = "full" => e \in cut'
    BY <1>4, <2>3, Constants DEF Removing, Exit, Crash, HoldInv, DiskInv, Discarding, Undoing
  <2> QED
    BY <2>1, <2>2, <2>3, <2>4, <2>5 DEF IndexAgrees, InFlight
<1>5. CASE Restart
  BY <1>5 DEF Restart, DiskInv, IndexAgrees, InFlight, saveVars, diskVars
<1> QED
  BY <1>1, <1>2, <1>3, <1>4, <1>5 DEF Undoes

-----------------------------------------------------------------------------
(* The undo list.                                                          *)

LEMMA UndoInit == Init => UndoInv /\ SavedOK
  BY Empty DEF Init, UndoInv, SavedOK

LEMMA UndoSame ==
  ASSUME UndoInv, SavedOK, UNCHANGED <<saved, index, dir, cut>>, leaving' = leaving,
         ~leaving => /\ Undoing' => Undoing /\ victim' = victim
                     /\ \/ writer' = writer /\ (saver = "final" => saver' = "final")
                        \/ writer' = None
  PROVE  TypeOK => UndoInv' /\ SavedOK'
<1> SUFFICES ASSUME TypeOK PROVE UndoInv' /\ SavedOK'
  OBVIOUS
<1>1. \A i \in 1..Len(saved) : saved[i] # None
  BY ElementOfSeq, Constants DEF TypeOK, NodeOK
<1> QED
  BY <1>1 DEF UndoInv, SavedOK

LEMMA UndoWrites == TypeOK /\ UndoInv /\ SavedOK /\ Writes => UndoInv' /\ SavedOK'
  BY UndoSame DEF Writes, WriteRow, WriteFails, WriteEnds, nodeVars, saveVars, diskVars, Undoing

LEMMA UndoTicks ==
  TypeOK /\ UndoInv /\ SavedOK /\ (TickStale \/ TickPut \/ TickAborts) => UndoInv' /\ SavedOK'
<1> SUFFICES ASSUME TypeOK, UndoInv, SavedOK, TickStale \/ TickPut \/ TickAborts
             PROVE  UndoInv' /\ SavedOK'
  OBVIOUS
<1>1. CASE TickPut
  BY <1>1, UndoSame DEF TickPut, nodeVars, saveVars, diskVars, Undoing
<1>2. CASE TickStale \/ TickAborts
  BY <1>2, UndoSame DEF TickStale, TickAborts, Discard, saveVars, diskVars, Undoing
<1> QED
  BY <1>1, <1>2

LEMMA UndoDiscards ==
  TypeOK /\ HoldInv /\ DiskInv /\ UndoInv /\ SavedOK /\ Discards => UndoInv' /\ SavedOK'
<1> SUFFICES ASSUME TypeOK, HoldInv, DiskInv, UndoInv, SavedOK, Discards PROVE UndoInv' /\ SavedOK'
  OBVIOUS
<1>1. CASE DiscardPut \/ DiscardJoin
  BY <1>1, UndoSame DEF DiscardPut, DiscardJoin, saveVars, diskVars, Undoing
<1>2. CASE DiscardFails
  BY <1>2, UndoSame DEF DiscardFails, Dropped, saveVars, Undoing
<1>3. CASE DiscardRemove
  <2>1. UNCHANGED <<saved, index, cut, leaving, saver>> /\ writer' = None /\ ~Undoing' /\ pc = "remove"
    BY <1>3 DEF DiscardRemove, Dropped, saveVars, Undoing
  <2>2. \A i \in 1..Len(saved) : saved[i] \in Episodes /\ saved[i] # None
    BY ElementOfSeq, Constants DEF TypeOK, NodeOK
  <2>3. \A i \in 1..Len(saved) : dir'[saved[i]] = IF saved[i] = writer THEN "none" ELSE dir[saved[i]]
    BY <1>3, <2>2 DEF DiscardRemove, TypeOK, DiskOK
  <2>4. writer \in cut \/ dir[writer] = "open"
    BY <2>1 DEF HoldInv, DiskInv, Discarding
  <2>5. SavedOK'
    BY <2>1, <2>3, <2>4 DEF SavedOK
  <2>6. UndoInv'
    BY <2>1, <2>2 DEF UndoInv
  <2> QED
    BY <2>5, <2>6
<1> QED
  BY <1>1, <1>2, <1>3 DEF Discards

LEMMA UndoCommands ==
  TypeOK /\ HoldInv /\ DiskInv /\ UndoInv /\ SavedOK /\ Commands => UndoInv' /\ SavedOK'
<1> SUFFICES ASSUME TypeOK, HoldInv, DiskInv, UndoInv, SavedOK, Commands PROVE UndoInv' /\ SavedOK'
  OBVIOUS
<1>0. \A i \in 1..Len(saved) : saved[i] \in Episodes /\ saved[i] # None
  BY ElementOfSeq, Constants DEF TypeOK, NodeOK
<1>1. ASSUME NEW e \in Episodes, Start(e) PROVE UndoInv' /\ SavedOK'
  <2>1. dir[e] = "none" /\ pc = "free" /\ pc' = "free" /\ ~leaving /\ ~Undoing' /\ writer' = e
        /\ UNCHANGED <<saved, index, cut, leaving>>
    BY <1>1 DEF Start, Allocated, HoldInv, Undoing
  <2>2. \A i \in 1..Len(saved) : dir'[saved[i]] = IF saved[i] = e THEN "open" ELSE dir[saved[i]]
    BY <1>0, <1>1 DEF Start, TypeOK, DiskOK
  <2>3. \A i \in 1..Len(saved) : saved[i] # e
    BY <2>1 DEF UndoInv, SavedOK
  <2>4. SavedOK'
    BY <2>1, <2>2, <2>3 DEF SavedOK
  <2>5. UndoInv'
    BY <2>1, <2>3 DEF UndoInv
  <2> QED
    BY <2>4, <2>5
<1>2. ASSUME NEW e \in Episodes, StartFails(e) PROVE UndoInv' /\ SavedOK'
  BY <1>2, UndoSame DEF StartFails, saveVars, diskVars, Undoing
<1>3. CASE Stop \/ SaveEmpty \/ DeleteBuffered
  BY <1>3, UndoSame DEF Stop, SaveEmpty, DeleteBuffered, Discard, saveVars, diskVars, Undoing
<1>4. CASE Save
  <2>1. saver # "final"
    BY <1>4 DEF Save, Buffered, HoldInv
  <2> QED
    BY <1>4, <2>1, UndoSame DEF Save, diskVars, Undoing
<1>5. CASE DeleteSaved
  <2>1. saved \in Seq(Episodes) /\ saved # <<>> /\ ~leaving
        /\ victim' = Last(saved) /\ saved' = Front(saved) /\ writer = None
        /\ UNCHANGED <<leaving, writer, saver, index, dir, cut>>
    BY <1>5 DEF DeleteSaved, TypeOK, NodeOK, HoldInv, saveVars, diskVars
  <2>2. /\ Len(saved) \in Nat \ {0} /\ victim' = saved[Len(saved)] /\ Len(saved') = Len(saved) - 1
        /\ \A i \in 1..Len(saved) - 1 : saved'[i] = saved[i]
    BY <2>1, FrontOfSaved
  <2>3. \A i \in 1..Len(saved') : /\ i \in 1..Len(saved) - 1 /\ i \in 1..Len(saved) /\ i # Len(saved)
                                  /\ Len(saved) \in 1..Len(saved) /\ saved'[i] = saved[i]
    BY <2>2
  <2>4. SavedOK'
    BY <2>1, <2>3 DEF SavedOK
  <2>5. UndoInv'
    BY <1>0, <2>1, <2>2, <2>3 DEF UndoInv
  <2> QED
    BY <2>4, <2>5
<1> QED
  BY <1>1, <1>2, <1>3, <1>4, <1>5 DEF Commands

LEMMA UndoSaves ==
  TypeOK /\ HoldInv /\ DiskInv /\ UndoInv /\ SavedOK /\ Saves => UndoInv' /\ SavedOK'
<1> SUFFICES ASSUME TypeOK, HoldInv, DiskInv, UndoInv, SavedOK, Saves PROVE UndoInv' /\ SavedOK'
  OBVIOUS
<1>0. target \in Episodes /\ (leaving => target \in cut) /\ (~leaving => writer = target /\ ~Undoing)
  BY DEF HoldInv, Undoing, Saves, SavePut, SaveJoin, SaveWrite, SaveRegister, SaveFails, SaveCommit,
         SaveCleanup, SaveFinal
<1>1. \A i \in 1..Len(saved) : saved[i] \in Episodes /\ saved[i] # None
  BY ElementOfSeq, Constants DEF TypeOK, NodeOK
<1>2. CASE SavePut \/ SaveJoin \/ SaveFails
  BY <1>2, UndoSame DEF SavePut, SaveJoin, SaveFails, nodeVars, diskVars, Undoing
<1>3. CASE SaveWrite
  <2>1. UNCHANGED <<saved, index, cut, leaving, pc, writer, victim>> /\ saver = "write" /\ saver' = "register"
    BY <1>3 DEF SaveWrite, nodeVars
  <2>2. \A i \in 1..Len(saved) : dir'[saved[i]] = IF saved[i] = target THEN "full" ELSE dir[saved[i]]
    BY <1>1, <1>3 DEF SaveWrite, TypeOK, DiskOK
  <2>3. SavedOK'
    BY <2>1, <2>2 DEF SavedOK
  <2>4. UndoInv'
    BY <2>1 DEF UndoInv, Undoing
  <2> QED
    BY <2>3, <2>4
<1>4. CASE SaveRegister
  <2>1. UNCHANGED <<saved, dir, leaving, pc, writer, victim>> /\ saver = "register" /\ saver' = "commit"
        /\ index' = index \cup {target} /\ cut' = IF leaving THEN cut ELSE cut \ {target}
    BY <1>4 DEF SaveRegister, nodeVars
  <2>2. ~leaving => dir[target] = "full"
    BY <2>1 DEF DiskInv
  <2>3. SavedOK'
    BY <2>1, <2>2 DEF SavedOK
  <2>4. UndoInv'
    BY <2>1 DEF UndoInv, Undoing
  <2> QED
    BY <2>3, <2>4
<1>5. CASE SaveCommit
  <2>1. saved' = UndoList /\ UNCHANGED <<leaving, pc, writer, victim, target, index, dir, cut>>
        /\ saver = "commit" /\ saver' = "final"
    BY <1>5 DEF SaveCommit, diskVars
  <2>2. saved \in Seq(Episodes) /\ Len(saved) \in Nat /\ Len(saved') \in Nat
    BY <1>0, <2>1, SavedList, LenProperties DEF TypeOK, NodeOK
  <2>3. PICK from \in Nat : /\ Len(saved') = Len(saved) + 1 - from
                            /\ \A i \in 1..Len(saved') : saved'[i] = Append(saved, target)[i + from]
    BY <1>0, <2>1, <2>2, SavedList
  <2>4. \A i \in 1..Len(saved) : Append(saved, target)[i] = saved[i]
    BY <1>0, <2>2, AppendProperties
  <2>5. Append(saved, target)[Len(saved) + 1] = target
    BY <1>0, <2>2, AppendProperties
  <2>6. \A i \in 1..Len(saved') : \/ i + from \in 1..Len(saved) /\ saved'[i] = saved[i + from]
                                  \/ i + from = Len(saved) + 1 /\ saved'[i] = target
    <3>1. SUFFICES ASSUME NEW i \in 1..Len(saved')
                   PROVE  \/ i + from \in 1..Len(saved) /\ saved'[i] = saved[i + from]
                          \/ i + from = Len(saved) + 1 /\ saved'[i] = target
      OBVIOUS
    <3>2. i + from \in 1..Len(saved) \/ i + from = Len(saved) + 1
      BY <2>2, <2>3
    <3> QED
      BY <2>3, <2>4, <2>5, <3>2
  <2>7. SavedOK'
    BY <1>0, <2>1, <2>6 DEF SavedOK, DiskInv
  <2>8. ASSUME ~leaving', NEW i \in 1..Len(saved'), NEW j \in 1..Len(saved'), saved'[i] = saved'[j]
        PROVE  i = j
    <3>1. \A k \in 1..Len(saved) : saved[k] # target
      BY <1>0, <2>1, <2>8 DEF UndoInv
    <3>2. \A k, l \in 1..Len(saved) : saved[k] = saved[l] => k = l
      BY <2>1, <2>8 DEF UndoInv
    <3>3. i + from = j + from
      BY <2>6, <2>8, <3>1, <3>2
    <3> QED
      BY <2>2, <2>3, <3>3
  <2>9. ASSUME ~leaving', NEW i \in 1..Len(saved') PROVE saved'[i] \notin cut' /\ ~Undoing'
    BY <1>0, <2>1, <2>6, <2>9 DEF UndoInv, DiskInv, Undoing
  <2>10. UndoInv'
    BY <2>1, <2>8, <2>9 DEF UndoInv
  <2> QED
    BY <2>7, <2>10
<1>6. CASE SaveCleanup
  <2>1. UNCHANGED <<saved, index, cut, leaving, pc, writer, victim>> /\ saver = "cleanup" /\ saver' = "final"
    BY <1>6 DEF SaveCleanup, nodeVars
  <2>2. \A i \in 1..Len(saved) : dir'[saved[i]] = IF saved[i] = target THEN "none" ELSE dir[saved[i]]
    BY <1>1, <1>6 DEF SaveCleanup, TypeOK, DiskOK
  <2>3. SavedOK'
    BY <2>1, <2>2 DEF SavedOK, DiskInv
  <2>4. UndoInv'
    BY <2>1 DEF UndoInv, Undoing
  <2> QED
    BY <2>3, <2>4
<1>7. CASE SaveFinal
  BY <1>7, UndoSame DEF SaveFinal, diskVars, Undoing
<1> QED
  BY <1>2, <1>3, <1>4, <1>5, <1>6, <1>7 DEF Saves

LEMMA UndoEnds ==
  TypeOK /\ HoldInv /\ UndoInv /\ SavedOK /\ (Undoes \/ Shutdown \/ Exit \/ Crash \/ Restart)
    => UndoInv' /\ SavedOK'
<1> SUFFICES ASSUME TypeOK, HoldInv, UndoInv, SavedOK, Undoes \/ Shutdown \/ Exit \/ Crash \/ Restart
             PROVE  UndoInv' /\ SavedOK'
  OBVIOUS
<1>0. \A i \in 1..Len(saved) : saved[i] \in Episodes /\ saved[i] # None
  BY ElementOfSeq, Constants DEF TypeOK, NodeOK
<1>1. CASE UndoRemove
  <2>1. ~leaving /\ UNCHANGED <<saved, index, cut, leaving, saver, writer, victim>> /\ Undoing /\ Undoing'
    BY <1>1 DEF UndoRemove, HoldInv, Undoing, saveVars
  <2>2. \A i \in 1..Len(saved) : saved[i] # victim /\ dir'[saved[i]] = dir[saved[i]]
    BY <1>0, <1>1, <2>1 DEF UndoRemove, UndoInv, TypeOK, DiskOK
  <2>3. SavedOK'
    BY <2>1, <2>2 DEF SavedOK
  <2>4. UndoInv'
    BY <2>1 DEF UndoInv
  <2> QED
    BY <2>3, <2>4
<1>2. CASE UndoUnregister
  <2>1. ~leaving /\ UNCHANGED <<saved, dir, cut, leaving, saver, writer>> /\ Undoing /\ ~Undoing'
        /\ index' = index \ {victim}
    BY <1>2 DEF UndoUnregister, HoldInv, Undoing, saveVars
  <2>2. \A i \in 1..Len(saved) : saved[i] # victim
    BY <2>1 DEF UndoInv
  <2>3. SavedOK'
    BY <2>1, <2>2 DEF SavedOK
  <2>4. UndoInv'
    BY <2>1 DEF UndoInv
  <2> QED
    BY <2>3, <2>4
<1>3. CASE Shutdown
  <2>1. leaving' /\ UNCHANGED <<saved, index, dir>> /\ cut \subseteq cut'
    BY <1>3 DEF Shutdown, diskVars
  <2> QED
    BY <2>1 DEF UndoInv, SavedOK
<1>4. CASE Exit \/ Crash
  <2>1. saved' = <<>> /\ Len(saved') = 0
    BY <1>4, Empty DEF Exit, Crash, Ends
  <2> QED
    BY <2>1 DEF UndoInv, SavedOK
<1>5. CASE Restart
  BY <1>5, UndoSame DEF Restart, saveVars, diskVars, Undoing
<1> QED
  BY <1>1, <1>2, <1>3, <1>4, <1>5 DEF Undoes

-----------------------------------------------------------------------------
(* The frames.                                                             *)

LEMMA RowsInit == Init => RowsInv
  BY Constants, Empty DEF Init, RowsInv, Counting, Discarding

\* Steps that leave the writer alone.
LEMMA RowsSame ==
  ASSUME RowsInv, UNCHANGED writerVars, Counting' => Counting /\ saver' = saver /\ writer' = writer
  PROVE  RowsInv'
  BY DEF RowsInv, writerVars

\* The episode is over, or its writer has just started.
LEMMA NewRowsCounted ==
  ASSUME saver' = "none", queue' = <<>>, accepted' = 0, rows' = 0, joined' = FALSE,
         thread' = "alive" \/ (thread' = "none" /\ writer' \notin Episodes)
  PROVE  RowsInv'
  BY Empty DEF RowsInv

LEMMA RowsWrites == TypeOK /\ RowsInv /\ Writes => RowsInv'
<1> SUFFICES ASSUME TypeOK, RowsInv, Writes, Counting PROVE RowsInv'
  BY DEF RowsInv, Counting, Discarding, Writes, WriteRow, WriteFails, WriteEnds, nodeVars
<1>1. queue \in Seq({"row", "end"}) /\ queue # <<>> /\ thread = "alive" /\ queue' = Tail(queue)
      /\ UNCHANGED <<saver, joined, accepted, writer>>
  BY DEF Writes, WriteRow, WriteFails, WriteEnds, TypeOK, WriterOK, nodeVars, saveVars
<1>2. Len(queue) \in Nat \ {0}
  BY <1>1, EmptySeq
<1>3. Len(queue') = Len(queue) - 1 /\ \A i \in 1..Len(queue') : queue'[i] = queue[i + 1]
  BY <1>1, HeadTailProperties
<1>4. Head(queue) = queue[1]
  OBVIOUS
<1>5. rows \in Nat /\ accepted \in Nat
  BY DEF TypeOK, WriterOK
<1>6. CASE WriteRow
  <2>1. thread' = "alive" /\ rows' = rows + 1 /\ queue[1] = "row"
    BY <1>1, <1>4, <1>6 DEF WriteRow
  <2>2. rows' + Len(queue') = rows + Len(queue)
    BY <1>2, <1>3, <1>5, <2>1
  <2>3. \A i \in 1..Len(queue') : i + 1 \in 1..Len(queue)
    BY <1>2, <1>3
  <2>4. saver = "join" => /\ Len(queue') > 0 /\ Len(queue') \in 1..Len(queue')
                          /\ Len(queue') + 1 = Len(queue)
                          /\ \A i \in 1..Len(queue') - 1 : i \in 1..Len(queue') /\ i + 1 \in 1..Len(queue) - 1
    <3>1. SUFFICES ASSUME saver = "join" PROVE Len(queue) # 1
      BY <1>2, <1>3
    <3>2. queue[Len(queue)] = "end"
      BY <1>1, <3>1 DEF RowsInv
    <3> QED
      BY <2>1, <3>2
  <2> QED
    <3>1. saver \in {"none", "put"} => thread' # "ended" /\ rows' + Len(queue') = accepted'
                                       /\ \A i \in 1..Len(queue') : queue'[i] = "row"
      BY <1>1, <1>3, <2>1, <2>2, <2>3 DEF RowsInv
    <3>2. saver = "join" => /\ Len(queue') > 0 /\ queue'[Len(queue')] = "end"
                            /\ rows' + Len(queue') = accepted' + 1
                            /\ \A i \in 1..Len(queue') - 1 : queue'[i] = "row"
      BY <1>1, <1>3, <2>2, <2>4 DEF RowsInv
    <3>3. (saver \in {"none", "put", "join"} => ~joined) /\ thread' # "none"
          /\ saver \notin {"write", "register", "commit"}
      BY <1>1, <2>1 DEF RowsInv
    <3> QED
      BY <1>1, <2>1, <3>1, <3>2, <3>3 DEF RowsInv
<1>7. CASE WriteFails
  BY <1>1, <1>7 DEF WriteFails, RowsInv
<1>8. CASE WriteEnds
  <2>1. thread' = "ended" /\ rows' = rows /\ queue[1] = "end"
    BY <1>1, <1>4, <1>8 DEF WriteEnds
  <2>2. saver \in {"none", "put"} => FALSE
    <3>1. 1 \in 1..Len(queue)
      BY <1>2
    <3> QED
      BY <1>1, <2>1, <3>1 DEF RowsInv
  <2>3. saver = "join" => rows = accepted
    <3>1. SUFFICES ASSUME saver = "join" PROVE rows = accepted
      OBVIOUS
    <3>2. rows + Len(queue) = accepted + 1 /\ \A i \in 1..Len(queue) - 1 : queue[i] = "row"
      BY <1>1, <3>1 DEF RowsInv
    <3>3. ASSUME Len(queue) # 1 PROVE FALSE
      <4>1. \A n \in Nat \ {0} : n # 1 => 1 \in 1..n - 1
        OBVIOUS
      <4>2. queue[1] = "row"
        BY <1>2, <3>2, <3>3, <4>1
      <4> QED
        BY <2>1, <4>2
    <3>4. Len(queue) = 1
      BY <3>3
    <3> QED
      BY <1>5, <3>2, <3>4
  <2> QED
    BY <1>1, <2>1, <2>2, <2>3 DEF RowsInv
<1> QED
  BY <1>6, <1>7, <1>8 DEF Writes

LEMMA RowsTicks == TypeOK /\ HoldInv /\ RowsInv /\ (TickStale \/ TickPut \/ TickAborts) => RowsInv'
<1> SUFFICES ASSUME TypeOK, HoldInv, RowsInv, TickStale \/ TickPut \/ TickAborts PROVE RowsInv'
  OBVIOUS
<1>1. CASE TickPut
  <2>1. Counting /\ saver = "none" /\ saver' = "none" /\ writer' = writer
    BY <1>1 DEF TickPut, Ticks, HoldInv, Counting, Discarding, nodeVars, saveVars
  <2>2. queue \in Seq({"row", "end"}) /\ queue' = Append(queue, "row") /\ accepted' = accepted + 1
        /\ UNCHANGED <<thread, rows, joined>> /\ rows \in Nat /\ accepted \in Nat
    BY <1>1 DEF TickPut, TypeOK, WriterOK
  <2>3. Len(queue) \in Nat /\ Len(queue') = Len(queue) + 1 /\ queue'[Len(queue) + 1] = "row"
        /\ \A i \in 1..Len(queue) : queue'[i] = queue[i]
    BY <2>2, AppendProperties, LenProperties
  <2>4. \A i \in 1..Len(queue') : i \in 1..Len(queue) \/ i = Len(queue) + 1
    BY <2>3
  <2>5. rows + Len(queue) = accepted => rows' + Len(queue') = accepted'
    BY <2>2, <2>3
  <2> QED
    BY <2>1, <2>2, <2>3, <2>4, <2>5 DEF RowsInv
<1>2. CASE TickStale \/ TickAborts
  <2>1. ~Counting'
    BY <1>2 DEF TickStale, TickAborts, Discard, Counting, Discarding
  <2> QED
    BY <2>1 DEF RowsInv
<1> QED
  BY <1>1, <1>2

LEMMA RowsDiscards == HoldInv /\ RowsInv /\ Discards => RowsInv'
<1> SUFFICES ASSUME HoldInv, RowsInv, Discards, Counting' PROVE RowsInv'
  BY DEF RowsInv
<1>1. ~leaving
  BY DEF Counting, Discards, DiscardPut, DiscardJoin, DiscardFails, DiscardRemove, Dropped
<1>2. Dropped /\ saver = "none"
  BY <1>1 DEF HoldInv, Counting, Discarding, Discards, DiscardPut, DiscardJoin, DiscardFails, DiscardRemove
<1> QED
  BY <1>2, NewRowsCounted, Constants DEF Dropped, NoWriter, saveVars

LEMMA RowsCommands == HoldInv /\ RowsInv /\ Commands => RowsInv'
<1> SUFFICES ASSUME HoldInv, RowsInv, Commands PROVE RowsInv'
  OBVIOUS
<1>1. ASSUME NEW e \in Episodes, Start(e) PROVE RowsInv'
  <2>1. saver' = "none"
    BY <1>1 DEF Start, HoldInv, saveVars
  <2>2. queue' = <<>> /\ accepted' = 0 /\ rows' = 0 /\ joined' = FALSE /\ thread' = "alive"
    BY <1>1 DEF Start
  <2>3. thread' = "alive" \/ (thread' = "none" /\ writer' \notin Episodes)
    BY <2>2
  <2> QED
    BY <2>1, <2>2, <2>3, NewRowsCounted
<1>2. ASSUME NEW e \in Episodes, StartFails(e) PROVE RowsInv'
  BY <1>2, RowsSame DEF StartFails, saveVars, Counting, Discarding
<1>3. CASE Stop \/ SaveEmpty \/ DeleteBuffered
  BY <1>3, RowsSame DEF Stop, SaveEmpty, DeleteBuffered, Discard, saveVars, Counting, Discarding
<1>4. CASE Save
  <2>1. saver = "none" /\ saver' = "put" /\ Counting
    BY <1>4 DEF Save, Buffered, HoldInv, Counting, Discarding
  <2> QED
    BY <1>4, <2>1 DEF Save, RowsInv, writerVars
<1>5. CASE DeleteSaved
  BY <1>5, RowsSame DEF DeleteSaved, saveVars, Counting, Discarding
<1> QED
  BY <1>1, <1>2, <1>3, <1>4, <1>5 DEF Commands

LEMMA RowsSaves == TypeOK /\ HoldInv /\ RowsInv /\ Saves => RowsInv'
<1> SUFFICES ASSUME TypeOK, HoldInv, RowsInv, Saves, Counting' PROVE RowsInv'
  BY DEF RowsInv
<1>0. ~leaving
  BY DEF Counting, Saves, SavePut, SaveJoin, SaveWrite, SaveRegister, SaveFails, SaveCommit,
         SaveCleanup, SaveFinal, nodeVars
<1>1. writer \in Episodes /\ Counting
  BY <1>0 DEF HoldInv, Counting, Discarding, Saves, SavePut, SaveJoin, SaveWrite, SaveRegister, SaveFails,
              SaveCommit, SaveCleanup, SaveFinal
<1>2. CASE SavePut
  <2>1. queue \in Seq({"row", "end"}) /\ queue' = Append(queue, "end")
        /\ UNCHANGED <<thread, accepted, rows, joined, writer>> /\ rows \in Nat /\ accepted \in Nat
    BY <1>2 DEF SavePut, TypeOK, WriterOK, nodeVars
  <2>2. saver = "put" /\ saver' = "join" /\ ~joined /\ thread # "ended" /\ thread # "none"
    BY <1>1, <1>2 DEF SavePut, RowsInv
  <2>3. Len(queue) \in Nat /\ Len(queue') = Len(queue) + 1 /\ queue'[Len(queue) + 1] = "end"
        /\ \A i \in 1..Len(queue) : queue'[i] = queue[i]
    BY <2>1, AppendProperties, LenProperties
  <2>4. Len(queue') > 0 /\ queue'[Len(queue')] = "end" /\ \A i \in 1..Len(queue') - 1 : i \in 1..Len(queue)
    BY <2>3
  <2>5. rows + Len(queue) = accepted => rows' + Len(queue') = accepted' + 1
    BY <2>1, <2>3
  <2> QED
    BY <1>1, <2>1, <2>2, <2>3, <2>4, <2>5 DEF RowsInv
<1>3. CASE SaveJoin
  <2>1. saver = "join" /\ UNCHANGED <<thread, accepted, rows>> /\ thread # "alive" /\ thread # "none"
        /\ saver' = IF thread = "dead" THEN "cleanup" ELSE "write"
    BY <1>1, <1>3 DEF SaveJoin, Over, Drained, RowsInv
  <2>2. thread # "dead" => rows = accepted
    BY <1>1, <2>1 DEF RowsInv, TypeOK, WriterOK
  <2> QED
    BY <2>1, <2>2 DEF RowsInv
<1>4. CASE SaveWrite \/ SaveRegister
  <2>1. saver \in {"write", "register"} /\ saver' \in {"register", "commit"}
        /\ UNCHANGED <<accepted, rows, thread>>
    BY <1>4 DEF SaveWrite, SaveRegister, writerVars
  <2> QED
    BY <1>1, <2>1 DEF RowsInv
<1>5. CASE SaveFails \/ SaveCommit \/ SaveCleanup
  BY <1>5 DEF SaveFails, SaveCommit, SaveCleanup, RowsInv
<1>6. CASE SaveFinal
  BY <1>6, NewRowsCounted, Constants DEF SaveFinal, NoWriter
<1> QED
  BY <1>2, <1>3, <1>4, <1>5, <1>6 DEF Saves

LEMMA RowsEnds ==
  HoldInv /\ RowsInv /\ (Undoes \/ Shutdown \/ Exit \/ Crash \/ Restart) => RowsInv'
<1> SUFFICES ASSUME HoldInv, RowsInv, Undoes \/ Shutdown \/ Exit \/ Crash \/ Restart PROVE RowsInv'
  OBVIOUS
<1>1. CASE Undoes
  BY <1>1, RowsSame DEF Undoes, UndoRemove, UndoUnregister, saveVars, Counting, Discarding
<1>2. CASE Shutdown
  BY <1>2 DEF Shutdown, RowsInv, Counting
<1>3. CASE Exit \/ Crash
  BY <1>3, NewRowsCounted, Constants DEF Exit, Crash, Ends, NoWriter
<1>4. CASE Restart
  BY <1>4, RowsSame DEF Restart, saveVars, Counting, Discarding
<1> QED
  BY <1>1, <1>2, <1>3, <1>4

-----------------------------------------------------------------------------
(* Theorems.                                                               *)

LEMMA StoreInit == Init => StoreInv
  BY TypeInit, HoldInit, DiskInit, UndoInit, RowsInit DEF StoreInv

LEMMA StoreStep == StoreInv /\ [Next]_vars => StoreInv'
<1> SUFFICES ASSUME StoreInv, [Next]_vars PROVE StoreInv'
  OBVIOUS
<1>0. TypeOK /\ HoldInv /\ DiskInv /\ UndoInv /\ RowsInv /\ IndexAgrees /\ SavedOK
  BY DEF StoreInv
<1>1. CASE Writes
  <2>1. DiskInv' /\ IndexAgrees'
    BY <1>0, <1>1, DiskSame DEF Writes, WriteRow, WriteFails, WriteEnds, nodeVars
  <2> QED
    BY <1>0, <1>1, <2>1, TypeWrites, HoldWrites, UndoWrites, RowsWrites DEF StoreInv
<1>2. CASE TickStale \/ TickPut \/ TickAborts
  BY <1>0, <1>2, TypeTicks, HoldTicks, DiskTicks, UndoTicks, RowsTicks DEF StoreInv
<1>3. CASE Commands
  BY <1>0, <1>3, TypeCommands, HoldCommands, DiskCommands, UndoCommands, RowsCommands DEF StoreInv
<1>4. CASE Discards
  BY <1>0, <1>4, TypeDiscards, HoldDiscards, DiskDiscards, UndoDiscards, RowsDiscards DEF StoreInv
<1>5. CASE Saves
  BY <1>0, <1>5, TypeSaves, HoldSaves, DiskSaves, UndoSaves, RowsSaves DEF StoreInv
<1>6. CASE Undoes \/ Shutdown \/ Exit \/ Crash \/ Restart
  BY <1>0, <1>6, TypeEnds, HoldEnds, DiskEnds, UndoEnds, RowsEnds DEF StoreInv
<1>7. CASE UNCHANGED vars
  <2>1. TypeOK'
    BY <1>0, <1>7, SameNode, SameWriter, SameSave, SameDisk DEF TypeOK, vars, nodeVars, writerVars, saveVars, diskVars
  <2>2. HoldInv' /\ DiskInv' /\ IndexAgrees'
    BY <1>0, <1>7, DiskSame DEF HoldInv, Discarding, Undoing, vars, nodeVars, saveVars, diskVars
  <2>3. UndoInv' /\ SavedOK'
    BY <1>0, <1>7, UndoSame DEF Undoing, vars, nodeVars, saveVars, diskVars
  <2>4. RowsInv'
    BY <1>0, <1>7, RowsSame DEF Counting, Discarding, vars, nodeVars, writerVars, saveVars
  <2> QED
    BY <2>1, <2>2, <2>3, <2>4 DEF StoreInv
<1> QED
  BY <1>1, <1>2, <1>3, <1>4, <1>5, <1>6, <1>7 DEF Next

\* The inductive invariant holds throughout.
THEOREM StoreInvariant == Spec => []StoreInv
  BY StoreInit, StoreStep, PTL DEF Spec

\* Every variable keeps its type, however commands, threads, failures, crashes
\* and restarts interleave; the undo list stays within its depth.
THEOREM TypeCorrect == Spec => []TypeOK
<1>1. StoreInv => TypeOK
  BY DEF StoreInv
<1> QED
  BY <1>1, StoreInvariant, PTL

\* metadata.json and the episode directories agree on every episode but those
\* that the end of the process cut short.
THEOREM IndexCorrect == Spec => []IndexAgrees
<1>1. StoreInv => IndexAgrees
  BY DEF StoreInv
<1> QED
  BY <1>1, StoreInvariant, PTL

\* What DELETE would undo is a listed and complete episode, and no number on
\* the undo list is given out again.
THEOREM UndoCorrect == Spec => []UndoIsSaved
<1>1. StoreInv => UndoIsSaved
  <2>1. TypeOK /\ SavedOK => UndoIsSaved
    BY LenProperties DEF TypeOK, NodeOK, SavedOK, UndoIsSaved, ToSet
  <2> QED
    BY <2>1 DEF StoreInv
<1> QED
  BY <1>1, StoreInvariant, PTL

\* The index, the files and the undo list agree, for any number of episodes, any
\* undo depth and queue, and any crashes.
THEOREM FilesCorrect == Spec => []FilesAgree
<1>1. TypeOK /\ IndexAgrees /\ UndoIsSaved => FilesAgree
  BY DEF FilesAgree
<1> QED
  BY <1>1, TypeCorrect, IndexCorrect, UndoCorrect, PTL

\* A saved episode has every frame that was put in its queue.
THEOREM RowsCorrect == Spec => []EveryRowSaved
<1>1. StoreInv => EveryRowSaved
  <2>1. SUFFICES ASSUME StoreInv, saver \in {"write", "register", "commit"}, target \notin cut
                 PROVE  rows = accepted
    BY DEF EveryRowSaved
  <2>2. Counting
    BY <2>1 DEF StoreInv, HoldInv, Counting, Discarding
  <2> QED
    BY <2>1, <2>2 DEF StoreInv, RowsInv
<1> QED
  BY <1>1, StoreInvariant, PTL

-----------------------------------------------------------------------------

-----------------------------------------------------------------------------
(* The streams and the frames (FrameStream).                               *)

USE FrameAssumption DEF FrameAssumption

-----------------------------------------------------------------------------
(* What an episode starts from satisfies everything said of one. *)
LEMMA NoRowsFresh == ASSUME NoRows PROVE RowsFresh'
  BY DEF NoRows, RowsFresh

LEMMA NoRowsInStep == ASSUME NoRows PROVE FramesInStep'
  BY DEF NoRows, FramesInStep

LEMMA NoRowsTyped ==
  ASSUME NoRows
  PROVE  /\ (waiting \in Seq(SUBSET Cameras))' /\ (written \in 0..MaxFrameRows)'
         /\ (written + Len(waiting) <= MaxFrameRows)'
         /\ (video \in [Cameras -> Seq(0..MaxFrameRows)])'
         /\ (opening \in [Cameras -> 0..MaxFrameRows])'
         /\ (closing \in [Cameras -> 0..MaxFrameRows])'
         /\ (oldest \in 0..Never)' /\ (masks \subseteq Streams)'
<1>1. <<>> \in Seq(SUBSET Cameras) /\ Len(<<>>) = 0 /\ <<>> \in Seq(0..MaxFrameRows)
  OBVIOUS
<1>2. 0 \in 0..MaxFrameRows /\ 0 \in 0..Never
  BY DEF Never
<1> QED  BY <1>1, <1>2 DEF NoRows, Never

(* The next frame of a camera shows this row or an earlier one. *)
LEMMA ShownBound ==
  ASSUME written \in Nat, NEW c \in Cameras, NEW pictures,
         video[c] \in Seq(0..MaxFrameRows), FramesInStep
  PROVE  Shown(c, pictures) \in 0..(written + 1)
<1>1. CASE c \in pictures  BY <1>1 DEF Shown
<1>2. CASE c \notin pictures /\ video[c] = <<>>  BY <1>2 DEF Shown
<1>3. CASE c \notin pictures /\ video[c] # <<>>
  <2>1. Len(video[c]) = written /\ Len(video[c]) \in 1..written
    BY <1>3, EmptySeq DEF FramesInStep
  <2>2. video[c][written] <= written /\ video[c][written] \in 0..MaxFrameRows
    BY <2>1, ElementOfSeq DEF FramesInStep
  <2> QED  BY <1>3, <2>1, <2>2 DEF Shown
<1> QED  BY <1>1, <1>2, <1>3

(* A row fresh when it is sampled: a silent stream would have ended the      *)
(* episode instead.                                                          *)
LEMMA SampleFresh ==
  ASSUME StreamTypeOK, Sample, RowsFresh PROVE RowsFresh'
<1>1. \A s \in Streams : age[s] \in 0..Never /\ ~(age[s] > Staleness)
  BY DEF StreamTypeOK, Sample, GoneQuiet, Silent
<1>2. \A s \in Streams : age[s] <= Staleness
  <2>1. \A n \in 0..Never : ~(n > Staleness) => n <= Staleness
    BY DEF Never
  <2> QED  BY <1>1, <2>1
<1>3. oldest' <= Staleness
  <2>1. PICK a \in {oldest} \cup {age[s] : s \in Streams} : oldest' = a
    BY DEF Sample
  <2> QED  BY <2>1, <1>2 DEF RowsFresh
<1>4. masks' = {}
  BY <1>1 DEF Sample, RowsFresh, Silent
<1> QED  BY <1>3, <1>4 DEF RowsFresh

(* One row written keeps every video one frame per row. *)
LEMMA WriteInStep ==
  ASSUME StreamTypeOK, WriteFrame, FramesInStep PROVE FramesInStep'
<1>1. written \in Nat /\ written' = written + 1
  BY DEF StreamTypeOK, WriteFrame
<1> SUFFICES ASSUME NEW c \in Cameras
             PROVE  /\ Len(video'[c]) = written + 1
                    /\ \A i \in 1..(written + 1) : video'[c][i] <= i
  BY <1>1 DEF FramesInStep
<1> DEFINE r == Shown(c, Head(waiting))
<1>2. video'[c] = Append(video[c], r)
  BY DEF WriteFrame, AppendFrames
<1>3. video[c] \in Seq(0..MaxFrameRows) /\ Len(video[c]) = written
  BY DEF StreamTypeOK, FramesInStep
<1>4. r \in 0..(written + 1)
  BY <1>1, <1>3, ShownBound
<1> HIDE DEF r
<1>5. /\ Len(Append(video[c], r)) = written + 1
      /\ \A i \in 1..written : Append(video[c], r)[i] = video[c][i]
      /\ Append(video[c], r)[written + 1] = r
  <2>1. video[c] \in Seq(Nat)
    BY <1>3
  <2> QED  BY <2>1, <1>3, <1>4, <1>1
<1>6. \A i \in 1..written : video[c][i] <= i
  BY DEF FramesInStep
<1>7. \A i \in 1..(written + 1) : Append(video[c], r)[i] <= i
  BY <1>1, <1>4, <1>5, <1>6
<1> QED  BY <1>2, <1>5, <1>7

(* Keyframes are of rows that are written. *)
KeyframesWritten ==
  \A c \in Cameras : opening[c] <= written /\ (written = 0 => closing[c] = 0)

LEMMA NoRowsShown == ASSUME NoRows PROVE KeyframesShown' /\ KeyframesWritten'
  BY DEF NoRows, KeyframesShown, KeyframesWritten

(* The last keyframe stays the last frame, because a missing picture repeats  *)
(* that frame, and the first one stays where it is.                           *)
LEMMA WriteShown ==
  ASSUME StreamTypeOK, WriteFrame, FramesInStep, KeyframesShown, KeyframesWritten
  PROVE  KeyframesShown' /\ KeyframesWritten'
<1> DEFINE pics == Head(waiting)
<1>1. written \in Nat /\ written' = written + 1
  BY DEF StreamTypeOK, WriteFrame
<1>2. KeyframesWritten'
  <2> SUFFICES ASSUME NEW c \in Cameras
               PROVE  opening'[c] <= written + 1 /\ written + 1 # 0
    BY <1>1 DEF KeyframesWritten
  <2>1. opening[c] \in Nat /\ opening[c] <= written
    BY DEF StreamTypeOK, KeyframesWritten
  <2>2. opening'[c] = written + 1 \/ opening'[c] = opening[c]
    BY DEF WriteFrame, ObserveFrames
  <2> QED  BY <1>1, <2>1, <2>2
<1> SUFFICES ASSUME NEW c \in Cameras
             PROVE  /\ closing'[c] = video'[c][written + 1]
                    /\ opening'[c] = 0 => \A i \in 1..(written + 1) : video'[c][i] = 0
                    /\ opening'[c] # 0 => /\ video'[c][opening'[c]] = opening'[c]
                                          /\ \A i \in 1..opening'[c] - 1 : video'[c][i] = 0
  BY <1>1, <1>2 DEF KeyframesShown
<1> DEFINE r == Shown(c, pics)
           v == video[c]
           w == Append(v, r)
<1>3. v \in Seq(Nat) /\ Len(v) = written
  BY DEF StreamTypeOK, FramesInStep
<1>4. r \in Nat
  BY <1>1, ShownBound DEF StreamTypeOK
<1>5. video'[c] = w
  BY DEF WriteFrame, AppendFrames
<1>6. /\ opening'[c] = IF c \in pics /\ opening[c] = 0 THEN written + 1 ELSE opening[c]
      /\ closing'[c] = IF c \in pics THEN written + 1 ELSE closing[c]
  BY DEF WriteFrame, ObserveFrames
<1>7. opening[c] \in Nat
  BY DEF StreamTypeOK
<1>8. r = IF c \in pics THEN written + 1 ELSE IF written = 0 THEN 0 ELSE v[written]
  BY <1>3, EmptySeq DEF Shown
<1>9. opening[c] <= written /\ (written = 0 => opening[c] = 0 /\ closing[c] = 0)
  <2>1. opening[c] <= written /\ (written = 0 => closing[c] = 0)
    BY DEF KeyframesWritten
  <2> QED  BY <1>7, <2>1
<1>10. written > 0 => /\ closing[c] = v[written]
                      /\ opening[c] = 0 => \A i \in 1..written : v[i] = 0
                      /\ opening[c] # 0 => /\ v[opening[c]] = opening[c]
                                           /\ \A i \in 1..opening[c] - 1 : v[i] = 0
  BY DEF KeyframesShown
<1> HIDE DEF r, v, pics
<1>12. /\ \A i \in 1..written : w[i] = v[i]
       /\ w[written + 1] = r
  BY <1>1, <1>3, <1>4
<1> HIDE DEF w
<1>13. closing'[c] = w[written + 1]
  BY <1>1, <1>6, <1>8, <1>9, <1>10, <1>12
<1>14. CASE c \in pics /\ opening[c] = 0
  <2>1. \A i \in 1..written : w[i] = 0
    BY <1>1, <1>10, <1>12, <1>14
  <2>2. opening'[c] = written + 1 /\ w[written + 1] = written + 1
    BY <1>6, <1>8, <1>12, <1>14
  <2> QED  BY <1>1, <1>5, <1>13, <2>1, <2>2
<1>15. CASE c \notin pics /\ opening[c] = 0
  <2>1. \A i \in 1..written : w[i] = 0
    BY <1>1, <1>10, <1>12, <1>15
  <2>2. r = 0
    BY <1>1, <1>8, <1>10, <1>15
  <2>3. opening'[c] = 0
    BY <1>6, <1>15
  <2> QED  BY <1>1, <1>5, <1>12, <1>13, <2>1, <2>2, <2>3
<1>16. CASE opening[c] # 0
  <2>1. opening'[c] = opening[c] /\ opening[c] \in 1..written
    BY <1>1, <1>6, <1>7, <1>9, <1>16
  <2>2. written > 0
    BY <1>1, <2>1
  <2>3. w[opening[c]] = opening[c]
    BY <1>10, <1>12, <1>16, <2>1, <2>2
  <2>4. \A i \in 1..opening[c] - 1 : w[i] = 0
    BY <1>1, <1>10, <1>12, <1>16, <2>1, <2>2
  <2> QED  BY <1>5, <1>13, <1>16, <2>1, <2>3, <2>4
<1> QED  BY <1>14, <1>15, <1>16

-----------------------------------------------------------------------------
FrameInv ==
  StreamTypeOK /\ RowsFresh /\ FramesInStep /\ KeyframesShown /\ KeyframesWritten

LEMMA WriteTyped ==
  ASSUME FrameInv, WriteFrame PROVE StreamTypeOK'
<1> USE DEF FrameInv
<1>1. /\ waiting \in Seq(SUBSET Cameras) /\ waiting # <<>>
      /\ waiting' = Tail(waiting) /\ written' = written + 1
      /\ written \in Nat /\ MaxFrameRows \in Nat /\ written + Len(waiting) <= MaxFrameRows
  BY DEF StreamTypeOK, WriteFrame
<1>2. /\ waiting' \in Seq(SUBSET Cameras) /\ Len(waiting') = Len(waiting) - 1
      /\ Len(waiting) \in Nat /\ Len(waiting) >= 1
  BY <1>1, EmptySeq
<1>3. written' \in 0..MaxFrameRows /\ written' + Len(waiting') <= MaxFrameRows
  BY <1>1, <1>2
<1>4. video' \in [Cameras -> Seq(0..MaxFrameRows)]
  <2> SUFFICES ASSUME NEW c \in Cameras
               PROVE  Append(video[c], Shown(c, Head(waiting))) \in Seq(0..MaxFrameRows)
    BY DEF WriteFrame, AppendFrames
  <2>1. video[c] \in Seq(0..MaxFrameRows)
    BY DEF StreamTypeOK
  <2>2. Shown(c, Head(waiting)) \in 0..(written + 1)
    BY <1>1, <2>1, ShownBound
  <2>3. Shown(c, Head(waiting)) \in 0..MaxFrameRows
    BY <2>2, <1>1, <1>2
  <2> HIDE DEF FrameInv
  <2> QED  BY <2>1, <2>3, AppendProperties
<1>5. opening' \in [Cameras -> 0..MaxFrameRows] /\ closing' \in [Cameras -> 0..MaxFrameRows]
  BY <1>1, <1>3 DEF StreamTypeOK, WriteFrame, ObserveFrames
<1> QED  BY <1>2, <1>3, <1>4, <1>5 DEF StreamTypeOK, WriteFrame

LEMMA SampleTyped ==
  ASSUME StreamTypeOK, Sample PROVE StreamTypeOK'
<1>1. /\ waiting \in Seq(SUBSET Cameras) /\ written \in Nat
      /\ written + Len(waiting) < MaxFrameRows
      /\ waiting' = Append(waiting, {c \in Cameras : decodes[c]})
  BY DEF StreamTypeOK, Sample
<1>2. {c \in Cameras : decodes[c]} \in SUBSET Cameras
  OBVIOUS
<1>3. waiting' \in Seq(SUBSET Cameras) /\ Len(waiting') = Len(waiting) + 1
  BY <1>1, <1>2, AppendProperties
<1>4. written + Len(waiting') <= MaxFrameRows
  BY <1>1, <1>3, LenProperties
<1>5. oldest' \in 0..Never
  <2>1. PICK a \in {oldest} \cup {age[s] : s \in Streams} : oldest' = a
    BY DEF Sample
  <2> QED  BY <2>1 DEF StreamTypeOK
<1>6. masks' \subseteq Streams
  BY DEF StreamTypeOK, Sample
<1> QED  BY <1>3, <1>4, <1>5, <1>6 DEF StreamTypeOK, Sample

LEMMA FrameInvInductive == FrameInv /\ [StreamNext]_streamVars => FrameInv'
<1> SUFFICES ASSUME FrameInv, [StreamNext]_streamVars PROVE FrameInv'
  OBVIOUS
<1>0. StreamTypeOK /\ RowsFresh /\ FramesInStep /\ KeyframesShown /\ KeyframesWritten
  BY DEF FrameInv
<1>1. CASE \E s \in Streams : Message(s)
  <2>1. PICK s \in Streams : Message(s)
    BY <1>1
  <2>3. age \in [Streams -> 0..Never] /\ 0 \in 0..Never
    BY <1>0 DEF StreamTypeOK, Never
  <2>4. age' \in [Streams -> 0..Never]
    BY <2>1, <2>3 DEF Message
  <2>5. decodes' \in [Cameras -> BOOLEAN]
    <3>1. decodes \in [Cameras -> BOOLEAN]
      BY <1>0 DEF StreamTypeOK
    <3>2. CASE UNCHANGED decodes  BY <3>1, <3>2
    <3>3. CASE \E b \in BOOLEAN : decodes' = [decodes EXCEPT ![s] = b]
      <4>1. PICK b \in BOOLEAN : decodes' = [decodes EXCEPT ![s] = b]
        BY <3>3
      <4> QED  BY <3>1, <4>1, Zenon
    <3> QED  BY <2>1, <3>2, <3>3, Zenon DEF Message
  <2>2. age' \in [Streams -> 0..Never] /\ decodes' \in [Cameras -> BOOLEAN]
    BY <2>4, <2>5
  <2> QED  BY <1>0, <2>1, <2>2 DEF Message, FrameInv, StreamTypeOK, RowsFresh, FramesInStep, KeyframesShown, KeyframesWritten, episodeVars
<1>2. CASE TimePasses
  <2>1. age' \in [Streams -> 0..Never] /\ since' \in 0..Warmup
    BY <1>0, <1>2 DEF TimePasses, StreamTypeOK, Never
  <2> QED  BY <1>0, <1>2, <2>1 DEF TimePasses, FrameInv, StreamTypeOK, RowsFresh, FramesInStep, KeyframesShown, KeyframesWritten, episodeVars
<1>3. CASE BeginRecording
  <2>1. NoRows /\ mode' = "recording" /\ since' \in 0..Warmup /\ UNCHANGED <<age, decodes>>
    BY <1>3 DEF BeginRecording
  <2> QED  BY <1>0, <2>1, NoRowsFresh, NoRowsInStep, NoRowsShown, NoRowsTyped DEF FrameInv, StreamTypeOK
<1>4. CASE SampleAborts \/ EndEpisode
  <2>1. NoRows /\ mode' = "idle" /\ UNCHANGED <<since, age, decodes>>
    BY <1>4 DEF SampleAborts, EndEpisode
  <2> QED  BY <1>0, <2>1, NoRowsFresh, NoRowsInStep, NoRowsShown, NoRowsTyped DEF FrameInv, StreamTypeOK
<1>5. CASE Sample
  <2>1. FramesInStep' /\ KeyframesShown' /\ KeyframesWritten'
    BY <1>0, <1>5 DEF Sample, FramesInStep, KeyframesShown, KeyframesWritten
  <2> QED  BY <1>0, <1>5, <2>1, SampleTyped, SampleFresh DEF FrameInv
<1>6. CASE WriteFrame
  <2>1. RowsFresh'
    BY <1>0, <1>6 DEF WriteFrame, RowsFresh
  <2> QED  BY <1>0, <1>6, <2>1, WriteTyped, WriteInStep, WriteShown DEF FrameInv
<1>7. CASE EndRecording
  BY <1>0, <1>7 DEF EndRecording, FrameInv, StreamTypeOK, RowsFresh, FramesInStep, KeyframesShown, KeyframesWritten, episodeVars
<1>8. CASE UNCHANGED streamVars
  BY <1>0, <1>8 DEF FrameInv, StreamTypeOK, RowsFresh, FramesInStep, KeyframesShown, KeyframesWritten, streamVars, episodeVars
<1> QED  BY <1>1, <1>2, <1>3, <1>4, <1>5, <1>6, <1>7, <1>8 DEF StreamNext

LEMMA FrameInvInit == StreamInit => FrameInv
<1> SUFFICES ASSUME StreamInit PROVE FrameInv
  OBVIOUS
<1>1. <<>> \in Seq(SUBSET Cameras) /\ Len(<<>>) = 0 /\ <<>> \in Seq(0..MaxFrameRows)
  OBVIOUS
<1> QED  BY <1>1 DEF StreamInit, FrameInv, StreamTypeOK, RowsFresh, FramesInStep, KeyframesShown, KeyframesWritten, Never

LEMMA FrameInvHolds == StreamSpec => []FrameInv
  BY FrameInvInit, FrameInvInductive, PTL DEF StreamSpec

(* Rows hold nothing older than the staleness timeout, whatever the streams  *)
(* do; frame i of every video belongs to row i, and the keyframes are frames *)
(* of their video.                                                           *)
THEOREM FramesCorrect == StreamSpec => []FramesFollowRows
<1>1. FrameInv => FramesFollowRows
  BY DEF FrameInv, FramesFollowRows
<1> QED
  BY <1>1, FrameInvHolds, PTL
-----------------------------------------------------------------------------
=============================================================================
