----------------------------- MODULE Recorders ------------------------------
(* The two programs that record episodes: the recorder node, its commands  *)
(* and files (Recorder) and its streams and rows (FrameStream), and the     *)
(* stand-alone collector (DataCollect).  The programs share nothing, not   *)
(* even the data set, and Recorder lets a frame be there or a stream be     *)
(* silent at any tick, so a behaviour moves one of the three.              *)
EXTENDS Recorder, FrameStream, DataCollect

VARIABLE moving   \* the one that moves

recordersVars == <<vars, streamVars, collectVars, moving>>

RecordersInit == /\ moving \in {"node", "streams", "collector"}
                 /\ Init /\ StreamInit /\ CollectInit

NodeMoves(A) == moving = "node" /\ A /\ UNCHANGED <<streamVars, collectVars, moving>>
StreamsMove(A) == moving = "streams" /\ A /\ UNCHANGED <<vars, collectVars, moving>>
CollectorMoves(A) == moving = "collector" /\ A /\ UNCHANGED <<vars, streamVars, moving>>
RecordersNext == NodeMoves(Next) \/ StreamsMove(StreamNext) \/ CollectorMoves(CollectNext)

\* Each thread of the one that moves goes on with what it has begun.
RecordersFairness ==
  /\ WF_recordersVars(NodeMoves(Writes)) /\ WF_recordersVars(NodeMoves(Discards))
  /\ WF_recordersVars(NodeMoves(Undoes)) /\ WF_recordersVars(NodeMoves(Saves))
  /\ WF_recordersVars(NodeMoves(Exit))
  /\ WF_recordersVars(CollectorMoves(Work)) /\ WF_recordersVars(CollectorMoves(Leave))

RecordersSpec == RecordersInit /\ [][RecordersNext]_recordersVars /\ RecordersFairness

\* Neither program is stuck: the node comes back to serve commands, and the
\* collector answers its deletions and ends when told to.
AlwaysServes == ServesAgain /\ QuitEnds /\ DeletesAnswered
=============================================================================
