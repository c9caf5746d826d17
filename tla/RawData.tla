------------------------------ MODULE RawData ------------------------------
(* Two kinds of programs work on a recorded data set: the editor's server,  *)
(* and the offline tools, which merge data sets and convert what came of    *)
(* it after the operator's edits.  A behaviour is of one kind.  What one    *)
(* needs of the other it takes as a step of its own: among the tools an     *)
(* edit is stored in one step, which DatasetEditor shows to be whole or     *)
(* absent on the disk at any time.                                          *)
EXTENDS EditorServer, ConvertRaw

allVars == <<mergeVars, convertVars>>
ToolsInit == MergeInit /\ ConvertInit

OperatorEdits == \E n \in Scanned(out) : \E payload \in Proposals : save_edits(n, payload)
ToolsNext ==
  \/ step = "idle" /\ MergeNext /\ UNCHANGED convertVars
  \/ stage = "idle" /\ stores < MaxStores /\ OperatorEdits /\ UNCHANGED mergeVars
  \/ stage = "idle" /\ ConvertNext /\ UNCHANGED mergeVars
ToolsSpec == ToolsInit /\ [][ToolsNext]_allVars

\* No merge, however it ends, loses or rewrites a recording, and its list is
\* true (merge_raw_episode.py:130-200, :330-400).
MergesKeep == MergeTypeOK /\ NothingLost /\ SourcesUntouched /\ ListedIsThere

\* The rows of the converted data set are those the edits keep, labelled as the
\* edits say (convert_to_lerobot.py:380-580).
RowsFollowEdits == ConvertTypeOK /\ RowsNameTheirSubtask /\ KeptIsWritten

VARIABLE program   \* the editor's server, or the tools

rawVars == <<ServerVars, allVars, program>>

RawInit == program \in {"editor", "tools"} /\ ServerInit /\ ToolsInit

RawNext ==
  /\ UNCHANGED program
  /\ \/ program = "editor" /\ ServerNext /\ UNCHANGED allVars
     \/ program = "tools" /\ ToolsNext /\ UNCHANGED ServerVars

RawSpec == RawInit /\ [][RawNext]_rawVars
=============================================================================
