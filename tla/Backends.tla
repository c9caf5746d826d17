------------------------------ MODULE Backends ------------------------------
(* The servers that hold a state for their pages: those of Servers, and the *)
(* old web editor's back end, which loads and exports data sets.  They      *)
(* share nothing; a behaviour moves one of them.                            *)
EXTENDS Servers, LerobotExport

backendVars == <<movingVars, exportVars>>

BackendsInit ==
  /\ ServersInit \/ (moving = "export" /\ Init /\ PoseInit /\ ModelInit /\ careful)
  /\ ExportInit

ExportMoves(A) == moving = "export" /\ A /\ UNCHANGED movingVars
BackendsNext == (ServersNext /\ UNCHANGED exportVars) \/ ExportMoves(ExportNext)

\* Those that stand still have no step of a thread that could be put off.
BackendsSpec ==
  BackendsInit /\ [][BackendsNext]_backendVars /\ ServersFairness /\ ExportFairness
=============================================================================
