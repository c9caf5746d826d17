------------------------------ MODULE Servers ------------------------------
(* The servers beside the policy programs: max_server, and the older        *)
(* application (app_server.py), which is the bridge with the page that      *)
(* moves the arm and the model server with the page that commands it.       *)
(* They share no variable: what a model server sends enters the bridge at   *)
(* any time in PoseControl.  So a behaviour moves one of the three, and the *)
(* others stand still.                                                      *)
EXTENDS MaxServer, PoseControl, ModelServer

VARIABLE moving   \* the one that moves

movingVars == <<vars, poseVars, modelVars, moving>>

ServersInit ==
  /\ moving \in {"max", "bridge", "model"}
  /\ Init /\ PoseInit /\ ModelInit /\ (moving # "max" => careful)

MaxMoves(A) == moving = "max" /\ A /\ UNCHANGED <<poseVars, modelVars, moving>>
BridgeMoves(A) == moving = "bridge" /\ A /\ UNCHANGED <<vars, modelVars, moving>>
ModelMoves(A) == moving = "model" /\ A /\ UNCHANGED <<vars, poseVars, moving>>
ServersNext == MaxMoves(Next) \/ BridgeMoves(PoseNext) \/ ModelMoves(ModelNext)

\* Every thread of the one that moves goes on.
ServersFairness ==
  /\ \A g \in Goals : WF_movingVars(MaxMoves(LoadStep(g) \/ LoopStep(g)))
  /\ WF_movingVars(BridgeMoves(Bridge)) /\ WF_movingVars(BridgeMoves(CtrlListen))
  /\ \A b \in Clicks : WF_movingVars(BridgeMoves(BurstCheck(b) \/ BurstSends(b)))
  /\ WF_movingVars(ModelMoves(CommandLoop))
  /\ WF_movingVars(ModelMoves(BeatReads)) /\ WF_movingVars(ModelMoves(BeatSends))
  /\ \A l \in LoadIds : WF_movingVars(ModelMoves(LoadThread(l)))
  /\ \A i \in Runs : WF_movingVars(ModelMoves(RunThread(i)))

ServersSpec == ServersInit /\ [][ServersNext]_movingVars /\ ServersFairness

\* What clients of the servers wait for comes: answers and ends of goals, control
\* that is free again, a run that stops, a page that shows the state.
ServersAnswer == GoalsAnswered /\ ControlReturns /\ StopsInTheEnd /\ ShownSettles
=============================================================================
