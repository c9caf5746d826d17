---------------------------- MODULE PolicyNodes -----------------------------
(* The policy node of the manager's rollouts (PolicyNode), the limits       *)
(* between its policy and the arm (ActionSafety) and the single-node        *)
(* policies before it (PI05Node, QueueNode).  One node is started at a      *)
(* time, and what PolicyNode decides ActionSafety allows in any order: a    *)
(* behaviour moves one of the three, the others stand still.                *)
EXTENDS PolicyNode, ActionSafety, PI05Node

VARIABLE moving   \* the one that moves

nodesVars == <<vars, actionVars, queueVars, moving>>

NodesInit == /\ moving \in {"policy", "limits", "queue"}
             /\ Init /\ ActionInit /\ PI05Init
             /\ moving # "limits" => place = Low /\ jaws = "open"   \* one is enough

PolicyMoves(A) == moving = "policy" /\ A /\ UNCHANGED <<actionVars, queueVars, moving>>
LimitsMove(A) == moving = "limits" /\ A /\ UNCHANGED <<vars, queueVars, moving>>
QueueMoves(A) == moving = "queue" /\ A /\ UNCHANGED <<vars, actionVars, moving>>
NodesNext == PolicyMoves(Next) \/ LimitsMove(ActionNext) \/ QueueMoves(PI05Next)

\* The policy node: the timer, the inference thread and the goal threads keep
\* going, and time passes between ticks; the sensors are not lost for ever: again
\* and again a tick meets a fresh observation, and the snapshot it takes is usable.
\* The single-node policies: episodes run on threads of their own, the driver
\* answers, time passes.
NodesFairness ==
  /\ SF_nodesVars(PolicyMoves(Elapse))
  /\ WF_nodesVars(PolicyMoves(TickInactive)) /\ WF_nodesVars(PolicyMoves(TickPoll))
  /\ WF_nodesVars(PolicyMoves(TickSend))
  /\ WF_nodesVars(PolicyMoves(TickHalt \/ TickDeadman \/ TickHold \/ TickTimeout \/ TickRun \/ TickHang))
  /\ WF_nodesVars(PolicyMoves(WorkerPut \/ WorkerFail)) /\ WF_nodesVars(PolicyMoves(WorkerClear))
  /\ \A g \in Goals :
       WF_nodesVars(PolicyMoves(\/ Execute(g) \/ LoadClose(g) \/ LoadOk(g) \/ LoadFails(g)
                                \/ SetupFails(g) \/ RunPrompt(g) \/ BeginStatus(g)
                                \/ BeginClock(g) \/ OutdatedClock(g) \/ LoopExit(g) \/ RunEnd(g) \/ Close(g)))
  /\ WF_nodesVars(PolicyMoves(Observe))
  /\ SF_nodesVars(PolicyMoves(TickPoll /\ Fresh)) /\ SF_nodesVars(PolicyMoves(TickTimeout))
  /\ \A g \in Episodes : WF_nodesVars(QueueMoves(PI05Episode(g)))
  /\ WF_nodesVars(QueueMoves(DriverExecutes)) /\ WF_nodesVars(QueueMoves(MoveExpires))
  /\ WF_nodesVars(QueueMoves(AnswerWrite))

NodesSpec == NodesInit /\ [][NodesNext]_nodesVars /\ NodesFairness

\* Whichever node drives the arm, the arm comes to rest when its goals are over,
\* although a stop may be overwritten by a tick or dropped with too many calls
\* in flight (executor.py:372, smolvla_node.py:494).
ArmsRest == ArmComesToRest /\ ComesToRest

\* Whichever node took a goal, the goal ends.
AllGoalsEnd == GoalsEnd /\ EpisodesEnd
=============================================================================
