----------------------------- MODULE PI05Node ------------------------------
(* pi05_node.py repeats smolvla_node.py step for step, for checkpoints of   *)
(* the pi0 family.  Its steps are those of QueueNode.                       *)
EXTENDS QueueNode

CONSTANT Kinds   \* kinds of checkpoints that goals name

\* LeRobot's names of the kinds that this node runs.
Pi0Types == {"pi0", "pi05", "pi0_fast"}
CheckPolicyType(kind) == kind \in Pi0Types

PI05Init == QueueInit
PI05OnGoal(g) == OnGoal(g)
PI05OnCancel(g) == OnCancel(g)
PI05Execute(g) == ExecuteEpisode(g) \/ Finally(g)
PI05Setup(g) == KeepRunner(g) \/ SetupRefused(g)
\* A checkpoint of another kind is refused before it replaces the old one.
PI05Reload(g) ==
  \E kind \in Kinds : IF CheckPolicyType(kind) THEN Reload(g) ELSE SetupRefused(g)
PI05Run(g) ==
  \/ Begin(g) \/ Stopped(g) \/ TimeIsUp(g) \/ Pass(g) \/ ActStale(g)
  \/ InferFails(g) \/ RunRaises(g) \/ End(g)
PI05Infer(g) == ActQueue(g)
PI05OnVelDone == DriverExecutes \/ AnswerWrite
PI05Callback == \E to \in {"fresh", "stale"} : Hear(to)
PI05Shutdown == Shutdown \/ CloseClient

PI05Episode(g) ==
  \/ PI05Execute(g) \/ PI05Setup(g) \/ PI05Reload(g) \/ PI05Run(g) \/ PI05Infer(g)
PI05Next ==
  \/ \E g \in Episodes : PI05OnGoal(g) \/ PI05OnCancel(g) \/ PI05Episode(g)
  \/ PI05OnVelDone \/ MoveExpires \/ PI05Callback \/ PI05Shutdown

PI05Fairness ==
  /\ \A g \in Episodes : WF_queueVars(PI05Episode(g))
  /\ WF_queueVars(DriverExecutes) /\ WF_queueVars(MoveExpires) /\ WF_queueVars(AnswerWrite)
PI05Spec == PI05Init /\ [][PI05Next]_queueVars /\ PI05Fairness
=============================================================================
