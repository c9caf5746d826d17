--------------------------- MODULE MCRolloutLink ---------------------------
(* Small instances of RolloutLink for TLC.                                  *)
EXTENDS RolloutLink

VARIABLE wide   \* which of two bounds holds: two PolicyStates queued, or two rollouts

WideInit == Init /\ wide \in BOOLEAN
WideNext ==
  /\ Next /\ UNCHANGED wide
  /\ IF wide THEN rollout' <= 1 ELSE Len(pq') <= 1
WideSpec == WideInit /\ [][WideNext]_<<vars, wide>>
=============================================================================
