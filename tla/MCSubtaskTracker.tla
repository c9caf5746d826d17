-------------------------- MODULE MCSubtaskTracker --------------------------
(* Small instances of SubtaskTracker for TLC.                              *)
EXTENDS SubtaskTracker

\* Bound: what an earlier rollout left is of requests of which no capture was late.
LeftWhole == \A i \in DOMAIN pending : pending[i].total = Captures
MCInit == Init /\ LeftWhole
MCFairSpec == MCInit /\ [][Next]_vars /\ Fairness
=============================================================================
