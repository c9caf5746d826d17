--------------------------- MODULE MCPolicyNodes ----------------------------
(* Small instances of the policy nodes under fairness for TLC.              *)
EXTENDS PolicyNodes

CONSTANT g1
NoGoals  == {}
OneGoal  == {g1}
UpToThree == -3..3   \* the policy may ask more than MaxSpeed, both ways
=============================================================================
