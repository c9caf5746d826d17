---------------------------- MODULE MCPolicyNode ----------------------------
(* Small instances of PolicyNode for TLC.                                  *)
EXTENDS PolicyNode

CONSTANTS g1, g2, g3

NoGoals   == {}
OneGoal   == {g1}
TwoGoals  == {g1, g2}
SecondOnly == {g2}
ThreeGoals == {g1, g2, g3}
FirstTwo   == {g1, g2}
LastTwo    == {g2, g3}

Says(mode, head) == [mode |-> mode, head |-> head, standalone |-> FALSE]
Prompts3   == {Says("active", FALSE), Says("probing", TRUE), Says("halt", FALSE)}
OnlyRun    == {Says("active", FALSE)}
=============================================================================
