-------------------------- MODULE MCLerobotExport ---------------------------
(* Small instances of LerobotExport for TLC.                                *)
EXTENDS LerobotExport
CONSTANTS d1, d2
Ep(length, file, from) == [length |-> length, file |-> file, from |-> from]
\* A data set with two episodes in one file and one with a file for each.
TwoLayouts == [d \in {d1, d2} |->
  IF d = d1 THEN <<Ep(3, 0, 0), Ep(2, 0, 3)>> ELSE <<Ep(1, 0, 0), Ep(1, 1, 1)>>]
Trim(a, b) == [start |-> a, end |-> b]
\* In quarters of a frame: none; halves that go to either side, three quarters,
\* an end beyond the episode, half a frame left, nothing left after rounding.
FewTrims == {<<>>, <<Trim(2, 7), Trim(6, 40)>>}
=============================================================================
