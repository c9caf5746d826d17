----------------------------- MODULE MCRawData -----------------------------
(* Small instances of RawData for TLC.                                      *)
EXTENDS RawData, TLC
Symmetry == Permutations(Episodes) \cup Permutations(Viewers) \cup Permutations(Labels)
TwoEpisodes == {1, 2}
SecondOnly == {2}
\* A copy of the first recording may lack a packet, and one of the second that is
\* cut off may have as many packets as the first.
TwoLengths == <<4, 8>>
\* Ends of 0 and beyond the recording, a start behind the end; segments that
\* overlap, without a label, out of order.
SomePayloads ==
  [rejected : {FALSE}, trim : {Span(0, 0), Span(1, Frames + 1), Span(2, 1)},
   segs : LET Seg(a, b, label) == Segment(a, b, label) IN
     {<<>>} \cup {<<Seg(0, 2, l), Seg(1, Frames + 1, k)>> : l \in Labels, k \in Labels}
            \cup {<<Seg(2, Frames + 1, l), Seg(0, 1, NoLabel)>> : l \in Labels}]
  \cup {[rejected |-> TRUE, trim |-> Span(0, Frames), segs |-> <<>>]}
=============================================================================
