----------------------------- MODULE EditRules ------------------------------
(* What the editor's server and the converter make of an episode's edits:   *)
(* the segments it suggests from the gripper and the motion, what it lets   *)
(* through of the edits a page sends, and what the converter reads in them. *)
(* Frames are counted from 0, and a range includes its start only.          *)
EXTENDS Ordering, SequencesExt, FiniteSetsExt

CONSTANTS NoLabel, NoTrim

Lower(a, b) == IF a < b THEN a ELSE b
Upper(a, b) == IF a > b THEN a ELSE b
Clip(x, low, high) == Upper(low, Lower(x, high))
Span(first, last) == [start |-> first, end |-> last]
Segment(first, last, label) == [start |-> first, end |-> last, label |-> label]
\* By start, and by end where they start together.
ByStart(segs) ==
  LET byEnd == SortedBy(segs, [i \in DOMAIN segs |-> segs[i].end]) IN
  SortedBy(byEnd, [i \in DOMAIN segs |-> byEnd[i].start])

\* Edits of an episode nobody has edited: none of the keys.
NoEdits == [rejected |-> FALSE, trim |-> NoTrim, segs |-> <<>>]

----------------------------------------------------------------------------
(* signals.py: cuts at the gripper's edges, moved apart from the grasp. *)

Edges(closed) == {i \in DOMAIN closed : i - 1 \in DOMAIN closed /\ closed[i] # closed[i - 1]}
Cut(closed, i, lead, lag, n) == Clip(IF closed[i] THEN i - lead ELSE i + lag, 0, n - 1)
MovingSpan(moving, margin, n) ==
  IF \A i \in 0..n-1 : ~moving[i] THEN Span(0, n)
  ELSE LET stage == {i \in 0..n-1 : moving[i]} IN
       Span(Upper(0, Min(stage) - margin), Lower(n, Max(stage) + margin + 1))
suggest_segments(closed, moving, n, lead, lag, margin, least, label) ==
  LET span == MovingSpan(moving, margin, n)
      cuts == {Cut(closed, i, lead, lag, n) : i \in Edges(closed)}
      bounds == {span.start, span.end} \cup {t \in cuts : span.start < t /\ t < span.end}
      Following(b) == Min({c \in bounds : c > b})
      starts == {b \in bounds : b < span.end /\ Following(b) - b >= least} IN
  [rejected |-> FALSE, trim |-> span,
   segs |-> ByStart(SetToSeq({Segment(b, Following(b), label) : b \in starts}))]

----------------------------------------------------------------------------
(* store.py: an end of 0 counts as not given. *)

_sanitize_trim(trim, n) ==
  LET first == Clip(trim.start, 0, n) IN
  Span(first, Upper(first, Lower(IF trim.end = 0 THEN n ELSE trim.end, n)))

_sanitize_segments(segs, n) ==
  LET Clipped(s) == Segment(Clip(s.start, 0, n), Clip(s.end, 0, n), s.label)
      clipped == [i \in DOMAIN segs |-> Clipped(segs[i])] IN
  ByStart(Selected(clipped, {i \in DOMAIN clipped : clipped[i].end > clipped[i].start}))

----------------------------------------------------------------------------
(* convert_to_lerobot.py: n rows were recorded. *)

episode_trim(stored, n) ==
  IF stored.rejected THEN Span(0, 0)
  ELSE IF stored.trim = NoTrim THEN Span(0, n)
  ELSE LET first == Clip(stored.trim.start, 0, n) IN
       Span(first, Upper(first, Lower(stored.trim.end, n)))

\* Clipped to the window and counted from its start.
episode_segments(stored, window) ==
  LET Inside(s) == Segment(Upper(s.start, window.start) - window.start,
                           Lower(s.end, window.end) - window.start, s.label)
      inside == [i \in DOMAIN stored.segs |-> Inside(stored.segs[i])]
      kept == Selected(inside, {i \in DOMAIN inside :
                                  inside[i].label # NoLabel /\ inside[i].end > inside[i].start}) IN
  SortedBy(kept, [i \in DOMAIN kept |-> kept[i].start])

\* The prompts of the segments get rows of their own as they are met.
Registered(registry, segs) ==
  LET First(k) == segs[k].label \notin ToSet(registry) /\ \A j \in 1..k-1 : segs[j].label # segs[k].label
      fresh == Selected(segs, {k \in DOMAIN segs : First(k)}) IN
  registry \o [k \in DOMAIN fresh |-> fresh[k].label]
RowOf(registry, label) == (CHOOSE r \in DOMAIN registry : registry[r] = label) - 1
\* A later segment is written over an earlier one.
subtask_column(registry, segs, n) ==
  [i \in 0..n-1 |->
     LET over == {k \in DOMAIN segs : segs[k].start <= i /\ i < segs[k].end} IN
     IF over = {} THEN -1 ELSE RowOf(registry, segs[Max(over)].label)]
\* Mutant: the table has the prompts only.
subtasks_table_plain(registry) == registry
\* A last row without a prompt; no table when there is no prompt at all.
subtasks_table(registry) == IF registry = <<>> THEN <<>> ELSE registry \o <<NoLabel>>
\* A negative row number is counted from the end.
LookUp(table, row) ==
  IF table = <<>> THEN NoLabel
  ELSE IF row >= 0 THEN table[row + 1] ELSE table[Len(table) + row + 1]
=============================================================================
