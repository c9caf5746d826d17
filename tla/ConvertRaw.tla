----------------------------- MODULE ConvertRaw -----------------------------
(* The converter goes through the episode folders of the merged data set    *)
(* and writes a row per frame that was kept, with the subtask of each.  It  *)
(* reads an episode's edits again for each thing it wants of them, and the  *)
(* editor may store new ones between two readings.                          *)
EXTENDS MergeRaw, EditRules

CONSTANTS Frames,   \* recorded frames of every episode
          Labels,   \* the prompts a segment may have
          Forms, \* edits a page may send besides the suggested ones
          MaxStores \* bound: edits the operator stores

ASSUME FramesAssumption == Frames \in Nat \ {0} /\ MaxStores \in Nat
\* Numbers are numbers and prompts are known ones; no more is asked of a page.
ASSUME FormsAssumption == \A form \in Forms :
  /\ form.rejected \in BOOLEAN /\ form.trim.start \in Int /\ form.trim.end \in Int
  /\ form.segs \in Seq([start : Int, end : Int, label : Labels \cup {NoLabel}])

VARIABLES stored,   \* edits.json of each folder of the output
          stores,
          step,    \* where the converter is: idle, open, rows, notes, done
          todo,    \* folders it has left
          window,  \* the trim of the present one
          column,  \* its rows' subtask_index
          registry, \* prompts by row of subtasks.parquet
          written, \* episodes written
          table,   \* meta/subtasks.parquet
          disturbed \* folders edited after their reading began (history)

convertVars == <<stored, stores, step, todo, window, column, registry, written, table, disturbed>>
Store == <<stored, stores, disturbed>>

\* The frames the editor knows of: what tasks.json says.
Known(n) == IF out[n].tasks = "full" THEN Frames ELSE 0
EditsOf(n) == IF n \in DOMAIN stored THEN stored[n] ELSE NoEdits
\* From one signal of the gripper and one of the motion to a proposal.
Suggestions ==
  {suggest_segments(closed, moving, Frames, 1, 1, 0, 1, l) :
     closed \in [0..Frames-1 -> BOOLEAN], moving \in [0..Frames-1 -> BOOLEAN], l \in Labels}
Proposals == Forms \cup Suggestions

ConvertInit ==
  /\ stored = <<>> /\ stores = 0
  /\ step = "idle" /\ todo = <<>> /\ window = Span(0, 0) /\ column = <<>>
  /\ registry = <<>> /\ written = <<>> /\ table = <<>> /\ disturbed = {}

Sanitized(n, payload) ==
  [rejected |-> payload.rejected, trim |-> _sanitize_trim(payload.trim, Known(n)),
   segs |-> _sanitize_segments(payload.segs, Known(n))]
Over(n, value) == [k \in DOMAIN stored \cup {n} |-> IF k = n THEN value ELSE stored[k]]
Begun == IF step = "idle" THEN {}
         ELSE Scanned(out) \ ToSet(IF step \in {"rows", "notes"} THEN Tail(todo) ELSE todo)

\* The editor on the merged data set: a new file takes the name.
save_edits(n, payload) ==
  /\ stores < MaxStores /\ stores' = stores + 1
  /\ stored' = Over(n, Sanitized(n, payload))
  /\ disturbed' = disturbed \cup ({n} \cap Begun)
  /\ UNCHANGED <<step, todo, window, column, registry, written, table>>

Discover ==
  /\ step = "idle" /\ Scanned(out) # {} /\ step' = "open"
  /\ todo' = InOrder(Scanned(out))
  /\ UNCHANGED <<window, column, registry, written, table, Store>>

Trim ==
  /\ step = "open" /\ todo # <<>>
  /\ LET kept == episode_trim(EditsOf(Head(todo)), Frames) IN
     IF kept.end > kept.start
     THEN window' = kept /\ step' = "rows" /\ UNCHANGED todo
     ELSE todo' = Tail(todo) /\ UNCHANGED <<window, step>>
  /\ UNCHANGED <<column, registry, written, table, Store>>
read_episode ==
  /\ step = "rows" /\ step' = "notes"
  /\ LET segs == episode_segments(EditsOf(Head(todo)), window) IN
     /\ registry' = Registered(registry, segs)
     /\ column' = subtask_column(registry', segs, window.end - window.start)
  /\ UNCHANGED <<todo, window, written, table, Store>>
\* The segments are read again for the episode's annotations.
SaveEpisode ==
  /\ step = "notes" /\ step' = "open"
  /\ written' = Append(written,
       [folder |-> Head(todo), of |-> out[Head(todo)].of, window |-> window, column |-> column,
        segs |-> episode_segments(EditsOf(Head(todo)), window)])
  /\ todo' = Tail(todo) /\ window' = Span(0, 0) /\ column' = <<>>
  /\ UNCHANGED <<registry, table, Store>>
Finish ==
  /\ step = "open" /\ todo = <<>> /\ step' = "done"
  /\ table' = subtasks_table(registry)
  /\ UNCHANGED <<todo, window, column, registry, written, Store>>

ConvertNext == Discover \/ Trim \/ read_episode \/ SaveEpisode \/ Finish

----------------------------------------------------------------------------
Ranges == [start : 0..Frames, end : 0..Frames]
Segments == [start : 0..Frames, end : 0..Frames, label : Labels \cup {NoLabel}]

\* Type invariant: the values every variable takes; edits are stored in range
\* and in order, whatever was sent.
ConvertTypeOK ==
  /\ \A n \in DOMAIN stored :
       /\ n \in DOMAIN out /\ stored[n].rejected \in BOOLEAN
       /\ stored[n].trim \in Ranges /\ stored[n].trim.start <= stored[n].trim.end
       /\ stored[n].segs \in Seq(Segments)
  /\ stores \in 0..MaxStores /\ step \in {"idle", "open", "rows", "notes", "done"}
  /\ todo \in Seq(Numbers) /\ window \in Ranges
  /\ registry \in Seq(Labels) /\ table \in Seq(Labels \cup {NoLabel})

\* What a row's subtask_index names in the finished table is the prompt of the
\* last segment over that row's frame, and nothing where there is none: -1,
\* which the reader takes for the last row, included.  The episode's
\* annotations say the same, unless edits were stored between two readings.
RowsNameTheirSubtask ==
  step = "done" => \A k \in DOMAIN written : written[k].folder \notin disturbed =>
    \A i \in DOMAIN written[k].column :
      LET segs == EditsOf(written[k].folder).segs
          frame == written[k].window.start + i
          over == {j \in DOMAIN segs : segs[j].label # NoLabel /\ segs[j].start <= frame /\ frame < segs[j].end}
          name == IF over = {} THEN NoLabel ELSE segs[Max(over)].label IN
      /\ LookUp(table, written[k].column[i]) = name
      /\ name # NoLabel => \E j \in DOMAIN written[k].segs :
           LET note == written[k].segs[j] IN note.label = name /\ note.start <= i /\ i < note.end

\* An episode is written once, with the frames its edits kept, and it is left
\* out if and only if they reject it or keep none; edits stored when tasks.json
\* did not tell the number of frames always keep none.
KeptIsWritten ==
  step = "done" => \A n \in Scanned(out) \ disturbed :
      LET kept == ~EditsOf(n).rejected /\ (EditsOf(n).trim = NoTrim \/ EditsOf(n).trim.start < EditsOf(n).trim.end)
          as == {k \in DOMAIN written : written[k].folder = n} IN
      Cardinality(as) = IF kept THEN 1 ELSE 0
=============================================================================
