------------------------------ MODULE MergeRaw ------------------------------
(* Merging recorded data sets: every episode folder of the sources gets a   *)
(* number in the output and its files are copied, linked or moved there;    *)
(* what names the episode is rewritten.  The list of episodes is written    *)
(* last.  A link is a second name of the same file.                         *)
EXTENDS Ordering, SequencesExt, FiniteSetsExt

CONSTANTS SourceEpisodes,   \* source episodes, 1..n in the order of the sources
          Unreadable, \* source episodes whose tasks.json cannot be read
          MaxMerges,  \* bound: runs of the tool
          MaxDeaths,  \* bound: runs that end in the middle
          Nothing

ASSUME MergesAssumption ==
  {MaxMerges, MaxDeaths} \subseteq Nat /\ SourceEpisodes \subseteq Nat /\ IsFiniteSet(SourceEpisodes)

VARIABLES mode, \* of the run: copy, link, move
          stage,   \* where the run is
          plans, \* what it has left to do: source episode and number in the output
          entries, \* the list it will write
          src,  \* source folders: their files, and the number data.hdf5 bears
          out,  \* folders of the output, by number
          listed, \* metadata.json of the output: Nothing or its entries
          merges, deaths,
          moved \* sources were ever moved from (history)

mergeVars == <<mode, stage, plans, entries, src, out, listed, merges, deaths, moved>>
Run == <<mode, plans, entries>>
Ends == <<merges, deaths, moved>>

\* tasks.json is read and rewritten, never placed.
Placed == {"video", "data", "edits"}
FolderFiles == Placed \cup {"tasks"}
Numbers == 0..(MaxMerges * Cardinality(SourceEpisodes))
Scanned(folders) == {n \in DOMAIN folders : "data" \in folders[n].files}
Plan == Head(plans)
Into == Plan.number
From == Plan.episode
Folder == out[Into]

MergeInit ==
  /\ mode = "copy" /\ stage = "idle" /\ plans = <<>> /\ entries = <<>>
  /\ src = [e \in SourceEpisodes |-> [files |-> FolderFiles, number |-> Nothing]]
  /\ out = <<>> /\ listed = Nothing /\ merges = 0 /\ deaths = 0 /\ moved = FALSE

\* A new output, or --append to one that has its list of episodes.
Begin(m) ==
  LET eps == InOrder(Scanned(src))
      first == IF Scanned(out) = {} THEN 0 ELSE Max(Scanned(out)) + 1 IN
  /\ stage = "idle" /\ merges < MaxMerges /\ merges' = merges + 1
  /\ listed # Nothing \/ merges = 0
  /\ eps # <<>>
  /\ mode' = m /\ stage' = "make" /\ entries' = IF listed = Nothing THEN <<>> ELSE listed
  /\ plans' = [i \in DOMAIN eps |-> [episode |-> eps[i], number |-> first + i - 1]]
  /\ moved' = (moved \/ m = "move") /\ UNCHANGED <<src, out, listed, deaths>>

MergeIdle == stage' = "idle" /\ plans' = <<>> /\ entries' = <<>> /\ mode' = "copy"
StageTo(from, to) == stage = from /\ plans # <<>> /\ stage' = to
With(n, folder) == [k \in DOMAIN out \cup {n} |-> IF k = n THEN folder ELSE out[k]]

\* A folder left by a run that died without its data.hdf5 stops this one.
MakeFolder ==
  /\ stage = "make" /\ plans # <<>>
  /\ IF Into \in DOMAIN out THEN MergeIdle /\ UNCHANGED out
     ELSE /\ stage' = "place" /\ UNCHANGED Run
          /\ out' = With(Into, [of |-> From, files |-> {}, shared |-> {}, number |-> Nothing, tasks |-> Nothing])
  /\ UNCHANGED <<src, listed, Ends>>

\* By name: edits.json comes after data.hdf5, a video before or after it.
InTurn(file) ==
  /\ file \in (Placed \cap src[From].files) \ Folder.files
  /\ file = "edits" => "data" \notin src[From].files \/ "data" \in Folder.files
\* Mutant: every file is linked.
PlaceAll(file) ==
  /\ StageTo("place", "place") /\ InTurn(file)
  /\ out' = [out EXCEPT ![Into] = [Folder EXCEPT !.files = Folder.files \cup {file},
           !.shared = IF mode = "link" THEN Folder.shared \cup {file} ELSE Folder.shared,
           !.number = IF file = "data" THEN src[From].number ELSE Folder.number]]
  /\ src' = IF mode = "move" THEN [src EXCEPT ![From].files = @ \ {file}] ELSE src
  /\ UNCHANGED <<Run, listed, Ends>>
\* place_file; data.hdf5 is never linked.  Between file systems a link is a copy.
Place(file) ==
  /\ StageTo("place", "place") /\ InTurn(file)
  /\ out' = [out EXCEPT ![Into] = [Folder EXCEPT !.files = Folder.files \cup {file},
           !.shared = IF mode = "link" /\ file # "data" THEN Folder.shared \cup {file} ELSE Folder.shared,
           !.number = IF file = "data" THEN src[From].number ELSE Folder.number]]
  /\ src' = IF mode = "move" THEN [src EXCEPT ![From].files = @ \ {file}] ELSE src
  /\ UNCHANGED <<Run, listed, Ends>>
\* All files are placed: the attributes in data.hdf5 get the new number.
rewrite_hdf5 ==
  /\ StageTo("place", "tasks") /\ Placed \cap src[From].files \subseteq Folder.files
  /\ out' = [out EXCEPT ![Into].number = Into]
  /\ src' = IF "data" \in Folder.shared THEN [src EXCEPT ![From].number = Into] ELSE src
  /\ UNCHANGED <<Run, listed, Ends>>
\* Without a readable tasks.json a minimal one is written: no number of frames.
rewrite_tasks ==
  /\ StageTo("tasks", IF mode = "move" THEN "consume" ELSE "next")
  /\ out' = [out EXCEPT ![Into] = [Folder EXCEPT !.files = Folder.files \cup {"tasks"},
           !.tasks = IF From \in Unreadable \/ "tasks" \notin src[From].files THEN "minimal" ELSE "full"]]
  /\ UNCHANGED <<Run, src, listed, Ends>>
Consume ==
  /\ StageTo("consume", "next")
  /\ src' = [src EXCEPT ![From].files = {}] /\ UNCHANGED <<Run, out, listed, Ends>>
NextEpisode ==
  /\ StageTo("next", "make")
  /\ entries' = Append(entries, [number |-> Into, of |-> From]) /\ plans' = Tail(plans)
  /\ UNCHANGED <<mode, src, out, listed, Ends>>
\* Written to metadata.json.tmp and moved.
WriteList ==
  /\ stage = "make" /\ plans = <<>> /\ listed' = entries /\ MergeIdle
  /\ UNCHANGED <<src, out, Ends>>
Die ==
  /\ stage # "idle" /\ deaths < MaxDeaths /\ deaths' = deaths + 1
  /\ MergeIdle /\ UNCHANGED <<src, out, listed, merges, moved>>

MergeNext ==
  \/ \E m \in {"copy", "link", "move"} : Begin(m)
  \/ MakeFolder \/ \E file \in Placed : Place(file)
  \/ rewrite_hdf5 \/ rewrite_tasks \/ Consume \/ NextEpisode \/ WriteList \/ Die

----------------------------------------------------------------------------
Folders == [of : SourceEpisodes, files : SUBSET FolderFiles, shared : SUBSET Placed,
            number : Numbers \cup {Nothing}, tasks : {Nothing, "full", "minimal"}]
Entries == Seq([number : Numbers, of : SourceEpisodes])

\* Type invariant: the values every variable takes.
MergeTypeOK ==
  /\ mode \in {"copy", "link", "move"} /\ moved \in BOOLEAN
  /\ stage \in {"idle", "make", "place", "tasks", "consume", "next"}
  /\ plans \in Seq([episode : SourceEpisodes, number : Numbers])
  /\ entries \in Entries /\ listed \in Entries \cup {Nothing}
  /\ src \in [SourceEpisodes -> [files : SUBSET FolderFiles, number : Numbers \cup {Nothing}]]
  /\ DOMAIN out \subseteq Numbers /\ out \in [DOMAIN out -> Folders]
  /\ merges \in 0..MaxMerges /\ deaths \in 0..MaxDeaths

\* Every file of every recorded episode is in its source or in the output at
\* every moment, also when a run that moves files dies between two of them.
NothingLost ==
  \A e \in SourceEpisodes, file \in FolderFiles :
    file \in src[e].files \/ \E n \in DOMAIN out : out[n].of = e /\ file \in out[n].files

\* Without --move the sources stay what they were: nothing that is rewritten in
\* the output is a second name of one of their files.
SourcesUntouched ==
  ~moved => \A e \in SourceEpisodes : src[e].files = FolderFiles /\ src[e].number = Nothing

\* An episode on the list has all its files under the number of its folder.
ListedIsThere ==
  listed # Nothing => \A i \in DOMAIN listed :
    LET n == listed[i].number IN
    /\ n \in DOMAIN out /\ out[n].of = listed[i].of /\ out[n].number = n
    /\ {"data", "tasks"} \subseteq out[n].files
    /\ \A k \in DOMAIN listed : listed[k].number = n => k = i
=============================================================================
