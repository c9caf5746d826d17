------------------------ MODULE LerobotExportProofs ------------------------
(***************************************************************************)
(* Proofs about the back end that exports data sets.  The invariant says    *)
(* what loads do to the one loaded data set, what a request has read of it, *)
(* and what the thread that writes has put into its folder so far; a step   *)
(* of a request that has not begun to write keeps all of the last.          *)
(***************************************************************************)
EXTENDS LerobotExport, SequenceTheorems, FiniteSetTheorems, WellFoundedInduction, TLAPS

USE LayoutAssumption, TrimAssumption, PathsAssumption

-----------------------------------------------------------------------------
(* The invariant.                                                          *)

Sets == Datasets \cup {NoData}
Names == {"path", "info", "episodes", "by_index"}
Begun == {"compare", "root", "info", "episodes"}
Settled == Working \cup {"ended"}
Pcs == Begun \cup {"claim", "died", "ended"} \cup Working
Requests ==
  [pc : Pcs, out : Paths \cup {NoData}, trims : TrimChoices \cup {<<>>}, root : Sets, info : Sets, eps : Sets,
   at : Nat \ {0}, overlapped : BOOLEAN]
Status ==
  [running : BOOLEAN, progress : Nat, total : Nat, message : {"", "starting", "episode", "done", "failed"},
   error : BOOLEAN, out_path : Paths \cup {NoData}]
LoadsOf == [of : Sets, next : 1..5]

Sequence(s) == \E S : s \in Seq(S)
Folder(f) ==
  /\ f = [by |-> f.by, episodes |-> f.episodes, whole |-> f.whole]
  /\ f.by \in -1..MaxExports /\ f.whole \in BOOLEAN /\ Sequence(f.episodes)
View(v) ==
  /\ v = [pc |-> v.pc, of |-> v.of, episode |-> v.episode, rows |-> v.rows, overlapped |-> v.overlapped]
  /\ v.pc \in {"rows", "shown", "lost"} /\ v.of \in Datasets /\ v.episode \in DOMAIN Layout[v.of] /\ v.overlapped \in BOOLEAN

StateOK == dataset \in [Names -> Sets]
LoadsOK == loads \in Seq(LoadsOf) /\ \A l \in DOMAIN loads : Assigning(l) => loads[l].of \in Datasets
ExportsOK == exports \in Seq(Requests) /\ Len(exports) <= MaxExports
FoldersOK ==
  /\ folders = [p \in Paths |-> folders[p]]
  /\ \A p \in Paths : Folder(folders[p])
ViewsOK == Sequence(views) /\ \A v \in DOMAIN views : View(views[v])
Types == StateOK /\ LoadsOK /\ ExportsOK /\ export \in Status /\ FoldersOK /\ ViewsOK /\ mingled \in BOOLEAN

\* The loaded data set: of one data set, or partly of the one that is being loaded.
One == \A part \in Names : dataset[part] = dataset["path"]
Half(l) ==
  \A j \in 1..4 : dataset[Parts[j]] = IF j < loads[l].next THEN loads[l].of ELSE dataset["by_index"]
LoadInv ==
  ~mingled =>
    /\ \A l, m \in DOMAIN loads : Assigning(l) /\ Assigning(m) => l = m
    /\ \A l \in DOMAIN loads : Assigning(l) => Half(l)
    /\ ~Assigns => One

\* A request that has begun has found a data set loaded, and one that may write knows which.
ReadyInv ==
  \A x \in DOMAIN exports :
    /\ exports[x].pc \in Begun => _require_loaded
    /\ exports[x].pc \in {"claim"} \cup Settled => exports[x].eps \in Datasets
    /\ exports[x].pc # "died" => exports[x].out \in Paths
\* What a request has read so far is of one data set, when no load came between.
SnapInv ==
  ~mingled => \A x \in DOMAIN exports : ~exports[x].overlapped =>
    /\ exports[x].pc \in {"info", "episodes"} => \A part \in Names : dataset[part] = exports[x].root
    /\ exports[x].pc \in {"episodes", "claim"} \cup Settled => exports[x].info = exports[x].root
    /\ exports[x].pc \in {"claim"} \cup Settled => exports[x].eps = exports[x].root
LookInv ==
  \A v \in DOMAIN views : ~mingled /\ ~views[v].overlapped /\ views[v].pc = "rows" => dataset["path"] = views[v].of

\* What is written of an episode is what the request has asked for.
Asks(x, ep) ==
  /\ ep.of \in DOMAIN Layout[exports[x].eps] /\ ~Skipped(x, ep.of)
  /\ DOMAIN ep.videos = 1..(KeptOf(x, ep.of).last - KeptOf(x, ep.of).first)
  /\ ep.videos = Videos_(x, ep.of) /\ ep.rows = Rows_(x, ep.of)
Content(p) == \A k \in DOMAIN folders[p].episodes : Asks(folders[p].by, folders[p].episodes[k])
\* The episodes before n that are not left out are there, each once.
Upto(p, n) ==
  /\ \A k \in DOMAIN folders[p].episodes : folders[p].episodes[k].of < n
  /\ \A k, m \in DOMAIN folders[p].episodes : folders[p].episodes[k].of = folders[p].episodes[m].of => k = m
  /\ \A i \in DOMAIN Layout[exports[folders[p].by].eps] :
       i < n /\ ~Skipped(folders[p].by, i) => \E k \in DOMAIN folders[p].episodes : folders[p].episodes[k].of = i

CountInv ==
  /\ export.progress <= export.total
  /\ \A x \in DOMAIN exports :
       /\ exports[x].pc \in Working =>
            export.total = Len(Layout[exports[x].eps]) /\ exports[x].at <= export.total + 1
       /\ exports[x].pc \in {"create", "episode"} => export.message # "done"
FreshInv == \A x \in DOMAIN exports : exports[x].pc \in Begun \cup {"claim", "create"} => exports[x].at = 1
Written(p) ==
  \/ folders[p].by = 0 /\ p \in Datasets
  \/ /\ folders[p].by \in DOMAIN exports /\ p \in NewPaths /\ exports[folders[p].by].out = p
     /\ exports[folders[p].by].pc \in {"episode", "reset", "ended"} /\ Content(p)
FolderInv ==
  /\ \A p \in Datasets : folders[p].by = 0
  /\ \A p \in Paths : folders[p] = Absent \/ Written(p)
WritesInv ==
  \A x \in DOMAIN exports : exports[x].pc = "episode" =>
    folders[exports[x].out].by = x /\ ~folders[exports[x].out].whole /\ Upto(exports[x].out, exports[x].at)
DoneInv ==
  export.message = "done" =>
    /\ export.out_path \in Paths /\ folders[export.out_path].whole /\ folders[export.out_path].by \in DOMAIN exports
    /\ export.progress = export.total
    /\ Upto(export.out_path, Len(Layout[exports[folders[export.out_path].by].eps]) + 1)

ReadInv == Types /\ LoadInv /\ ReadyInv /\ SnapInv /\ LookInv /\ FramesOfEpisode
WorkInv == OneWriter /\ CountInv /\ FreshInv /\ FolderInv /\ WritesInv /\ DoneInv
ExportInv == ReadInv /\ WorkInv

-----------------------------------------------------------------------------
(* Facts about the operators.                                              *)

LEMMA PartsAre ==
  /\ Len(Parts) = 4 /\ DOMAIN Parts = 1..4 /\ ToSet(Parts) = Names
  /\ Parts[1] = "path" /\ Parts[2] = "info" /\ Parts[3] = "episodes" /\ Parts[4] = "by_index"
BY DEF Parts, ToSet, Names

LEMMA LayoutIs ==
  ASSUME NEW d \in Datasets
  PROVE  /\ Len(Layout[d]) \in Nat /\ DOMAIN Layout[d] = 1..Len(Layout[d])
         /\ \A i \in DOMAIN Layout[d] : Layout[d][i].length \in Nat /\ Layout[d][i].from \in Nat
<1>1. Layout[d] \in Seq([length : Nat, file : Nat, from : Nat])
  BY DEF LayoutAssumption
<1>2. \A i \in 1..Len(Layout[d]) : Layout[d][i] \in [length : Nat, file : Nat, from : Nat]
  BY <1>1, ElementOfSeq
<1> QED BY <1>1, <1>2, LenProperties

\* A sequence that is made from another, one value for each.
LEMMA Rebuilt ==
  ASSUME NEW S, NEW s \in Seq(S), NEW T, NEW t, t = [i \in DOMAIN s |-> t[i]], \A i \in DOMAIN s : t[i] \in T
  PROVE  t \in Seq(T) /\ Len(t) = Len(s) /\ DOMAIN t = DOMAIN s
<1>1. Len(s) \in Nat /\ DOMAIN s = 1..Len(s)
  BY LenProperties
<1>2. t \in [1..Len(s) -> T]
  BY <1>1
<1>3. t \in Seq(T)
  BY <1>1, <1>2, SeqDef
<1>4. DOMAIN t = 1..Len(s) /\ DOMAIN t = 1..Len(t) /\ Len(t) \in Nat
  BY <1>2, <1>3, LenProperties
<1> QED BY <1>1, <1>3, <1>4

\* One of the rows of a sequence gets a new value.
LEMMA RowChanges ==
  ASSUME NEW S, NEW s \in Seq(S), NEW x \in DOMAIN s, NEW e \in S
  PROVE  /\ [s EXCEPT ![x] = e] \in Seq(S) /\ Len([s EXCEPT ![x] = e]) = Len(s)
         /\ DOMAIN [s EXCEPT ![x] = e] = DOMAIN s /\ [s EXCEPT ![x] = e][x] = e
         /\ \A y \in DOMAIN s \ {x} : [s EXCEPT ![x] = e][y] = s[y]
<1>1. DOMAIN s = 1..Len(s)
  BY LenProperties
<1> QED BY <1>1, ExceptSeq

\* One more row.
LEMMA RowAdded ==
  ASSUME NEW S, NEW s \in Seq(S), NEW e \in S
  PROVE  /\ Append(s, e) \in Seq(S) /\ DOMAIN Append(s, e) = DOMAIN s \cup {Len(s) + 1} /\ Len(Append(s, e)) = Len(s) + 1
         /\ Append(s, e)[Len(s) + 1] = e /\ (\A y \in DOMAIN s : Append(s, e)[y] = s[y]) /\ Len(s) + 1 \notin DOMAIN s
<1>1. DOMAIN s = 1..Len(s) /\ Len(s) \in Nat
  BY LenProperties
<1>2. DOMAIN Append(s, e) = 1..Len(s) + 1
  BY AppendProperties, LenProperties
<1> QED BY <1>1, <1>2, AppendProperties

LEMMA LenIs ==
  ASSUME NEW s, NEW n \in Nat, DOMAIN s = 1..n PROVE Len(s) = n
OBVIOUS

LEMMA SequenceGrows ==
  ASSUME NEW s, Sequence(s), NEW e
  PROVE  /\ Sequence(Append(s, e)) /\ DOMAIN Append(s, e) = DOMAIN s \cup {Len(s) + 1}
         /\ Append(s, e)[Len(s) + 1] = e /\ (\A y \in DOMAIN s : Append(s, e)[y] = s[y]) /\ Len(s) + 1 \notin DOMAIN s
<1>1. PICK S : s \in Seq(S)
  BY DEF Sequence
<1>2. s \in Seq(S \cup {e})
  BY <1>1, SeqMonotonic
<1> QED BY <1>2, RowAdded DEF Sequence

LEMMA SequenceRebuilt ==
  ASSUME NEW s, Sequence(s), NEW t, t = [i \in DOMAIN s |-> t[i]]
  PROVE  Sequence(t) /\ DOMAIN t = DOMAIN s
<1>1. PICK S : s \in Seq(S)
  BY DEF Sequence
<1> DEFINE T == {t[i] : i \in DOMAIN s}
<1>2. \A i \in DOMAIN s : t[i] \in T
  OBVIOUS
<1> HIDE DEF T
<1> QED BY <1>1, <1>2, Rebuilt DEF Sequence

\* The rows of the requests to export.
LEMMA RequestIs ==
  ASSUME ExportsOK, NEW x \in DOMAIN exports PROVE exports[x] \in Requests
<1>1. DOMAIN exports = 1..Len(exports)
  BY LenProperties DEF ExportsOK
<1> QED BY <1>1, ElementOfSeq DEF ExportsOK
LEMMA RequestFields ==
  ASSUME ExportsOK, NEW x \in DOMAIN exports
  PROVE  /\ exports[x].pc \in Pcs /\ exports[x].out \in Paths \cup {NoData} /\ exports[x].trims \in TrimChoices \cup {<<>>}
         /\ exports[x].root \in Sets /\ exports[x].info \in Sets /\ exports[x].eps \in Sets
         /\ exports[x].at \in Nat \ {0} /\ exports[x].overlapped \in BOOLEAN
BY RequestIs DEF Requests

LEMMA LoadIs ==
  ASSUME LoadsOK, NEW l \in DOMAIN loads
  PROVE  loads[l] \in LoadsOf /\ loads[l].of \in Sets /\ loads[l].next \in 1..5 /\ (Assigning(l) <=> loads[l].next \in 1..4)
<1>1. DOMAIN loads = 1..Len(loads)
  BY LenProperties DEF LoadsOK
<1>2. loads[l] \in LoadsOf
  BY <1>1, ElementOfSeq DEF LoadsOK
<1> QED BY <1>2, PartsAre DEF LoadsOf, Assigning

LEMMA StatusFields ==
  export \in Status => /\ export.running \in BOOLEAN /\ export.progress \in Nat /\ export.total \in Nat
    /\ export.message \in {"", "starting", "episode", "done", "failed"} /\ export.error \in BOOLEAN
    /\ export.out_path \in Paths \cup {NoData}
BY DEF Status

-----------------------------------------------------------------------------
(* What the steps do to the requests.                                      *)

Others(x) ==
  DOMAIN exports' = DOMAIN exports /\ \A y \in DOMAIN exports \ {x} : exports'[y] = exports[y]
\* The request goes on and keeps what it has read.
Goes(x, pc) ==
  /\ Others(x) /\ ExportsOK' /\ exports'[x].pc = pc
  /\ exports'[x].out = exports[x].out /\ exports'[x].trims = exports[x].trims /\ exports'[x].root = exports[x].root
  /\ exports'[x].info = exports[x].info /\ exports'[x].eps = exports[x].eps
  /\ exports'[x].overlapped = exports[x].overlapped
Ends(x) == Others(x) /\ ExportsOK' /\ exports'[x].pc = "died"

LEMMA NowGoes ==
  ASSUME ExportsOK, NEW x \in DOMAIN exports, NEW pc \in Pcs, Now(x, pc)
  PROVE  Goes(x, pc) /\ exports'[x].at = exports[x].at
<1>1. [exports[x] EXCEPT !.pc = pc] \in Requests
  BY RequestIs DEF Requests
<1>2. exports' = [exports EXCEPT ![x] = [exports[x] EXCEPT !.pc = pc]]
  BY DEF Now
<1>3. /\ exports' \in Seq(Requests) /\ Len(exports') = Len(exports)
      /\ DOMAIN exports' = DOMAIN exports /\ exports'[x] = [exports[x] EXCEPT !.pc = pc]
      /\ \A y \in DOMAIN exports \ {x} : exports'[y] = exports[y]
  BY <1>1, <1>2, RowChanges DEF ExportsOK
<1>4. exports[x] = [pc |-> exports[x].pc, out |-> exports[x].out, trims |-> exports[x].trims, root |-> exports[x].root,
        info |-> exports[x].info, eps |-> exports[x].eps, at |-> exports[x].at, overlapped |-> exports[x].overlapped]
  BY RequestIs DEF Requests
<1>5. exports'[x] = [pc |-> pc, out |-> exports[x].out, trims |-> exports[x].trims, root |-> exports[x].root,
        info |-> exports[x].info, eps |-> exports[x].eps, at |-> exports[x].at, overlapped |-> exports[x].overlapped]
  BY <1>3, <1>4
<1>6. ExportsOK'
  BY <1>3 DEF ExportsOK, Requests, Sets, Pcs, Paths
<1> QED BY <1>3, <1>5, <1>6 DEF Goes, Others

LEMMA OnwardGoes ==
  ASSUME ExportsOK, NEW x \in DOMAIN exports, Onward(x)
  PROVE  Goes(x, exports[x].pc) /\ exports'[x].at = exports[x].at + 1
<1>1. [exports[x] EXCEPT !.at = exports[x].at + 1] \in Requests
  BY RequestIs DEF Requests
<1>2. exports' = [exports EXCEPT ![x] = [exports[x] EXCEPT !.at = exports[x].at + 1]]
  BY DEF Onward
<1>3. /\ exports' \in Seq(Requests) /\ Len(exports') = Len(exports)
      /\ DOMAIN exports' = DOMAIN exports /\ exports'[x] = [exports[x] EXCEPT !.at = exports[x].at + 1]
      /\ \A y \in DOMAIN exports \ {x} : exports'[y] = exports[y]
  BY <1>1, <1>2, RowChanges DEF ExportsOK
<1>4. exports[x] = [pc |-> exports[x].pc, out |-> exports[x].out, trims |-> exports[x].trims, root |-> exports[x].root,
        info |-> exports[x].info, eps |-> exports[x].eps, at |-> exports[x].at, overlapped |-> exports[x].overlapped]
  BY RequestIs DEF Requests
<1>5. exports'[x] = [pc |-> exports[x].pc, out |-> exports[x].out, trims |-> exports[x].trims, root |-> exports[x].root,
        info |-> exports[x].info, eps |-> exports[x].eps, at |-> exports[x].at + 1, overlapped |-> exports[x].overlapped]
  BY <1>3, <1>4
<1>6. ExportsOK'
  BY <1>3 DEF ExportsOK, Requests, Sets, Pcs, Paths
<1> QED BY <1>3, <1>5, <1>6 DEF Goes, Others

\* A request that has ended is as one that was never asked.
LEMMA OverIs == Over \in Requests /\ Over.pc = "died"
<1>1. PICK r : r = [pc |-> "compare", out |-> NoData, trims |-> <<>>, root |-> NoData, info |-> NoData, eps |-> NoData,
        at |-> 1, overlapped |-> FALSE]
  OBVIOUS
<1>2. Over = [r EXCEPT !.pc = "died"]
  BY <1>1 DEF Over, Asked
<1>3. Over = [pc |-> "died", out |-> NoData, trims |-> <<>>, root |-> NoData, info |-> NoData, eps |-> NoData,
        at |-> 1, overlapped |-> FALSE]
  BY <1>1, <1>2
<1> QED BY <1>3 DEF Requests, Pcs, Sets

LEMMA LeaveEnds ==
  ASSUME ExportsOK, NEW x \in DOMAIN exports, Vanish(x)
  PROVE  Ends(x)
<1>1. /\ exports' \in Seq(Requests) /\ Len(exports') = Len(exports)
      /\ DOMAIN exports' = DOMAIN exports /\ exports'[x] = Over
      /\ \A y \in DOMAIN exports \ {x} : exports'[y] = exports[y]
  BY OverIs, RowChanges DEF ExportsOK, Vanish
<1>2. ExportsOK'
  BY <1>1 DEF ExportsOK, Requests, Sets, Pcs, Paths
<1> QED BY <1>1, <1>2, OverIs DEF Ends, Others

\* The fields of a request that a step replaces.
LEMMA PcReplaced ==
  ASSUME NEW r \in Requests, NEW a \in Pcs, NEW n, n = [r EXCEPT !.pc = a]
  PROVE  /\ n \in Requests /\ n.pc = a /\ n.out = r.out /\ n.at = r.at /\ n.trims = r.trims /\ n.root = r.root /\ n.info = r.info
         /\ n.eps = r.eps /\ n.overlapped = r.overlapped
BY DEF Requests

\* What a step of a request that reads the loaded data set does to it.
Reads(x, pc) ==
  /\ Others(x) /\ ExportsOK' /\ exports'[x].pc = pc /\ exports'[x].out = exports[x].out
  /\ exports'[x].at = exports[x].at
LEMMA RootReads ==
  ASSUME ExportsOK, StateOK, NEW x \in DOMAIN exports, TakeRoot(x)
  PROVE  /\ Reads(x, "info") /\ exports'[x].root = dataset["path"] /\ exports'[x].overlapped = Assigns
<1>0. dataset.path = dataset["path"] /\ dataset["path"] \in Sets /\ Assigns \in BOOLEAN
  BY DEF StateOK, Names, Assigns
<1>1. PICK n : n = [exports[x] EXCEPT !.pc = "info", !.root = dataset.path, !.overlapped = Assigns]
  OBVIOUS
<1>2. exports' = [exports EXCEPT ![x] = n]
  BY <1>1 DEF TakeRoot
<1>3. {"info", "episodes", "claim"} \subseteq Pcs /\ exports[x] \in Requests
  BY RequestIs DEF Pcs, Begun
<1>5. n \in Requests /\ n.pc = "info" /\ n.out = exports[x].out /\ n.at = exports[x].at /\ n.root = dataset["path"] /\ n.overlapped = Assigns
  <2>1. PICK r : r = exports[x]
    OBVIOUS
  <2>2. PICK b : b = dataset["path"]
    OBVIOUS
  <2>c. PICK c : c = Assigns
    OBVIOUS
  <2>3. r \in Requests /\ b \in Sets /\ "info" \in Pcs /\ c \in BOOLEAN /\ n = [r EXCEPT !.pc = "info", !.root = b, !.overlapped = c]
    BY <1>0, <1>1, <1>3, <2>1, <2>2, <2>c
  <2>4. n \in Requests /\ n.pc = "info" /\ n.out = r.out /\ n.at = r.at /\ n.root = b /\ n.overlapped = c
    BY <2>3 DEF Requests
  <2> QED BY <2>1, <2>2, <2>4, <2>c
<1>4. /\ exports' \in Seq(Requests) /\ Len(exports') = Len(exports) /\ DOMAIN exports' = DOMAIN exports /\ exports'[x] = n
      /\ \A y \in DOMAIN exports \ {x} : exports'[y] = exports[y]
  BY <1>2, <1>5, RowChanges DEF ExportsOK
<1>6. ExportsOK'
  BY <1>4 DEF ExportsOK
<1> QED BY <1>4, <1>5, <1>6 DEF Reads, Others
LEMMA InfoReads ==
  ASSUME ExportsOK, StateOK, NEW x \in DOMAIN exports, TakeInfo(x)
  PROVE  /\ Reads(x, "episodes") /\ exports'[x].info = dataset["info"]
         /\ exports'[x].root = exports[x].root /\ exports'[x].overlapped = exports[x].overlapped
<1>0. dataset.info = dataset["info"] /\ dataset["info"] \in Sets
  BY DEF StateOK, Names
<1>1. PICK n : n = [exports[x] EXCEPT !.pc = "episodes", !.info = dataset.info]
  OBVIOUS
<1>2. exports' = [exports EXCEPT ![x] = n]
  BY <1>1 DEF TakeInfo
<1>3. {"info", "episodes", "claim"} \subseteq Pcs /\ exports[x] \in Requests
  BY RequestIs DEF Pcs, Begun
<1>5. n \in Requests /\ n.pc = "episodes" /\ n.out = exports[x].out /\ n.at = exports[x].at /\ n.root = exports[x].root /\ n.info = dataset["info"] /\ n.overlapped = exports[x].overlapped
  <2>1. PICK r : r = exports[x]
    OBVIOUS
  <2>2. PICK b : b = dataset["info"]
    OBVIOUS
  <2>3. r \in Requests /\ b \in Sets /\ "episodes" \in Pcs /\ n = [r EXCEPT !.pc = "episodes", !.info = b]
    BY <1>0, <1>1, <1>3, <2>1, <2>2
  <2>4. n \in Requests /\ n.pc = "episodes" /\ n.out = r.out /\ n.at = r.at /\ n.root = r.root /\ n.info = b /\ n.overlapped = r.overlapped
    BY <2>3 DEF Requests
  <2> QED BY <2>1, <2>2, <2>4
<1>4. /\ exports' \in Seq(Requests) /\ Len(exports') = Len(exports) /\ DOMAIN exports' = DOMAIN exports /\ exports'[x] = n
      /\ \A y \in DOMAIN exports \ {x} : exports'[y] = exports[y]
  BY <1>2, <1>5, RowChanges DEF ExportsOK
<1>6. ExportsOK'
  BY <1>4 DEF ExportsOK
<1> QED BY <1>4, <1>5, <1>6 DEF Reads, Others
LEMMA EpisodesReads ==
  ASSUME ExportsOK, StateOK, NEW x \in DOMAIN exports, TakeEpisodes(x)
  PROVE  /\ Reads(x, "claim") /\ exports'[x].eps = dataset["episodes"] /\ exports'[x].info = exports[x].info
         /\ exports'[x].root = exports[x].root /\ exports'[x].overlapped = exports[x].overlapped
<1>0. dataset.episodes = dataset["episodes"] /\ dataset["episodes"] \in Sets
  BY DEF StateOK, Names
<1>1. PICK n : n = [exports[x] EXCEPT !.pc = "claim", !.eps = dataset.episodes]
  OBVIOUS
<1>2. exports' = [exports EXCEPT ![x] = n]
  BY <1>1 DEF TakeEpisodes
<1>3. {"info", "episodes", "claim"} \subseteq Pcs /\ exports[x] \in Requests
  BY RequestIs DEF Pcs, Begun
<1>5. n \in Requests /\ n.pc = "claim" /\ n.out = exports[x].out /\ n.at = exports[x].at /\ n.root = exports[x].root /\ n.info = exports[x].info
      /\ n.eps = dataset["episodes"] /\ n.overlapped = exports[x].overlapped
  <2>1. PICK r : r = exports[x]
    OBVIOUS
  <2>2. PICK b : b = dataset["episodes"]
    OBVIOUS
  <2>3. r \in Requests /\ b \in Sets /\ "claim" \in Pcs /\ n = [r EXCEPT !.pc = "claim", !.eps = b]
    BY <1>0, <1>1, <1>3, <2>1, <2>2
  <2>4. n \in Requests /\ n.pc = "claim" /\ n.out = r.out /\ n.at = r.at /\ n.root = r.root /\ n.info = r.info
      /\ n.eps = b /\ n.overlapped = r.overlapped
    BY <2>3 DEF Requests
  <2> QED BY <2>1, <2>2, <2>4
<1>4. /\ exports' \in Seq(Requests) /\ Len(exports') = Len(exports) /\ DOMAIN exports' = DOMAIN exports /\ exports'[x] = n
      /\ \A y \in DOMAIN exports \ {x} : exports'[y] = exports[y]
  BY <1>2, <1>5, RowChanges DEF ExportsOK
<1>6. ExportsOK'
  BY <1>4 DEF ExportsOK
<1> QED BY <1>4, <1>5, <1>6 DEF Reads, Others

LEMMA AskAdds ==
  ASSUME ExportsOK, NEW out \in Targets, NEW trims \in TrimChoices, AskExport(out, trims)
  PROVE  /\ ExportsOK' /\ DOMAIN exports' = DOMAIN exports \cup {Len(exports) + 1}
         /\ exports'[Len(exports) + 1].pc = "compare" /\ exports'[Len(exports) + 1].out = out
         /\ exports'[Len(exports) + 1].overlapped = FALSE /\ exports'[Len(exports) + 1].at = 1
         /\ (\A y \in DOMAIN exports : exports'[y] = exports[y]) /\ Len(exports) + 1 \notin DOMAIN exports
<1>1. Asked(out, trims) \in Requests /\ Asked(out, trims).pc = "compare" /\ Asked(out, trims).out = out
      /\ Asked(out, trims).overlapped = FALSE /\ Asked(out, trims).at = 1
  BY DEF Asked, Requests, Pcs, Begun, Sets, Paths, PathsAssumption
<1>2. /\ exports' \in Seq(Requests) /\ DOMAIN exports' = DOMAIN exports \cup {Len(exports) + 1} /\ Len(exports') = Len(exports) + 1
      /\ exports'[Len(exports) + 1] = Asked(out, trims) /\ (\A y \in DOMAIN exports : exports'[y] = exports[y])
      /\ Len(exports) + 1 \notin DOMAIN exports
  BY <1>1, RowAdded DEF AskExport, ExportsOK
<1>3. Len(exports) < MaxExports /\ MaxExports \in Nat /\ Len(exports) \in Nat
  BY LenProperties DEF AskExport, LayoutAssumption, ExportsOK
<1>4. ExportsOK'
  BY <1>2, <1>3 DEF ExportsOK, Requests, Sets, Pcs, Paths
<1> QED BY <1>1, <1>2, <1>4

\* A load marks the requests that read at the time.
Marked(x) ==
  /\ exports'[x].pc = exports[x].pc /\ exports'[x].out = exports[x].out /\ exports'[x].root = exports[x].root
  /\ exports'[x].info = exports[x].info /\ exports'[x].eps = exports[x].eps
  /\ exports'[x].overlapped = (exports[x].overlapped \/ Snapping(x)) /\ exports'[x].at = exports[x].at
  /\ ~Snapping(x) => exports'[x] = exports[x]
LEMMA AssignMarks ==
  ASSUME ExportsOK, NEW l, AssignBegun(l)
  PROVE  ExportsOK' /\ DOMAIN exports' = DOMAIN exports /\ \A x \in DOMAIN exports : Marked(x)
<1>1. exports' = [x \in DOMAIN exports |-> IF Snapping(x) THEN [exports[x] EXCEPT !.overlapped = TRUE] ELSE exports[x]]
  BY DEF AssignBegun
<1>2. \A x \in DOMAIN exports : exports'[x] = IF Snapping(x) THEN [exports[x] EXCEPT !.overlapped = TRUE] ELSE exports[x]
  BY <1>1
<1>3. ASSUME NEW x \in DOMAIN exports PROVE exports'[x] \in Requests /\ Marked(x)
  <2>1. exports[x] \in Requests
    BY RequestIs
  <2>3. CASE Snapping(x)
    <3>1. PICK n : n = [exports[x] EXCEPT !.overlapped = TRUE]
      OBVIOUS
    <3>2. exports'[x] = n
      BY <1>2, <2>3, <3>1
    <3>3. PICK r : r = exports[x]
      OBVIOUS
    <3>4. n \in Requests /\ n.pc = r.pc /\ n.out = r.out /\ n.at = r.at /\ n.root = r.root /\ n.info = r.info /\ n.eps = r.eps /\ n.overlapped = TRUE
      BY <2>1, <3>1, <3>3 DEF Requests
    <3> QED BY <2>3, <3>2, <3>3, <3>4 DEF Marked
  <2>4. CASE ~Snapping(x)
    <3>1. exports'[x] = exports[x]
      BY <1>2, <2>4
    <3> QED BY <2>4, <3>1, RequestIs, RequestFields DEF Marked
  <2> QED BY <2>3, <2>4
<1>4. exports' = [i \in DOMAIN exports |-> exports'[i]]
  BY <1>1
<1>5. exports' \in Seq(Requests) /\ Len(exports') = Len(exports) /\ DOMAIN exports' = DOMAIN exports
  BY <1>3, <1>4, Rebuilt DEF ExportsOK
<1>6. ExportsOK'
  BY <1>5 DEF ExportsOK, Requests, Sets, Pcs, Paths
<1> QED BY <1>3, <1>5, <1>6

\* The end of the process ends every request; what has been written stays.
Stopped(x) ==
  \/ /\ exports[x].pc \in Settled /\ exports'[x].pc = "ended" /\ exports'[x].out = exports[x].out
     /\ exports'[x].trims = exports[x].trims /\ exports'[x].root = exports[x].root /\ exports'[x].info = exports[x].info
     /\ exports'[x].eps = exports[x].eps /\ exports'[x].overlapped = exports[x].overlapped
  \/ exports[x].pc \notin Settled /\ exports'[x].pc = "died"
LEMMA CrashStops ==
  ASSUME ExportsOK, Crash
  PROVE  ExportsOK' /\ DOMAIN exports' = DOMAIN exports /\ \A x \in DOMAIN exports : Stopped(x)
<1>1. exports' = [x \in DOMAIN exports |-> IF exports[x].pc \in Settled THEN [exports[x] EXCEPT !.pc = "ended"] ELSE Over]
  BY DEF Crash, Settled
<1>2. \A x \in DOMAIN exports : exports'[x] = IF exports[x].pc \in Settled THEN [exports[x] EXCEPT !.pc = "ended"] ELSE Over
  BY <1>1
<1>3. ASSUME NEW x \in DOMAIN exports PROVE exports'[x] \in Requests /\ Stopped(x)
  <2>1. exports[x] \in Requests
    BY RequestIs
  <2>3. CASE exports[x].pc \in Settled
    <3>1. PICK n : n = [exports[x] EXCEPT !.pc = "ended"]
      OBVIOUS
    <3>2. exports'[x] = n
      BY <1>2, <2>3, <3>1
    <3>3. "ended" \in Pcs
      BY DEF Pcs
    <3>4. /\ n \in Requests /\ n.pc = "ended" /\ n.out = exports[x].out /\ n.trims = exports[x].trims
          /\ n.root = exports[x].root /\ n.info = exports[x].info /\ n.eps = exports[x].eps
          /\ n.overlapped = exports[x].overlapped
      BY <2>1, <3>1, <3>3, PcReplaced
    <3> QED BY <2>3, <3>2, <3>4 DEF Stopped
  <2>4. CASE exports[x].pc \notin Settled
    <3>1. exports'[x] = Over
      BY <1>2, <2>4
    <3> QED BY <2>4, <3>1, OverIs DEF Stopped
  <2> QED BY <2>3, <2>4
<1>4. exports' = [i \in DOMAIN exports |-> exports'[i]]
  BY <1>1
<1>5. exports' \in Seq(Requests) /\ Len(exports') = Len(exports) /\ DOMAIN exports' = DOMAIN exports
  BY <1>3, <1>4, Rebuilt DEF ExportsOK
<1>6. ExportsOK'
  BY <1>5 DEF ExportsOK, Requests, Sets, Pcs, Paths
<1> QED BY <1>3, <1>5, <1>6

-----------------------------------------------------------------------------
(* The loaded data set.                                                    *)

LEMMA LoadAdds ==
  ASSUME LoadsOK, NEW d \in Datasets, Load(d)
  PROVE  /\ LoadsOK' /\ DOMAIN loads' = DOMAIN loads \cup {Len(loads) + 1} /\ Len(loads) + 1 \notin DOMAIN loads
         /\ loads'[Len(loads) + 1].of = d /\ loads'[Len(loads) + 1].next = 1
         /\ \A m \in DOMAIN loads : loads'[m] = loads[m]
<1>1. [of |-> d, next |-> 1] \in LoadsOf
  BY DEF LoadsOf, Sets
<1>2. loads' = Append(loads, [of |-> d, next |-> 1]) /\ loads \in Seq(LoadsOf)
  BY DEF Load, LoadsOK
<1>3. /\ loads' \in Seq(LoadsOf) /\ DOMAIN loads' = DOMAIN loads \cup {Len(loads) + 1} /\ Len(loads) + 1 \notin DOMAIN loads
      /\ loads'[Len(loads) + 1] = [of |-> d, next |-> 1] /\ \A m \in DOMAIN loads : loads'[m] = loads[m]
  BY <1>1, <1>2, RowAdded
<1>4. LoadsOK'
  BY <1>3 DEF LoadsOK, Assigning
<1> QED BY <1>3, <1>4

LEMMA AssignDoes ==
  ASSUME LoadsOK, NEW l \in DOMAIN loads, AssignBegun(l)
  PROVE  /\ LoadsOK' /\ DOMAIN loads' = DOMAIN loads /\ loads[l].next \in 1..4 /\ loads'[l].next = loads[l].next + 1
         /\ loads[l].next < 4 => loads'[l].of = loads[l].of
         /\ \A m \in DOMAIN loads \ {l} : loads'[m] = loads[m]
<1>1. loads[l].of \in Datasets /\ loads[l].next \in 1..4
  BY LoadIs DEF LoadsOK, AssignBegun
<1> DEFINE e == IF loads[l].next = 4 THEN Loaded ELSE [of |-> loads[l].of, next |-> loads[l].next + 1]
<1>2. e \in LoadsOf /\ e.next = loads[l].next + 1 /\ (loads[l].next < 4 => e.of = loads[l].of) /\ (e.next # 5 => e.of \in Datasets)
  BY <1>1, PartsAre DEF LoadsOf, Loaded, Sets
<1>3. loads' = [loads EXCEPT ![l] = e]
  BY PartsAre DEF AssignBegun
<1> HIDE DEF e
<1>4. /\ loads' \in Seq(LoadsOf) /\ DOMAIN loads' = DOMAIN loads /\ loads'[l] = e
      /\ \A m \in DOMAIN loads \ {l} : loads'[m] = loads[m]
  BY <1>2, <1>3, RowChanges DEF LoadsOK
<1>5. \A m \in DOMAIN loads' : Assigning(m)' => loads'[m].of \in Datasets
  BY <1>2, <1>4, PartsAre DEF Assigning, LoadsOK
<1>6. LoadsOK'
  BY <1>4, <1>5 DEF LoadsOK
<1> QED BY <1>1, <1>2, <1>4, <1>6

LEMMA CrashLoads ==
  ASSUME LoadsOK, Crash
  PROVE  LoadsOK' /\ ~Assigns' /\ One' /\ StateOK' /\ \A l \in DOMAIN loads' : ~Assigning(l)'
<1>1. Loaded \in LoadsOf /\ Loaded.next = 5
  BY PartsAre DEF Loaded, LoadsOf, Sets
<1>2. loads' = [l \in DOMAIN loads |-> Loaded] /\ \A l \in DOMAIN loads : loads'[l] = Loaded
  BY DEF Crash
<1>3. loads' = [l \in DOMAIN loads |-> loads'[l]]
  BY <1>2
<1>4. loads' \in Seq(LoadsOf) /\ DOMAIN loads' = DOMAIN loads
  BY <1>1, <1>2, <1>3, Rebuilt DEF LoadsOK
<1>5. \A l \in DOMAIN loads' : ~Assigning(l)'
  BY <1>1, <1>2, <1>4, PartsAre DEF Assigning
<1>6. dataset' = [part \in Names |-> NoData]
  BY PartsAre DEF Crash, Unloaded
<1>7. One' /\ StateOK'
  BY <1>6 DEF One, StateOK, Names, Sets
<1>8. LoadsOK' /\ ~Assigns'
  BY <1>4, <1>5 DEF LoadsOK, Assigns
<1> QED BY <1>5, <1>7, <1>8

\* One part of the loaded data set changes at a time.
LEMMA AssignState ==
  ASSUME StateOK, LoadsOK, NEW l \in DOMAIN loads, Assign(l)
  PROVE  /\ StateOK' /\ loads[l].next \in 1..4
         /\ \A j \in 1..4 : dataset'[Parts[j]] = IF j = loads[l].next THEN loads[l].of ELSE dataset[Parts[j]]
<1>1. loads[l].next \in 1..4 /\ loads[l].of \in Sets
  BY LoadIs DEF Assign, AssignBegun
<1>2. dataset' = [dataset EXCEPT ![Parts[loads[l].next]] = loads[l].of]
  BY DEF Assign
<1>3. \A j \in 1..4 : Parts[j] \in Names /\ \A k \in 1..4 : Parts[j] = Parts[k] => j = k
  BY PartsAre DEF Names
<1>4. StateOK'
  BY <1>1, <1>2, <1>3 DEF StateOK
<1> QED BY <1>1, <1>2, <1>3, <1>4 DEF StateOK

LEMMA NamesParts == Names = {Parts[j] : j \in 1..4} /\ Parts[4] = "by_index" /\ Parts[1] = "path"
BY PartsAre DEF Names

\* Loads that do not overlap leave one data set loaded.
LEMMA LoadStep == Types /\ LoadInv /\ ExportNext => LoadInv' /\ StateOK' /\ LoadsOK' /\ (mingled => mingled')
<1> SUFFICES ASSUME Types, LoadInv, ExportNext PROVE LoadInv' /\ StateOK' /\ LoadsOK' /\ (mingled => mingled')
  OBVIOUS
<1>0. StateOK /\ LoadsOK
  BY DEF Types
<1>1. CASE Handlers \/ \E x \in DOMAIN exports : Thread(x)
  <2>1. UNCHANGED <<dataset, loads, mingled>>
    BY <1>1 DEF Handlers, Thread, episode_frames, ReadFrames, AskExport, Compare, TakeRoot, TakeInfo, TakeEpisodes,
       PrepareFails, Claim, Create, SkipEpisode, WriteEpisode, Finalize, Fails, Reset, Outside
  <2> QED BY <1>0, <2>1 DEF LoadInv, StateOK, LoadsOK, Assigning, Half, Assigns, One
<1>2. ASSUME NEW d \in Datasets, Load(d) PROVE LoadInv' /\ StateOK' /\ LoadsOK' /\ (mingled => mingled')
  <2>1. /\ LoadsOK' /\ DOMAIN loads' = DOMAIN loads \cup {Len(loads) + 1} /\ Len(loads) + 1 \notin DOMAIN loads
        /\ loads'[Len(loads) + 1].of = d /\ loads'[Len(loads) + 1].next = 1
        /\ \A m \in DOMAIN loads : loads'[m] = loads[m]
    BY <1>0, <1>2, LoadAdds
  <2>2. dataset' = dataset /\ (mingled' <=> (mingled \/ \E k \in DOMAIN loads : Assigning(k)))
    BY <1>2 DEF Load
  <2>3. ASSUME ~mingled' PROVE ~mingled /\ One /\ \A k \in DOMAIN loads : ~Assigning(k)
    BY <2>2, <2>3 DEF LoadInv, Assigns
  <2>4. \A k \in DOMAIN loads : Assigning(k)' <=> Assigning(k)
    BY <2>1 DEF Assigning
  <2>5. Assigns'
    BY <2>1, PartsAre DEF Assigns, Assigning
  <2>n. PICK n : n = Len(loads) + 1
    OBVIOUS
  <2>6. ASSUME ~mingled' PROVE Half(n)'
    <3>1. \A part \in Names : dataset[part] = dataset["path"]
      BY <2>3, <2>6 DEF One
    <3>2. \A j \in 1..4 : dataset[Parts[j]] = dataset["by_index"]
      BY <3>1, NamesParts
    <3>3. loads'[n].next = 1
      BY <2>1, <2>n
    <3> QED BY <2>2, <3>2, <3>3 DEF Half
  <2>7. \A m \in DOMAIN loads' : m # n => m \in DOMAIN loads
    BY <2>1, <2>n
  <2>8. ASSUME ~mingled' PROVE \A m \in DOMAIN loads' : Assigning(m)' => m = n
    BY <2>3, <2>4, <2>7, <2>8
  <2>9. LoadInv'
    BY <2>5, <2>6, <2>8 DEF LoadInv
  <2> QED BY <1>0, <2>1, <2>2, <2>9 DEF StateOK
<1>3. ASSUME NEW l \in DOMAIN loads, Assign(l) PROVE LoadInv' /\ StateOK' /\ LoadsOK' /\ (mingled => mingled')
  <2>0. AssignBegun(l) /\ mingled' = mingled /\ Assigning(l)
    BY <1>3 DEF Assign, AssignBegun
  <2>1. /\ LoadsOK' /\ DOMAIN loads' = DOMAIN loads /\ loads[l].next \in 1..4 /\ loads'[l].next = loads[l].next + 1
        /\ loads[l].next < 4 => loads'[l].of = loads[l].of
        /\ \A m \in DOMAIN loads \ {l} : loads'[m] = loads[m]
    BY <1>0, <2>0, AssignDoes
  <2>2. /\ StateOK' /\ \A j \in 1..4 : dataset'[Parts[j]] = IF j = loads[l].next THEN loads[l].of ELSE dataset[Parts[j]]
    BY <1>0, <1>3, AssignState
  <2>3. SUFFICES ASSUME ~mingled' PROVE LoadInv'
    BY <2>0, <2>1, <2>2 DEF LoadInv
  <2>4. Half(l) /\ \A m \in DOMAIN loads : Assigning(m) => m = l
    BY <2>0, <2>3 DEF LoadInv
  <2>5. \A m \in DOMAIN loads' : Assigning(m)' => m = l /\ loads[l].next < 4
    BY <2>1, <2>4, PartsAre DEF Assigning
  <2>6. CASE loads[l].next < 4
    <3>1. dataset'["by_index"] = dataset["by_index"]
      BY <2>2, <2>6, NamesParts
    <3>2. Half(l)'
      BY <2>1, <2>2, <2>4, <2>6, <3>1 DEF Half
    <3>3. Assigns'
      BY <2>1, <2>6, PartsAre DEF Assigns, Assigning
    <3> QED BY <2>5, <3>2, <3>3 DEF LoadInv
  <2>7. CASE loads[l].next = 4
    <3>1. \A j \in 1..4 : dataset'[Parts[j]] = loads[l].of
      BY <2>2, <2>4, <2>7 DEF Half
    <3>2. One'
      BY <3>1, NamesParts DEF One
    <3> QED BY <2>5, <2>7, <3>2 DEF LoadInv
  <2> QED BY <2>1, <2>6, <2>7
<1>4. CASE Crash
  <2>1. mingled' = mingled
    BY <1>4 DEF Crash
  <2> QED BY <1>0, <1>4, <2>1, CrashLoads DEF LoadInv
<1> QED BY <1>1, <1>2, <1>3, <1>4 DEF ExportNext, Loader

-----------------------------------------------------------------------------
(* The frames that are shown.                                              *)

\* A view is of some data set, and shows that one when no load came between.
Looks(v) == ~mingled /\ ~views[v].overlapped /\ views[v].pc = "rows" => dataset["path"] = views[v].of
Frames(v) ==
  Shown(v) /\ 1 \in DOMAIN OwnFrames(v) =>
    (views[v].rows = OwnFrames(v) <=> Base(views[v].of, Layout[views[v].of][views[v].episode].file) = 0)
Fine(v) == View(views[v]) /\ Looks(v) /\ Frames(v)
LEMMA FineIs == (\A v \in DOMAIN views : Fine(v)) <=> ((\A v \in DOMAIN views : View(views[v])) /\ LookInv /\ FramesOfEpisode)
<1>1. (\A v \in DOMAIN views : Looks(v)) <=> LookInv
  BY DEF Looks, LookInv
<1>2. (\A v \in DOMAIN views : Frames(v)) <=> FramesOfEpisode
  BY DEF Frames, FramesOfEpisode
<1>3. (\A v \in DOMAIN views : Fine(v)) <=>
        (\A v \in DOMAIN views : View(views[v])) /\ (\A v \in DOMAIN views : Looks(v)) /\ (\A v \in DOMAIN views : Frames(v))
  BY DEF Fine
<1> QED BY <1>1, <1>2, <1>3

\* A set of numbers that is not empty has a smallest one.
Below == {ss \in Nat \X Nat : ss[1] < ss[2]}
LEMMA BelowWellFounded == IsWellFoundedOn(Below, Nat)
BY NatLessThanWellFounded DEF OpToRel, Below
LEMMA Smallest ==
  ASSUME NEW S \in SUBSET Nat, S # {}
  PROVE  Min(S) \in S
<1>1. PICK x \in S : \A y \in S : ~(<<y, x>> \in Below)
  BY BelowWellFounded, WFMin
<1>2. \A y \in S : ~(y < x)
  BY <1>1 DEF Below
<1>3. \A y \in S : x <= y
  BY <1>2
<1> QED BY <1>3 DEF Min

\* Slices of one file that begin at different rows differ.
LEMMA SlicesDiffer ==
  ASSUME NEW d, NEW file, NEW n, NEW a \in Int, NEW b \in Int,
         1 \in DOMAIN Slice(d, file, a, n), Slice(d, file, a, n) = Slice(d, file, b, n)
  PROVE  a = b
<1>1. PICK k : k = Min({n, Max({0, Rows(d, file) - a})})
  OBVIOUS
<1>2. PICK m : m = Min({n, Max({0, Rows(d, file) - b})})
  OBVIOUS
<1>3. /\ Slice(d, file, a, n) = [j \in 1..k |-> <<d, file, a + j - 1>>]
      /\ Slice(d, file, b, n) = [j \in 1..m |-> <<d, file, b + j - 1>>]
  BY <1>1, <1>2 DEF Slice
<1>4. <<d, file, a + 1 - 1>> = <<d, file, b + 1 - 1>>
  BY <1>3
<1> QED BY <1>4

\* Where an episode is in its file.
LEMMA PlaceIs ==
  ASSUME NEW d \in Datasets, NEW i \in DOMAIN Layout[d]
  PROVE  /\ Base(d, Layout[d][i].file) \in Nat /\ Place(d, i) \in Int
         /\ Place(d, i) = Layout[d][i].from - Base(d, Layout[d][i].file)
<1> DEFINE S == {Layout[d][j].from : j \in FileRows(d, Layout[d][i].file)}
<1>1. i \in FileRows(d, Layout[d][i].file) /\ FileRows(d, Layout[d][i].file) \subseteq DOMAIN Layout[d]
  BY DEF FileRows
<1>2. \A j \in FileRows(d, Layout[d][i].file) : Layout[d][j].from \in Nat
  BY <1>1, LayoutIs
<1>3. S \in SUBSET Nat /\ S # {}
  <2>1. PICK F : F = FileRows(d, Layout[d][i].file)
    OBVIOUS
  <2>2. S = {Layout[d][j].from : j \in F} /\ i \in F /\ \A j \in F : Layout[d][j].from \in Nat
    BY <1>1, <1>2, <2>1
  <2> HIDE DEF S
  <2>3. S \subseteq Nat
    BY <2>2
  <2>4. Layout[d][i].from \in S
    BY <2>2
  <2> QED BY <2>3, <2>4
<1>4. Min(S) \in S
  <2> HIDE DEF S
  <2> QED BY <1>3, Smallest
<1>5. PICK b : b = Base(d, Layout[d][i].file)
  OBVIOUS
<1>6. PICK a : a = Layout[d][i].from
  OBVIOUS
<1>7. b \in Nat
  BY <1>3, <1>4, <1>5 DEF Base
<1>8. a \in Nat /\ a - b \in Int
  <2>1. a \in Nat
    BY <1>6, LayoutIs
  <2> QED BY <1>7, <2>1
<1>9. Place(d, i) = a - b
  BY <1>5, <1>6 DEF Place
<1> QED BY <1>5, <1>6, <1>7, <1>8, <1>9

\* The rows at an episode's numbers in the whole data set are its own in the
\* files that begin with the first of these numbers.
LEMMA SliceOfFirst ==
  ASSUME NEW d \in Datasets, NEW i \in DOMAIN Layout[d], 1 \in DOMAIN RowsOf(d, i, 0, Layout[d][i].length)
  PROVE  Slice(d, Layout[d][i].file, Layout[d][i].from, Layout[d][i].length) = RowsOf(d, i, 0, Layout[d][i].length)
           <=> Base(d, Layout[d][i].file) = 0
<1>a. PICK a : a = Layout[d][i].from
  OBVIOUS
<1>b. PICK b : b = Base(d, Layout[d][i].file)
  OBVIOUS
<1>p. PICK p : p = Place(d, i) + 0
  OBVIOUS
<1>1. a \in Nat /\ b \in Nat /\ p = a - b
  BY <1>a, <1>b, <1>p, PlaceIs, LayoutIs
<1>2. RowsOf(d, i, 0, Layout[d][i].length) = Slice(d, Layout[d][i].file, p, Layout[d][i].length)
  BY <1>p DEF RowsOf
<1>3. CASE b = 0
  <2>1. p = a
    BY <1>1, <1>3
  <2> QED BY <1>2, <1>3, <1>a, <1>b, <2>1
<1>4. CASE b # 0
  <2>1. p # a /\ p \in Int /\ a \in Int
    BY <1>1, <1>4
  <2>2. Slice(d, Layout[d][i].file, p, Layout[d][i].length) # Slice(d, Layout[d][i].file, a, Layout[d][i].length)
    BY <1>2, <2>1, SlicesDiffer
  <2> QED BY <1>2, <1>4, <1>a, <1>b, <2>2
<1> QED BY <1>3, <1>4

\* The fields of a view that a step replaces.
LEMMA ViewShown ==
  ASSUME NEW v, View(v), NEW rows, NEW n, n = [v EXCEPT !.pc = "shown", !.rows = rows]
  PROVE  n = [pc |-> "shown", of |-> v.of, episode |-> v.episode, rows |-> rows, overlapped |-> v.overlapped]
<1>1. v = [pc |-> v.pc, of |-> v.of, episode |-> v.episode, rows |-> v.rows, overlapped |-> v.overlapped]
  BY DEF View
<1> QED BY <1>1
LEMMA ViewMarked ==
  ASSUME NEW v, View(v), NEW n, n = [v EXCEPT !.overlapped = TRUE]
  PROVE  n = [pc |-> v.pc, of |-> v.of, episode |-> v.episode, rows |-> v.rows, overlapped |-> TRUE]
<1>1. v = [pc |-> v.pc, of |-> v.of, episode |-> v.episode, rows |-> v.rows, overlapped |-> v.overlapped]
  BY DEF View
<1> QED BY <1>1

\* What is shown of an episode is what it holds.
LEMMA ViewStep ==
  ReadInv /\ ExportNext => ViewsOK' /\ LookInv' /\ FramesOfEpisode'
<1> SUFFICES ASSUME ReadInv, ExportNext PROVE ViewsOK' /\ LookInv' /\ FramesOfEpisode'
  OBVIOUS
<1>0. StateOK /\ LoadsOK /\ Sequence(views) /\ LoadInv /\ \A v \in DOMAIN views : Fine(v)
  BY FineIs DEF ReadInv, Types, ViewsOK
<1>m. mingled => mingled'
  BY LoadStep DEF ReadInv
<1> SUFFICES Sequence(views)' /\ \A v \in DOMAIN views' : Fine(v)'
  BY FineIs DEF ViewsOK, Fine, LookInv, FramesOfEpisode, Looks, Frames
<1>1. ASSUME UNCHANGED <<dataset, views>> PROVE Sequence(views)' /\ \A v \in DOMAIN views' : Fine(v)'
  <2>1. \A v \in DOMAIN views : Fine(v)'
    BY <1>0, <1>1, <1>m DEF Fine, Looks, Frames, Shown, OwnFrames
  <2> QED BY <1>0, <1>1, <2>1
<1>2. ASSUME NEW i, episode_frames(i) PROVE Sequence(views)' /\ \A v \in DOMAIN views' : Fine(v)'
  <2>1. PICK e : e = [pc |-> "rows", of |-> dataset["by_index"], episode |-> i, rows |-> <<>>, overlapped |-> Assigns]
    OBVIOUS
  <2>2. views' = Append(views, e) /\ UNCHANGED <<dataset, mingled>> /\ dataset["by_index"] # NoData
        /\ i \in DOMAIN Layout[dataset["by_index"]]
    BY <1>2, <2>1 DEF episode_frames
  <2>3. PICK n : n = Len(views) + 1
    OBVIOUS
  <2>4. /\ Sequence(views)' /\ DOMAIN views' = DOMAIN views \cup {n} /\ views'[n] = e
        /\ \A v \in DOMAIN views : views'[v] = views[v]
    BY <1>0, <2>2, <2>3, SequenceGrows
  <2>5. dataset["by_index"] \in Datasets
    BY <1>0, <2>2 DEF StateOK, Sets, Names
  <2>6. Assigns \in BOOLEAN
    BY DEF Assigns
  <2>7. View(e) /\ e.pc = "rows" /\ e.of = dataset["by_index"] /\ e.overlapped = Assigns
    BY <2>1, <2>2, <2>5, <2>6 DEF View
  <2>8. ~mingled /\ ~Assigns => dataset["path"] = dataset["by_index"]
    BY <1>0 DEF LoadInv, One, Names
  <2>9. Fine(n)'
    BY <2>2, <2>4, <2>7, <2>8 DEF Fine, Looks, Frames, Shown, OwnFrames
  <2>10. \A v \in DOMAIN views : Fine(v)'
    BY <1>0, <2>2, <2>4 DEF Fine, Looks, Frames, Shown, OwnFrames
  <2> QED BY <2>4, <2>9, <2>10
<1>3. ASSUME NEW v \in DOMAIN views, ReadFrames(v) PROVE Sequence(views)' /\ \A w \in DOMAIN views' : Fine(w)'
  <2>1. PICK d : d = views[v].of
    OBVIOUS
  <2>2. PICK i : i = views[v].episode
    OBVIOUS
  <2>3. PICK rows : rows = Slice(dataset["path"], Layout[d][i].file, Layout[d][i].from, Layout[d][i].length)
    OBVIOUS
  <2>4. PICK e : e = [views[v] EXCEPT !.pc = "shown", !.rows = rows]
    OBVIOUS
  <2>5. views' = [views EXCEPT ![v] = e] /\ UNCHANGED <<dataset, mingled>> /\ views[v].pc = "rows"
    BY <1>3, <2>1, <2>2, <2>3, <2>4 DEF ReadFrames
  <2>6. PICK u : u = views[v]
    OBVIOUS
  <2>7. View(u) /\ Looks(v) /\ e = [u EXCEPT !.pc = "shown", !.rows = rows]
    BY <1>0, <2>4, <2>6 DEF Fine
  <2>8. e = [pc |-> "shown", of |-> u.of, episode |-> u.episode, rows |-> rows, overlapped |-> u.overlapped]
    BY <2>7, ViewShown
  <2>9. View(e) /\ e.pc = "shown" /\ e.of = d /\ e.episode = i /\ e.rows = rows /\ e.overlapped = u.overlapped
    BY <2>1, <2>2, <2>6, <2>7, <2>8 DEF View
  <2>10. views' = [w \in DOMAIN views |-> views'[w]] /\ DOMAIN views' = DOMAIN views /\ views'[v] = e
         /\ \A w \in DOMAIN views \ {v} : views'[w] = views[w]
    <3>1. PICK S : views \in Seq(S)
      BY <1>0 DEF Sequence
    <3>2. views = [w \in DOMAIN views |-> views[w]]
      BY <3>1, LenProperties
    <3> QED BY <2>5, <3>2
  <2>11. Sequence(views)'
    BY <1>0, <2>10, SequenceRebuilt
  <2>12. d \in Datasets /\ i \in DOMAIN Layout[d]
    BY <2>1, <2>2, <2>6, <2>7 DEF View
  <2>13. ~mingled /\ ~u.overlapped => dataset["path"] = d
    BY <2>1, <2>5, <2>6, <2>7 DEF Looks
  <2>14. ~mingled /\ ~u.overlapped /\ 1 \in DOMAIN RowsOf(d, i, 0, Layout[d][i].length) =>
           (rows = RowsOf(d, i, 0, Layout[d][i].length) <=> Base(d, Layout[d][i].file) = 0)
    BY <2>3, <2>12, <2>13, SliceOfFirst
  <2>15. Fine(v)'
    BY <2>5, <2>9, <2>10, <2>14 DEF Fine, Looks, Frames, Shown, OwnFrames
  <2>16. \A w \in DOMAIN views \ {v} : Fine(w)'
    BY <1>0, <2>5, <2>10 DEF Fine, Looks, Frames, Shown, OwnFrames
  <2> QED BY <2>10, <2>11, <2>15, <2>16
<1>4. ASSUME NEW l, Assign(l) PROVE Sequence(views)' /\ \A w \in DOMAIN views' : Fine(w)'
  <2>1. views' = [v \in DOMAIN views |-> IF views[v].pc = "rows" THEN [views[v] EXCEPT !.overlapped = TRUE] ELSE views[v]]
        /\ mingled' = mingled
    BY <1>4 DEF Assign, AssignBegun
  <2>2. views' = [w \in DOMAIN views |-> views'[w]] /\ DOMAIN views' = DOMAIN views
    BY <2>1
  <2>3. Sequence(views)'
    BY <1>0, <2>2, SequenceRebuilt
  <2>4. ASSUME NEW w \in DOMAIN views PROVE Fine(w)'
    <3>1. CASE views[w].pc = "rows"
      <4>1. PICK u : u = views[w]
        OBVIOUS
      <4>2. PICK e : e = [u EXCEPT !.overlapped = TRUE]
        OBVIOUS
      <4>3. View(u) /\ views'[w] = e
        BY <1>0, <2>1, <3>1, <4>1, <4>2 DEF Fine
      <4>4. e = [pc |-> u.pc, of |-> u.of, episode |-> u.episode, rows |-> u.rows, overlapped |-> TRUE]
        BY <4>2, <4>3, ViewMarked
      <4>5. View(e) /\ e.overlapped = TRUE
        BY <4>3, <4>4 DEF View
      <4> QED BY <4>3, <4>5 DEF Fine, Looks, Frames, Shown, OwnFrames
    <3>2. CASE views[w].pc # "rows"
      BY <1>0, <2>1, <3>2 DEF Fine, Looks, Frames, Shown, OwnFrames
    <3> QED BY <3>1, <3>2
  <2> QED BY <2>2, <2>3, <2>4
<1>5. CASE Crash
  <2>1. views' = [v \in DOMAIN views |-> [views[v] EXCEPT !.pc = IF views[v].pc = "rows" THEN "lost" ELSE views[v].pc]]
        /\ mingled' = mingled
    BY <1>5 DEF Crash
  <2>2. views' = [w \in DOMAIN views |-> views'[w]] /\ DOMAIN views' = DOMAIN views
    BY <2>1
  <2>3. Sequence(views)'
    BY <1>0, <2>2, SequenceRebuilt
  <2>4. ASSUME NEW w \in DOMAIN views PROVE Fine(w)'
    <3>1. PICK u : u = views[w]
      OBVIOUS
    <3>2. PICK e : e = views'[w]
      OBVIOUS
    <3>3. View(u) /\ Frames(w)
      BY <1>0, <3>1 DEF Fine
    <3>4. e = [u EXCEPT !.pc = IF u.pc = "rows" THEN "lost" ELSE u.pc]
      BY <2>1, <3>1, <3>2
    <3>5. e = [pc |-> IF u.pc = "rows" THEN "lost" ELSE u.pc, of |-> u.of, episode |-> u.episode, rows |-> u.rows,
               overlapped |-> u.overlapped]
      BY <3>3, <3>4 DEF View
    <3>6. /\ e.pc = (IF u.pc = "rows" THEN "lost" ELSE u.pc) /\ e.of = u.of /\ e.episode = u.episode /\ e.rows = u.rows
          /\ e.overlapped = u.overlapped
      BY <3>5
    <3>7. View(e) /\ e.pc # "rows"
      BY <3>3, <3>5, <3>6 DEF View
    <3>8. e.pc = "shown" => u.pc = "shown"
      BY <3>6
    <3>9. Frames(w)'
      BY <2>1, <3>1, <3>2, <3>3, <3>6, <3>8 DEF Frames, Shown, OwnFrames
    <3> QED BY <3>2, <3>7, <3>9 DEF Fine, Looks
  <2> QED BY <2>2, <2>3, <2>4
<1>6. CASE \/ \E out \in Targets : \E trims \in TrimChoices : AskExport(out, trims)
           \/ \E x \in DOMAIN exports : Compare(x) \/ TakeRoot(x) \/ TakeInfo(x) \/ TakeEpisodes(x) \/ Thread(x)
           \/ \E d \in Datasets : Load(d)
  <2>1. UNCHANGED <<dataset, views>>
    BY <1>6 DEF Thread, AskExport, Compare, TakeRoot, TakeInfo, TakeEpisodes, Load,
       PrepareFails, Claim, Create, SkipEpisode, WriteEpisode, Finalize, Fails, Reset, Outside
  <2> QED BY <1>1, <2>1
<1> QED BY <1>2, <1>3, <1>4, <1>5, <1>6 DEF ExportNext, Handlers, Loader

-----------------------------------------------------------------------------
(* What a request has read.                                                *)

\* A thread has its request's data set from then on.
LEMMA ThreadGoes ==
  ASSUME ExportsOK, NEW x \in DOMAIN exports, Thread(x)
  PROVE  /\ exports[x].pc \in {"claim"} \cup Working /\ UNCHANGED <<dataset, loads, mingled, views>>
         /\ Ends(x) \/ \E pc \in Settled : Goes(x, pc)
<1>0. Settled \subseteq Pcs /\ Working \subseteq Settled /\ {"create", "episode", "reset", "ended"} \subseteq Settled
  BY DEF Settled, Pcs, Working
<1>1. exports[x].pc \in {"claim"} \cup Working /\ UNCHANGED <<dataset, loads, mingled, views>>
  BY DEF Thread, PrepareFails, Claim, Create, SkipEpisode, WriteEpisode, Finalize, Fails, Reset, Outside, At, Working
<1>2. Vanish(x) \/ Onward(x) \/ Now(x, "create") \/ Now(x, "episode") \/ Now(x, "reset") \/ Now(x, "ended")
  BY DEF Thread, PrepareFails, Claim, Create, SkipEpisode, WriteEpisode, Finalize, Fails, Reset
<1>3. Onward(x) /\ exports[x].pc # "claim" => \E pc \in Settled : Goes(x, pc)
  BY <1>0, <1>1, OnwardGoes
<1>4. Onward(x) => exports[x].pc # "claim"
  <2>1. CASE SkipEpisode(x) \/ WriteEpisode(x)
    BY <2>1 DEF SkipEpisode, WriteEpisode, At
  <2>2. CASE PrepareFails(x) \/ Claim(x)
    <3>1. Vanish(x) \/ Now(x, "create")
      BY <2>2 DEF PrepareFails, Claim
    <3>2. exports'[x].pc \in {"died", "create"}
      BY <3>1, <1>0, LeaveEnds, NowGoes DEF Ends, Goes
    <3> QED BY <3>2, OnwardGoes DEF Goes
  <2>3. CASE Create(x) \/ Finalize(x) \/ Fails(x) \/ Reset(x)
    BY <2>3 DEF Create, Finalize, Fails, Reset, Working
  <2> QED BY <2>1, <2>2, <2>3 DEF Thread
<1>5. ASSUME NEW pc \in {"create", "episode", "reset", "ended"}, Now(x, pc) PROVE \E p \in Settled : Goes(x, p)
  BY <1>0, <1>5, NowGoes
<1> QED BY <1>1, <1>2, <1>3, <1>4, <1>5, LeaveEnds

Ready(x) ==
  /\ exports[x].pc \in Begun => _require_loaded
  /\ exports[x].pc \in {"claim"} \cup Settled => exports[x].eps \in Datasets
  /\ exports[x].pc # "died" => exports[x].out \in Paths
Snap(x) ==
  ~mingled /\ ~exports[x].overlapped =>
    /\ exports[x].pc \in {"info", "episodes"} => \A part \in Names : dataset[part] = exports[x].root
    /\ exports[x].pc \in {"episodes", "claim"} \cup Settled => exports[x].info = exports[x].root
    /\ exports[x].pc \in {"claim"} \cup Settled => exports[x].eps = exports[x].root
LEMMA ReadyIs == (\A x \in DOMAIN exports : Ready(x) /\ Snap(x)) <=> ReadyInv /\ SnapInv
BY DEF Ready, Snap, ReadyInv, SnapInv

\* A request that is left alone, while the loaded data set stays, knows what it knew.
LEMMA KnowsStill ==
  ASSUME NEW x, Ready(x), Snap(x), exports'[x] = exports[x], dataset' = dataset, mingled => mingled'
  PROVE  Ready(x)' /\ Snap(x)'
BY DEF Ready, Snap, _require_loaded

\* What a request has read is of one data set, unless a load came between.
LEMMA RequestStep ==
  ReadInv /\ ExportNext => ExportsOK' /\ ReadyInv' /\ SnapInv'
<1> SUFFICES ASSUME ReadInv, ExportNext PROVE ExportsOK' /\ ReadyInv' /\ SnapInv'
  OBVIOUS
<1>0. StateOK /\ LoadsOK /\ ExportsOK /\ LoadInv /\ \A x \in DOMAIN exports : Ready(x) /\ Snap(x)
  BY ReadyIs DEF ReadInv, Types
<1>m. mingled => mingled'
  BY LoadStep DEF ReadInv
<1> SUFFICES ExportsOK' /\ \A x \in DOMAIN exports' : Ready(x)' /\ Snap(x)'
  BY DEF Ready, Snap, ReadyInv, SnapInv
<1>p. {"claim"} \cup Settled = {"claim", "create", "episode", "reset", "ended"} /\ Begun = {"compare", "root", "info", "episodes"}
  BY DEF Settled, Working, Begun
<1>1. ASSUME UNCHANGED <<dataset, exports>> PROVE ExportsOK' /\ \A x \in DOMAIN exports' : Ready(x)' /\ Snap(x)'
  <2>1. ExportsOK'
    BY <1>0, <1>1 DEF ExportsOK
  <2> QED BY <1>0, <1>1, <1>m, <2>1, KnowsStill
<1>2. ASSUME NEW x \in DOMAIN exports, Others(x), dataset' = dataset, ExportsOK', Ready(x)', Snap(x)'
      PROVE  ExportsOK' /\ \A y \in DOMAIN exports' : Ready(y)' /\ Snap(y)'
  BY <1>0, <1>2, <1>m, KnowsStill DEF Others
<1>3. ASSUME NEW l \in DOMAIN loads, Assign(l) PROVE ExportsOK' /\ \A x \in DOMAIN exports' : Ready(x)' /\ Snap(x)'
  <2>1. ExportsOK' /\ DOMAIN exports' = DOMAIN exports /\ \A x \in DOMAIN exports : Marked(x)
    BY <1>0, <1>3, AssignMarks DEF Assign
  <2>2. mingled' = mingled /\ loads[l].of \in Datasets
    BY <1>0, <1>3 DEF Assign, AssignBegun, LoadsOK
  <2>3. _require_loaded => _require_loaded'
    <3>1. \A j \in 1..4 : dataset'[Parts[j]] = loads[l].of \/ dataset'[Parts[j]] = dataset[Parts[j]]
      BY <1>0, <1>3, AssignState
    <3>2. \A part \in Names : dataset'[part] = loads[l].of \/ dataset'[part] = dataset[part]
      BY <3>1, NamesParts
    <3> QED BY <2>2, <3>2 DEF _require_loaded, Names, PathsAssumption
  <2>4. ASSUME NEW x \in DOMAIN exports PROVE Ready(x)' /\ Snap(x)'
    <3>1. Ready(x) /\ Snap(x) /\ Marked(x)
      BY <1>0, <2>1
    <3>2. Ready(x)'
      BY <2>3, <3>1 DEF Ready, Marked
    <3>3. Snap(x)'
      BY <2>2, <3>1 DEF Snap, Marked, Snapping
    <3> QED BY <3>2, <3>3
  <2> QED BY <2>1, <2>4
<1>4. ASSUME NEW out \in Targets, NEW trims \in TrimChoices, AskExport(out, trims)
      PROVE  ExportsOK' /\ \A x \in DOMAIN exports' : Ready(x)' /\ Snap(x)'
  <2>1. PICK n : n = Len(exports) + 1
    OBVIOUS
  <2>2. /\ ExportsOK' /\ DOMAIN exports' = DOMAIN exports \cup {n} /\ exports'[n].pc = "compare" /\ exports'[n].out = out
        /\ \A y \in DOMAIN exports : exports'[y] = exports[y]
    BY <1>0, <1>4, <2>1, AskAdds
  <2>3. dataset' = dataset /\ _require_loaded
    BY <1>4 DEF AskExport
  <2>4. _require_loaded'
    BY <2>3 DEF _require_loaded
  <2>5. Ready(n)' /\ Snap(n)'
    BY <1>p, <2>2, <2>4 DEF Ready, Snap, Paths, PathsAssumption
  <2>6. \A y \in DOMAIN exports : Ready(y)' /\ Snap(y)'
    BY <1>0, <1>m, <2>2, <2>3, KnowsStill
  <2> QED BY <2>2, <2>5, <2>6
<1>5. ASSUME NEW x \in DOMAIN exports, Compare(x) PROVE ExportsOK' /\ \A y \in DOMAIN exports' : Ready(y)' /\ Snap(y)'
  <2>1. (Vanish(x) \/ Now(x, "root")) /\ dataset' = dataset /\ exports[x].pc = "compare"
    BY <1>5 DEF Compare
  <2>2. "root" \in Pcs
    BY DEF Pcs, Begun
  <2>3. Ends(x) \/ Goes(x, "root")
    BY <1>0, <2>1, <2>2, LeaveEnds, NowGoes
  <2>4. _require_loaded => _require_loaded'
    BY <2>1 DEF _require_loaded
  <2>5. Ready(x)' /\ Snap(x)' /\ ExportsOK' /\ Others(x)
    BY <1>0, <1>p, <2>1, <2>3, <2>4 DEF Ends, Goes, Ready, Snap
  <2> QED BY <1>2, <2>1, <2>5
<1>6. ASSUME NEW x \in DOMAIN exports, TakeRoot(x) PROVE ExportsOK' /\ \A y \in DOMAIN exports' : Ready(y)' /\ Snap(y)'
  <2>1. Reads(x, "info") /\ exports'[x].root = dataset["path"] /\ exports'[x].overlapped = Assigns
    BY <1>0, <1>6, RootReads
  <2>2. dataset' = dataset /\ mingled' = mingled /\ exports[x].pc = "root"
    BY <1>6 DEF TakeRoot
  <2>3. ~mingled /\ ~Assigns => \A part \in Names : dataset[part] = dataset["path"]
    BY <1>0 DEF LoadInv, One
  <2>4. _require_loaded => _require_loaded'
    BY <2>2 DEF _require_loaded
  <2>5. Ready(x)' /\ Snap(x)' /\ ExportsOK' /\ Others(x)
    BY <1>0, <1>p, <2>1, <2>2, <2>3, <2>4 DEF Reads, Ready, Snap
  <2> QED BY <1>2, <2>2, <2>5
<1>7. ASSUME NEW x \in DOMAIN exports, TakeInfo(x) PROVE ExportsOK' /\ \A y \in DOMAIN exports' : Ready(y)' /\ Snap(y)'
  <2>1. /\ Reads(x, "episodes") /\ exports'[x].info = dataset["info"]
        /\ exports'[x].root = exports[x].root /\ exports'[x].overlapped = exports[x].overlapped
    BY <1>0, <1>7, InfoReads
  <2>2. dataset' = dataset /\ mingled' = mingled /\ exports[x].pc = "info" /\ "info" \in Names
    BY <1>7 DEF TakeInfo, Names
  <2>4. _require_loaded => _require_loaded'
    BY <2>2 DEF _require_loaded
  <2>5. Ready(x)' /\ Snap(x)' /\ ExportsOK' /\ Others(x)
    BY <1>0, <1>p, <2>1, <2>2, <2>4 DEF Reads, Ready, Snap
  <2> QED BY <1>2, <2>2, <2>5
<1>8. ASSUME NEW x \in DOMAIN exports, TakeEpisodes(x) PROVE ExportsOK' /\ \A y \in DOMAIN exports' : Ready(y)' /\ Snap(y)'
  <2>1. /\ Reads(x, "claim") /\ exports'[x].eps = dataset["episodes"] /\ exports'[x].info = exports[x].info
        /\ exports'[x].root = exports[x].root /\ exports'[x].overlapped = exports[x].overlapped
    BY <1>0, <1>8, EpisodesReads
  <2>2. dataset' = dataset /\ mingled' = mingled /\ exports[x].pc = "episodes" /\ "episodes" \in Names
    BY <1>8 DEF TakeEpisodes, Names
  <2>3. dataset["episodes"] \in Datasets
    BY <1>0, <1>p, <2>2 DEF Ready, _require_loaded, StateOK, Sets
  <2>5. Ready(x)' /\ Snap(x)' /\ ExportsOK' /\ Others(x)
    BY <1>0, <1>p, <2>1, <2>2, <2>3 DEF Reads, Ready, Snap
  <2> QED BY <1>2, <2>2, <2>5
<1>9. ASSUME NEW x \in DOMAIN exports, Thread(x) PROVE ExportsOK' /\ \A y \in DOMAIN exports' : Ready(y)' /\ Snap(y)'
  <2>1. /\ exports[x].pc \in {"claim"} \cup Working /\ dataset' = dataset /\ mingled' = mingled
        /\ Ends(x) \/ \E pc \in Settled : Goes(x, pc)
    BY <1>0, <1>9, ThreadGoes
  <2>2. exports[x].pc \in {"claim"} \cup Settled
    BY <2>1 DEF Settled
  <2>3. CASE Ends(x)
    <3>1. Ready(x)' /\ Snap(x)' /\ ExportsOK' /\ Others(x)
      BY <1>p, <2>3 DEF Ends, Ready, Snap
    <3> QED BY <1>2, <2>1, <3>1
  <2>4. ASSUME NEW pc \in Settled, Goes(x, pc) PROVE ExportsOK' /\ \A y \in DOMAIN exports' : Ready(y)' /\ Snap(y)'
    <3>1. Ready(x)' /\ Snap(x)' /\ ExportsOK' /\ Others(x)
      BY <1>0, <1>p, <2>1, <2>2, <2>4 DEF Goes, Ready, Snap
    <3> QED BY <1>2, <2>1, <3>1
  <2> QED BY <2>1, <2>3, <2>4
<1>10. CASE Crash
  <2>1. ExportsOK' /\ DOMAIN exports' = DOMAIN exports /\ \A x \in DOMAIN exports : Stopped(x)
    BY <1>0, <1>10, CrashStops
  <2>2. ASSUME NEW x \in DOMAIN exports PROVE Ready(x)' /\ Snap(x)'
    <3>1. Ready(x) /\ Snap(x) /\ Stopped(x)
      BY <1>0, <2>1
    <3>2. mingled' = mingled
      BY <1>10 DEF Crash
    <3> QED BY <1>p, <3>1, <3>2 DEF Ready, Snap, Stopped
  <2> QED BY <2>1, <2>2
<1>11. CASE (\E i \in 1..Max({Len(Layout[d]) : d \in Datasets}) : episode_frames(i)) \/ (\E v \in DOMAIN views : ReadFrames(v))
            \/ \E d \in Datasets : Load(d)
  <2>1. UNCHANGED <<dataset, exports>>
    BY <1>11 DEF episode_frames, ReadFrames, Load
  <2> QED BY <1>1, <2>1
<1> QED BY <1>3, <1>4, <1>5, <1>6, <1>7, <1>8, <1>9, <1>10, <1>11 DEF ExportNext, Handlers, Loader

-----------------------------------------------------------------------------
(* What is written.                                                        *)

\* What a request has asked for stays as it is once its thread has begun.
SameOf(x) ==
  /\ exports'[x].out = exports[x].out /\ exports'[x].trims = exports[x].trims
  /\ exports'[x].eps = exports[x].eps /\ exports'[x].root = exports[x].root
LEMMA SameAsks ==
  ASSUME NEW x, SameOf(x)
  PROVE  /\ \A i : Skipped(x, i)' <=> Skipped(x, i)
         /\ \A ep : Asks(x, ep)' <=> Asks(x, ep)
<1>1. \A i : TrimOf(x, i)' = TrimOf(x, i)
  BY DEF SameOf, TrimOf
<1>2. \A i : KeptOf(x, i)' = KeptOf(x, i)
  BY <1>1 DEF SameOf, KeptOf
<1>3. \A i : Blank(x, i)' <=> Blank(x, i)
  BY <1>1 DEF SameOf, Blank
<1>4. \A i : Skipped(x, i)' <=> Skipped(x, i)
  BY <1>2, <1>3 DEF Skipped
<1>5. \A i : Videos_(x, i)' = Videos_(x, i) /\ Rows_(x, i)' = Rows_(x, i)
  BY <1>2 DEF SameOf, Videos_, Rows_
<1>6. \A ep : Asks(x, ep)' <=> Asks(x, ep)
  BY <1>2, <1>4, <1>5 DEF SameOf, Asks
<1> QED BY <1>4, <1>6

Closed == {"reset", "ended"}
Later(x) ==
  /\ exports[x].pc \in Settled => SameOf(x) /\ exports'[x].pc \in Settled
  /\ exports[x].pc \in Closed => exports'[x].pc \in Closed
  /\ exports[x].pc = "episode" => exports'[x].pc \in {"episode"} \cup Closed
\* No request goes back.
LEMMA AllLater ==
  ASSUME ExportsOK, ExportNext
  PROVE  \A x \in DOMAIN exports : x \in DOMAIN exports' /\ Later(x)
<1>p. Settled = {"create", "episode", "reset", "ended"} /\ Closed = {"reset", "ended"} /\ Settled \subseteq Pcs
      /\ Working = {"create", "episode", "reset"}
  BY DEF Settled, Working, Closed, Pcs
<1>1. ASSUME NEW x \in DOMAIN exports, exports'[x] = exports[x] PROVE Later(x)
  BY <1>1 DEF Later, SameOf
<1>2. CASE UNCHANGED exports
  BY <1>1, <1>2
<1>3. ASSUME NEW x \in DOMAIN exports, Others(x), Later(x) PROVE \A y \in DOMAIN exports : y \in DOMAIN exports' /\ Later(y)
  BY <1>1, <1>3 DEF Others
<1>4. ASSUME NEW l, Assign(l) PROVE \A x \in DOMAIN exports : x \in DOMAIN exports' /\ Later(x)
  <2>1. DOMAIN exports' = DOMAIN exports /\ \A x \in DOMAIN exports : Marked(x)
    BY <1>4, AssignMarks DEF Assign
  <2>2. ASSUME NEW x \in DOMAIN exports PROVE Later(x)
    BY <1>p, <2>1 DEF Marked, Snapping, Later, SameOf
  <2> QED BY <2>1, <2>2
<1>5. ASSUME NEW out \in Targets, NEW trims \in TrimChoices, AskExport(out, trims)
      PROVE  \A x \in DOMAIN exports : x \in DOMAIN exports' /\ Later(x)
  BY <1>1, <1>5, AskAdds
<1>6. ASSUME NEW x \in DOMAIN exports, Compare(x) \/ TakeRoot(x) \/ TakeInfo(x) \/ TakeEpisodes(x)
      PROVE  \A y \in DOMAIN exports : y \in DOMAIN exports' /\ Later(y)
  <2>1. exports[x].pc \notin Settled
    BY <1>p, <1>6 DEF Compare, TakeRoot, TakeInfo, TakeEpisodes
  <2>2. /\ exports' = [exports EXCEPT ![x] = exports'[x]]
    BY <1>6 DEF Compare, TakeRoot, TakeInfo, TakeEpisodes, Vanish, Now
  <2>3. Others(x)
    BY <2>2 DEF Others
  <2>4. Later(x)
    BY <1>p, <2>1 DEF Later
  <2> QED BY <1>3, <2>3, <2>4
<1>7. ASSUME NEW x \in DOMAIN exports, Thread(x) PROVE \A y \in DOMAIN exports : y \in DOMAIN exports' /\ Later(y)
  <2>1. CASE PrepareFails(x) \/ Claim(x)
    <3>1. exports[x].pc = "claim" /\ (Vanish(x) \/ Now(x, "create"))
      BY <2>1 DEF PrepareFails, Claim
    <3>2. Others(x)
      BY <1>p, <3>1, LeaveEnds, NowGoes DEF Ends, Goes
    <3>3. Later(x)
      BY <1>p, <3>1 DEF Later
    <3> QED BY <1>3, <3>2, <3>3
  <2>2. CASE Create(x)
    <3>1. exports[x].pc = "create" /\ Goes(x, "episode")
      BY <1>p, <2>2, NowGoes DEF Create
    <3> QED BY <1>3, <1>p, <3>1 DEF Later, Goes, SameOf
  <2>3. CASE SkipEpisode(x) \/ WriteEpisode(x)
    <3>1. exports[x].pc = "episode" /\ Goes(x, "episode")
      BY <2>3, OnwardGoes DEF SkipEpisode, WriteEpisode, At
    <3> QED BY <1>3, <1>p, <3>1 DEF Later, Goes, SameOf
  <2>4. CASE Finalize(x) \/ Fails(x)
    <3>1. exports[x].pc \in {"create", "episode"} /\ Goes(x, "reset")
      BY <1>p, <2>4, NowGoes DEF Finalize, Fails
    <3> QED BY <1>3, <1>p, <3>1 DEF Later, Goes, SameOf
  <2>5. CASE Reset(x)
    <3>1. exports[x].pc = "reset" /\ Goes(x, "ended")
      BY <1>p, <2>5, NowGoes DEF Reset
    <3> QED BY <1>3, <1>p, <3>1 DEF Later, Goes, SameOf
  <2> QED BY <1>7, <2>1, <2>2, <2>3, <2>4, <2>5 DEF Thread
<1>8. CASE Crash
  <2>1. DOMAIN exports' = DOMAIN exports /\ \A x \in DOMAIN exports : Stopped(x)
    BY <1>8, CrashStops
  <2>2. ASSUME NEW x \in DOMAIN exports PROVE Later(x)
    BY <1>p, <2>1 DEF Stopped, Later, SameOf
  <2> QED BY <2>1, <2>2
<1>9. CASE (\E i \in 1..Max({Len(Layout[d]) : d \in Datasets}) : episode_frames(i)) \/ (\E v \in DOMAIN views : ReadFrames(v))
            \/ \E d \in Datasets : Load(d)
  BY <1>2, <1>9 DEF episode_frames, ReadFrames, Load
<1> QED BY <1>4, <1>5, <1>6, <1>7, <1>8, <1>9 DEF ExportNext, Handlers, Loader

LEMMA LayoutOf ==
  ASSUME ReadInv, NEW x \in DOMAIN exports, exports[x].pc \in {"claim"} \cup Settled
  PROVE  /\ exports[x].eps \in Datasets /\ exports[x].out \in Paths
         /\ Len(Layout[exports[x].eps]) \in Nat /\ DOMAIN Layout[exports[x].eps] = 1..Len(Layout[exports[x].eps])
         /\ exports[x].at \in Nat \ {0} /\ x \in 1..MaxExports
<1>1. exports[x].eps \in Datasets /\ exports[x].out \in Paths /\ ExportsOK
  BY DEF ReadInv, ReadyInv, Settled, Working, Types
<1>2. DOMAIN exports = 1..Len(exports) /\ Len(exports) <= MaxExports /\ MaxExports \in Nat /\ Len(exports) \in Nat
  BY <1>1, LenProperties DEF ExportsOK, LayoutAssumption
<1> QED BY <1>1, <1>2, LayoutIs, RequestFields

\* One folder gets a new content.
LEMMA FolderSet ==
  ASSUME FoldersOK, NEW q \in Paths, NEW f, Folder(f), folders' = [folders EXCEPT ![q] = f]
  PROVE  FoldersOK' /\ folders'[q] = f /\ \A p \in Paths \ {q} : folders'[p] = folders[p]
<1>1. folders = [p \in Paths |-> folders[p]] /\ \A p \in Paths : Folder(folders[p])
  BY DEF FoldersOK
<1>2. folders'[q] = f /\ (\A p \in Paths \ {q} : folders'[p] = folders[p]) /\ folders' = [p \in Paths |-> folders'[p]]
  BY <1>1
<1>3. \A p \in Paths : Folder(folders'[p])
  BY <1>1, <1>2
<1>4. Paths' = Paths
  BY DEF Paths
<1>5. \A p \in Paths : Folder(folders[p])'
  BY <1>3 DEF Folder, Sequence
<1> QED BY <1>2, <1>4, <1>5 DEF FoldersOK

\* A thread begins to write.
LEMMA ClaimDoes ==
  ASSUME ReadInv, NEW x \in DOMAIN exports, Claim(x), ~export.running
  PROVE  /\ Goes(x, "create") /\ exports'[x].at = exports[x].at /\ exports[x].pc = "claim" /\ folders' = folders
         /\ export' \in Status /\ export'.running /\ export'.out_path = exports[x].out /\ export'.message = "starting"
         /\ export'.progress = 0 /\ export'.total = Len(Layout[exports[x].eps])
<1>1. Now(x, "create") /\ export' = Started(x) /\ exports[x].pc = "claim" /\ folders' = folders
  BY DEF Claim
<1>2. ExportsOK /\ "create" \in Pcs
  BY DEF ReadInv, Types, Pcs, Working
<1>3. Len(Layout[exports[x].eps]) \in Nat /\ exports[x].out \in Paths
  BY <1>1, LayoutOf
<1>4. Started(x) \in Status
  BY <1>3 DEF Started, Status
<1>5. Status' = Status
  BY DEF Status, Paths
<1> QED BY <1>1, <1>2, <1>4, <1>5, NowGoes DEF Started

LEMMA CreateDoes ==
  ASSUME ReadInv, NEW x \in DOMAIN exports, Create(x)
  PROVE  /\ Goes(x, "episode") /\ exports'[x].at = exports[x].at /\ exports[x].pc = "create" /\ export' = export
         /\ FoldersOK' /\ folders[exports[x].out] = Absent
         /\ folders'[exports[x].out] = [by |-> x, episodes |-> <<>>, whole |-> FALSE]
         /\ \A p \in Paths \ {exports[x].out} : folders'[p] = folders[p]
<1>1. /\ Now(x, "episode") /\ export' = export /\ exports[x].pc = "create" /\ folders[exports[x].out] = Absent
      /\ folders' = [folders EXCEPT ![exports[x].out] = [by |-> x, episodes |-> <<>>, whole |-> FALSE]]
  BY DEF Create, Made
<1>2. ExportsOK /\ FoldersOK /\ "episode" \in Pcs /\ "create" \in Settled
  BY DEF ReadInv, Types, Pcs, Working, Settled
<1>3. exports[x].out \in Paths /\ x \in 1..MaxExports
  BY <1>1, <1>2, LayoutOf
<1>4. PICK q : q = exports[x].out
  OBVIOUS
<1>5. Folder([by |-> x, episodes |-> <<>>, whole |-> FALSE])
  <2>1. <<>> \in Seq({})
    OBVIOUS
  <2> QED BY <1>3, <2>1 DEF Folder, Sequence
<1>f. PICK f : f = [by |-> x, episodes |-> <<>>, whole |-> FALSE]
  OBVIOUS
<1>6. FoldersOK' /\ folders'[q] = f /\ \A p \in Paths \ {q} : folders'[p] = folders[p]
  <2>1. folders' = [folders EXCEPT ![q] = f] /\ Folder(f) /\ q \in Paths
    BY <1>1, <1>3, <1>4, <1>5, <1>f
  <2> QED BY <1>2, <2>1, FolderSet
<1> QED BY <1>1, <1>2, <1>4, <1>6, <1>f, NowGoes

StatusSame == export'.running = export.running /\ export'.total = export.total /\ export'.out_path = export.out_path
LEMMA SkipDoes ==
  ASSUME ReadInv, NEW x \in DOMAIN exports, SkipEpisode(x)
  PROVE  /\ Goes(x, "episode") /\ exports'[x].at = exports[x].at + 1 /\ exports[x].pc = "episode" /\ folders' = folders
         /\ exports[x].at \in DOMAIN Layout[exports[x].eps] /\ Skipped(x, exports[x].at)
         /\ export' \in Status /\ StatusSame /\ export'.message = export.message
         /\ export'.progress \in {export.progress, exports[x].at}
<1>1. /\ Onward(x) /\ exports[x].pc = "episode" /\ folders' = folders
      /\ exports[x].at \in DOMAIN Layout[exports[x].eps] /\ Skipped(x, exports[x].at)
      /\ export' = export \/ export' = [export EXCEPT !.progress = exports[x].at]
  BY DEF SkipEpisode, At
<1>2. ExportsOK /\ export \in Status /\ exports[x].at \in Nat
  BY RequestFields DEF ReadInv, Types
<1>3. Status' = Status
  BY DEF Status, Paths
<1>4. PICK r : r = export
  OBVIOUS
<1>5. PICK n : n = export'
  OBVIOUS
<1>6. PICK p : p = exports[x].at
  OBVIOUS
<1>7. n = r \/ (n \in Status /\ n.progress = p /\ n.running = r.running /\ n.total = r.total
              /\ n.message = r.message /\ n.out_path = r.out_path)
  <2>1. n = r \/ n = [r EXCEPT !.progress = p]
    BY <1>1, <1>4, <1>5, <1>6
  <2>2. r \in Status /\ p \in Nat
    BY <1>2, <1>4, <1>6
  <2> QED BY <2>1, <2>2 DEF Status
<1> QED BY <1>1, <1>2, <1>3, <1>4, <1>5, <1>6, <1>7, OnwardGoes DEF StatusSame

LEMMA WriteDoes ==
  ASSUME ReadInv, NEW x \in DOMAIN exports, WriteEpisode(x)
  PROVE  /\ Goes(x, "episode") /\ exports'[x].at = exports[x].at + 1 /\ exports[x].pc = "episode"
         /\ export' \in Status /\ StatusSame /\ export'.message = "episode" /\ export'.progress = exports[x].at
         /\ \E ep : /\ Asks(x, ep) /\ ep.of = exports[x].at /\ exports[x].at \in DOMAIN Layout[exports[x].eps]
                    /\ FoldersOK' /\ folders'[exports[x].out].by = folders[exports[x].out].by
                    /\ folders'[exports[x].out].whole = folders[exports[x].out].whole
                    /\ folders'[exports[x].out].episodes = Append(folders[exports[x].out].episodes, ep)
                    /\ \A p \in Paths \ {exports[x].out} : folders'[p] = folders[p]
<1>1. PICK i : i = exports[x].at
  OBVIOUS
<1>2. PICK ep : ep = [of |-> i, rows |-> Rows_(x, i), videos |-> Videos_(x, i)]
  OBVIOUS
<1>3. /\ Onward(x) /\ exports[x].pc = "episode" /\ i \in DOMAIN Layout[exports[x].eps] /\ ~Skipped(x, i)
      /\ DOMAIN Videos_(x, i) = 1..(KeptOf(x, i).last - KeptOf(x, i).first) /\ Adds(x, ep)
      /\ export' = [export EXCEPT !.progress = i, !.message = "episode"]
  BY <1>1, <1>2 DEF WriteEpisode, At
<1>4. ep.of = i /\ ep.rows = Rows_(x, i) /\ ep.videos = Videos_(x, i)
  BY <1>2
<1>5. Asks(x, ep)
  BY <1>3, <1>4 DEF Asks
<1>6. ExportsOK /\ export \in Status /\ exports[x].at \in Nat /\ FoldersOK /\ "episode" \in Settled
  BY RequestFields DEF ReadInv, Types, Settled, Working
<1>7. Status' = Status
  BY DEF Status, Paths
<1>8. PICK r : r = export
  OBVIOUS
<1>9. PICK n : n = export'
  OBVIOUS
<1>10. n \in Status /\ n.progress = i /\ n.running = r.running /\ n.total = r.total
       /\ n.message = "episode" /\ n.out_path = r.out_path
  <2>1. n = [r EXCEPT !.progress = i, !.message = "episode"] /\ r \in Status /\ i \in Nat
    BY <1>1, <1>3, <1>6, <1>8, <1>9
  <2> QED BY <2>1 DEF Status
<1>11. exports[x].out \in Paths
  BY <1>3, <1>6, LayoutOf
<1>12. PICK q : q = exports[x].out
  OBVIOUS
<1>13. PICK f : f = folders[q]
  OBVIOUS
<1>14. PICK eps : eps = Append(f.episodes, ep)
  OBVIOUS
<1>15. Folder(f) /\ f = [by |-> f.by, episodes |-> f.episodes, whole |-> f.whole] /\ Sequence(eps)
  BY <1>6, <1>11, <1>12, <1>13, <1>14, SequenceGrows DEF FoldersOK, Folder
<1>16. PICK g : g = [f EXCEPT !.episodes = eps]
  OBVIOUS
<1>17. g = [by |-> f.by, episodes |-> eps, whole |-> f.whole]
  BY <1>15, <1>16
<1>18. Folder(g)
  BY <1>15, <1>17 DEF Folder
<1>19. folders' = [folders EXCEPT ![q] = g]
  BY <1>3, <1>12, <1>13, <1>14, <1>16 DEF Adds
<1>20. FoldersOK' /\ folders'[q] = g /\ \A p \in Paths \ {q} : folders'[p] = folders[p]
  BY <1>6, <1>11, <1>12, <1>18, <1>19, FolderSet
<1>21. Goes(x, "episode") /\ exports'[x].at = exports[x].at + 1
  BY <1>3, <1>6, OnwardGoes
<1>22. /\ folders'[q].by = folders[q].by /\ folders'[q].whole = folders[q].whole
       /\ folders'[q].episodes = Append(folders[q].episodes, ep)
  BY <1>13, <1>14, <1>17, <1>20
<1>23. export' \in Status' /\ StatusSame /\ export'.message = "episode" /\ export'.progress = exports[x].at
  BY <1>1, <1>7, <1>8, <1>9, <1>10 DEF StatusSame
<1> QED BY <1>1, <1>3, <1>4, <1>5, <1>7, <1>12, <1>20, <1>21, <1>22, <1>23

LEMMA FinalizeDoes ==
  ASSUME ReadInv, NEW x \in DOMAIN exports, Finalize(x)
  PROVE  /\ Goes(x, "reset") /\ exports'[x].at = exports[x].at /\ exports[x].pc = "episode"
         /\ exports[x].at \notin DOMAIN Layout[exports[x].eps]
         /\ export' \in Status /\ StatusSame /\ export'.message = "done" /\ export'.progress = export.total
         /\ FoldersOK' /\ folders'[exports[x].out].by = folders[exports[x].out].by
         /\ folders'[exports[x].out].whole = TRUE /\ folders'[exports[x].out].episodes = folders[exports[x].out].episodes
         /\ \A p \in Paths \ {exports[x].out} : folders'[p] = folders[p]
<1>3. /\ Now(x, "reset") /\ exports[x].pc = "episode" /\ exports[x].at \notin DOMAIN Layout[exports[x].eps]
      /\ export' = [export EXCEPT !.message = "done", !.progress = export.total]
      /\ folders' = [folders EXCEPT ![exports[x].out].whole = TRUE]
  BY DEF Finalize, At
<1>6. ExportsOK /\ export \in Status /\ FoldersOK /\ {"episode", "reset"} \subseteq Settled /\ Settled \subseteq Pcs
  BY DEF ReadInv, Types, Settled, Working, Pcs
<1>7. Status' = Status
  BY DEF Status, Paths
<1>8. PICK r : r = export
  OBVIOUS
<1>9. PICK n : n = export'
  OBVIOUS
<1>10. n \in Status /\ n.progress = r.total /\ n.running = r.running /\ n.total = r.total
       /\ n.message = "done" /\ n.out_path = r.out_path
  <2>1. n = [r EXCEPT !.message = "done", !.progress = r.total] /\ r \in Status
    BY <1>3, <1>6, <1>8, <1>9
  <2> QED BY <2>1 DEF Status
<1>11. exports[x].out \in Paths
  BY <1>3, <1>6, LayoutOf
<1>12. PICK q : q = exports[x].out
  OBVIOUS
<1>13. PICK f : f = folders[q]
  OBVIOUS
<1>15. Folder(f) /\ f = [by |-> f.by, episodes |-> f.episodes, whole |-> f.whole]
  BY <1>6, <1>11, <1>12, <1>13 DEF FoldersOK, Folder
<1>16. PICK g : g = [f EXCEPT !.whole = TRUE]
  OBVIOUS
<1>17. g = [by |-> f.by, episodes |-> f.episodes, whole |-> TRUE]
  BY <1>15, <1>16
<1>18. Folder(g)
  BY <1>15, <1>17 DEF Folder
<1>19. folders' = [folders EXCEPT ![q] = g]
  BY <1>3, <1>12, <1>13, <1>16
<1>20. FoldersOK' /\ folders'[q] = g /\ \A p \in Paths \ {q} : folders'[p] = folders[p]
  BY <1>6, <1>11, <1>12, <1>18, <1>19, FolderSet
<1>21. Goes(x, "reset") /\ exports'[x].at = exports[x].at
  BY <1>3, <1>6, NowGoes
<1>22. folders'[q].by = folders[q].by /\ folders'[q].whole = TRUE /\ folders'[q].episodes = folders[q].episodes
  BY <1>13, <1>17, <1>20
<1>23. export' \in Status' /\ StatusSame /\ export'.message = "done" /\ export'.progress = export.total
  BY <1>7, <1>8, <1>9, <1>10 DEF StatusSame
<1> QED BY <1>3, <1>7, <1>12, <1>20, <1>21, <1>22, <1>23

LEMMA FailsDoes ==
  ASSUME ReadInv, NEW x \in DOMAIN exports, Fails(x)
  PROVE  /\ Goes(x, "reset") /\ exports'[x].at = exports[x].at /\ exports[x].pc \in {"create", "episode"} /\ folders' = folders
         /\ export' \in Status /\ StatusSame /\ export'.message = "failed" /\ export'.progress = export.progress
<1>3. /\ Now(x, "reset") /\ exports[x].pc \in {"create", "episode"} /\ folders' = folders
      /\ export' = [export EXCEPT !.error = TRUE, !.message = "failed"]
  BY DEF Fails, Working
<1>6. ExportsOK /\ export \in Status /\ "reset" \in Pcs
  BY DEF ReadInv, Types, Working, Pcs
<1>7. Status' = Status
  BY DEF Status, Paths
<1>8. PICK r : r = export
  OBVIOUS
<1>9. PICK n : n = export'
  OBVIOUS
<1>10. n \in Status /\ n.progress = r.progress /\ n.running = r.running /\ n.total = r.total
       /\ n.message = "failed" /\ n.out_path = r.out_path
  <2>1. n = [r EXCEPT !.error = TRUE, !.message = "failed"] /\ r \in Status
    BY <1>3, <1>6, <1>8, <1>9
  <2> QED BY <2>1 DEF Status
<1>23. export' \in Status' /\ StatusSame /\ export'.message = "failed" /\ export'.progress = export.progress
  BY <1>7, <1>8, <1>9, <1>10 DEF StatusSame
<1> QED BY <1>3, <1>6, <1>7, <1>23, NowGoes

LEMMA ResetDoes ==
  ASSUME ReadInv, NEW x \in DOMAIN exports, Reset(x)
  PROVE  /\ Goes(x, "ended") /\ exports'[x].at = exports[x].at /\ exports[x].pc = "reset" /\ folders' = folders
         /\ export' \in Status /\ export'.total = export.total /\ export'.out_path = export.out_path
         /\ export'.message = export.message /\ export'.progress = export.progress
<1>3. /\ Now(x, "ended") /\ exports[x].pc = "reset" /\ folders' = folders /\ export' = [export EXCEPT !.running = FALSE]
  BY DEF Reset
<1>6. ExportsOK /\ export \in Status /\ "ended" \in Pcs
  BY DEF ReadInv, Types, Pcs
<1>7. Status' = Status
  BY DEF Status, Paths
<1>8. PICK r : r = export
  OBVIOUS
<1>9. PICK n : n = export'
  OBVIOUS
<1>10. n \in Status /\ n.progress = r.progress /\ n.total = r.total /\ n.message = r.message /\ n.out_path = r.out_path
  <2>1. n = [r EXCEPT !.running = FALSE] /\ r \in Status
    BY <1>3, <1>6, <1>8, <1>9
  <2> QED BY <2>1 DEF Status
<1>23. /\ export' \in Status' /\ export'.total = export.total /\ export'.out_path = export.out_path
       /\ export'.message = export.message /\ export'.progress = export.progress
  BY <1>7, <1>8, <1>9, <1>10
<1> QED BY <1>3, <1>6, <1>7, <1>23, NowGoes

\* Most steps leave alone what is written and who writes.
Quiet ==
  /\ export' = export /\ folders' = folders
  /\ \A x \in DOMAIN exports' : exports'[x].pc \in Settled =>
       x \in DOMAIN exports /\ exports[x].pc \in Settled /\ exports'[x] = exports[x]
Takes(x) == Claim(x) /\ ~export.running
Puts(x) == Create(x) \/ SkipEpisode(x) \/ WriteEpisode(x) \/ Finalize(x) \/ Fails(x) \/ Reset(x)
LEMMA QuietSteps ==
  ASSUME ReadInv, ExportNext
  PROVE  Quiet \/ Crash \/ \E x \in DOMAIN exports : Takes(x) \/ Puts(x)
<1>0. ExportsOK /\ StateOK
  BY DEF ReadInv, Types
<1>p. Settled = {"create", "episode", "reset", "ended"} /\ "root" \in Pcs
  BY DEF Settled, Working, Pcs, Begun
<1>1. ASSUME NEW x \in DOMAIN exports, Others(x), export' = export, folders' = folders, exports'[x].pc \notin Settled
      PROVE  Quiet
  BY <1>1 DEF Quiet, Others
<1>2. ASSUME NEW l, Assign(l) PROVE Quiet
  <2>1. DOMAIN exports' = DOMAIN exports /\ \A x \in DOMAIN exports : Marked(x)
    BY <1>0, <1>2, AssignMarks DEF Assign
  <2>2. export' = export /\ folders' = folders
    BY <1>2 DEF Assign, AssignBegun
  <2> QED BY <1>p, <2>1, <2>2 DEF Quiet, Marked, Snapping
<1>3. ASSUME NEW out \in Targets, NEW trims \in TrimChoices, AskExport(out, trims) PROVE Quiet
  <2>1. PICK n : n = Len(exports) + 1
    OBVIOUS
  <2>2. DOMAIN exports' = DOMAIN exports \cup {n} /\ exports'[n].pc = "compare"
        /\ \A y \in DOMAIN exports : exports'[y] = exports[y]
    BY <1>0, <1>3, <2>1, AskAdds
  <2>3. export' = export /\ folders' = folders
    BY <1>3 DEF AskExport
  <2> QED BY <1>p, <2>2, <2>3 DEF Quiet
<1>4. ASSUME NEW x \in DOMAIN exports, Compare(x) PROVE Quiet
  <2>1. (Vanish(x) \/ Now(x, "root")) /\ export' = export /\ folders' = folders
    BY <1>4 DEF Compare
  <2>2. Others(x) /\ exports'[x].pc \in {"died", "root"}
    BY <1>0, <1>p, <2>1, LeaveEnds, NowGoes DEF Ends, Goes
  <2> QED BY <1>1, <1>p, <2>1, <2>2
<1>5. ASSUME NEW x \in DOMAIN exports, TakeRoot(x) \/ TakeInfo(x) \/ TakeEpisodes(x) PROVE Quiet
  <2>1. export' = export /\ folders' = folders
    BY <1>5 DEF TakeRoot, TakeInfo, TakeEpisodes
  <2>2. Others(x) /\ exports'[x].pc \in {"info", "episodes", "claim"}
    BY <1>0, <1>5, RootReads, InfoReads, EpisodesReads DEF Reads
  <2> QED BY <1>1, <1>p, <2>1, <2>2
<1>6. ASSUME NEW x \in DOMAIN exports, PrepareFails(x) \/ (Claim(x) /\ export.running) PROVE Quiet
  <2>1. Vanish(x) /\ export' = export /\ folders' = folders
    BY <1>6 DEF PrepareFails, Claim
  <2>2. Others(x) /\ exports'[x].pc = "died"
    BY <1>0, <2>1, LeaveEnds DEF Ends
  <2> QED BY <1>1, <1>p, <2>1, <2>2
<1>7. CASE (\E i \in 1..Max({Len(Layout[d]) : d \in Datasets}) : episode_frames(i)) \/ (\E v \in DOMAIN views : ReadFrames(v))
            \/ \E d \in Datasets : Load(d)
  BY <1>7 DEF episode_frames, ReadFrames, Load, Quiet
<1> QED BY <1>2, <1>3, <1>4, <1>5, <1>6, <1>7 DEF ExportNext, Handlers, Loader, Thread, Takes, Puts

\* Each step of the thread that writes goes on, and only the last lets go.
LEMMA PutsGoes ==
  ASSUME ReadInv, NEW x \in DOMAIN exports, Puts(x)
  PROVE  /\ exports[x].pc \in Working /\ Others(x) /\ exports'[x].pc \in {"episode", "reset", "ended"} /\ SameOf(x)
         /\ export' \in Status /\ export'.total = export.total /\ export'.out_path = export.out_path
         /\ exports'[x].pc # "ended" => export'.running = export.running
         /\ FoldersOK' /\ \A p \in Paths \ {exports[x].out} : folders'[p] = folders[p]
<1>0. FoldersOK /\ export \in Status /\ Status' = Status
  BY DEF ReadInv, Types, Status, Paths
<1>p. {"create", "episode", "reset"} = Working
  BY DEF Working
<1>s. UNCHANGED folders => FoldersOK'
  BY <1>0 DEF FoldersOK, Folder, Sequence, Paths
<1>1. CASE Create(x)
  BY <1>0, <1>1, <1>p, CreateDoes DEF Goes, SameOf
<1>2. CASE SkipEpisode(x)
  BY <1>0, <1>2, <1>p, <1>s, SkipDoes DEF Goes, SameOf, StatusSame
<1>3. CASE WriteEpisode(x)
  BY <1>0, <1>3, <1>p, WriteDoes DEF Goes, SameOf, StatusSame
<1>4. CASE Finalize(x)
  BY <1>0, <1>4, <1>p, FinalizeDoes DEF Goes, SameOf, StatusSame
<1>5. CASE Fails(x)
  BY <1>0, <1>5, <1>p, <1>s, FailsDoes DEF Goes, SameOf, StatusSame
<1>6. CASE Reset(x)
  BY <1>0, <1>6, <1>p, <1>s, ResetDoes DEF Goes, SameOf
<1> QED BY <1>1, <1>2, <1>3, <1>4, <1>5, <1>6 DEF Puts

LEMMA WorkTypes == ReadInv /\ ExportNext => export' \in Status' /\ FoldersOK'
<1> SUFFICES ASSUME ReadInv, ExportNext PROVE export' \in Status' /\ FoldersOK'
  OBVIOUS
<1>0. FoldersOK /\ export \in Status /\ Status' = Status
  BY DEF ReadInv, Types, Status, Paths
<1>s. UNCHANGED folders => FoldersOK'
  BY <1>0 DEF FoldersOK, Folder, Sequence, Paths
<1>1. CASE Quiet
  BY <1>0, <1>s, <1>1 DEF Quiet
<1>2. CASE Crash
  BY <1>0, <1>s, <1>2 DEF Crash, NoExport, Status
<1>3. ASSUME NEW x \in DOMAIN exports, Takes(x) PROVE export' \in Status /\ FoldersOK'
  BY <1>s, <1>3, ClaimDoes DEF Takes
<1>4. ASSUME NEW x \in DOMAIN exports, Puts(x) PROVE export' \in Status /\ FoldersOK'
  BY <1>4, PutsGoes
<1> QED BY <1>0, <1>1, <1>2, <1>3, <1>4, QuietSteps

\* After the process has ended nobody writes and the status is as at the start.
LEMMA CrashQuiet ==
  ASSUME ReadInv, Crash
  PROVE  /\ DOMAIN exports' = DOMAIN exports /\ folders' = folders /\ export' = NoExport
         /\ \A x \in DOMAIN exports : Stopped(x) /\ exports'[x].pc \in {"ended", "died"}
<1>1. DOMAIN exports' = DOMAIN exports /\ \A x \in DOMAIN exports : Stopped(x)
  BY CrashStops DEF ReadInv, Types
<1> QED BY <1>1 DEF Crash, Stopped

\* Two requests may be told that their export has started; one thread writes.
LEMMA WriterStep == ReadInv /\ OneWriter /\ ExportNext => OneWriter'
<1> SUFFICES ASSUME ReadInv, OneWriter, ExportNext PROVE OneWriter'
  OBVIOUS
<1>p. Working = {"create", "episode", "reset"} /\ Working \subseteq Settled
  BY DEF Working, Settled
<1>1. CASE Quiet
  BY <1>1, <1>p DEF Quiet, OneWriter
<1>2. CASE Crash
  BY <1>2, <1>p, CrashQuiet DEF OneWriter
<1>3. ASSUME NEW x \in DOMAIN exports, Takes(x) PROVE OneWriter'
  <2>1. \A y \in DOMAIN exports : exports[y].pc \notin Working
    BY <1>3 DEF Takes, OneWriter
  <2>2. Goes(x, "create") /\ export'.running /\ export'.out_path = exports[x].out
    BY <1>3, ClaimDoes DEF Takes
  <2> QED BY <2>1, <2>2 DEF Goes, Others, OneWriter
<1>4. ASSUME NEW x \in DOMAIN exports, Puts(x) PROVE OneWriter'
  <2>1. /\ exports[x].pc \in Working /\ Others(x) /\ exports'[x].pc \in {"episode", "reset", "ended"} /\ SameOf(x)
        /\ export'.out_path = export.out_path
        /\ exports'[x].pc # "ended" => export'.running = export.running
    BY <1>4, PutsGoes
  <2>2. \A y \in DOMAIN exports : exports[y].pc \in Working => y = x
    BY <2>1 DEF OneWriter
  <2>3. export.running /\ export.out_path = exports[x].out
    BY <2>1 DEF OneWriter
  <2>4. ASSUME NEW y \in DOMAIN exports', exports'[y].pc \in Working PROVE y = x /\ exports'[x].pc # "ended"
    <3>1. CASE y # x
      <4>1. y \in DOMAIN exports /\ exports'[y] = exports[y]
        BY <2>1, <3>1 DEF Others
      <4> QED BY <2>2, <2>4, <3>1, <4>1
    <3>2. CASE y = x
      BY <1>p, <2>4, <3>2
    <3> QED BY <3>1, <3>2
  <2> QED BY <2>1, <2>3, <2>4 DEF SameOf, OneWriter
<1> QED BY <1>1, <1>2, <1>3, <1>4, QuietSteps

\* A thread starts with the first episode.
LEMMA FreshStep == ReadInv /\ FreshInv /\ ExportNext => FreshInv'
<1> SUFFICES ASSUME ReadInv, FreshInv, ExportNext PROVE FreshInv'
  OBVIOUS
<1>0. ExportsOK /\ StateOK
  BY DEF ReadInv, Types
<1>p. Begun \cup {"claim", "create"} = {"compare", "root", "info", "episodes", "claim", "create"}
      /\ {"compare", "root", "info", "episodes", "claim", "create"} \subseteq Pcs
  BY DEF Begun, Pcs, Working
<1>1. ASSUME NEW x \in DOMAIN exports, Others(x),
             exports'[x].pc \in Begun \cup {"claim", "create"} =>
               exports[x].pc \in Begun \cup {"claim", "create"} /\ exports'[x].at = exports[x].at
      PROVE  FreshInv'
  BY <1>1 DEF FreshInv, Others
<1>2. ASSUME NEW l, Assign(l) PROVE FreshInv'
  <2>1. DOMAIN exports' = DOMAIN exports /\ \A x \in DOMAIN exports : Marked(x)
    BY <1>0, <1>2, AssignMarks DEF Assign
  <2> QED BY <2>1 DEF FreshInv, Marked
<1>3. ASSUME NEW out \in Targets, NEW trims \in TrimChoices, AskExport(out, trims) PROVE FreshInv'
  <2>1. PICK n : n = Len(exports) + 1
    OBVIOUS
  <2>2. DOMAIN exports' = DOMAIN exports \cup {n} /\ exports'[n].at = 1 /\ \A y \in DOMAIN exports : exports'[y] = exports[y]
    BY <1>0, <1>3, <2>1, AskAdds
  <2> QED BY <2>2 DEF FreshInv
<1>4. ASSUME NEW x \in DOMAIN exports, Compare(x) PROVE FreshInv'
  <2>1. (Vanish(x) \/ Now(x, "root")) /\ exports[x].pc = "compare"
    BY <1>4 DEF Compare
  <2>2. CASE Vanish(x)
    <3>1. Others(x) /\ exports'[x].pc = "died"
      BY <1>0, <2>2, LeaveEnds DEF Ends
    <3> QED BY <1>1, <1>p, <3>1
  <2>3. CASE Now(x, "root")
    <3>1. Others(x) /\ exports'[x].at = exports[x].at
      BY <1>0, <1>p, <2>3, NowGoes DEF Goes
    <3> QED BY <1>1, <1>p, <2>1, <3>1
  <2> QED BY <2>1, <2>2, <2>3
<1>5. ASSUME NEW x \in DOMAIN exports, TakeRoot(x) \/ TakeInfo(x) \/ TakeEpisodes(x) PROVE FreshInv'
  <2>1. exports[x].pc \in {"root", "info", "episodes"}
    BY <1>5 DEF TakeRoot, TakeInfo, TakeEpisodes
  <2>2. Others(x) /\ exports'[x].at = exports[x].at
    BY <1>0, <1>5, RootReads, InfoReads, EpisodesReads DEF Reads
  <2> QED BY <1>1, <1>p, <2>1, <2>2
<1>6. ASSUME NEW x \in DOMAIN exports, PrepareFails(x) \/ Claim(x) PROVE FreshInv'
  <2>1. (Vanish(x) \/ Now(x, "create")) /\ exports[x].pc = "claim"
    BY <1>6 DEF PrepareFails, Claim
  <2>2. CASE Vanish(x)
    <3>1. Others(x) /\ exports'[x].pc = "died"
      BY <1>0, <2>2, LeaveEnds DEF Ends
    <3> QED BY <1>1, <1>p, <3>1
  <2>3. CASE Now(x, "create")
    <3>1. Others(x) /\ exports'[x].at = exports[x].at
      BY <1>0, <1>p, <2>3, NowGoes DEF Goes
    <3> QED BY <1>1, <1>p, <2>1, <3>1
  <2> QED BY <2>1, <2>2, <2>3
<1>7. ASSUME NEW x \in DOMAIN exports, Puts(x) PROVE FreshInv'
  <2>1. Others(x) /\ exports'[x].pc \in {"episode", "reset", "ended"}
    BY <1>7, PutsGoes
  <2> QED BY <1>1, <1>p, <2>1
<1>8. CASE Crash
  <2>1. DOMAIN exports' = DOMAIN exports /\ \A x \in DOMAIN exports : exports'[x].pc \in {"ended", "died"}
    BY <1>8, CrashQuiet
  <2> QED BY <1>p, <2>1 DEF FreshInv
<1>9. CASE (\E i \in 1..Max({Len(Layout[d]) : d \in Datasets}) : episode_frames(i)) \/ (\E v \in DOMAIN views : ReadFrames(v))
            \/ \E d \in Datasets : Load(d)
  BY <1>9 DEF episode_frames, ReadFrames, Load, FreshInv
<1> QED BY <1>2, <1>3, <1>4, <1>5, <1>6, <1>7, <1>8, <1>9 DEF ExportNext, Handlers, Loader, Thread, Puts

-----------------------------------------------------------------------------
(* How far the status is and what lies in the folders.                     *)

\* How far the thread is that writes, and what the status says of it.
Counts(x) ==
  /\ export.progress <= export.total
  /\ exports[x].pc \in Working => export.total = Len(Layout[exports[x].eps]) /\ exports[x].at <= export.total + 1
  /\ exports[x].pc \in {"create", "episode"} => export.message # "done"
Only(x) == \A y \in DOMAIN exports : exports[y].pc \in Working => y = x
\* A step that leaves the status and those who write alone counts nothing.
LEMMA CountStep == ReadInv /\ OneWriter /\ CountInv /\ FreshInv /\ ExportNext => CountInv'
<1> SUFFICES ASSUME ReadInv, OneWriter, CountInv, FreshInv, ExportNext PROVE CountInv'
  OBVIOUS
<1>p. Working = {"create", "episode", "reset"} /\ Working \subseteq Settled
  BY DEF Working, Settled
<1>1. CASE Quiet
  BY <1>1, <1>p DEF Quiet, CountInv
<1>2. CASE Crash
  <2>1. DOMAIN exports' = DOMAIN exports /\ export' = NoExport
        /\ \A x \in DOMAIN exports : exports'[x].pc \in {"ended", "died"}
    BY <1>2, CrashQuiet
  <2>2. export'.progress = 0 /\ export'.total = 0
    BY <2>1 DEF NoExport
  <2>3. \A x \in DOMAIN exports' : exports'[x].pc \notin Working
    BY <1>p, <2>1
  <2> QED BY <1>p, <2>2, <2>3 DEF CountInv
\* Only one thread works: what holds of it holds of all.
<1>a. ASSUME NEW x \in DOMAIN exports, Others(x), Only(x), Counts(x)' PROVE CountInv'
  <2>1. ASSUME NEW y \in DOMAIN exports', y # x PROVE exports'[y].pc \notin Working
    BY <1>a, <2>1 DEF Others, Only
  <2> QED BY <1>p, <1>a, <2>1 DEF CountInv, Counts
<1>3. ASSUME NEW x \in DOMAIN exports, Takes(x) PROVE CountInv'
  <2>1. Only(x)
    BY <1>3 DEF Takes, OneWriter, Only
  <2>2. /\ Goes(x, "create") /\ exports'[x].at = exports[x].at /\ exports[x].pc = "claim" /\ export'.message = "starting"
        /\ export'.progress = 0 /\ export'.total = Len(Layout[exports[x].eps])
    BY <1>3, ClaimDoes DEF Takes
  <2>3. exports[x].at = 1 /\ Len(Layout[exports[x].eps]) \in Nat
    BY <2>2, LayoutOf DEF FreshInv
  <2>4. Counts(x)'
    BY <2>2, <2>3 DEF Goes, Counts
  <2> QED BY <1>a, <2>1, <2>2, <2>4 DEF Goes
<1>4. ASSUME NEW x \in DOMAIN exports, Puts(x) PROVE CountInv'
  <2>1. /\ exports[x].pc \in Working /\ Others(x) /\ exports'[x].eps = exports[x].eps /\ export'.total = export.total
    BY <1>4, PutsGoes DEF SameOf
  <2>2. Only(x)
    BY <2>1 DEF OneWriter, Only
  <2>3. /\ export.total = Len(Layout[exports[x].eps]) /\ exports[x].at <= export.total + 1 /\ export.progress <= export.total
        /\ exports[x].pc \in {"create", "episode"} => export.message # "done"
    BY <2>1 DEF CountInv
  <2>4. DOMAIN Layout[exports[x].eps] = 1..export.total /\ export.total \in Nat /\ export.progress \in Nat
        /\ exports[x].at \in Nat
    BY <1>p, <2>1, <2>3, LayoutOf, StatusFields DEF ReadInv, Types
  <2>5. ASSUME Create(x) PROVE Counts(x)'
    <3>1. export' = export /\ exports'[x].at = exports[x].at /\ exports[x].pc = "create"
      BY <2>5, CreateDoes
    <3> QED BY <2>1, <2>3, <3>1 DEF Counts
  <2>6. ASSUME SkipEpisode(x) PROVE Counts(x)'
    <3>1. /\ exports'[x].at = exports[x].at + 1 /\ exports[x].pc = "episode" /\ exports[x].at \in 1..export.total
          /\ export'.message = export.message /\ export'.progress \in {export.progress, exports[x].at}
      BY <2>4, <2>6, SkipDoes
    <3>2. exports[x].at <= export.total /\ exports[x].at + 1 <= export.total + 1
      BY <2>4, <3>1
    <3>3. export'.progress <= export'.total /\ exports'[x].at <= export'.total + 1
      BY <2>1, <2>3, <3>1, <3>2
    <3> QED BY <2>1, <2>3, <3>1, <3>3 DEF Counts
  <2>7. ASSUME WriteEpisode(x) PROVE Counts(x)'
    <3>1. /\ exports'[x].at = exports[x].at + 1 /\ exports[x].at \in 1..export.total
          /\ export'.message = "episode" /\ export'.progress = exports[x].at
      BY <2>4, <2>7, WriteDoes
    <3>2. export'.progress <= export'.total /\ exports'[x].at <= export'.total + 1
      BY <2>1, <2>3, <2>4, <3>1
    <3> QED BY <2>1, <2>3, <3>1, <3>2 DEF Counts
  <2>8. ASSUME Finalize(x) PROVE Counts(x)'
    <3>1. exports'[x].at = exports[x].at /\ export'.progress = export.total /\ exports'[x].pc = "reset"
      BY <2>8, FinalizeDoes DEF Goes
    <3> QED BY <2>1, <2>3, <2>4, <3>1 DEF Counts
  <2>9. ASSUME Fails(x) PROVE Counts(x)'
    <3>1. exports'[x].at = exports[x].at /\ export'.progress = export.progress /\ exports'[x].pc = "reset"
      BY <2>9, FailsDoes DEF Goes
    <3> QED BY <2>1, <2>3, <3>1 DEF Counts
  <2>10. ASSUME Reset(x) PROVE Counts(x)'
    <3>1. export'.progress = export.progress /\ exports'[x].pc = "ended"
      BY <2>10, ResetDoes DEF Goes
    <3> QED BY <1>p, <2>1, <2>3, <3>1 DEF Counts
  <2>11. Counts(x)'
    BY <1>4, <2>5, <2>6, <2>7, <2>8, <2>9, <2>10 DEF Puts
  <2> QED BY <1>a, <2>1, <2>2, <2>11
<1> QED BY <1>1, <1>2, <1>3, <1>4, QuietSteps

\* A folder that a step leaves alone is one as before.
LEMMA FolderStays ==
  ASSUME ExportsOK, ExportNext, NEW p, folders'[p] = folders[p], folders[p] = Absent \/ Written(p)
  PROVE  (folders[p] = Absent \/ Written(p))'
<1>1. CASE folders[p] = Absent
  BY <1>1 DEF Absent
<1>2. CASE folders[p].by = 0 /\ p \in Datasets
  BY <1>2 DEF Written
<1>3. CASE /\ folders[p].by \in DOMAIN exports /\ p \in NewPaths /\ exports[folders[p].by].out = p
           /\ exports[folders[p].by].pc \in {"episode", "reset", "ended"} /\ Content(p)
  <2>1. PICK x : x = folders[p].by
    OBVIOUS
  <2>2. x \in DOMAIN exports' /\ Later(x) /\ exports[x].pc \in {"episode", "reset", "ended"}
    BY <1>3, <2>1, AllLater
  <2>3. SameOf(x) /\ exports'[x].pc \in {"episode", "reset", "ended"}
    BY <2>2 DEF Later, Settled, Closed, Working
  <2>4. \A ep : Asks(x, ep)' <=> Asks(x, ep)
    BY <2>3, SameAsks
  <2>5. PICK f : f = folders[p]
    OBVIOUS
  <2>6. \A k \in DOMAIN f.episodes : Asks(x, f.episodes[k])
    BY <1>3, <2>1, <2>5 DEF Content
  <2>7. \A k \in DOMAIN f.episodes : Asks(x, f.episodes[k])'
    BY <2>4, <2>6
  <2>8. folders'[p] = f /\ folders'[p].by = x
    BY <2>1, <2>5
  <2>9. Content(p)'
    BY <2>7, <2>8 DEF Content
  <2> QED BY <1>3, <2>1, <2>2, <2>3, <2>8, <2>9 DEF SameOf, Written
<1> QED BY <1>1, <1>2, <1>3 DEF Written

\* What is there up to an episode stays so while nothing is written.
LEMMA UptoStays ==
  ASSUME ExportsOK, ExportNext, NEW p, NEW n, folders[p].by \in DOMAIN exports, exports[folders[p].by].pc \in Settled,
         folders'[p].by = folders[p].by, folders'[p].episodes = folders[p].episodes, Upto(p, n)
  PROVE  /\ Upto(p, n)' /\ exports'[folders[p].by].eps = exports[folders[p].by].eps
         /\ folders[p].by \in DOMAIN exports'
<1>1. PICK x : x = folders[p].by
  OBVIOUS
<1>2. SameOf(x) /\ x \in DOMAIN exports'
  BY <1>1, AllLater DEF Later
<1>3. \A i : Skipped(x, i)' <=> Skipped(x, i)
  BY <1>2, SameAsks
<1>4. PICK s : s = folders[p].episodes
  OBVIOUS
<1>5. PICK d : d = exports[x].eps
  OBVIOUS
<1>6. exports'[x].eps = d
  BY <1>2, <1>5 DEF SameOf
<1>7. /\ \A k \in DOMAIN s : s[k].of < n
      /\ \A k, m \in DOMAIN s : s[k].of = s[m].of => k = m
      /\ \A i \in DOMAIN Layout[d] : i < n /\ ~Skipped(x, i) => \E k \in DOMAIN s : s[k].of = i
  BY <1>1, <1>4, <1>5 DEF Upto
<1>8. \A i \in DOMAIN Layout[d] : i < n /\ ~Skipped(x, i)' => \E k \in DOMAIN s : s[k].of = i
  BY <1>3, <1>7
<1>9. Upto(p, n)'
  BY <1>1, <1>4, <1>6, <1>7, <1>8 DEF Upto
<1> QED BY <1>1, <1>2, <1>5, <1>6, <1>9

\* One more episode, which is written or left out.
LEMMA UptoSkips ==
  ASSUME NEW p, NEW n \in Nat, Upto(p, n), Skipped(folders[p].by, n),
         \A k \in DOMAIN folders[p].episodes : folders[p].episodes[k].of \in Nat,
         DOMAIN Layout[exports[folders[p].by].eps] \subseteq Nat
  PROVE  Upto(p, n + 1)
<1>1. \A k \in DOMAIN folders[p].episodes : folders[p].episodes[k].of < n + 1
  BY DEF Upto
<1>2. ASSUME NEW i \in DOMAIN Layout[exports[folders[p].by].eps], i < n + 1, ~Skipped(folders[p].by, i)
      PROVE  i < n
  BY <1>2
<1> QED BY <1>1, <1>2 DEF Upto
Covers(s, n, D, L) ==
  /\ \A k \in DOMAIN s : s[k].of < n
  /\ \A k, m \in DOMAIN s : s[k].of = s[m].of => k = m
  /\ \A i \in D : i < n /\ i \notin L => \E k \in DOMAIN s : s[k].of = i
LEMMA UptoWrites ==
  ASSUME NEW s, Sequence(s), NEW n \in Nat, NEW ep, ep.of = n, \A k \in DOMAIN s : s[k].of \in Nat,
         NEW D, D \subseteq Nat, NEW L, Covers(s, n, D, L), NEW t, t = Append(s, ep)
  PROVE  Covers(t, n + 1, D, L)
<1>1. PICK e : e = Len(s) + 1
  OBVIOUS
<1>2. DOMAIN t = DOMAIN s \cup {e} /\ t[e] = ep /\ (\A y \in DOMAIN s : t[y] = s[y]) /\ e \notin DOMAIN s
  BY <1>1, SequenceGrows
<1>c. /\ \A k \in DOMAIN s : s[k].of < n
      /\ \A k, m \in DOMAIN s : s[k].of = s[m].of => k = m
      /\ \A i \in D : i < n /\ i \notin L => \E k \in DOMAIN s : s[k].of = i
  BY DEF Covers
<1>3. \A k \in DOMAIN t : t[k].of < n + 1
  BY <1>2, <1>c
<1>4. \A k, m \in DOMAIN t : t[k].of = t[m].of => k = m
  BY <1>2, <1>c
<1>5. ASSUME NEW i \in D, i < n + 1, i \notin L PROVE \E k \in DOMAIN t : t[k].of = i
  <2>1. CASE i < n
    BY <1>2, <1>5, <1>c, <2>1
  <2>2. CASE i = n
    <3>1. e \in DOMAIN t /\ t[e].of = i
      BY <1>2, <2>2
    <3> QED BY <3>1
  <2>3. i \in Nat
    OBVIOUS
  <2>4. i < n \/ i = n
    BY <1>5, <2>3
  <2> QED BY <2>1, <2>2, <2>4
<1> QED BY <1>3, <1>4, <1>5 DEF Covers

\* What lies in a folder that is written in.
LEMMA FolderIs ==
  ASSUME ReadInv, FolderInv, WritesInv, NEW x \in DOMAIN exports, exports[x].pc = "episode"
  PROVE  /\ exports[x].out \in NewPaths /\ exports[x].out \in Paths /\ folders[exports[x].out].by = x
         /\ Content(exports[x].out) /\ Sequence(folders[exports[x].out].episodes)
         /\ \A k \in DOMAIN folders[exports[x].out].episodes : folders[exports[x].out].episodes[k].of \in Nat
<1>1. folders[exports[x].out].by = x /\ "episode" \in Settled
  BY DEF WritesInv, Settled, Working
<1>2. exports[x].out \in Paths /\ x \in 1..MaxExports /\ DOMAIN Layout[exports[x].eps] = 1..Len(Layout[exports[x].eps])
      /\ Len(Layout[exports[x].eps]) \in Nat
  BY <1>1, LayoutOf
<1>3. folders[exports[x].out] # Absent /\ x # 0
  BY <1>1, <1>2 DEF Absent, LayoutAssumption
<1>4. exports[x].out \in NewPaths /\ Content(exports[x].out)
  BY <1>1, <1>2, <1>3 DEF FolderInv, Written
<1>5. \A k \in DOMAIN folders[exports[x].out].episodes : folders[exports[x].out].episodes[k].of \in DOMAIN Layout[exports[x].eps]
  BY <1>1, <1>4 DEF Content, Asks
<1>6. Sequence(folders[exports[x].out].episodes)
  BY <1>2 DEF ReadInv, Types, FoldersOK, Folder
<1> QED BY <1>1, <1>2, <1>4, <1>5, <1>6

\* What lies in a folder is what the thread that made it was asked for.
LEMMA FolderStep == ReadInv /\ FolderInv /\ WritesInv /\ ExportNext => FolderInv'
<1> SUFFICES ASSUME ReadInv, FolderInv, WritesInv, ExportNext PROVE FolderInv'
  OBVIOUS
<1>0. ExportsOK /\ FoldersOK /\ Paths' = Paths /\ Datasets \subseteq Paths
  BY DEF ReadInv, Types, Paths
<1>1. ASSUME UNCHANGED folders PROVE FolderInv'
  <2>1. \A p \in Paths : folders'[p] = folders[p]
    BY <1>1
  <2>2. \A p \in Paths : (folders[p] = Absent \/ Written(p))'
    BY <1>0, <2>1, FolderStays DEF FolderInv
  <2> QED BY <1>0, <1>1, <2>2 DEF FolderInv
\* A thread changes the folder it was asked for.
<1>2. ASSUME NEW q \in NewPaths, \A p \in Paths \ {q} : folders'[p] = folders[p], (folders[q] = Absent \/ Written(q))'
      PROVE  FolderInv'
  <2>1. q \in Paths /\ q \notin Datasets
    BY DEF Paths, PathsAssumption
  <2>2. \A p \in Paths \ {q} : (folders[p] = Absent \/ Written(p))'
    BY <1>0, <1>2, FolderStays DEF FolderInv
  <2>3. \A p \in Datasets : folders'[p].by = 0
    BY <1>0, <1>2, <2>1 DEF FolderInv
  <2> QED BY <1>0, <1>2, <2>2, <2>3 DEF FolderInv
<1>3. ASSUME NEW x \in DOMAIN exports, Create(x) PROVE FolderInv'
  <2>1. PICK q : q = exports[x].out
    OBVIOUS
  <2>2. /\ Goes(x, "episode") /\ folders[q] = Absent /\ folders'[q] = [by |-> x, episodes |-> <<>>, whole |-> FALSE]
        /\ (\A p \in Paths \ {q} : folders'[p] = folders[p]) /\ exports[x].pc = "create"
    BY <1>3, <2>1, CreateDoes
  <2>3. q \in Paths
    BY <2>1, <2>2, LayoutOf DEF Settled, Working
  <2>4. q \in NewPaths
    BY <2>2, <2>3 DEF Absent, FolderInv, Paths
  <2>5. x \in DOMAIN exports' /\ exports'[x].out = q /\ exports'[x].pc = "episode"
    BY <2>1, <2>2 DEF Goes, Others
  <2>6. folders'[q].by = x /\ folders'[q].episodes = <<>>
    BY <2>2
  <2>7. Content(q)'
    BY <2>6 DEF Content
  <2>8. Written(q)'
    BY <2>4, <2>5, <2>6, <2>7 DEF Written
  <2> QED BY <1>2, <2>2, <2>4, <2>8
<1>4. ASSUME NEW x \in DOMAIN exports, WriteEpisode(x) PROVE FolderInv'
  <2>1. PICK q : q = exports[x].out
    OBVIOUS
  <2>2. PICK ep : /\ Asks(x, ep) /\ folders'[q].by = folders[q].by
                  /\ folders'[q].episodes = Append(folders[q].episodes, ep)
                  /\ \A p \in Paths \ {q} : folders'[p] = folders[p]
    BY <1>4, <2>1, WriteDoes
  <2>3. Goes(x, "episode") /\ exports[x].pc = "episode"
    BY <1>4, WriteDoes
  <2>4. q \in NewPaths /\ folders[q].by = x /\ Content(q) /\ Sequence(folders[q].episodes)
    BY <2>1, <2>3, FolderIs
  <2>5. SameOf(x) /\ x \in DOMAIN exports' /\ exports'[x].pc = "episode" /\ exports'[x].out = q
    BY <2>1, <2>3 DEF Goes, Others, SameOf
  <2>6. PICK s : s = folders[q].episodes
    OBVIOUS
  <2>7. PICK t : t = Append(s, ep)
    OBVIOUS
  <2>8. \A k \in DOMAIN t : (k \in DOMAIN s /\ t[k] = s[k]) \/ t[k] = ep
    BY <2>4, <2>6, <2>7, SequenceGrows
  <2>9. \A k \in DOMAIN s : Asks(x, s[k])
    BY <2>4, <2>6 DEF Content
  <2>10. \A k \in DOMAIN t : Asks(x, t[k])
    BY <2>2, <2>8, <2>9
  <2>11. \A k \in DOMAIN t : Asks(x, t[k])'
    BY <2>5, <2>10, SameAsks
  <2>12. folders'[q].episodes = t /\ folders'[q].by = x
    BY <2>2, <2>4, <2>6, <2>7
  <2>13. Content(q)'
    BY <2>11, <2>12 DEF Content
  <2>14. Written(q)'
    BY <2>4, <2>5, <2>12, <2>13 DEF Written
  <2> QED BY <1>2, <2>2, <2>4, <2>14
<1>5. ASSUME NEW x \in DOMAIN exports, Finalize(x) PROVE FolderInv'
  <2>1. PICK q : q = exports[x].out
    OBVIOUS
  <2>2. /\ Goes(x, "reset") /\ exports[x].pc = "episode" /\ folders'[q].by = folders[q].by
        /\ folders'[q].episodes = folders[q].episodes /\ \A p \in Paths \ {q} : folders'[p] = folders[p]
    BY <1>5, <2>1, FinalizeDoes
  <2>3. q \in NewPaths /\ folders[q].by = x /\ Content(q)
    BY <2>1, <2>2, FolderIs
  <2>4. SameOf(x) /\ x \in DOMAIN exports' /\ exports'[x].pc = "reset" /\ exports'[x].out = q
    BY <2>1, <2>2 DEF Goes, Others, SameOf
  <2>5. PICK s : s = folders[q].episodes
    OBVIOUS
  <2>6. \A k \in DOMAIN s : Asks(x, s[k])
    BY <2>3, <2>5 DEF Content
  <2>7. \A k \in DOMAIN s : Asks(x, s[k])'
    BY <2>4, <2>6, SameAsks
  <2>8. folders'[q].episodes = s /\ folders'[q].by = x
    BY <2>2, <2>3, <2>5
  <2>9. Content(q)'
    BY <2>7, <2>8 DEF Content
  <2>10. Written(q)'
    BY <2>3, <2>4, <2>8, <2>9 DEF Written
  <2> QED BY <1>2, <2>2, <2>3, <2>10
<1>6. ASSUME NEW x \in DOMAIN exports, SkipEpisode(x) \/ Fails(x) \/ Reset(x) \/ Takes(x) PROVE FolderInv'
  BY <1>1, <1>6 DEF SkipEpisode, Fails, Reset, Takes, Claim
<1>7. CASE Quiet \/ Crash
  BY <1>1, <1>7 DEF Quiet, Crash
<1> QED BY <1>3, <1>4, <1>5, <1>6, <1>7, QuietSteps DEF Puts

\* The thread that writes has come to the episode its request is at.
LEMMA WritesStep ==
  ReadInv /\ OneWriter /\ FreshInv /\ FolderInv /\ WritesInv /\ ExportNext => WritesInv'
<1> SUFFICES ASSUME ReadInv, OneWriter, FreshInv, FolderInv, WritesInv, ExportNext PROVE WritesInv'
  OBVIOUS
<1>0. ExportsOK
  BY DEF ReadInv, Types
<1>p. Working = {"create", "episode", "reset"} /\ Settled = {"create", "episode", "reset", "ended"}
  BY DEF Working, Settled
<1>1. CASE Quiet
  <2>1. ASSUME NEW y \in DOMAIN exports', exports'[y].pc = "episode"
        PROVE  folders'[exports'[y].out].by = y /\ ~folders'[exports'[y].out].whole /\ Upto(exports[y].out, exports[y].at)'
    <3>1. y \in DOMAIN exports /\ exports'[y] = exports[y] /\ folders' = folders /\ exports[y].pc = "episode"
      BY <1>1, <1>p, <2>1 DEF Quiet
    <3>2. PICK q : q = exports[y].out
      OBVIOUS
    <3>3. PICK n : n = exports[y].at
      OBVIOUS
    <3>4. folders[q].by = y /\ ~folders[q].whole /\ Upto(q, n)
      BY <3>1, <3>2, <3>3 DEF WritesInv
    <3>5. Upto(q, n)'
      BY <1>0, <1>p, <3>1, <3>4, UptoStays
    <3>6. exports'[y].out = q /\ exports'[y].at = n
      BY <3>1, <3>2, <3>3
    <3> QED BY <3>1, <3>2, <3>4, <3>5, <3>6
  <2> QED BY <2>1 DEF WritesInv
<1>2. CASE Crash
  <2>1. \A x \in DOMAIN exports' : exports'[x].pc \in {"ended", "died"}
    BY <1>2, CrashQuiet
  <2> QED BY <2>1 DEF WritesInv
\* Only one thread works: what holds of it holds of all.
<1>a. ASSUME NEW x \in DOMAIN exports, Others(x), \A y \in DOMAIN exports : exports[y].pc \in Working => y = x,
             exports'[x].pc = "episode" =>
               folders'[exports'[x].out].by = x /\ ~folders'[exports'[x].out].whole
               /\ \E q, n : q = exports'[x].out /\ n = exports'[x].at /\ Upto(q, n)'
      PROVE  WritesInv'
  <2>1. ASSUME NEW y \in DOMAIN exports', exports'[y].pc = "episode" PROVE y = x
    BY <1>a, <1>p, <2>1 DEF Others
  <2>2. exports'[x].pc = "episode" => Upto(exports[x].out, exports[x].at)'
    BY <1>a
  <2> QED BY <1>a, <2>1, <2>2 DEF WritesInv
<1>3. ASSUME NEW x \in DOMAIN exports, Takes(x) PROVE WritesInv'
  <2>1. \A y \in DOMAIN exports : exports[y].pc \notin Working
    BY <1>3 DEF Takes, OneWriter
  <2>2. Others(x) /\ exports'[x].pc = "create"
    BY <1>3, ClaimDoes DEF Takes, Goes
  <2> QED BY <1>a, <2>1, <2>2
<1>4. ASSUME NEW x \in DOMAIN exports, Puts(x) PROVE WritesInv'
  <2>1. exports[x].pc \in Working /\ Others(x)
    BY <1>4, PutsGoes
  <2>2. \A y \in DOMAIN exports : exports[y].pc \in Working => y = x
    BY <2>1 DEF OneWriter
  <2>q. PICK q : q = exports[x].out
    OBVIOUS
  <2>n. PICK n : n = exports[x].at
    OBVIOUS
  <2>d. PICK d : d = exports[x].eps
    OBVIOUS
  <2>3. n \in Nat \ {0} /\ DOMAIN Layout[d] = 1..Len(Layout[d]) /\ Len(Layout[d]) \in Nat
    BY <1>p, <2>1, <2>n, <2>d, LayoutOf
  <2>5. CASE Create(x)
    <3>1. /\ Goes(x, "episode") /\ exports'[x].at = exports[x].at /\ exports[x].pc = "create"
          /\ folders'[q] = [by |-> x, episodes |-> <<>>, whole |-> FALSE]
      BY <2>5, <2>q, CreateDoes
    <3>2. n = 1
      BY <2>n, <3>1 DEF FreshInv
    <3>3. exports'[x].out = q /\ exports'[x].at = n /\ exports'[x].eps = d
      BY <2>q, <2>n, <2>d, <3>1 DEF Goes
    <3>4. folders'[q].by = x /\ folders'[q].episodes = <<>> /\ folders'[q].whole = FALSE
      BY <3>1
    <3>5. Upto(q, n)'
      BY <2>3, <3>2, <3>3, <3>4 DEF Upto
    <3> QED BY <1>a, <2>1, <2>2, <3>3, <3>4, <3>5
  <2>6. CASE SkipEpisode(x)
    <3>1. /\ Goes(x, "episode") /\ exports'[x].at = n + 1 /\ exports[x].pc = "episode" /\ folders' = folders
          /\ n \in DOMAIN Layout[d] /\ Skipped(x, n)
      BY <2>6, <2>n, <2>d, SkipDoes
    <3>2. /\ folders[q].by = x /\ ~folders[q].whole /\ Upto(q, n)
          /\ \A k \in DOMAIN folders[q].episodes : folders[q].episodes[k].of \in Nat
      BY <2>q, <2>n, <3>1, FolderIs DEF WritesInv
    <3>3. Upto(q, n + 1)
      BY <2>3, <2>d, <3>1, <3>2, UptoSkips
    <3>4. PICK m : m = n + 1
      OBVIOUS
    <3>5. Upto(q, m)
      BY <3>3, <3>4
    <3>6. Upto(q, m)'
      BY <1>0, <1>p, <3>1, <3>2, <3>5, UptoStays
    <3>7. exports'[x].out = q /\ exports'[x].at = m
      BY <2>q, <3>1, <3>4 DEF Goes
    <3> QED BY <1>a, <2>1, <2>2, <3>1, <3>2, <3>6, <3>7
  <2>7. CASE WriteEpisode(x)
    <3>1. PICK ep : /\ Asks(x, ep) /\ ep.of = n /\ n \in DOMAIN Layout[d] /\ folders'[q].by = folders[q].by
                    /\ folders'[q].whole = folders[q].whole
                    /\ folders'[q].episodes = Append(folders[q].episodes, ep)
      BY <2>7, <2>q, <2>n, <2>d, WriteDoes
    <3>2. Goes(x, "episode") /\ exports'[x].at = n + 1 /\ exports[x].pc = "episode"
      BY <2>7, <2>n, WriteDoes
    <3>3. /\ folders[q].by = x /\ ~folders[q].whole /\ Upto(q, n) /\ Sequence(folders[q].episodes)
          /\ \A k \in DOMAIN folders[q].episodes : folders[q].episodes[k].of \in Nat
      BY <2>q, <2>n, <3>2, FolderIs DEF WritesInv
    <3>4. PICK s : s = folders[q].episodes
      OBVIOUS
    <3>5. PICK t : t = Append(s, ep)
      OBVIOUS
    <3>6. PICK L : L = {i \in DOMAIN Layout[d] : Skipped(x, i)}
      OBVIOUS
    <3>7. Sequence(s) /\ (\A k \in DOMAIN s : s[k].of \in Nat) /\ Covers(s, n, DOMAIN Layout[d], L)
      BY <2>d, <3>3, <3>4, <3>6 DEF Upto, Covers
    <3>8. Covers(t, n + 1, DOMAIN Layout[d], L)
      <4>1. PICK D : D = DOMAIN Layout[d]
        OBVIOUS
      <4>2. n \in Nat /\ D \subseteq Nat /\ Covers(s, n, D, L)
        BY <2>3, <3>7, <4>1
      <4>3. Sequence(s) /\ \A k \in DOMAIN s : s[k].of \in Nat
        BY <3>7
      <4>4. Covers(t, n + 1, D, L)
        BY <3>1, <3>5, <4>2, <4>3, UptoWrites
      <4> QED BY <4>1, <4>4
    <3>9. SameOf(x) /\ exports'[x].out = q /\ exports'[x].eps = d
      BY <2>q, <2>d, <3>2 DEF Goes, SameOf
    <3>10. \A i : Skipped(x, i)' <=> Skipped(x, i)
      BY <3>9, SameAsks
    <3>11. folders'[q].by = x /\ folders'[q].episodes = t
      BY <3>1, <3>3, <3>4, <3>5
    <3>12. PICK m : m = n + 1
      OBVIOUS
    <3>13. \A i \in DOMAIN Layout[d] : i < m /\ ~Skipped(x, i)' => \E k \in DOMAIN t : t[k].of = i
      BY <3>6, <3>8, <3>10, <3>12 DEF Covers
    <3>14. Upto(q, m)'
      BY <3>8, <3>9, <3>11, <3>12, <3>13 DEF Upto, Covers
    <3>15. exports'[x].at = m
      BY <3>2, <3>12
    <3> QED BY <1>a, <2>1, <2>2, <3>1, <3>3, <3>9, <3>11, <3>14, <3>15
  <2>8. CASE Finalize(x) \/ Fails(x) \/ Reset(x)
    <3>1. exports'[x].pc \in {"reset", "ended"}
      BY <2>8, FinalizeDoes, FailsDoes, ResetDoes DEF Goes
    <3> QED BY <1>a, <2>1, <2>2, <3>1
  <2> QED BY <1>4, <2>5, <2>6, <2>7, <2>8 DEF Puts
<1> QED BY <1>1, <1>2, <1>3, <1>4, QuietSteps

\* An export that says it is done has written all of its episodes.
LEMMA DoneStep == ReadInv /\ WorkInv /\ ExportNext => DoneInv'
<1> SUFFICES ASSUME ReadInv, WorkInv, ExportNext PROVE DoneInv'
  OBVIOUS
<1>0. ExportsOK /\ Paths' = Paths /\ export \in Status
  BY DEF ReadInv, Types, Paths
<1>p. Working = {"create", "episode", "reset"} /\ Settled = {"create", "episode", "reset", "ended"}
  BY DEF Working, Settled
\* What has been done stays.
<1>1. ASSUME export'.message = "done" => export.message = "done", folders' = folders, export'.out_path = export.out_path,
             export'.progress = export.progress, export'.total = export.total
      PROVE  DoneInv'
  <2> SUFFICES ASSUME export'.message = "done" PROVE DoneInv'
    BY DEF DoneInv
  <2>q. PICK q : q = export.out_path
    OBVIOUS
  <2>x. PICK x : x = folders[q].by
    OBVIOUS
  <2>d. PICK d : d = exports[x].eps
    OBVIOUS
  <2>n. PICK n : n = Len(Layout[d]) + 1
    OBVIOUS
  <2>1. /\ q \in Paths /\ folders[q].whole /\ x \in DOMAIN exports /\ export.progress = export.total /\ Upto(q, n)
    BY <1>1, <2>q, <2>x, <2>d, <2>n DEF WorkInv, DoneInv
  <2>2. x \in Nat \ {0}
    BY <1>0, <2>1, LenProperties DEF ExportsOK
  <2>3. exports[x].pc \in Settled
    <3>1. x # -1
      BY <2>2
    <3>2. folders[q] # Absent
      BY <2>x, <3>1 DEF Absent
    <3> QED BY <1>p, <2>x, <2>1, <2>2, <3>2 DEF WorkInv, FolderInv, Written
  <2>4. Upto(q, n)' /\ exports'[x].eps = d /\ x \in DOMAIN exports'
    BY <1>0, <1>1, <2>x, <2>d, <2>1, <2>3, UptoStays
  <2>5. export'.out_path = q /\ folders'[q].by = x
    BY <1>1, <2>q, <2>x
  <2>6. Upto(export.out_path, Len(Layout[exports[folders[export.out_path].by].eps]) + 1)'
    BY <2>n, <2>4, <2>5
  <2>7. q \in Paths' /\ folders'[q].whole /\ export'.progress = export'.total
    BY <1>0, <1>1, <2>1
  <2> QED BY <2>4, <2>5, <2>6, <2>7 DEF DoneInv
<1>2. ASSUME export'.message # "done" PROVE DoneInv'
  BY <1>2 DEF DoneInv
<1>3. CASE Quiet
  BY <1>1, <1>3 DEF Quiet
<1>4. CASE Crash
  <2>0. export' = NoExport
    BY <1>4, CrashQuiet
  <2>1. export'.message = ""
    BY <2>0 DEF NoExport
  <2> QED BY <1>2, <2>1
<1>5. ASSUME NEW x \in DOMAIN exports, Takes(x) PROVE DoneInv'
  <2>1. export'.message = "starting"
    BY <1>5, ClaimDoes DEF Takes
  <2> QED BY <1>2, <2>1
<1>6. ASSUME NEW x \in DOMAIN exports, Puts(x) PROVE DoneInv'
  <2>1. CASE Create(x)
    <3>1. export' = export /\ exports[x].pc = "create"
      BY <2>1, CreateDoes
    <3> QED BY <1>2, <3>1 DEF WorkInv, CountInv
  <2>2. CASE SkipEpisode(x)
    <3>1. export'.message = export.message /\ exports[x].pc = "episode"
      BY <2>2, SkipDoes
    <3> QED BY <1>2, <3>1 DEF WorkInv, CountInv
  <2>3. CASE WriteEpisode(x) \/ Fails(x)
    <3>1. export'.message \in {"episode", "failed"}
      BY <2>3, WriteDoes, FailsDoes
    <3> QED BY <1>2, <3>1
  <2>4. CASE Reset(x)
    <3>1. /\ export'.message = export.message /\ folders' = folders /\ export'.out_path = export.out_path
          /\ export'.progress = export.progress /\ export'.total = export.total
      BY <2>4, ResetDoes
    <3> QED BY <1>1, <3>1
  <2>5. CASE Finalize(x)
    <3>q. PICK q : q = exports[x].out
      OBVIOUS
    <3>n. PICK n : n = exports[x].at
      OBVIOUS
    <3>d. PICK d : d = exports[x].eps
      OBVIOUS
    <3>1. /\ Goes(x, "reset") /\ exports[x].pc = "episode" /\ n \notin DOMAIN Layout[d] /\ StatusSame
          /\ export'.progress = export.total /\ folders'[q].by = folders[q].by
          /\ folders'[q].whole = TRUE /\ folders'[q].episodes = folders[q].episodes
      BY <2>5, <3>q, <3>n, <3>d, FinalizeDoes
    <3>2. /\ q \in Paths /\ n \in Nat \ {0} /\ DOMAIN Layout[d] = 1..Len(Layout[d]) /\ Len(Layout[d]) \in Nat
      BY <1>p, <3>q, <3>n, <3>d, <3>1, LayoutOf
    <3>3. export.out_path = q /\ n <= Len(Layout[d]) + 1
      BY <1>p, <3>q, <3>n, <3>d, <3>1 DEF WorkInv, OneWriter, CountInv
    <3>4. n = Len(Layout[d]) + 1
      BY <3>1, <3>2, <3>3
    <3>5. folders[q].by = x /\ Upto(q, n)
      BY <3>q, <3>n, <3>1 DEF WorkInv, WritesInv
    <3>6. Upto(q, n)' /\ exports'[x].eps = d /\ x \in DOMAIN exports'
      BY <1>0, <1>p, <3>d, <3>1, <3>5, UptoStays
    <3>7. export'.out_path = q /\ folders'[q].by = x /\ export'.progress = export'.total
      BY <3>1, <3>3, <3>5 DEF StatusSame
    <3>8. Upto(export.out_path, Len(Layout[exports[folders[export.out_path].by].eps]) + 1)'
      BY <3>4, <3>6, <3>7
    <3> QED BY <1>0, <3>1, <3>2, <3>6, <3>7, <3>8 DEF DoneInv
  <2> QED BY <1>6, <2>1, <2>2, <2>3, <2>4, <2>5 DEF Puts
<1> QED BY <1>3, <1>4, <1>5, <1>6, QuietSteps

-----------------------------------------------------------------------------
(* The invariant holds.                                                    *)

LEMMA InitReads == ExportInit => ReadInv
<1> SUFFICES ASSUME ExportInit PROVE ReadInv
  OBVIOUS
<1>1. /\ dataset = Unloaded /\ loads = <<>> /\ exports = <<>> /\ export = NoExport /\ views = <<>> /\ mingled = FALSE
      /\ folders = [p \in Paths |-> IF p \in Datasets THEN [by |-> 0, episodes |-> <<>>, whole |-> TRUE] ELSE Absent]
  BY DEF ExportInit
<1>2. StateOK /\ \A part \in Names : dataset[part] = NoData
  BY <1>1, PartsAre DEF StateOK, Unloaded, Sets
<1>3. LoadsOK /\ ~Assigns
  BY <1>1 DEF LoadsOK, Assigns
<1>4. ExportsOK
  <2>1. exports \in Seq(Requests) /\ Len(exports) = 0
    BY <1>1
  <2> QED BY <2>1 DEF ExportsOK, LayoutAssumption
<1>5. export \in Status
  BY <1>1 DEF NoExport, Status
<1>6. FoldersOK
  <2>1. Sequence(<<>>)
    <3>1. <<>> \in Seq({})
      OBVIOUS
    <3> QED BY <3>1 DEF Sequence
  <2>2. 0 \in -1..MaxExports /\ -1 \in -1..MaxExports
    BY DEF LayoutAssumption
  <2>3. Folder([by |-> 0, episodes |-> <<>>, whole |-> TRUE])
    BY <2>1, <2>2 DEF Folder
  <2>4. Folder(Absent)
    BY <2>1, <2>2 DEF Folder, Absent
  <2>5. folders = [p \in Paths |-> folders[p]]
    BY <1>1
  <2>6. \A p \in Paths : Folder(folders[p])
    BY <1>1, <2>3, <2>4
  <2> QED BY <2>5, <2>6 DEF FoldersOK
<1>7. ViewsOK /\ LookInv /\ FramesOfEpisode
  <2>1. views \in Seq({}) /\ DOMAIN views = {}
    BY <1>1
  <2> QED BY <2>1 DEF ViewsOK, LookInv, FramesOfEpisode, Sequence
<1>8. LoadInv
  BY <1>1, <1>2, <1>3 DEF LoadInv, One, Names
<1>9. ReadyInv /\ SnapInv
  BY <1>1 DEF ReadyInv, SnapInv
<1> QED BY <1>1, <1>2, <1>3, <1>4, <1>5, <1>6, <1>7, <1>8, <1>9 DEF ReadInv, Types

LEMMA InitWorks == ExportInit => WorkInv
<1> SUFFICES ASSUME ExportInit PROVE WorkInv
  OBVIOUS
<1>1. /\ exports = <<>> /\ export = NoExport
      /\ folders = [p \in Paths |-> IF p \in Datasets THEN [by |-> 0, episodes |-> <<>>, whole |-> TRUE] ELSE Absent]
  BY DEF ExportInit
<1>2. OneWriter /\ FreshInv /\ WritesInv
  BY <1>1 DEF OneWriter, FreshInv, WritesInv
<1>3. export.progress = 0 /\ export.total = 0 /\ export.message = ""
  BY <1>1 DEF NoExport
<1>4. CountInv
  <2>1. DOMAIN exports = {}
    BY <1>1
  <2>2. export.progress <= export.total
    <3>1. export.progress = 0 /\ export.total = 0
      BY <1>3
    <3>2. \A m, n \in Nat : m = n => m <= n
      OBVIOUS
    <3>3. export.progress \in Nat /\ export.total \in Nat
      BY <3>1
    <3> QED BY <3>1, <3>2, <3>3
  <2> QED BY <2>1, <2>2 DEF CountInv
<1>5. DoneInv
  BY <1>3 DEF DoneInv
<1>6. \A p \in Datasets : p \in Paths /\ folders[p].by = 0
  BY <1>1 DEF Paths
<1>7. \A p \in Paths \ Datasets : folders[p] = Absent
  BY <1>1
<1>8. FolderInv
  BY <1>6, <1>7 DEF FolderInv, Written
<1> QED BY <1>2, <1>4, <1>5, <1>8 DEF WorkInv

LEMMA MingledStays == mingled \in BOOLEAN /\ ExportNext => mingled' \in BOOLEAN
BY DEF ExportNext, Handlers, Loader, Thread, Crash, episode_frames, ReadFrames, AskExport, Compare, TakeRoot, TakeInfo, TakeEpisodes,
       Load, Assign, AssignBegun, PrepareFails, Claim, Create, SkipEpisode, WriteEpisode, Finalize, Fails, Reset, Outside

LEMMA ReadStep == ReadInv /\ ExportNext => ReadInv'
<1> SUFFICES ASSUME ReadInv, ExportNext PROVE ReadInv'
  OBVIOUS
<1>1. LoadInv' /\ StateOK' /\ LoadsOK'
  BY LoadStep DEF ReadInv
<1>2. ViewsOK' /\ LookInv' /\ FramesOfEpisode'
  BY ViewStep
<1>3. ExportsOK' /\ ReadyInv' /\ SnapInv'
  BY RequestStep
<1>4. export' \in Status' /\ FoldersOK'
  BY WorkTypes
<1>5. mingled' \in BOOLEAN
  BY MingledStays DEF ReadInv, Types
<1> QED BY <1>1, <1>2, <1>3, <1>4, <1>5 DEF ReadInv, Types

LEMMA WorkStep == ReadInv /\ WorkInv /\ ExportNext => WorkInv'
BY WriterStep, CountStep, FreshStep, FolderStep, WritesStep, DoneStep DEF WorkInv

LEMMA ExportStep == ExportInv /\ [ExportNext]_exportVars => ExportInv'
<1> SUFFICES ASSUME ExportInv, [ExportNext]_exportVars PROVE ExportInv'
  OBVIOUS
<1>1. CASE ExportNext
  BY <1>1, ReadStep, WorkStep DEF ExportInv
<1>2. CASE UNCHANGED exportVars
  <2> USE <1>2 DEF exportVars
  <2>1. Types' /\ LoadInv' /\ LookInv' /\ FramesOfEpisode'
    BY DEF ExportInv, ReadInv, Types, StateOK, LoadsOK, Assigning, ExportsOK, FoldersOK, ViewsOK, LoadInv, Assigns, One, Half,
           LookInv, FramesOfEpisode, Shown, OwnFrames
  <2>2. ReadyInv' /\ SnapInv'
    BY DEF ExportInv, ReadInv, ReadyInv, SnapInv, _require_loaded
  <2>3. OneWriter' /\ CountInv' /\ FreshInv'
    BY DEF ExportInv, WorkInv, OneWriter, CountInv, FreshInv
  <2>4. FolderInv' /\ WritesInv' /\ DoneInv'
    <3>1. \A x : SameOf(x)
      BY DEF SameOf
    <3>2. \A x, i : Skipped(x, i)' <=> Skipped(x, i)
      BY <3>1, SameAsks
    <3>3. \A x, ep : Asks(x, ep)' <=> Asks(x, ep)
      BY <3>1, SameAsks
    <3>4. \A p : Content(p) => Content(p)'
      BY <3>3 DEF Content
    <3>5. \A p, n : Upto(p, n) => Upto(p, n)'
      BY <3>2 DEF Upto
    <3>6. FolderInv'
      BY <3>4 DEF ExportInv, WorkInv, FolderInv, Written
    <3>7. WritesInv' /\ DoneInv'
      BY <3>5 DEF ExportInv, WorkInv, WritesInv, DoneInv
    <3> QED BY <3>6, <3>7
  <2> QED BY <2>1, <2>2, <2>3, <2>4 DEF ExportInv, ReadInv, WorkInv
<1> QED BY <1>1, <1>2

LEMMA ExportInvHolds == ExportSpec => []ExportInv
<1>1. ExportInit => ExportInv
  BY InitReads, InitWorks DEF ExportInv
<1> QED BY <1>1, ExportStep, PTL DEF ExportSpec

-----------------------------------------------------------------------------
(* Requests that overlap.                                                  *)

LEMMA TypesShown == ExportInv => ExportTypeOK
<1> SUFFICES ASSUME ExportInv PROVE ExportTypeOK
  OBVIOUS
<1>0. StateOK /\ LoadsOK /\ ExportsOK /\ export \in Status /\ FoldersOK /\ ViewsOK
  BY DEF ExportInv, ReadInv, Types
<1>1. \A part \in ToSet(Parts) : dataset[part] \in Datasets \cup {NoData}
  BY <1>0, PartsAre DEF StateOK, Sets
<1>2. \A l \in DOMAIN loads : loads[l].of \in Datasets \cup {NoData} /\ loads[l].next \in 0..Len(Parts) + 1
  BY <1>0, LoadIs, PartsAre DEF Sets
<1>3. \A x \in DOMAIN exports :
        /\ exports[x].pc \in {"compare", "root", "info", "episodes", "claim", "died", "ended"} \cup Working
        /\ exports[x].out \in Paths \cup {NoData} /\ {exports[x].root, exports[x].info, exports[x].eps} \subseteq Datasets \cup {NoData}
  BY <1>0, RequestFields DEF Pcs, Begun, Sets
<1>4. /\ export.running \in BOOLEAN /\ export.error \in BOOLEAN /\ export.progress \in 0..export.total
      /\ export.message \in {"", "starting", "episode", "done", "failed"} /\ export.out_path \in Paths \cup {NoData}
  <2>1. export.progress <= export.total
    BY DEF ExportInv, WorkInv, CountInv
  <2>2. export.progress \in Nat /\ export.total \in Nat
    BY <1>0, StatusFields
  <2>3. export.progress \in 0..export.total
    BY <2>1, <2>2
  <2> QED BY <1>0, <2>3, StatusFields
<1>5. ASSUME NEW p \in Paths, folders[p] # Absent PROVE folders[p].by \in 0..MaxExports
  <2>1. folders[p].by = 0 \/ folders[p].by \in DOMAIN exports
    BY <1>5 DEF ExportInv, WorkInv, FolderInv, Written
  <2>2. DOMAIN exports = 1..Len(exports) /\ Len(exports) <= MaxExports /\ Len(exports) \in Nat /\ MaxExports \in Nat
    BY <1>0, LenProperties DEF ExportsOK, LayoutAssumption
  <2> QED BY <2>1, <2>2
<1>6. \A v \in DOMAIN views : views[v].pc \in {"rows", "shown", "lost"}
  BY <1>0 DEF ViewsOK, View
<1> QED BY <1>1, <1>2, <1>3, <1>4, <1>5, <1>6 DEF ExportTypeOK

LEMMA WholeState == ExportInv => StateWhole
<1> SUFFICES ASSUME ExportInv, ~mingled, ~Assigns PROVE Cardinality({dataset[part] : part \in ToSet(Parts)}) = 1
  BY DEF StateWhole
<1>1. One
  BY DEF ExportInv, ReadInv, LoadInv
<1>2. {dataset[part] : part \in ToSet(Parts)} = {dataset["path"]}
  BY <1>1, PartsAre DEF One, Names
<1> QED BY <1>2, FS_Singleton

\* However requests overlap, one thread at most writes, and its export is the one
\* the status tells of (server.py:465).  Between loads that never overlapped each
\* other the object is of one data set (:138); loads that did may mix two.
THEOREM RequestsApart == ExportSpec => []RequestsExclude
<1>1. ExportInv => RequestsExclude
  BY TypesShown, WholeState DEF RequestsExclude, ExportInv, WorkInv
<1> QED BY <1>1, ExportInvHolds, PTL

\* A recorded data set and a finished export stay as they are (server.py:465).
THEOREM NothingOverwritten == ExportSpec => WrittenOnce
<1>1. ASSUME ExportInv, ExportNext, NEW p \in Paths, folders[p] # Absent
      PROVE  /\ folders'[p] # Absent /\ folders'[p].by = folders[p].by
             /\ folders[p].whole => folders'[p] = folders[p]
  <2>0. ReadInv /\ WorkInv /\ FolderInv /\ WritesInv
    BY <1>1 DEF ExportInv, WorkInv
  <2>1. CASE folders'[p] = folders[p]
    BY <1>1, <2>1
  <2>2. ASSUME NEW x \in DOMAIN exports, exports[x].pc = "episode", p = exports[x].out,
               folders'[exports[x].out].by = folders[exports[x].out].by
        PROVE  folders'[p] # Absent /\ folders'[p].by = folders[p].by /\ ~folders[p].whole
    <3>1. folders[p].by = x /\ ~folders[p].whole
      BY <2>0, <2>2 DEF WritesInv
    <3>2. x \in 1..MaxExports
      BY <2>0, <2>2, LayoutOf DEF Settled, Working
    <3> QED BY <2>2, <3>1, <3>2 DEF Absent
  <2>3. ASSUME NEW x \in DOMAIN exports, Puts(x)
        PROVE  \/ folders'[p] = folders[p]
               \/ folders'[p] # Absent /\ folders'[p].by = folders[p].by /\ ~folders[p].whole
    <3>1. CASE Create(x)
      <4>1. p # exports[x].out
        BY <1>1, <2>0, <3>1, CreateDoes
      <4> QED BY <2>0, <3>1, <4>1, CreateDoes
    <3>2. CASE WriteEpisode(x)
      <4>1. exports[x].pc = "episode" /\ folders'[exports[x].out].by = folders[exports[x].out].by
            /\ \A r \in Paths \ {exports[x].out} : folders'[r] = folders[r]
        BY <2>0, <3>2, WriteDoes
      <4> QED BY <2>2, <4>1
    <3>3. CASE Finalize(x)
      <4>1. exports[x].pc = "episode" /\ folders'[exports[x].out].by = folders[exports[x].out].by
            /\ \A r \in Paths \ {exports[x].out} : folders'[r] = folders[r]
        BY <2>0, <3>3, FinalizeDoes
      <4> QED BY <2>2, <4>1
    <3>4. CASE SkipEpisode(x) \/ Fails(x) \/ Reset(x)
      BY <3>4 DEF SkipEpisode, Fails, Reset
    <3> QED BY <2>3, <3>1, <3>2, <3>3, <3>4 DEF Puts
  <2>4. CASE \E x \in DOMAIN exports : Puts(x)
    BY <1>1, <2>3, <2>4
  <2>5. CASE Quiet \/ Crash \/ \E x \in DOMAIN exports : Takes(x)
    BY <1>1, <2>5 DEF Quiet, Crash, Takes, Claim
  <2> QED BY <1>1, <2>0, <2>4, <2>5, QuietSteps
<1>2. ExportInv /\ [ExportNext]_exportVars =>
        [\A p \in Paths : folders[p] # Absent =>
           /\ folders'[p] # Absent /\ folders'[p].by = folders[p].by
           /\ folders[p].whole => folders'[p] = folders[p]]_exportVars
  BY <1>1
<1> QED BY <1>2, ExportInvHolds, PTL DEF ExportSpec, WrittenOnce

-----------------------------------------------------------------------------
(* Trims: the frames that are kept.                                        *)

LEMMA MaxOfTwo ==
  ASSUME NEW a \in Int, NEW b \in Int
  PROVE  Max({a, b}) = IF a >= b THEN a ELSE b
<1>1. \E x \in {a, b} : \A y \in {a, b} : x >= y
  OBVIOUS
<1>2. Max({a, b}) \in {a, b} /\ \A y \in {a, b} : Max({a, b}) >= y
  BY <1>1 DEF Max
<1> QED BY <1>2
LEMMA MinOfTwo ==
  ASSUME NEW a \in Int, NEW b \in Int
  PROVE  Min({a, b}) = IF a <= b THEN a ELSE b
<1>1. \E x \in {a, b} : \A y \in {a, b} : x <= y
  OBVIOUS
<1>2. Min({a, b}) \in {a, b} /\ \A y \in {a, b} : Min({a, b}) <= y
  BY <1>1 DEF Min
<1> QED BY <1>2

LEMMA WithinIs ==
  ASSUME NEW t \in Int, NEW full \in Nat
  PROVE  /\ Within(t, full) \in Nat /\ Within(t, full) <= full
         /\ t < 0 => Within(t, full) = 0
         /\ 0 <= t /\ t <= full => Within(t, full) = t
         /\ t > full => Within(t, full) = full
<1>1. Min({t, full}) = IF t <= full THEN t ELSE full
  BY MinOfTwo
<1>2. Min({t, full}) \in Int
  BY <1>1
<1>3. PICK m : m = Min({t, full})
  OBVIOUS
<1>4. m \in Int /\ 0 \in Int
  BY <1>2, <1>3
<1>5. Max({0, m}) = IF 0 >= m THEN 0 ELSE m
  BY <1>4, MaxOfTwo
<1>6. Within(t, full) = IF 0 >= m THEN 0 ELSE m
  BY <1>3, <1>5 DEF Within
<1> QED BY <1>1, <1>3, <1>6

\* Rows of equal width: fewer rows are no wider.
LEMMA Wider ==
  ASSUME NEW T \in Nat, NEW a \in Int, NEW b \in Int, a <= b
  PROVE  a * T <= b * T /\ a * T \in Int /\ b * T \in Int
OBVIOUS

LEMMA TimesNat == ASSUME NEW a \in Nat, NEW T \in Nat PROVE a * T \in Nat
OBVIOUS

\* A number of frames is at most half a frame off.
LEMMA RoundIs ==
  ASSUME NEW t \in Nat
  PROVE  Round(t) \in Nat /\ 2 * (Round(t) * Tick) <= 2 * t + Tick /\ 2 * t <= 2 * (Round(t) * Tick) + Tick
<1>0. Tick \in Nat /\ Tick > 0
  BY DEF LayoutAssumption
<1>1. PICK n : n = t \div Tick
  OBVIOUS
<1>2. PICK r : r = t % Tick
  OBVIOUS
<1>3. n \in Nat /\ r \in Nat /\ r < Tick /\ t = n * Tick + r
  BY <1>0, <1>1, <1>2
<1>4. Round(t) \in {n, n + 1} /\ (Round(t) = n => 2 * r <= Tick) /\ (Round(t) = n + 1 => 2 * r >= Tick)
  BY <1>0, <1>1, <1>2, <1>3 DEF Round
<1>5. (n + 1) * Tick = n * Tick + Tick
  BY <1>0, <1>3
<1>6. PICK w : w = n * Tick
  OBVIOUS
<1>7. w \in Nat /\ t = w + r
  <2>1. n * Tick \in Nat
    BY <1>0, <1>3, TimesNat
  <2> QED BY <1>3, <1>6, <2>1
<1>R. PICK R : R = Round(t)
  OBVIOUS
<1>v. PICK v : v = R * Tick
  OBVIOUS
<1>8. ASSUME R = n PROVE R \in Nat /\ 2 * v <= 2 * t + Tick /\ 2 * t <= 2 * v + Tick
  <2>1. v = w
    BY <1>6, <1>8, <1>v
  <2>2. 2 * r <= Tick
    BY <1>4, <1>8, <1>R, ZenonT(30)
  <2> QED BY ONLY <1>0, <1>3, <1>7, <1>8, <2>1, <2>2
<1>9. ASSUME R = n + 1 PROVE R \in Nat /\ 2 * v <= 2 * t + Tick /\ 2 * t <= 2 * v + Tick
  <2>1. v = w + Tick
    BY <1>5, <1>6, <1>9, <1>v
  <2>2. 2 * r >= Tick
    BY <1>4, <1>9, <1>R, ZenonT(30)
  <2> QED BY ONLY <1>0, <1>3, <1>7, <1>9, <2>1, <2>2
<1> QED BY <1>4, <1>8, <1>9, <1>R, <1>v

Center(n) == 2 * n * Tick + Tick
LEMMA CenterIs == \A n \in Int : n * Tick \in Int /\ Center(n) = 2 * (n * Tick) + Tick /\ (n + 1) * Tick = n * Tick + Tick
BY DEF Center, LayoutAssumption

\* The frames kept are those whose middle is inside the trim; one on its edge may be.
Edges(L, s, e, first, last) ==
  first = Round(Within(s, L * Tick)) /\ last = Min({L, Round(Within(e, L * Tick))})
Inside(L, s, e, first, last) ==
  /\ first \in Nat /\ last \in Nat
  /\ \A n \in 0..L - 1 : 2 * s < Center(n) /\ Center(n) < 2 * e => first <= n /\ n < last
  /\ \A n \in Nat : first <= n /\ n < last => 2 * s <= Center(n) /\ Center(n) <= 2 * e
LEMMA KeptFrames ==
  ASSUME NEW L \in Nat, NEW s \in Int, NEW e \in Int, NEW first, NEW last, Edges(L, s, e, first, last)
  PROVE  Inside(L, s, e, first, last)
<1>e. first = Round(Within(s, L * Tick)) /\ last = Min({L, Round(Within(e, L * Tick))})
  BY DEF Edges
<1>0. Tick \in Nat /\ Tick > 0
  BY DEF LayoutAssumption
<1>1. PICK F : F = L * Tick
  OBVIOUS
<1>2. F \in Nat
  BY <1>0, <1>1
<1>3. PICK a : a = Within(s, F)
  OBVIOUS
<1>4. PICK b : b = Within(e, F)
  OBVIOUS
<1>5. /\ a \in Nat /\ a <= F /\ (s < 0 => a = 0) /\ (0 <= s /\ s <= F => a = s) /\ (s > F => a = F)
      /\ b \in Nat /\ b <= F /\ (e < 0 => b = 0) /\ (0 <= e /\ e <= F => b = e) /\ (e > F => b = F)
  BY <1>2, <1>3, <1>4, WithinIs
<1>6. PICK w : w = first * Tick
  OBVIOUS
<1>7. PICK r : r = Round(b)
  OBVIOUS
<1>8. PICK z : z = r * Tick
  OBVIOUS
<1>9. first \in Nat /\ 2 * w <= 2 * a + Tick /\ 2 * a <= 2 * w + Tick
  BY <1>e, <1>1, <1>3, <1>5, <1>6, RoundIs
<1>10. r \in Nat /\ 2 * z <= 2 * b + Tick /\ 2 * b <= 2 * z + Tick
  BY <1>5, <1>7, <1>8, RoundIs
<1>11. w \in Nat /\ z \in Nat
  <2>1. first * Tick \in Nat
    BY <1>0, <1>9, TimesNat
  <2>2. r * Tick \in Nat
    BY <1>0, <1>10, TimesNat
  <2> QED BY <1>6, <1>8, <2>1, <2>2
<1>12. last = (IF L <= r THEN L ELSE r) /\ last \in Nat
  <2>1. last = Min({L, r})
    BY <1>e, <1>1, <1>4, <1>7
  <2>2. L \in Int /\ r \in Int /\ r \in Nat
    BY <1>10
  <2>3. Min({L, r}) = IF L <= r THEN L ELSE r
    BY <2>2, MinOfTwo
  <2> QED BY <2>1, <2>2, <2>3
<1>13. ASSUME NEW n \in 0..L - 1, 2 * s < Center(n), Center(n) < 2 * e PROVE first <= n /\ n < last
  <2>1. PICK m : m = n * Tick
    OBVIOUS
  <2>2. n \in Nat /\ n + 1 <= L /\ m \in Int /\ Center(n) = 2 * m + Tick /\ (n + 1) * Tick = m + Tick
    BY <2>1, CenterIs
  <2>3. m >= 0 /\ m + Tick <= F
    BY <1>0, <1>1, <2>1, <2>2, Wider
  <2>4. 2 * a < 2 * m + Tick /\ 2 * m + Tick < 2 * b
    BY <1>0, <1>2, <1>5, <1>13, <2>2, <2>3
  <2>5. w < m + Tick /\ m < z
    BY <1>0, <1>5, <1>9, <1>10, <1>11, <2>2, <2>4
  <2>6. first <= n
    <3>1. CASE first >= n + 1
      <4>1. (n + 1) * Tick <= first * Tick
        <5>1. n + 1 \in Int /\ first \in Int /\ n + 1 <= first
          BY <1>9, <2>2, <3>1
        <5> QED BY <1>0, <5>1, Wider
      <4> QED BY <1>0, <1>6, <1>11, <2>2, <2>5, <4>1
    <3> QED BY <1>9, <2>2, <3>1
  <2>7. n < r
    <3>1. CASE r <= n
      <4>1. r * Tick <= n * Tick
        BY <1>0, <1>10, <2>2, <3>1, Wider
      <4> QED BY <1>8, <1>11, <2>1, <2>2, <2>5, <4>1
    <3> QED BY <1>10, <2>2, <3>1
  <2> QED BY <1>10, <1>12, <2>2, <2>6, <2>7
<1>14. ASSUME NEW n \in Nat, first <= n, n < last PROVE 2 * s <= Center(n) /\ Center(n) <= 2 * e
  <2>1. PICK m : m = n * Tick
    OBVIOUS
  <2>2. m \in Int /\ Center(n) = 2 * m + Tick /\ (n + 1) * Tick = m + Tick
    BY <2>1, CenterIs
  <2>3. n + 1 <= L /\ n + 1 <= r
    BY <1>10, <1>12, <1>14
  <2>4. m + Tick <= F /\ m + Tick <= z /\ w <= m /\ 0 <= m
    <3>1. n \in Int /\ n + 1 \in Int /\ r \in Int /\ first \in Int /\ L \in Int
      BY <1>9, <1>10
    <3>2. (n + 1) * Tick <= L * Tick
      BY <1>0, <2>3, <3>1, Wider
    <3>3. (n + 1) * Tick <= r * Tick
      BY <1>0, <2>3, <3>1, Wider
    <3>4. first * Tick <= n * Tick
      BY <1>0, <1>14, <3>1, Wider
    <3>5. 0 <= n * Tick
      BY <1>0, TimesNat
    <3> QED BY <1>1, <1>6, <1>8, <2>1, <2>2, <3>2, <3>3, <3>4, <3>5
  <2>5. 2 * a <= 2 * m + Tick /\ 2 * m + Tick <= 2 * b
    BY <1>0, <1>5, <1>9, <1>10, <1>11, <2>2, <2>4
  <2>6. s <= a
    <3>1. CASE s > F
      BY <1>0, <1>2, <1>5, <2>2, <2>4, <2>5, <3>1
    <3> QED BY <1>2, <1>5, <3>1
  <2>7. b <= e
    <3>1. CASE e < 0
      BY <1>0, <1>5, <2>2, <2>4, <2>5, <3>1
    <3> QED BY <1>2, <1>5, <3>1
  <2> QED BY <1>0, <1>5, <2>2, <2>5, <2>6, <2>7
<1> QED BY <1>9, <1>12, <1>13, <1>14 DEF Inside

\* The trim of an episode that an export was asked for.
LEMMA TrimIs ==
  ASSUME ExportsOK, NEW x \in DOMAIN exports, exports[x].eps \in Datasets, NEW i \in DOMAIN Layout[exports[x].eps]
  PROVE  /\ TrimOf(x, i).start \in Int /\ TrimOf(x, i).end \in Int /\ Layout[exports[x].eps][i].length \in Nat
         /\ KeptOf(x, i).first = Round(Within(TrimOf(x, i).start, Layout[exports[x].eps][i].length * Tick))
         /\ KeptOf(x, i).last =
              Min({Layout[exports[x].eps][i].length, Round(Within(TrimOf(x, i).end, Layout[exports[x].eps][i].length * Tick))})
<1>1. Layout[exports[x].eps][i].length \in Nat
  BY LayoutIs
<1>2. Layout[exports[x].eps][i].length * Tick \in Nat
  BY <1>1, TimesNat DEF LayoutAssumption
<1>k. /\ KeptOf(x, i).first = Round(Within(TrimOf(x, i).start, Layout[exports[x].eps][i].length * Tick))
      /\ KeptOf(x, i).last =
           Min({Layout[exports[x].eps][i].length, Round(Within(TrimOf(x, i).end, Layout[exports[x].eps][i].length * Tick))})
  BY DEF KeptOf, Kept
<1>3. CASE i \in DOMAIN exports[x].trims
  <2>1. TrimOf(x, i) = exports[x].trims[i]
    BY <1>3 DEF TrimOf
  <2>2. exports[x].trims \in TrimChoices
    BY <1>3, RequestFields
  <2>3. TrimOf(x, i) \in [start : Int, end : Int]
    BY <1>3, <2>1, <2>2 DEF TrimAssumption
  <2> QED BY <1>1, <1>k, <2>3
<1>4. CASE i \notin DOMAIN exports[x].trims
  <2>1. TrimOf(x, i) = [start |-> 0, end |-> Layout[exports[x].eps][i].length * Tick]
    BY <1>4 DEF TrimOf
  <2>2. PICK F : F = Layout[exports[x].eps][i].length * Tick
    OBVIOUS
  <2>4. F \in Int
    <3>1. PICK L : L = Layout[exports[x].eps][i].length
      OBVIOUS
    <3>2. L \in Nat /\ Tick \in Nat /\ F = L * Tick
      BY <1>1, <2>2, <3>1 DEF LayoutAssumption
    <3>3. \A m, n \in Nat : m * n \in Nat
      BY TimesNat
    <3> QED BY <3>2, <3>3
  <2>5. [start |-> 0, end |-> F] \in [start : Int, end : Int]
    BY <2>4
  <2>3. TrimOf(x, i) \in [start : Int, end : Int]
    BY <2>1, <2>2, <2>5
  <2> QED BY <1>1, <1>k, <2>3
<1> QED BY <1>3, <1>4

\* The thread that has made a folder.
LEMMA MadeBy ==
  ASSUME ExportInv, NEW p \in Paths, folders[p].by \in DOMAIN exports
  PROVE  Written(p) /\ p \in NewPaths /\ exports[folders[p].by].pc \in Settled /\ exports[folders[p].by].eps \in Datasets /\ Content(p)
<1>0. ExportsOK
  BY DEF ExportInv, ReadInv, Types
<1>1. folders[p].by \in Nat \ {0}
  BY <1>0, LenProperties DEF ExportsOK
<1>2. folders[p] # Absent
  BY <1>1 DEF Absent
<1>3. Written(p) /\ p \in NewPaths /\ exports[folders[p].by].pc \in {"episode", "reset", "ended"} /\ Content(p)
  BY <1>1, <1>2 DEF ExportInv, WorkInv, FolderInv, Written
<1>4. exports[folders[p].by].pc \in Settled
  BY <1>3 DEF Settled, Working
<1>5. exports[folders[p].by].eps \in Datasets
  BY <1>4, LayoutOf DEF ExportInv
<1> QED BY <1>3, <1>4, <1>5

LEMMA PicturesKept == ExportInv => PicturesOfEpisode
<1> SUFFICES ASSUME ExportInv PROVE PicturesOfEpisode
  OBVIOUS
<1>0. ExportsOK
  BY DEF ExportInv, ReadInv, Types
<1> SUFFICES ASSUME NEW p \in Exported, NEW k \in DOMAIN folders[p].episodes
             PROVE  LET x == folders[p].by
                        ep == folders[p].episodes[k] IN
                    /\ exports[x].root = exports[x].eps /\ exports[x].info = exports[x].eps
                    /\ ep.videos = OwnRows(x, ep)
                    /\ ep.rows = OwnRows(x, ep) <=> Place(exports[x].eps, ep.of) = 0
  BY DEF PicturesOfEpisode
<1>p. p \in NewPaths /\ folders[p] # Absent /\ ~mingled /\ ~exports[folders[p].by].overlapped
  BY DEF Exported, Torn
<1>x. PICK x : x = folders[p].by
  OBVIOUS
<1>e. PICK ep : ep = folders[p].episodes[k]
  OBVIOUS
<1>1. p \in Paths /\ p \notin Datasets
  BY <1>p DEF Paths, PathsAssumption
<1>2. x \in DOMAIN exports
  BY <1>1, <1>p, <1>x DEF ExportInv, WorkInv, FolderInv, Written
<1>3. exports[x].pc \in Settled /\ exports[x].eps \in Datasets /\ Asks(x, ep)
  BY <1>1, <1>2, <1>x, <1>e, MadeBy DEF Content
<1>4. exports[x].info = exports[x].root /\ exports[x].eps = exports[x].root
  BY <1>2, <1>3, <1>p, <1>x DEF ExportInv, ReadInv, SnapInv
<1>d. PICK d : d = exports[x].eps
  OBVIOUS
<1>i. PICK i : i = ep.of
  OBVIOUS
<1>f. PICK f : f = KeptOf(x, i).first
  OBVIOUS
<1>n. PICK n : n = KeptOf(x, i).last - f
  OBVIOUS
<1>5. i \in DOMAIN Layout[d] /\ DOMAIN ep.videos = 1..n /\ ep.videos = Videos_(x, i) /\ ep.rows = Rows_(x, i) /\ ~Skipped(x, i)
  BY <1>3, <1>d, <1>i, <1>f, <1>n DEF Asks
<1>6. ep.videos = Slice(d, Layout[d][i].file, Place(d, i) + f, n)
  BY <1>4, <1>5, <1>d, <1>f, <1>n DEF Videos_
<1>7. ep.rows = Slice(d, Layout[d][i].file, f, n)
  BY <1>4, <1>5, <1>d, <1>f, <1>n DEF Rows_
<1>9. f \in Nat /\ n \in Nat /\ n > 0
  <2>1. /\ TrimOf(x, i).start \in Int /\ TrimOf(x, i).end \in Int /\ Layout[d][i].length \in Nat
        /\ f = Round(Within(TrimOf(x, i).start, Layout[d][i].length * Tick))
        /\ KeptOf(x, i).last = Min({Layout[d][i].length, Round(Within(TrimOf(x, i).end, Layout[d][i].length * Tick))})
    BY <1>0, <1>2, <1>3, <1>5, <1>d, <1>f, TrimIs
  <2>2. PICK F : F = Layout[d][i].length * Tick
    OBVIOUS
  <2>3. F \in Nat
    BY <2>1, <2>2, TimesNat DEF LayoutAssumption
  <2>4. PICK v : v = Within(TrimOf(x, i).start, F)
    OBVIOUS
  <2>5. PICK w : w = Within(TrimOf(x, i).end, F)
    OBVIOUS
  <2>6. v \in Nat /\ w \in Nat
    BY <2>1, <2>3, <2>4, <2>5, WithinIs
  <2>7. f \in Nat /\ Round(w) \in Nat
    BY <2>1, <2>2, <2>4, <2>6, RoundIs
  <2>8. KeptOf(x, i).last \in Int
    <3>1. PICK m : m = Layout[d][i].length
      OBVIOUS
    <3>2. PICK q : q = Round(w)
      OBVIOUS
    <3>3. m \in Int /\ q \in Int /\ KeptOf(x, i).last = Min({m, q})
      BY <2>1, <2>2, <2>5, <2>7, <3>1, <3>2
    <3>4. Min({m, q}) \in Int
      BY <3>3, MinOfTwo
    <3> QED BY <3>3, <3>4
  <2>9. ~(KeptOf(x, i).last <= f)
    BY <1>5, <1>f DEF Skipped
  <2> QED BY <1>n, <2>7, <2>8, <2>9
<1>8. OwnRows(x, ep) = Slice(d, Layout[d][i].file, Place(d, i) + f, n)
  <2>1. Len(ep.videos) = n
    BY <1>5, <1>9, LenIs
  <2> QED BY <2>1, <1>d, <1>i, <1>f DEF OwnRows, RowsOf
<1>10. n \in Int /\ 1 \in DOMAIN ep.videos
  BY <1>5, <1>9
<1>11. CASE Place(d, i) = 0
  <2>1. Place(d, i) + f = f
    BY <1>9, <1>11
  <2> QED BY <1>4, <1>6, <1>7, <1>8, <1>11, <1>x, <1>e, <1>d, <1>i, <2>1
<1>12. CASE Place(d, i) # 0
  <2>1. Place(d, i) + f \in Int /\ f \in Int /\ Place(d, i) + f # f
    <3>1. Place(d, i) \in Int
      BY <1>3, <1>5, <1>d, PlaceIs
    <3> QED BY <1>9, <1>12, <3>1
  <2>2. Slice(d, Layout[d][i].file, Place(d, i) + f, n) # Slice(d, Layout[d][i].file, f, n)
    BY <1>6, <1>10, <2>1, SlicesDiffer
  <2> QED BY <1>4, <1>6, <1>7, <1>8, <1>12, <1>x, <1>e, <1>d, <1>i, <2>2
<1> QED BY <1>11, <1>12

\* At most one element.
LEMMA OneAtMost ==
  ASSUME NEW S, \A k, m \in S : k = m
  PROVE  Cardinality(S) <= 1
<1>1. CASE S = {}
  BY <1>1, FS_EmptySet
<1>2. ASSUME NEW k \in S PROVE Cardinality(S) <= 1
  <2>1. S = {k}
    BY <1>2
  <2>2. Cardinality(S) = 1
    BY <2>1, FS_Singleton
  <2> QED BY <2>2
<1> QED BY <1>1, <1>2

\* One episode of a finished export, whose folder holds the episodes s.
DoneEpisode(x, i, s) ==
  LET as == {k \in DOMAIN s : s[k].of = i}
      trim == TrimOf(x, i)
      Middle(n) == 2 * n * Tick + Tick
      kept == {n \in 0..Layout[exports[x].eps][i].length - 1 : 2 * trim.start < Middle(n) /\ Middle(n) < 2 * trim.end}
      frames(k) == 0..Len(s[k].videos) - 1 IN
  /\ Cardinality(as) <= 1
  /\ as = {} => Blank(x, i) \/ kept = {}
  /\ \A k \in as :
       /\ \A n \in kept : n - KeptOf(x, i).first \in frames(k)
       /\ \A m \in frames(k) :
            LET n == KeptOf(x, i).first + m IN 2 * trim.start <= Middle(n) /\ Middle(n) <= 2 * trim.end
LEMMA EpisodeDone ==
  ASSUME ExportsOK, NEW x \in DOMAIN exports, exports[x].eps \in Datasets, NEW i \in DOMAIN Layout[exports[x].eps],
         NEW s, \A k \in DOMAIN s : Asks(x, s[k]), \A k, m \in DOMAIN s : s[k].of = s[m].of => k = m,
         ~Skipped(x, i) => \E k \in DOMAIN s : s[k].of = i
  PROVE  DoneEpisode(x, i, s)
<1> DEFINE as == {k \in DOMAIN s : s[k].of = i}
<1>a. PICK a : a = TrimOf(x, i).start
  OBVIOUS
<1>b. PICK b : b = TrimOf(x, i).end
  OBVIOUS
<1>f. PICK f : f = KeptOf(x, i).first
  OBVIOUS
<1>l. PICK l : l = KeptOf(x, i).last
  OBVIOUS
<1>L. PICK L : L = Layout[exports[x].eps][i].length
  OBVIOUS
<1> DEFINE kept == {n \in 0..L - 1 : 2 * a < Center(n) /\ Center(n) < 2 * b}
<1>1. /\ a \in Int /\ b \in Int /\ L \in Nat /\ f = Round(Within(a, L * Tick)) /\ l = Min({L, Round(Within(b, L * Tick))})
  BY <1>a, <1>b, <1>f, <1>l, <1>L, TrimIs
<1>2. /\ f \in Nat /\ l \in Nat
      /\ \A n \in 0..L - 1 : 2 * a < Center(n) /\ Center(n) < 2 * b => f <= n /\ n < l
      /\ \A n \in Nat : f <= n /\ n < l => 2 * a <= Center(n) /\ Center(n) <= 2 * b
  <2>1. Edges(L, a, b, f, l)
    BY <1>1 DEF Edges
  <2>2. Inside(L, a, b, f, l)
    BY <1>1, <2>1, KeptFrames
  <2> QED BY <2>2 DEF Inside
<1>3. Cardinality(as) <= 1
  <2>1. \A k, m \in as : k = m
    OBVIOUS
  <2> QED BY <2>1, OneAtMost
<1>4. ASSUME NEW n \in kept PROVE n \in Int /\ f <= n /\ n < l
  <2>1. n \in 0..L - 1 /\ 2 * a < Center(n) /\ Center(n) < 2 * b
    OBVIOUS
  <2>2. n \in Int
    BY <1>1, <2>1
  <2> QED BY <1>2, <2>1, <2>2
<1>5. as = {} => Blank(x, i) \/ kept = {}
  <2> SUFFICES ASSUME as = {}, ~Blank(x, i) PROVE kept = {}
    OBVIOUS
  <2>1. Skipped(x, i)
    OBVIOUS
  <2>2. l <= f
    BY <1>f, <1>l, <2>1 DEF Skipped
  <2> HIDE DEF kept
  <2> QED BY <1>2, <1>4, <2>2
<1> HIDE DEF kept
<1>6. ASSUME NEW k \in as
      PROVE  /\ \A n \in kept : n - f \in 0..Len(s[k].videos) - 1
             /\ \A m \in 0..Len(s[k].videos) - 1 : 2 * a <= Center(f + m) /\ Center(f + m) <= 2 * b
  <2>1. Len(s[k].videos) = l - f
    <3>1. DOMAIN s[k].videos = 1..(l - f) /\ ~(l <= f)
      BY <1>6, <1>f, <1>l DEF Asks, Skipped
    <3>2. l - f \in Nat
      BY <1>2, <3>1
    <3> QED BY <3>1, <3>2, LenIs
  <2>2. ASSUME NEW n \in kept PROVE n - f \in 0..(l - f) - 1
    <3>1. n \in Int /\ f <= n /\ n < l
      BY <1>4
    <3> QED BY <1>2, <3>1
  <2>3. ASSUME NEW m \in 0..(l - f) - 1 PROVE 2 * a <= Center(f + m) /\ Center(f + m) <= 2 * b
    <3>1. f + m \in Nat /\ f <= f + m /\ f + m < l
      BY <1>2
    <3> QED BY <1>2, <3>1
  <2> QED BY <2>1, <2>2, <2>3
<1> HIDE DEF as
<1>7. \A k \in as : (\A n \in kept : n - KeptOf(x, i).first \in 0..Len(s[k].videos) - 1)
                    /\ \A m \in 0..Len(s[k].videos) - 1 :
                         2 * a <= Center(KeptOf(x, i).first + m) /\ Center(KeptOf(x, i).first + m) <= 2 * b
  BY <1>6, <1>f
<1> QED BY <1>3, <1>5, <1>7, <1>a, <1>b, <1>L DEF DoneEpisode, as, kept, Center

LEMMA DoneThere == ExportInv => DoneIsThere
<1> SUFFICES ASSUME ExportInv, export.message = "done" PROVE DoneIsThere
  BY DEF DoneIsThere
<1>0. ExportsOK
  BY DEF ExportInv, ReadInv, Types
<1>q. PICK q : q = export.out_path
  OBVIOUS
<1>x. PICK x : x = folders[q].by
  OBVIOUS
<1>d. PICK d : d = exports[x].eps
  OBVIOUS
<1>s. PICK s : s = folders[q].episodes
  OBVIOUS
<1>1. /\ q \in Paths /\ folders[q].whole /\ x \in DOMAIN exports /\ export.progress = export.total
      /\ Upto(q, Len(Layout[d]) + 1)
  BY <1>q, <1>x, <1>d DEF ExportInv, WorkInv, DoneInv
<1>2. d \in Datasets /\ \A k \in DOMAIN s : Asks(x, s[k])
  BY <1>1, <1>x, <1>d, <1>s, MadeBy DEF Content
<1>3. DOMAIN Layout[d] = 1..Len(Layout[d]) /\ Len(Layout[d]) \in Nat
  BY <1>2, LayoutIs
<1>4. /\ \A k, m \in DOMAIN s : s[k].of = s[m].of => k = m
      /\ \A i \in DOMAIN Layout[d] : ~Skipped(x, i) => \E k \in DOMAIN s : s[k].of = i
  <2>1. \A i \in DOMAIN Layout[d] : i < Len(Layout[d]) + 1
    BY <1>3
  <2> QED BY <1>1, <1>x, <1>d, <1>s, <2>1 DEF Upto
<1>5. \A i \in DOMAIN Layout[d] : DoneEpisode(x, i, s)
  BY <1>0, <1>1, <1>2, <1>4, <1>d, EpisodeDone
<1>6. \A i \in DOMAIN Layout[exports[folders[export.out_path].by].eps] :
        DoneEpisode(folders[export.out_path].by, i, folders[export.out_path].episodes)
  BY <1>5, <1>q, <1>x, <1>d, <1>s
<1>7. folders[export.out_path].whole /\ export.progress = export.total
  BY <1>1, <1>q
<1> QED BY <1>6, <1>7 DEF DoneIsThere, DoneEpisode

\* A finished export has each episode that is not left out, once, with the
\* frames of its trim, for every layout and every trim (server.py:375).  Unless
\* a load tore its snapshot, every export takes its pictures from the episode
\* they stand for; its rows are the episode's own exactly for the first episode
\* of a file (:405), and the frames shown exactly in files that begin with the
\* data set's first row (:196).
THEOREM ExportIsFaithful == ExportSpec => []ExportFaithful
<1>1. ExportInv => ExportFaithful
  BY DoneThere, PicturesKept DEF ExportFaithful, ExportInv, ReadInv
<1> QED BY <1>1, ExportInvHolds, PTL
=============================================================================
