------------------------- MODULE DataCollectProofs --------------------------
(***************************************************************************)
(* Proofs about the stand-alone collector: what is stored is what was      *)
(* recorded and can always be found, the screen tells the truth, and the   *)
(* folders and the queue implement a list of episodes, for any number of   *)
(* recordings, frames, starts and failures.                                *)
(***************************************************************************)
EXTENDS DataCollect, SequenceTheorems, FiniteSetTheorems, TLAPS

USE SizesAssumption, NothingAssumption DEF SizesAssumption, NothingAssumption

Running == main \in {"run", "wait"}
Kind(i) == orders[i].kind
Episodes == Durable \o fresh

\* A process that does not run, or has not begun to, has nothing in memory.
PhaseInv ==
  /\ ~Running => /\ worker = "ended" /\ orders = <<>> /\ buffer = <<>> /\ fresh = <<>>
                 /\ trouble = {} /\ saves = 0 /\ deletes = 0
  /\ main # "run" => ~recording
  /\ recording => rec > 0
  /\ main = "run" => worker # "ended" /\ \A i \in DOMAIN orders : Kind(i) # "finalize"
  /\ worker = "ended" => fresh = <<>>

\* Which folders there are at each moment, and what is in them.
FolderInv ==
  /\ root # Nothing => root.whole /\ (worker # "ended" => root.torn = 0)
  /\ root = Nothing /\ bak # Nothing => bak.whole
  /\ main \in {"sweep", "clean", "load"} /\ root = Nothing => bak = Nothing
  /\ Running => (root = Nothing <=> worker = "swap")
  /\ worker = "swap" => bak # Nothing /\ bak.torn = 0
  /\ worker = "sweep" => bak # Nothing
  /\ worker \in {"writing"} \cup Swapping =>
       tmp # Nothing /\ tmp.eps = Front(Durable) /\ tmp.torn = 0
  /\ worker \in Swapping => tmp.whole

\* How many episodes the program counts, at each step of a deletion.
CountInv ==
  /\ Running /\ worker \notin {"saved", "told"} => numSaved = count
  /\ worker \in {"write", "writing"} \cup Swapping => count = Len(Durable) /\ fresh = <<>>
  /\ worker \in {"sweep", "sweeping", "reload"} => count = Len(Durable) + 1 /\ fresh = <<>>
  /\ Running /\ worker \notin Deleting \ {"clear", "flush", "told"} =>
       \/ count = Len(Durable) + Len(fresh)
       \/ trouble \cap Deleted # {} /\ count = Len(Durable) + Len(fresh) + 1
  /\ worker \in Deleting \ {"told"} => count > 0 /\ job.index = count
  /\ \A i \in DOMAIN orders : Kind(i) = "delete" =>
       orders[i].index = count /\ \A k \in 1..i : Kind(k) # "save"

\* Recordings are numbered in the order in which they are stored.
OrderInv ==
  /\ \A i \in DOMAIN orders : Kind(i) \in {"save", "discard"} =>
       orders[i].rec <= rec /\ (recording => orders[i].rec < rec)
  /\ \A i, k \in DOMAIN orders : i < k /\ Kind(i) = "save" /\ Kind(k) = "save" =>
       orders[i].rec < orders[k].rec
  /\ \A n, k \in DOMAIN Episodes : n < k => Episodes[n].rec < Episodes[k].rec
  /\ \A n \in DOMAIN Episodes :
       /\ Episodes[n].rec <= rec /\ (recording => Episodes[n].rec < rec)
       /\ \A i \in DOMAIN orders : Kind(i) = "save" => Episodes[n].rec < orders[i].rec
  /\ \A n \in DOMAIN fresh : n <= fresh[n].rec

\* The command is about recording r.
About(cmd, r) == cmd.kind \in {"frame", "save", "discard"} /\ cmd.rec = r
Kept == trouble \cap {"save", "discard"} = {}
AllKept == trouble \cap {"frame", "save", "discard"} = {}

\* The frames of a recording are followed by its end, or it goes on.
FrameInv ==
  /\ \A i \in DOMAIN orders : Kind(i) = "frame" =>
       IF i = Len(orders) THEN recording /\ orders[i].rec = rec
       ELSE About(orders[i + 1], orders[i].rec)
  /\ Kept => \A n \in DOMAIN buffer :
       IF orders = <<>> THEN recording /\ buffer[n] = rec ELSE About(orders[1], buffer[n])
  /\ Kept /\ worker \in Deleting => buffer = <<>>
  /\ OwnFrames

\* The f commands before position k, and the buffer if they are not so many,
\* are the frames since the command before.
Block(k, f) ==
  /\ \A i \in 1..(k - 1) : i >= k - f => Kind(i) = "frame"
  /\ f < k - 1 => Kind(k - f - 1) # "frame"
  /\ f >= k - 1 => Len(buffer) = f - (k - 1)
BlockInv ==
  /\ AllKept => \A k \in DOMAIN orders : Kind(k) = "save" => Block(k, orders[k].frames)
  /\ AllKept /\ recording => Block(Len(orders) + 1, shown)
  /\ WholeEpisodes

CollectInv == CollectTypeOK /\ PhaseInv /\ FolderInv /\ PendingsHonest /\ CountInv /\ OrderInv /\ FrameInv /\ BlockInv

-----------------------------------------------------------------------------
(* Facts about sequences.                                                  *)

(* A sequence that gets one element at its end. *)
LEMMA AppendFacts ==
  ASSUME NEW S, NEW s \in Seq(S), NEW c
  PROVE  /\ Len(Append(s, c)) = Len(s) + 1 /\ DOMAIN Append(s, c) = 1..(Len(s) + 1)
         /\ DOMAIN s = 1..Len(s) /\ Len(s) \in Nat
         /\ \A i \in 1..Len(s) : Append(s, c)[i] = s[i]
         /\ Append(s, c)[Len(s) + 1] = c
OBVIOUS

(* A sequence that loses its first element. *)
LEMMA TailFacts ==
  ASSUME NEW S, NEW s \in Seq(S), s # <<>>
  PROVE  /\ Len(s) \in Nat /\ Len(s) >= 1 /\ DOMAIN s = 1..Len(s)
         /\ Head(s) = s[1] /\ Head(s) \in S
         /\ Tail(s) \in Seq(S) /\ Len(Tail(s)) = Len(s) - 1 /\ DOMAIN Tail(s) = 1..(Len(s) - 1)
         /\ \A i \in 1..(Len(s) - 1) : Tail(s)[i] = s[i + 1]
         /\ Tail(s) = <<>> <=> Len(s) = 1
<1>1. /\ Len(s) \in Nat /\ Len(s) >= 1 /\ DOMAIN s = 1..Len(s)
      /\ Head(s) = s[1] /\ Head(s) \in S
  OBVIOUS
<1>2. /\ Tail(s) \in Seq(S) /\ Len(Tail(s)) = Len(s) - 1
      /\ \A i \in 1..Len(Tail(s)) : Tail(s)[i] = s[i + 1]
  BY HeadTailProperties
<1>3. Tail(s) = <<>> <=> Len(Tail(s)) = 0
  BY <1>2, EmptySeq
<1>4. Len(s) - 1 = 0 <=> Len(s) = 1
  BY <1>1
<1> QED BY <1>1, <1>2, <1>3, <1>4

(* A sequence without its last element. *)
LEMMA FrontFacts ==
  ASSUME NEW S, NEW s \in Seq(S), s # <<>>
  PROVE  /\ Front(s) \in Seq(S) /\ Len(Front(s)) = Len(s) - 1
         /\ \A i \in 1..(Len(s) - 1) : Front(s)[i] = s[i]
<1>1. Len(s) \in Nat /\ Len(s) >= 1 /\ \A i \in 1..Len(s) : s[i] \in S
  OBVIOUS
<1>2. ASSUME NEW n \in Nat, n = Len(s)
      PROVE  /\ Front(s) \in Seq(S) /\ Len(Front(s)) = n - 1
             /\ \A i \in 1..(n - 1) : Front(s)[i] = s[i]
  <2>1. n >= 1 /\ n - 1 \in Int /\ \A i \in 1..(n - 1) : s[i] \in S
    BY <1>1, <1>2
  <2>2. /\ SubSeq(s, 1, n - 1) \in Seq(S)
        /\ Len(SubSeq(s, 1, n - 1)) = IF 1 <= n - 1 THEN n - 1 - 1 + 1 ELSE 0
        /\ \A i \in 1..(n - 1 - 1 + 1) : SubSeq(s, 1, n - 1)[i] = s[1 + i - 1]
    BY <2>1, SubSeqProperties
  <2>3. Front(s) = SubSeq(s, 1, n - 1)
    BY <1>2 DEF Front
  <2>4. n - 1 - 1 + 1 = n - 1 /\ (1 <= n - 1 \/ n - 1 = 0)
    BY <2>1
  <2>5. \A i \in 1..(n - 1) : 1 + i - 1 = i
    OBVIOUS
  <2> QED BY <2>2, <2>3, <2>4, <2>5
<1> QED BY <1>1, <1>2

(* The last element is the one that is removed at the position Len(s). *)
LEMMA RemoveLast ==
  ASSUME NEW S, NEW s \in Seq(S), s # <<>>
  PROVE  RemoveAt(s, Len(s)) = Front(s)
<1>1. Len(s) \in Int /\ Len(s) + 1 \in Int /\ Len(s) < Len(s) + 1
  OBVIOUS
<1>2. SubSeq(s, Len(s) + 1, Len(s)) = <<>>
  BY <1>1, SubSeqEmpty
<1>3. SubSeq(s, 1, Len(s) - 1) \in Seq(S)
  BY FrontFacts DEF Front
<1> QED BY <1>2, <1>3, ConcatEmptySeq DEF RemoveAt, Front

(* The first n elements of a sequence. *)
LEMMA FirstFacts ==
  ASSUME NEW S, NEW s \in Seq(S), NEW n \in 0..Len(s)
  PROVE  /\ SubSeq(s, 1, n) \in Seq(S) /\ Len(SubSeq(s, 1, n)) = n
         /\ \A i \in 1..n : SubSeq(s, 1, n)[i] = s[i]
<1>1. Len(s) \in Nat /\ \A i \in 1..n : s[i] \in S
  OBVIOUS
<1>2. 1 \in Int /\ n \in Int /\ n >= 0
  BY <1>1
<1>3. /\ SubSeq(s, 1, n) \in Seq(S)
      /\ Len(SubSeq(s, 1, n)) = IF 1 <= n THEN n - 1 + 1 ELSE 0
      /\ \A i \in 1..(n - 1 + 1) : SubSeq(s, 1, n)[i] = s[1 + i - 1]
  BY <1>1, <1>2, SubSeqProperties
<1>4. n - 1 + 1 = n /\ (1 <= n \/ n = 0) /\ \A i \in 1..n : 1 + i - 1 = i
  BY <1>2
<1> QED BY <1>3, <1>4

(* A list is a prefix of what it becomes when others are added. *)
LEMMA PrefixOfConcat ==
  ASSUME NEW S, NEW s \in Seq(S), NEW t \in Seq(S)
  PROVE  IsPrefix(s, s \o t)
<1>1. s \o t \in Seq(S) /\ Len(s \o t) = Len(s) + Len(t) /\ Len(s) \in Nat /\ Len(t) \in Nat
  OBVIOUS
<1>2. Len(s) \in 0..Len(s \o t) /\ Len(s) \in 0..Len(s)
  BY <1>1
<1>3. SubSeq(s \o t, 1, Len(s)) = SubSeq(s, 1, Len(s))
  <2> DEFINE a == SubSeq(s \o t, 1, Len(s))  b == SubSeq(s, 1, Len(s))
  <2>1. a \in Seq(S) /\ Len(a) = Len(s) /\ \A i \in 1..Len(s) : a[i] = (s \o t)[i]
    BY <1>1, <1>2, FirstFacts
  <2>2. b \in Seq(S) /\ Len(b) = Len(s) /\ \A i \in 1..Len(s) : b[i] = s[i]
    BY <1>2, FirstFacts
  <2>3. \A i \in 1..Len(s) : (s \o t)[i] = s[i]
    OBVIOUS
  <2> HIDE DEF a, b
  <2> QED BY <2>1, <2>2, <2>3, SeqEqual
<1> QED BY <1>1, <1>3 DEF IsPrefix

(* A list is a prefix of itself. *)
LEMMA PrefixOfSame == ASSUME NEW S, NEW s \in Seq(S) PROVE IsPrefix(s, s)
BY DEF IsPrefix

-----------------------------------------------------------------------------
(* Counting the commands of some kinds in a queue.                         *)

Of(s, kinds) == {i \in DOMAIN s : s[i].kind \in kinds}

(* How many there are is a natural number, and zero if there is none. *)
LEMMA CountFinite ==
  ASSUME NEW S, NEW s \in Seq(S), NEW kinds
  PROVE  /\ IsFiniteSet(Of(s, kinds)) /\ Cardinality(Of(s, kinds)) \in Nat
         /\ Cardinality(Of(s, kinds)) = 0 <=> \A i \in DOMAIN s : s[i].kind \notin kinds
<1>1. IsFiniteSet(1..Len(s))
  BY FS_Interval
<1>2. Of(s, kinds) \in SUBSET (1..Len(s))
  BY DEF Of
<1>3. IsFiniteSet(Of(s, kinds))
  BY <1>1, <1>2, FS_Subset
<1>4. Of(s, kinds) = {} <=> \A i \in DOMAIN s : s[i].kind \notin kinds
  BY DEF Of
<1> QED BY <1>3, <1>4, FS_EmptySet, FS_CardinalityType

(* A command is put at the end. *)
LEMMA CountAppend ==
  ASSUME NEW S, NEW s \in Seq(S), NEW c, NEW kinds
  PROVE  Cardinality(Of(Append(s, c), kinds)) =
           Cardinality(Of(s, kinds)) + (IF c.kind \in kinds THEN 1 ELSE 0)
<1>1. CASE c.kind \in kinds
  <2>1. Of(Append(s, c), kinds) = Of(s, kinds) \cup {Len(s) + 1}
    BY <1>1, AppendFacts DEF Of
  <2>2. Len(s) + 1 \notin Of(s, kinds)
    BY DEF Of
  <2> QED BY <1>1, <2>1, <2>2, CountFinite, FS_AddElement
<1>2. CASE c.kind \notin kinds
  <2>1. Of(Append(s, c), kinds) = Of(s, kinds)
    BY <1>2, AppendFacts DEF Of
  <2> QED BY <1>2, <2>1, CountFinite
<1> QED BY <1>1, <1>2

(* The first command is taken. *)
LEMMA CountTail ==
  ASSUME NEW S, NEW s \in Seq(S), s # <<>>, NEW kinds
  PROVE  Cardinality(Of(Tail(s), kinds)) =
           Cardinality(Of(s, kinds)) - (IF Head(s).kind \in kinds THEN 1 ELSE 0)
<1> DEFINE A == Of(s, kinds) \ {1}  B == Of(Tail(s), kinds)  f == [i \in A |-> i - 1]
<1>1. IsFiniteSet(A) /\ Cardinality(A) = IF 1 \in Of(s, kinds) THEN Cardinality(Of(s, kinds)) - 1
                                         ELSE Cardinality(Of(s, kinds))
  BY CountFinite, FS_RemoveElement
<1>2. 1 \in Of(s, kinds) <=> Head(s).kind \in kinds
  BY TailFacts DEF Of
<1>3. \A i \in A : i \in Nat /\ i >= 2 /\ i - 1 \in B
  BY TailFacts DEF Of
<1>4. \A k \in B : k + 1 \in A /\ k \in Nat
  BY TailFacts DEF Of
<1>5. ExistsBijection(A, B)
  <2>1. f \in [A -> B]
    BY <1>3
  <2>2. \A i, k \in A : f[i] = f[k] => i = k
    BY <1>3
  <2>3. \A k \in B : \E i \in A : f[i] = k
    <3> SUFFICES ASSUME NEW k \in B PROVE \E i \in A : f[i] = k
      OBVIOUS
    <3>1. k + 1 \in A /\ k \in Nat
      BY <1>4
    <3>2. f[k + 1] = k
      BY <3>1
    <3> QED BY <3>1, <3>2
  <2>4. f \in Bijection(A, B)
    BY <2>1, <2>2, <2>3 DEF Bijection, Injection, Surjection, IsInjective
  <2> QED BY <2>4 DEF ExistsBijection
<1>6. Cardinality(B) = Cardinality(A)
  BY <1>1, <1>5, FS_Bijection
<1>7. Cardinality(Of(s, kinds)) \in Nat
  BY CountFinite
<1> QED BY <1>1, <1>2, <1>6, <1>7

-----------------------------------------------------------------------------
(* The two numbers on the screen are the commands that are not finished.   *)

(* What a command in the queue carries. *)
LEMMA CommandFields ==
  ASSUME NEW c \in Orders
  PROVE  /\ c.kind \in {"frame", "discard", "save", "delete", "finalize"}
         /\ c.kind \in {"frame", "discard", "save"} => c.rec \in 1..MaxRecs
         /\ c.kind = "save" => c.frames \in 1..MaxFrames
         /\ c.kind = "delete" => c.index \in Nat
BY DEF Orders

(* The number of commands of some kinds when one is put, *)
LEMMA WaitingPut ==
  ASSUME orders \in Seq(Orders), NEW c, Put(c), NEW kinds
  PROVE  Waiting(kinds)' = Waiting(kinds) + (IF c.kind \in kinds THEN 1 ELSE 0)
<1>1. Waiting(kinds) = Cardinality(Of(orders, kinds)) /\ Waiting(kinds)' = Cardinality(Of(orders', kinds))
  BY DEF Waiting, Of
<1> QED BY <1>1, CountAppend DEF Put

(* and when one is taken. *)
LEMMA WaitingTake ==
  ASSUME orders \in Seq(Orders), NEW kind, Take(kind), NEW kinds
  PROVE  Waiting(kinds)' = Waiting(kinds) - (IF kind \in kinds THEN 1 ELSE 0)
<1>1. Waiting(kinds) = Cardinality(Of(orders, kinds)) /\ Waiting(kinds)' = Cardinality(Of(orders', kinds))
  BY DEF Waiting, Of
<1>2. orders # <<>> /\ orders' = Tail(orders) /\ Head(orders).kind = kind
  BY DEF Take
<1> QED BY <1>1, <1>2, CountTail

LEMMA WaitingNat ==
  ASSUME orders \in Seq(Orders), NEW kinds
  PROVE  /\ Waiting(kinds) \in Nat
         /\ Waiting(kinds) = 0 <=> \A i \in DOMAIN orders : Kind(i) \notin kinds
BY CountFinite DEF Waiting, Of, Kind

(* A process that ends has nothing pending. *)
LEMMA PendingsDown == ASSUME Down PROVE PendingsHonest'
<1>1. orders' = <<>> /\ orders' \in Seq(Orders) /\ saves' = 0 /\ deletes' = 0 /\ worker' = "ended"
  BY DEF Down
<1>2. \A kinds : Waiting(kinds)' = 0
  <2> SUFFICES ASSUME NEW kinds PROVE Waiting(kinds)' = 0
    OBVIOUS
  <2>1. {i \in DOMAIN orders' : orders'[i].kind \in kinds} = {}
    BY <1>1
  <2> QED BY <2>1, FS_EmptySet DEF Waiting
<1> QED BY <1>1, <1>2 DEF PendingsHonest, Deleting, Deleted, Swapping

(* Every step keeps the numbers honest. *)
LEMMA PendingsStep == CollectInv /\ [CollectNext]_collectVars => PendingsHonest'
<1> SUFFICES ASSUME CollectInv, [CollectNext]_collectVars PROVE PendingsHonest'
  OBVIOUS
<1>0. orders \in Seq(Orders) /\ PendingsHonest /\ saves \in Nat /\ deletes \in 0..1
  BY DEF CollectInv, CollectTypeOK
<1> DEFINE Ended == {"save", "discard"}
           Saved == IF worker = "saved" THEN 1 ELSE 0
           Busy == IF worker \in Deleting THEN 1 ELSE 0
<1>n. Waiting(Ended) \in Nat /\ Waiting({"delete"}) \in Nat
  BY <1>0, WaitingNat
<1>k. /\ "get" \notin Deleting /\ "saved" \notin Deleting /\ "ended" \notin Deleting
      /\ {"clear", "flush", "write", "writing", "aside", "swap", "sweep", "sweeping", "reload", "told"}
           \subseteq Deleting
  BY DEF Deleting, Deleted, Swapping
\* Steps that leave the queue and the worker's kind of work alone.
<1>a. ASSUME UNCHANGED <<saves, deletes, orders>>,
             (worker = "saved") <=> (worker' = "saved"), (worker \in Deleting) <=> (worker' \in Deleting)
      PROVE  PendingsHonest'
  BY <1>a, <1>0 DEF PendingsHonest, Waiting
\* Steps that put a command.
<1>b. ASSUME NEW c, Put(c), UNCHANGED worker,
             saves' = saves + (IF c.kind \in Ended THEN 1 ELSE 0),
             deletes' = deletes + (IF c.kind = "delete" THEN 1 ELSE 0)
      PROVE  PendingsHonest'
  <2>1. /\ Waiting(Ended)' = Waiting(Ended) + (IF c.kind \in Ended THEN 1 ELSE 0)
        /\ Waiting({"delete"})' = Waiting({"delete"}) + (IF c.kind \in {"delete"} THEN 1 ELSE 0)
    BY <1>0, <1>b, WaitingPut
  <2> QED BY <1>0, <1>n, <1>b, <2>1 DEF PendingsHonest
\* Steps that take a command.
<1>c. ASSUME NEW kind \in {"frame", "save", "discard", "delete", "finalize"}, Take(kind),
             saves' = saves - (IF kind \in Ended THEN 1 ELSE 0) + (IF worker' = "saved" THEN 1 ELSE 0),
             deletes' = deletes - (IF kind = "delete" THEN 1 ELSE 0) + (IF worker' \in Deleting THEN 1 ELSE 0)
      PROVE  PendingsHonest'
  <2>1. /\ Waiting(Ended)' = Waiting(Ended) - (IF kind \in Ended THEN 1 ELSE 0)
        /\ Waiting({"delete"})' = Waiting({"delete"}) - (IF kind \in {"delete"} THEN 1 ELSE 0)
        /\ worker = "get"
    BY <1>0, <1>c, WaitingTake DEF Take
  <2> QED BY <1>0, <1>k, <1>n, <1>c, <2>1 DEF PendingsHonest
<1>1. ASSUME LoadFails \/ Leave \/ Killed PROVE PendingsHonest'
  BY <1>1, PendingsDown DEF LoadFails, Leave, Killed
<1>2. ASSUME StartUp \/ RollBack \/ SweepTmp \/ SweepBak \/ Mend PROVE PendingsHonest'
  BY <1>2, <1>a DEF StartUp, RollBack, SweepTmp, SweepBak, Mend, RemoveTorn, CheckKept, WriteInfo,
     WriteStats, LoadsAgain, MendCut, NotRunning, pending
<1>3. ASSUME Load PROVE PendingsHonest'
  <2>1. worker = "ended" /\ worker' = "get" /\ UNCHANGED <<saves, deletes, orders>>
    BY <1>3 DEF Load, CollectInv, PhaseInv, Running
  <2> QED BY <2>1, <1>a, <1>k
<1>4. ASSUME Record PROVE PendingsHonest'
  BY <1>4, <1>a DEF Record, Elsewhere, pending
<1>5. ASSUME AddFrame PROVE PendingsHonest'
  BY <1>0, <1>5, <1>b DEF AddFrame, Elsewhere, pending
<1>6. ASSUME SaveKey \/ DiscardKey \/ DeleteLast PROVE PendingsHonest'
  BY <1>0, <1>6, <1>b DEF SaveKey, DiscardKey, DeleteLast, Elsewhere
<1>7. ASSUME Quit PROVE PendingsHonest'
  <2>1. CASE ~recording
    BY <1>0, <1>7, <2>1, <1>b DEF Quit, Elsewhere
  <2>2. CASE recording
    <3> DEFINE d == [kind |-> "discard", rec |-> rec]  q == Append(orders, d)
    <3>1. d \in Orders
      BY <2>2, <1>7 DEF Quit, CollectInv, CollectTypeOK, PhaseInv, Orders
    <3>2. q \in Seq(Orders) /\ orders' = Append(q, [kind |-> "finalize"])
      BY <1>0, <1>7, <2>2, <3>1 DEF Quit
    <3>3. \A kinds : Cardinality(Of(q, kinds)) = Cardinality(Of(orders, kinds)) + (IF "discard" \in kinds THEN 1 ELSE 0)
      BY <1>0, CountAppend
    <3> HIDE DEF q
    <3>4. \A kinds : Cardinality(Of(orders', kinds)) = Cardinality(Of(q, kinds)) + (IF "finalize" \in kinds THEN 1 ELSE 0)
      BY <3>2, CountAppend
    <3>w. \A kinds : Waiting(kinds) = Cardinality(Of(orders, kinds)) /\ Waiting(kinds)' = Cardinality(Of(orders', kinds))
      BY DEF Waiting, Of
    <3>5. /\ Waiting(Ended)' = Waiting(Ended) + 1 + 0
          /\ Waiting({"delete"})' = Waiting({"delete"}) + 0 + 0
      BY <3>3, <3>4, <3>w
    <3> QED BY <1>0, <1>n, <1>7, <2>2, <3>5 DEF PendingsHonest, Quit, Elsewhere
  <2> QED BY <2>1, <2>2
<1>8. ASSUME TakeFrame \/ Finalize \/ FinalizeFails PROVE PendingsHonest'
  <2>1. worker' # "saved" /\ worker' \notin Deleting /\ UNCHANGED <<saves, deletes>>
    BY <1>8, <1>k DEF TakeFrame, Finalize, FinalizeFails, Take, pending
  <2>2. Take("frame") \/ Take("finalize")
    BY <1>8 DEF TakeFrame, Finalize, FinalizeFails
  <2>3. saves' = saves - 0 + 0 /\ deletes' = deletes - 0 + 0
    BY <1>0, <2>1
  <2> QED BY <2>1, <2>2, <2>3, <1>c
<1>9. ASSUME SaveEpisode \/ ClearBuffer \/ SaveError \/ DiscardError PROVE PendingsHonest'
  <2>1. Take("save") \/ Take("discard")
    BY <1>9 DEF SaveEpisode, ClearBuffer, SaveError, DiscardError
  <2>2. worker' \in {"get", "saved"} /\ worker' \notin Deleting
    BY <1>9, <1>k DEF SaveEpisode, ClearBuffer, SaveError, DiscardError, Take
  <2>3. deletes' = deletes - 0 + 0 /\ saves' = saves - 1 + (IF worker' = "saved" THEN 1 ELSE 0)
    BY <1>0, <1>9, <2>2 DEF SaveEpisode, ClearBuffer, SaveError, DiscardError, Take, pending
  <2> QED BY <2>1, <2>2, <2>3, <1>c
<1>10. ASSUME CountSave PROVE PendingsHonest'
  BY <1>0, <1>k, <1>n, <1>10 DEF CountSave, PendingsHonest, Waiting
<1>11. ASSUME TakeDelete PROVE PendingsHonest'
  <2>1. Take("delete") /\ worker' \in Deleting /\ worker' # "saved" /\ UNCHANGED <<saves, deletes>>
    BY <1>11, <1>k DEF TakeDelete, pending
  <2>2. saves' = saves - 0 + 0 /\ deletes' = deletes - 1 + 1
    BY <1>0, <2>1
  <2> QED BY <2>1, <2>2, <1>c
<1>12. ASSUME DropBuffer \/ Flush \/ RemoveStale \/ WriteRest \/ SetAside \/ Swap \/ RemoveBackup
              \/ BackupGone \/ Reload
       PROVE  PendingsHonest'
  <2>1. UNCHANGED <<saves, deletes, orders>> /\ worker \in Deleting /\ worker' \in Deleting
    BY <1>12, <1>k DEF DropBuffer, Flush, RemoveStale, WriteRest, SetAside, Swap, RemoveBackup,
       BackupGone, Reload, Step, Rest, pending
  <2> QED BY <2>1, <1>a, <1>k
<1>13. ASSUME CountDelete \/ DeleteFails PROVE PendingsHonest'
  <2>1. /\ worker \in Deleting /\ worker' = "get" /\ deletes' = deletes - 1 /\ UNCHANGED <<saves, orders>>
    BY <1>13, <1>k DEF CountDelete, DeleteFails
  <2> QED BY <1>0, <1>k, <1>n, <2>1 DEF PendingsHonest, Waiting
<1>14. CASE UNCHANGED collectVars
  BY <1>14, <1>a DEF collectVars
<1> QED BY <1>1, <1>2, <1>3, <1>4, <1>5, <1>6, <1>7, <1>8, <1>9, <1>10, <1>11, <1>12, <1>13, <1>14
        DEF CollectNext, Begin, Operator, Work, Delete

-----------------------------------------------------------------------------
(* What a process has in memory, and which folders there are.              *)

(* A process that ends has nothing in memory. *)
LEMMA PhaseDown == ASSUME PhaseInv, Down PROVE PhaseInv'
BY DEF PhaseInv, Down, Running, Kind

(* Every step keeps the phase. *)
LEMMA PhaseStep == CollectInv /\ [CollectNext]_collectVars => PhaseInv'
<1> SUFFICES ASSUME CollectInv, [CollectNext]_collectVars PROVE PhaseInv'
  OBVIOUS
<1>0. PhaseInv /\ orders \in Seq(Orders) /\ rec \in Nat
  BY DEF CollectInv, CollectTypeOK
\* Steps of the worker.
<1>a. ASSUME Running, worker # "ended", UNCHANGED <<main, recording, rec>>, worker' # "ended",
             orders' = orders \/ (orders # <<>> /\ orders' = Tail(orders))
      PROVE  PhaseInv'
  <2>1. main = "run" => \A i \in DOMAIN orders' : orders'[i].kind # "finalize"
    <3>1. CASE orders' = orders
      BY <1>0, <3>1 DEF PhaseInv, Kind
    <3>2. CASE orders # <<>> /\ orders' = Tail(orders)
      <4>1. \A i \in DOMAIN orders' : i + 1 \in DOMAIN orders /\ orders'[i] = orders[i + 1]
        BY <1>0, <3>2, TailFacts
      <4> QED BY <1>0, <4>1 DEF PhaseInv, Kind
    <3> QED BY <1>a, <3>1, <3>2
  <2> QED BY <1>0, <1>a, <2>1 DEF PhaseInv, Running, Kind
\* Steps of the operator that leave the program running.
<1>b. ASSUME main = "run", UNCHANGED <<main, worker>>, recording' => rec' > 0,
             orders' = orders \/ \E c : Put(c) /\ c.kind # "finalize"
      PROVE  PhaseInv'
  <2>1. \A i \in DOMAIN orders' : orders'[i].kind # "finalize"
    BY <1>0, <1>b, AppendFacts DEF PhaseInv, Kind, Put
  <2> QED BY <1>0, <1>b, <2>1 DEF PhaseInv, Running, Kind
<1>1. ASSUME LoadFails \/ Leave \/ Killed PROVE PhaseInv'
  BY <1>0, <1>1, PhaseDown DEF LoadFails, Leave, Killed
<1>2. ASSUME StartUp \/ RollBack \/ SweepTmp \/ SweepBak \/ Load PROVE PhaseInv'
  BY <1>0, <1>2 DEF StartUp, RollBack, SweepTmp, SweepBak, Load, PhaseInv, Running, Kind,
     operator, pending, dataset
<1>3. ASSUME Mend \/ UNCHANGED collectVars PROVE PhaseInv'
  BY <1>0, <1>3 DEF Mend, RemoveTorn, CheckKept, WriteInfo, WriteStats, LoadsAgain, MendCut,
     NotRunning, PhaseInv, Running, Kind, operator, pending, dataset, collectVars
<1>4. ASSUME Record \/ AddFrame \/ SaveKey \/ DiscardKey \/ DeleteLast PROVE PhaseInv'
  <2>1. main = "run" /\ UNCHANGED <<main, worker>> /\ (recording' => rec' > 0)
    BY <1>0, <1>4 DEF Record, AddFrame, SaveKey, DiscardKey, DeleteLast, Elsewhere, Idle, operator, PhaseInv
  <2>2. orders' = orders \/ \E c : Put(c) /\ c.kind # "finalize"
    <3>1. CASE Record
      BY <3>1 DEF Record
    <3>2. CASE AddFrame
      <4>1. Put([kind |-> "frame", rec |-> rec])
        BY <3>2 DEF AddFrame
      <4> QED BY <4>1
    <3>3. CASE SaveKey
      <4>1. Put([kind |-> "save", rec |-> rec, frames |-> shown])
        BY <3>3 DEF SaveKey
      <4> QED BY <4>1
    <3>4. CASE DiscardKey
      <4>1. Put([kind |-> "discard", rec |-> rec])
        BY <3>4 DEF DiscardKey
      <4> QED BY <4>1
    <3>5. CASE DeleteLast
      <4>1. Put([kind |-> "delete", index |-> numSaved])
        BY <3>5 DEF DeleteLast
      <4> QED BY <4>1
    <3> QED BY <1>4, <3>1, <3>2, <3>3, <3>4, <3>5
  <2> QED BY <2>1, <2>2, <1>b
<1>5. ASSUME Quit PROVE PhaseInv'
  BY <1>0, <1>5 DEF Quit, Idle, Elsewhere, dataset, PhaseInv, Running
<1>6. ASSUME TakeFrame \/ SaveEpisode \/ ClearBuffer \/ SaveError \/ DiscardError \/ FinalizeFails \/ TakeDelete
      PROVE  PhaseInv'
  <2>1. Running /\ worker # "ended" /\ orders # <<>> /\ orders' = Tail(orders)
    BY <1>6 DEF TakeFrame, SaveEpisode, ClearBuffer, SaveError, DiscardError, FinalizeFails, TakeDelete,
       Take, Working, Running
  <2>2. UNCHANGED <<main, recording, rec>> /\ worker' # "ended"
    BY <1>6 DEF TakeFrame, SaveEpisode, ClearBuffer, SaveError, DiscardError, FinalizeFails, TakeDelete,
       Take, Unheard, operator
  <2> QED BY <2>1, <2>2, <1>a
<1>7. ASSUME CountSave \/ Delete PROVE PhaseInv'
  <2>1. CASE TakeDelete
    BY <1>6, <2>1
  <2>2. CASE CountSave \/ DropBuffer \/ Flush \/ RemoveStale \/ WriteRest \/ SetAside \/ Swap \/ RemoveBackup
             \/ BackupGone \/ Reload \/ CountDelete \/ DeleteFails
    <3>1. Running /\ worker # "ended" /\ orders' = orders
      BY <2>2 DEF CountSave, DropBuffer, Flush, RemoveStale, WriteRest, SetAside, Swap, RemoveBackup,
         BackupGone, Reload, CountDelete, DeleteFails, Step, Rest, Working, Running
    <3>2. UNCHANGED <<main, recording, rec>> /\ worker' # "ended"
      BY <2>2 DEF CountSave, DropBuffer, Flush, RemoveStale, WriteRest, SetAside, Swap, RemoveBackup,
         BackupGone, Reload, CountDelete, DeleteFails, Step, Rest, Unheard, operator
    <3> QED BY <3>1, <3>2, <1>a
  <2> QED BY <1>7, <2>1, <2>2 DEF Delete
<1>8. ASSUME Finalize PROVE PhaseInv'
  <2>1. orders # <<>> /\ Head(orders).kind = "finalize" /\ Running
    BY <1>8 DEF Finalize, Take, Working, Running
  <2>2. main = "wait"
    BY <1>0, <2>1, TailFacts DEF PhaseInv, Running, Kind
  <2> QED BY <1>0, <1>8, <2>2 DEF Finalize, Unheard, operator, PhaseInv, Running
<1> QED BY <1>1, <1>2, <1>3, <1>4, <1>5, <1>6, <1>7, <1>8
        DEF CollectNext, Begin, Operator, Work, Delete

(* The folders are as they should be when nothing about them changes. *)
LEMMA FolderSame ==
  ASSUME FolderInv, UNCHANGED <<main, worker, root, tmp, bak>> PROVE FolderInv'
BY DEF FolderInv, Durable, Running

(* A folder is not nothing, nor is a new one. *)
LEMMA FolderThere ==
  /\ Nothing \notin Present
  /\ \A eps \in Seq(Episode) :
       /\ Folder(eps) \in Present /\ Folder(eps).eps = eps /\ Folder(eps).whole /\ Folder(eps).torn = 0
       /\ \A d \in Present : [d EXCEPT !.eps = eps] \in Present
  /\ \A d \in Present :
       /\ Partial(d) \in Present /\ Partial(d).eps = d.eps /\ Partial(d).torn = d.torn
       /\ [d EXCEPT !.whole = TRUE] \in Present
       /\ [d EXCEPT !.torn = 0] \in Present
<1>1. 0 \in 0..MaxRecs
  OBVIOUS
<1> QED BY <1>1 DEF Present, Folder, Partial

(* What is stored are lists of episodes. *)
LEMMA StoredLists ==
  ASSUME CollectTypeOK
  PROVE  /\ root # Nothing => root \in Present /\ root.eps \in Seq(Episode) /\ root.torn \in 0..MaxRecs
         /\ bak # Nothing => bak \in Present /\ bak.eps \in Seq(Episode) /\ bak.torn \in 0..MaxRecs
         /\ tmp # Nothing => tmp \in Present /\ tmp.eps \in Seq(Episode) /\ tmp.torn \in 0..MaxRecs
         /\ fresh \in Seq(Episode) /\ Durable \in Seq(Episode)
         /\ root # Nothing => Durable = root.eps /\ Stored = Durable \o fresh /\ Stored \in Seq(Episode)
         /\ Durable \o fresh \in Seq(Episode)
<1>1. {root, tmp, bak} \subseteq Present \cup {Nothing} /\ fresh \in Seq(Episode)
  BY DEF CollectTypeOK, Folders
<1>2. \A d \in Present : d.eps \in Seq(Episode) /\ d.torn \in 0..MaxRecs
  BY DEF Present
<1>3. <<>> \in Seq(Episode)
  OBVIOUS
<1>4. Durable \in Seq(Episode)
  BY <1>1, <1>2, <1>3 DEF Durable
<1>5. root # Nothing => Durable = root.eps /\ Stored = Durable \o fresh
  BY DEF Durable, Stored
<1>6. Durable \o fresh \in Seq(Episode)
  BY <1>1, <1>4, ConcatProperties
<1> QED BY <1>1, <1>2, <1>4, <1>5, <1>6

(* A process that is killed leaves the data set with some of the episodes it
   had in memory. *)
LEMMA KilledRoot ==
  ASSUME CollectInv, Killed, root # Nothing
  PROVE  /\ root' \in Present /\ root'.whole = root.whole
         /\ \E n \in 0..Len(fresh) : root'.eps = root.eps \o SubSeq(fresh, 1, n)
<1>1. root \in Present /\ root.eps \in Seq(Episode) /\ root.torn \in 0..MaxRecs /\ fresh \in Seq(Episode)
  BY StoredLists DEF CollectInv
<1>2. PICK n \in 0..Len(fresh) :
        root' = [root EXCEPT !.eps = @ \o SubSeq(fresh, 1, n), !.torn = @ + Len(fresh) - n]
  BY DEF Killed
<1>3. SubSeq(fresh, 1, n) \in Seq(Episode)
  BY <1>1, FirstFacts
<1>4. root.eps \o SubSeq(fresh, 1, n) \in Seq(Episode)
  BY <1>1, <1>3, ConcatProperties
<1>5. Len(fresh) \in Nat /\ MaxRecs \in Nat /\ n \in Nat /\ n <= Len(fresh)
  BY <1>1
<1>6. root.torn + Len(fresh) - n \in 0..MaxRecs
  <2>1. CASE worker = "ended"
    <3>1. fresh = <<>>
      BY <2>1 DEF CollectInv, PhaseInv
    <3>2. Len(fresh) = 0
      BY <3>1
    <3> QED BY <1>1, <1>5, <3>2
  <2>2. CASE worker # "ended"
    <3>1. root.torn = 0
      BY <2>2 DEF CollectInv, FolderInv
    <3>2. Len(fresh) <= MaxRecs
      <4>1. CASE Len(fresh) > 0
        <5>1. Len(fresh) \in DOMAIN fresh /\ fresh[Len(fresh)] \in Episode
          BY <1>1, <4>1
        <5>2. fresh[Len(fresh)].rec \in 1..MaxRecs
          BY <5>1 DEF Episode
        <5>3. Len(fresh) <= fresh[Len(fresh)].rec
          BY <5>1 DEF CollectInv, OrderInv
        <5> QED BY <1>5, <5>2, <5>3
      <4> QED BY <1>5, <4>1
    <3> QED BY <1>5, <3>1, <3>2
  <2> QED BY <2>1, <2>2
<1>7. /\ root' \in Present /\ root'.whole = root.whole
      /\ root'.eps = root.eps \o SubSeq(fresh, 1, n)
  BY <1>1, <1>2, <1>4, <1>6 DEF Present
<1> QED BY <1>7

(* Every step keeps the folders as they should be. *)
LEMMA FolderStep == CollectInv /\ [CollectNext]_collectVars => FolderInv'
<1> SUFFICES ASSUME CollectInv, [CollectNext]_collectVars PROVE FolderInv'
  OBVIOUS
<1>0. FolderInv /\ CollectTypeOK /\ PhaseInv
  BY DEF CollectInv
<1>s. /\ Swapping = {"aside", "swap"} /\ Deleted = {"sweep", "sweeping", "reload", "told"}
      /\ Deleting = {"clear", "flush", "write", "writing", "aside", "swap", "sweep", "sweeping", "reload", "told"}
  BY DEF Swapping, Deleted, Deleting
\* Steps of the worker that leave the folders alone.
<1>a. ASSUME Running, worker \notin {"ended", "swap"}, main' = main, UNCHANGED <<root, tmp, bak>>,
             worker' \notin {"writing", "aside", "swap", "sweep"}
      PROVE  FolderInv'
  BY <1>0, <1>a, <1>s DEF FolderInv, Running, Durable
<1>1. ASSUME LoadFails \/ Leave PROVE FolderInv'
  BY <1>0, <1>1, <1>s DEF LoadFails, Leave, Down, folders, FolderInv, Durable, Running
<1>2. ASSUME Killed PROVE FolderInv'
  <2>1. main' = "down" /\ worker' = "ended" /\ UNCHANGED <<tmp, bak>>
    BY <1>2 DEF Killed, Down
  <2>2. CASE root = Nothing
    BY <1>0, <1>2, <1>s, <2>1, <2>2 DEF Killed, FolderInv, Running
  <2>3. CASE root # Nothing
    <3>1. root.whole /\ root'.whole = root.whole /\ root' \in Present
      BY <1>0, <1>2, <2>3, KilledRoot DEF FolderInv
    <3> QED BY <1>0, <1>s, <2>1, <2>3, <3>1 DEF FolderInv, Running
  <2> QED BY <2>2, <2>3
<1>3. ASSUME StartUp \/ RollBack \/ SweepTmp \/ SweepBak PROVE FolderInv'
  BY <1>0, <1>3, <1>s DEF StartUp, RollBack, SweepTmp, SweepBak, FolderInv, PhaseInv, Durable, Running, folders
<1>4. ASSUME Load PROVE FolderInv'
  <2>1. /\ main = "load" /\ worker = "ended" /\ main' = "run" /\ worker' = "get" /\ UNCHANGED <<tmp, bak>>
        /\ root # Nothing => root.torn = 0
        /\ root' = IF root = Nothing THEN Folder(<<>>) ELSE root
    BY <1>0, <1>4 DEF Load, PhaseInv, Running
  <2>2. root' # Nothing /\ (root = Nothing => root'.whole /\ root'.torn = 0)
    <3>1. <<>> \in Seq(Episode)
      OBVIOUS
    <3> QED BY <2>1, <3>1, FolderThere
  <2> QED BY <1>0, <1>s, <2>1, <2>2 DEF FolderInv, Running
<1>5. ASSUME Mend PROVE FolderInv'
  <2>1. root # Nothing /\ UNCHANGED <<main, worker, tmp, bak>> /\ main = "down"
    BY <1>5 DEF Mend, RemoveTorn, CheckKept, WriteInfo, WriteStats, LoadsAgain, MendCut, Mending, NotRunning
  <2>2. root' = root \/ root' = [root EXCEPT !.torn = 0]
    BY <1>5 DEF Mend, RemoveTorn, CheckKept, WriteInfo, WriteStats, LoadsAgain, MendCut
  <2>3. root' \in Present /\ root'.whole = root.whole
    <3>1. root \in Present
      BY <1>0, <2>1, StoredLists
    <3> QED BY <2>2, <3>1, FolderThere DEF Present
  <2> QED BY <1>0, <1>s, <2>1, <2>3 DEF FolderInv, PhaseInv, Running
<1>6. ASSUME Operator PROVE FolderInv'
  <2>1. main = "run" /\ main' \in {"run", "wait"} /\ UNCHANGED <<worker, root, tmp, bak>>
    BY <1>6 DEF Operator, Record, AddFrame, SaveKey, DiscardKey, DeleteLast, Quit, Elsewhere, folders
  <2> QED BY <1>0, <2>1 DEF FolderInv, Durable, Running
<1>7. ASSUME TakeFrame \/ SaveEpisode \/ ClearBuffer \/ SaveError \/ DiscardError \/ FinalizeFails
             \/ CountSave \/ TakeDelete \/ DropBuffer \/ BackupGone \/ Reload \/ CountDelete
      PROVE  FolderInv'
  <2>1. main' = main /\ Running /\ worker \notin {"ended", "swap"} /\ worker' \notin {"writing", "aside", "swap", "sweep"}
    BY <1>7 DEF TakeFrame, SaveEpisode, ClearBuffer, SaveError, DiscardError, FinalizeFails,
       CountSave, TakeDelete, DropBuffer, BackupGone, Reload, CountDelete, Take, Step, Rest, Unheard,
       Working, Running
  <2>2. UNCHANGED <<root, tmp>> /\ (worker # "sweeping" => bak' = bak)
    BY <1>7 DEF TakeFrame, SaveEpisode, ClearBuffer, SaveError, DiscardError, FinalizeFails,
       CountSave, TakeDelete, DropBuffer, BackupGone, Reload, CountDelete, Step, folders
  <2>3. CASE worker # "sweeping"
    BY <2>1, <2>2, <2>3, <1>a
  <2>4. CASE worker = "sweeping"
    BY <1>0, <1>s, <2>1, <2>2, <2>4 DEF FolderInv, Running
  <2> QED BY <2>3, <2>4
<1>8. ASSUME Finalize \/ Flush PROVE FolderInv'
  <2>1. /\ main' = main /\ Running /\ worker \in {"get", "flush"} /\ UNCHANGED <<tmp, bak>>
        /\ worker' \in {"ended", "write", "told"} /\ root' = [root EXCEPT !.eps = Stored]
    BY <1>8 DEF Finalize, Flush, Take, Rest, Unheard, Working, Running
  <2>2. root \in Present /\ Stored \in Seq(Episode) /\ root # Nothing
    BY <1>0, <2>1, StoredLists DEF FolderInv
  <2>3. root' # Nothing /\ root'.whole = root.whole /\ root'.torn = root.torn
    BY <2>1, <2>2, FolderThere DEF Present
  <2> QED BY <1>0, <1>s, <2>1, <2>2, <2>3 DEF FolderInv, Running
<1>9. ASSUME RemoveStale PROVE FolderInv'
  <2>1. /\ main' = main /\ Running /\ worker = "write" /\ worker' = "writing" /\ root' = root
        /\ bak' = Nothing /\ tmp' = Partial(Folder(RemoveAt(root.eps, count)))
    BY <1>9 DEF RemoveStale, Step, Rest, Unheard, Working, Running
  <2>2. root # Nothing /\ Durable = root.eps /\ root.eps \in Seq(Episode) /\ Durable' = root.eps
    BY <1>0, <2>1, StoredLists DEF FolderInv, Durable
  <2>3. count = Len(Durable) /\ count > 0
    BY <2>1 DEF CollectInv, CountInv, Deleting
  <2>4. RemoveAt(root.eps, count) = Front(root.eps) /\ Front(root.eps) \in Seq(Episode)
    <3>1. root.eps # <<>>
      BY <2>2, <2>3
    <3> QED BY <2>2, <2>3, <3>1, RemoveLast, FrontFacts
  <2>5. tmp' # Nothing /\ tmp'.eps = Front(Durable)' /\ tmp'.torn = 0
    <3>1. /\ Folder(Front(root.eps)) \in Present /\ Folder(Front(root.eps)).eps = Front(root.eps)
          /\ Folder(Front(root.eps)).torn = 0
      BY <2>4, FolderThere
    <3>2. tmp' = Partial(Folder(Front(root.eps)))
      BY <2>1, <2>4
    <3>3. Front(Durable)' = Front(root.eps)
      BY <2>2
    <3> QED BY <3>1, <3>2, <3>3, FolderThere
  <2> QED BY <1>0, <1>s, <2>1, <2>2, <2>5 DEF FolderInv, Running
<1>10. ASSUME WriteRest PROVE FolderInv'
  <2>1. /\ main' = main /\ Running /\ worker = "writing" /\ worker' = "aside" /\ UNCHANGED <<root, bak>>
        /\ tmp' = [tmp EXCEPT !.whole = TRUE]
    BY <1>10 DEF WriteRest, Step, Rest, Unheard, Working, Running
  <2>2. tmp \in Present /\ tmp.eps = Front(Durable) /\ tmp.torn = 0 /\ Durable' = Durable
    BY <1>0, <2>1, StoredLists DEF FolderInv, Durable
  <2>3. tmp' \in Present /\ tmp'.eps = tmp.eps /\ tmp'.torn = 0 /\ tmp'.whole
    BY <2>1, <2>2 DEF Present
  <2>4. Front(Durable)' = Front(Durable)
    BY <2>2
  <2> QED BY <1>0, <1>s, <2>1, <2>2, <2>3, <2>4 DEF FolderInv, Running
<1>11. ASSUME SetAside PROVE FolderInv'
  <2>1. /\ main' = main /\ Running /\ worker = "aside" /\ worker' = "swap" /\ UNCHANGED tmp
        /\ bak' = root /\ root' = Nothing
    BY <1>11 DEF SetAside, Step, Rest, Unheard, Working, Running
  <2>2. /\ root # Nothing /\ root.whole /\ root.torn = 0
        /\ tmp # Nothing /\ tmp.eps = Front(Durable) /\ tmp.torn = 0 /\ tmp.whole /\ Durable' = Durable
    BY <1>0, <1>s, <2>1 DEF FolderInv, Durable
  <2>3. Front(Durable)' = Front(Durable)
    BY <2>2
  <2> QED BY <1>0, <1>s, <2>1, <2>2, <2>3 DEF FolderInv, Running
<1>12. ASSUME Swap PROVE FolderInv'
  BY <1>0, <1>12, <1>s DEF Swap, Step, Rest, Unheard, Working, Running, FolderInv
<1>13. ASSUME RemoveBackup PROVE FolderInv'
  <2>1. /\ main' = main /\ Running /\ worker = "sweep" /\ worker' = "sweeping" /\ UNCHANGED <<root, tmp>>
    BY <1>13 DEF RemoveBackup, Step, Rest, Unheard, Working, Running
  <2> QED BY <1>0, <1>s, <2>1 DEF FolderInv, Running
<1>14. ASSUME DeleteFails PROVE FolderInv'
  <2>1. /\ main' = main /\ Running /\ worker \in Deleting /\ worker' = "get" /\ UNCHANGED tmp
        /\ IF worker = "swap" THEN root' = bak /\ bak' = Nothing ELSE UNCHANGED <<root, bak>>
    BY <1>14 DEF DeleteFails, Unheard, Working, Running
  <2>2. CASE worker = "swap"
    BY <1>0, <1>s, <2>1, <2>2 DEF FolderInv, Running
  <2>3. CASE worker # "swap"
    BY <1>s, <2>1, <2>3, <1>a
  <2> QED BY <2>2, <2>3
<1>15. CASE UNCHANGED collectVars
  BY <1>0, <1>15, FolderSame DEF collectVars, folders
<1> QED BY <1>1, <1>2, <1>3, <1>4, <1>5, <1>6, <1>7, <1>8, <1>9, <1>10, <1>11, <1>12, <1>13, <1>14, <1>15
        DEF CollectNext, Begin, Work, Delete

-----------------------------------------------------------------------------
(* What a start would find, step by step.                                  *)

(* Only the writers, a swap and a kill change what a start would find. *)
LEMMA DurableKept ==
  ASSUME CollectInv, [CollectNext]_collectVars
  PROVE  Durable' = Durable \/ Flush \/ Finalize \/ Swap \/ (Killed /\ root # Nothing)
<1>0. FolderInv /\ PhaseInv /\ CollectTypeOK
  BY DEF CollectInv
<1>a. ASSUME UNCHANGED <<root, bak>> PROVE Durable' = Durable
  BY <1>a DEF Durable
<1>1. ASSUME LoadFails \/ Leave \/ (Killed /\ root = Nothing) PROVE Durable' = Durable
  BY <1>1, <1>a DEF LoadFails, Leave, Killed, folders
<1>2. ASSUME StartUp \/ SweepTmp PROVE Durable' = Durable
  BY <1>2, <1>a DEF StartUp, SweepTmp, folders
<1>3. ASSUME RollBack \/ SweepBak PROVE Durable' = Durable
  BY <1>0, <1>3 DEF RollBack, SweepBak, FolderInv, Durable
<1>4. ASSUME Load PROVE Durable' = Durable
  <2>1. <<>> \in Seq(Episode)
    OBVIOUS
  <2> QED BY <1>0, <1>4, <2>1, FolderThere DEF Load, FolderInv, Durable
<1>5. ASSUME Mend PROVE Durable' = Durable
  <2>1. root # Nothing /\ (root' = root \/ root' = [root EXCEPT !.torn = 0])
    BY <1>5 DEF Mend, RemoveTorn, CheckKept, WriteInfo, WriteStats, LoadsAgain, MendCut, Mending
  <2>2. root \in Present
    BY <1>0, <2>1, StoredLists
  <2>3. root' \in Present /\ root'.eps = root.eps
    BY <2>1, <2>2, FolderThere DEF Present
  <2> QED BY <2>1, <2>3, FolderThere DEF Durable
<1>6. ASSUME Operator PROVE Durable' = Durable
  BY <1>6, <1>a DEF Operator, Record, AddFrame, SaveKey, DiscardKey, DeleteLast, Quit, Elsewhere, folders
<1>7. ASSUME TakeFrame \/ SaveEpisode \/ ClearBuffer \/ SaveError \/ DiscardError \/ FinalizeFails
             \/ CountSave \/ TakeDelete \/ DropBuffer \/ WriteRest \/ Reload \/ CountDelete
      PROVE  Durable' = Durable
  BY <1>7, <1>a DEF TakeFrame, SaveEpisode, ClearBuffer, SaveError, DiscardError, FinalizeFails,
     CountSave, TakeDelete, DropBuffer, WriteRest, Reload, CountDelete, folders
<1>8. ASSUME RemoveStale \/ RemoveBackup \/ BackupGone PROVE Durable' = Durable
  <2>1. root' = root /\ Running /\ worker \in {"write", "sweep", "sweeping"}
    BY <1>8 DEF RemoveStale, RemoveBackup, BackupGone, Step, Working, Running
  <2> QED BY <1>0, <2>1 DEF FolderInv, Durable
<1>9. ASSUME SetAside PROVE Durable' = Durable
  BY <1>0, <1>9 DEF SetAside, Step, Working, FolderInv, Running, Durable
<1>10. ASSUME DeleteFails PROVE Durable' = Durable
  BY <1>0, <1>10 DEF DeleteFails, Working, FolderInv, Running, Durable
<1>11. CASE UNCHANGED collectVars
  BY <1>11, <1>a DEF collectVars, folders
<1> QED BY <1>1, <1>2, <1>3, <1>4, <1>5, <1>6, <1>7, <1>8, <1>9, <1>10, <1>11
        DEF CollectNext, Begin, Work, Delete

(* The episodes in memory are added to the stored ones when they are written. *)
LEMMA DurableWritten ==
  ASSUME CollectInv, Flush \/ Finalize
  PROVE  /\ Durable' = Durable \o fresh /\ fresh' = <<>> /\ Len(Durable') = Len(Durable) + Len(fresh)
         /\ Len(Stored) = Len(Durable) + Len(fresh) /\ Episodes' = Episodes
<1>1. root # Nothing /\ root' = [root EXCEPT !.eps = Stored] /\ fresh' = <<>>
  BY DEF CollectInv, FolderInv, Flush, Finalize, Take, Working, Running
<1>2. /\ root \in Present /\ Stored = Durable \o fresh /\ Stored \in Seq(Episode)
      /\ Durable \in Seq(Episode) /\ fresh \in Seq(Episode)
  BY <1>1, StoredLists DEF CollectInv
<1>3. root' \in Present /\ root'.eps = Stored
  BY <1>1, <1>2, FolderThere DEF Present
<1>4. Durable' = Stored
  BY <1>3, FolderThere DEF Durable
<1>5. Len(Stored) = Len(Durable) + Len(fresh)
  BY <1>2, ConcatProperties
<1>6. Episodes' = Durable' \o <<>>
  BY <1>1 DEF Episodes
<1>7. Episodes' = Stored
  BY <1>2, <1>4, <1>6, ConcatEmptySeq
<1> QED BY <1>1, <1>2, <1>4, <1>5, <1>7 DEF Episodes

(* A swap takes the last stored episode away. *)
LEMMA DurableSwapped ==
  ASSUME CollectInv, Swap
  PROVE  /\ Durable' = Front(Durable) /\ Durable # <<>> /\ Len(Durable') = Len(Durable) - 1
         /\ Durable \in Seq(Episode) /\ fresh = <<>> /\ fresh' = <<>> /\ count = Len(Durable) /\ count' = count
         /\ deletes = 1 /\ deletes' = 1 /\ worker = "swap" /\ worker' = "sweep"
<1>1. worker = "swap" /\ worker' = "sweep" /\ root' = tmp /\ UNCHANGED <<dataset, pending>>
  BY DEF Swap, Step, Rest
<1>2. tmp # Nothing /\ tmp.eps = Front(Durable)
  BY <1>1 DEF CollectInv, FolderInv, Swapping
<1>3. Durable' = Front(Durable) /\ Durable \in Seq(Episode)
  BY <1>1, <1>2, StoredLists DEF Durable, CollectInv
<1>4. worker \in Deleting \ {"told"} /\ worker \in {"write", "writing"} \cup Swapping /\ worker # "saved"
  BY <1>1 DEF Deleting, Swapping, Deleted
<1>5. count = Len(Durable) /\ count > 0 /\ fresh = <<>>
  BY <1>4 DEF CollectInv, CountInv
<1>6. Durable # <<>>
  BY <1>5
<1>7. deletes \in 0..1 /\ Waiting({"delete"}) \in Nat /\ deletes = Waiting({"delete"}) + 1
  BY <1>4, WaitingNat DEF CollectInv, CollectTypeOK, PendingsHonest
<1> QED BY <1>1, <1>3, <1>5, <1>6, <1>7, FrontFacts DEF dataset, pending

(* A process that ends without being killed leaves what is stored. *)
LEMMA DurableKilled ==
  ASSUME CollectInv, Killed, root # Nothing
  PROVE  /\ Durable \in Seq(Episode)
         /\ \E n \in 0..Len(fresh) : Durable' = Durable \o SubSeq(fresh, 1, n) /\ SubSeq(fresh, 1, n) \in Seq(Episode)
<1>1. Durable = root.eps /\ Durable \in Seq(Episode) /\ fresh \in Seq(Episode)
  BY StoredLists DEF CollectInv
<1>2. root' # Nothing /\ \E n \in 0..Len(fresh) : root'.eps = root.eps \o SubSeq(fresh, 1, n)
  BY KilledRoot, FolderThere
<1>3. Durable' = root'.eps
  BY <1>2 DEF Durable
<1> QED BY <1>1, <1>2, <1>3, FirstFacts

-----------------------------------------------------------------------------
(* How many episodes the program counts.                                   *)

(* A command at the end that deletes the last of `count` episodes, or does
   not delete, leaves the requests to delete exact. *)
LEMMA CountPut ==
  ASSUME NEW s \in Seq(Orders), NEW c, NEW n,
         c.kind = "delete" => c.index = n /\ \A i \in DOMAIN s : s[i].kind # "save",
         \A i \in DOMAIN s : s[i].kind = "delete" =>
           s[i].index = n /\ \A k \in 1..i : s[k].kind # "save"
  PROVE  \A i \in DOMAIN Append(s, c) : Append(s, c)[i].kind = "delete" =>
           Append(s, c)[i].index = n /\ \A k \in 1..i : Append(s, c)[k].kind # "save"
<1> DEFINE t == Append(s, c)
<1>1. /\ DOMAIN t = 1..(Len(s) + 1) /\ DOMAIN s = 1..Len(s) /\ Len(s) \in Nat
      /\ \A i \in 1..Len(s) : t[i] = s[i]
      /\ t[Len(s) + 1] = c
  BY AppendFacts
<1> HIDE DEF t
<1> SUFFICES ASSUME NEW i \in DOMAIN t, t[i].kind = "delete"
             PROVE  t[i].index = n /\ \A k \in 1..i : t[k].kind # "save"
  BY DEF t
<1>2. CASE i \in DOMAIN s
  BY <1>1, <1>2
<1>3. CASE i = Len(s) + 1
  BY <1>1, <1>3
<1> QED BY <1>1, <1>2, <1>3

(* Every step keeps the counts. *)
LEMMA CountStep == CollectInv /\ [CollectNext]_collectVars => CountInv'
<1> SUFFICES ASSUME CollectInv, [CollectNext]_collectVars PROVE CountInv'
  OBVIOUS
<1>0. FolderInv /\ CollectTypeOK /\ PhaseInv /\ CountInv /\ PendingsHonest
  BY DEF CollectInv
<1>s. /\ Swapping = {"aside", "swap"} /\ Deleted = {"sweep", "sweeping", "reload", "told"}
      /\ Deleting = {"clear", "flush", "write", "writing", "aside", "swap", "sweep", "sweeping", "reload", "told"}
  BY DEF Swapping, Deleted, Deleting
<1>t. /\ orders \in Seq(Orders) /\ Durable \in Seq(Episode) /\ fresh \in Seq(Episode) /\ count \in Nat
      /\ Len(Durable) \in Nat /\ Len(fresh) \in Nat /\ saves \in Nat /\ deletes \in 0..1
  BY SMTT(30), <1>0, StoredLists DEF CollectTypeOK
<1> DEFINE Exact == \A i \in DOMAIN orders : Kind(i) = "delete" =>
                      orders[i].index = count /\ \A k \in 1..i : Kind(k) # "save"
\* Taking a command leaves the other requests exact.
<1>x. ASSUME orders # <<>>, orders' = Tail(orders), count' = count \/ Head(orders).kind = "save"
      PROVE  Exact'
  <2>1. \A i \in DOMAIN orders' : i \in Nat /\ i >= 1 /\ i + 1 \in DOMAIN orders /\ orders'[i] = orders[i + 1]
    BY <1>t, <1>x, TailFacts
  <2>2. orders[1] = Head(orders)
    BY <1>t, <1>x, TailFacts
  <2>3. ASSUME NEW i \in DOMAIN orders', Kind(i)' = "delete"
        PROVE  orders'[i].index = count' /\ \A k \in 1..i : Kind(k)' # "save"
    <3>1. Kind(i + 1) = "delete" /\ i + 1 \in DOMAIN orders
      BY <2>1, <2>3 DEF Kind
    <3>2. orders[i + 1].index = count /\ \A k \in 1..(i + 1) : Kind(k) # "save"
      BY <1>0, <3>1 DEF CountInv
    <3>3. 1 \in 1..(i + 1) /\ \A k \in 1..i : k + 1 \in 1..(i + 1) /\ k \in DOMAIN orders'
      BY <2>1, <1>t, <1>x, TailFacts
    <3>4. count' = count
      BY <1>x, <2>2, <3>2, <3>3 DEF Kind
    <3>5. \A k \in 1..i : Kind(k)' # "save"
      BY <2>1, <3>2, <3>3 DEF Kind
    <3> QED BY <2>1, <3>2, <3>4, <3>5
  <2> QED BY <2>3
\* Steps that leave the process down or on its way up.
<1>a. ASSUME orders' = <<>>, main' \notin {"run", "wait"}, worker' = "ended" PROVE CountInv'
  BY <1>a, <1>s DEF CountInv, Running
\* Steps of the operator.
<1>b. ASSUME main = "run", main' \in {"run", "wait"}, UNCHANGED <<worker, dataset, folders, trouble, numSaved, job>>,
             Exact'
      PROVE  CountInv'
  <2>1. Durable' = Durable
    BY <1>b DEF Durable, folders
  <2> QED BY <1>0, <1>b, <1>s, <2>1 DEF CountInv, Running, dataset
\* Steps of the worker outside a deletion.
<1>c. ASSUME Running, main' = main, worker \notin Deleting, worker' \notin Deleting, Exact',
             worker' = "saved" \/ numSaved' = count',
             trouble \subseteq trouble',
             count' - Len(Durable') - Len(fresh') = count - Len(Durable) - Len(fresh),
             count' \in Nat, Len(Durable') \in Nat, Len(fresh') \in Nat
      PROVE  CountInv'
  <2>1. \/ count' = Len(Durable') + Len(fresh')
        \/ trouble' \cap Deleted # {} /\ count' = Len(Durable') + Len(fresh') + 1
    <3>1. \/ count = Len(Durable) + Len(fresh)
          \/ trouble \cap Deleted # {} /\ count = Len(Durable) + Len(fresh) + 1
      BY <1>0, <1>c DEF CountInv
    <3>2. CASE count = Len(Durable) + Len(fresh)
      <4>1. count - Len(Durable) - Len(fresh) = 0
        BY <1>t, <3>2
      <4> QED BY <1>c, <4>1
    <3>3. CASE trouble \cap Deleted # {} /\ count = Len(Durable) + Len(fresh) + 1
      <4>1. count - Len(Durable) - Len(fresh) = 1
        BY <1>t, <3>3
      <4>2. count' = Len(Durable') + Len(fresh') + 1
        BY <1>c, <4>1
      <4> QED BY <1>c, <3>3, <4>2
    <3> QED BY <3>1, <3>2, <3>3
  <2> QED BY <1>c, <1>s, <2>1 DEF CountInv, Running
<1>1. ASSUME LoadFails \/ Leave \/ Killed PROVE CountInv'
  BY <1>1, <1>a DEF LoadFails, Leave, Killed, Down
<1>2. ASSUME StartUp \/ RollBack \/ SweepTmp \/ SweepBak \/ Mend PROVE CountInv'
  BY <1>0, <1>2, <1>a DEF StartUp, RollBack, SweepTmp, SweepBak, Mend, RemoveTorn, CheckKept, WriteInfo,
     WriteStats, LoadsAgain, MendCut, Mending, NotRunning, PhaseInv, Running
<1>3. ASSUME Load PROVE CountInv'
  <2>1. /\ worker' = "get" /\ count' = Len(root'.eps) /\ numSaved' = Len(root'.eps) /\ main' = "run"
        /\ fresh' = <<>> /\ orders' = <<>> /\ root' = IF root = Nothing THEN Folder(<<>>) ELSE root
    BY <1>0, <1>3 DEF Load, PhaseInv, Running
  <2>2. <<>> \in Seq(Episode) /\ Len(<<>>) = 0
    OBVIOUS
  <2>3. root' \in Present /\ root'.eps \in Seq(Episode) /\ root' # Nothing
    BY <1>0, <2>1, <2>2, FolderThere, StoredLists
  <2>4. count' = Len(Durable') + Len(fresh')
    BY <2>1, <2>2, <2>3 DEF Durable
  <2> QED BY <1>s, <2>1, <2>4 DEF CountInv, Running
<1>4. ASSUME Record PROVE CountInv'
  <2>1. Exact'
    BY <1>0, <1>4 DEF Record, Elsewhere, dataset, CountInv, Kind
  <2> QED BY <1>4, <2>1, <1>b DEF Record, Elsewhere, pending
<1>5. ASSUME AddFrame \/ SaveKey \/ DiscardKey \/ DeleteLast PROVE CountInv'
  <2>1. PICK c : /\ orders' = Append(orders, c)
                 /\ c.kind = "delete" => c.index = count /\ \A i \in DOMAIN orders : orders[i].kind # "save"
    <3>1. CASE AddFrame
      <4>1. Put([kind |-> "frame", rec |-> rec])
        BY <3>1 DEF AddFrame
      <4> QED BY <4>1 DEF Put
    <3>2. CASE SaveKey
      <4>1. Put([kind |-> "save", rec |-> rec, frames |-> shown])
        BY <3>2 DEF SaveKey
      <4> QED BY <4>1 DEF Put
    <3>3. CASE DiscardKey
      <4>1. Put([kind |-> "discard", rec |-> rec])
        BY <3>3 DEF DiscardKey
      <4> QED BY <4>1 DEF Put
    <3>4. CASE DeleteLast
      <4>1. Put([kind |-> "delete", index |-> numSaved]) /\ saves = 0 /\ deletes = 0 /\ Running
        BY <3>4 DEF DeleteLast, Running
      <4>2. Waiting({"save", "discard"}) = 0 /\ worker # "saved" /\ worker \notin Deleting
        BY <1>0, <1>t, <4>1, WaitingNat DEF PendingsHonest
      <4>3. \A i \in DOMAIN orders : orders[i].kind # "save"
        BY <1>t, <4>2, WaitingNat DEF Kind
      <4>4. numSaved = count
        BY <1>0, <1>s, <4>1, <4>2 DEF CountInv
      <4> QED BY <4>1, <4>3, <4>4 DEF Put
    <3> QED BY <1>5, <3>1, <3>2, <3>3, <3>4
  <2>2. count' = count /\ main = "run" /\ main' = "run"
    BY <1>5 DEF AddFrame, SaveKey, DiscardKey, DeleteLast, Elsewhere, dataset
  <2>3. Exact'
    BY <1>0, <1>t, <2>1, <2>2, CountPut DEF CountInv, Kind
  <2> QED BY <1>5, <2>2, <2>3, <1>b DEF AddFrame, SaveKey, DiscardKey, DeleteLast, Elsewhere, pending
<1>6. ASSUME Quit PROVE CountInv'
  <2>1. count' = count
    BY <1>6 DEF Quit, Elsewhere, dataset
  <2>2. Exact'
    <3>1. CASE ~recording
      <4>1. orders' = Append(orders, [kind |-> "finalize"])
        BY <1>6, <3>1 DEF Quit, Put
      <4> QED BY <1>0, <1>t, <2>1, <4>1, CountPut DEF CountInv, Kind
    <3>2. CASE recording
      <4> DEFINE d == [kind |-> "discard", rec |-> rec]  q == Append(orders, d)
      <4>1. d \in Orders /\ d.kind # "delete"
        BY <1>0, <3>2, <1>6 DEF Quit, CollectTypeOK, PhaseInv, Orders
      <4>2. q \in Seq(Orders) /\ orders' = Append(q, [kind |-> "finalize"])
        BY <1>t, <1>6, <3>2, <4>1 DEF Quit
      <4>3. \A i \in DOMAIN q : q[i].kind = "delete" => q[i].index = count /\ \A k \in 1..i : q[k].kind # "save"
        BY <1>0, <1>t, <4>1, CountPut DEF CountInv, Kind
      <4> HIDE DEF q
      <4> QED BY <2>1, <4>2, <4>3, CountPut DEF Kind
    <3> QED BY <3>1, <3>2
  <2> QED BY <1>6, <2>2, <1>b DEF Quit, Elsewhere
<1>7. ASSUME TakeFrame \/ ClearBuffer \/ SaveError \/ DiscardError \/ FinalizeFails PROVE CountInv'
  <2>1. /\ orders # <<>> /\ orders' = Tail(orders) /\ main' = main /\ Running /\ worker = "get" /\ worker' = "get"
        /\ UNCHANGED <<count, fresh, numSaved, root, bak>> /\ trouble \subseteq trouble'
    BY <1>7 DEF TakeFrame, ClearBuffer, SaveError, DiscardError, FinalizeFails, Take, Working, Running,
       Unheard, pending, dataset, folders, Fine, Trouble
  <2>2. Durable' = Durable /\ numSaved = count
    BY <1>0, <2>1 DEF Durable, CountInv
  <2>3. Exact'
    BY <2>1, <1>x
  <2> QED BY <1>c, <1>s, <1>t, <2>1, <2>2, <2>3
<1>8. ASSUME SaveEpisode PROVE CountInv'
  <2>1. /\ orders # <<>> /\ orders' = Tail(orders) /\ Head(orders).kind = "save"
        /\ main' = main /\ Running /\ worker = "get" /\ worker' = "saved" /\ count' = count + 1
        /\ UNCHANGED <<root, bak, trouble>>
    BY <1>8 DEF SaveEpisode, Take, Working, Running, Unheard, folders, Fine
  <2>2. Durable' = Durable
    BY <2>1 DEF Durable
  <2>3. Len(fresh') = Len(fresh) + 1
    BY <1>8, <1>t, AppendFacts DEF SaveEpisode
  <2>4. Exact'
    BY <2>1, <1>x
  <2>5. count' - Len(Durable') - Len(fresh') = count - Len(Durable) - Len(fresh)
    BY <1>t, <2>1, <2>2, <2>3
  <2> QED BY <1>c, <1>s, <1>t, <2>1, <2>2, <2>3, <2>4, <2>5
<1>9. ASSUME CountSave PROVE CountInv'
  <2>1. /\ main' = main /\ Running /\ worker = "saved" /\ worker' = "get" /\ numSaved' = count
        /\ UNCHANGED <<orders, count, fresh, root, bak, trouble>>
    BY <1>9 DEF CountSave, Working, Running, Unheard, dataset, folders, Fine
  <2>2. Durable' = Durable
    BY <2>1 DEF Durable
  <2>3. Exact'
    BY <1>0, <2>1 DEF CountInv, Kind
  <2> QED BY <1>c, <1>s, <1>t, <2>1, <2>2, <2>3
<1>10. ASSUME Finalize PROVE CountInv'
  <2>1. /\ orders # <<>> /\ orders' = Tail(orders) /\ main' = main /\ Running /\ worker = "get" /\ worker' = "ended"
        /\ UNCHANGED <<count, numSaved, trouble>>
    BY <1>10 DEF Finalize, Take, Working, Running, Unheard, pending, Fine
  <2>2. /\ Len(Durable') = Len(Durable) + Len(fresh) /\ fresh' = <<>> /\ numSaved = count
    BY <1>0, <1>10, <2>1, DurableWritten DEF CountInv
  <2>3. Exact'
    BY <2>1, <1>x
  <2>4. Len(fresh') = 0
    BY <2>2
  <2>5. count' - Len(Durable') - Len(fresh') = count - Len(Durable) - Len(fresh)
    BY <1>t, <2>1, <2>2, <2>4
  <2> QED BY <1>c, <1>s, <1>t, <2>1, <2>2, <2>3, <2>4, <2>5
<1>11. ASSUME TakeDelete PROVE CountInv'
  <2>1. /\ orders # <<>> /\ orders' = Tail(orders) /\ job' = Head(orders) /\ Head(orders).kind = "delete"
        /\ main' = main /\ Running /\ worker = "get" /\ worker' = IF count > 0 THEN "clear" ELSE "told"
        /\ UNCHANGED <<count, fresh, numSaved, root, bak, trouble>>
    BY <1>11 DEF TakeDelete, Take, Working, Running, Unheard, pending, dataset, folders, Fine
  <2>2. Durable' = Durable
    BY <2>1 DEF Durable
  <2>3. Exact'
    BY <2>1, <1>x
  <2>4. Head(orders).index = count
    <3>1. orders[1] = Head(orders) /\ 1 \in DOMAIN orders
      BY <1>t, <2>1, TailFacts
    <3> QED BY <1>0, <2>1, <3>1 DEF CountInv, Kind
  <2> QED BY <1>0, <1>s, <1>t, <2>1, <2>2, <2>3, <2>4 DEF CountInv, Running
<1>12. ASSUME DropBuffer PROVE CountInv'
  <2>1. /\ main' = main /\ Running /\ worker = "clear" /\ worker' = "flush"
        /\ UNCHANGED <<orders, job, count, fresh, numSaved, root, bak, trouble>>
    BY <1>12 DEF DropBuffer, Step, Rest, Working, Running, Unheard, pending, folders, Fine
  <2>2. Durable' = Durable
    BY <2>1 DEF Durable
  <2> QED BY <1>0, <1>s, <2>1, <2>2 DEF CountInv, Running, Kind
<1>13. ASSUME Flush PROVE CountInv'
  <2>1. /\ main' = main /\ Running /\ worker = "flush"
        /\ worker' = IF count <= Len(Stored) THEN "write" ELSE "told"
        /\ UNCHANGED <<orders, job, count, numSaved, trouble>>
    BY <1>13 DEF Flush, Rest, Working, Running, Unheard, pending, Fine
  <2>2. /\ Len(Durable') = Len(Durable) + Len(fresh) /\ fresh' = <<>> /\ Len(Stored) = Len(Durable) + Len(fresh)
    BY <1>13, DurableWritten
  <2>3. Len(fresh') = 0
    BY <2>2
  <2>4. \/ count = Len(Stored)
        \/ trouble \cap Deleted # {} /\ count = Len(Stored) + 1
    BY <1>0, <1>s, <2>1, <2>2 DEF CountInv
  <2>5. count > 0 /\ job.index = count /\ numSaved = count /\ Exact'
    BY <1>0, <1>s, <2>1 DEF CountInv, Kind
  <2> QED BY <1>s, <1>t, <2>1, <2>2, <2>3, <2>4, <2>5 DEF CountInv, Running
<1>14. ASSUME RemoveStale \/ WriteRest \/ SetAside \/ RemoveBackup \/ BackupGone PROVE CountInv'
  <2>1. /\ main' = main /\ Running /\ UNCHANGED <<orders, job, count, fresh, numSaved, trouble>>
        /\ \/ worker \in {"write", "writing", "aside"} /\ worker' \in {"writing", "aside", "swap"}
           \/ worker \in {"sweep", "sweeping"} /\ worker' \in {"sweeping", "reload"}
    BY <1>14 DEF RemoveStale, WriteRest, SetAside, RemoveBackup, BackupGone, Step, Rest, Working, Running,
       Unheard, pending, dataset, Fine
  <2>2. Durable' = Durable
    <3>1. ~Flush /\ ~Finalize /\ ~Swap /\ ~Killed
      BY <2>1 DEF Flush, Finalize, Take, Swap, Step, Killed, Down, Running
    <3> QED BY <3>1, DurableKept
  <2> QED BY <1>0, <1>s, <2>1, <2>2 DEF CountInv, Running, Kind
<1>15. ASSUME Swap PROVE CountInv'
  <2>1. /\ main' = main /\ Running /\ worker = "swap" /\ worker' = "sweep"
        /\ UNCHANGED <<orders, job, numSaved, trouble>>
    BY <1>15 DEF Swap, Step, Rest, Working, Running, Unheard, pending, Fine
  <2>2. count' = count /\ count = Len(Durable) /\ Len(Durable') = Len(Durable) - 1 /\ fresh' = <<>>
    BY <1>15, DurableSwapped
  <2> QED BY <1>0, <1>s, <1>t, <2>1, <2>2 DEF CountInv, Running, Kind
<1>16. ASSUME Reload PROVE CountInv'
  <2>1. /\ main' = main /\ Running /\ worker = "reload" /\ worker' = "told" /\ count' = Len(root.eps)
        /\ fresh' = <<>> /\ UNCHANGED <<orders, root, bak>>
    BY <1>16 DEF Reload, Step, Rest, Working, Running, Unheard, folders
  <2>2. count' = Len(Durable')
    BY <1>0, <2>1 DEF FolderInv, Durable
  <2>3. \A i \in DOMAIN orders : Kind(i) # "delete"
    <3>1. Waiting({"delete"}) = 0
      BY <1>0, <1>s, <1>t, <2>1, WaitingNat DEF PendingsHonest
    <3> QED BY <1>t, <3>1, WaitingNat
  <2>4. Len(fresh') = 0 /\ Len(Durable') \in Nat
    BY <1>t, <2>1 DEF Durable
  <2> QED BY <1>s, <2>1, <2>2, <2>3, <2>4 DEF CountInv, Running, Kind
<1>17. ASSUME CountDelete PROVE CountInv'
  <2>1. /\ main' = main /\ Running /\ worker = "told" /\ worker' = "get" /\ numSaved' = count
        /\ UNCHANGED <<orders, count, fresh, root, bak, trouble>>
    BY <1>17 DEF CountDelete, Working, Running, Unheard, dataset, folders, Fine
  <2>2. Durable' = Durable
    BY <2>1 DEF Durable
  <2> QED BY <1>0, <1>s, <2>1, <2>2 DEF CountInv, Running, Kind
<1>18. ASSUME DeleteFails PROVE CountInv'
  <2>1. /\ main' = main /\ Running /\ worker \in Deleting \ {"told"} /\ worker' = "get"
        /\ trouble' = trouble \cup {worker} /\ UNCHANGED <<orders, count, fresh, numSaved>>
    BY <1>18 DEF DeleteFails, Working, Running, Unheard, dataset, Trouble
  <2>2. Durable' = Durable
    BY <1>0, <1>18 DEF DeleteFails, Working, FolderInv, Running, Durable
  <2>3. \/ count = Len(Durable) + Len(fresh)
        \/ trouble' \cap Deleted # {} /\ count = Len(Durable) + Len(fresh) + 1
    <3>1. CASE worker \in {"clear", "flush"}
      BY <1>0, <1>s, <2>1, <3>1 DEF CountInv
    <3>2. CASE worker \in {"write", "writing", "aside", "swap"}
      <4>1. count = Len(Durable) /\ fresh = <<>>
        BY <1>0, <1>s, <3>2 DEF CountInv
      <4> QED BY <1>t, <4>1
    <3>3. CASE worker \in {"sweep", "sweeping", "reload"}
      <4>1. count = Len(Durable) + 1 /\ fresh = <<>> /\ worker \in trouble' \cap Deleted
        BY <1>0, <1>s, <2>1, <3>3 DEF CountInv
      <4> QED BY <1>t, <4>1
    <3> QED BY <1>s, <2>1, <3>1, <3>2, <3>3
  <2> QED BY <1>0, <1>s, <2>1, <2>2, <2>3 DEF CountInv, Running, Kind
<1>19. CASE UNCHANGED collectVars
  <2>1. Durable' = Durable
    BY <1>19 DEF collectVars, folders, Durable
  <2> QED BY <1>0, <1>19, <2>1 DEF collectVars, dataset, CountInv, Running, Kind
<1> QED BY <1>1, <1>2, <1>3, <1>4, <1>5, <1>6, <1>7, <1>8, <1>9, <1>10, <1>11, <1>12, <1>13, <1>14,
           <1>15, <1>16, <1>17, <1>18, <1>19
        DEF CollectNext, Begin, Operator, Work, Delete

-----------------------------------------------------------------------------
(* Recordings are stored in the order of their numbers, each once.         *)

\* What is stored or in memory is the same, up to episodes lost at the end.
Shorter == DOMAIN Episodes' \subseteq DOMAIN Episodes /\ \A n \in DOMAIN Episodes' : Episodes'[n] = Episodes[n]

(* What stays of a list of episodes, when some at the end are lost. *)
LEMMA ShorterLists ==
  ASSUME NEW d \in Seq(Episode), NEW f \in Seq(Episode)
  PROVE  /\ Len(d) \in Nat /\ Len(f) \in Nat
         /\ d \o f \in Seq(Episode) /\ DOMAIN (d \o f) = 1..(Len(d) + Len(f))
         /\ \A n \in 1..Len(d) : (d \o f)[n] = d[n]
         /\ \A n \in 1..Len(f) : Len(d) + n \in DOMAIN (d \o f) /\ (d \o f)[Len(d) + n] = f[n]
         /\ d \o <<>> = d
<1>1. /\ d \o f \in Seq(Episode) /\ Len(d \o f) = Len(d) + Len(f)
      /\ \A i \in 1..(Len(d) + Len(f)) : (d \o f)[i] = IF i <= Len(d) THEN d[i] ELSE f[i - Len(d)]
  BY ConcatProperties
<1>2. d \o <<>> = d
  BY ConcatEmptySeq
<1>3. Len(d) \in Nat /\ Len(f) \in Nat /\ DOMAIN (d \o f) = 1..(Len(d) + Len(f))
  BY <1>1
<1>4. \A n \in 1..Len(d) : (d \o f)[n] = d[n]
  BY <1>1, <1>3
<1>5. \A n \in 1..Len(f) : Len(d) + n \in DOMAIN (d \o f) /\ (d \o f)[Len(d) + n] = f[n]
  <2> SUFFICES ASSUME NEW n \in 1..Len(f)
               PROVE  Len(d) + n \in DOMAIN (d \o f) /\ (d \o f)[Len(d) + n] = f[n]
    OBVIOUS
  <2>1. Len(d) + n \in 1..(Len(d) + Len(f)) /\ ~(Len(d) + n <= Len(d)) /\ Len(d) + n - Len(d) = n
    BY <1>3
  <2> QED BY <1>1, <1>3, <2>1
<1> QED BY <1>1, <1>2, <1>3, <1>4, <1>5

(* Only a save adds an episode. *)
LEMMA EpisodesStep ==
  ASSUME CollectInv, [CollectNext]_collectVars
  PROVE  \/ Shorter /\ fresh' \in {fresh, <<>>}
         \/ SaveEpisode
<1>0. Durable \in Seq(Episode) /\ fresh \in Seq(Episode)
  BY StoredLists DEF CollectInv
<1>a. ASSUME Durable' = Durable, fresh' \in {fresh, <<>>} PROVE Shorter
  <2>1. CASE fresh' = fresh
    BY <1>a, <2>1 DEF Shorter, Episodes
  <2>2. CASE fresh' = <<>>
    <3>1. Episodes' = Durable /\ Episodes = Durable \o fresh
      BY <1>0, <1>a, <2>2, ShorterLists DEF Episodes
    <3> QED BY <1>0, <3>1, ShorterLists DEF Shorter
  <2> QED BY <1>a, <2>1, <2>2
<1>1. CASE Flush \/ Finalize
  BY <1>1, DurableWritten DEF Shorter
<1>2. CASE Swap
  <2>1. Episodes = Durable /\ Episodes' = Front(Durable) /\ fresh' = <<>>
    <3>1. Durable' = Front(Durable) /\ fresh = <<>> /\ fresh' = <<>> /\ Front(Durable) \in Seq(Episode)
      BY <1>0, <1>2, DurableSwapped, FrontFacts
    <3> QED BY <1>0, <3>1, ShorterLists DEF Episodes
  <2>2. /\ Len(Durable) \in Nat /\ DOMAIN Durable = 1..Len(Durable)
        /\ DOMAIN Front(Durable) = 1..(Len(Durable) - 1)
        /\ \A i \in 1..(Len(Durable) - 1) : Front(Durable)[i] = Durable[i]
    BY <1>0, <1>2, DurableSwapped, FrontFacts
  <2> QED BY <2>1, <2>2 DEF Shorter
<1>3. CASE Killed /\ root # Nothing
  <2>1. PICK n \in 0..Len(fresh) : Durable' = Durable \o SubSeq(fresh, 1, n) /\ SubSeq(fresh, 1, n) \in Seq(Episode)
    BY <1>3, DurableKilled
  <2> DEFINE e == SubSeq(fresh, 1, n)
  <2>2. e \in Seq(Episode) /\ Len(e) = n /\ \A i \in 1..n : e[i] = fresh[i]
    BY <1>0, FirstFacts
  <2>3. fresh' = <<>> /\ Episodes = Durable \o fresh
    BY <1>3 DEF Killed, Down, Episodes
  <2> HIDE DEF e
  <2>4. Episodes' = Durable \o e
    <3>1. Durable \o e \in Seq(Episode) /\ Durable' = Durable \o e
      BY <1>0, <2>1, <2>2, ShorterLists DEF e
    <3> QED BY <2>3, <3>1, ShorterLists DEF Episodes
  <2>5. /\ DOMAIN Episodes' = 1..(Len(Durable) + n) /\ DOMAIN Episodes = 1..(Len(Durable) + Len(fresh))
        /\ Len(Durable) \in Nat /\ Len(fresh) \in Nat
    BY <1>0, <2>2, <2>3, <2>4, ShorterLists
  <2>6. \A i \in DOMAIN Episodes' : Episodes'[i] = Episodes[i]
    <3> SUFFICES ASSUME NEW i \in DOMAIN Episodes' PROVE Episodes'[i] = Episodes[i]
      OBVIOUS
    <3>1. CASE i <= Len(Durable)
      BY <1>0, <2>2, <2>3, <2>4, <2>5, <3>1, ShorterLists
    <3>2. CASE i > Len(Durable)
      <4>1. i - Len(Durable) \in 1..n /\ i - Len(Durable) \in 1..Len(fresh) /\ i = Len(Durable) + (i - Len(Durable))
        BY <2>5, <3>2
      <4>2. \A m \in 1..n : Episodes'[Len(Durable) + m] = e[m]
        BY <1>0, <2>2, <2>4, ShorterLists
      <4>3. \A m \in 1..Len(fresh) : Episodes[Len(Durable) + m] = fresh[m]
        BY <1>0, <2>3, ShorterLists
      <4> QED BY <2>2, <4>1, <4>2, <4>3
    <3> QED BY <2>5, <3>1, <3>2
  <2> QED BY <2>3, <2>5, <2>6 DEF Shorter
<1>4. CASE ~Flush /\ ~Finalize /\ ~Swap /\ ~(Killed /\ root # Nothing) /\ ~SaveEpisode
  <2>1. Durable' = Durable
    BY <1>4, DurableKept
  <2>2. fresh' \in {fresh, <<>>}
    <3>1. CASE Begin \/ Mend \/ Operator \/ UNCHANGED collectVars
      BY <3>1 DEF Begin, StartUp, RollBack, SweepTmp, SweepBak, Load, LoadFails, Down, Mend, RemoveTorn, CheckKept,
         WriteInfo, WriteStats, LoadsAgain, MendCut, NotRunning, Operator, Record, AddFrame, SaveKey, DiscardKey,
         DeleteLast, Quit, Elsewhere, dataset, collectVars
    <3>2. CASE Work
      BY <1>4, <3>2 DEF Work, TakeFrame, ClearBuffer, SaveError, DiscardError, FinalizeFails, CountSave, Delete,
         TakeDelete, DropBuffer, RemoveStale, WriteRest, SetAside, RemoveBackup, BackupGone, Reload, CountDelete,
         DeleteFails, dataset
    <3>3. CASE Leave \/ Killed
      BY <3>3 DEF Leave, Killed, Down
    <3> QED BY <3>1, <3>2, <3>3 DEF CollectNext
  <2> QED BY <2>1, <2>2, <1>a
<1>5. Flush \/ Finalize => fresh' = <<>>
  BY DurableWritten
<1>6. Swap => fresh' = <<>>
  BY DurableSwapped
<1>7. Killed => fresh' = <<>>
  BY DEF Killed, Down
<1>8. ~Flush /\ ~Finalize /\ ~Swap /\ ~(Killed /\ root # Nothing) /\ ~SaveEpisode => Shorter /\ fresh' \in {fresh, <<>>}
  <2> SUFFICES ASSUME ~Flush /\ ~Finalize /\ ~Swap /\ ~(Killed /\ root # Nothing) /\ ~SaveEpisode
               PROVE  Shorter /\ fresh' \in {fresh, <<>>}
    OBVIOUS
  <2> QED BY <1>4
<1> QED BY <1>1, <1>2, <1>3, <1>5, <1>6, <1>7, <1>8

-----------------------------------------------------------------------------
(* What the steps do to the queue: they leave it alone, put a command at   *)
(* its end, take the first one, or end the process.                        *)

\* The queue and the recording stay; a deletion may empty the buffer.
Quiet ==
  /\ UNCHANGED <<orders, recording, rec, shown>> /\ trouble \subseteq trouble'
  /\ worker' \in Deleting => worker \in Deleting
  /\ buffer' = buffer \/ (worker \in Deleting /\ buffer' = <<>>)
Puts == AddFrame \/ SaveKey \/ DiscardKey \/ DeleteLast \/ Quit
Takes == \/ TakeFrame \/ SaveEpisode \/ ClearBuffer \/ SaveError \/ DiscardError
         \/ Finalize \/ FinalizeFails \/ TakeDelete

LEMMA QueueStep ==
  ASSUME CollectInv, [CollectNext]_collectVars
  PROVE  Down \/ Quiet \/ Record \/ Puts \/ Takes
<1>k. /\ "get" \notin Deleting
      /\ {"clear", "flush", "write", "writing", "aside", "swap", "sweep", "sweeping", "reload", "told"}
           \subseteq Deleting
  BY DEF Deleting, Deleted, Swapping
<1>1. ASSUME LoadFails \/ Leave \/ Killed PROVE Down
  BY <1>1 DEF LoadFails, Leave, Killed
<1>2. ASSUME StartUp \/ RollBack \/ SweepTmp \/ SweepBak \/ Load \/ Mend PROVE Quiet
  BY <1>2, <1>k DEF StartUp, RollBack, SweepTmp, SweepBak, Load, Mend, RemoveTorn, CheckKept, WriteInfo,
     WriteStats, LoadsAgain, MendCut, NotRunning, operator, dataset, Quiet
<1>3. ASSUME CountSave \/ CountDelete PROVE Quiet
  BY <1>3, <1>k DEF CountSave, CountDelete, dataset, Fine, Unheard, operator, Quiet
<1>4. ASSUME DropBuffer \/ Reload PROVE Quiet
  BY <1>4, <1>k DEF DropBuffer, Reload, Step, Rest, Fine, Unheard, operator, Quiet
<1>5. ASSUME Flush \/ RemoveStale \/ WriteRest \/ SetAside \/ Swap \/ RemoveBackup \/ BackupGone PROVE Quiet
  BY <1>5, <1>k DEF Flush, RemoveStale, WriteRest, SetAside, Swap, RemoveBackup, BackupGone, Step, Rest, Fine,
     Unheard, operator, dataset, Quiet
<1>6. ASSUME DeleteFails PROVE Quiet
  BY <1>6, <1>k DEF DeleteFails, Trouble, Unheard, operator, dataset, Quiet
<1>7. CASE UNCHANGED collectVars
  BY <1>7 DEF collectVars, Quiet
<1> QED BY <1>1, <1>2, <1>3, <1>4, <1>5, <1>6, <1>7
        DEF CollectNext, Begin, Operator, Work, Delete, Puts, Takes

(* What a step that takes a command does to the buffer. *)
LEMMA TakesStep ==
  ASSUME CollectInv, Takes
  PROVE  /\ orders # <<>> /\ orders' = Tail(orders) /\ orders \in Seq(Orders) /\ Kind(1) = Head(orders).kind
         /\ UNCHANGED <<recording, rec, shown>> /\ trouble \subseteq trouble' /\ worker = "get"
         /\ worker' \in Deleting => Kind(1) = "delete"
         /\ Kind(1) = "frame" => buffer' = Append(buffer, orders[1].rec) \/ (buffer' = buffer /\ "frame" \in trouble')
         /\ Kind(1) \in {"save", "discard"} => buffer' = <<>> \/ ~Kept'
         /\ Kind(1) \notin {"frame", "save", "discard"} => buffer' = buffer
<1>0. orders \in Seq(Orders)
  BY DEF CollectInv, CollectTypeOK
<1>1. orders # <<>> /\ orders' = Tail(orders) /\ worker = "get"
  BY DEF Takes, TakeFrame, SaveEpisode, ClearBuffer, SaveError, DiscardError, Finalize, FinalizeFails,
     TakeDelete, Take
<1>2. Head(orders) = orders[1] /\ Kind(1) = Head(orders).kind
  BY <1>0, <1>1, TailFacts DEF Kind
<1>3. UNCHANGED <<recording, rec, shown>> /\ trouble \subseteq trouble'
  BY DEF Takes, TakeFrame, SaveEpisode, ClearBuffer, SaveError, DiscardError, Finalize, FinalizeFails,
     TakeDelete, Unheard, operator, Fine, Trouble
<1>4. worker' \in Deleting => Kind(1) = "delete"
  BY <1>1, <1>2 DEF Takes, TakeFrame, SaveEpisode, ClearBuffer, SaveError, DiscardError, Finalize, FinalizeFails,
     TakeDelete, Take, Deleting, Deleted, Swapping
<1>5. CASE TakeFrame
  BY <1>1, <1>2, <1>3, <1>4, <1>5, <1>0 DEF TakeFrame, Take, Trouble
<1>6. CASE SaveEpisode \/ ClearBuffer
  BY <1>1, <1>2, <1>3, <1>4, <1>6, <1>0 DEF SaveEpisode, ClearBuffer, Take
<1>7. CASE SaveError \/ DiscardError
  BY <1>1, <1>2, <1>3, <1>4, <1>7, <1>0 DEF SaveError, DiscardError, Take, Trouble, Kept
<1>8. CASE Finalize \/ FinalizeFails \/ TakeDelete
  BY <1>1, <1>2, <1>3, <1>4, <1>8, <1>0 DEF Finalize, FinalizeFails, TakeDelete, Take, dataset
<1> QED BY <1>5, <1>6, <1>7, <1>8 DEF Takes

(* What a step that puts commands leaves alone. *)
LEMMA PutsStep ==
  ASSUME CollectInv, Puts
  PROVE  /\ UNCHANGED <<rec, worker, buffer, fresh, root, bak, trouble>> /\ main = "run"
         /\ orders \in Seq(Orders) /\ Len(orders) \in Nat /\ DOMAIN orders = 1..Len(orders)
         /\ DOMAIN orders \subseteq DOMAIN orders' /\ \A i \in DOMAIN orders : orders'[i] = orders[i]
         /\ recording' => recording
         /\ \A i \in DOMAIN orders' : i \notin DOMAIN orders /\ orders'[i].kind \in {"save", "discard"} =>
              i = Len(orders) + 1 /\ recording /\ ~recording' /\ orders'[i].rec = rec
         /\ \A i \in DOMAIN orders' : i \notin DOMAIN orders /\ orders'[i].kind = "save" =>
              orders'[i].frames = shown
<1>0. orders \in Seq(Orders) /\ Len(orders) \in Nat /\ DOMAIN orders = 1..Len(orders)
  BY DEF CollectInv, CollectTypeOK
<1>1. UNCHANGED <<rec, worker, buffer, fresh, root, bak, trouble>> /\ main = "run" /\ (recording' => recording)
  BY DEF Puts, AddFrame, SaveKey, DiscardKey, DeleteLast, Quit, Elsewhere, Idle, dataset, folders, operator
<1>a. ASSUME NEW c, orders' = Append(orders, c),
             c.kind \in {"save", "discard"} => recording /\ ~recording' /\ c.rec = rec,
             c.kind = "save" => c.frames = shown
      PROVE  /\ DOMAIN orders \subseteq DOMAIN orders' /\ \A i \in DOMAIN orders : orders'[i] = orders[i]
             /\ \A i \in DOMAIN orders' : i \notin DOMAIN orders /\ orders'[i].kind \in {"save", "discard"} =>
                  i = Len(orders) + 1 /\ recording /\ ~recording' /\ orders'[i].rec = rec
             /\ \A i \in DOMAIN orders' : i \notin DOMAIN orders /\ orders'[i].kind = "save" =>
                  orders'[i].frames = shown
  <2>1. /\ DOMAIN orders' = 1..(Len(orders) + 1) /\ orders'[Len(orders) + 1] = c
        /\ \A i \in 1..Len(orders) : orders'[i] = orders[i]
    BY <1>0, <1>a, AppendFacts
  <2>2. \A i \in DOMAIN orders' : i \notin DOMAIN orders => i = Len(orders) + 1
    BY <1>0, <2>1
  <2> QED BY <1>0, <1>a, <2>1, <2>2
<1>2. CASE AddFrame
  <2>1. Put([kind |-> "frame", rec |-> rec])
    BY <1>2 DEF AddFrame
  <2> QED BY <1>0, <1>1, <1>a, <2>1 DEF Put
<1>3. CASE SaveKey
  <2>1. Put([kind |-> "save", rec |-> rec, frames |-> shown]) /\ recording /\ ~recording'
    BY <1>3 DEF SaveKey, Idle
  <2> QED BY <1>0, <1>1, <1>a, <2>1 DEF Put
<1>4. CASE DiscardKey
  <2>1. Put([kind |-> "discard", rec |-> rec]) /\ recording /\ ~recording'
    BY <1>4 DEF DiscardKey, Idle
  <2> QED BY <1>0, <1>1, <1>a, <2>1 DEF Put
<1>5. CASE DeleteLast
  <2>1. Put([kind |-> "delete", index |-> numSaved])
    BY <1>5 DEF DeleteLast
  <2> QED BY <1>0, <1>1, <1>a, <2>1 DEF Put
<1>6. CASE Quit /\ ~recording
  <2>1. Put([kind |-> "finalize"])
    BY <1>6 DEF Quit
  <2> QED BY <1>0, <1>1, <1>a, <2>1 DEF Put
<1>7. CASE Quit /\ recording
  <2> DEFINE d == [kind |-> "discard", rec |-> rec]  e == [kind |-> "finalize"]
  <2>1. orders' = orders \o <<d, e>> /\ ~recording'
    BY <1>7 DEF Quit, Idle
  <2>2. d \in Orders /\ e \in Orders
    BY <1>7 DEF CollectInv, CollectTypeOK, PhaseInv, Orders
  <2>3. /\ DOMAIN orders' = 1..(Len(orders) + 2) /\ \A i \in 1..Len(orders) : orders'[i] = orders[i]
        /\ orders'[Len(orders) + 1] = d /\ orders'[Len(orders) + 2] = e
    BY <1>0, <2>1, <2>2
  <2>4. d.kind = "discard" /\ d.rec = rec /\ e.kind = "finalize"
    OBVIOUS
  <2> HIDE DEF d, e
  <2>5. \A i \in DOMAIN orders' : i \notin DOMAIN orders => i = Len(orders) + 1 \/ i = Len(orders) + 2
    BY <1>0, <2>3
  <2> QED BY SMTT(30), <1>0, <1>1, <1>7, <2>1, <2>3, <2>4, <2>5
<1> QED BY <1>2, <1>3, <1>4, <1>5, <1>6, <1>7 DEF Puts

(* What stays of the queue, when commands are taken or lost. *)
LEMMA QueueRest ==
  ASSUME orders \in Seq(Orders),
         orders' \in {orders, <<>>} \/ (orders # <<>> /\ orders' = Tail(orders))
  PROVE  \E off \in {0, 1} : \A i \in DOMAIN orders' : i + off \in DOMAIN orders /\ orders'[i] = orders[i + off]
<1>1. CASE orders' = orders
  BY <1>1
<1>2. CASE orders' = <<>>
  BY <1>2
<1>3. CASE orders # <<>> /\ orders' = Tail(orders)
  <2>1. \A i \in DOMAIN orders' : i + 1 \in DOMAIN orders /\ orders'[i] = orders[i + 1]
    BY <1>3, TailFacts
  <2> QED BY <2>1
<1> QED BY <1>1, <1>2, <1>3

(* Every step keeps the recordings in the order of their numbers. *)
LEMMA OrderStep == CollectInv /\ [CollectNext]_collectVars => OrderInv'
<1> SUFFICES ASSUME CollectInv, [CollectNext]_collectVars PROVE OrderInv'
  OBVIOUS
<1>0. OrderInv /\ CollectTypeOK /\ PhaseInv
  BY DEF CollectInv
<1>t. /\ orders \in Seq(Orders) /\ rec \in Nat /\ DOMAIN orders = 1..Len(orders) /\ Len(orders) \in Nat
      /\ fresh \in Seq(Episode) /\ Durable \in Seq(Episode) /\ Episodes \in Seq(Episode)
      /\ recording \in BOOLEAN /\ DOMAIN Episodes = 1..(Len(Durable) + Len(fresh))
      /\ Len(fresh) \in Nat /\ Len(Durable) \in Nat
  BY <1>0, StoredLists, ShorterLists DEF CollectTypeOK, Episodes
<1>n. /\ \A i \in DOMAIN orders : Kind(i) \in {"save", "discard"} => orders[i].rec \in Nat
      /\ \A n \in DOMAIN Episodes : Episodes[n].rec \in Nat
  <2>1. \A i \in DOMAIN orders : orders[i] \in Orders
    BY <1>t
  <2>2. \A n \in DOMAIN Episodes : Episodes[n] \in Episode
    BY <1>t
  <2>3. \A e \in Episode : e.rec \in Nat
    BY DEF Episode
  <2> QED BY <2>1, <2>2, <2>3, CommandFields DEF Kind
\* Commands are taken, or everything in memory is lost.
<1>a. ASSUME orders' \in {orders, <<>>} \/ (orders # <<>> /\ orders' = Tail(orders)),
             rec' = rec, recording' => recording, Shorter, fresh' \in {fresh, <<>>}
      PROVE  OrderInv'
  <2>1. PICK off \in {0, 1} :
          \A i \in DOMAIN orders' : i + off \in DOMAIN orders /\ orders'[i] = orders[i + off]
    BY <1>t, <1>a, QueueRest
  <2>2. DOMAIN orders' \subseteq Nat
    BY <1>t, <1>a, TailFacts
  <2>3. \A n \in DOMAIN Episodes' : n \in DOMAIN Episodes /\ Episodes'[n] = Episodes[n]
    BY <1>a DEF Shorter
  <2>4. \A n \in DOMAIN fresh' : n \in DOMAIN fresh /\ fresh'[n] = fresh[n]
    BY <1>a
  <2>5. \A i \in DOMAIN orders' : Kind(i)' \in {"save", "discard"} =>
          orders'[i].rec <= rec' /\ (recording' => orders'[i].rec < rec')
    BY <1>0, <1>a, <2>1 DEF OrderInv, Kind
  <2>6. \A i, k \in DOMAIN orders' : i < k /\ Kind(i)' = "save" /\ Kind(k)' = "save" =>
          orders'[i].rec < orders'[k].rec
    BY <1>0, <2>1, <2>2 DEF OrderInv, Kind
  <2>7. \A n, k \in DOMAIN Episodes' : n < k => Episodes'[n].rec < Episodes'[k].rec
    BY <1>0, <2>3 DEF OrderInv
  <2>8. \A n \in DOMAIN Episodes' :
          /\ Episodes'[n].rec <= rec' /\ (recording' => Episodes'[n].rec < rec')
          /\ \A i \in DOMAIN orders' : Kind(i)' = "save" => Episodes'[n].rec < orders'[i].rec
    BY <1>0, <1>a, <2>1, <2>3 DEF OrderInv, Kind
  <2>9. \A n \in DOMAIN fresh' : n <= fresh'[n].rec
    BY <1>0, <2>4 DEF OrderInv
  <2> QED BY <2>5, <2>6, <2>7, <2>8, <2>9 DEF OrderInv
<1>1. ASSUME Down \/ Quiet \/ Takes, ~SaveEpisode PROVE OrderInv'
  <2>1. Shorter /\ fresh' \in {fresh, <<>>}
    BY <1>1, EpisodesStep
  <2>2. CASE Down
    BY <1>a, <2>1, <2>2 DEF Down
  <2>3. CASE Quiet
    BY <1>a, <2>1, <2>3 DEF Quiet
  <2>4. CASE Takes
    BY <1>a, <2>1, <2>4, TakesStep
  <2> QED BY <1>1, <2>2, <2>3, <2>4
<1>2. ASSUME Record PROVE OrderInv'
  <2>1. rec' = rec + 1 /\ ~recording /\ UNCHANGED <<orders, fresh, root, bak>>
    BY <1>2 DEF Record, Elsewhere, dataset, folders
  <2>2. Episodes' = Episodes
    BY <2>1 DEF Episodes, Durable
  <2> QED BY SMTT(30), <1>0, <1>n, <1>t, <2>1, <2>2 DEF OrderInv, Kind
<1>3. ASSUME Puts PROVE OrderInv'
  <2>1. Episodes' = Episodes /\ fresh' = fresh /\ rec' = rec /\ (recording' => recording)
    BY <1>3, PutsStep DEF Episodes, Durable
  <2>2. \A i \in DOMAIN orders : i \in DOMAIN orders' /\ orders'[i] = orders[i]
    BY <1>3, PutsStep
  <2>3. \A i \in DOMAIN orders' : i \notin DOMAIN orders /\ orders'[i].kind \in {"save", "discard"} =>
          i = Len(orders) + 1 /\ recording /\ ~recording' /\ orders'[i].rec = rec
    BY <1>3, PutsStep
  <2>4. \A i \in DOMAIN orders' : Kind(i)' \in {"save", "discard"} =>
          orders'[i].rec <= rec' /\ (recording' => orders'[i].rec < rec')
    BY <1>0, <1>t, <2>1, <2>2, <2>3 DEF OrderInv, Kind
  <2>5. \A i, k \in DOMAIN orders' : i < k /\ Kind(i)' = "save" /\ Kind(k)' = "save" =>
          orders'[i].rec < orders'[k].rec
    <3> SUFFICES ASSUME NEW i \in DOMAIN orders', NEW k \in DOMAIN orders', i < k,
                        orders'[i].kind = "save", orders'[k].kind = "save"
                 PROVE  orders'[i].rec < orders'[k].rec
      BY DEF Kind
    <3>1. CASE i \in DOMAIN orders /\ k \in DOMAIN orders
      BY <1>0, <2>2, <3>1 DEF OrderInv, Kind
    <3>2. CASE i \in DOMAIN orders /\ k \notin DOMAIN orders
      <4>1. recording /\ orders'[k].rec = rec /\ orders[i].rec < rec
        BY <1>0, <2>2, <2>3, <3>2 DEF OrderInv, Kind
      <4> QED BY <2>2, <3>2, <4>1
    <3>3. CASE i \notin DOMAIN orders
      <4>1. i = Len(orders) + 1 /\ (k \notin DOMAIN orders => k = Len(orders) + 1)
        BY <2>3, <3>3
      <4> QED BY <1>t, <4>1
    <3> QED BY <3>1, <3>2, <3>3
  <2>6. \A n \in DOMAIN Episodes' :
          /\ Episodes'[n].rec <= rec' /\ (recording' => Episodes'[n].rec < rec')
          /\ \A i \in DOMAIN orders' : Kind(i)' = "save" => Episodes'[n].rec < orders'[i].rec
    <3> SUFFICES ASSUME NEW n \in DOMAIN Episodes
                 PROVE  /\ Episodes[n].rec <= rec /\ (recording' => Episodes[n].rec < rec)
                        /\ \A i \in DOMAIN orders' : orders'[i].kind = "save" => Episodes[n].rec < orders'[i].rec
      BY <2>1 DEF Kind
    <3>1. Episodes[n].rec <= rec /\ (recording => Episodes[n].rec < rec)
      BY <1>0 DEF OrderInv
    <3>2. ASSUME NEW i \in DOMAIN orders', orders'[i].kind = "save" PROVE Episodes[n].rec < orders'[i].rec
      <4>1. CASE i \in DOMAIN orders
        BY <1>0, <2>2, <3>2, <4>1 DEF OrderInv, Kind
      <4>2. CASE i \notin DOMAIN orders
        BY <2>3, <3>1, <3>2, <4>2
      <4> QED BY <4>1, <4>2
    <3> QED BY <2>1, <3>1, <3>2
  <2>7. (\A n, k \in DOMAIN Episodes : n < k => Episodes[n].rec < Episodes[k].rec)'
    BY <1>0, <2>1 DEF OrderInv
  <2>8. \A n \in DOMAIN fresh' : n <= fresh'[n].rec
    BY <1>0, <2>1 DEF OrderInv
  <2> QED BY <2>4, <2>5, <2>6, <2>7, <2>8 DEF OrderInv
<1>4. ASSUME SaveEpisode PROVE OrderInv'
  <2> DEFINE new == [rec |-> Head(orders).rec, meant |-> Head(orders).frames, frames |-> buffer]
  <2>1. /\ orders # <<>> /\ orders' = Tail(orders) /\ Head(orders).kind = "save" /\ fresh' = Append(fresh, new)
        /\ UNCHANGED <<rec, recording, root, bak>>
    BY <1>4 DEF SaveEpisode, Take, Unheard, operator, folders
  <2>2. /\ 1 \in DOMAIN orders /\ Head(orders) = orders[1] /\ Kind(1) = "save"
        /\ DOMAIN orders' = 1..(Len(orders) - 1)
        /\ \A i \in DOMAIN orders' : i + 1 \in DOMAIN orders /\ orders'[i] = orders[i + 1]
    BY <1>t, <2>1, TailFacts DEF Kind
  <2>3. new.rec = orders[1].rec /\ new.rec \in 1..MaxRecs
    BY <1>t, <2>2, CommandFields DEF Kind
  <2> HIDE DEF new
  <2> DEFINE last == Len(Durable) + Len(fresh) + 1
  <2>4. /\ DOMAIN Episodes' = 1..last /\ Episodes'[last] = new
        /\ \A n \in DOMAIN Episodes : Episodes'[n] = Episodes[n]
    <3>1. Durable' = Durable
      BY <2>1 DEF Durable
    <3>2. new \in Episode
      <4>1. Head(orders) \in Orders /\ Head(orders).frames \in 1..MaxFrames /\ buffer \in Seq(1..MaxRecs)
        BY <1>0, <1>t, <2>1, <2>2, CommandFields DEF Kind, CollectTypeOK
      <4> QED BY <2>2, <2>3, <4>1 DEF new, Episode
    <3>3. /\ fresh' \in Seq(Episode) /\ Len(fresh') = Len(fresh) + 1 /\ fresh'[Len(fresh) + 1] = new
          /\ \A n \in 1..Len(fresh) : fresh'[n] = fresh[n]
      BY <1>t, <2>1, <3>2, AppendFacts
    <3> HIDE DEF last
    <3>4. /\ Episodes' = Durable \o fresh' /\ Episodes = Durable \o fresh
      BY <3>1 DEF Episodes
    <3>5. /\ DOMAIN (Durable \o fresh') = 1..(Len(Durable) + Len(fresh'))
          /\ \A n \in 1..Len(Durable) : (Durable \o fresh')[n] = Durable[n] /\ (Durable \o fresh)[n] = Durable[n]
          /\ \A n \in 1..Len(fresh') : (Durable \o fresh')[Len(Durable) + n] = fresh'[n]
          /\ \A n \in 1..Len(fresh) : (Durable \o fresh)[Len(Durable) + n] = fresh[n]
      BY ZenonT(30), <1>t, <3>3, ShorterLists
    <3>6. Len(fresh) + 1 \in 1..Len(fresh') /\ last = Len(Durable) + (Len(fresh) + 1) /\ last = Len(Durable) + Len(fresh')
      BY <1>t, <3>3 DEF last
    <3>7. ASSUME NEW n \in DOMAIN Episodes PROVE Episodes'[n] = Episodes[n]
      <4>1. CASE n <= Len(Durable)
        BY <1>t, <3>4, <3>5, <4>1
      <4>2. CASE n > Len(Durable)
        <5>1. PICK m \in 1..Len(fresh) : n = Len(Durable) + m
          <6>1. n - Len(Durable) \in 1..Len(fresh) /\ n = Len(Durable) + (n - Len(Durable))
            BY <1>t, <4>2
          <6> QED BY <6>1
        <5>2. m \in 1..Len(fresh')
          BY <1>t, <3>3
        <5> QED BY <3>3, <3>4, <3>5, <5>1, <5>2
      <4> QED BY <1>t, <4>1, <4>2
    <3> QED BY <3>3, <3>4, <3>5, <3>6, <3>7
  <2>5. DOMAIN Episodes = 1..(last - 1) /\ last \in Nat /\ last >= 1
    BY <1>t
  <2>6. \A n \in DOMAIN Episodes' : n \in DOMAIN Episodes \/ n = last
    BY <2>4, <2>5
  <2>7. \A n \in DOMAIN Episodes : Episodes[n].rec < new.rec
    BY <1>0, <2>2, <2>3 DEF OrderInv
  <2>8. \A i \in DOMAIN orders' : orders'[i].kind = "save" => new.rec < orders'[i].rec
    <3> SUFFICES ASSUME NEW i \in DOMAIN orders', orders'[i].kind = "save" PROVE new.rec < orders'[i].rec
      OBVIOUS
    <3>1. i + 1 \in DOMAIN orders /\ 1 < i + 1 /\ orders[i + 1].kind = "save" /\ orders'[i] = orders[i + 1]
      BY <1>t, <2>2
    <3>2. orders[1].rec < orders[i + 1].rec
      BY <1>0, <2>2, <3>1 DEF OrderInv, Kind
    <3> QED BY <2>3, <3>1, <3>2
  <2>9. new.rec <= rec /\ (recording => new.rec < rec)
    BY <1>0, <2>2, <2>3 DEF OrderInv
  <2> HIDE DEF last
  <2>10. \A i \in DOMAIN orders' : Kind(i)' \in {"save", "discard"} =>
           orders'[i].rec <= rec' /\ (recording' => orders'[i].rec < rec')
    BY <1>0, <2>1, <2>2 DEF OrderInv, Kind
  <2>11. \A i, k \in DOMAIN orders' : i < k /\ Kind(i)' = "save" /\ Kind(k)' = "save" =>
           orders'[i].rec < orders'[k].rec
    <3> SUFFICES ASSUME NEW i \in DOMAIN orders', NEW k \in DOMAIN orders', i < k,
                        orders'[i].kind = "save", orders'[k].kind = "save"
                 PROVE  orders'[i].rec < orders'[k].rec
      BY DEF Kind
    <3>1. /\ i + 1 \in DOMAIN orders /\ k + 1 \in DOMAIN orders /\ i + 1 < k + 1
          /\ orders'[i] = orders[i + 1] /\ orders'[k] = orders[k + 1]
      BY <1>t, <2>2
    <3> QED BY <1>0, <3>1 DEF OrderInv, Kind
  <2>12. \A n, k \in DOMAIN Episodes' : n < k => Episodes'[n].rec < Episodes'[k].rec
    <3> SUFFICES ASSUME NEW n \in DOMAIN Episodes', NEW k \in DOMAIN Episodes', n < k
                 PROVE  Episodes'[n].rec < Episodes'[k].rec
      OBVIOUS
    <3>1. n \in DOMAIN Episodes
      BY <2>4, <2>5
    <3>2. CASE k \in DOMAIN Episodes
      BY <1>0, <2>4, <3>1, <3>2 DEF OrderInv
    <3>3. CASE k = last
      BY <2>4, <2>7, <3>1, <3>3
    <3> QED BY <2>6, <3>2, <3>3
  <2>13. \A n \in DOMAIN Episodes' :
           /\ Episodes'[n].rec <= rec' /\ (recording' => Episodes'[n].rec < rec')
           /\ \A i \in DOMAIN orders' : Kind(i)' = "save" => Episodes'[n].rec < orders'[i].rec
    <3> SUFFICES ASSUME NEW n \in DOMAIN Episodes'
                 PROVE  /\ Episodes'[n].rec <= rec /\ (recording => Episodes'[n].rec < rec)
                        /\ \A i \in DOMAIN orders' : orders'[i].kind = "save" => Episodes'[n].rec < orders'[i].rec
      BY <2>1 DEF Kind
    <3>1. CASE n \in DOMAIN Episodes
      <4>1. Episodes'[n] = Episodes[n]
        BY <2>4, <3>1
      <4>2. \A i \in DOMAIN orders' : orders'[i].kind = "save" => Episodes[n].rec < orders'[i].rec
        BY <1>0, <2>2, <3>1 DEF OrderInv, Kind
      <4> QED BY <1>0, <3>1, <4>1, <4>2 DEF OrderInv
    <3>2. CASE n = last
      BY <2>4, <2>8, <2>9, <3>2
    <3> QED BY <2>6, <3>1, <3>2
  <2>14. \A n \in DOMAIN fresh' : n <= fresh'[n].rec
    <3>1. /\ DOMAIN fresh' = 1..(Len(fresh) + 1) /\ fresh'[Len(fresh) + 1] = new
          /\ \A n \in 1..Len(fresh) : fresh'[n] = fresh[n] /\ n <= fresh[n].rec
      BY <1>0, <1>t, <2>1, AppendFacts DEF OrderInv
    <3>2. Len(fresh) + 1 <= new.rec
      <4>1. CASE Len(fresh) = 0
        BY <2>3, <4>1
      <4>2. CASE Len(fresh) > 0
        <5>1. Len(fresh) \in 1..Len(fresh) /\ Len(Durable) + Len(fresh) \in DOMAIN Episodes
          BY <1>t, <4>2
        <5>2. Episodes[Len(Durable) + Len(fresh)] = fresh[Len(fresh)]
          BY <1>t, <5>1, ShorterLists DEF Episodes
        <5>3. fresh[Len(fresh)].rec < new.rec /\ Len(fresh) <= fresh[Len(fresh)].rec
          BY <2>7, <3>1, <5>1, <5>2
        <5>4. fresh[Len(fresh)].rec \in Nat
          BY <1>n, <5>1, <5>2
        <5> QED BY SMTT(30), <1>t, <2>3, <5>3, <5>4
      <4> QED BY <1>t, <4>1, <4>2
    <3>3. \A n \in DOMAIN fresh' : n \in 1..Len(fresh) \/ n = Len(fresh) + 1
      BY <1>t, <3>1
    <3> QED BY <3>1, <3>2, <3>3
  <2> QED BY <2>10, <2>11, <2>12, <2>13, <2>14 DEF OrderInv
<1>5. Down \/ Quiet \/ Record \/ Puts \/ Takes
  BY QueueStep
<1> QED BY <1>1, <1>2, <1>3, <1>4, <1>5 DEF Takes

-----------------------------------------------------------------------------
(* The frames of a recording stay together in the queue, behind those that *)
(* are in the buffer, up to the command that ends the recording.           *)

\* In queue s, with a recording r that goes on or not.
Followed(s, going, r) ==
  \A i \in DOMAIN s : s[i].kind = "frame" =>
    IF i = Len(s) THEN going /\ s[i].rec = r ELSE About(s[i + 1], s[i].rec)

(* A command that is put while a recording goes on is about it. *)
LEMMA FollowedPut ==
  ASSUME NEW s \in Seq(Orders), NEW going \in BOOLEAN, NEW next \in BOOLEAN, NEW r, NEW c,
         Followed(s, going, r), going => About(c, r), c.kind = "frame" => next /\ c.rec = r
  PROVE  Followed(Append(s, c), next, r)
<1> DEFINE t == Append(s, c)
<1>1. /\ Len(t) = Len(s) + 1 /\ DOMAIN t = 1..(Len(s) + 1) /\ DOMAIN s = 1..Len(s) /\ Len(s) \in Nat
      /\ \A i \in 1..Len(s) : t[i] = s[i]
      /\ t[Len(s) + 1] = c
  BY AppendFacts
<1> SUFFICES ASSUME NEW i \in DOMAIN t, t[i].kind = "frame"
             PROVE  IF i = Len(t) THEN next /\ t[i].rec = r ELSE About(t[i + 1], t[i].rec)
  BY DEF Followed
<1> HIDE DEF t
<1>2. CASE i = Len(s) + 1
  BY <1>1, <1>2
<1>3. CASE i = Len(s)
  <2>1. i \in 1..Len(s) /\ i + 1 = Len(s) + 1
    BY <1>1, <1>3
  <2>3. i \in DOMAIN s /\ t[i] = s[i] /\ t[i + 1] = c /\ i # Len(t)
    BY <1>1, <2>1
  <2>2. going /\ s[i].rec = r
    BY <1>3, <2>3 DEF Followed
  <2> QED BY <2>2, <2>3
<1>4. CASE i < Len(s)
  <2>1. i \in DOMAIN s /\ t[i] = s[i] /\ t[i + 1] = s[i + 1] /\ i # Len(t) /\ i # Len(s)
    BY <1>1, <1>4
  <2> QED BY <2>1 DEF Followed
<1> QED BY <1>1, <1>2, <1>3, <1>4

(* When the first command is a frame, what comes behind it is about the *)
(* same recording.                                                       *)
LEMMA FollowedTake ==
  ASSUME NEW s \in Seq(Orders), s # <<>>, NEW going, NEW r, Followed(s, going, r)
  PROVE  /\ Followed(Tail(s), going, r)
         /\ s[1].kind = "frame" =>
              IF Tail(s) = <<>> THEN going /\ s[1].rec = r ELSE About(Tail(s)[1], s[1].rec)
<1> DEFINE t == Tail(s)
<1>1. /\ Len(s) \in Nat /\ Len(s) >= 1 /\ DOMAIN s = 1..Len(s)
      /\ Len(t) = Len(s) - 1 /\ DOMAIN t = 1..(Len(s) - 1)
      /\ \A i \in 1..(Len(s) - 1) : t[i] = s[i + 1]
      /\ t = <<>> <=> Len(s) = 1
  BY TailFacts
<1> HIDE DEF t
<1>2. ASSUME NEW i \in DOMAIN t, t[i].kind = "frame"
      PROVE  IF i = Len(t) THEN going /\ t[i].rec = r ELSE About(t[i + 1], t[i].rec)
  <2>1. i + 1 \in DOMAIN s /\ t[i] = s[i + 1] /\ (i = Len(t) <=> i + 1 = Len(s))
    BY <1>1
  <2>2. IF i + 1 = Len(s) THEN going /\ s[i + 1].rec = r ELSE About(s[i + 1 + 1], s[i + 1].rec)
    BY <1>2, <2>1 DEF Followed
  <2>3. i # Len(t) => i + 1 \in 1..(Len(s) - 1)
    BY <1>1
  <2>4. i # Len(t) => t[i + 1] = s[i + 1 + 1]
    BY <1>1, <2>3
  <2> QED BY <2>1, <2>2, <2>4
<1>3. ASSUME s[1].kind = "frame"
      PROVE  IF t = <<>> THEN going /\ s[1].rec = r ELSE About(t[1], s[1].rec)
  <2>1. 1 \in DOMAIN s /\ (IF 1 = Len(s) THEN going /\ s[1].rec = r ELSE About(s[2], s[1].rec))
    BY <1>1, <1>3 DEF Followed
  <2>2. Len(s) # 1 => t[1] = s[2]
    BY <1>1
  <2> QED BY <1>1, <2>1, <2>2
<1> QED BY <1>2, <1>3 DEF Followed, t

(* The queue after a key or a frame. *)
LEMMA PutsFollowed ==
  ASSUME CollectInv, Puts
  PROVE  /\ Followed(orders', recording', rec)
         /\ orders = <<>> /\ recording => About(orders'[1], rec)
         /\ orders' # <<>>
<1>0. /\ orders \in Seq(Orders) /\ recording \in BOOLEAN /\ Followed(orders, recording, rec)
  BY DEF CollectInv, CollectTypeOK, FrameInv, Followed, Kind
<1>a. ASSUME NEW c, Put(c), recording' \in BOOLEAN, recording => About(c, rec),
             c.kind = "frame" => recording' /\ c.rec = rec
      PROVE  /\ Followed(orders', recording', rec) /\ orders' # <<>>
             /\ orders = <<>> /\ recording => About(orders'[1], rec)
  <2>1. Followed(Append(orders, c), recording', rec)
    BY <1>0, <1>a, FollowedPut
  <2>2. Append(orders, c) # <<>> /\ (orders = <<>> => Append(orders, c)[1] = c)
    BY <1>0, AppendFacts
  <2> QED BY <1>a, <2>1, <2>2 DEF Put
<1>1. CASE AddFrame
  <2>1. Put([kind |-> "frame", rec |-> rec]) /\ recording' = TRUE
    BY <1>1 DEF AddFrame
  <2> QED BY <1>a, <2>1 DEF About
<1>2. CASE SaveKey
  <2>1. Put([kind |-> "save", rec |-> rec, frames |-> shown]) /\ recording' = FALSE
    BY <1>2 DEF SaveKey, Idle
  <2> QED BY <1>a, <2>1 DEF About
<1>3. CASE DiscardKey
  <2>1. Put([kind |-> "discard", rec |-> rec]) /\ recording' = FALSE
    BY <1>3 DEF DiscardKey, Idle
  <2> QED BY <1>a, <2>1 DEF About
<1>4. CASE DeleteLast
  <2>1. Put([kind |-> "delete", index |-> numSaved]) /\ ~recording /\ recording' = recording
    BY <1>4 DEF DeleteLast, operator
  <2> QED BY <1>0, <1>a, <2>1
<1>5. CASE Quit /\ ~recording
  <2>1. Put([kind |-> "finalize"]) /\ recording' = FALSE
    BY <1>5 DEF Quit, Idle
  <2> QED BY <1>0, <1>5, <1>a, <2>1
<1>6. CASE Quit /\ recording
  <2> DEFINE d == [kind |-> "discard", rec |-> rec]  e == [kind |-> "finalize"]  q == Append(orders, d)
  <2>1. orders' = orders \o <<d, e>> /\ recording' = FALSE
    BY <1>6 DEF Quit, Idle
  <2>2. d \in Orders /\ e \in Orders
    BY <1>6 DEF CollectInv, CollectTypeOK, PhaseInv, Orders
  <2>3. q \in Seq(Orders) /\ orders' = Append(q, e)
    BY <1>0, <2>1, <2>2
  <2>4. Followed(q, FALSE, rec)
    BY <1>0, <1>6, FollowedPut DEF About
  <2>5. q # <<>> /\ (orders = <<>> => q[1] = d)
    BY <1>0, AppendFacts
  <2> HIDE DEF q
  <2>6. Followed(orders', FALSE, rec)
    BY <2>3, <2>4, FollowedPut
  <2>7. orders' # <<>> /\ orders'[1] = q[1]
    <3>1. 1 \in 1..Len(q)
      BY <2>3, <2>5
    <3> QED BY <2>3, <3>1, AppendFacts
  <2>8. orders = <<>> => About(orders'[1], rec)
    BY <2>5, <2>7 DEF About
  <2>9. Followed(orders', recording', rec)
    BY <2>1, <2>6
  <2> QED BY <2>7, <2>8, <2>9
<1>7. (Quit /\ recording) \/ (Quit /\ ~recording) \/ AddFrame \/ SaveKey \/ DiscardKey \/ DeleteLast
  BY DEF Puts
<1> QED BY <1>1, <1>2, <1>3, <1>4, <1>5, <1>6, <1>7

(* A step that leaves the queue alone saves no episode. *)
LEMMA QuietSaves == ASSUME orders \in Seq(Orders), Quiet PROVE ~SaveEpisode
<1> SUFFICES ASSUME SaveEpisode PROVE FALSE
  OBVIOUS
<1>1. orders # <<>> /\ Tail(orders) = orders
  BY DEF Quiet, SaveEpisode, Take
<1>2. Len(Tail(orders)) = Len(orders) - 1 /\ Len(orders) \in Nat
  BY <1>1, TailFacts
<1> QED BY <1>1, <1>2

(* Every step keeps the frames of recordings apart. *)
LEMMA FrameStep == CollectInv /\ [CollectNext]_collectVars => FrameInv'
<1> SUFFICES ASSUME CollectInv, [CollectNext]_collectVars PROVE FrameInv'
  OBVIOUS
<1>0. FrameInv /\ CollectTypeOK /\ Followed(orders, recording, rec)
  BY DEF CollectInv, FrameInv, Followed, Kind
<1>t. orders \in Seq(Orders) /\ buffer \in Seq(1..MaxRecs) /\ fresh \in Seq(Episode) /\ recording \in BOOLEAN
  BY <1>0 DEF CollectTypeOK
<1> DEFINE Behind == Kept => \A n \in DOMAIN buffer :
                       IF orders = <<>> THEN recording /\ buffer[n] = rec ELSE About(orders[1], buffer[n])
           Emptied == Kept /\ worker \in Deleting => buffer = <<>>
<1>d. FrameInv' <=> Followed(orders', recording', rec') /\ Behind' /\ Emptied' /\ OwnFrames'
  BY DEF FrameInv, Followed, Kind
<1>b. Behind /\ Emptied
  BY <1>0 DEF FrameInv
<1>o. ASSUME fresh' \in {fresh, <<>>}, trouble \subseteq trouble' PROVE OwnFrames'
  <2>1. Kept' => Kept
    BY <1>o DEF Kept
  <2>2. Kept => \A n \in DOMAIN fresh : ToSet(fresh[n].frames) = {fresh[n].rec}
    BY <1>0 DEF FrameInv, OwnFrames, Kept
  <2>3. Kept' => \A n \in DOMAIN fresh' : ToSet(fresh'[n].frames) = {fresh'[n].rec}
    <3>1. CASE fresh' = fresh
      BY <2>1, <2>2, <3>1
    <3>2. CASE fresh' = <<>>
      BY <3>2
    <3> QED BY <1>o, <3>1, <3>2
  <2> QED BY <2>3 DEF OwnFrames, Kept
<1>1. ASSUME Down PROVE FrameInv'
  <2>1. orders' = <<>> /\ buffer' = <<>> /\ fresh' = <<>>
    BY <1>1 DEF Down
  <2> QED BY <1>d, <2>1 DEF Followed, OwnFrames
<1>2. ASSUME Quiet PROVE FrameInv'
  <2>1. fresh' \in {fresh, <<>>}
    BY <1>2, <1>t, QuietSaves, EpisodesStep
  <2>2. OwnFrames'
    BY <1>2, <1>o, <2>1 DEF Quiet
  <2>3. Followed(orders', recording', rec')
    BY <1>0, <1>2 DEF Quiet
  <2>4. Kept' => Kept
    BY <1>2 DEF Quiet, Kept
  <2>5. Behind' /\ Emptied'
    BY <1>2, <1>b, <2>4 DEF Quiet
  <2> QED BY <1>d, <2>2, <2>3, <2>5
<1>3. ASSUME Record PROVE FrameInv'
  <2>1. ~recording /\ UNCHANGED <<orders, worker, buffer, fresh, trouble>>
    BY <1>3 DEF Record, Elsewhere, dataset
  <2>2. Followed(orders', recording', rec')
    BY <1>0, <2>1 DEF Followed
  <2>3. Behind' /\ Emptied'
    BY <1>b, <2>1 DEF Kept
  <2> QED BY <1>d, <1>o, <2>1, <2>2, <2>3
<1>4. ASSUME Puts PROVE FrameInv'
  <2>1. UNCHANGED <<rec, worker, buffer, fresh, trouble>>
    BY <1>4, PutsStep
  <2>2. orders # <<>> => orders'[1] = orders[1]
    BY <1>4, <1>t, PutsStep
  <2>3. Emptied'
    BY <1>b, <2>1 DEF Kept
  <2>4. Behind'
    BY <1>4, <1>b, <2>1, <2>2, PutsFollowed DEF Kept
  <2> QED BY <1>4, <1>d, <1>o, <2>1, <2>3, <2>4, PutsFollowed
<1>5. ASSUME Takes PROVE FrameInv'
  <2>1. /\ orders # <<>> /\ orders' = Tail(orders) /\ Kind(1) = Head(orders).kind
        /\ UNCHANGED <<recording, rec, shown>> /\ trouble \subseteq trouble' /\ worker = "get"
        /\ worker' \in Deleting => Kind(1) = "delete"
        /\ Kind(1) = "frame" => buffer' = Append(buffer, orders[1].rec) \/ buffer' = buffer
        /\ Kind(1) \in {"save", "discard"} => buffer' = <<>> \/ ~Kept'
        /\ Kind(1) \notin {"frame", "save", "discard"} => buffer' = buffer
    BY <1>5, TakesStep
  <2>2. Kept' => Kept
    BY <2>1 DEF Kept
  <2>3. /\ Followed(orders', recording', rec')
        /\ Kind(1) = "frame" =>
             IF orders' = <<>> THEN recording /\ orders[1].rec = rec ELSE About(orders'[1], orders[1].rec)
    BY <1>0, <1>t, <2>1, FollowedTake DEF Kind
  <2>4. Kept => \A n \in DOMAIN buffer : About(orders[1], buffer[n])
    BY <1>b, <2>1
  <2>5. Kept' /\ Kind(1) # "frame" => buffer' = <<>>
    <3>1. Kind(1) \notin {"frame", "save", "discard"} /\ Kept => buffer = <<>>
      BY <1>t, <2>4, EmptySeq DEF About, Kind
    <3> QED BY <2>1, <2>2, <3>1
  <2>6. Kept' /\ Kind(1) = "frame" => \A n \in DOMAIN buffer' : buffer'[n] = orders[1].rec
    <3>1. Kept => \A n \in DOMAIN buffer : buffer[n] = orders[1].rec
      BY <2>4 DEF About
    <3>2. ASSUME Kept, buffer' = Append(buffer, orders[1].rec)
          PROVE  \A n \in DOMAIN buffer' : buffer'[n] = orders[1].rec
      <4>1. /\ DOMAIN buffer' = 1..(Len(buffer) + 1) /\ DOMAIN buffer = 1..Len(buffer) /\ Len(buffer) \in Nat
            /\ \A i \in 1..Len(buffer) : buffer'[i] = buffer[i]
            /\ buffer'[Len(buffer) + 1] = orders[1].rec
        BY <1>t, <3>2, AppendFacts
      <4> QED BY <3>1, <3>2, <4>1
    <3> QED BY <2>1, <2>2, <3>1, <3>2
  <2>7. Behind'
    <3>1. CASE Kind(1) = "frame"
      BY <2>1, <2>3, <2>6, <3>1
    <3>2. CASE Kind(1) # "frame"
      BY <2>5, <3>2
    <3> QED BY <3>1, <3>2
  <2>8. Emptied'
    BY <2>1, <2>5
  <2>9. OwnFrames'
    <3>1. CASE SaveEpisode
      <4>1. /\ fresh' = Append(fresh, [rec |-> Head(orders).rec, meant |-> Head(orders).frames, frames |-> buffer])
            /\ buffer # <<>> /\ Head(orders).kind = "save" /\ trouble' = trouble /\ Head(orders) = orders[1]
        BY <1>t, <3>1, TailFacts DEF SaveEpisode, Take, Fine
      <4>2. Kept => ToSet(buffer) = {Head(orders).rec}
        <5>1. Kept => \A n \in DOMAIN buffer : buffer[n] = Head(orders).rec
          BY <2>4, <4>1 DEF About
        <5>2. 1 \in DOMAIN buffer
          BY <1>t, <4>1
        <5> QED BY <5>1, <5>2 DEF ToSet
      <4>3. /\ DOMAIN fresh' = 1..(Len(fresh) + 1) /\ DOMAIN fresh = 1..Len(fresh) /\ Len(fresh) \in Nat
            /\ \A i \in 1..Len(fresh) : fresh'[i] = fresh[i]
            /\ fresh'[Len(fresh) + 1] = [rec |-> Head(orders).rec, meant |-> Head(orders).frames, frames |-> buffer]
        BY <1>t, <4>1, AppendFacts
      <4>4. \A n \in DOMAIN fresh' : n \in DOMAIN fresh \/ n = Len(fresh) + 1
        BY <4>3
      <4>5. Kept => \A n \in DOMAIN fresh : ToSet(fresh[n].frames) = {fresh[n].rec}
        BY <1>0 DEF FrameInv, OwnFrames, Kept
      <4>6. Kept => \A n \in DOMAIN fresh' : ToSet(fresh'[n].frames) = {fresh'[n].rec}
        <5>1. Kept => \A n \in DOMAIN fresh : ToSet(fresh'[n].frames) = {fresh'[n].rec}
          BY <4>3, <4>5
        <5>2. Kept => ToSet(fresh'[Len(fresh) + 1].frames) = {fresh'[Len(fresh) + 1].rec}
          BY <4>2, <4>3
        <5> QED BY <4>4, <5>1, <5>2
      <4>7. Kept' <=> Kept
        BY <4>1 DEF Kept
      <4>8. Kept' => \A n \in DOMAIN fresh' : ToSet(fresh'[n].frames) = {fresh'[n].rec}
        BY <4>6, <4>7
      <4> QED BY <4>8 DEF OwnFrames, Kept
    <3>2. CASE ~SaveEpisode
      BY <1>o, <2>1, <3>2, EpisodesStep
    <3> QED BY <3>1, <3>2
  <2> QED BY <1>d, <2>3, <2>7, <2>8, <2>9
<1> QED BY <1>1, <1>2, <1>3, <1>4, <1>5, QueueStep

-----------------------------------------------------------------------------
(* A recording is saved with the frames the operator was shown.            *)

\* Block(k, f), in the queue s and with b frames in the buffer.
BlockOf(s, b, k, f) ==
  /\ \A i \in 1..(k - 1) : i >= k - f => s[i].kind = "frame"
  /\ f < k - 1 => s[k - f - 1].kind # "frame"
  /\ f >= k - 1 => b = f - (k - 1)

(* What is put behind position k does not matter. *)
LEMMA BlockPut ==
  ASSUME NEW s \in Seq(Orders), NEW t, NEW b, NEW k \in 1..(Len(s) + 1), NEW f \in Nat,
         \A i \in 1..Len(s) : t[i] = s[i], BlockOf(s, b, k, f)
  PROVE  BlockOf(t, b, k, f)
<1>1. Len(s) \in Nat /\ \A i \in 1..(k - 1) : t[i] = s[i]
  OBVIOUS
<1>2. f < k - 1 => k - f - 1 \in 1..(k - 1)
  BY <1>1
<1> QED BY <1>1, <1>2 DEF BlockOf

(* One more frame, *)
LEMMA BlockFrame ==
  ASSUME NEW s \in Seq(Orders), NEW c, c.kind = "frame", NEW b \in Nat, NEW f \in Nat,
         BlockOf(s, b, Len(s) + 1, f)
  PROVE  BlockOf(Append(s, c), b, Len(s) + 2, f + 1)
<1> DEFINE t == Append(s, c)
<1>1. Len(s) \in Nat /\ t[Len(s) + 1] = c /\ \A i \in 1..Len(s) : t[i] = s[i]
  BY AppendFacts
<1> HIDE DEF t
<1>2. ASSUME NEW i \in 1..(Len(s) + 2 - 1), i >= Len(s) + 2 - (f + 1) PROVE t[i].kind = "frame"
  <2>1. CASE i = Len(s) + 1
    BY <1>1, <2>1
  <2>2. CASE i <= Len(s)
    <3>1. i \in 1..(Len(s) + 1 - 1) /\ i >= Len(s) + 1 - f /\ i \in 1..Len(s)
      BY <1>1, <1>2, <2>2
    <3> QED BY <1>1, <3>1 DEF BlockOf
  <2> QED BY <1>1, <2>1, <2>2
<1>3. ASSUME f + 1 < Len(s) + 2 - 1 PROVE t[Len(s) + 2 - (f + 1) - 1].kind # "frame"
  <2>1. /\ Len(s) + 2 - (f + 1) - 1 = Len(s) - f /\ Len(s) + 1 - f - 1 = Len(s) - f
        /\ f < Len(s) + 1 - 1 /\ Len(s) - f \in 1..Len(s)
    BY <1>1, <1>3
  <2> QED BY <1>1, <2>1 DEF BlockOf
<1>4. ASSUME f + 1 >= Len(s) + 2 - 1 PROVE b = f + 1 - (Len(s) + 2 - 1)
  <2>1. f >= Len(s) + 1 - 1 /\ f - (Len(s) + 1 - 1) = f + 1 - (Len(s) + 2 - 1)
    BY <1>1, <1>4
  <2> QED BY <2>1 DEF BlockOf
<1>5. BlockOf(t, b, Len(s) + 2, f + 1)
  BY <1>2, <1>3, <1>4 DEF BlockOf
<1> QED BY <1>5 DEF t

(* and one that is taken, into the buffer if it is a frame. *)
LEMMA BlockTake ==
  ASSUME NEW s \in Seq(Orders), s # <<>>, NEW b \in Nat, NEW d \in Nat,
         NEW k \in 1..Len(s), NEW f \in Nat, BlockOf(s, b, k + 1, f),
         d = IF s[1].kind = "frame" THEN b + 1 ELSE 0
  PROVE  BlockOf(Tail(s), d, k, f)
<1>1. Len(s) \in Nat /\ Len(s) >= 1 /\ \A i \in 1..(Len(s) - 1) : Tail(s)[i] = s[i + 1]
  BY TailFacts
<1>2. ASSUME NEW i \in 1..(k - 1), i >= k - f PROVE Tail(s)[i].kind = "frame"
  <2>1. i + 1 \in 1..(k + 1 - 1) /\ i + 1 >= k + 1 - f /\ i \in 1..(Len(s) - 1)
    BY <1>1, <1>2
  <2> QED BY <1>1, <2>1 DEF BlockOf
<1>3. ASSUME f < k - 1 PROVE Tail(s)[k - f - 1].kind # "frame"
  <2>1. f < k + 1 - 1 /\ k + 1 - f - 1 = k - f /\ k - f - 1 \in 1..(Len(s) - 1) /\ k - f - 1 + 1 = k - f
    BY <1>1, <1>3
  <2> QED BY <1>1, <2>1 DEF BlockOf
<1>4. ASSUME f >= k - 1 PROVE d = f - (k - 1)
  <2>1. CASE f >= k
    <3>1. 1 \in 1..(k + 1 - 1) /\ 1 >= k + 1 - f /\ f >= k + 1 - 1
      BY <2>1
    <3>2. s[1].kind = "frame" /\ b = f - (k + 1 - 1)
      BY <3>1 DEF BlockOf
    <3> QED BY <2>1, <3>2
  <2>2. CASE f = k - 1
    <3>1. f < k + 1 - 1 /\ k + 1 - f - 1 = 1
      BY <2>2
    <3>2. s[1].kind # "frame"
      BY <3>1 DEF BlockOf
    <3> QED BY <2>2, <3>2
  <2> QED BY <1>4, <2>1, <2>2
<1> QED BY <1>2, <1>3, <1>4 DEF BlockOf

(* Every step keeps the recordings whole. *)
LEMMA BlockStep == CollectInv /\ [CollectNext]_collectVars => BlockInv'
<1> SUFFICES ASSUME CollectInv, [CollectNext]_collectVars PROVE BlockInv'
  OBVIOUS
<1>0. BlockInv /\ CollectTypeOK /\ FrameInv
  BY DEF CollectInv
<1>t. /\ orders \in Seq(Orders) /\ Len(orders) \in Nat /\ DOMAIN orders = 1..Len(orders)
      /\ buffer \in Seq(1..MaxRecs) /\ Len(buffer) \in Nat /\ fresh \in Seq(Episode) /\ shown \in Nat
      /\ \A k \in DOMAIN orders : orders[k].kind = "save" => orders[k].frames \in Nat
  <2>1. \A k \in DOMAIN orders : orders[k] \in Orders
    BY <1>0 DEF CollectTypeOK
  <2> QED BY <1>0, <2>1, CommandFields DEF CollectTypeOK
<1> DEFINE Saves == AllKept => \A k \in DOMAIN orders : orders[k].kind = "save" =>
                                 BlockOf(orders, Len(buffer), k, orders[k].frames)
           Going == AllKept /\ recording => BlockOf(orders, Len(buffer), Len(orders) + 1, shown)
<1>d. BlockInv <=> Saves /\ Going /\ WholeEpisodes
  BY DEF BlockInv, Block, BlockOf, Kind
<1>e. BlockInv' <=> Saves' /\ Going' /\ WholeEpisodes'
  BY DEF BlockInv, Block, BlockOf, Kind
<1>o. ASSUME fresh' \in {fresh, <<>>}, trouble \subseteq trouble' PROVE WholeEpisodes'
  BY <1>0, <1>o DEF BlockInv, WholeEpisodes
<1>1. ASSUME Down PROVE BlockInv'
  <2>1. orders' = <<>> /\ recording' = FALSE /\ fresh' = <<>>
    BY <1>1 DEF Down
  <2> QED BY <1>e, <2>1 DEF WholeEpisodes
<1>2. ASSUME Quiet PROVE BlockInv'
  <2>1. fresh' \in {fresh, <<>>}
    BY <1>2, <1>t, QuietSaves, EpisodesStep
  <2>2. AllKept' => AllKept /\ Kept
    BY <1>2 DEF Quiet, AllKept, Kept
  <2>3. AllKept' => buffer' = buffer
    BY <1>0, <1>2, <2>2 DEF Quiet, FrameInv
  <2> QED BY <1>0, <1>2, <1>d, <1>e, <1>o, <2>1, <2>2, <2>3 DEF Quiet
<1>3. ASSUME Record PROVE BlockInv'
  <2>1. ~recording /\ shown' = 0 /\ UNCHANGED <<orders, buffer, fresh, trouble>>
    BY <1>3 DEF Record, Elsewhere, dataset
  <2>2. ASSUME AllKept PROVE BlockOf(orders, Len(buffer), Len(orders) + 1, 0)
    <3>1. Len(orders) > 0 => orders[Len(orders)].kind # "frame"
      BY <1>0, <1>t, <2>1 DEF FrameInv, Kind
    <3>2. Len(orders) = 0 => Len(buffer) = 0
      <4>1. Kept
        BY <2>2 DEF AllKept, Kept
      <4>2. orders = <<>> => DOMAIN buffer = {}
        BY <1>0, <2>1, <4>1 DEF FrameInv
      <4> QED BY <1>t, <4>2, EmptySeq
    <3>3. \A i \in 1..(Len(orders) + 1 - 1) : ~(i >= Len(orders) + 1 - 0)
      BY <1>t
    <3>4. Len(orders) + 1 - 0 - 1 = Len(orders)
      BY <1>t
    <3> QED BY <1>t, <3>1, <3>2, <3>3, <3>4 DEF BlockOf
  <2> QED BY <1>0, <1>d, <1>e, <1>o, <2>1, <2>2 DEF AllKept
<1>4. ASSUME Puts PROVE BlockInv'
  <2>1. UNCHANGED <<buffer, fresh, trouble>> /\ (recording' => recording)
    BY <1>4, PutsStep
  <2>2. \A i \in 1..Len(orders) : i \in DOMAIN orders' /\ orders'[i] = orders[i]
    BY <1>4, <1>t, PutsStep
  <2>3. \A k \in DOMAIN orders' : k \notin DOMAIN orders /\ orders'[k].kind = "save" =>
          k = Len(orders) + 1 /\ recording /\ orders'[k].frames = shown
    BY <1>4, PutsStep
  <2>4. AllKept' => AllKept
    BY <2>1 DEF AllKept
  <2>5. Saves'
    <3> SUFFICES ASSUME AllKept, NEW k \in DOMAIN orders', orders'[k].kind = "save"
                 PROVE  BlockOf(orders', Len(buffer), k, orders'[k].frames)
      BY <2>1, <2>4
    <3>1. CASE k \in DOMAIN orders
      <4>1. /\ orders'[k] = orders[k] /\ BlockOf(orders, Len(buffer), k, orders[k].frames)
            /\ k \in 1..(Len(orders) + 1) /\ orders[k].frames \in Nat
        BY <1>0, <1>d, <1>t, <2>2, <3>1
      <4> QED BY <1>t, <2>2, <4>1, BlockPut
    <3>2. CASE k \notin DOMAIN orders
      <4>1. /\ orders'[k].frames = shown /\ BlockOf(orders, Len(buffer), k, shown)
            /\ k \in 1..(Len(orders) + 1)
        BY <1>0, <1>d, <1>t, <2>3, <3>2
      <4> QED BY <1>t, <2>2, <4>1, BlockPut
    <3> QED BY <3>1, <3>2
  <2>6. Going'
    <3>1. CASE AddFrame
      <4>1. Put([kind |-> "frame", rec |-> rec]) /\ shown' = shown + 1 /\ recording
        BY <3>1 DEF AddFrame
      <4>2. orders' = Append(orders, [kind |-> "frame", rec |-> rec])
        BY <4>1 DEF Put
      <4>3. AllKept => BlockOf(orders', Len(buffer), Len(orders) + 2, shown + 1)
        BY <1>0, <1>d, <1>t, <4>1, <4>2, BlockFrame
      <4>4. Len(orders') + 1 = Len(orders) + 2
        BY <1>t, <4>2
      <4> QED BY <2>1, <2>4, <4>1, <4>3, <4>4
    <3>2. CASE ~AddFrame
      <4>1. ~recording'
        BY <1>4, <3>2 DEF Puts, SaveKey, DiscardKey, DeleteLast, Quit, Idle, operator
      <4> QED BY <4>1
    <3> QED BY <3>1, <3>2
  <2> QED BY <1>e, <1>o, <2>1, <2>5, <2>6
<1>5. ASSUME Takes PROVE BlockInv'
  <2>1. /\ orders # <<>> /\ orders' = Tail(orders) /\ Kind(1) = orders[1].kind
        /\ UNCHANGED <<recording, rec, shown>> /\ trouble \subseteq trouble'
        /\ Kind(1) = "frame" => buffer' = Append(buffer, orders[1].rec) \/ "frame" \in trouble'
        /\ Kind(1) \in {"save", "discard"} => buffer' = <<>> \/ ~Kept'
        /\ Kind(1) \notin {"frame", "save", "discard"} => buffer' = buffer
    BY <1>5, TakesStep DEF Kind
  <2>2. AllKept' => AllKept /\ Kept /\ Kept' /\ "frame" \notin trouble'
    BY <2>1 DEF AllKept, Kept
  <2>3. AllKept' => Len(buffer') = IF orders[1].kind = "frame" THEN Len(buffer) + 1 ELSE 0
    <3>1. Kept /\ Kind(1) \notin {"frame", "save", "discard"} => buffer = <<>>
      BY <1>0, <1>t, <2>1, EmptySeq DEF FrameInv, About
    <3>2. buffer' = Append(buffer, orders[1].rec) => Len(buffer') = Len(buffer) + 1
      BY <1>t, AppendFacts
    <3>3. buffer' = <<>> => Len(buffer') = 0
      OBVIOUS
    <3> QED BY <2>1, <2>2, <3>1, <3>2, <3>3
  <2>4. /\ Len(orders') = Len(orders) - 1 /\ DOMAIN orders' = 1..(Len(orders) - 1)
        /\ \A i \in 1..(Len(orders) - 1) : orders'[i] = orders[i + 1]
    BY <1>t, <2>1, TailFacts
  <2>5. ASSUME AllKept', NEW k \in 1..Len(orders), NEW f \in Nat, BlockOf(orders, Len(buffer), k + 1, f)
        PROVE  BlockOf(orders', Len(buffer'), k, f)
    <3>1. Len(buffer') \in Nat
      BY <1>t, <2>3, <2>5
    <3> QED BY <1>t, <2>1, <2>3, <2>5, <3>1, BlockTake
  <2>6. Saves'
    <3> SUFFICES ASSUME AllKept', NEW k \in DOMAIN orders', orders'[k].kind = "save"
                 PROVE  BlockOf(orders', Len(buffer'), k, orders'[k].frames)
      OBVIOUS
    <3>1. k + 1 \in DOMAIN orders /\ orders'[k] = orders[k + 1] /\ k \in 1..Len(orders)
      BY <1>t, <2>4
    <3>2. BlockOf(orders, Len(buffer), k + 1, orders[k + 1].frames) /\ orders[k + 1].frames \in Nat
      BY <1>0, <1>d, <1>t, <2>2, <3>1
    <3> QED BY <2>5, <3>1, <3>2
  <2>7. Going'
    <3> SUFFICES ASSUME AllKept', recording
                 PROVE  BlockOf(orders', Len(buffer'), Len(orders') + 1, shown)
      BY <2>1
    <3>1. BlockOf(orders, Len(buffer), Len(orders) + 1, shown)
      BY <1>0, <1>d, <2>2
    <3>2. Len(orders') + 1 = Len(orders) /\ Len(orders) \in 1..Len(orders)
      BY <1>t, <2>1, <2>4, TailFacts
    <3> QED BY <1>t, <2>5, <3>1, <3>2
  <2>8. WholeEpisodes'
    <3>1. CASE SaveEpisode
      <4> DEFINE new == [rec |-> Head(orders).rec, meant |-> Head(orders).frames, frames |-> buffer]
      <4>1. /\ fresh' = Append(fresh, new) /\ Head(orders).kind = "save" /\ trouble' = trouble
            /\ Head(orders) = orders[1] /\ 1 \in DOMAIN orders
        BY <1>t, <3>1, TailFacts DEF SaveEpisode, Take, Fine
      <4>2. AllKept => Len(buffer) = Head(orders).frames
        <5>1. AllKept => BlockOf(orders, Len(buffer), 1, orders[1].frames) /\ orders[1].frames \in Nat
          BY <1>0, <1>d, <1>t, <4>1
        <5>2. orders[1].frames \in Nat => orders[1].frames >= 1 - 1 /\ orders[1].frames - (1 - 1) = orders[1].frames
          OBVIOUS
        <5> QED BY <4>1, <5>1, <5>2 DEF BlockOf
      <4>3. new.frames = buffer /\ new.meant = Head(orders).frames
        OBVIOUS
      <4> HIDE DEF new
      <4>4. /\ DOMAIN fresh' = 1..(Len(fresh) + 1) /\ DOMAIN fresh = 1..Len(fresh) /\ Len(fresh) \in Nat
            /\ \A i \in 1..Len(fresh) : fresh'[i] = fresh[i]
            /\ fresh'[Len(fresh) + 1] = new
        BY <1>t, <4>1, AppendFacts
      <4>5. \A n \in DOMAIN fresh' : n \in DOMAIN fresh \/ n = Len(fresh) + 1
        BY <4>4
      <4>6. AllKept => \A n \in DOMAIN fresh : Len(fresh[n].frames) = fresh[n].meant
        BY <1>0 DEF BlockInv, WholeEpisodes, AllKept
      <4>7. AllKept => \A n \in DOMAIN fresh' : Len(fresh'[n].frames) = fresh'[n].meant
        BY <4>2, <4>3, <4>4, <4>5, <4>6
      <4> QED BY <4>1, <4>7 DEF WholeEpisodes, AllKept
    <3>2. CASE ~SaveEpisode
      BY <1>o, <2>1, <3>2, EpisodesStep
    <3> QED BY <3>1, <3>2
  <2> QED BY <1>e, <2>6, <2>7, <2>8
<1> QED BY <1>1, <1>2, <1>3, <1>4, <1>5, QueueStep

-----------------------------------------------------------------------------
(* Types.                                                                  *)

(* The commands that are in the queue are whole. *)
LEMMA OrdersStep == CollectInv /\ [CollectNext]_collectVars => orders' \in Seq(Orders)
<1> SUFFICES ASSUME CollectInv, [CollectNext]_collectVars PROVE orders' \in Seq(Orders)
  OBVIOUS
<1>0. /\ orders \in Seq(Orders) /\ rec \in 0..MaxRecs /\ shown \in 0..MaxFrames /\ numSaved \in Nat
      /\ recording => rec \in 1..MaxRecs
  BY DEF CollectInv, CollectTypeOK, PhaseInv
<1>s. <<>> \in Seq(Orders)
  OBVIOUS
<1>1. CASE Down \/ Quiet \/ Record
  BY <1>0, <1>s, <1>1 DEF Down, Quiet, Record
<1>2. CASE Takes
  <2>1. orders # <<>> /\ orders' = Tail(orders) /\ orders \in Seq(Orders)
    BY <1>2, TakesStep
  <2>2. Tail(orders) \in Seq(Orders)
    BY <2>1, TailFacts, Zenon
  <2> QED BY <2>1, <2>2
<1>a. ASSUME NEW c \in Orders, orders' = Append(orders, c) PROVE orders' \in Seq(Orders)
  BY <1>0, <1>a
<1>3. CASE AddFrame
  <2>1. Put([kind |-> "frame", rec |-> rec]) /\ recording
    BY <1>3 DEF AddFrame
  <2>2. [kind |-> "frame", rec |-> rec] \in Orders
    BY <1>0, <2>1 DEF Orders
  <2> QED BY <1>a, <2>1, <2>2 DEF Put
<1>4. CASE SaveKey
  <2>1. Put([kind |-> "save", rec |-> rec, frames |-> shown]) /\ recording /\ shown > 0
    BY <1>4 DEF SaveKey
  <2>2. shown \in 1..MaxFrames
    BY <1>0, <2>1
  <2>3. [kind |-> "save", rec |-> rec, frames |-> shown] \in Orders
    BY <1>0, <2>1, <2>2 DEF Orders
  <2> QED BY <1>a, <2>1, <2>3 DEF Put
<1>5. CASE DiscardKey
  <2>1. Put([kind |-> "discard", rec |-> rec]) /\ recording
    BY <1>5 DEF DiscardKey
  <2>2. [kind |-> "discard", rec |-> rec] \in Orders
    BY <1>0, <2>1 DEF Orders
  <2> QED BY <1>a, <2>1, <2>2 DEF Put
<1>6. CASE DeleteLast
  <2>1. Put([kind |-> "delete", index |-> numSaved])
    BY <1>6 DEF DeleteLast
  <2>2. [kind |-> "delete", index |-> numSaved] \in Orders
    BY <1>0 DEF Orders
  <2> QED BY <1>a, <2>1, <2>2 DEF Put
<1>7. [kind |-> "finalize"] \in Orders
  BY DEF Orders
<1>8. CASE Quit /\ ~recording
  <2>1. Put([kind |-> "finalize"])
    BY <1>8 DEF Quit
  <2> QED BY <1>a, <1>7, <2>1 DEF Put
<1>9. CASE Quit /\ recording
  <2>1. [kind |-> "discard", rec |-> rec] \in Orders
    BY <1>0, <1>9 DEF Orders
  <2>2. <<[kind |-> "discard", rec |-> rec], [kind |-> "finalize"]>> \in Seq(Orders)
    BY <1>7, <2>1
  <2>3. orders' = orders \o <<[kind |-> "discard", rec |-> rec], [kind |-> "finalize"]>>
    BY <1>9 DEF Quit
  <2> QED BY <1>0, <2>2, <2>3, ConcatProperties
<1>10. \/ Down \/ Quiet \/ Record \/ Takes \/ AddFrame \/ SaveKey \/ DiscardKey \/ DeleteLast
       \/ (Quit /\ ~recording) \/ (Quit /\ recording)
  BY QueueStep DEF Puts
<1> QED BY <1>1, <1>2, <1>3, <1>4, <1>5, <1>6, <1>8, <1>9, <1>10

(* The folders are folders. *)
LEMMA FoldersStep == CollectInv /\ [CollectNext]_collectVars => {root', tmp', bak'} \subseteq Folders
<1> SUFFICES ASSUME CollectInv, [CollectNext]_collectVars PROVE {root', tmp', bak'} \subseteq Folders
  OBVIOUS
<1>0. /\ {root, tmp, bak} \subseteq Folders /\ FolderInv
      /\ root # Nothing => root \in Present /\ root.eps \in Seq(Episode) /\ Stored \in Seq(Episode)
      /\ bak # Nothing => bak \in Present
      /\ tmp # Nothing => tmp \in Present
      /\ Folders = {Nothing} \cup Present /\ Durable \in Seq(Episode)
  BY StoredLists DEF CollectInv, CollectTypeOK, Folders
<1>1. CASE StartUp \/ RollBack \/ SweepTmp \/ SweepBak \/ LoadFails \/ Leave \/ Operator
  BY <1>0, <1>1 DEF StartUp, RollBack, SweepTmp, SweepBak, LoadFails, Leave, Operator, Record, AddFrame, SaveKey,
     DiscardKey, DeleteLast, Quit, Elsewhere, folders
<1>2. CASE Load
  <2>1. Folder(<<>>) \in Present
    <3>1. <<>> \in Seq(Episode)
      OBVIOUS
    <3> QED BY <3>1, FolderThere
  <2> QED BY <1>0, <1>2, <2>1 DEF Load
<1>3. CASE Mend
  <2>1. /\ root # Nothing /\ (root' = root \/ root' = [root EXCEPT !.torn = 0]) /\ tmp' = tmp /\ bak' = bak
    BY <1>3 DEF Mend, RemoveTorn, CheckKept, WriteInfo, WriteStats, LoadsAgain, MendCut, Mending, NotRunning
  <2>2. root' \in Present
    BY <1>0, <2>1, FolderThere
  <2> QED BY <1>0, <2>1, <2>2
<1>4. CASE Killed
  <2>1. tmp' = tmp /\ bak' = bak /\ (root = Nothing => root' = root)
    BY <1>4 DEF Killed
  <2> QED BY <1>0, <1>4, <2>1, KilledRoot
<1>5. CASE TakeFrame \/ SaveEpisode \/ ClearBuffer \/ SaveError \/ DiscardError \/ CountSave \/ FinalizeFails
           \/ TakeDelete \/ DropBuffer \/ Reload \/ CountDelete
  BY <1>0, <1>5 DEF TakeFrame, SaveEpisode, ClearBuffer, SaveError, DiscardError, CountSave, FinalizeFails,
     TakeDelete, DropBuffer, Reload, CountDelete, folders
<1>6. CASE Finalize \/ Flush
  <2>1. root # Nothing /\ root' = [root EXCEPT !.eps = Stored] /\ tmp' = tmp /\ bak' = bak
    BY <1>0, <1>6 DEF Finalize, Flush, Take, Working, FolderInv, Running
  <2> QED BY <1>0, <2>1, FolderThere
<1>7. CASE RemoveStale
  <2>1. root # Nothing /\ worker = "write" /\ root' = root /\ bak' = Nothing
        /\ tmp' = Partial(Folder(RemoveAt(root.eps, count)))
    BY <1>0, <1>7 DEF RemoveStale, Step, Working, FolderInv, Running
  <2>2. count = Len(Durable) /\ Durable = root.eps /\ count > 0
    BY <2>1 DEF CollectInv, CountInv, Deleting, Deleted, Durable
  <2>3. RemoveAt(root.eps, count) = Front(root.eps) /\ Front(root.eps) \in Seq(Episode)
    <3>1. root.eps # <<>>
      BY <2>2
    <3> QED BY <1>0, <2>1, <2>2, <3>1, RemoveLast, FrontFacts
  <2>4. Folder(Front(root.eps)) \in Present
    BY <2>3, FolderThere
  <2>5. Partial(Folder(Front(root.eps))) \in Present
    BY <2>4, FolderThere
  <2> QED BY <1>0, <2>1, <2>3, <2>5
<1>8. CASE WriteRest
  <2>1. tmp # Nothing /\ tmp' = [tmp EXCEPT !.whole = TRUE] /\ root' = root /\ bak' = bak
    BY <1>0, <1>8 DEF WriteRest, Step, FolderInv
  <2> QED BY <1>0, <2>1, FolderThere
<1>9. CASE SetAside \/ Swap \/ BackupGone \/ DeleteFails
  BY <1>0, <1>9 DEF SetAside, Swap, BackupGone, DeleteFails
<1>10. CASE RemoveBackup
  <2>1. bak # Nothing /\ bak' = Partial(bak) /\ root' = root /\ tmp' = tmp
    BY <1>0, <1>10 DEF RemoveBackup, Step, FolderInv
  <2> QED BY <1>0, <2>1, FolderThere
<1>11. CASE UNCHANGED collectVars
  BY <1>0, <1>11 DEF collectVars, folders
<1> QED BY <1>1, <1>2, <1>3, <1>4, <1>5, <1>6, <1>7, <1>8, <1>9, <1>10, <1>11
        DEF CollectNext, Begin, Work, Delete

(* What the program keeps in memory. *)
LEMMA MemoryStep ==
  ASSUME CollectInv, [CollectNext]_collectVars
  PROVE  buffer' \in Seq(1..MaxRecs) /\ fresh' \in Seq(Episode)
<1>0. /\ orders \in Seq(Orders) /\ buffer \in Seq(1..MaxRecs) /\ fresh \in Seq(Episode) /\ MaxRecs \in Nat
  BY DEF CollectInv, CollectTypeOK
<1>s. <<>> \in Seq(1..MaxRecs) /\ <<>> \in Seq(Episode)
  OBVIOUS
<1>1. buffer' \in Seq(1..MaxRecs)
  <2>1. CASE Down \/ Quiet \/ Record \/ Puts
    <3>1. buffer' \in {buffer, <<>>}
      <4>1. Puts => buffer' = buffer
        BY PutsStep
      <4> QED BY <2>1, <4>1 DEF Down, Quiet, Record, Elsewhere, dataset
    <3> QED BY <1>0, <1>s, <3>1
  <2>2. CASE TakeFrame
    <3>1. orders # <<>> /\ Head(orders).kind = "frame" /\ buffer' \in {buffer, Append(buffer, Head(orders).rec)}
      BY <2>2 DEF TakeFrame, Take
    <3>2. Head(orders).rec \in 1..MaxRecs
      BY <1>0, <3>1, TailFacts, CommandFields
    <3>3. Append(buffer, Head(orders).rec) \in Seq(1..MaxRecs)
      BY <1>0, <3>2
    <3> QED BY <1>0, <3>1, <3>3
  <2>3. CASE Takes /\ ~TakeFrame
    <3>1. buffer' \in {buffer, <<>>}
      BY <2>3 DEF Takes, SaveEpisode, ClearBuffer, SaveError, DiscardError, Finalize, FinalizeFails, TakeDelete, dataset
    <3> QED BY <1>0, <1>s, <3>1
  <2> QED BY <2>1, <2>2, <2>3, QueueStep
<1>2. fresh' \in Seq(Episode)
  <2>1. CASE fresh' \in {fresh, <<>>}
    BY <1>0, <1>s, <2>1
  <2>2. CASE SaveEpisode
    <3> DEFINE new == [rec |-> Head(orders).rec, meant |-> Head(orders).frames, frames |-> buffer]
    <3>1. orders # <<>> /\ Head(orders).kind = "save" /\ fresh' = Append(fresh, new)
      BY <2>2 DEF SaveEpisode, Take
    <3>2. Head(orders).rec \in 1..MaxRecs /\ Head(orders).frames \in 1..MaxFrames
      BY <1>0, <3>1, TailFacts, CommandFields
    <3>3. new \in Episode
      BY <1>0, <3>2 DEF Episode
    <3> HIDE DEF new
    <3> QED BY <1>0, <3>1, <3>3
  <2> QED BY <2>1, <2>2, EpisodesStep
<1> QED BY <1>1, <1>2

(* The numbers the program keeps. *)
LEMMA NumbersStep ==
  ASSUME CollectInv, [CollectNext]_collectVars
  PROVE  /\ saves' \in Nat /\ deletes' \in 0..1 /\ numSaved' \in Nat /\ count' \in Nat
<1>0. /\ saves \in Nat /\ deletes \in 0..1 /\ numSaved \in Nat /\ count \in Nat /\ orders \in Seq(Orders)
      /\ PendingsHonest
      /\ root # Nothing => root.eps \in Seq(Episode)
  BY StoredLists DEF CollectInv, CollectTypeOK
<1>1. saves' \in Nat
  <2>1. Waiting({"save", "discard"})' \in Nat
    <3>1. orders' \in Seq(Orders)
      BY OrdersStep
    <3>2. Waiting({"save", "discard"})' = Cardinality(Of(orders', {"save", "discard"}))
      BY DEF Waiting, Of
    <3> QED BY <3>1, <3>2, CountFinite
  <2>2. saves' = Waiting({"save", "discard"})' + (IF worker' = "saved" THEN 1 ELSE 0)
    BY PendingsStep DEF PendingsHonest
  <2> QED BY <2>1, <2>2
<1>2. deletes' \in 0..1
  <2>1. worker \in Deleting => deletes = 1
    <3>1. Waiting({"delete"}) \in Nat
      BY <1>0, WaitingNat
    <3> QED BY <1>0, <3>1 DEF PendingsHonest
  <2>2. CASE CountDelete \/ DeleteFails
    <3>1. worker \in Deleting /\ deletes' = deletes - 1
      BY <2>2 DEF CountDelete, DeleteFails, Deleting, Deleted
    <3> QED BY <2>1, <3>1
  <2>3. CASE DeleteLast
    BY <2>3 DEF DeleteLast
  <2>4. CASE ~CountDelete /\ ~DeleteFails /\ ~DeleteLast
    <3>1. CASE Begin \/ Mend \/ Leave \/ Killed \/ UNCHANGED collectVars
      <4>1. deletes' = 0 \/ deletes' = deletes
        <5>1. CASE Begin
          BY <5>1 DEF Begin, StartUp, RollBack, SweepTmp, SweepBak, Load, LoadFails, Down, pending
        <5>2. CASE Mend
          BY <5>2 DEF Mend, RemoveTorn, CheckKept, WriteInfo, WriteStats, LoadsAgain, MendCut, NotRunning, pending
        <5>3. CASE Leave \/ Killed \/ UNCHANGED collectVars
          BY <5>3 DEF Leave, Killed, Down, collectVars
        <5> QED BY <3>1, <5>1, <5>2, <5>3
      <4> QED BY <1>0, <4>1
    <3>2. CASE Operator
      BY <1>0, <2>4, <3>2 DEF Operator, Record, AddFrame, SaveKey, DiscardKey, Quit, pending
    <3>3. CASE Work
      BY <1>0, <2>4, <3>3 DEF Work, TakeFrame, SaveEpisode, ClearBuffer, SaveError, DiscardError, CountSave, Finalize,
         FinalizeFails, Delete, TakeDelete, DropBuffer, Flush, RemoveStale, WriteRest, SetAside, Swap, RemoveBackup,
         BackupGone, Reload, Rest, pending
    <3> QED BY <3>1, <3>2, <3>3 DEF CollectNext
  <2> QED BY <2>2, <2>3, <2>4
<1>3. numSaved' \in Nat /\ count' \in Nat
  <2>1. CASE Load
    <3>1. numSaved' = Len(root'.eps) /\ count' = Len(root'.eps) /\ root' = IF root = Nothing THEN Folder(<<>>) ELSE root
      BY <2>1 DEF Load
    <3>2. root'.eps \in Seq(Episode)
      <4>1. Folder(<<>>).eps = <<>> /\ <<>> \in Seq(Episode)
        BY DEF Folder
      <4> QED BY <1>0, <3>1, <4>1
    <3> QED BY <3>1, <3>2
  <2>2. CASE Reload
    <3>1. root # Nothing /\ count' = Len(root.eps) /\ numSaved' = numSaved
      BY <2>2 DEF Reload, Step, Working, Rest, pending, CollectInv, FolderInv, Running
    <3> QED BY <1>0, <3>1
  <2>3. CASE SaveEpisode
    BY <1>0, <2>3 DEF SaveEpisode, pending
  <2>4. CASE (Begin /\ ~Load) \/ Mend \/ Leave \/ Killed \/ UNCHANGED collectVars
    <3>1. CASE Begin /\ ~Load
      BY <1>0, <3>1 DEF Begin, StartUp, RollBack, SweepTmp, SweepBak, LoadFails, Down, pending, dataset
    <3>2. CASE Mend
      BY <1>0, <3>2 DEF Mend, RemoveTorn, CheckKept, WriteInfo, WriteStats, LoadsAgain, MendCut, NotRunning,
         pending, dataset
    <3>3. CASE Leave \/ Killed \/ UNCHANGED collectVars
      <4>1. (numSaved' = 0 /\ count' = 0) \/ (numSaved' = numSaved /\ count' = count)
        BY <3>3 DEF Leave, Killed, Down, collectVars
      <4> QED BY <1>0, <4>1
    <3> QED BY <2>4, <3>1, <3>2, <3>3
  <2>5. CASE Operator
    BY <1>0, <2>5 DEF Operator, Record, AddFrame, SaveKey, DiscardKey, DeleteLast, Quit, Elsewhere, pending, dataset
  <2>6. CASE Work /\ ~Reload /\ ~SaveEpisode
    BY <1>0, <2>6 DEF Work, TakeFrame, ClearBuffer, SaveError, DiscardError, CountSave, Finalize,
       FinalizeFails, Delete, TakeDelete, DropBuffer, Flush, RemoveStale, WriteRest, SetAside, Swap, RemoveBackup,
       BackupGone, CountDelete, DeleteFails, Rest, pending, dataset
  <2> QED BY <2>1, <2>2, <2>3, <2>4, <2>5, <2>6 DEF CollectNext, Begin, Work, Delete
<1> QED BY <1>1, <1>2, <1>3

(* What the two threads and the repair are doing. *)
LEMMA ThreadsStep ==
  ASSUME CollectInv, [CollectNext]_collectVars
  PROVE  /\ main' \in {"down", "recover", "sweep", "clean", "load", "run", "wait"}
         /\ worker' \in {"get", "saved", "ended"} \cup Deleting
         /\ mend' \in {"no", "check", "info", "stats", "loads", "again"}
         /\ recording' \in BOOLEAN /\ rec' \in 0..MaxRecs /\ shown' \in 0..MaxFrames
         /\ starts' \in 0..MaxStarts
         /\ trouble' \subseteq {"frame", "save", "discard", "finalize"} \cup Deleting
         /\ job' \in Orders \cup {Nothing}
<1>0. /\ main \in {"down", "recover", "sweep", "clean", "load", "run", "wait"}
      /\ worker \in {"get", "saved", "ended"} \cup Deleting
      /\ mend \in {"no", "check", "info", "stats", "loads", "again"}
      /\ recording \in BOOLEAN /\ rec \in 0..MaxRecs /\ shown \in 0..MaxFrames
      /\ starts \in 0..MaxStarts
      /\ trouble \subseteq {"frame", "save", "discard", "finalize"} \cup Deleting
      /\ job \in Orders \cup {Nothing} /\ orders \in Seq(Orders)
  BY DEF CollectInv, CollectTypeOK
<1>k. /\ {"clear", "flush", "write", "writing", "aside", "swap", "sweep", "sweeping", "reload", "told"}
           \subseteq Deleting
  BY DEF Deleting, Deleted, Swapping
<1>m. 0 \in 0..MaxRecs /\ 0 \in 0..MaxFrames /\ MaxRecs \in Nat /\ MaxFrames \in Nat /\ MaxStarts \in Nat
  OBVIOUS
<1>1. CASE Begin
  <2>1. CASE StartUp
    BY <1>0, <1>m, <2>1 DEF StartUp, folders, operator
  <2>2. CASE RollBack \/ SweepTmp \/ SweepBak
    BY <1>0, <2>2 DEF RollBack, SweepTmp, SweepBak, operator
  <2>3. CASE Load
    BY <1>0, <2>3 DEF Load, operator
  <2>4. CASE LoadFails
    BY <1>0, <1>m, <2>4 DEF LoadFails, Down, folders
  <2> QED BY <1>1, <2>1, <2>2, <2>3, <2>4 DEF Begin
<1>2. CASE Mend
  BY <1>0, <1>2 DEF Mend, RemoveTorn, CheckKept, WriteInfo, WriteStats, LoadsAgain, MendCut, Mending, NotRunning, operator
<1>3. CASE Leave \/ Killed \/ UNCHANGED collectVars
  BY <1>0, <1>m, <1>3 DEF Leave, Killed, Down, folders, collectVars
<1>4. CASE Operator
  <2>1. UNCHANGED <<worker, job, mend, starts, trouble>> /\ main' \in {main, "wait"}
    BY <1>4 DEF Operator, Record, AddFrame, SaveKey, DiscardKey, DeleteLast, Quit, Elsewhere, folders
  <2>2. recording' \in BOOLEAN /\ rec' \in 0..MaxRecs /\ shown' \in 0..MaxFrames
    <3>1. CASE Record
      BY <1>0, <1>m, <3>1 DEF Record
    <3>2. CASE AddFrame
      BY <1>0, <1>m, <3>2 DEF AddFrame
    <3>3. CASE SaveKey \/ DiscardKey \/ DeleteLast \/ Quit
      BY <1>0, <1>m, <3>3 DEF SaveKey, DiscardKey, DeleteLast, Quit, Idle, operator
    <3> QED BY <1>4, <3>1, <3>2, <3>3 DEF Operator
  <2> QED BY <1>0, <2>1, <2>2
<1>5. CASE TakeFrame \/ SaveEpisode \/ ClearBuffer \/ SaveError \/ DiscardError \/ CountSave \/ Finalize \/ FinalizeFails
  BY <1>0, <1>5 DEF TakeFrame, SaveEpisode, ClearBuffer, SaveError, DiscardError, CountSave, Finalize, FinalizeFails,
     Take, Trouble, Fine, Unheard, operator, folders
<1>6. CASE TakeDelete
  <2>1. orders # <<>> /\ Head(orders) \in Orders
    BY <1>0, <1>6, TailFacts DEF TakeDelete, Take
  <2> QED BY <1>0, <1>k, <1>6, <2>1 DEF TakeDelete, Fine, Unheard, operator, folders
<1>7. CASE \/ DropBuffer \/ Flush \/ RemoveStale \/ WriteRest \/ SetAside \/ Swap \/ RemoveBackup \/ BackupGone \/ Reload
  BY <1>0, <1>k, <1>7 DEF DropBuffer, Flush, RemoveStale, WriteRest, SetAside, Swap, RemoveBackup, BackupGone, Reload,
     Step, Rest, Fine, Unheard, operator, folders
<1>8. CASE CountDelete \/ DeleteFails
  BY <1>0, <1>8 DEF CountDelete, DeleteFails, Trouble, Fine, Unheard, operator, folders
<1> QED BY <1>1, <1>2, <1>3, <1>4, <1>5, <1>6, <1>7, <1>8 DEF CollectNext, Work, Delete

(* Every step keeps the types. *)
LEMMA TypeStep == CollectInv /\ [CollectNext]_collectVars => CollectTypeOK'
BY OrdersStep, FoldersStep, MemoryStep, NumbersStep, ThreadsStep DEF CollectTypeOK

-----------------------------------------------------------------------------
(* The invariant, and what follows from it.                                *)

LEMMA InitCollect == CollectInit => CollectInv
<1> SUFFICES ASSUME CollectInit PROVE CollectInv
  OBVIOUS
<1>1. /\ main = "down" /\ recording = FALSE /\ rec = 0 /\ shown = 0 /\ saves = 0 /\ deletes = 0 /\ numSaved = 0
      /\ orders = <<>> /\ worker = "ended" /\ job = Nothing /\ buffer = <<>> /\ fresh = <<>> /\ count = 0
      /\ root = Nothing /\ tmp = Nothing /\ bak = Nothing /\ mend = "no" /\ starts = 0 /\ trouble = {}
  BY DEF CollectInit
<1>2. Durable = <<>> /\ Episodes = <<>> /\ MaxRecs \in Nat /\ MaxFrames \in Nat /\ MaxStarts \in Nat
  <2>1. Durable = <<>> /\ <<>> \in Seq(Episode)
    BY <1>1 DEF Durable
  <2> QED BY <1>1, <2>1, ConcatEmptySeq DEF Episodes
<1>3. "ended" \notin Deleting
  BY DEF Deleting, Deleted, Swapping
<1>4. CollectTypeOK
  <2>1. orders \in Seq(Orders) /\ buffer \in Seq(1..MaxRecs) /\ fresh \in Seq(Episode)
    BY <1>1
  <2>2. {root, tmp, bak} \subseteq Folders
    BY <1>1 DEF Folders
  <2>3. rec \in 0..MaxRecs /\ shown \in 0..MaxFrames /\ starts \in 0..MaxStarts /\ deletes \in 0..1
    BY <1>1, <1>2
  <2> QED BY <1>1, <2>1, <2>2, <2>3 DEF CollectTypeOK
<1>5. PhaseInv /\ FolderInv
  BY <1>1 DEF PhaseInv, FolderInv, Running, Swapping
<1>6. PendingsHonest
  <2>1. \A kinds : Waiting(kinds) = 0
    <3>1. \A kinds : Waiting(kinds) = Cardinality(Of(orders, kinds)) /\ Of(orders, kinds) = {}
      BY <1>1 DEF Waiting, Of
    <3> QED BY <3>1, FS_EmptySet
  <2> QED BY <1>1, <1>3, <2>1 DEF PendingsHonest
<1>7. CountInv
  BY <1>1, <1>3 DEF CountInv, Running, Deleting, Deleted, Swapping
<1>8. OrderInv
  BY <1>1, <1>2 DEF OrderInv
<1>9. FrameInv /\ BlockInv
  BY <1>1, <1>3 DEF FrameInv, BlockInv, OwnFrames, WholeEpisodes
<1> QED BY <1>4, <1>5, <1>6, <1>7, <1>8, <1>9 DEF CollectInv

LEMMA NextCollect == CollectInv /\ [CollectNext]_collectVars => CollectInv'
BY TypeStep, PhaseStep, FolderStep, PendingsStep, CountStep, OrderStep, FrameStep, BlockStep DEF CollectInv

(* In every state the collector can reach, the invariant holds. *)
LEMMA Collecting == CollectSpec => []CollectInv
BY InitCollect, NextCollect, PTL DEF CollectSpec

(* While a deletion is under way it is the one that is pending. *)
LEMMA OneDeletion == CollectInv /\ worker \in Deleting => deletes = 1
<1> SUFFICES ASSUME CollectInv, worker \in Deleting PROVE deletes = 1
  OBVIOUS
<1>1. orders \in Seq(Orders) /\ deletes \in 0..1 /\ PendingsHonest
  BY DEF CollectInv, CollectTypeOK
<1>2. Waiting({"delete"}) \in Nat
  BY <1>1, WaitingNat
<1> QED BY <1>1, <1>2 DEF PendingsHonest

(* What is stored is the recordings that were saved, each once and whole,  *)
(* and wherever the process ends a start finds them: no state has lost an  *)
(* episode to a deletion that was cut short (data_collect.py:466-492,      *)
(* 630-700).                                                               *)
THEOREM KeepsEpisodes == CollectSpec => []EpisodesKept
<1>1. CollectInv => EpisodesKept
  <2> SUFFICES ASSUME CollectInv PROVE EpisodesKept
    OBVIOUS
  <2>1. CollectTypeOK /\ OwnFrames /\ WholeEpisodes
    BY DEF CollectInv, FrameInv, BlockInv
  <2>2. \A n \in DOMAIN Durable, k \in DOMAIN Durable : Durable[n].rec = Durable[k].rec => n = k
    <3> SUFFICES ASSUME NEW n \in DOMAIN Durable, NEW k \in DOMAIN Durable, Durable[n].rec = Durable[k].rec
                 PROVE  n = k
      OBVIOUS
    <3>1. /\ Durable \in Seq(Episode) /\ fresh \in Seq(Episode) /\ Episodes \in Seq(Episode)
          /\ DOMAIN Durable = 1..Len(Durable) /\ Len(Durable) \in Nat /\ Len(fresh) \in Nat
      BY StoredLists, <2>1 DEF Episodes
    <3>2. /\ DOMAIN Episodes = 1..(Len(Durable) + Len(fresh))
          /\ \A m \in 1..Len(Durable) : Episodes[m] = Durable[m]
      BY <3>1, ShorterLists DEF Episodes
    <3>3. /\ n \in DOMAIN Episodes /\ k \in DOMAIN Episodes
          /\ Episodes[n].rec = Episodes[k].rec
      BY <3>1, <3>2
    <3>4. Episodes[n].rec \in 1..MaxRecs
      <4>1. Episodes[n] \in Episode
        BY <3>1, <3>3
      <4> QED BY <4>1 DEF Episode
    <3>5. ~(n < k) /\ ~(k < n)
      BY <3>3, <3>4 DEF CollectInv, OrderInv
    <3> QED BY <3>1, <3>5
  <2>3. AlwaysRecoverable
    BY <2>2 DEF AlwaysRecoverable, CollectInv, FolderInv
  <2> QED BY <2>1, <2>3 DEF EpisodesKept
<1> QED BY <1>1, Collecting, PTL

(* The screen tells the truth: the pending numbers are the commands that    *)
(* are not done, the number of saved episodes is the number stored, and a   *)
(* deletion removes the episode the operator was shown, whatever fails and  *)
(* in whichever order the two threads run (data_collect.py:816-850).        *)
THEOREM ScreenTells == CollectSpec => []ScreenHonest
<1>1. CollectInv => ScreenHonest
  <2> SUFFICES ASSUME CollectInv PROVE ScreenHonest
    OBVIOUS
  <2>1. /\ PendingsHonest /\ CollectTypeOK /\ orders \in Seq(Orders) /\ FolderInv /\ CountInv
        /\ fresh \in Seq(Episode) /\ Durable \in Seq(Episode)
        /\ root # Nothing => Stored = Durable \o fresh
    BY StoredLists DEF CollectInv, CollectTypeOK
  <2>2. ShownIsStored
    <3> SUFFICES ASSUME main = "run", saves = 0, deletes = 0, trouble \cap Deleted = {}
                 PROVE  numSaved = Len(Stored) /\ numSaved = count
      BY DEF ShownIsStored
    <3>1. worker # "saved" /\ worker \notin Deleting
      <4>1. Waiting({"save", "discard"}) \in Nat
        BY <2>1, WaitingNat
      <4>2. worker # "saved"
        BY <2>1, <4>1 DEF PendingsHonest
      <4> QED BY <4>2, OneDeletion
    <3>2. worker # "swap" /\ worker # "told" /\ Running
      BY <3>1 DEF Deleting, Swapping, Deleted, Running
    <3>3. root # Nothing
      BY <2>1, <3>2 DEF FolderInv
    <3>4. Len(Stored) = Len(Durable) + Len(fresh)
      BY <2>1, <3>3
    <3>5. numSaved = count /\ count = Len(Durable) + Len(fresh)
      BY <2>1, <3>1, <3>2 DEF CountInv
    <3> QED BY <3>4, <3>5
  <2>3. DeletesShown
    <3> SUFFICES ASSUME worker \in {"writing"} \cup Swapping
                 PROVE  job.index = count /\ count = Len(Durable) /\ tmp.eps = Front(Durable)
      BY DEF DeletesShown
    <3>1. worker \in Deleting \ {"told"} /\ worker \in {"write", "writing"} \cup Swapping
      BY DEF Deleting, Swapping
    <3> QED BY <2>1, <3>1 DEF CountInv, FolderInv
  <2> QED BY <2>1, <2>2, <2>3 DEF ScreenHonest
<1> QED BY <1>1, Collecting, PTL

-----------------------------------------------------------------------------
(* The collector implements a list of episodes.                            *)

\* Requests to delete that are not yet answered.
Asked == IF worker \in Deleted THEN deletes - 1 ELSE deletes

LEMMA AskedNat == CollectInv => Asked \in Nat /\ Durable \in Seq(Episode) /\ fresh \in Seq(Episode)
<1> SUFFICES ASSUME CollectInv PROVE Asked \in Nat /\ Durable \in Seq(Episode) /\ fresh \in Seq(Episode)
  OBVIOUS
<1>1. deletes \in 0..1 /\ (worker \in Deleted => deletes = 1)
  BY OneDeletion DEF CollectInv, CollectTypeOK, Deleting
<1> QED BY <1>1, StoredLists DEF Asked, CollectInv

(* Every step of the collector is one of the list, or none. *)
LEMMA StoreStep ==
  ASSUME CollectInv, CollectInv', [CollectNext]_collectVars
  PROVE  [Store!Next]_(Store!vars)
<1>0. Asked \in Nat /\ Durable \in Seq(Episode) /\ fresh \in Seq(Episode)
  BY AskedNat
<1>d. (worker \in Deleting => deletes = 1) /\ (worker' \in Deleting => deletes' = 1)
  <2>1. (worker \in Deleting => deletes = 1)'
    BY OneDeletion, PTL
  <2> QED BY <2>1, OneDeletion
<1>k. /\ Deleted \subseteq Deleting
      /\ {"clear", "flush", "write", "writing", "aside", "swap"} \subseteq Deleting \ Deleted
      /\ {"sweep", "sweeping", "reload", "told"} = Deleted
      /\ {"get", "saved", "ended"} \cap Deleting = {}
  BY DEF Deleting, Deleted, Swapping
<1>p. IsPrefix(Durable, Durable)
  BY <1>0, PrefixOfSame
<1>a. ASSUME Durable' = Durable, Asked' = Asked PROVE [Store!Next]_(Store!vars)
  BY <1>a DEF Store!vars, Asked
<1>b. ASSUME IsPrefix(Durable, Durable'), Asked' = Asked PROVE Store!Next
  BY <1>b DEF Store!Next, Store!Store, Asked, Store!IsPrefix, IsPrefix
<1>c. ASSUME IsPrefix(Durable, Durable'), Asked > 0, Asked' = Asked - 1 PROVE Store!Next
  BY <1>c DEF Store!Next, Store!Refuse, Asked, Store!IsPrefix, IsPrefix
<1>e. ASSUME IsPrefix(Durable, Durable'), Asked' = 0 PROVE Store!Next
  BY <1>e DEF Store!Next, Store!Forget, Asked, Store!IsPrefix, IsPrefix
<1>1. ASSUME Down, Durable' = Durable PROVE Store!Next
  <2>1. Asked' = 0
    BY <1>1, <1>k DEF Down, Asked
  <2> QED BY <1>1, <1>e, <1>p, <2>1
<1>2. ASSUME Killed, root # Nothing PROVE Store!Next
  <2>1. Asked' = 0
    BY <1>2, <1>k DEF Killed, Down, Asked
  <2>2. IsPrefix(Durable, Durable')
    BY <1>0, <1>2, DurableKilled, PrefixOfConcat
  <2> QED BY <1>e, <2>1, <2>2
<1>3. ASSUME Finalize PROVE Store!Next
  <2>1. Asked' = Asked
    BY <1>3, <1>k DEF Finalize, Take, Asked, pending
  <2>2. IsPrefix(Durable, Durable')
    BY <1>0, <1>3, DurableWritten, PrefixOfConcat
  <2> QED BY <1>b, <2>1, <2>2
<1>4. ASSUME Flush PROVE Store!Next
  <2>1. IsPrefix(Durable, Durable')
    BY <1>0, <1>4, DurableWritten, PrefixOfConcat
  <2>2. worker = "flush" /\ worker' \in {"write", "told"} /\ deletes' = deletes /\ deletes = 1
    BY <1>4, <1>d, <1>k DEF Flush, Rest, pending
  <2>3. Asked = 1 /\ (Asked' = 1 \/ Asked' = 0)
    BY <1>k, <2>2 DEF Asked
  <2> QED BY <1>b, <1>c, <2>1, <2>3
<1>5. ASSUME Swap PROVE Store!Next
  <2>1. Durable' = Front(Durable) /\ Durable # <<>>
    BY <1>5, DurableSwapped
  <2>2. Asked = 1 /\ Asked' = 0
    BY <1>5, <1>k, DurableSwapped DEF Asked
  <2> QED BY <2>1, <2>2 DEF Store!Next, Store!Drop, Asked, Store!Front, Front
<1>6. ASSUME Durable' = Durable, DeleteLast PROVE Store!Next
  <2>1. deletes = 0 /\ deletes' = 1 /\ worker' = worker
    BY <1>6 DEF DeleteLast, Elsewhere
  <2>2. Asked' = Asked + 1
    BY <1>d, <1>k, <2>1 DEF Asked
  <2> QED BY <1>6, <2>2 DEF Store!Next, Store!Ask, Asked
<1>7. ASSUME Durable' = Durable, TakeDelete PROVE [Store!Next]_(Store!vars)
  <2>1. worker = "get" /\ worker' \in {"clear", "told"} /\ deletes' = deletes /\ deletes' = 1
    BY <1>7, <1>d, <1>k DEF TakeDelete, Take, pending
  <2>2. Asked = 1 /\ (Asked' = 1 \/ Asked' = 0)
    BY <1>k, <2>1 DEF Asked
  <2> QED BY <1>7, <1>a, <1>c, <1>p, <2>2
<1>8. ASSUME Durable' = Durable, DeleteFails PROVE [Store!Next]_(Store!vars)
  <2>1. worker \in Deleting /\ worker' = "get" /\ deletes' = deletes - 1 /\ deletes = 1
    BY <1>8, <1>d DEF DeleteFails
  <2>2. Asked' = 0 /\ (Asked = 1 \/ Asked = 0)
    BY <1>k, <2>1 DEF Asked
  <2> QED BY <1>8, <1>a, <1>c, <1>p, <2>2
<1>9. ASSUME Durable' = Durable, CountDelete PROVE [Store!Next]_(Store!vars)
  <2>1. worker = "told" /\ worker' = "get" /\ deletes' = deletes - 1 /\ deletes = 1
    BY <1>9, <1>d, <1>k DEF CountDelete
  <2>2. Asked' = 0 /\ Asked = 0
    BY <1>k, <2>1 DEF Asked
  <2> QED BY <1>9, <1>a, <2>2
<1>10. ASSUME Durable' = Durable, Begin, ~LoadFails PROVE [Store!Next]_(Store!vars)
  <2>1. deletes' = deletes /\ (worker' = worker \/ (worker = "ended" /\ worker' = "get"))
    BY <1>10 DEF Begin, StartUp, RollBack, SweepTmp, SweepBak, Load, pending, CollectInv, PhaseInv, Running
  <2> QED BY <1>10, <1>a, <1>k, <2>1 DEF Asked
<1>11. ASSUME Durable' = Durable, Mend \/ (Operator /\ ~DeleteLast) PROVE [Store!Next]_(Store!vars)
  <2>1. deletes' = deletes /\ worker' = worker
    BY <1>11 DEF Mend, RemoveTorn, CheckKept, WriteInfo, WriteStats, LoadsAgain, MendCut, NotRunning, Operator,
       Record, AddFrame, SaveKey, DiscardKey, Quit, Elsewhere, pending
  <2> QED BY <1>11, <1>a, <2>1 DEF Asked
<1>12. ASSUME Durable' = Durable,
              TakeFrame \/ SaveEpisode \/ ClearBuffer \/ SaveError \/ DiscardError \/ CountSave \/ FinalizeFails
       PROVE  [Store!Next]_(Store!vars)
  <2>1. deletes' = deletes /\ worker \in {"get", "saved"} /\ worker' \in {"get", "saved"}
    BY <1>12 DEF TakeFrame, SaveEpisode, ClearBuffer, SaveError, DiscardError, CountSave, FinalizeFails, Take, pending
  <2> QED BY <1>12, <1>a, <1>k, <2>1 DEF Asked
<1>13. ASSUME Durable' = Durable,
              DropBuffer \/ RemoveStale \/ WriteRest \/ SetAside \/ RemoveBackup \/ BackupGone \/ Reload
       PROVE  [Store!Next]_(Store!vars)
  <2>1. deletes' = deletes
    BY <1>13 DEF DropBuffer, RemoveStale, WriteRest, SetAside, RemoveBackup, BackupGone, Reload, Rest, pending
  <2>2. \/ worker \in {"clear", "write", "writing", "aside"} /\ worker' \in {"flush", "writing", "aside", "swap"}
        \/ worker \in {"sweep", "sweeping", "reload"} /\ worker' \in {"sweeping", "reload", "told"}
    BY <1>13 DEF DropBuffer, RemoveStale, WriteRest, SetAside, RemoveBackup, BackupGone, Reload, Step
  <2>3. worker \in Deleted <=> worker' \in Deleted
    BY <1>k, <2>2
  <2> QED BY <1>13, <1>a, <2>1, <2>3 DEF Asked
<1>14. CASE UNCHANGED collectVars
  <2>1. UNCHANGED <<root, bak, worker, deletes>>
    BY <1>14 DEF collectVars
  <2> QED BY <1>a, <2>1 DEF Durable, Asked
<1>15. Durable' = Durable \/ Flush \/ Finalize \/ Swap \/ (Killed /\ root # Nothing)
  BY DurableKept
<1>16. Leave \/ LoadFails \/ Killed => Down
  BY DEF Leave, LoadFails, Killed
<1> HIDE DEF Asked
<1>17. CASE Durable' = Durable
  BY <1>1, <1>3, <1>4, <1>5, <1>6, <1>7, <1>8, <1>9, <1>10, <1>11, <1>12, <1>13, <1>14, <1>16, <1>17
     DEF CollectNext, Operator, Work, Delete
<1> QED BY <1>2, <1>3, <1>4, <1>5, <1>15, <1>17

(* Whatever the two threads, the failures and the crashes do to the three   *)
(* folders, a restart finds a list of episodes that grows only at its end   *)
(* and loses only its last one, once per request (data_collect.py:630-700). *)
THEOREM ImplementsList == CollectSpec => StoreSpec
<1>1. CollectInit => Store!Init
  <2> SUFFICES ASSUME CollectInit PROVE Store!Init
    OBVIOUS
  <2>1. root = Nothing /\ bak = Nothing /\ worker = "ended" /\ deletes = 0
    BY DEF CollectInit
  <2>2. Durable = <<>> /\ worker \notin Deleted
    BY <2>1 DEF Durable, Deleted
  <2> QED BY <2>1, <2>2 DEF Store!Init
<1>2. CollectInv /\ CollectInv' /\ [CollectNext]_collectVars => [Store!Next]_(Store!vars)
  BY StoreStep
<1> QED BY <1>1, <1>2, Collecting, PTL DEF CollectSpec, StoreSpec, Store!Spec
=============================================================================
