---------------------------- MODULE RawDataProofs ----------------------------
(***************************************************************************)
(* Proofs about recorded data sets: the tool that merges data sets, the one *)
(* that converts them, the videos that the editor's server makes for        *)
(* browsers, and the edits of episodes: what the page, the requests on      *)
(* their way and the files beside the episodes hold.  Each has its own      *)
(* inductive invariant; a step of the other program leaves its variables    *)
(* alone.  That of the edits speaks of episodes no two saves of which       *)
(* overlapped, and of an operator who waits for answers; that of the        *)
(* converter of episodes whose edits did not change since their reading     *)
(* began, as the properties do.                                             *)
(***************************************************************************)
EXTENDS RawData, FiniteSetTheorems, FunctionTheorems, TLAPS

-----------------------------------------------------------------------------
(* Sets of numbers in ascending order, and sequences sorted by a key.       *)

\* How many members of a set of numbers there are up to one of them.
Rank(S) == [x \in S |-> Cardinality({y \in S : y <= x})]

\* The rank of a number in a finite set grows with it;
LEMMA RankGrows ==
  ASSUME NEW S \in SUBSET Nat, IsFiniteSet(S), NEW x \in S, NEW y \in S, x < y
  PROVE  Rank(S)[x] < Rank(S)[y]
<1> DEFINE U == {z \in S : z <= x}
           V == {z \in S : z <= y}
<1>1. IsFiniteSet(V)
  BY FS_Subset
<1>2. U \subseteq V /\ y \in V /\ y \notin U
  <2>1. x \in Int /\ y \in Int /\ \A z \in S : z \in Int
    OBVIOUS
  <2>2. \A z \in S : z <= x => z <= y
    BY <2>1
  <2>3. y <= y /\ ~(y <= x)
    BY <2>1
  <2> QED BY <2>2, <2>3
<1>3. IsFiniteSet(U) /\ Cardinality(U) <= Cardinality(V) /\ Cardinality(U) # Cardinality(V)
  BY <1>1, <1>2, FS_Subset
<1>4. Cardinality(U) \in Nat /\ Cardinality(V) \in Nat
  BY <1>1, <1>3, FS_CardinalityType
<1>5. Cardinality(U) < Cardinality(V)
  BY <1>3, <1>4
<1> QED BY <1>5 DEF Rank

\* every rank up to the size of the set is taken;
LEMMA RankOnto ==
  ASSUME NEW S \in SUBSET Nat, IsFiniteSet(S)
  PROVE  /\ Cardinality(S) \in Nat
         /\ Rank(S) \in [S -> 1..Cardinality(S)]
         /\ \A i \in 1..Cardinality(S) : \E x \in S : Rank(S)[x] = i
<1>0. Cardinality(S) \in Nat
  BY FS_CardinalityType
<1>1. ASSUME NEW x \in S PROVE Cardinality({y \in S : y <= x}) \in 1..Cardinality(S)
  <2> DEFINE U == {y \in S : y <= x}
  <2>1. U \subseteq S /\ x \in U
    OBVIOUS
  <2>2. IsFiniteSet(U) /\ Cardinality(U) <= Cardinality(S)
    BY <2>1, FS_Subset
  <2>3. Cardinality(U) \in Nat /\ Cardinality(U) # 0
    BY <2>1, <2>2, FS_CardinalityType, FS_EmptySet
  <2> QED BY <1>0, <2>2, <2>3
<1>2. Rank(S) \in [S -> 1..Cardinality(S)]
  BY <1>1 DEF Rank
<1>3. Rank(S) \in Injection(S, 1..Cardinality(S))
  <2>1. \A x, y \in S : x # y => Rank(S)[x] # Rank(S)[y]
    <3> SUFFICES ASSUME NEW x \in S, NEW y \in S, x # y PROVE Rank(S)[x] # Rank(S)[y]
      OBVIOUS
    <3>1. Rank(S)[x] \in Int /\ Rank(S)[y] \in Int
      BY <1>2
    <3>2. x < y \/ y < x
      OBVIOUS
    <3>3. Rank(S)[x] < Rank(S)[y] \/ Rank(S)[y] < Rank(S)[x]
      BY <3>2, RankGrows
    <3> QED BY <3>1, <3>3
  <2> QED BY <1>2, <2>1 DEF Injection, IsInjective
<1>4. IsFiniteSet(1..Cardinality(S)) /\ Cardinality(1..Cardinality(S)) = Cardinality(S)
  BY <1>0, FS_Interval
<1>5. Rank(S) \in Surjection(S, 1..Cardinality(S))
  BY <1>3, <1>4, FS_Injection
<1> QED BY <1>0, <1>2, <1>5 DEF Surjection

\* and it orders the members as they are.
LEMMA RankOrders ==
  ASSUME NEW S \in SUBSET Nat, IsFiniteSet(S), NEW x \in S, NEW y \in S, Rank(S)[x] < Rank(S)[y]
  PROVE  x < y
<1>1. x \in Int /\ y \in Int /\ Rank(S)[x] \in Int /\ Rank(S)[y] \in Int
  BY RankOnto
<1>2. CASE y < x
  <2>1. Rank(S)[y] < Rank(S)[x]
    BY <1>2, RankGrows
  <2> QED BY <1>1, <2>1
<1>3. CASE x = y
  BY <1>1, <1>3
<1> QED BY <1>1, <1>2, <1>3

\* So the set can be listed in ascending order, every entry below the next.
LEMMA Ascending ==
  ASSUME NEW S \in SUBSET Nat, IsFiniteSet(S)
  PROVE  /\ Cardinality(S) \in Nat
         /\ InOrder(S) \in [1..Cardinality(S) -> S]
         /\ \A i, j \in 1..Cardinality(S) : i < j => InOrder(S)[i] < InOrder(S)[j]
<1> DEFINE g == [i \in 1..Cardinality(S) |-> CHOOSE x \in S : Rank(S)[x] = i]
<1>1. \A i \in 1..Cardinality(S) : g[i] \in S /\ Rank(S)[g[i]] = i
  BY RankOnto
<1>2. ASSUME NEW i \in 1..Cardinality(S), NEW j \in 1..Cardinality(S), i < j PROVE g[i] < g[j]
  <2>1. PICK a \in S : a = g[i] /\ Rank(S)[a] = i
    BY <1>1
  <2>2. PICK b \in S : b = g[j] /\ Rank(S)[b] = j
    BY <1>1
  <2>3. Rank(S)[a] < Rank(S)[b]
    BY <1>2, <2>1, <2>2
  <2>4. a < b
    BY <2>3, RankOrders
  <2> QED BY <2>1, <2>2, <2>4
<1>3. g \in [1..Cardinality(S) -> S] /\ \A i, j \in DOMAIN g : i < j => g[i] < g[j]
  BY <1>1, <1>2
<1> HIDE DEF g
<1>4. /\ InOrder(S) \in [1..Cardinality(S) -> S]
      /\ \A i, j \in DOMAIN InOrder(S) : i < j => InOrder(S)[i] < InOrder(S)[j]
  BY <1>3 DEF InOrder
<1> QED BY <1>4, RankOnto

\* A finite set of numbers that is not empty has a largest member
LEMMA Largest ==
  ASSUME NEW S \in SUBSET Nat, IsFiniteSet(S), S # {}
  PROVE  Max(S) \in S /\ \A x \in S : x <= Max(S)
<1>1. Cardinality(S) \in Nat /\ Cardinality(S) # 0
  BY FS_CardinalityType, FS_EmptySet
<1>2. PICK x \in S : Rank(S)[x] = Cardinality(S)
  BY <1>1, RankOnto
<1>3. ASSUME NEW y \in S PROVE x >= y
  <2>1. Rank(S)[y] \in 1..Cardinality(S)
    BY RankOnto
  <2>2. ~(x < y)
    BY <1>1, <1>2, <2>1, RankGrows
  <2> QED BY <2>2
<1>4. Max(S) \in S /\ \A y \in S : Max(S) >= y
  BY <1>3 DEF Max
<1> QED BY <1>4

\* and a smallest one.
LEMMA Smallest ==
  ASSUME NEW S \in SUBSET Nat, IsFiniteSet(S), S # {}
  PROVE  Min(S) \in S /\ \A x \in S : Min(S) <= x
<1>1. Cardinality(S) \in Nat /\ Cardinality(S) # 0
  BY FS_CardinalityType, FS_EmptySet
<1>2. PICK x \in S : Rank(S)[x] = 1
  BY <1>1, RankOnto
<1>3. ASSUME NEW y \in S PROVE x <= y
  <2>1. Rank(S)[y] \in 1..Cardinality(S)
    BY RankOnto
  <2>2. ~(y < x)
    BY <1>1, <1>2, <2>1, RankGrows
  <2> QED BY <2>2
<1>4. Min(S) \in S /\ \A y \in S : Min(S) <= y
  BY <1>3 DEF Min
<1> QED BY <1>4

\* The positions of a sequence are in an order by any key;
LEMMA PrecedesOrders ==
  ASSUME NEW n \in Nat, NEW key \in [1..n -> Int]
  PROVE  /\ \A i \in 1..n : ~Precedes(key, i, i)
         /\ \A i, j \in 1..n : i = j \/ Precedes(key, i, j) \/ Precedes(key, j, i)
         /\ \A i, j, k \in 1..n : Precedes(key, i, j) /\ Precedes(key, j, k) => Precedes(key, i, k)
BY DEF Precedes

\* so every position has a turn of its own,
TurnOf(key, i) == Cardinality({j \in DOMAIN key : j = i \/ Precedes(key, j, i)})
LEMMA TurnsGrow ==
  ASSUME NEW n \in Nat, NEW key \in [1..n -> Int], NEW x \in 1..n, NEW y \in 1..n, Precedes(key, x, y)
  PROVE  TurnOf(key, x) < TurnOf(key, y)
<1> DEFINE U == {j \in 1..n : j = x \/ Precedes(key, j, x)}
           V == {j \in 1..n : j = y \/ Precedes(key, j, y)}
<1>1. IsFiniteSet(V)
  <2>1. IsFiniteSet(1..n) /\ V \subseteq 1..n
    BY FS_Interval
  <2> QED BY <2>1, FS_Subset
<1>2. U \subseteq V /\ y \in V /\ y \notin U
  BY PrecedesOrders
<1>3. IsFiniteSet(U) /\ Cardinality(U) <= Cardinality(V) /\ Cardinality(U) # Cardinality(V)
  BY <1>1, <1>2, FS_Subset
<1>4. Cardinality(U) \in Nat /\ Cardinality(V) \in Nat
  BY <1>1, <1>3, FS_CardinalityType
<1>5. TurnOf(key, x) = Cardinality(U) /\ TurnOf(key, y) = Cardinality(V)
  BY DEF TurnOf
<1> QED BY <1>3, <1>4, <1>5

\* and the positions can be put in order,
LEMMA ByKeySorts ==
  ASSUME NEW n \in Nat, NEW key \in [1..n -> Int]
  PROVE  /\ ByKey(key) \in [1..n -> 1..n]
         /\ \A i, j \in 1..n : i < j => Precedes(key, ByKey(key)[i], ByKey(key)[j])
<1> DEFINE place == [i \in 1..n |-> TurnOf(key, i)]
<1>1. ASSUME NEW i \in 1..n PROVE TurnOf(key, i) \in 1..n
  <2> DEFINE U == {j \in 1..n : j = i \/ Precedes(key, j, i)}
  <2>1. IsFiniteSet(1..n) /\ Cardinality(1..n) = n
    BY FS_Interval
  <2>2. U \subseteq 1..n /\ i \in U
    OBVIOUS
  <2>3. IsFiniteSet(U) /\ Cardinality(U) <= n
    BY <2>1, <2>2, FS_Subset
  <2>4. Cardinality(U) \in Nat /\ Cardinality(U) # 0
    BY <2>2, <2>3, FS_CardinalityType, FS_EmptySet
  <2>5. TurnOf(key, i) = Cardinality(U)
    BY DEF TurnOf
  <2> QED BY <2>3, <2>4, <2>5
<1>2. place \in Injection(1..n, 1..n)
  <2>1. place \in [1..n -> 1..n]
    BY <1>1
  <2>2. ASSUME NEW i \in 1..n, NEW j \in 1..n, i # j PROVE place[i] # place[j]
    <3>1. place[i] < place[j] \/ place[j] < place[i]
      BY <2>2, PrecedesOrders, TurnsGrow
    <3> QED BY <2>1, <3>1
  <2> QED BY <2>1, <2>2 DEF Injection, IsInjective
<1>3. place \in Surjection(1..n, 1..n)
  BY <1>2, FS_Injection, FS_Interval
<1> DEFINE p == [k \in 1..n |-> CHOOSE i \in 1..n : place[i] = k]
<1>4. \A k \in 1..n : p[k] \in 1..n /\ place[p[k]] = k
  BY <1>3 DEF Surjection
<1> HIDE DEF p
<1>5. ASSUME NEW i \in 1..n, NEW j \in 1..n, i < j PROVE Precedes(key, p[i], p[j])
  <2>1. place[p[i]] = i /\ place[p[j]] = j /\ i # j
    BY <1>4, <1>5
  <2>2. CASE Precedes(key, p[j], p[i])
    <3>1. TurnOf(key, p[j]) < TurnOf(key, p[i])
      BY <1>4, <2>2, TurnsGrow
    <3>2. TurnOf(key, p[j]) = j /\ TurnOf(key, p[i]) = i
      BY <1>4
    <3> QED BY <1>5, <3>1, <3>2
  <2>3. p[i] # p[j]
    BY <2>1
  <2> QED BY <1>4, <2>2, <2>3, PrecedesOrders
<1>6. p \in [1..n -> 1..n]
  BY <1>4 DEF p
<1>7. \A i, j \in DOMAIN p : i < j => Precedes(key, p[i], p[j])
  BY <1>5, <1>6
<1>8. DOMAIN key = 1..n
  OBVIOUS
<1>9. /\ ByKey(key) \in [1..n -> 1..n]
      /\ \A i, j \in DOMAIN ByKey(key) : i < j => Precedes(key, ByKey(key)[i], ByKey(key)[j])
  BY <1>6, <1>7, <1>8 DEF ByKey
<1> QED BY <1>9

\* which leaves them as they are where the key ascends.
LEMMA ByKeyStays ==
  ASSUME NEW n \in Nat, NEW key \in [1..n -> Int], \A i, j \in 1..n : i < j => key[i] <= key[j]
  PROVE  \A i \in 1..n : ByKey(key)[i] = i
<1> DEFINE p == ByKey(key)
           Moved == {i \in 1..n : p[i] # i}
<1>1. p \in [1..n -> 1..n] /\ \A i, j \in 1..n : i < j => Precedes(key, p[i], p[j])
  BY ByKeySorts
<1> HIDE DEF p
<1>2. ASSUME NEW i \in 1..n, NEW j \in 1..n, i < j PROVE p[i] < p[j]
  <2>1. Precedes(key, p[i], p[j]) /\ p[i] \in 1..n /\ p[j] \in 1..n
    BY <1>1, <1>2
  <2>2. PICK a \in 1..n, b \in 1..n : a = p[i] /\ b = p[j]
    BY <2>1
  <2>3. Precedes(key, a, b)
    BY <2>1, <2>2
  <2>4. a < b
    <3>1. key[a] \in Int /\ key[b] \in Int /\ (b < a => key[b] <= key[a])
      OBVIOUS
    <3>2. a # b
      BY <2>3, <3>1 DEF Precedes
    <3> QED BY <2>3, <3>1, <3>2 DEF Precedes
  <2> QED BY <2>2, <2>4
<1>3. p \in Surjection(1..n, 1..n)
  <2>1. \A i, j \in 1..n : i # j => p[i] # p[j]
    <3> SUFFICES ASSUME NEW i \in 1..n, NEW j \in 1..n, i # j PROVE p[i] # p[j]
      OBVIOUS
    <3>1. p[i] < p[j] \/ p[j] < p[i]
      BY <1>2
    <3>2. PICK a \in 1..n, b \in 1..n : a = p[i] /\ b = p[j]
      BY <1>1
    <3> QED BY <3>1, <3>2
  <2>2. p \in Injection(1..n, 1..n)
    BY <1>1, <2>1 DEF Injection, IsInjective
  <2> QED BY <2>2, FS_Injection, FS_Interval
<1>4. Moved = {}
  <2> SUFFICES ASSUME Moved # {} PROVE FALSE
    OBVIOUS
  <2>1. IsFiniteSet(1..n) /\ Moved \in SUBSET (1..n)
    BY FS_Interval
  <2>2. Moved \in SUBSET Nat /\ IsFiniteSet(Moved)
    BY <2>1, FS_Subset
  <2>3. Min(Moved) \in Moved /\ \A i \in Moved : Min(Moved) <= i
    BY <2>2, Smallest
  <2>4. PICK m \in Moved : \A i \in Moved : m <= i
    BY <2>3
  <2>5. m \in 1..n /\ p[m] # m /\ p[m] \in 1..n
    BY <1>1
  <2>6. \A i \in 1..n : i < m => p[i] = i
    BY <2>4
  <2>7. CASE p[m] < m
    <3>1. PICK a \in 1..n : a = p[m]
      BY <2>5
    <3>2. p[a] = a /\ p[a] < p[m]
      BY <1>2, <2>5, <2>6, <2>7, <3>1
    <3> QED BY <3>1, <3>2
  <2>8. CASE m < p[m]
    <3>1. PICK i \in 1..n : p[i] = m
      BY <1>3, <2>5 DEF Surjection
    <3>2. CASE i < m
      BY <2>6, <3>1, <3>2
    <3>3. CASE m < i
      <4>1. p[m] < p[i]
        BY <1>2, <2>5, <3>3
      <4> QED BY <2>5, <2>8, <3>1, <4>1
    <3>4. CASE i = m
      BY <2>5, <3>1, <3>4
    <3> QED BY <2>5, <3>2, <3>3, <3>4
  <2> QED BY <2>5, <2>7, <2>8
<1> QED BY <1>4 DEF p

\* A sorted sequence has the same members, and the key ascends over it;
LEMMA SortedIs ==
  ASSUME NEW S, NEW seq \in Seq(S), NEW key \in [DOMAIN seq -> Int]
  PROVE  /\ SortedBy(seq, key) \in Seq(S) /\ Len(SortedBy(seq, key)) = Len(seq)
         /\ \E p \in [1..Len(seq) -> 1..Len(seq)] :
              /\ SortedBy(seq, key) = [k \in 1..Len(seq) |-> seq[p[k]]]
              /\ \A i, j \in 1..Len(seq) : i < j => key[p[i]] <= key[p[j]]
<1>1. PICK n \in Nat : n = Len(seq) /\ DOMAIN seq = 1..n /\ \A i \in 1..n : seq[i] \in S
  OBVIOUS
<1>2. PICK p \in [1..n -> 1..n] : p = ByKey(key) /\ \A i, j \in 1..n : i < j => Precedes(key, p[i], p[j])
  BY <1>1, ByKeySorts
<1>3. SortedBy(seq, key) = [k \in 1..n |-> seq[p[k]]]
  BY <1>1, <1>2 DEF SortedBy
<1>4. \A i, j \in 1..n : i < j => key[p[i]] <= key[p[j]]
  <2> SUFFICES ASSUME NEW i \in 1..n, NEW j \in 1..n, i < j PROVE key[p[i]] <= key[p[j]]
    OBVIOUS
  <2>1. key[p[i]] \in Int /\ key[p[j]] \in Int /\ Precedes(key, p[i], p[j])
    BY <1>1, <1>2
  <2> QED BY <2>1 DEF Precedes
<1>5. [k \in 1..n |-> seq[p[k]]] \in Seq(S) /\ Len([k \in 1..n |-> seq[p[k]]]) = n
  BY <1>1
<1> QED BY <1>1, <1>3, <1>4, <1>5

\* one over which it ascends already stays as it is.
LEMMA SortedStays ==
  ASSUME NEW S, NEW seq \in Seq(S), NEW key \in [DOMAIN seq -> Int],
         \A i, j \in DOMAIN seq : i < j => key[i] <= key[j]
  PROVE  SortedBy(seq, key) = seq
<1>1. PICK n \in Nat : n = Len(seq) /\ DOMAIN seq = 1..n
  OBVIOUS
<1>2. \A i \in 1..n : ByKey(key)[i] = i
  BY <1>1, ByKeyStays
<1>3. SortedBy(seq, key) = [k \in 1..n |-> seq[k]]
  BY <1>1, <1>2 DEF SortedBy
<1> QED BY <1>1, <1>3

\* The members of a sequence at some positions are in the order they had.
Lists(p, m, P) ==
  /\ p \in [1..m -> P] /\ \A i \in P : \E k \in 1..m : p[k] = i
  /\ \A k, l \in 1..m : k < l => p[k] < p[l]
LEMMA SelectedIs ==
  ASSUME NEW S, NEW seq \in Seq(S), NEW P \in SUBSET (DOMAIN seq)
  PROVE  /\ Selected(seq, P) \in Seq(S)
         /\ \E m \in Nat : \E p : Lists(p, m, P) /\ Selected(seq, P) = [k \in 1..m |-> seq[p[k]]]
<1>1. PICK n \in Nat : n = Len(seq) /\ DOMAIN seq = 1..n /\ \A i \in 1..n : seq[i] \in S
  OBVIOUS
<1>2. IsFiniteSet(1..n)
  BY FS_Interval
<1>3. P \in SUBSET Nat /\ IsFiniteSet(P)
  BY <1>1, <1>2, FS_Subset
<1>4. PICK m \in Nat : m = Cardinality(P)
  BY <1>3, FS_CardinalityType
<1>5. PICK p \in [1..m -> P] : p = InOrder(P) /\ \A k, l \in 1..m : k < l => p[k] < p[l]
  BY <1>3, <1>4, Ascending
<1>6. Selected(seq, P) = [k \in 1..m |-> seq[p[k]]]
  BY <1>4, <1>5 DEF Selected
<1>7. \A i \in P : \E k \in 1..m : p[k] = i
  <2>1. \A k, l \in 1..m : k # l => p[k] # p[l]
    <3> SUFFICES ASSUME NEW k \in 1..m, NEW l \in 1..m, k # l PROVE p[k] # p[l]
      OBVIOUS
    <3>1. p[k] < p[l] \/ p[l] < p[k]
      BY <1>5
    <3>2. p[k] \in Int /\ p[l] \in Int
      BY <1>3
    <3> QED BY <3>1, <3>2
  <2>2. p \in Injection(1..m, P)
    BY <2>1 DEF Injection, IsInjective
  <2>3. Cardinality(1..m) = Cardinality(P)
    BY <1>4, FS_Interval
  <2>4. p \in Surjection(1..m, P)
    BY <1>3, <2>2, <2>3, FS_Injection
  <2> QED BY <2>4 DEF Surjection
<1>8. [k \in 1..m |-> seq[p[k]]] \in Seq(S)
  BY <1>1
<1>9. Lists(p, m, P)
  BY <1>5, <1>7 DEF Lists
<1> QED BY <1>6, <1>8, <1>9

\* A finite set can be listed.
LEMMA Listed ==
  ASSUME NEW S, IsFiniteSet(S)
  PROVE  SetToSeq(S) \in Seq(S)
<1>1. PICK m \in Nat : m = Cardinality(S)
  BY FS_CardinalityType
<1>2. PICK f \in [1..m -> S] : IsInjective(f)
  BY <1>1, FS_CardinalityType DEF ExistsBijection, Bijection, Injection
<1>3. SetToSeq(S) \in [1..m -> S]
  BY <1>1, <1>2 DEF SetToSeq
<1> QED BY <1>3

-----------------------------------------------------------------------------
(* Merging data sets.                                                      *)

\* The plan numbers different episodes in ascending order, below a bound that
\* grows with every run by what one run can need.
PlanInv ==
  /\ stage = "idle" => plans = <<>> /\ entries = <<>> /\ mode = "copy"
  /\ stage \in {"place", "tasks", "consume", "next"} => plans # <<>>
  /\ mode = "move" => moved
  /\ stage = "consume" => mode = "move"
  /\ \A i, j \in DOMAIN plans : i < j => plans[i].episode # plans[j].episode /\ plans[i].number < plans[j].number
  /\ \A i \in DOMAIN plans : plans[i].number < merges * Cardinality(SourceEpisodes)
  /\ \A n \in DOMAIN out : n < merges * Cardinality(SourceEpisodes)

\* The folder in hand is of the episode in hand, and has what the stages before
\* this one put there.
FolderHeld ==
  LET folder == out[Into] IN
  /\ Into \in DOMAIN out /\ folder.of = From
  /\ stage = "place" => "data" \in src[From].files \cup folder.files
  /\ stage # "place" => /\ "data" \in folder.files /\ folder.number = Into
                        /\ Placed \cap src[From].files \subseteq folder.files
  /\ stage \in {"consume", "next"} => "tasks" \in folder.files
\* What is still to do has its data in the source.
WorkInv ==
  /\ \A i \in DOMAIN plans : i > 1 \/ stage = "make" => "data" \in src[plans[i].episode].files
  /\ plans # <<>> /\ stage # "make" => FolderHeld

\* data.hdf5 in the output is never a second name of a source's: to give it the
\* new number leaves the source as it was.
SourceInv ==
  /\ \A e \in SourceEpisodes : src[e].number = Nothing
  /\ ~moved => \A e \in SourceEpisodes : src[e].files = FolderFiles
  /\ \A n \in DOMAIN out : "data" \notin out[n].shared

\* What a list names is in its folder, once, and no folder still to be filled is
\* on a list.
There(list) ==
  \A i \in DOMAIN list :
    LET n == list[i].number IN
    /\ n \in DOMAIN out /\ out[n].of = list[i].of /\ out[n].number = n
    /\ {"data", "tasks"} \subseteq out[n].files
    /\ \A k \in DOMAIN list : list[k].number = n => k = i
Before(list) == \A k \in DOMAIN list, i \in DOMAIN plans : list[k].number < plans[i].number
ListInv == There(entries) /\ Before(entries) /\ (listed # Nothing => There(listed) /\ Before(listed))

MergeInv == MergeTypeOK /\ PlanInv /\ WorkInv /\ SourceInv /\ NothingLost /\ ListInv

InHand == plans # <<>> /\ stage \in {"place", "tasks", "consume", "next"}

\* The first episode of the plan is the one in hand; the others differ and have higher numbers.
LEMMA FirstPlan ==
  ASSUME MergeTypeOK, PlanInv, plans # <<>>
  PROVE  /\ 1 \in DOMAIN plans /\ Plan = plans[1] /\ Into = plans[1].number /\ From = plans[1].episode
         /\ DOMAIN plans \subseteq Nat /\ (\A i \in DOMAIN plans : i >= 1 /\ plans[i] \in [episode : SourceEpisodes, number : Numbers])
         /\ Into \in Numbers /\ From \in SourceEpisodes
         /\ Into < merges * Cardinality(SourceEpisodes)
         /\ \A i \in DOMAIN plans : i > 1 => plans[i].episode # From /\ Into < plans[i].number
<1>1. plans \in Seq([episode : SourceEpisodes, number : Numbers])
  BY DEF MergeTypeOK
<1>2. 1 \in DOMAIN plans /\ Plan = plans[1] /\ DOMAIN plans \subseteq Nat /\ \A i \in DOMAIN plans : i >= 1 /\ plans[i] \in [episode : SourceEpisodes, number : Numbers]
  <2> DEFINE T == [episode : SourceEpisodes, number : Numbers]
  <2>1. plans \in Seq(T)
    BY <1>1
  <2> HIDE DEF T
  <2>2. Len(plans) \in Nat /\ DOMAIN plans = 1..Len(plans) /\ Len(plans) # 0 /\ \A i \in DOMAIN plans : plans[i] \in T
    BY <2>1
  <2>3. Plan = plans[1]
    BY <2>1 DEF Plan
  <2> QED BY <2>2, <2>3 DEF T
<1>3. Into = plans[1].number /\ From = plans[1].episode
  BY <1>2 DEF Into, From
<1>4. Into \in Numbers /\ From \in SourceEpisodes
  BY <1>2, <1>3
<1>5. \A i \in DOMAIN plans : i > 1 => plans[i].episode # From /\ Into < plans[i].number
  BY <1>2, <1>3 DEF PlanInv
<1>6. Into < merges * Cardinality(SourceEpisodes)
  BY <1>2, <1>3 DEF PlanInv
<1> QED BY <1>2, <1>3, <1>4, <1>5, <1>6

\* The entries of a list.
LEMMA EntryTypes ==
  ASSUME NEW list \in Entries
  PROVE  /\ Len(list) \in Nat /\ DOMAIN list = 1..Len(list)
         /\ \A k \in DOMAIN list : list[k].number \in Numbers /\ list[k].of \in SourceEpisodes
<1> DEFINE T == [number : Numbers, of : SourceEpisodes]
<1>1. list \in Seq(T)
  BY DEF Entries
<1> HIDE DEF T
<1>2. Len(list) \in Nat /\ DOMAIN list = 1..Len(list) /\ \A k \in DOMAIN list : list[k] \in T
  BY <1>1
<1> QED BY <1>2 DEF T

\* One step with the folder in hand: nothing but it and its source changes.
Touches ==
  /\ InHand /\ InHand' /\ UNCHANGED <<Run, listed, Ends>>
  /\ DOMAIN out' = DOMAIN out /\ out' \in [DOMAIN out -> Folders]
  /\ \A n \in DOMAIN out : n # Into => out'[n] = out[n]
  /\ out'[Into].of = From /\ "data" \notin out'[Into].shared
  /\ src' \in [SourceEpisodes -> [files : SUBSET FolderFiles, number : Numbers \cup {Nothing}]]
  /\ \A e \in SourceEpisodes : e # From => src'[e] = src[e]
  /\ src'[From].number = Nothing /\ (~moved => src'[From].files = src[From].files)
  /\ \A file \in src[From].files \cup out[Into].files : file \in src'[From].files \cup out'[Into].files
  /\ stage' = "consume" => mode = "move"

\* Whatever a step does to the folder in hand, the rest of the invariant does not notice.
LEMMA Touched ==
  ASSUME MergeInv, Touches, FolderHeld'
  PROVE  MergeInv'
<1> USE DEF Touches, InHand
<1>0. MergeTypeOK /\ PlanInv /\ WorkInv /\ SourceInv /\ NothingLost /\ ListInv
  BY DEF MergeInv
<1>1. /\ plans' = plans /\ mode' = mode /\ entries' = entries /\ listed' = listed
      /\ merges' = merges /\ deaths' = deaths /\ moved' = moved /\ Into' = Into /\ From' = From
  BY DEF Run, Ends, Into, From, Plan
<1>2. /\ From \in SourceEpisodes /\ Into \in DOMAIN out /\ out[Into].of = From
      /\ \A i \in DOMAIN plans : i >= 1 /\ i \in Nat /\ plans[i].episode \in SourceEpisodes /\ plans[i].number \in Numbers
      /\ \A i \in DOMAIN plans : i > 1 => plans[i].episode # From /\ Into < plans[i].number
      /\ 1 \in DOMAIN plans /\ Into = plans[1].number /\ Into \in Numbers
  BY <1>0, FirstPlan DEF WorkInv, FolderHeld
<1>a. MergeTypeOK'
  BY <1>0, <1>1 DEF MergeTypeOK
<1>b. PlanInv'
  BY <1>0, <1>1 DEF PlanInv
<1>c. WorkInv'
  <2>1. \A i \in DOMAIN plans : i > 1 => "data" \in src'[plans[i].episode].files
    BY <1>0, <1>2 DEF WorkInv
  <2>2. (\A i \in DOMAIN plans : i > 1 \/ stage = "make" => "data" \in src[plans[i].episode].files)'
    BY <1>1, <2>1
  <2> QED BY <2>2 DEF WorkInv, FolderHeld
<1>d. SourceInv'
  <2>1. \A e \in SourceEpisodes : src'[e].number = Nothing
    BY <1>0 DEF SourceInv
  <2>2. ~moved => \A e \in SourceEpisodes : src'[e].files = FolderFiles
    BY <1>0 DEF SourceInv
  <2>3. \A n \in DOMAIN out' : "data" \notin out'[n].shared
    BY <1>0 DEF SourceInv
  <2> QED BY <1>1, <2>1, <2>2, <2>3 DEF SourceInv
<1>e. NothingLost'
  <2> SUFFICES ASSUME NEW e \in SourceEpisodes, NEW file \in FolderFiles, file \notin src'[e].files
               PROVE  \E n \in DOMAIN out' : out'[n].of = e /\ file \in out'[n].files
    BY DEF NothingLost
  <2>1. CASE e = From /\ file \in src[From].files \cup out[Into].files
    BY <1>2, <2>1
  <2>2. CASE e # From /\ file \in src[e].files
    BY <2>2
  <2>3. CASE file \notin src[e].files /\ ~(e = From /\ file \in out[Into].files)
    <3>1. PICK n \in DOMAIN out : out[n].of = e /\ file \in out[n].files
      BY <1>0, <2>3 DEF NothingLost
    <3>2. n # Into
      BY <1>2, <2>3, <3>1
    <3> QED BY <3>1, <3>2
  <2> QED BY <2>1, <2>2, <2>3
<1>f. ListInv'
  <2>1. ASSUME NEW list \in Entries, There(list), Before(list)
        PROVE  There(list)' /\ Before(list)'
    <3>1. \A k \in DOMAIN list : list[k].number < Into
      BY <1>2, <2>1 DEF Before
    <3>2. \A k \in DOMAIN list : list[k].number \in Numbers
      BY EntryTypes
    <3>3. \A k \in DOMAIN list : list[k].number # Into
      BY <1>2, <3>1, <3>2 DEF Numbers
    <3>4. There(list)'
      BY <2>1, <3>3 DEF There
    <3> QED BY <1>1, <2>1, <3>4 DEF Before
  <2> QED
    BY <1>0, <1>1, <2>1 DEF ListInv, MergeTypeOK
<1> QED BY <1>a, <1>b, <1>c, <1>d, <1>e, <1>f DEF MergeInv

\* What there is of the folder in hand.
LEMMA InHandFacts ==
  ASSUME MergeInv, InHand
  PROVE  /\ From \in SourceEpisodes /\ Into \in Numbers /\ FolderHeld /\ out[Into] \in Folders
         /\ src[From] \in [files : SUBSET FolderFiles, number : Numbers \cup {Nothing}]
         /\ src[From].number = Nothing /\ "data" \notin out[Into].shared
<1>1. FolderHeld
  BY DEF MergeInv, WorkInv, InHand, FolderHeld
<1>2. From \in SourceEpisodes /\ Into \in Numbers
  BY FirstPlan DEF MergeInv, InHand
<1> QED BY <1>1, <1>2 DEF MergeInv, MergeTypeOK, SourceInv, FolderHeld

\* A file is placed: it is in the source or in the folder, at any time.
LEMMA Places ==
  ASSUME MergeInv, NEW file \in Placed, Place(file)
  PROVE  MergeInv'
<1>0. InHand /\ InHand' /\ stage = "place" /\ stage' = "place" /\ UNCHANGED <<Run, listed, Ends>>
  BY DEF Place, StageTo, InHand, Run
<1>1. /\ plans' = plans /\ mode' = mode /\ moved' = moved /\ Into' = Into /\ From' = From
      /\ Into \in DOMAIN out /\ out[Into].of = From
  BY <1>0, InHandFacts DEF Run, Ends, Into, From, Plan, FolderHeld
<1>2. file \in src[From].files /\ file \in FolderFiles
  BY DEF Place, InTurn, FolderFiles
<1> DEFINE a == out[Into].files \cup {file}
           b == IF mode = "link" /\ file # "data" THEN out[Into].shared \cup {file} ELSE out[Into].shared
           c == IF file = "data" THEN src[From].number ELSE out[Into].number
           g == [Folder EXCEPT !.files = a, !.shared = b, !.number = c]
<1>a. /\ out[Into] \in Folders /\ a \in SUBSET FolderFiles /\ b \in SUBSET Placed /\ c \in Numbers \cup {Nothing}
      /\ "data" \notin b
  BY <1>0, <1>2, InHandFacts DEF Folders
<1>b. g \in Folders /\ g.of = out[Into].of /\ g.files = a /\ g.shared = b
  <2>1. g = [out[Into] EXCEPT !.files = a, !.shared = b, !.number = c]
    BY DEF Folder
  <2> HIDE DEF a, b, c, g
  <2> QED BY <1>a, <2>1 DEF Folders
<1>c. out' = [out EXCEPT ![Into] = g]
  BY DEF Place, Folder
<1> HIDE DEF b, c, g
<1>3. DOMAIN out' = DOMAIN out /\ (\A n \in DOMAIN out : n # Into => out'[n] = out[n]) /\ out'[Into] = g
  BY <1>1, <1>c DEF MergeInv, MergeTypeOK
<1>4. /\ out'[Into] \in Folders /\ out'[Into].of = From /\ out'[Into].files = out[Into].files \cup {file}
      /\ "data" \notin out'[Into].shared
  BY <1>1, <1>3, <1>a, <1>b
<1>5. /\ src' \in [SourceEpisodes -> [files : SUBSET FolderFiles, number : Numbers \cup {Nothing}]]
      /\ \A e \in SourceEpisodes : e # From => src'[e] = src[e]
      /\ src'[From].number = Nothing
      /\ src'[From].files \subseteq src[From].files /\ src[From].files \ {file} \subseteq src'[From].files
      /\ mode # "move" => src' = src
  <2>1. src \in [SourceEpisodes -> [files : SUBSET FolderFiles, number : Numbers \cup {Nothing}]]
    BY DEF MergeInv, MergeTypeOK
  <2>2. CASE mode = "move"
    <3>1. src' = [src EXCEPT ![From].files = @ \ {file}]
      BY <2>2 DEF Place
    <3> QED BY <2>1, <2>2, <3>1, <1>0, InHandFacts
  <2>3. CASE mode # "move"
    <3>1. src' = src
      BY <2>3 DEF Place
    <3> QED BY <2>1, <3>1, <1>0, InHandFacts
  <2> QED BY <2>2, <2>3
<1>6. out' \in [DOMAIN out -> Folders]
  <2>1. out \in [DOMAIN out -> Folders]
    BY DEF MergeInv, MergeTypeOK
  <2>2. out' = [n \in DOMAIN out |-> out'[n]]
    BY DEF Place
  <2>3. \A n \in DOMAIN out : out'[n] \in Folders
    BY <1>3, <1>4, <2>1
  <2> QED BY <2>2, <2>3
<1>7. mode = "move" => moved
  BY DEF MergeInv, PlanInv
<1>8. Touches
  BY <1>0, <1>3, <1>4, <1>5, <1>6, <1>7 DEF Touches
<1>9. FolderHeld'
  BY <1>0, <1>1, <1>3, <1>4, <1>5, InHandFacts DEF FolderHeld
<1> QED BY <1>8, <1>9, Touched

\* The number is written: only once all files are placed.
LEMMA RewritesHdf5 ==
  ASSUME MergeInv, rewrite_hdf5
  PROVE  MergeInv'
<1>0. InHand /\ InHand' /\ stage = "place" /\ stage' = "tasks" /\ UNCHANGED <<Run, listed, Ends>>
  BY DEF rewrite_hdf5, StageTo, InHand, Run
<1>1. /\ plans' = plans /\ mode' = mode /\ moved' = moved /\ Into' = Into /\ From' = From
      /\ Into \in DOMAIN out /\ out[Into].of = From
  BY <1>0, InHandFacts DEF Run, Ends, Into, From, Plan, FolderHeld
<1>2. src' = src /\ src \in [SourceEpisodes -> [files : SUBSET FolderFiles, number : Numbers \cup {Nothing}]]
  BY <1>0, InHandFacts DEF rewrite_hdf5, Folder, MergeInv, MergeTypeOK
<1>3. /\ DOMAIN out' = DOMAIN out /\ \A n \in DOMAIN out : n # Into => out'[n] = out[n]
      /\ out'[Into] = [out[Into] EXCEPT !.number = Into]
  BY <1>1 DEF rewrite_hdf5, Folder, MergeInv, MergeTypeOK
<1>4. /\ out'[Into] \in Folders /\ out'[Into].of = From /\ out'[Into].files = out[Into].files
      /\ "data" \notin out'[Into].shared /\ out'[Into].number = Into
  BY <1>1, <1>3, InHandFacts, <1>0 DEF Folders
<1>6. out' \in [DOMAIN out -> Folders]
  <2>1. out \in [DOMAIN out -> Folders]
    BY DEF MergeInv, MergeTypeOK
  <2>2. out' = [n \in DOMAIN out |-> out'[n]]
    BY DEF rewrite_hdf5
  <2>3. \A n \in DOMAIN out : out'[n] \in Folders
    BY <1>3, <1>4, <2>1
  <2> QED BY <2>2, <2>3
<1>7. src[From].number = Nothing
  BY <1>0, InHandFacts
<1>8. Touches
  BY <1>0, <1>2, <1>3, <1>4, <1>6, <1>7 DEF Touches
<1>9. FolderHeld'
  <2>1. Placed \cap src[From].files \subseteq out[Into].files
    BY DEF rewrite_hdf5, Folder
  <2>2. "data" \in src[From].files \cup out[Into].files
    BY <1>0, InHandFacts DEF FolderHeld
  <2>3. "data" \in out[Into].files
    BY <2>1, <2>2 DEF Placed
  <2> QED BY <1>0, <1>1, <1>2, <1>3, <1>4, <2>1, <2>3 DEF FolderHeld
<1> QED BY <1>8, <1>9, Touched

\* tasks.json is written.
LEMMA RewritesTasks ==
  ASSUME MergeInv, rewrite_tasks
  PROVE  MergeInv'
<1>0. InHand /\ InHand' /\ stage = "tasks" /\ stage' = (IF mode = "move" THEN "consume" ELSE "next") /\ UNCHANGED <<Run, listed, Ends>>
  BY DEF rewrite_tasks, StageTo, InHand, Run
<1>1. /\ plans' = plans /\ mode' = mode /\ moved' = moved /\ Into' = Into /\ From' = From
      /\ Into \in DOMAIN out /\ out[Into].of = From
  BY <1>0, InHandFacts DEF Run, Ends, Into, From, Plan, FolderHeld
<1>2. src' = src /\ src \in [SourceEpisodes -> [files : SUBSET FolderFiles, number : Numbers \cup {Nothing}]]
  BY DEF rewrite_tasks, MergeInv, MergeTypeOK
<1> DEFINE a == out[Into].files \cup {"tasks"}
           t == IF From \in Unreadable \/ "tasks" \notin src[From].files THEN "minimal" ELSE "full"
           g == [Folder EXCEPT !.files = a, !.tasks = t]
<1>a. out[Into] \in Folders /\ a \in SUBSET FolderFiles /\ t \in {"full", "minimal"} /\ "data" \notin out[Into].shared
  BY <1>0, InHandFacts DEF Folders, FolderFiles
<1>b. g \in Folders /\ g.of = out[Into].of /\ g.files = a /\ g.shared = out[Into].shared /\ g.number = out[Into].number
  <2>1. g = [out[Into] EXCEPT !.files = a, !.tasks = t]
    BY DEF Folder
  <2> HIDE DEF a, t, g
  <2> QED BY <1>a, <2>1 DEF Folders
<1>c. out' = [out EXCEPT ![Into] = g]
  BY DEF rewrite_tasks, Folder
<1> HIDE DEF t, g
<1>3. DOMAIN out' = DOMAIN out /\ (\A n \in DOMAIN out : n # Into => out'[n] = out[n]) /\ out'[Into] = g
  BY <1>1, <1>c DEF MergeInv, MergeTypeOK
<1>4. /\ out'[Into] \in Folders /\ out'[Into].of = From /\ out'[Into].files = out[Into].files \cup {"tasks"}
      /\ "data" \notin out'[Into].shared /\ out'[Into].number = out[Into].number
  BY <1>1, <1>3, <1>a, <1>b
<1>6. out' \in [DOMAIN out -> Folders]
  <2>1. out \in [DOMAIN out -> Folders]
    BY DEF MergeInv, MergeTypeOK
  <2>2. out' = [n \in DOMAIN out |-> out'[n]]
    BY DEF rewrite_tasks
  <2>3. \A n \in DOMAIN out : out'[n] \in Folders
    BY <1>3, <1>4, <2>1
  <2> QED BY <2>2, <2>3
<1>7. src[From].number = Nothing
  BY <1>0, InHandFacts
<1>8. Touches
  BY <1>0, <1>2, <1>3, <1>4, <1>6, <1>7 DEF Touches
<1>9. FolderHeld'
  BY <1>0, <1>1, <1>2, <1>3, <1>4, InHandFacts DEF FolderHeld
<1> QED BY <1>8, <1>9, Touched

\* The source folder is removed: all it had is in the folder in hand.
LEMMA Consumes ==
  ASSUME MergeInv, Consume
  PROVE  MergeInv'
<1>0. InHand /\ InHand' /\ stage = "consume" /\ stage' = "next" /\ UNCHANGED <<Run, listed, Ends>>
  BY DEF Consume, StageTo, InHand, Run
<1>1. /\ plans' = plans /\ mode' = mode /\ moved' = moved /\ Into' = Into /\ From' = From
      /\ Into \in DOMAIN out /\ out[Into].of = From /\ mode = "move" /\ moved
  BY <1>0, InHandFacts DEF Run, Ends, Into, From, Plan, FolderHeld, MergeInv, PlanInv
<1>2. out' = out /\ out \in [DOMAIN out -> Folders] /\ From \in SourceEpisodes
  BY <1>0, InHandFacts DEF Consume, MergeInv, MergeTypeOK
<1>3. src' = [src EXCEPT ![From].files = {}]
  BY DEF Consume
<1>4. src \in [SourceEpisodes -> [files : SUBSET FolderFiles, number : Numbers \cup {Nothing}]] /\ src[From].number = Nothing
  BY <1>0, InHandFacts DEF MergeInv, MergeTypeOK
<1>5. /\ src' \in [SourceEpisodes -> [files : SUBSET FolderFiles, number : Numbers \cup {Nothing}]]
      /\ \A e \in SourceEpisodes : e # From => src'[e] = src[e]
      /\ src'[From].number = Nothing /\ src'[From].files = {}
  BY <1>2, <1>3, <1>4
<1>6. src[From].files \subseteq out[Into].files
  BY <1>0, InHandFacts DEF FolderHeld, Placed, FolderFiles
<1>7. "data" \notin out[Into].shared
  BY <1>0, InHandFacts
<1>8. Touches
  BY <1>0, <1>1, <1>2, <1>5, <1>6, <1>7 DEF Touches
<1>9. FolderHeld'
  BY <1>0, <1>1, <1>2, <1>5, InHandFacts DEF FolderHeld
<1> QED BY <1>8, <1>9, Touched

\* The run ends: whole, on a folder that is in its way, or in the middle.
LEMMA RunEnds ==
  ASSUME MergeInv, MergeIdle, UNCHANGED <<src, out, merges, moved>>, deaths' \in 0..MaxDeaths,
         listed' \in {listed, entries}
  PROVE  MergeInv'
<1>0. MergeTypeOK /\ PlanInv /\ WorkInv /\ SourceInv /\ NothingLost /\ ListInv
  BY DEF MergeInv
<1>1. stage' = "idle" /\ plans' = <<>> /\ entries' = <<>> /\ mode' = "copy" /\ DOMAIN plans' = {} /\ DOMAIN entries' = {}
  BY DEF MergeIdle
<1>a. MergeTypeOK'
  <2>1. plans' \in Seq([episode : SourceEpisodes, number : Numbers])
    BY <1>1
  <2>2. entries' \in Entries
    BY <1>1 DEF Entries
  <2>3. mode' \in {"copy", "link", "move"} /\ stage' \in {"idle", "make", "place", "tasks", "consume", "next"}
    BY <1>1
  <2> QED BY <1>0, <2>1, <2>2, <2>3 DEF MergeTypeOK
<1>b. PlanInv'
  BY <1>0, <1>1 DEF PlanInv
<1>c. WorkInv'
  BY <1>1 DEF WorkInv
<1>d. SourceInv' /\ NothingLost'
  BY <1>0 DEF SourceInv, NothingLost
<1>f. ListInv'
  <2>1. There(entries)' /\ Before(entries)'
    BY <1>1 DEF There, Before
  <2>2. listed' # Nothing => There(listed)'
    <3>1. CASE listed' = listed
      <4>1. ASSUME listed # Nothing PROVE There(listed)'
        <5>1. There(listed)
          BY <1>0, <4>1 DEF ListInv
        <5> QED BY <3>1, <5>1 DEF There
      <4> QED BY <3>1, <4>1
    <3>2. CASE listed' = entries
      <4>1. There(entries)
        BY <1>0 DEF ListInv
      <4> QED BY <3>2, <4>1 DEF There
    <3> QED BY <3>1, <3>2
  <2>3. Before(listed)'
    BY <1>1 DEF Before
  <2> QED BY <2>1, <2>2, <2>3 DEF ListInv
<1> QED BY <1>a, <1>b, <1>c, <1>d, <1>f DEF MergeInv

\* A folder is made, or one is in the way and the run ends.
LEMMA MakesFolder ==
  ASSUME MergeInv, MakeFolder
  PROVE  MergeInv'
<1>0. MergeTypeOK /\ PlanInv /\ WorkInv /\ SourceInv /\ NothingLost /\ ListInv
  BY DEF MergeInv
<1>1. CASE Into \in DOMAIN out
  <2>1. MergeIdle /\ UNCHANGED <<src, out, merges, moved, listed, deaths>>
    BY <1>1 DEF MakeFolder, Ends
  <2>2. deaths' \in 0..MaxDeaths
    BY <1>0, <2>1 DEF MergeTypeOK
  <2> QED BY <2>1, <2>2, RunEnds
<1>2. CASE Into \notin DOMAIN out
  <2> DEFINE new == [of |-> From, files |-> {}, shared |-> {}, number |-> Nothing, tasks |-> Nothing]
  <2>1. /\ stage = "make" /\ stage' = "place" /\ plans # <<>> /\ plans' = plans /\ mode' = mode /\ entries' = entries
        /\ listed' = listed /\ merges' = merges /\ deaths' = deaths /\ moved' = moved /\ src' = src
        /\ out' = With(Into, new)
    BY <1>2 DEF MakeFolder, Run, Ends
  <2>2. Into' = Into /\ From' = From
    BY <2>1 DEF Into, From, Plan
  <2>3. /\ 1 \in DOMAIN plans /\ Into = plans[1].number /\ From = plans[1].episode /\ Into \in Numbers /\ From \in SourceEpisodes
        /\ Into < merges * Cardinality(SourceEpisodes)
    BY <1>0, <2>1, FirstPlan
  <2>4. /\ DOMAIN out' = DOMAIN out \cup {Into} /\ out'[Into] = new
        /\ \A n \in DOMAIN out : n # Into /\ out'[n] = out[n]
    BY <1>2, <2>1 DEF With
  <2>5. new \in Folders /\ new.of = From /\ new.shared = {} /\ new.files = {}
    BY <2>3 DEF Folders
  <2>6. out' = [n \in DOMAIN out' |-> out'[n]]
    BY <2>1, <2>4 DEF With
  <2> HIDE DEF new
  <2>a. MergeTypeOK'
    <3>1. \A n \in DOMAIN out' : out'[n] \in Folders
      BY <1>0, <2>4, <2>5 DEF MergeTypeOK
    <3>2. DOMAIN out' \subseteq Numbers
      BY <1>0, <2>3, <2>4 DEF MergeTypeOK
    <3>3. out' \in [DOMAIN out' -> Folders]
      BY <2>6, <3>1
    <3> QED BY <1>0, <2>1, <3>2, <3>3 DEF MergeTypeOK
  <2>b. PlanInv'
    <3>1. \A n \in DOMAIN out' : n < merges * Cardinality(SourceEpisodes)
      BY <1>0, <2>3, <2>4 DEF PlanInv
    <3> QED BY <1>0, <2>1, <3>1 DEF PlanInv
  <2>c. WorkInv'
    <3>1. "data" \in src[From].files
      BY <1>0, <2>1, <2>3 DEF WorkInv
    <3>2. \A i \in DOMAIN plans : "data" \in src[plans[i].episode].files
      BY <1>0, <2>1 DEF WorkInv
    <3> QED BY <2>1, <2>2, <2>4, <2>5, <3>1, <3>2 DEF WorkInv, FolderHeld
  <2>d. SourceInv'
    BY <1>0, <2>1, <2>4, <2>5 DEF SourceInv
  <2>e. NothingLost'
    <3> SUFFICES ASSUME NEW e \in SourceEpisodes, NEW file \in FolderFiles, file \notin src[e].files
                 PROVE  \E n \in DOMAIN out' : out'[n].of = e /\ file \in out'[n].files
      BY <2>1 DEF NothingLost
    <3>1. PICK n \in DOMAIN out : out[n].of = e /\ file \in out[n].files
      BY <1>0 DEF NothingLost
    <3> QED BY <2>4, <3>1
  <2>f. ListInv'
    <3>1. ASSUME NEW list, There(list), Before(list) PROVE There(list)' /\ Before(list)'
      <4>1. There(list)'
        BY <2>4, <3>1 DEF There
      <4> QED BY <2>1, <3>1, <4>1 DEF Before
    <3> QED BY <1>0, <2>1, <3>1 DEF ListInv
  <2> QED BY <2>a, <2>b, <2>c, <2>d, <2>e, <2>f DEF MergeInv
<1> QED BY <1>1, <1>2

\* The episode is put on the list: its number is above all that are on it.
LEMMA NextEpisodes ==
  ASSUME MergeInv, NextEpisode
  PROVE  MergeInv'
<1>0. MergeTypeOK /\ PlanInv /\ WorkInv /\ SourceInv /\ NothingLost /\ ListInv
  BY DEF MergeInv
<1>1. /\ stage = "next" /\ stage' = "make" /\ plans # <<>> /\ mode' = mode
      /\ listed' = listed /\ merges' = merges /\ deaths' = deaths /\ moved' = moved /\ src' = src /\ out' = out
      /\ plans' = Tail(plans) /\ entries' = Append(entries, [number |-> Into, of |-> From])
  BY DEF NextEpisode, StageTo, Ends
<1>2. /\ Into \in Numbers /\ From \in SourceEpisodes /\ 1 \in DOMAIN plans /\ Into = plans[1].number
      /\ \A i \in DOMAIN plans : i > 1 => plans[i].episode # From /\ Into < plans[i].number
  BY <1>0, <1>1, FirstPlan
<1>3. FolderHeld
  BY <1>1, InHandFacts DEF InHand
<1>4. /\ Len(plans) \in Nat /\ Len(plans) > 0 /\ DOMAIN plans = 1..Len(plans) /\ DOMAIN plans' = 1..(Len(plans) - 1)
      /\ plans' \in Seq([episode : SourceEpisodes, number : Numbers])
      /\ \A i \in DOMAIN plans' : i + 1 \in DOMAIN plans /\ i + 1 > 1 /\ plans'[i] = plans[i + 1]
  <2> DEFINE T == [episode : SourceEpisodes, number : Numbers]
  <2>1. plans \in Seq(T)
    BY <1>0 DEF MergeTypeOK
  <2> HIDE DEF T
  <2>2. Len(plans) \in Nat /\ DOMAIN plans = 1..Len(plans) /\ Len(plans) > 0
    BY <1>1, <2>1
  <2>3. plans' \in Seq(T) /\ Len(plans') = Len(plans) - 1 /\ DOMAIN plans' = 1..Len(plans')
    BY <1>1, <2>1
  <2>4. \A i \in 1..(Len(plans) - 1) : plans'[i] = plans[i + 1]
    BY <1>1, <2>1
  <2>5. \A i \in 1..(Len(plans) - 1) : i + 1 \in 1..Len(plans) /\ i + 1 > 1
    BY <2>2
  <2> QED BY <2>2, <2>3, <2>4, <2>5 DEF T
<1>5. /\ Len(entries) \in Nat /\ DOMAIN entries = 1..Len(entries) /\ DOMAIN entries' = 1..(Len(entries) + 1)
      /\ entries' \in Entries /\ (\A i \in DOMAIN entries : i # Len(entries) + 1 /\ entries'[i] = entries[i])
      /\ entries'[Len(entries) + 1] = [number |-> Into, of |-> From]
  <2> DEFINE T == [number : Numbers, of : SourceEpisodes]
             r == [number |-> Into, of |-> From]
  <2>1. entries \in Seq(T) /\ r \in T /\ entries' = Append(entries, r)
    BY <1>0, <1>1, <1>2 DEF MergeTypeOK, Entries
  <2>a. Entries = Seq(T)
    BY DEF Entries
  <2> HIDE DEF T, r
  <2>2. Len(entries) \in Nat /\ DOMAIN entries = 1..Len(entries)
    BY <2>1
  <2>3. entries' \in Seq(T) /\ Len(entries') = Len(entries) + 1 /\ DOMAIN entries' = 1..Len(entries')
    BY <2>1
  <2>4. \A i \in 1..Len(entries) : i # Len(entries) + 1 /\ entries'[i] = entries[i]
    BY <2>1, <2>2
  <2>5. entries'[Len(entries) + 1] = r
    BY <2>1, <2>2
  <2> QED BY <2>a, <2>2, <2>3, <2>4, <2>5 DEF r
<1>a. MergeTypeOK'
  <2>1. stage' \in {"idle", "make", "place", "tasks", "consume", "next"}
    BY <1>1
  <2> QED BY <1>0, <1>1, <1>4, <1>5, <2>1 DEF MergeTypeOK
<1>b. PlanInv'
  <2>1. \A i, j \in DOMAIN plans' : i < j => plans'[i].episode # plans'[j].episode /\ plans'[i].number < plans'[j].number
    <3> SUFFICES ASSUME NEW i \in DOMAIN plans', NEW j \in DOMAIN plans', i < j
                 PROVE  plans'[i].episode # plans'[j].episode /\ plans'[i].number < plans'[j].number
      OBVIOUS
    <3>1. i + 1 \in DOMAIN plans /\ j + 1 \in DOMAIN plans /\ i + 1 < j + 1
      BY <1>4
    <3>2. plans[i + 1].episode # plans[j + 1].episode /\ plans[i + 1].number < plans[j + 1].number
      BY <1>0, <3>1 DEF PlanInv
    <3> QED BY <1>4, <3>2
  <2>2. \A i \in DOMAIN plans' : plans'[i].number < merges * Cardinality(SourceEpisodes)
    BY <1>0, <1>4 DEF PlanInv
  <2> QED BY <1>0, <1>1, <2>1, <2>2 DEF PlanInv
<1>c. WorkInv'
  <2>1. \A i \in DOMAIN plans' : "data" \in src[plans'[i].episode].files
    BY <1>0, <1>4 DEF WorkInv
  <2> QED BY <1>1, <2>1 DEF WorkInv
<1>d. SourceInv' /\ NothingLost'
  BY <1>0, <1>1 DEF SourceInv, NothingLost
<1>f. ListInv'
  <2>0. ASSUME NEW list \in Entries, Before(list)
        PROVE  \A k \in DOMAIN list, i \in DOMAIN plans' : list[k].number < plans'[i].number
    BY <1>4, <2>0 DEF Before
  <2>1. \A k \in DOMAIN entries : entries[k].number \in Numbers /\ entries[k].number < Into /\ entries[k].number # Into
    <3>1. \A k \in DOMAIN entries : entries[k].number \in Numbers
      BY <1>0, EntryTypes DEF MergeTypeOK
    <3>2. \A k \in DOMAIN entries : entries[k].number < Into
      BY <1>0, <1>2 DEF ListInv, Before
    <3> QED BY <1>2, <3>1, <3>2 DEF Numbers
  <2>2. Before(entries)'
    <3>1. \A k \in DOMAIN entries, i \in DOMAIN plans' : entries[k].number < plans'[i].number
      BY <1>0, <2>0 DEF ListInv, MergeTypeOK
    <3>2. \A i \in DOMAIN plans' : Into < plans'[i].number
      BY <1>2, <1>4
    <3>3. \A k \in DOMAIN entries' : k \in DOMAIN entries \/ k = Len(entries) + 1
      BY <1>5
    <3>4. \A k \in DOMAIN entries', i \in DOMAIN plans' : entries'[k].number < plans'[i].number
      BY <1>5, <3>1, <3>2, <3>3
    <3> QED BY <3>4 DEF Before
  <2>3. There(entries)'
    <3>1. Into \in DOMAIN out /\ out[Into].of = From /\ out[Into].number = Into /\ {"data", "tasks"} \subseteq out[Into].files
      BY <1>1, <1>3 DEF FolderHeld
    <3> DEFINE last == Len(entries) + 1
    <3>2. \A k \in DOMAIN entries' : k \in DOMAIN entries \/ k = last
      BY <1>5
    <3>3. entries'[last].number = Into /\ entries'[last].of = From
      BY <1>5
    <3>4. \A i \in DOMAIN entries : entries'[i] = entries[i] /\ i # last /\ entries[i].number # Into
      BY <1>5, <2>1
    <3>5. There(entries)
      BY <1>0 DEF ListInv
    <3> HIDE DEF last
    <3> SUFFICES ASSUME NEW i \in DOMAIN entries'
                 PROVE  LET n == entries'[i].number IN
                        /\ n \in DOMAIN out' /\ out'[n].of = entries'[i].of /\ out'[n].number = n
                        /\ {"data", "tasks"} \subseteq out'[n].files
                        /\ \A k \in DOMAIN entries' : entries'[k].number = n => k = i
      BY DEF There
    <3>6. CASE i = last
      BY <1>1, <3>1, <3>2, <3>3, <3>4, <3>6
    <3>7. CASE i \in DOMAIN entries
      <4>1. LET n == entries[i].number IN
            /\ n \in DOMAIN out /\ out[n].of = entries[i].of /\ out[n].number = n
            /\ {"data", "tasks"} \subseteq out[n].files
            /\ \A k \in DOMAIN entries : entries[k].number = n => k = i
        BY <3>5, <3>7 DEF There
      <4> QED BY <1>1, <3>2, <3>3, <3>4, <3>7, <4>1
    <3> QED BY <3>2, <3>6, <3>7
  <2>4. listed' # Nothing => There(listed)' /\ Before(listed)'
    <3>1. ASSUME listed # Nothing PROVE There(listed)' /\ Before(listed)'
      <4>1. listed \in Entries /\ There(listed) /\ Before(listed)
        BY <1>0, <3>1 DEF ListInv, MergeTypeOK
      <4>2. \A k \in DOMAIN listed, i \in DOMAIN plans' : listed[k].number < plans'[i].number
        BY <2>0, <4>1
      <4> QED BY <1>1, <4>1, <4>2 DEF There, Before
    <3> QED BY <1>1, <3>1
  <2> QED BY <2>2, <2>3, <2>4 DEF ListInv
<1> QED BY <1>a, <1>b, <1>c, <1>d, <1>f DEF MergeInv

\* The list is written,
LEMMA WritesList ==
  ASSUME MergeInv, WriteList
  PROVE  MergeInv'
<1>1. MergeIdle /\ UNCHANGED <<src, out, merges, moved, deaths>> /\ listed' = entries
  BY DEF WriteList, Ends
<1>2. deaths' \in 0..MaxDeaths
  BY <1>1 DEF MergeInv, MergeTypeOK
<1> QED BY <1>1, <1>2, RunEnds

\* and a run may die at any stage.
LEMMA Dies ==
  ASSUME MergeInv, Die
  PROVE  MergeInv'
<1>1. MergeIdle /\ UNCHANGED <<src, out, merges, moved, listed>> /\ deaths < MaxDeaths /\ deaths' = deaths + 1
  BY DEF Die
<1>2. deaths' \in 0..MaxDeaths
  <2>1. MaxDeaths \in Nat /\ deaths \in 0..MaxDeaths
    BY MergesAssumption DEF MergesAssumption, MergeInv, MergeTypeOK
  <2> QED BY <1>1, <2>1
<1> QED BY <1>1, <1>2, RunEnds

\* One run more has room for one number more of every episode.
LEMMA Room ==
  ASSUME NEW c \in Nat, NEW top \in Nat, NEW m \in 0..top, m < top
  PROVE  m * c \in Nat /\ (m + 1) * c = m * c + c /\ (m + 1) * c <= top * c
<1>1. m * c \in Nat /\ (m + 1) * c = m * c + c
  OBVIOUS
<1>2. PICK d \in Nat : top = (m + 1) + d
  <2>1. top - (m + 1) \in Nat /\ top = (m + 1) + (top - (m + 1))
    OBVIOUS
  <2> QED BY <2>1
<1>3. top * c = (m + 1) * c + d * c /\ d * c \in Nat
  BY <1>2
<1> QED BY <1>1, <1>3

\* A run begins: its numbers start above every folder that has data.
LEMMA Begins ==
  ASSUME MergeInv, NEW m \in {"copy", "link", "move"}, Begin(m)
  PROVE  MergeInv'
<1> DEFINE C == Cardinality(SourceEpisodes)
           eps == InOrder(Scanned(src))
           size == Cardinality(Scanned(src))
           first == IF Scanned(out) = {} THEN 0 ELSE Max(Scanned(out)) + 1
<1>0. MergeTypeOK /\ PlanInv /\ WorkInv /\ SourceInv /\ NothingLost /\ ListInv
  BY DEF MergeInv
<1>1. /\ stage = "idle" /\ merges < MaxMerges /\ merges' = merges + 1 /\ mode' = m /\ stage' = "make"
      /\ entries' = IF listed = Nothing THEN <<>> ELSE listed
      /\ moved' = (moved \/ m = "move") /\ src' = src /\ out' = out /\ listed' = listed /\ deaths' = deaths
  BY DEF Begin
<1>2. plans' = [i \in DOMAIN eps |-> [episode |-> eps[i], number |-> first + i - 1]]
  BY DEF Begin
<1>3. /\ Scanned(src) \subseteq SourceEpisodes /\ Scanned(src) \subseteq Nat /\ IsFiniteSet(Scanned(src))
      /\ C \in Nat /\ size \in Nat /\ size <= C
  <2>1. Scanned(src) \subseteq SourceEpisodes
    BY <1>0 DEF Scanned, MergeTypeOK
  <2> QED BY <2>1, MergesAssumption, FS_Subset, FS_CardinalityType DEF MergesAssumption
<1>4. eps \in [1..size -> Scanned(src)] /\ \A i, j \in 1..size : i < j => eps[i] < eps[j]
  BY <1>3, Ascending
<1>5. MaxMerges \in Nat /\ merges \in 0..MaxMerges
  BY <1>0, MergesAssumption DEF MergesAssumption, MergeTypeOK
<1>6. merges * C \in Nat /\ merges' * C = merges * C + C /\ merges' * C <= MaxMerges * C /\ MaxMerges * C \in Nat
  <2>1. merges * C \in Nat /\ (merges + 1) * C = merges * C + C /\ (merges + 1) * C <= MaxMerges * C
    BY <1>1, <1>3, <1>5, Room
  <2>2. MaxMerges * C \in Nat
    BY <1>3, <1>5
  <2> QED BY <1>1, <2>1, <2>2
<1>7. /\ first \in Nat /\ first <= merges * C
      /\ \A n \in Scanned(out) : n \in Nat /\ n < first
  <2>1. Scanned(out) \subseteq DOMAIN out /\ DOMAIN out \subseteq Numbers
    BY <1>0 DEF Scanned, MergeTypeOK
  <2>2. Numbers \subseteq Nat /\ IsFiniteSet(Numbers)
    <3>1. IsFiniteSet(0..(MaxMerges * C)) /\ 0..(MaxMerges * C) \subseteq Nat
      BY <1>6, FS_Interval
    <3> QED BY <3>1 DEF Numbers
  <2>3. Scanned(out) \in SUBSET Nat /\ IsFiniteSet(Scanned(out))
    BY <2>1, <2>2, FS_Subset
  <2>4. CASE Scanned(out) = {}
    BY <1>6, <2>4
  <2>5. CASE Scanned(out) # {}
    <3>1. Max(Scanned(out)) \in Scanned(out) /\ \A x \in Scanned(out) : x <= Max(Scanned(out))
      BY <2>3, <2>5, Largest
    <3>2. Max(Scanned(out)) < merges * C
      BY <1>0, <2>1, <3>1 DEF PlanInv
    <3>3. first = Max(Scanned(out)) + 1 /\ Max(Scanned(out)) \in Nat
      BY <2>3, <2>5, <3>1
    <3> HIDE DEF first
    <3> QED BY <1>6, <2>3, <3>1, <3>2, <3>3
  <2> QED BY <2>4, <2>5
<1> HIDE DEF C, eps, size, first
<1>8. /\ DOMAIN plans' = 1..size
      /\ \A i \in 1..size : /\ plans'[i] = [episode |-> eps[i], number |-> first + i - 1] /\ eps[i] \in Scanned(src)
                            /\ i \in Nat /\ i >= 1 /\ i <= C
  BY <1>2, <1>3, <1>4
<1>9. \A i \in 1..size : /\ plans'[i].episode = eps[i] /\ plans'[i].number = first + i - 1
                         /\ first + i - 1 \in Nat /\ first <= first + i - 1 /\ first + i - 1 < merges' * C
  BY <1>6, <1>7, <1>8, <1>3
<1>10. Numbers = 0..(MaxMerges * C)
  BY DEF Numbers, C
<1>a. MergeTypeOK'
  <2> DEFINE T == [episode : SourceEpisodes, number : Numbers]
  <2>1. \A i \in 1..size : plans'[i] \in T
    <3> SUFFICES ASSUME NEW i \in 1..size PROVE plans'[i] \in T
      OBVIOUS
    <3>1. first + i - 1 \in Numbers
      <4>1. first + i - 1 \in Nat /\ first + i - 1 < merges' * C
        BY <1>9
      <4>2. merges' * C \in Nat /\ merges' * C <= MaxMerges * C
        BY <1>3, <1>6
      <4> QED BY <1>6, <1>10, <4>1, <4>2
    <3>2. eps[i] \in SourceEpisodes
      BY <1>3, <1>8
    <3> QED BY <1>8, <3>1, <3>2
  <2> HIDE DEF T
  <2>2. plans' = [i \in 1..size |-> plans'[i]]
    BY <1>2, <1>8
  <2>3. plans' \in Seq(T)
    BY <1>3, <2>1, <2>2
  <2>4. entries' \in Entries
    BY <1>0, <1>1 DEF MergeTypeOK, Entries
  <2>5. merges' \in 0..MaxMerges
    BY <1>1, <1>5
  <2>6. stage' \in {"idle", "make", "place", "tasks", "consume", "next"}
    BY <1>1
  <2>7. moved' \in BOOLEAN
    BY <1>0, <1>1 DEF MergeTypeOK
  <2> QED BY <1>0, <1>1, <2>3, <2>4, <2>5, <2>6, <2>7 DEF MergeTypeOK, T
<1>b. PlanInv'
  <2>1. \A i, j \in DOMAIN plans' : i < j => plans'[i].episode # plans'[j].episode /\ plans'[i].number < plans'[j].number
    <3> SUFFICES ASSUME NEW i \in 1..size, NEW j \in 1..size, i < j
                 PROVE  plans'[i].episode # plans'[j].episode /\ plans'[i].number < plans'[j].number
      BY <1>8
    <3>1. eps[i] < eps[j] /\ eps[i] \in Nat /\ eps[j] \in Nat
      BY <1>3, <1>4, <1>8
    <3>2. first + i - 1 < first + j - 1
      BY <1>7, <1>8
    <3> QED BY <1>9, <3>1, <3>2
  <2>2. \A i \in DOMAIN plans' : plans'[i].number < merges' * Cardinality(SourceEpisodes)
    BY <1>8, <1>9 DEF C
  <2>3. \A n \in DOMAIN out' : n < merges' * Cardinality(SourceEpisodes)
    <3>1. \A n \in DOMAIN out : n \in Int /\ n < merges * C
      BY <1>0, <1>10 DEF PlanInv, MergeTypeOK, C
    <3>2. \A n \in DOMAIN out : n < merges' * C
      BY <1>3, <1>6, <3>1
    <3> QED BY <1>1, <3>2 DEF C
  <2>4. mode' = "move" => moved'
    BY <1>1
  <2> QED BY <1>1, <2>1, <2>2, <2>3, <2>4 DEF PlanInv
<1>c. WorkInv'
  <2>1. \A i \in DOMAIN plans' : "data" \in src'[plans'[i].episode].files
    BY <1>1, <1>8, <1>9 DEF Scanned
  <2> QED BY <1>1, <2>1 DEF WorkInv
<1>d. SourceInv' /\ NothingLost'
  BY <1>0, <1>1 DEF SourceInv, NothingLost
<1>f. ListInv'
  <2>1. ASSUME listed # Nothing PROVE There(listed)' /\ Before(listed)'
    <3>1. There(listed)
      BY <1>0, <2>1 DEF ListInv
    <3>2. \A k \in DOMAIN listed : listed[k].number \in Scanned(out)
      BY <3>1 DEF There, Scanned
    <3>3. \A k \in DOMAIN listed, i \in DOMAIN plans' : listed[k].number < plans'[i].number
      <4> SUFFICES ASSUME NEW k \in DOMAIN listed, NEW i \in 1..size
                   PROVE  listed[k].number < plans'[i].number
        BY <1>8
      <4>1. listed[k].number \in Nat /\ listed[k].number < first
        BY <1>7, <3>2
      <4>2. first \in Nat /\ plans'[i].number \in Nat /\ first <= plans'[i].number
        BY <1>7, <1>9
      <4> QED BY <4>1, <4>2
    <3> QED BY <1>1, <3>1, <3>3 DEF There, Before
  <2>2. There(entries)' /\ Before(entries)'
    <3>1. CASE listed = Nothing
      <4>1. entries' = <<>> /\ DOMAIN entries' = {}
        BY <1>1, <3>1
      <4> QED BY <4>1 DEF There, Before
    <3>2. CASE listed # Nothing
      <4>1. entries' = listed /\ listed' = listed
        BY <1>1, <3>2
      <4> QED BY <2>1, <3>2, <4>1 DEF There, Before
    <3> QED BY <3>1, <3>2
  <2> QED BY <1>1, <2>1, <2>2 DEF ListInv
<1> QED BY <1>a, <1>b, <1>c, <1>d, <1>f DEF MergeInv

\* The invariant holds at the start,
LEMMA MergeStarts == MergeInit => MergeInv
<1> SUFFICES ASSUME MergeInit PROVE MergeInv
  OBVIOUS
<1> USE DEF MergeInit
<1>1. DOMAIN plans = {} /\ DOMAIN out = {} /\ DOMAIN entries = {} /\ listed = Nothing
  OBVIOUS
<1>2. MergeTypeOK
  <2>1. src \in [SourceEpisodes -> [files : SUBSET FolderFiles, number : Numbers \cup {Nothing}]]
    OBVIOUS
  <2>2. 0 \in 0..MaxMerges /\ 0 \in 0..MaxDeaths
    BY MergesAssumption DEF MergesAssumption
  <2>3. plans \in Seq([episode : SourceEpisodes, number : Numbers]) /\ entries \in Entries
    BY DEF Entries
  <2>4. out \in [DOMAIN out -> Folders]
    <3>1. out = [n \in {} |-> 0]
      OBVIOUS
    <3> QED BY <1>1, <3>1
  <2> QED BY <1>1, <2>1, <2>2, <2>3, <2>4 DEF MergeTypeOK
<1>3. PlanInv /\ WorkInv
  BY <1>1 DEF PlanInv, WorkInv
<1>4. SourceInv /\ NothingLost
  BY <1>1 DEF SourceInv, NothingLost
<1>5. ListInv
  BY <1>1 DEF ListInv, There, Before
<1> QED BY <1>2, <1>3, <1>4, <1>5 DEF MergeInv

\* as long as nothing of the merge changes,
LEMMA MergeStops == MergeInv /\ UNCHANGED mergeVars => MergeInv'
<1> SUFFICES ASSUME MergeInv, UNCHANGED mergeVars PROVE MergeInv'
  OBVIOUS
<1> USE DEF mergeVars
<1>1. MergeTypeOK'
  BY DEF MergeInv, MergeTypeOK
<1>2. PlanInv' /\ WorkInv'
  BY DEF MergeInv, PlanInv, WorkInv, FolderHeld, Into, From, Plan
<1>3. SourceInv' /\ NothingLost'
  BY DEF MergeInv, SourceInv, NothingLost
<1>4. ListInv'
  BY DEF MergeInv, ListInv, There, Before
<1> QED BY <1>1, <1>2, <1>3, <1>4 DEF MergeInv

\* and after each of its steps.
LEMMA MergeSteps == MergeInv /\ MergeNext => MergeInv'
BY Begins, MakesFolder, Places, RewritesHdf5, RewritesTasks, Consumes, NextEpisodes, WritesList, Dies DEF MergeNext

\* What the editor and the converter do changes nothing of the merge.
LEMMA MergeActions == RawNext => MergeNext \/ UNCHANGED mergeVars
BY DEF RawNext, ToolsNext, allVars

\* Whatever is merged, in which mode, how often and wherever a run dies: every file
\* of a recording is in the source or in the output, sources that are not moved
\* from stay as they were, and an episode on the list is there under its number
\* (merge_raw_episode.py:130-200, :330-400).
THEOREM MergesKept == RawSpec => []MergesKeep
<1>1. RawInit => MergeInv
  BY MergeStarts DEF RawInit, ToolsInit
<1>2. MergeInv /\ [RawNext]_rawVars => MergeInv'
  <2>1. [RawNext]_rawVars => MergeNext \/ UNCHANGED mergeVars
    BY MergeActions DEF rawVars, allVars
  <2> QED BY <2>1, MergeSteps, MergeStops
<1>3. MergeInv => MergesKeep
  BY DEF MergeInv, MergesKeep, SourceInv, SourcesUntouched, ListInv, There, ListedIsThere
<1> QED BY <1>1, <1>2, <1>3, PTL DEF RawSpec

-----------------------------------------------------------------------------
(* Converting a data set: what the editor's server lets through.            *)

\* What a page sends: numbers anywhere, prompts it knows.
Loose == [start : Int, end : Int, label : Labels \cup {NoLabel}]
\* Segments in the order of their starts.
Ascends(segs) == \A i, j \in DOMAIN segs : i < j => segs[i].start <= segs[j].start

\* Sorting segments by their starts keeps what they are and puts them in order.
LEMMA ByStartIs ==
  ASSUME NEW S \in SUBSET Loose, NEW segs \in Seq(S)
  PROVE  ByStart(segs) \in Seq(S) /\ Ascends(ByStart(segs))
<1> DEFINE ends == [i \in DOMAIN segs |-> segs[i].end]
           byEnd == SortedBy(segs, ends)
           starts == [i \in DOMAIN segs |-> byEnd[i].start]
<1>1. \A i \in DOMAIN segs : segs[i].end \in Int
  BY DEF Loose
<1>2. ends \in [DOMAIN segs -> Int]
  BY <1>1
<1>3. byEnd \in Seq(S) /\ Len(byEnd) = Len(segs)
  BY <1>2, SortedIs
<1> HIDE DEF byEnd
<1>4. DOMAIN byEnd = DOMAIN segs /\ \A i \in DOMAIN byEnd : byEnd[i] \in Loose
  BY <1>3
<1>5. starts \in [DOMAIN byEnd -> Int]
  BY <1>4 DEF Loose
<1>6. ByStart(segs) = SortedBy(byEnd, starts)
  BY DEF ByStart, byEnd
<1> HIDE DEF starts
<1>7. PICK n \in Nat : n = Len(byEnd) /\ DOMAIN byEnd = 1..n
  BY <1>3
<1>8. PICK p \in [1..n -> 1..n] :
        /\ SortedBy(byEnd, starts) = [k \in 1..n |-> byEnd[p[k]]]
        /\ \A i, j \in 1..n : i < j => starts[p[i]] <= starts[p[j]]
  <2>1. \E p \in [1..Len(byEnd) -> 1..Len(byEnd)] :
          /\ SortedBy(byEnd, starts) = [k \in 1..Len(byEnd) |-> byEnd[p[k]]]
          /\ \A i, j \in 1..Len(byEnd) : i < j => starts[p[i]] <= starts[p[j]]
    BY <1>3, <1>5, SortedIs
  <2> QED BY <1>7, <2>1
<1>9. \A i \in 1..n : starts[i] = byEnd[i].start
  BY <1>4, <1>7 DEF starts
<1>10. Ascends(ByStart(segs))
  <2> DEFINE sorted == [k \in 1..n |-> byEnd[p[k]]]
  <2>1. \A i, j \in DOMAIN sorted : i < j => sorted[i].start <= sorted[j].start
    BY <1>8, <1>9
  <2>2. ByStart(segs) = sorted
    BY <1>6, <1>8
  <2> HIDE DEF sorted
  <2> QED BY <2>1, <2>2 DEF Ascends
<1>11. ByStart(segs) \in Seq(S)
  BY <1>3, <1>5, <1>6, SortedIs
<1> QED BY <1>10, <1>11

\* What is clipped to a range is in it.
LEMMA Clips ==
  ASSUME NEW x \in Int, NEW n \in Nat
  PROVE  Clip(x, 0, n) \in 0..n
BY DEF Clip, Lower, Upper

\* What is stored is in range and in order, whatever was sent;
LEMMA SanitizedSegments ==
  ASSUME NEW segs \in Seq(Loose), NEW n \in 0..Frames
  PROVE  _sanitize_segments(segs, n) \in Seq(Segments) /\ Ascends(_sanitize_segments(segs, n))
<1> DEFINE Clipped(s) == Segment(Clip(s.start, 0, n), Clip(s.end, 0, n), s.label)
           clipped == [i \in DOMAIN segs |-> Clipped(segs[i])]
           P == {i \in DOMAIN clipped : clipped[i].end > clipped[i].start}
<1>0. Frames \in Nat /\ n \in Nat /\ n <= Frames
  BY FramesAssumption
<1>1. ASSUME NEW s \in Loose PROVE Clipped(s) \in Segments
  <2>1. s.start \in Int /\ s.end \in Int /\ s.label \in Labels \cup {NoLabel}
    BY DEF Loose
  <2>2. Clip(s.start, 0, n) \in 0..n /\ Clip(s.end, 0, n) \in 0..n
    BY <1>0, <2>1, Clips
  <2>3. 0..n \subseteq 0..Frames
    BY <1>0
  <2> QED BY <2>1, <2>2, <2>3 DEF Segment, Segments
<1>2. clipped \in Seq(Segments)
  <2>1. \A i \in DOMAIN segs : Clipped(segs[i]) \in Segments
    BY <1>1
  <2>2. PICK m \in Nat : DOMAIN segs = 1..m
    OBVIOUS
  <2> HIDE DEF Clipped
  <2>3. clipped \in [1..m -> Segments]
    BY <2>1, <2>2
  <2> QED BY <2>3
<1> HIDE DEF clipped
<1>3. Selected(clipped, P) \in Seq(Segments)
  BY <1>2, SelectedIs
<1>4. Segments \in SUBSET Loose
  BY <1>0 DEF Segments, Loose
<1>5. _sanitize_segments(segs, n) = ByStart(Selected(clipped, P))
  BY DEF _sanitize_segments, clipped
<1> QED BY <1>3, <1>4, <1>5, ByStartIs

\* A range that was let through is in range, and its end is not before its start.
LEMMA SanitizedTrim ==
  ASSUME NEW trim, trim.start \in Int, trim.end \in Int, NEW n \in 0..Frames
  PROVE  /\ _sanitize_trim(trim, n) \in Ranges
         /\ _sanitize_trim(trim, n).start <= _sanitize_trim(trim, n).end
<1>0. Frames \in Nat /\ n \in Nat /\ n <= Frames
  BY FramesAssumption
<1>1. PICK a \in 0..n : a = Clip(trim.start, 0, n)
  BY <1>0, Clips
<1>2. PICK b \in Int : b = (IF trim.end = 0 THEN n ELSE trim.end)
  BY <1>0
<1>3. Lower(b, n) \in Int /\ Lower(b, n) <= n
  BY <1>0 DEF Lower
<1>4. PICK c \in 0..n : c = Upper(a, Lower(b, n)) /\ a <= c
  BY <1>0, <1>3 DEF Upper
<1>5. _sanitize_trim(trim, n) = [start |-> a, end |-> c]
  BY <1>1, <1>2, <1>4 DEF _sanitize_trim, Span
<1>6. a \in 0..Frames /\ c \in 0..Frames
  BY <1>0
<1> QED BY <1>4, <1>5, <1>6 DEF Ranges

\* What the server proposes is in range as well.
LEMMA MovingSpanIs ==
  ASSUME NEW moving \in [0..Frames-1 -> BOOLEAN]
  PROVE  \E first \in 0..Frames, last \in 0..Frames : MovingSpan(moving, 0, Frames) = Span(first, last)
<1>0. Frames \in Nat /\ 0 \in 0..Frames /\ Frames \in 0..Frames
  BY FramesAssumption
<1>1. CASE \A i \in 0..Frames-1 : ~moving[i]
  BY <1>0, <1>1 DEF MovingSpan
<1>2. CASE ~(\A i \in 0..Frames-1 : ~moving[i])
  <2> DEFINE still == {i \in 0..Frames-1 : moving[i]}
  <2>1. still # {}
    BY <1>2
  <2>2. still \in SUBSET Nat /\ IsFiniteSet(still)
    <3>1. IsFiniteSet(0..Frames-1) /\ still \in SUBSET (0..Frames-1)
      BY <1>0, FS_Interval
    <3> QED BY <1>0, <3>1, FS_Subset
  <2>3. PICK a \in 0..Frames-1 : a = Min(still)
    BY <2>1, <2>2, Smallest
  <2>4. PICK b \in 0..Frames-1 : b = Max(still)
    BY <2>1, <2>2, Largest
  <2>5. PICK first \in 0..Frames : first = Upper(0, a - 0)
    BY <1>0 DEF Upper
  <2>6. PICK last \in 0..Frames : last = Lower(Frames, b + 0 + 1)
    BY <1>0 DEF Lower
  <2>7. MovingSpan(moving, 0, Frames) = Span(first, last)
    BY <1>2, <2>3, <2>4, <2>5, <2>6 DEF MovingSpan
  <2> QED BY <2>7
<1> QED BY <1>1, <1>2

\* and so are its segments;
LEMMA SuggestionsTyped ==
  ASSUME NEW closed \in [0..Frames-1 -> BOOLEAN], NEW moving \in [0..Frames-1 -> BOOLEAN], NEW label \in Labels
  PROVE  LET proposal == suggest_segments(closed, moving, Frames, 1, 1, 0, 1, label) IN
         /\ proposal.rejected \in BOOLEAN /\ proposal.trim.start \in Int /\ proposal.trim.end \in Int
         /\ proposal.segs \in Seq(Loose)
<1> DEFINE span == MovingSpan(moving, 0, Frames)
           cuts == {Cut(closed, i, 1, 1, Frames) : i \in Edges(closed)}
           bounds == {span.start, span.end} \cup {t \in cuts : span.start < t /\ t < span.end}
           Following(b) == Min({c \in bounds : c > b})
           starts == {b \in bounds : b < span.end /\ Following(b) - b >= 1}
           cutOut == [b \in starts |-> Segment(b, Following(b), label)]
           found == {Segment(b, Following(b), label) : b \in starts}
<1>0. Frames \in Nat /\ Frames >= 1
  BY FramesAssumption
<1>1. span.start \in 0..Frames /\ span.end \in 0..Frames
  BY MovingSpanIs DEF Span
<1> HIDE DEF span
<1>2. cuts \in SUBSET (0..Frames)
  <2> SUFFICES ASSUME NEW i \in Edges(closed) PROVE Cut(closed, i, 1, 1, Frames) \in 0..Frames
    OBVIOUS
  <2>1. i \in Int
    BY DEF Edges
  <2>2. PICK x \in Int : x = (IF closed[i] THEN i - 1 ELSE i + 1)
    BY <2>1
  <2>3. Clip(x, 0, Frames - 1) \in 0..Frames-1
    <3>1. Frames - 1 \in Nat
      BY <1>0
    <3> QED BY <3>1, Clips
  <2> QED BY <1>0, <2>2, <2>3 DEF Cut
<1> HIDE DEF cuts
<1>3. bounds \in SUBSET (0..Frames) /\ span.end \in bounds
  BY <1>1, <1>2
<1> HIDE DEF bounds
<1>4. IsFiniteSet(0..Frames) /\ 0..Frames \subseteq Nat
  BY <1>0, FS_Interval
<1>5. ASSUME NEW b \in starts PROVE b \in Int /\ Following(b) \in Int
  <2> DEFINE later == {c \in bounds : c > b}
  <2>1. later \in SUBSET Nat /\ IsFiniteSet(later)
    BY <1>3, <1>4, FS_Subset
  <2>2. later # {}
    BY <1>3
  <2>3. Min(later) \in Nat
    BY <2>1, <2>2, Smallest
  <2> QED BY <1>3, <2>3
<1>6. IsFiniteSet(starts)
  BY <1>3, <1>4, FS_Subset
<1>7. found \in SUBSET Loose
  <2> SUFFICES ASSUME NEW b \in starts PROVE Segment(b, Following(b), label) \in Loose
    OBVIOUS
  <2>1. PICK x \in Int, y \in Int : x = b /\ y = Following(b)
    BY <1>5
  <2>2. Segment(x, y, label) \in Loose
    BY DEF Segment, Loose
  <2> QED BY <2>1, <2>2
<1> HIDE DEF starts, Following
<1>8. cutOut \in Surjection(starts, found)
  BY DEF Surjection
<1>9. IsFiniteSet(found)
  BY <1>6, <1>8, FS_Surjection
<1>10. SetToSeq(found) \in Seq(Loose)
  <2>1. SetToSeq(found) \in Seq(found)
    BY <1>9, Listed
  <2> QED BY <1>7, <2>1
<1> HIDE DEF found
<1>11. ByStart(SetToSeq(found)) \in Seq(Loose)
  BY <1>10, ByStartIs
<1>12. suggest_segments(closed, moving, Frames, 1, 1, 0, 1, label) =
         [rejected |-> FALSE, trim |-> span, segs |-> ByStart(SetToSeq(found))]
  BY DEF suggest_segments, span, cuts, bounds, Following, starts, found
<1>13. PICK trim, segs : /\ trim = span /\ trim.start \in Int /\ trim.end \in Int
                         /\ segs = ByStart(SetToSeq(found)) /\ segs \in Seq(Loose)
  BY <1>0, <1>1, <1>11
<1> HIDE DEF found
<1>14. suggest_segments(closed, moving, Frames, 1, 1, 0, 1, label) = [rejected |-> FALSE, trim |-> trim, segs |-> segs]
  BY <1>12, <1>13
<1>15. PICK proposal : proposal = suggest_segments(closed, moving, Frames, 1, 1, 0, 1, label)
  OBVIOUS
<1>16. proposal.rejected = FALSE /\ proposal.trim = trim /\ proposal.segs = segs
  BY <1>14, <1>15
<1> QED BY <1>13, <1>15, <1>16

\* hence all that a page may send has numbers and known prompts.
LEMMA ProposalsTyped ==
  ASSUME NEW payload \in Proposals
  PROVE  /\ payload.rejected \in BOOLEAN /\ payload.trim.start \in Int /\ payload.trim.end \in Int
         /\ payload.segs \in Seq(Loose)
<1>1. CASE payload \in Forms
  BY <1>1, FormsAssumption DEF Loose
<1>2. CASE payload \in Suggestions
  <2>1. PICK closed \in [0..Frames-1 -> BOOLEAN], moving \in [0..Frames-1 -> BOOLEAN], label \in Labels :
          payload = suggest_segments(closed, moving, Frames, 1, 1, 0, 1, label)
    BY <1>2 DEF Suggestions
  <2> QED BY <2>1, SuggestionsTyped
<1> QED BY <1>1, <1>2 DEF Proposals

StoredEdits == [rejected : BOOLEAN, trim : Ranges, segs : Seq(Segments)]
\* So an edit that is stored has its values, and its ranges and segments are in order.
LEMMA SanitizedIs ==
  ASSUME NEW n \in DOMAIN out, NEW payload \in Proposals
  PROVE  LET edit == Sanitized(n, payload) IN
         edit \in StoredEdits /\ edit.trim.start <= edit.trim.end /\ Ascends(edit.segs)
<1>0. Known(n) \in 0..Frames
  BY FramesAssumption DEF Known
<1>1. PICK k \in 0..Frames : k = Known(n)
  BY <1>0
<1>2. payload.rejected \in BOOLEAN
  BY ProposalsTyped
<1>3. PICK trim \in Ranges : trim = _sanitize_trim(payload.trim, k) /\ trim.start <= trim.end
  BY SanitizedTrim, ProposalsTyped
<1>4. PICK segs \in Seq(Segments) : segs = _sanitize_segments(payload.segs, k) /\ Ascends(segs)
  BY SanitizedSegments, ProposalsTyped
<1>5. Sanitized(n, payload) = [rejected |-> payload.rejected, trim |-> trim, segs |-> segs]
  BY <1>1, <1>3, <1>4 DEF Sanitized
<1> QED BY <1>2, <1>3, <1>4, <1>5 DEF StoredEdits

-----------------------------------------------------------------------------
(* What the converter makes of an episode's segments.                      *)

\* A segment within the window, counted from its start, and whether it stays.
Cropped(s, win) == Segment(Upper(s.start, win.start) - win.start, Lower(s.end, win.end) - win.start, s.label)
Remains(s, win) == s.label # NoLabel /\ Cropped(s, win).end > Cropped(s, win).start
Prompted == [start : 0..Frames, end : 0..Frames, label : Labels \ {NoLabel}]

\* Their numbers are frames.
LEMMA InRange ==
  /\ \A s \in Segments : s.start \in Nat /\ s.end \in Nat /\ s.label \in Labels \cup {NoLabel}
  /\ \A s \in Prompted : s.start \in Nat /\ s.end \in Nat /\ s.label \in Labels /\ s.label # NoLabel
  /\ \A win \in Ranges : win.start \in Nat /\ win.end \in Nat /\ win.start <= Frames /\ win.end <= Frames
BY FramesAssumption DEF Segments, Prompted, Ranges

\* What the window makes of a segment.
LEMMA CroppedIs ==
  ASSUME NEW s \in Segments, NEW win \in Ranges
  PROVE  /\ Cropped(s, win) \in [start : 0..Frames, end : Int, label : Labels \cup {NoLabel}]
         /\ Cropped(s, win).start = (IF s.start > win.start THEN s.start - win.start ELSE 0)
         /\ Cropped(s, win).end = (IF s.end < win.end THEN s.end - win.start ELSE win.end - win.start)
         /\ Cropped(s, win).label = s.label
         /\ Remains(s, win) => Cropped(s, win) \in Prompted
<1>1. PICK a \in 0..Frames, b \in 0..Frames, l \in Labels \cup {NoLabel} : s = [start |-> a, end |-> b, label |-> l]
  BY DEF Segments
<1>2. PICK c \in 0..Frames, d \in 0..Frames : win = [start |-> c, end |-> d]
  BY DEF Ranges
<1>3. PICK x \in 0..Frames : x = Upper(a, c) - c /\ x = (IF a > c THEN a - c ELSE 0)
  BY FramesAssumption DEF Upper
<1>4. PICK y \in Int : y = Lower(b, d) - c /\ y <= Frames /\ y = (IF b < d THEN b - c ELSE d - c)
  BY FramesAssumption DEF Lower
<1>5. Cropped(s, win) = [start |-> x, end |-> y, label |-> l]
  BY <1>1, <1>2, <1>3, <1>4 DEF Cropped, Segment
<1>6. ASSUME Remains(s, win) PROVE y \in 0..Frames /\ l \in Labels \ {NoLabel}
  <2>1. y > x /\ l # NoLabel
    BY <1>1, <1>5, <1>6 DEF Remains
  <2> QED BY <1>4, <2>1, FramesAssumption
<1> QED BY <1>1, <1>2, <1>3, <1>4, <1>5, <1>6 DEF Prompted

\* The segments that stay, cropped, in the order they are stored in.
Taken(segs, win, m, p) ==
  /\ p \in [1..m -> DOMAIN segs]
  /\ \A k, l \in 1..m : k < l => p[k] < p[l]
  /\ \A k \in 1..m : Remains(segs[p[k]], win)
  /\ \A i \in DOMAIN segs : Remains(segs[i], win) => \E k \in 1..m : p[k] = i
\* The segments the converter takes are those that stay, in their order.
LEMMA SegmentsTaken ==
  ASSUME NEW edit, edit.segs \in Seq(Segments), Ascends(edit.segs), NEW win \in Ranges
  PROVE  /\ episode_segments(edit, win) \in Seq(Prompted)
         /\ \E m \in Nat : \E p : /\ Taken(edit.segs, win, m, p)
                                  /\ episode_segments(edit, win) = [k \in 1..m |-> Cropped(edit.segs[p[k]], win)]
<1>1. PICK segs \in Seq(Segments) : segs = edit.segs /\ Ascends(segs)
  OBVIOUS
<1>2. PICK n \in Nat : DOMAIN segs = 1..n /\ \A i \in 1..n : segs[i] \in Segments
  BY <1>1
<1> DEFINE Cuts == [start : 0..Frames, end : Int, label : Labels \cup {NoLabel}]
           inside == [i \in DOMAIN segs |-> Cropped(segs[i], win)]
           P == {i \in DOMAIN inside : inside[i].label # NoLabel /\ inside[i].end > inside[i].start}
           kept == Selected(inside, P)
           starts == [i \in DOMAIN kept |-> kept[i].start]
<1>3. inside \in Seq(Cuts) /\ DOMAIN inside = 1..n /\ \A i \in 1..n : inside[i] = Cropped(segs[i], win)
  <2>1. inside \in [1..n -> Cuts]
    BY <1>2, CroppedIs
  <2> QED BY <1>2, <2>1
<1>4. P = {i \in 1..n : Remains(segs[i], win)}
  <2>1. \A i \in 1..n : Cropped(segs[i], win).label = segs[i].label
    BY <1>2, CroppedIs
  <2> QED BY <1>2, <2>1 DEF Remains
<1>5. episode_segments(edit, win) = SortedBy(kept, starts)
  BY <1>1 DEF episode_segments, Cropped
<1> HIDE DEF inside, P, Cuts
<1>6. P \in SUBSET (DOMAIN inside)
  BY <1>3, <1>4
<1>7. PICK m \in Nat : \E p : Lists(p, m, P) /\ kept = [k \in 1..m |-> inside[p[k]]]
  BY <1>3, <1>6, SelectedIs, SMTT(30)
<1>7a. PICK p : Lists(p, m, P) /\ kept = [k \in 1..m |-> inside[p[k]]]
  BY <1>7
<1>8. /\ p \in [1..m -> P] /\ \A i \in P : \E k \in 1..m : p[k] = i
      /\ \A k, l \in 1..m : k < l => p[k] < p[l]
  BY <1>7a DEF Lists
<1>9. kept = [k \in 1..m |-> Cropped(segs[p[k]], win)]
  <2>1. \A k \in 1..m : inside[p[k]] = Cropped(segs[p[k]], win)
    BY <1>3, <1>4, <1>8
  <2> QED BY <1>7a, <2>1
<1> HIDE DEF kept
<1>10. Taken(segs, win, m, p)
  BY <1>2, <1>4, <1>8 DEF Taken
<1>11. kept \in Seq(Prompted)
  <2>1. \A k \in 1..m : Cropped(segs[p[k]], win) \in Prompted
    BY <1>2, <1>4, <1>8, CroppedIs
  <2> QED BY <1>9, <2>1
<1>12. SortedBy(kept, starts) = kept
  <2>0. DOMAIN kept = 1..m /\ \A k \in 1..m : kept[k] \in Prompted
    BY <1>9, <1>11
  <2>1. \A k \in 1..m : /\ kept[k].start = Cropped(segs[p[k]], win).start /\ kept[k].start \in Int
                        /\ starts[k] = kept[k].start /\ p[k] \in 1..n
    BY <1>3, <1>6, <1>8, <1>9, <2>0, InRange
  <2>2. starts \in [DOMAIN kept -> Int] /\ DOMAIN kept = 1..m
    BY <1>9, <2>1
  <2>3. ASSUME NEW k \in 1..m, NEW l \in 1..m, k < l PROVE starts[k] <= starts[l]
    <3>1. PICK i \in 1..n, j \in 1..n : i = p[k] /\ j = p[l] /\ i < j
      BY <1>8, <2>1, <2>3
    <3>2. segs[i].start <= segs[j].start
      BY <1>1, <1>2, <3>1 DEF Ascends
    <3>3. segs[i].start \in Int /\ segs[j].start \in Int /\ win.start \in Int
      BY <1>2, InRange
    <3>4. /\ Cropped(segs[i], win).start = (IF segs[i].start > win.start THEN segs[i].start - win.start ELSE 0)
          /\ Cropped(segs[j], win).start = (IF segs[j].start > win.start THEN segs[j].start - win.start ELSE 0)
      BY <1>2, CroppedIs
    <3>5. Cropped(segs[i], win).start <= Cropped(segs[j], win).start
      BY <3>2, <3>3, <3>4
    <3> QED BY <2>1, <3>1, <3>5
  <2> HIDE DEF starts
  <2> QED BY <1>11, <2>2, <2>3, SortedStays
<1>13. episode_segments(edit, win) = kept
  BY <1>5, <1>12
<1> QED BY <1>1, <1>9, <1>10, <1>11, <1>13

\* The segments over a frame, and the prompt of the last of them.
OverFrame(segs, frame) ==
  {j \in DOMAIN segs : segs[j].label # NoLabel /\ segs[j].start <= frame /\ frame < segs[j].end}
NameAt(segs, frame) == IF OverFrame(segs, frame) = {} THEN NoLabel ELSE segs[Max(OverFrame(segs, frame))].label

\* There is a last one if there is one.
LEMMA LastOver ==
  ASSUME NEW S, NEW segs \in Seq(S), NEW frame, OverFrame(segs, frame) # {}
  PROVE  /\ Max(OverFrame(segs, frame)) \in OverFrame(segs, frame)
         /\ \A j \in OverFrame(segs, frame) : j <= Max(OverFrame(segs, frame))
<1>1. PICK n \in Nat : DOMAIN segs = 1..n
  OBVIOUS
<1>2. IsFiniteSet(1..n) /\ OverFrame(segs, frame) \in SUBSET (1..n)
  BY <1>1, FS_Interval DEF OverFrame
<1>3. OverFrame(segs, frame) \in SUBSET Nat /\ IsFiniteSet(OverFrame(segs, frame))
  BY <1>2, FS_Subset
<1> QED BY <1>3, Largest

\* Within the window, what stays of the segments names every frame as they do.
LEMMA NamesStay ==
  ASSUME NEW edit, edit.segs \in Seq(Segments), Ascends(edit.segs), NEW win \in Ranges,
         NEW i \in Nat, i < win.end - win.start
  PROVE  NameAt(episode_segments(edit, win), i) = NameAt(edit.segs, win.start + i)
<1>1. PICK segs \in Seq(Segments) : segs = edit.segs
  OBVIOUS
<1>2. PICK notes \in Seq(Prompted) : notes = episode_segments(edit, win)
  BY SegmentsTaken
<1>3. PICK m \in Nat : \E p : Taken(segs, win, m, p) /\ notes = [k \in 1..m |-> Cropped(segs[p[k]], win)]
  BY <1>1, <1>2, SegmentsTaken
<1>3a. PICK p : Taken(segs, win, m, p) /\ notes = [k \in 1..m |-> Cropped(segs[p[k]], win)]
  BY <1>3
<1>4. PICK a \in Nat, b \in Nat : a = win.start /\ b = win.end /\ i < b - a
  BY InRange
<1> DEFINE frame == a + i
           A == OverFrame(notes, i)
           B == OverFrame(segs, frame)
<1>5. PICK n \in Nat : DOMAIN segs = 1..n /\ \A j \in 1..n : segs[j] \in Segments
  OBVIOUS
<1>6. /\ p \in [1..m -> 1..n]
      /\ \A k, l \in 1..m : k < l => p[k] < p[l]
      /\ \A k \in 1..m : Remains(segs[p[k]], win)
      /\ \A j \in 1..n : Remains(segs[j], win) => \E k \in 1..m : p[k] = j
  BY <1>3a, <1>5 DEF Taken
<1>7. ASSUME NEW s \in Segments
      PROVE  (Cropped(s, win).start <= i /\ i < Cropped(s, win).end) <=> (s.start <= frame /\ frame < s.end)
  <2>1. PICK c \in Nat, d \in Nat : c = s.start /\ d = s.end
    BY InRange
  <2>2. /\ Cropped(s, win).start = (IF c > a THEN c - a ELSE 0)
        /\ Cropped(s, win).end = (IF d < b THEN d - a ELSE b - a)
    BY <1>4, <2>1, CroppedIs
  <2>3. PICK x \in Int, y \in Int : /\ x = Cropped(s, win).start /\ x = (IF c > a THEN c - a ELSE 0)
                                   /\ y = Cropped(s, win).end /\ y = (IF d < b THEN d - a ELSE b - a)
    BY <1>4, <2>2
  <2>4. x <= i <=> c <= a + i
    BY <2>3
  <2>5. i < y <=> a + i < d
    <3>1. CASE d < b
      <4>1. y = d - a
        BY <2>3, <3>1
      <4> QED BY <4>1
    <3>2. CASE ~(d < b)
      <4>1. y = b - a
        BY <2>3, <3>2
      <4> QED BY <1>4, <3>2, <4>1
    <3> QED BY <3>1, <3>2
  <2> QED BY <2>1, <2>3, <2>4, <2>5
<1>8. \A k \in 1..m : (k \in A) <=> (p[k] \in B)
  <2> SUFFICES ASSUME NEW k \in 1..m PROVE (k \in A) <=> (p[k] \in B)
    OBVIOUS
  <2>1. PICK j \in 1..n : j = p[k]
    BY <1>6
  <2>2. segs[j].label # NoLabel /\ Cropped(segs[j], win).label = segs[j].label
    BY <1>5, <1>6, <2>1, CroppedIs DEF Remains
  <2>3. notes[k] = Cropped(segs[j], win) /\ DOMAIN notes = 1..m
    BY <1>3a, <2>1
  <2>4. (Cropped(segs[j], win).start <= i /\ i < Cropped(segs[j], win).end) <=>
        (segs[j].start <= frame /\ frame < segs[j].end)
    BY <1>5, <1>7
  <2> HIDE DEF frame
  <2> QED BY <1>5, <2>1, <2>2, <2>3, <2>4 DEF OverFrame
<1>9. \A j \in B : \E k \in A : p[k] = j
  <2> SUFFICES ASSUME NEW j \in B PROVE \E k \in A : p[k] = j
    OBVIOUS
  <2>1. j \in 1..n /\ segs[j].label # NoLabel /\ segs[j].start <= frame /\ frame < segs[j].end
    BY <1>5 DEF OverFrame
  <2>2. Cropped(segs[j], win).start <= i /\ i < Cropped(segs[j], win).end
    BY <1>5, <1>7, <2>1
  <2>3. Cropped(segs[j], win).start < Cropped(segs[j], win).end
    <3>1. segs[j].start \in Nat /\ segs[j].end \in Nat
      BY <1>5, <2>1, InRange
    <3>2. Cropped(segs[j], win).start \in Int /\ Cropped(segs[j], win).end \in Int
      BY <1>4, <1>5, <2>1, <3>1, CroppedIs
    <3> QED BY <2>2, <3>2
  <2>4. Remains(segs[j], win)
    <3>1. Cropped(segs[j], win).start \in Int /\ Cropped(segs[j], win).end \in Int
      <4>1. segs[j].start \in Nat /\ segs[j].end \in Nat
        BY <1>5, <2>1, InRange
      <4> QED BY <1>4, <1>5, <2>1, <4>1, CroppedIs
    <3> QED BY <2>1, <2>3, <3>1 DEF Remains
  <2>5. PICK k \in 1..m : p[k] = j
    BY <1>6, <2>1, <2>4
  <2> QED BY <1>8, <2>5
<1>10. A \subseteq 1..m /\ DOMAIN notes = 1..m
  BY <1>3a DEF OverFrame
<1> HIDE DEF A, B, frame
<1>11. CASE A = {}
  <2>1. B = {}
    BY <1>9, <1>11
  <2>2. NameAt(notes, i) = NoLabel /\ NameAt(segs, frame) = NoLabel
    BY <1>11, <2>1 DEF NameAt, A, B
  <2> QED BY <1>1, <1>2, <1>4, <2>2 DEF frame
<1>12. CASE A # {}
  <2>1. PICK k \in A : k = Max(A) /\ \A l \in A : l <= k
    BY <1>12, LastOver DEF A
  <2>2. B # {} /\ p[k] \in B
    BY <1>8, <1>10, <2>1
  <2>3. PICK j \in B : j = Max(B) /\ \A l \in B : l <= j
    BY <2>2, LastOver DEF B
  <2>4. PICK l \in A : p[l] = j
    BY <1>9, <2>3
  <2>5. k \in 1..m /\ l \in 1..m /\ p[k] \in 1..n /\ p[l] \in 1..n
    BY <1>6, <1>10
  <2>6. l = k
    <3>1. ~(l < k)
      <4> SUFFICES ASSUME l < k PROVE FALSE
        OBVIOUS
      <4>1. p[l] < p[k] /\ p[k] <= p[l]
        BY <1>6, <2>2, <2>3, <2>4, <2>5
      <4> QED BY <2>5, <4>1
    <3>2. l <= k
      BY <2>1
    <3> QED BY <2>5, <3>1, <3>2
  <2>7. notes[k].label = segs[j].label
    BY <1>3a, <1>5, <2>4, <2>5, <2>6, CroppedIs
  <2>8. NameAt(notes, i) = notes[k].label /\ NameAt(segs, frame) = segs[j].label
    BY <1>12, <2>1, <2>2, <2>3 DEF NameAt, A, B
  <2> QED BY <1>1, <1>2, <1>4, <2>7, <2>8 DEF frame
<1> QED BY <1>11, <1>12

\* Every prompt has one row of the registry.
Distinct(known) == \A i, j \in DOMAIN known : known[i] = known[j] => i = j

\* Registering the prompts of an episode adds rows behind those there are, one for
\* each prompt that has none.
LEMMA RegisteredIs ==
  ASSUME NEW known \in Seq(Labels), Distinct(known), NEW notes \in Seq(Prompted)
  PROVE  LET new == Registered(known, notes) IN
         /\ new \in Seq(Labels) /\ Distinct(new) /\ Len(known) <= Len(new)
         /\ \A r \in DOMAIN known : r \in DOMAIN new /\ new[r] = known[r]
         /\ \A k \in DOMAIN notes : \E r \in DOMAIN new : new[r] = notes[k].label
<1> DEFINE First(k) == notes[k].label \notin ToSet(known) /\ \A j \in 1..k-1 : notes[j].label # notes[k].label
           P == {k \in DOMAIN notes : First(k)}
           fresh == Selected(notes, P)
           added == [k \in DOMAIN fresh |-> fresh[k].label]
           new == Registered(known, notes)
<1>1. PICK n \in Nat : DOMAIN notes = 1..n /\ \A k \in 1..n : notes[k] \in Prompted
  OBVIOUS
<1>2. PICK c \in Nat : c = Len(known) /\ DOMAIN known = 1..c /\ \A r \in 1..c : known[r] \in Labels
  OBVIOUS
<1>3. new = known \o added
  BY DEF Registered
<1>4. P \in SUBSET (1..n) /\ \A k \in P : First(k)
  BY <1>1
<1> HIDE DEF P
<1>5. PICK m \in Nat : \E p : Lists(p, m, P) /\ fresh = [k \in 1..m |-> notes[p[k]]]
  <2>1. P \in SUBSET (DOMAIN notes)
    BY <1>1, <1>4
  <2> QED BY <2>1, SelectedIs, SMTT(30)
<1>5a. PICK p : Lists(p, m, P) /\ fresh = [k \in 1..m |-> notes[p[k]]]
  BY <1>5
<1>6. /\ p \in [1..m -> P] /\ \A i \in P : \E k \in 1..m : p[k] = i
      /\ \A k, l \in 1..m : k < l => p[k] < p[l]
  BY <1>5a DEF Lists
<1>7. added = [k \in 1..m |-> notes[p[k]].label]
  BY <1>5a
<1>8. \A k \in 1..m : notes[p[k]].label \in Labels
  BY <1>1, <1>4, <1>6, InRange
<1> HIDE DEF new, added
<1>9. added \in Seq(Labels) /\ Len(added) = m
  <2>1. added \in [1..m -> Labels]
    BY <1>7, <1>8
  <2> QED BY <2>1
<1>10. /\ new \in Seq(Labels) /\ Len(new) = c + m
       /\ \A r \in 1..c : new[r] = known[r]
       /\ \A r \in c+1..c+m : new[r] = notes[p[r - c]].label
  <2>0. new \in Seq(Labels)
    BY <1>3, <1>9
  <2>1. Len(new) = c + m
    <3>1. Len(known \o added) = Len(known) + Len(added)
      BY <1>9
    <3> QED BY <1>2, <1>3, <1>9, <3>1
  <2>2. \A r \in 1..c : new[r] = known[r]
    BY <1>2, <1>3, <1>9
  <2>3. ASSUME NEW r \in c+1..c+m PROVE new[r] = notes[p[r - c]].label
    <3>1. r - c \in 1..m /\ r \in 1..c+m /\ ~(r <= c)
      OBVIOUS
    <3>2. new[r] = added[r - c]
      BY <1>2, <1>3, <1>9, <3>1
    <3> QED BY <1>7, <3>1, <3>2
  <2> QED BY <2>0, <2>1, <2>2, <2>3
<1>11. DOMAIN new = 1..c+m
  BY <1>10
<1>12. \A k \in P : notes[k].label \notin ToSet(known) /\ \A j \in 1..k-1 : notes[j].label # notes[k].label
  BY <1>4
<1>13. ASSUME NEW k \in 1..m, NEW l \in 1..m, k < l PROVE notes[p[k]].label # notes[p[l]].label
  <2>1. PICK a \in P, b \in P : a = p[k] /\ b = p[l] /\ a < b
    BY <1>6, <1>13
  <2>2. a \in 1..b-1
    BY <1>4, <2>1
  <2> QED BY <1>12, <2>1, <2>2
<1>14. Distinct(new)
  <2>1. ASSUME NEW i \in 1..c+m, NEW j \in 1..c+m, i < j PROVE new[i] # new[j]
    <3>1. CASE j <= c
      <4>1. i \in 1..c /\ j \in 1..c /\ i # j
        BY <2>1, <3>1
      <4> QED BY <1>2, <1>10, <4>1 DEF Distinct
    <3>2. CASE i <= c /\ c < j
      <4>1. i \in 1..c /\ j \in c+1..c+m /\ j - c \in 1..m
        BY <3>2
      <4>2. PICK b \in P : b = p[j - c]
        BY <1>6, <4>1
      <4>3. notes[b].label \notin ToSet(known)
        BY <1>12
      <4>4. known[i] \in ToSet(known)
        BY <1>2, <4>1 DEF ToSet
      <4> QED BY <1>10, <4>1, <4>2, <4>3, <4>4
    <3>3. CASE c < i
      <4>1. /\ i \in c+1..c+m /\ j \in c+1..c+m
            /\ i - c \in 1..m /\ j - c \in 1..m /\ i - c < j - c
        BY <2>1, <3>3
      <4>2. new[i] = notes[p[i - c]].label /\ new[j] = notes[p[j - c]].label
        BY <1>10, <4>1
      <4>3. notes[p[i - c]].label # notes[p[j - c]].label
        BY <1>13, <4>1
      <4> QED BY <4>2, <4>3
    <3> QED BY <2>1, <3>1, <3>2, <3>3
  <2>2. \A i, j \in 1..c+m : i < j \/ j < i \/ i = j
    OBVIOUS
  <2> QED BY <1>11, <2>1, <2>2 DEF Distinct
<1>15. ASSUME NEW k \in 1..n PROVE \E r \in DOMAIN new : new[r] = notes[k].label
  <2>1. CASE notes[k].label \in ToSet(known)
    <3>1. PICK r \in 1..c : known[r] = notes[k].label
      BY <1>2, <2>1 DEF ToSet
    <3>2. r \in DOMAIN new
      BY <1>11
    <3> QED BY <1>10, <3>1, <3>2
  <2>2. CASE notes[k].label \notin ToSet(known)
    <3> DEFINE same == {j \in 1..n : notes[j].label = notes[k].label}
    <3>1. IsFiniteSet(1..n) /\ same \in SUBSET (1..n) /\ k \in same
      BY FS_Interval
    <3>2. same \in SUBSET Nat /\ IsFiniteSet(same) /\ same # {}
      BY <3>1, FS_Subset
    <3>3. PICK a \in same : \A j \in same : a <= j
      BY <3>2, Smallest
    <3>4. \A j \in 1..a-1 : j \in 1..n /\ notes[j].label # notes[a].label
      BY <3>3
    <3>5. a \in P
      BY <1>1, <2>2, <3>4 DEF P
    <3>6. PICK l \in 1..m : p[l] = a
      BY <1>6, <3>5
    <3>7. c + l \in c+1..c+m /\ c + l \in DOMAIN new /\ (c + l) - c = l
      BY <1>11
    <3>8. new[c + l] = notes[a].label
      BY <1>10, <3>6, <3>7
    <3> QED BY <3>7, <3>8
  <2> QED BY <2>1, <2>2
<1>16. \A r \in DOMAIN known : r \in DOMAIN new /\ new[r] = known[r]
  BY <1>2, <1>10, <1>11
<1> QED BY <1>1, <1>2, <1>10, <1>14, <1>15, <1>16 DEF new

\* The column names the prompt over each frame by its row, and -1 where there is none.
RowNames(known, row, name) ==
  IF name = NoLabel THEN row = -1 ELSE row >= 0 /\ row + 1 \in DOMAIN known /\ known[row + 1] = name
\* The column of an episode does so for each of its rows.
LEMMA ColumnNames ==
  ASSUME NEW known \in Seq(Labels), Distinct(known), NEW notes \in Seq(Prompted), NEW n \in Int,
         \A k \in DOMAIN notes : \E r \in DOMAIN known : known[r] = notes[k].label
  PROVE  /\ subtask_column(known, notes, n) \in [0..n-1 -> Int]
         /\ \A i \in 0..n-1 : RowNames(known, subtask_column(known, notes, n)[i], NameAt(notes, i))
<1>1. ASSUME NEW i \in 0..n-1
      PROVE  subtask_column(known, notes, n)[i] \in Int /\ RowNames(known, subtask_column(known, notes, n)[i], NameAt(notes, i))
  <2> DEFINE over == {k \in DOMAIN notes : notes[k].start <= i /\ i < notes[k].end}
             row == subtask_column(known, notes, n)[i]
  <2>1. row = IF over = {} THEN -1 ELSE RowOf(known, notes[Max(over)].label)
    BY DEF subtask_column
  <2>2. \A k \in DOMAIN notes : notes[k].label \in Labels /\ notes[k].label # NoLabel
    BY InRange
  <2>3. over = OverFrame(notes, i)
    BY <2>2 DEF OverFrame
  <2> HIDE DEF over, row
  <2>4. CASE over = {}
    BY <2>1, <2>3, <2>4 DEF NameAt, RowNames, row
  <2>5. CASE over # {}
    <3>1. PICK k \in DOMAIN notes : k = Max(over)
      BY <2>3, <2>5, LastOver DEF OverFrame
    <3>2. NameAt(notes, i) = notes[k].label
      BY <2>3, <2>5, <3>1 DEF NameAt
    <3>3. \E r \in DOMAIN known : known[r] = notes[k].label
      OBVIOUS
    <3>4. PICK r \in DOMAIN known : r = (CHOOSE q \in DOMAIN known : known[q] = notes[k].label) /\ known[r] = notes[k].label
      BY <3>3
    <3>5. row = r - 1
      BY <2>1, <2>5, <3>1, <3>4 DEF RowOf
    <3>6. r \in Int /\ r >= 1
      OBVIOUS
    <3>7. row \in Int /\ row >= 0 /\ row + 1 = r
      BY <3>5, <3>6
    <3> QED BY <2>2, <3>2, <3>4, <3>7 DEF RowNames, row
  <2> QED BY <2>4, <2>5
<1>2. subtask_column(known, notes, n) = [i \in 0..n-1 |-> subtask_column(known, notes, n)[i]]
  BY DEF subtask_column
<1> QED BY <1>1, <1>2

-----------------------------------------------------------------------------
(* The converter's inductive invariant.                                    *)

Reading == step \in {"rows", "notes"}
\* What the edits keep of an episode.
KeepsFrames(n) == ~EditsOf(n).rejected /\ (EditsOf(n).trim = NoTrim \/ EditsOf(n).trim.start < EditsOf(n).trim.end)
Columns == UNION {[0..m-1 -> Int] : m \in 0..Frames}
WrittenRows == [folder : Numbers, of : SourceEpisodes, window : Ranges, column : Columns, segs : Seq(Prompted)]

\* What is stored has been through the editor's server.
StoreInv == \A n \in DOMAIN stored : stored[n] \in StoredEdits /\ Ascends(stored[n].segs)

\* A folder is still to be read or it is done with, and it is written at most once.
TodoInv ==
  /\ step = "idle" => todo = <<>> /\ written = <<>> /\ registry = <<>> /\ disturbed = {}
  /\ step = "done" => todo = <<>>
  /\ Reading => todo # <<>> /\ window.start <= window.end
  /\ Distinct(todo) /\ \A i \in DOMAIN todo : todo[i] \in Scanned(out)
WrittenInv ==
  /\ written \in Seq(WrittenRows)
  /\ \A k, l \in DOMAIN written : written[k].folder = written[l].folder => k = l
  /\ \A k \in DOMAIN written : /\ written[k].folder \in Scanned(out)
                               /\ \A i \in DOMAIN todo : todo[i] # written[k].folder

\* Unless the edits changed since, the rows of an episode and its annotations say what they say.
RowsSay(known, rows, win, edit) ==
  \A i \in DOMAIN rows : RowNames(known, rows[i], NameAt(edit.segs, win.start + i))
NotesSay(notes, rows, win, edit) ==
  \A i \in DOMAIN rows : LET name == NameAt(edit.segs, win.start + i) IN
    name # NoLabel => \E j \in DOMAIN notes :
      notes[j].label = name /\ notes[j].start <= i /\ i < notes[j].end
NamesInv ==
  /\ Distinct(registry)
  /\ \A k \in DOMAIN written : written[k].folder \notin disturbed =>
       /\ RowsSay(registry, written[k].column, written[k].window, EditsOf(written[k].folder))
       /\ NotesSay(written[k].segs, written[k].column, written[k].window, EditsOf(written[k].folder))
  /\ step = "notes" =>
       /\ column \in [0..window.end-window.start-1 -> Int]
       /\ Head(todo) \notin disturbed => RowsSay(registry, column, window, EditsOf(Head(todo)))
  /\ step = "done" => table = subtasks_table(registry)

\* Of the folders that are done with, those are written whose edits keep a frame.
KeptInv ==
  /\ step # "idle" => \A n \in Scanned(out) \ disturbed : (\A i \in DOMAIN todo : todo[i] # n) =>
       (KeepsFrames(n) <=> \E k \in DOMAIN written : written[k].folder = n)
  /\ Reading /\ Head(todo) \notin disturbed => KeepsFrames(Head(todo))

ConvertInv == ConvertTypeOK /\ StoreInv /\ TodoInv /\ WrittenInv /\ NamesInv /\ KeptInv

\* What is left of a list without doubles is in it, and its first member is not.
LEMMA TailIn ==
  ASSUME NEW S, NEW list \in Seq(S), list # <<>>
  PROVE  /\ Tail(list) \in Seq(S) /\ Head(list) \in S /\ Len(Tail(list)) = Len(list) - 1
         /\ \A i \in DOMAIN Tail(list) : i + 1 \in DOMAIN list /\ Tail(list)[i] = list[i + 1]
         /\ 1 \in DOMAIN list /\ list[1] = Head(list)
         /\ \A i \in DOMAIN list : i = 1 \/ (i - 1 \in DOMAIN Tail(list) /\ list[i] = Tail(list)[i - 1])
<1>1. Len(list) \in Nat /\ Len(list) # 0 /\ DOMAIN list = 1..Len(list)
  OBVIOUS
<1>2. Tail(list) \in Seq(S) /\ Len(Tail(list)) = Len(list) - 1 /\ DOMAIN Tail(list) = 1..Len(list)-1
  BY <1>1
<1>3. \A i \in 1..Len(list)-1 : i + 1 \in DOMAIN list /\ Tail(list)[i] = list[i + 1]
  BY <1>1
<1>4. 1 \in DOMAIN list /\ list[1] = Head(list) /\ Head(list) \in S
  BY <1>1
<1>5. \A i \in 2..Len(list) : i - 1 \in 1..Len(list)-1 /\ list[i] = Tail(list)[i - 1]
  BY <1>1, <1>3
<1> QED BY <1>1, <1>2, <1>3, <1>4, <1>5

LEMMA HeadApart ==
  ASSUME NEW S, NEW list \in Seq(S), list # <<>>, Distinct(list)
  PROVE  Distinct(Tail(list)) /\ \A i \in DOMAIN Tail(list) : Tail(list)[i] # Head(list)
<1>1. PICK tail, first : tail = Tail(list) /\ first = Head(list)
  OBVIOUS
<1>2. /\ tail \in Seq(S) /\ 1 \in DOMAIN list /\ list[1] = first
      /\ \A i \in DOMAIN tail : i + 1 \in DOMAIN list /\ tail[i] = list[i + 1]
  BY <1>1, TailIn
<1>3. DOMAIN tail \subseteq Int /\ \A i \in DOMAIN tail : i >= 1
  BY <1>2
<1>4. Distinct(tail)
  BY <1>2, <1>3 DEF Distinct
<1>5. \A i \in DOMAIN tail : tail[i] # first
  <2> SUFFICES ASSUME NEW i \in DOMAIN tail PROVE tail[i] # first
    OBVIOUS
  <2>1. i + 1 # 1
    BY <1>3
  <2> QED BY <1>2, <2>1 DEF Distinct
<1> QED BY <1>1, <1>4, <1>5

Rest(list, tail, first) ==
  /\ 1 \in DOMAIN list /\ list[1] = first
  /\ \A i \in DOMAIN tail : i + 1 \in DOMAIN list /\ tail[i] = list[i + 1] /\ tail[i] # first
  /\ \A i \in DOMAIN list : i = 1 \/ (i - 1 \in DOMAIN tail /\ list[i] = tail[i - 1])
\* What is left of a list without doubles when its first member is taken.
LEMMA RestIs ==
  ASSUME NEW S, NEW list \in Seq(S), list # <<>>, Distinct(list)
  PROVE  Tail(list) \in Seq(S) /\ Distinct(Tail(list)) /\ Rest(list, Tail(list), Head(list))
BY TailIn, HeadApart DEF Rest

\* It holds at first,
LEMMA ConvertStarts == ConvertInit /\ MergeInit => ConvertInv
<1> SUFFICES ASSUME ConvertInit, MergeInit PROVE ConvertInv
  OBVIOUS
<1> USE DEF ConvertInit, MergeInit
<1>1. DOMAIN stored = {} /\ DOMAIN written = {} /\ DOMAIN registry = {} /\ DOMAIN todo = {} /\ step = "idle"
  OBVIOUS
<1>2. ConvertTypeOK
  <2>1. 0 \in 0..MaxStores /\ 0 \in 0..Frames
    BY FramesAssumption
  <2>2. window \in Ranges
    BY <2>1 DEF Span, Ranges
  <2> QED BY <1>1, <2>1, <2>2 DEF ConvertTypeOK
<1>3. StoreInv
  BY <1>1 DEF StoreInv
<1>4. TodoInv /\ WrittenInv
  BY <1>1 DEF TodoInv, WrittenInv, Distinct, Reading
<1>5. NamesInv /\ KeptInv
  BY <1>1 DEF NamesInv, KeptInv, Distinct, Reading
<1> QED BY <1>2, <1>3, <1>4, <1>5 DEF ConvertInv

\* when nothing of the converter changes and no folder that it knows of does,
LEMMA ConvertStays ==
  ASSUME ConvertInv, UNCHANGED convertVars, DOMAIN out \subseteq DOMAIN out', step = "idle" \/ out' = out
  PROVE  ConvertInv'
<1> USE DEF convertVars
<1>1. ConvertTypeOK'
  BY DEF ConvertInv, ConvertTypeOK
<1>2. StoreInv'
  BY DEF ConvertInv, StoreInv
<1>3. CASE step = "idle"
  <2>1. DOMAIN written = {} /\ DOMAIN todo = {}
    BY <1>3 DEF ConvertInv, TodoInv
  <2>2. TodoInv' /\ WrittenInv'
    BY <1>3, <2>1 DEF ConvertInv, TodoInv, WrittenInv, Reading
  <2>3. NamesInv' /\ KeptInv'
    BY <1>3, <2>1 DEF ConvertInv, NamesInv, KeptInv, Reading
  <2> QED BY <1>1, <1>2, <2>2, <2>3 DEF ConvertInv
<1>4. CASE out' = out
  <2>1. TodoInv' /\ WrittenInv'
    BY <1>4 DEF ConvertInv, TodoInv, WrittenInv, Reading, Scanned
  <2>2. NamesInv'
    BY <1>4 DEF ConvertInv, NamesInv, RowsSay, NotesSay, EditsOf
  <2>3. KeptInv'
    BY <1>4 DEF ConvertInv, KeptInv, Reading, Scanned, KeepsFrames, EditsOf
  <2> QED BY <1>1, <1>2, <2>1, <2>2, <2>3 DEF ConvertInv
<1> QED BY <1>3, <1>4

\* Scanned folders have numbers.
LEMMA ScannedAre ==
  ASSUME MergeTypeOK
  PROVE  /\ Scanned(out) \subseteq DOMAIN out /\ Scanned(out) \subseteq Numbers /\ Scanned(out) \subseteq Nat
         /\ IsFiniteSet(Scanned(out))
         /\ \A n \in Scanned(out) : out[n].of \in SourceEpisodes
<1>1. Scanned(out) \subseteq DOMAIN out /\ DOMAIN out \subseteq Numbers /\ \A n \in DOMAIN out : out[n].of \in SourceEpisodes
  BY DEF Scanned, MergeTypeOK, Folders
<1>2. IsFiniteSet(Numbers) /\ Numbers \subseteq Nat
  <2>1. MaxMerges * Cardinality(SourceEpisodes) \in Nat
    BY MergesAssumption, FS_CardinalityType
  <2>2. PICK c \in Nat : c = MaxMerges * Cardinality(SourceEpisodes)
    BY <2>1
  <2>3. IsFiniteSet(0..c) /\ 0..c \subseteq Nat
    BY FS_Interval
  <2> QED BY <2>2, <2>3 DEF Numbers
<1>3. IsFiniteSet(Scanned(out))
  <2>1. Scanned(out) \in SUBSET Numbers
    BY <1>1
  <2> QED BY <1>2, <2>1, FS_Subset
<1> QED BY <1>1, <1>2, <1>3

\* the editor stores an edit,
LEMMA StoresEdit ==
  ASSUME ConvertInv, MergeTypeOK, NEW n \in Scanned(out), NEW payload \in Proposals, save_edits(n, payload), out' = out
  PROVE  ConvertInv'
<1> USE DEF save_edits
<1>1. n \in DOMAIN out
  BY ScannedAre
<1>2. PICK edit \in StoredEdits : edit = Sanitized(n, payload) /\ edit.trim.start <= edit.trim.end /\ Ascends(edit.segs)
  BY <1>1, SanitizedIs
<1>3. DOMAIN stored' = DOMAIN stored \cup {n} /\ \A k \in DOMAIN stored' : stored'[k] = IF k = n THEN edit ELSE stored[k]
  BY <1>2 DEF Over
<1>4. \A k : k # n => EditsOf(k)' = EditsOf(k)
  BY <1>3 DEF EditsOf
<1>5. ConvertTypeOK'
  <2>1. \A k \in DOMAIN stored' :
       /\ k \in DOMAIN out' /\ stored'[k].rejected \in BOOLEAN
       /\ stored'[k].trim \in Ranges /\ stored'[k].trim.start <= stored'[k].trim.end
       /\ stored'[k].segs \in Seq(Segments)
    <3> SUFFICES ASSUME NEW k \in DOMAIN stored'
                 PROVE  /\ k \in DOMAIN out /\ stored'[k].rejected \in BOOLEAN
                        /\ stored'[k].trim \in Ranges /\ stored'[k].trim.start <= stored'[k].trim.end
                        /\ stored'[k].segs \in Seq(Segments)
      OBVIOUS
    <3>1. CASE k = n
      <4>1. edit.rejected \in BOOLEAN /\ edit.trim \in Ranges /\ edit.segs \in Seq(Segments)
        BY DEF StoredEdits
      <4> QED BY <1>1, <1>2, <1>3, <3>1, <4>1
    <3>2. CASE k # n
      BY <1>3, <3>2 DEF ConvertInv, ConvertTypeOK
    <3> QED BY <3>1, <3>2
  <2>2. stores' \in 0..MaxStores
    BY FramesAssumption DEF ConvertInv, ConvertTypeOK
  <2> QED BY <2>1, <2>2 DEF ConvertInv, ConvertTypeOK
<1>6. StoreInv'
  BY <1>2, <1>3 DEF ConvertInv, StoreInv
<1>7. TodoInv' /\ WrittenInv'
  <2>1. disturbed' = {} \/ step # "idle"
    BY DEF ConvertInv, TodoInv, Begun
  <2>2. TodoInv'
    BY <2>1 DEF ConvertInv, TodoInv, Reading, Scanned
  <2>3. WrittenInv'
    BY DEF ConvertInv, WrittenInv, Scanned
  <2> QED BY <2>2, <2>3
<1>8. disturbed \subseteq disturbed' /\ (n \in Begun => n \in disturbed')
  OBVIOUS
<1>9. \A k \in DOMAIN written : written[k].folder \notin disturbed' => written[k].folder # n
  <2> SUFFICES ASSUME NEW k \in DOMAIN written, written[k].folder = n PROVE n \in Begun
    BY <1>8
  <2>1. step # "idle" /\ \A i \in DOMAIN todo : todo[i] # n
    BY DEF ConvertInv, TodoInv, WrittenInv
  <2>2. todo \in Seq(Numbers)
    BY DEF ConvertInv, ConvertTypeOK
  <2>3. n \notin ToSet(todo)
    BY <2>1 DEF ToSet
  <2>4. Reading => n \notin ToSet(Tail(todo))
    BY <2>1, <2>2, TailIn DEF ConvertInv, TodoInv, ToSet
  <2> QED BY <2>1, <2>3, <2>4 DEF Begun, Reading
<1>10. Reading /\ Head(todo) \notin disturbed' => Head(todo) # n
  <2> SUFFICES ASSUME Reading, Head(todo) = n PROVE n \in Begun
    BY <1>8
  <2>1. todo \in Seq(Numbers) /\ todo # <<>> /\ Distinct(todo)
    BY DEF ConvertInv, ConvertTypeOK, TodoInv
  <2>2. n \notin ToSet(Tail(todo))
    BY <2>1, HeadApart DEF ToSet
  <2> QED BY <2>2 DEF Begun, Reading
<1>11. NamesInv'
  <2>1. \A k \in DOMAIN written : written[k].folder \notin disturbed' =>
       /\ RowsSay(registry, written[k].column, written[k].window, EditsOf(written[k].folder)')
       /\ NotesSay(written[k].segs, written[k].column, written[k].window, EditsOf(written[k].folder)')
    BY <1>4, <1>8, <1>9 DEF ConvertInv, NamesInv
  <2>2. step = "notes" /\ Head(todo) \notin disturbed' => RowsSay(registry, column, window, EditsOf(Head(todo))')
    BY <1>4, <1>8, <1>10 DEF ConvertInv, NamesInv, Reading
  <2> QED BY <2>1, <2>2 DEF ConvertInv, NamesInv, RowsSay, NotesSay
<1>12. KeptInv'
  <2>1. ASSUME step # "idle", NEW k \in Scanned(out) \ disturbed', \A i \in DOMAIN todo : todo[i] # k
        PROVE  KeepsFrames(k)' <=> \E j \in DOMAIN written : written[j].folder = k
    <3>1. todo \in Seq(Numbers)
      BY DEF ConvertInv, ConvertTypeOK
    <3>2. k \notin ToSet(todo) /\ (Reading => k \notin ToSet(Tail(todo)))
      BY <2>1, <3>1, TailIn DEF ConvertInv, TodoInv, ToSet
    <3>3. k \in Begun
      BY <2>1, <3>2 DEF Begun, Reading
    <3>4. k # n
      BY <1>8, <3>3
    <3>5. KeepsFrames(k)' <=> KeepsFrames(k)
      BY <1>4, <3>4 DEF KeepsFrames
    <3> QED BY <1>8, <2>1, <3>5 DEF ConvertInv, KeptInv
  <2>2. Reading /\ Head(todo) \notin disturbed' => KeepsFrames(Head(todo))'
    BY <1>4, <1>8, <1>10 DEF ConvertInv, KeptInv, KeepsFrames
  <2> QED BY <2>1, <2>2 DEF KeptInv, Reading, Scanned
<1> QED BY <1>5, <1>6, <1>7, <1>11, <1>12 DEF ConvertInv

\* the converter lists the folders,
LEMMA Discovers ==
  ASSUME ConvertInv, MergeTypeOK, Discover, out' = out
  PROVE  ConvertInv'
<1> USE DEF Discover, Store
<1>1. PICK m \in Nat : m = Cardinality(Scanned(out)) /\ todo' \in [1..m -> Scanned(out)]
                       /\ \A i, j \in 1..m : i < j => todo'[i] < todo'[j]
  BY ScannedAre, Ascending
<1>2. todo' \in Seq(Numbers) /\ DOMAIN todo' = 1..m
  BY <1>1, ScannedAre
<1>3. \A i \in DOMAIN todo' : todo'[i] \in Scanned(out)
  BY <1>1, <1>2
<1>4. Distinct(todo')
  <2>1. ASSUME NEW i \in 1..m, NEW j \in 1..m, i # j PROVE todo'[i] # todo'[j]
    <3>1. todo'[i] < todo'[j] \/ todo'[j] < todo'[i]
      BY <1>1, <2>1
    <3>2. todo'[i] \in Int /\ todo'[j] \in Int
      BY <1>3, <1>2, ScannedAre
    <3> QED BY <3>1, <3>2
  <2> QED BY <1>2, <2>1 DEF Distinct
<1>5. \A n \in Scanned(out) : \E i \in DOMAIN todo' : todo'[i] = n
  <2>1. todo' \in Injection(1..m, Scanned(out))
    BY <1>1, <1>2, <1>4 DEF Injection, IsInjective, Distinct
  <2>2. Cardinality(1..m) = m
    BY FS_Interval
  <2>3. todo' \in Surjection(1..m, Scanned(out))
    BY <1>1, <2>1, <2>2, ScannedAre, FS_Injection
  <2> QED BY <1>2, <2>3 DEF Surjection
<1>6. step = "idle" /\ step' = "open" /\ DOMAIN written = {} /\ DOMAIN registry = {}
  BY DEF ConvertInv, TodoInv
<1>7. ConvertTypeOK' /\ StoreInv'
  BY <1>2 DEF ConvertInv, ConvertTypeOK, StoreInv
<1>8. TodoInv' /\ WrittenInv'
  BY <1>3, <1>4, <1>6 DEF ConvertInv, TodoInv, WrittenInv, Reading, Scanned
<1>9. NamesInv'
  BY <1>6 DEF ConvertInv, NamesInv
<1>10. KeptInv'
  BY <1>5, <1>6 DEF KeptInv, Reading, Scanned
<1> QED BY <1>7, <1>8, <1>9, <1>10 DEF ConvertInv

\* What the converter reads of an episode's edits.
LEMMA EditsAre ==
  ASSUME ConvertInv, NEW n
  PROVE  /\ EditsOf(n).segs \in Seq(Segments) /\ Ascends(EditsOf(n).segs)
         /\ LET kept == episode_trim(EditsOf(n), Frames) IN
            kept \in Ranges /\ kept.start <= kept.end /\ (kept.start < kept.end <=> KeepsFrames(n))
<1>0. Frames \in Nat /\ Frames > 0
  BY FramesAssumption
<1>1. CASE n \in DOMAIN stored
  <2>1. PICK edit \in StoredEdits : edit = EditsOf(n) /\ Ascends(edit.segs) /\ edit.trim.start <= edit.trim.end
    BY <1>1 DEF ConvertInv, StoreInv, ConvertTypeOK, EditsOf
  <2>2. edit.segs \in Seq(Segments) /\ edit.trim \in Ranges
    BY DEF StoredEdits
  <2>3. PICK a \in 0..Frames, b \in 0..Frames : edit.trim = [start |-> a, end |-> b] /\ a <= b
    BY <2>1, <2>2 DEF Ranges
  <2>4. CASE edit.rejected
    <3>1. episode_trim(EditsOf(n), Frames) = [start |-> 0, end |-> 0]
      BY <2>1, <2>4 DEF episode_trim, Span
    <3>2. ~KeepsFrames(n)
      BY <2>1, <2>4 DEF KeepsFrames
    <3> QED BY <1>0, <2>1, <2>2, <3>1, <3>2 DEF Ranges
  <2>5. CASE ~edit.rejected /\ edit.trim = NoTrim
    <3>1. episode_trim(EditsOf(n), Frames) = [start |-> 0, end |-> Frames]
      BY <2>1, <2>5 DEF episode_trim, Span
    <3>2. KeepsFrames(n)
      BY <2>1, <2>5 DEF KeepsFrames
    <3> QED BY <1>0, <2>1, <2>2, <3>1, <3>2 DEF Ranges
  <2>6. CASE ~edit.rejected /\ edit.trim # NoTrim
    <3>1. Clip(a, 0, Frames) = a /\ Upper(a, Lower(b, Frames)) = b
      BY <1>0, <2>3 DEF Clip, Upper, Lower
    <3>2. episode_trim(EditsOf(n), Frames) = [start |-> a, end |-> b]
      BY <2>1, <2>3, <2>6, <3>1 DEF episode_trim, Span
    <3>3. KeepsFrames(n) <=> a < b
      BY <2>1, <2>3, <2>6 DEF KeepsFrames
    <3> QED BY <1>0, <2>1, <2>2, <2>3, <3>2, <3>3 DEF Ranges
  <2> QED BY <2>4, <2>5, <2>6
<1>2. CASE n \notin DOMAIN stored
  <2>1. EditsOf(n) = [rejected |-> FALSE, trim |-> NoTrim, segs |-> <<>>]
    BY <1>2 DEF EditsOf, NoEdits
  <2>2. episode_trim(EditsOf(n), Frames) = [start |-> 0, end |-> Frames]
    BY <2>1 DEF episode_trim, Span
  <2>3. KeepsFrames(n)
    BY <2>1 DEF KeepsFrames
  <2>4. EditsOf(n).segs \in Seq(Segments) /\ Ascends(EditsOf(n).segs)
    BY <2>1 DEF Ascends
  <2> QED BY <1>0, <2>2, <2>3, <2>4 DEF Ranges
<1> QED BY <1>1, <1>2

\* takes the window of the first one or leaves it out,
LEMMA Trims ==
  ASSUME ConvertInv, Trim, out' = out
  PROVE  ConvertInv'
<1> USE DEF Trim, Store
<1>1. PICK n : n = Head(todo)
  OBVIOUS
<1>2. PICK kept \in Ranges : /\ kept = episode_trim(EditsOf(n), Frames) /\ kept.start <= kept.end
                             /\ kept.start < kept.end <=> KeepsFrames(n)
  BY EditsAre
<1>3. step = "open" /\ todo # <<>> /\ todo \in Seq(Numbers) /\ Distinct(todo)
  BY DEF ConvertInv, TodoInv, ConvertTypeOK
<1>4. kept.start \in Nat /\ kept.end \in Nat
  BY InRange
<1>5. \A k : EditsOf(k)' = EditsOf(k) /\ (KeepsFrames(k)' <=> KeepsFrames(k))
  BY DEF EditsOf, KeepsFrames
<1>6. StoreInv' /\ Scanned(out)' = Scanned(out)
  BY DEF ConvertInv, StoreInv, Scanned
<1>7. CASE kept.end > kept.start
  <2>1. window' = kept /\ step' = "rows" /\ todo' = todo
    BY <1>1, <1>2, <1>7
  <2>2. KeepsFrames(n)
    BY <1>2, <1>4, <1>7
  <2>3. ConvertTypeOK'
    BY <2>1 DEF ConvertInv, ConvertTypeOK
  <2>4. TodoInv' /\ WrittenInv'
    BY <1>2, <1>3, <1>6, <2>1 DEF ConvertInv, TodoInv, WrittenInv, Reading
  <2>5. NamesInv'
    BY <1>5, <2>1 DEF ConvertInv, NamesInv, RowsSay, NotesSay
  <2>6. KeptInv'
    BY <1>1, <1>3, <1>5, <1>6, <2>1, <2>2 DEF ConvertInv, KeptInv, Reading
  <2> QED BY <1>6, <2>3, <2>4, <2>5, <2>6 DEF ConvertInv
<1>8. CASE ~(kept.end > kept.start)
  <2>1. todo' = Tail(todo) /\ window' = window /\ step' = "open"
    BY <1>1, <1>2, <1>3, <1>8
  <2>2. ~KeepsFrames(n)
    BY <1>2, <1>4, <1>8
  <2>a. PICK tail \in Seq(Numbers) : tail = Tail(todo) /\ Distinct(tail) /\ Rest(todo, tail, n)
    BY <1>1, <1>3, RestIs
  <2>3. /\ tail = Tail(todo) /\ tail \in Seq(Numbers) /\ Distinct(tail)
        /\ \A i \in DOMAIN tail : i + 1 \in DOMAIN todo /\ tail[i] = todo[i + 1] /\ tail[i] # n
        /\ \A i \in DOMAIN todo : i = 1 \/ (i - 1 \in DOMAIN tail /\ todo[i] = tail[i - 1])
        /\ 1 \in DOMAIN todo /\ todo[1] = n
    BY <2>a DEF Rest
  <2>4. ConvertTypeOK'
    BY <2>1, <2>3 DEF ConvertInv, ConvertTypeOK
  <2>5. TodoInv' /\ WrittenInv'
    BY <1>3, <1>6, <2>1, <2>3 DEF ConvertInv, TodoInv, WrittenInv, Reading
  <2>6. NamesInv'
    BY <1>3, <1>5, <2>1 DEF ConvertInv, NamesInv, RowsSay, NotesSay
  <2>7. KeptInv'
    <3>1. ASSUME NEW k \in Scanned(out) \ disturbed, \A i \in DOMAIN tail : tail[i] # k
          PROVE  KeepsFrames(k) <=> \E j \in DOMAIN written : written[j].folder = k
      <4>1. CASE k = n
        <5>1. \A j \in DOMAIN written : written[j].folder # n
          BY <2>3 DEF ConvertInv, WrittenInv
        <5> QED BY <2>2, <4>1, <5>1
      <4>2. CASE k # n
        <5>1. \A i \in DOMAIN todo : todo[i] # k
          BY <2>3, <3>1, <4>2
        <5> QED BY <1>3, <3>1, <5>1 DEF ConvertInv, KeptInv
      <4> QED BY <4>1, <4>2
    <3> QED BY <1>5, <1>6, <2>1, <2>3, <3>1 DEF KeptInv, Reading
  <2> QED BY <1>6, <2>4, <2>5, <2>6, <2>7 DEF ConvertInv
<1> QED BY <1>7, <1>8

\* Rows that a longer registry names, it names in the same way.
LEMMA RowsStay ==
  ASSUME NEW known, NEW new, \A r \in DOMAIN known : r \in DOMAIN new /\ new[r] = known[r],
         NEW rows, NEW win, NEW edit, RowsSay(known, rows, win, edit)
  PROVE  RowsSay(new, rows, win, edit)
BY DEF RowsSay, RowNames

\* reads its rows,
LEMMA ReadsEpisode ==
  ASSUME ConvertInv, read_episode, out' = out
  PROVE  ConvertInv'
<1> USE DEF read_episode, Store
<1>1. PICK n, edit : n = Head(todo) /\ edit = EditsOf(n)
  OBVIOUS
<1>2. edit.segs \in Seq(Segments) /\ Ascends(edit.segs)
  BY <1>1, EditsAre
<1>3. step = "rows" /\ step' = "notes" /\ todo # <<>>
  BY DEF ConvertInv, TodoInv, Reading
<1>4. PICK win \in Ranges : win = window /\ win.start <= win.end
  BY <1>3 DEF ConvertInv, ConvertTypeOK, TodoInv, Reading
<1>5. PICK notes \in Seq(Prompted) : notes = episode_segments(edit, win)
  BY <1>2, SegmentsTaken
<1>6. registry \in Seq(Labels) /\ Distinct(registry)
  BY DEF ConvertInv, ConvertTypeOK, NamesInv
<1>7. PICK new \in Seq(Labels) :
        /\ new = Registered(registry, notes) /\ Distinct(new)
        /\ \A r \in DOMAIN registry : r \in DOMAIN new /\ new[r] = registry[r]
        /\ \A k \in DOMAIN notes : \E r \in DOMAIN new : new[r] = notes[k].label
  BY <1>6, RegisteredIs
<1>8. PICK size \in Nat : size = win.end - win.start
  BY <1>4, InRange
<1>9. PICK rows \in [0..size-1 -> Int] :
        rows = subtask_column(new, notes, size) /\ \A i \in 0..size-1 : RowNames(new, rows[i], NameAt(notes, i))
  <2>1. Distinct(new) /\ size \in Int /\ \A k \in DOMAIN notes : \E r \in DOMAIN new : new[r] = notes[k].label
    BY <1>7
  <2>2. /\ subtask_column(new, notes, size) \in [0..size-1 -> Int]
        /\ \A i \in 0..size-1 : RowNames(new, subtask_column(new, notes, size)[i], NameAt(notes, i))
    BY <2>1, ColumnNames
  <2> QED BY <2>2
<1>10. registry' = new /\ column' = rows
  BY <1>1, <1>4, <1>5, <1>7, <1>8, <1>9
<1>11. RowsSay(new, rows, win, edit)
  <2> SUFFICES ASSUME NEW i \in 0..size-1 PROVE RowNames(new, rows[i], NameAt(edit.segs, win.start + i))
    BY DEF RowsSay
  <2>1. i \in Nat /\ i < win.end - win.start
    BY <1>8
  <2>2. NameAt(notes, i) = NameAt(edit.segs, win.start + i)
    BY <1>2, <1>5, <2>1, NamesStay
  <2> QED BY <1>9, <2>2
<1>12. \A k : EditsOf(k)' = EditsOf(k) /\ (KeepsFrames(k)' <=> KeepsFrames(k))
  BY DEF EditsOf, KeepsFrames
<1>13. ConvertTypeOK'
  BY <1>3, <1>10 DEF ConvertInv, ConvertTypeOK
<1>14. StoreInv' /\ Scanned(out)' = Scanned(out)
  BY DEF ConvertInv, StoreInv, Scanned
<1>15. TodoInv' /\ WrittenInv' /\ KeptInv'
  BY <1>3, <1>12, <1>14 DEF ConvertInv, TodoInv, WrittenInv, KeptInv, Reading
<1>16. NamesInv'
  <2>1. \A k \in DOMAIN written : written[k].folder \notin disturbed =>
       /\ RowsSay(new, written[k].column, written[k].window, EditsOf(written[k].folder))
       /\ NotesSay(written[k].segs, written[k].column, written[k].window, EditsOf(written[k].folder))
    BY <1>7, RowsStay DEF ConvertInv, NamesInv
  <2>3. rows \in [0..window.end-window.start-1 -> Int]
    BY <1>4, <1>8
  <2>4. RowsSay(new, rows, window, EditsOf(Head(todo)))
    BY <1>1, <1>4, <1>11
  <2>5. UNCHANGED <<written, todo, window, stored, disturbed>>
    OBVIOUS
  <2> QED BY <1>3, <1>7, <1>10, <2>1, <2>3, <2>4, <2>5 DEF NamesInv, EditsOf
<1> QED BY <1>13, <1>14, <1>15, <1>16 DEF ConvertInv

\* The annotations of an episode say what its segments say.
LEMMA NotesAgree ==
  ASSUME NEW edit, edit.segs \in Seq(Segments), Ascends(edit.segs), NEW win \in Ranges,
         NEW rows, DOMAIN rows = 0..win.end-win.start-1
  PROVE  NotesSay(episode_segments(edit, win), rows, win, edit)
<1>1. PICK notes \in Seq(Prompted) : notes = episode_segments(edit, win)
  BY SegmentsTaken
<1> SUFFICES ASSUME NEW i \in DOMAIN rows, NameAt(edit.segs, win.start + i) # NoLabel
             PROVE  \E j \in DOMAIN notes : /\ notes[j].label = NameAt(edit.segs, win.start + i)
                                            /\ notes[j].start <= i /\ i < notes[j].end
  BY <1>1 DEF NotesSay
<1>2. i \in Nat /\ i < win.end - win.start
  BY InRange
<1>3. NameAt(notes, i) = NameAt(edit.segs, win.start + i)
  BY <1>1, <1>2, NamesStay
<1>4. OverFrame(notes, i) # {}
  BY <1>3 DEF NameAt
<1>5. PICK j \in OverFrame(notes, i) : j = Max(OverFrame(notes, i))
  BY <1>4, LastOver
<1>6. notes[j].label = NameAt(notes, i)
  BY <1>4, <1>5 DEF NameAt
<1> QED BY <1>3, <1>5, <1>6 DEF OverFrame

\* writes it,
LEMMA SavesEpisode ==
  ASSUME ConvertInv, MergeTypeOK, SaveEpisode, out' = out
  PROVE  ConvertInv'
<1> USE DEF SaveEpisode, Store
<1>1. PICK n, edit : n = Head(todo) /\ edit = EditsOf(n)
  OBVIOUS
<1>2. edit.segs \in Seq(Segments) /\ Ascends(edit.segs)
  BY <1>1, EditsAre
<1>3. step = "notes" /\ step' = "open" /\ todo # <<>> /\ todo \in Seq(Numbers) /\ Distinct(todo)
  BY DEF ConvertInv, TodoInv, Reading, ConvertTypeOK
<1>4. PICK win \in Ranges : win = window /\ win.start <= win.end
  BY <1>3 DEF ConvertInv, ConvertTypeOK, TodoInv, Reading
<1>5. PICK notes \in Seq(Prompted) : notes = episode_segments(edit, win)
  BY <1>2, SegmentsTaken
<1>6. PICK size \in 0..Frames : size = win.end - win.start
  BY <1>4, InRange, FramesAssumption
<1>7. PICK rows \in [0..size-1 -> Int] : rows = column
  BY <1>3, <1>4, <1>6 DEF ConvertInv, NamesInv
<1>a. PICK tail \in Seq(Numbers) : tail = Tail(todo) /\ Distinct(tail) /\ Rest(todo, tail, n)
  BY <1>1, <1>3, RestIs
<1>8. /\ tail = Tail(todo) /\ tail \in Seq(Numbers) /\ Distinct(tail)
      /\ \A i \in DOMAIN tail : i + 1 \in DOMAIN todo /\ tail[i] = todo[i + 1] /\ tail[i] # n
      /\ \A i \in DOMAIN todo : i = 1 \/ (i - 1 \in DOMAIN tail /\ todo[i] = tail[i - 1])
      /\ 1 \in DOMAIN todo /\ todo[1] = n
  BY <1>a DEF Rest
<1>9. n \in Scanned(out) /\ n \in Numbers /\ out[n].of \in SourceEpisodes
  BY <1>8, ScannedAre DEF ConvertInv, TodoInv
<1>10. PICK row \in WrittenRows :
         row = [folder |-> n, of |-> out[n].of, window |-> win, column |-> rows, segs |-> notes]
  <2>1. rows \in Columns
    BY DEF Columns
  <2> QED BY <1>9, <2>1 DEF WrittenRows
<1>11. written \in Seq(WrittenRows) /\ written' = Append(written, row)
  BY <1>1, <1>4, <1>5, <1>7, <1>10 DEF ConvertInv, WrittenInv
<1>12. PICK c \in Nat : c = Len(written) /\ DOMAIN written = 1..c
  BY <1>11
<1>13. /\ written' \in Seq(WrittenRows) /\ DOMAIN written' = 1..c+1
       /\ \A k \in 1..c : written'[k] = written[k]
       /\ written'[c + 1] = row
  BY <1>11, <1>12
<1>14. \A k \in 1..c+1 : k \in 1..c \/ k = c + 1
  OBVIOUS
<1>15. row.folder = n /\ row.column = rows /\ row.window = win /\ row.segs = notes
  BY <1>10
<1>16. \A k \in 1..c : written[k].folder # n
  <2>1. \A k \in DOMAIN written : \A i \in DOMAIN todo : todo[i] # written[k].folder
    BY DEF ConvertInv, WrittenInv
  <2>2. 1 \in DOMAIN todo /\ todo[1] = n
    BY <1>8
  <2> QED BY <1>12, <2>1, <2>2
<1>17. \A k : EditsOf(k)' = EditsOf(k) /\ (KeepsFrames(k)' <=> KeepsFrames(k))
  BY DEF EditsOf, KeepsFrames
<1>18. StoreInv' /\ Scanned(out)' = Scanned(out)
  BY DEF ConvertInv, StoreInv, Scanned
<1>19. ConvertTypeOK'
  <2>1. window' \in Ranges
    BY FramesAssumption DEF Ranges, Span
  <2> QED BY <1>3, <1>8, <2>1 DEF ConvertInv, ConvertTypeOK
<1>20. TodoInv'
  BY <1>3, <1>8, <1>18 DEF ConvertInv, TodoInv, Reading
<1>21. WrittenInv'
  <2>0. /\ \A k, l \in 1..c : written[k].folder = written[l].folder => k = l
        /\ \A k \in 1..c : written[k].folder \in Scanned(out) /\ \A i \in DOMAIN todo : todo[i] # written[k].folder
    BY <1>12 DEF ConvertInv, WrittenInv
  <2>1. ASSUME NEW k \in 1..c+1, NEW l \in 1..c+1, written'[k].folder = written'[l].folder PROVE k = l
    <3>1. CASE k \in 1..c /\ l \in 1..c
      BY <1>13, <2>0, <2>1, <3>1
    <3>2. CASE k \in 1..c /\ l = c + 1
      BY <1>13, <1>15, <1>16, <2>1, <3>2
    <3>3. CASE k = c + 1 /\ l \in 1..c
      BY <1>13, <1>15, <1>16, <2>1, <3>3
    <3> QED BY <1>14, <3>1, <3>2, <3>3
  <2>2. ASSUME NEW k \in 1..c+1
        PROVE  written'[k].folder \in Scanned(out) /\ \A i \in DOMAIN tail : tail[i] # written'[k].folder
    <3>1. CASE k \in 1..c
      BY <1>8, <1>13, <2>0, <3>1
    <3>2. CASE k = c + 1
      BY <1>8, <1>9, <1>13, <1>15, <3>2
    <3> QED BY <1>14, <3>1, <3>2
  <2> QED BY <1>8, <1>13, <1>18, <2>1, <2>2 DEF WrittenInv
<1>22. NamesInv'
  <2>1. ASSUME n \notin disturbed
        PROVE  RowsSay(registry, rows, win, edit) /\ NotesSay(notes, rows, win, edit)
    <3>1. RowsSay(registry, rows, win, edit)
      BY <1>1, <1>3, <1>4, <1>7, <2>1 DEF ConvertInv, NamesInv
    <3>2. NotesSay(notes, rows, win, edit)
      BY <1>2, <1>5, <1>6, NotesAgree
    <3> QED BY <3>1, <3>2
  <2>2. \A k \in 1..c+1 : written'[k].folder \notin disturbed =>
       /\ RowsSay(registry, written'[k].column, written'[k].window, EditsOf(written'[k].folder))
       /\ NotesSay(written'[k].segs, written'[k].column, written'[k].window, EditsOf(written'[k].folder))
    BY <1>1, <1>12, <1>13, <1>14, <1>15, <2>1 DEF ConvertInv, NamesInv
  <2>3. UNCHANGED <<registry, stored, disturbed>> /\ Distinct(registry)
    BY DEF ConvertInv, NamesInv
  <2> QED BY <1>3, <1>13, <2>2, <2>3 DEF NamesInv, EditsOf
<1>23. KeptInv'
  <2>1. ASSUME NEW k \in Scanned(out) \ disturbed, \A i \in DOMAIN tail : tail[i] # k
        PROVE  KeepsFrames(k) <=> \E j \in 1..c+1 : written'[j].folder = k
    <3>1. CASE k = n
      <4>1. KeepsFrames(n)
        BY <1>1, <1>3, <2>1, <3>1 DEF ConvertInv, KeptInv, Reading
      <4>2. c + 1 \in 1..c+1
        BY <1>12
      <4> QED BY <1>13, <1>15, <3>1, <4>1, <4>2
    <3>2. CASE k # n
      <4>1. \A i \in DOMAIN todo : todo[i] # k
        BY <1>8, <2>1, <3>2
      <4>2. KeepsFrames(k) <=> \E j \in 1..c : written[j].folder = k
        BY <1>3, <1>12, <2>1, <4>1 DEF ConvertInv, KeptInv
      <4>3. 1..c \subseteq 1..c+1
        BY <1>12
      <4> QED BY <1>13, <1>14, <1>15, <3>2, <4>2, <4>3
    <3> QED BY <3>1, <3>2
  <2> QED BY <1>3, <1>8, <1>13, <1>17, <1>18, <2>1 DEF KeptInv, Reading
<1> QED BY <1>18, <1>19, <1>20, <1>21, <1>22, <1>23 DEF ConvertInv

\* and at the end the table of prompts,
LEMMA Finishes ==
  ASSUME ConvertInv, Finish, out' = out
  PROVE  ConvertInv'
<1> USE DEF Finish, Store
<1>1. registry \in Seq(Labels)
  BY DEF ConvertInv, ConvertTypeOK
<1>2. table' \in Seq(Labels \cup {NoLabel})
  <2>1. registry \in Seq(Labels \cup {NoLabel}) /\ <<NoLabel>> \in Seq(Labels \cup {NoLabel})
    BY <1>1
  <2>2. registry \o <<NoLabel>> \in Seq(Labels \cup {NoLabel}) /\ <<>> \in Seq(Labels \cup {NoLabel})
    BY <2>1
  <2> QED BY <2>2 DEF subtasks_table
<1>3. \A k : EditsOf(k)' = EditsOf(k) /\ (KeepsFrames(k)' <=> KeepsFrames(k))
  BY DEF EditsOf, KeepsFrames
<1>4. ConvertTypeOK' /\ StoreInv' /\ Scanned(out)' = Scanned(out)
  BY <1>2 DEF ConvertInv, ConvertTypeOK, StoreInv, Scanned
<1>5. TodoInv' /\ WrittenInv'
  BY <1>4 DEF ConvertInv, TodoInv, WrittenInv, Reading
<1>6. NamesInv'
  BY <1>3 DEF ConvertInv, NamesInv, RowsSay, NotesSay
<1>7. KeptInv'
  BY <1>3, <1>4 DEF ConvertInv, KeptInv, Reading
<1> QED BY <1>4, <1>5, <1>6, <1>7 DEF ConvertInv

\* No step of the merge takes a folder away.
LEMMA FoldersStay ==
  ASSUME MergeNext
  PROVE  DOMAIN out \subseteq DOMAIN out'
<1>1. ASSUME NEW m \in {"copy", "link", "move"}, Begin(m) PROVE out' = out
  BY <1>1 DEF Begin
<1>2. CASE MakeFolder
  BY <1>2 DEF MakeFolder, With
<1>3. ASSUME NEW file \in Placed, Place(file) PROVE DOMAIN out' = DOMAIN out
  BY <1>3 DEF Place
<1>4. CASE rewrite_hdf5
  BY <1>4 DEF rewrite_hdf5
<1>5. CASE rewrite_tasks
  BY <1>5 DEF rewrite_tasks
<1>6. CASE Consume \/ NextEpisode \/ WriteList \/ Die
  BY <1>6 DEF Consume, NextEpisode, WriteList, Die, Run, Ends
<1> QED BY <1>1, <1>2, <1>3, <1>4, <1>5, <1>6 DEF MergeNext

\* so that every step keeps the invariant, which says what the rows are.
LEMMA ConvertSteps == ConvertInv /\ MergeInv /\ [RawNext]_rawVars => ConvertInv'
<1> SUFFICES ASSUME ConvertInv, MergeInv, [RawNext]_rawVars PROVE ConvertInv'
  OBVIOUS
<1>1. MergeTypeOK
  BY DEF MergeInv
<1>2. CASE UNCHANGED allVars
  BY <1>2, ConvertStays DEF allVars, mergeVars
<1>3. CASE step = "idle" /\ MergeNext /\ UNCHANGED convertVars
  BY <1>3, FoldersStay, ConvertStays
<1>4. CASE OperatorEdits /\ UNCHANGED mergeVars
  <2>1. out' = out
    BY <1>4 DEF mergeVars
  <2> QED BY <1>1, <1>4, <2>1, StoresEdit DEF OperatorEdits
<1>5. CASE ConvertNext /\ UNCHANGED mergeVars
  <2>1. out' = out
    BY <1>5 DEF mergeVars
  <2> QED BY <1>1, <1>5, <2>1, Discovers, Trims, ReadsEpisode, SavesEpisode, Finishes DEF ConvertNext
<1> QED BY <1>2, <1>3, <1>4, <1>5 DEF RawNext, ToolsNext, rawVars

\* The reader of the finished table finds the prompt a row names.
LEMMA LooksUp ==
  ASSUME registry \in Seq(Labels), NEW row \in Int, NEW name, RowNames(registry, row, name)
  PROVE  LookUp(subtasks_table(registry), row) = name
<1>1. CASE registry = <<>>
  <2>1. DOMAIN registry = {} /\ subtasks_table(registry) = <<>>
    BY <1>1 DEF subtasks_table
  <2> QED BY <2>1 DEF LookUp, RowNames
<1>2. CASE registry # <<>>
  <2>1. PICK c \in Nat : c = Len(registry) /\ DOMAIN registry = 1..c
    OBVIOUS
  <2>2. PICK rows : rows = subtasks_table(registry) /\ rows = registry \o <<NoLabel>>
    BY <1>2 DEF subtasks_table
  <2>3. Len(rows) = c + 1 /\ rows # <<>> /\ rows[c + 1] = NoLabel /\ \A r \in 1..c : rows[r] = registry[r]
    BY <2>1, <2>2
  <2>4. CASE name = NoLabel
    <3>1. row = -1
      BY <2>4 DEF RowNames
    <3>2. LookUp(rows, row) = rows[Len(rows) + row + 1]
      BY <2>3, <3>1 DEF LookUp
    <3>3. Len(rows) + row + 1 = c + 1
      BY <2>3, <3>1
    <3> QED BY <2>2, <2>3, <2>4, <3>2, <3>3
  <2>5. CASE name # NoLabel
    <3>1. row >= 0 /\ row + 1 \in 1..c /\ registry[row + 1] = name
      BY <2>1, <2>5 DEF RowNames
    <3>2. LookUp(rows, row) = rows[row + 1]
      BY <2>3, <3>1 DEF LookUp
    <3> QED BY <2>2, <2>3, <3>1, <3>2
  <2> QED BY <2>4, <2>5
<1> QED BY <1>1, <1>2

\* At the end the table and the rows say what the edits say,
LEMMA RowsAreNamed == ConvertInv => RowsNameTheirSubtask
<1> SUFFICES ASSUME ConvertInv, step = "done", NEW k \in DOMAIN written, written[k].folder \notin disturbed,
                    NEW i \in DOMAIN written[k].column
             PROVE  LET segs == EditsOf(written[k].folder).segs
                        frame == written[k].window.start + i
                        over == {j \in DOMAIN segs : segs[j].label # NoLabel /\ segs[j].start <= frame /\ frame < segs[j].end}
                        name == IF over = {} THEN NoLabel ELSE segs[Max(over)].label IN
                    /\ LookUp(table, written[k].column[i]) = name
                    /\ name # NoLabel => \E j \in DOMAIN written[k].segs :
                         LET note == written[k].segs[j] IN note.label = name /\ note.start <= i /\ i < note.end
  BY DEF RowsNameTheirSubtask
<1>1. PICK name : name = NameAt(EditsOf(written[k].folder).segs, written[k].window.start + i)
  OBVIOUS
<1>2. RowNames(registry, written[k].column[i], name)
  BY <1>1 DEF ConvertInv, NamesInv, RowsSay
<1>3. name # NoLabel => \E j \in DOMAIN written[k].segs :
        written[k].segs[j].label = name /\ written[k].segs[j].start <= i /\ i < written[k].segs[j].end
  BY <1>1 DEF ConvertInv, NamesInv, NotesSay
<1>4. written[k].column[i] \in Int
  <2>1. PICK row \in WrittenRows : row = written[k]
    BY DEF ConvertInv, WrittenInv
  <2>2. PICK rows \in Columns : rows = row.column
    BY DEF WrittenRows
  <2> QED BY <2>1, <2>2 DEF Columns
<1>5. LookUp(table, written[k].column[i]) = name
  <2>1. registry \in Seq(Labels) /\ table = subtasks_table(registry)
    BY DEF ConvertInv, ConvertTypeOK, NamesInv
  <2> QED BY <1>2, <1>4, <2>1, LooksUp
<1> QED BY <1>1, <1>3, <1>5 DEF NameAt, OverFrame

\* and the episodes written are those the edits keep.
LEMMA KeptAreWritten == ConvertInv => KeptIsWritten
<1> SUFFICES ASSUME ConvertInv, step = "done", NEW n \in Scanned(out) \ disturbed
             PROVE  Cardinality({k \in DOMAIN written : written[k].folder = n}) = IF KeepsFrames(n) THEN 1 ELSE 0
  BY DEF KeptIsWritten, KeepsFrames
<1> DEFINE as == {k \in DOMAIN written : written[k].folder = n}
<1>1. KeepsFrames(n) <=> \E k \in DOMAIN written : written[k].folder = n
  <2>1. DOMAIN todo = {}
    BY DEF ConvertInv, TodoInv
  <2> QED BY <2>1 DEF ConvertInv, KeptInv
<1>2. CASE ~KeepsFrames(n)
  <2>1. as = {}
    BY <1>1, <1>2
  <2> QED BY <1>2, <2>1, FS_EmptySet
<1>3. CASE KeepsFrames(n)
  <2>1. PICK k \in DOMAIN written : written[k].folder = n
    BY <1>1, <1>3
  <2>2. as = {k}
    BY <2>1 DEF ConvertInv, WrittenInv
  <2> QED BY <1>3, <2>2, FS_Singleton
<1> QED BY <1>2, <1>3

\* Whatever is recorded, merged and edited, with whatever labels, and however the edits
\* come between the converter's readings: an episode whose edits did not change since is
\* written once with the frames they keep, or left out when they keep none, each of its
\* rows names the prompt of the last segment over its frame in the finished table, and
\* nothing where there is none, and its annotations say the same
\* (convert_to_lerobot.py:180-235, :380-580, store.py:240-290).
THEOREM RowsFollow == RawSpec => []RowsFollowEdits
<1>1. RawInit => MergeInv /\ ConvertInv
  BY MergeStarts, ConvertStarts DEF RawInit, ToolsInit
<1>2. (MergeInv /\ ConvertInv) /\ [RawNext]_rawVars => (MergeInv /\ ConvertInv)'
  <2>1. [RawNext]_rawVars => MergeNext \/ UNCHANGED mergeVars
    BY MergeActions DEF rawVars, allVars
  <2> QED BY <2>1, MergeSteps, MergeStops, ConvertSteps
<1>3. MergeInv /\ ConvertInv => RowsFollowEdits
  BY RowsAreNamed, KeptAreWritten DEF ConvertInv, RowsFollowEdits
<1> QED BY <1>1, <1>2, <1>3, PTL DEF RawSpec

USE MainAssumption, RecordingsAssumption DEF MainAssumption, RecordingsAssumption

-----------------------------------------------------------------------------
(* The copies of videos that browsers can play.                            *)

\* A file lacks two packets at most, or a check let it pass without comparing them.
Fit(file) == file.blind \/ Near(file.packets, Lengths[file.of])
\* A copy is of the recording it is named after or of a later one; one that is served is fit.
NewInv == \A r \in Recordings : copies[r] # NoFile => copies[r].of >= r
Good(r) == copies[r] # NoFile => Fit(copies[r])
Active == {"count", "look", "lock", "open"} \cup Locked

\* A request is of a server that runs, and its copy is named after a recording there was.
WatchInv ==
  \A w \in Viewers :
    view[w].pc \in Active => view[w].server \in swept /\ view[w].key <= recording
\* One request at most holds the lock of a copy.
LockInv ==
  \A v, w \in Viewers :
    /\ view[v].pc \in Locked /\ view[w].pc \in Locked
    /\ view[v].server = view[w].server /\ view[v].key = view[w].key
    => v = w
\* What is in the place of the part file at each step of the one that holds the lock.
PartInv ==
  \A w \in Viewers :
    LET part == parts[view[w].server][view[w].key] IN
    /\ view[w].pc \in {"again", "drop", "encode"} => part = NoFile
    /\ view[w].pc \in {"encoding", "verify", "move"} /\ part # NoFile => part.of >= view[w].key
    /\ view[w].pc = "move" /\ part # NoFile => Fit(part)
\* What is about to be served.
OpenInv ==
  \A w \in Viewers :
    /\ view[w].pc = "open" \/ (view[w].pc = "clean" /\ view[w].got # Original) => Good(view[w].key)
    /\ view[w].pc \in ({"idle"} \cup Active) \ {"clean"} => view[w].got = NoFile
    /\ view[w].pc = "clean" => view[w].got \in {NoFile, Original}
ProxyInv == ProxyTypeOK /\ NewInv /\ WatchInv /\ LockInv /\ PartInv /\ OpenInv /\ ServedWhole /\ NoOrphans

ProxyMove ==
  \/ \E w \in Viewers : Serve(w)
  \/ \E s \in Servers : Sweep(s) \/ ProxyCrash(s)
  \/ Record

Stages == {"idle", "count", "look", "lock", "open", "shown"} \cup Locked
\* What a request can be.
Views == [pc : Stages, server : Servers, key : Recordings, expect : {0} \cup Recordings,
          got : Files \cup {Original}]

\* The type invariant, with its parts named.
Typed ==
  /\ recording \in Recordings /\ swept \subseteq Servers /\ copies \in [Recordings -> Files]
  /\ parts \in [Servers -> [Recordings -> Files]] /\ view \in [Viewers -> Views]
LEMMA TypedIs == (ProxyTypeOK <=> Typed) /\ (ProxyTypeOK' <=> Typed')
BY DEF ProxyTypeOK, Views, Stages, Typed

\* Every assignment to a request keeps what it can be.
LEMMA ViewsStay ==
  ASSUME view \in [Viewers -> Views], NEW w \in Viewers, NEW to \in Stages
  PROVE  /\ GoTo(w, to) => view' \in [Viewers -> Views]
         /\ \A file \in Files \cup {Original} : Got(w, to, file) => view' \in [Viewers -> Views]
<1> DEFINE Answers == Files \cup {Original}
<1>1. Views = [pc : Stages, server : Servers, key : Recordings, expect : {0} \cup Recordings, got : Answers]
  BY DEF Views
<1> HIDE DEF Answers
<1>2. ASSUME NEW file \in Answers PROVE [[view[w] EXCEPT !.pc = to] EXCEPT !.got = file] \in Views
  BY <1>1
<1>3. [view[w] EXCEPT !.pc = to] \in Views
  BY <1>1
<1>4. GoTo(w, to) => view' \in [Viewers -> Views]
  BY <1>3 DEF GoTo
<1>5. ASSUME NEW file \in Answers, Got(w, to, file) PROVE view' \in [Viewers -> Views]
  <2>1. [view[w] EXCEPT !.pc = to, !.got = file] \in Views
    BY <1>1
  <2> QED BY <1>5, <2>1 DEF Got
<1> QED BY <1>4, <1>5 DEF Answers

\* Every assignment to the copies and to the part files keeps what they can be.
LEMMA FilesStayTyped ==
  ASSUME ProxyTypeOK, NEW w \in Viewers, NEW file \in Files
  PROVE  /\ PartBecomes(w, file) => parts' \in [Servers -> [Recordings -> Files]]
         /\ CopyBecomes(w, file) => copies' \in [Recordings -> Files]
<1>1. /\ copies \in [Recordings -> Files] /\ parts \in [Servers -> [Recordings -> Files]]
      /\ view[w].server \in Servers /\ view[w].key \in Recordings
  BY DEF ProxyTypeOK
<1> HIDE DEF Files, Recordings
<1>2. PartBecomes(w, file) => parts' \in [Servers -> [Recordings -> Files]]
  <2>1. [parts[view[w].server] EXCEPT ![view[w].key] = file] \in [Recordings -> Files]
    BY <1>1
  <2> QED BY <1>1, <2>1 DEF PartBecomes
<1>3. CopyBecomes(w, file) => copies' \in [Recordings -> Files]
  BY <1>1 DEF CopyBecomes
<1> QED BY <1>2, <1>3

\* A check changes of a file only what is known of it.
LEMMA AcceptedFile ==
  ASSUME NEW file \in Files \ {NoFile}, NEW count, NEW expect
  PROVE  /\ Accepted(file, count, expect) \in Files
         /\ Accepted(file, count, expect).of = file.of
         /\ Accepted(file, count, expect).packets = file.packets
         /\ Accepted(file, count, expect).blind = (file.blind \/ count = 0 \/ expect # file.of)
<1>1. PICK o \in Recordings, n \in Nat, b \in BOOLEAN : file = [of |-> o, packets |-> n, blind |-> b]
  BY DEF Files
<1> DEFINE flag == b \/ count = 0 \/ expect # o
<1>2. Accepted(file, count, expect) = [of |-> o, packets |-> n, blind |-> flag]
  BY <1>1 DEF Accepted
<1>3. flag \in BOOLEAN
  OBVIOUS
<1> HIDE DEF flag
<1>4. [of |-> o, packets |-> n, blind |-> flag] \in Files
  BY <1>3 DEF Files
<1> QED BY <1>1, <1>2, <1>4 DEF flag

\* What a check lets pass is fit, also when it could compare nothing.
LEMMA AcceptedFit ==
  ASSUME NEW file \in Files, NEW count \in Probed(file), NEW expect, IsComplete(file, count, expect)
  PROVE  file # NoFile /\ Fit(Accepted(file, count, expect))
<1>1. file # NoFile
  BY DEF IsComplete
<1>2. CASE count = 0 \/ expect # file.of
  BY <1>1, <1>2, AcceptedFile DEF Fit
<1>3. CASE count # 0 /\ expect = file.of
  <2>1. count = file.packets
    BY <1>1, <1>3 DEF Probed
  <2>2. file.of \in Recordings
    BY <1>1 DEF Files
  <2>3. expect # 0
    BY <1>3, <2>2 DEF Recordings
  <2>4. Near(file.packets, Lengths[file.of])
    BY <1>3, <2>1, <2>3 DEF IsComplete
  <2> QED BY <1>1, <2>4, AcceptedFile DEF Fit
<1> QED BY <1>1, <1>2, <1>3

\* What a request may put into a file.
LEMMA FilesKnown ==
  ASSUME ProxyTypeOK, NEW w \in Viewers
  PROVE  /\ NoFile \in Files /\ Part(w) \in Files /\ copies[view[w].key] \in Files
         /\ Copy(recording, 0) \in Files /\ Copy(recording, 0).of = recording
         /\ Part(w) # NoFile => \A n \in PacketCounts : /\ [Part(w) EXCEPT !.packets = n] \in Files
                                                /\ [Part(w) EXCEPT !.packets = n].of = Part(w).of
<1>1. recording \in Recordings /\ copies \in [Recordings -> Files] /\ parts \in [Servers -> [Recordings -> Files]]
  BY DEF ProxyTypeOK
<1>2. view[w].server \in Servers /\ view[w].key \in Recordings
  BY DEF ProxyTypeOK
<1>3. Part(w) \in Files /\ copies[view[w].key] \in Files
  <2> HIDE DEF Files, Recordings
  <2> QED BY <1>1, <1>2 DEF Part
<1>4. ASSUME Part(w) # NoFile, NEW n \in PacketCounts
      PROVE  [Part(w) EXCEPT !.packets = n] \in Files /\ [Part(w) EXCEPT !.packets = n].of = Part(w).of
  <2>1. Part(w) \in [of : Recordings, packets : Nat, blind : BOOLEAN] /\ n \in Nat
    BY <1>3, <1>4 DEF Files
  <2> QED BY <2>1 DEF Files
<1>5. NoFile \in Files /\ Copy(recording, 0) \in Files /\ Copy(recording, 0).of = recording
  BY <1>1 DEF Files, Copy
<1> QED BY <1>3, <1>4, <1>5

\* A request that ends with its server has nothing to show.
LEMMA IdleShown ==
  \A x : [[pc |-> "idle", server |-> x, key |-> 1, expect |-> 1, got |-> NoFile] EXCEPT !.pc = "shown"]
         = [pc |-> "shown", server |-> x, key |-> 1, expect |-> 1, got |-> NoFile]
OBVIOUS
LEMMA EndsShown == ASSUME Servers # {} PROVE [Idle EXCEPT !.pc = "shown"] \in Views
<1>1. (CHOOSE x \in Servers : TRUE) \in Servers
  BY Zenon
<1>2. 1 \in Recordings /\ NoFile \in Files
  BY DEF Recordings, Files
<1> DEFINE Answers == Files \cup {Original}
           one == CHOOSE x \in Servers : TRUE
<1>3. NoFile \in Answers
  BY <1>2
<1>4. Views = [pc : Stages, server : Servers, key : Recordings, expect : {0} \cup Recordings, got : Answers]
  BY DEF Views
<1>5. "shown" \in Stages
  BY DEF Stages
<1>6. Idle = [pc |-> "idle", server |-> one, key |-> 1, expect |-> 1, got |-> NoFile]
  BY DEF Idle
<1>7. one \in Servers
  BY <1>1
<1> HIDE DEF Known, one
<1> QED BY <1>2, <1>3, <1>4, <1>5, <1>6, <1>7

\* The values every variable takes, after any step.
LEMMA ProxyTypes ==
  ASSUME ProxyTypeOK, ProxyMove PROVE ProxyTypeOK'
<1>0. Typed
  BY TypedIs
<1> SUFFICES Typed'
  BY TypedIs
<1>1. CASE Record
  BY <1>0, <1>1 DEF Typed, Record, Recordings
<1>2. ASSUME NEW s \in Servers, Sweep(s) PROVE Typed'
  <2>1. parts' = [p \in Servers |-> [r \in Recordings |-> NoFile]] /\ NoFile \in Files
    BY <1>2 DEF Sweep, Files
  <2>2. parts' \in [Servers -> [Recordings -> Files]]
    <3> HIDE DEF Files, Recordings
    <3> QED BY <2>1
  <2> QED BY <1>0, <1>2, <2>2 DEF Typed, Sweep
<1>3. ASSUME NEW s \in Servers, ProxyCrash(s) PROVE Typed'
  <2>1. [Idle EXCEPT !.pc = "shown"] \in Views
    BY EndsShown
  <2>2. view' \in [Viewers -> Views]
    BY <1>0, <1>3, <2>1 DEF Typed, ProxyCrash
  <2> QED BY <1>0, <1>3, <2>2 DEF Typed, ProxyCrash
<1>4. ASSUME NEW w \in Viewers, Serve(w) PROVE Typed'
  <2> USE DEF Stages, Locked
  <2>1. ASSUME NEW to \in Stages PROVE GoTo(w, to) => view' \in [Viewers -> Views]
    BY <1>0, ViewsStay DEF Typed
  <2>2. ASSUME NEW to \in Stages, NEW file \in Files \cup {Original} PROVE Got(w, to, file) => view' \in [Viewers -> Views]
    BY <1>0, ViewsStay DEF Typed
  <2>3. UNCHANGED <<recording, swept>> => recording' \in Recordings /\ swept' \subseteq Servers
    BY <1>0 DEF Typed
  <2>4. UNCHANGED <<copies, parts>> => copies' \in [Recordings -> Files] /\ parts' \in [Servers -> [Recordings -> Files]]
    BY <1>0 DEF Typed
  <2> SUFFICES /\ UNCHANGED <<recording, swept>> /\ copies' \in [Recordings -> Files]
               /\ parts' \in [Servers -> [Recordings -> Files]] /\ view' \in [Viewers -> Views]
    BY <2>3 DEF Typed
  <2>5. ASSUME NEW file \in Files PROVE /\ PartBecomes(w, file) => parts' \in [Servers -> [Recordings -> Files]]
                                        /\ CopyBecomes(w, file) => copies' \in [Recordings -> Files]
    BY FilesStayTyped
  <2>6. /\ NoFile \in Files /\ Part(w) \in Files /\ copies[view[w].key] \in Files
        /\ Copy(recording, 0) \in Files
        /\ Part(w) # NoFile => \A n \in PacketCounts : [Part(w) EXCEPT !.packets = n] \in Files
    BY FilesKnown
  <2>7. ASSUME NEW s \in Servers, Watch(w, s) PROVE view' \in [Viewers -> Views]
    <3>1. recording \in Recordings /\ view \in [Viewers -> Views] /\ "count" \in Stages
      BY <1>0 DEF Typed
    <3>2. [view[w] EXCEPT !.pc = "count", !.server = s, !.key = recording] \in Views
      <4> HIDE DEF Stages, Recordings, Files
      <4> QED BY <3>1 DEF Views
    <3> QED BY <2>7, <3>1, <3>2 DEF Watch
  <2>8. CASE Count(w)
    <3>1. recording \in Recordings /\ view \in [Viewers -> Views] /\ "look" \in Stages
      BY <1>0 DEF Typed
    <3>2. ASSUME NEW e \in {0, recording} PROVE [view[w] EXCEPT !.pc = "look", !.expect = e] \in Views
      <4> HIDE DEF Stages, Recordings, Files
      <4> QED BY <3>1, <3>2 DEF Views
    <3>3. view' \in [Viewers -> Views]
      <4>1. PICK e \in {0, recording} : view' = [view EXCEPT ![w] = [@ EXCEPT !.pc = "look", !.expect = e]]
        BY <2>8 DEF Count
      <4> QED BY <3>1, <3>2, <4>1
    <3> QED BY <2>4, <2>8, <3>3 DEF Count, Kept
  <2> HIDE DEF Stages, Locked
  <2>9. {"open", "lock", "again", "drop", "encode", "encoding", "verify", "move", "clean", "shown"} \subseteq Stages
    BY DEF Stages, Locked
  <2>10. CASE Look(w) \/ Enter(w) \/ LookAgain(w)
    <3> DEFINE file == copies[view[w].key]
    <3>1. CASE Enter(w)
      BY <2>1, <2>4, <2>9, <3>1 DEF Enter, Kept
    <3>2. ASSUME NEW to \in {"lock", "drop"}, CheckCopy(w, to)
          PROVE  UNCHANGED <<recording, swept, parts>> /\ copies' \in [Recordings -> Files] /\ view' \in [Viewers -> Views]
      <4>1. PICK count \in Probed(file) :
              IF IsComplete(file, count, view[w].expect)
              THEN GoTo(w, "open") /\ CopyBecomes(w, Accepted(file, count, view[w].expect))
              ELSE GoTo(w, to) /\ UNCHANGED copies
        BY <3>2 DEF CheckCopy
      <4>2. view' \in [Viewers -> Views]
        BY <2>1, <2>9, <4>1
      <4>3. copies' \in [Recordings -> Files]
        <5>1. CASE IsComplete(file, count, view[w].expect)
          <6>1. Accepted(file, count, view[w].expect) \in Files
            BY <2>6, <5>1, AcceptedFile DEF IsComplete
          <6> QED BY <2>5, <4>1, <5>1, <6>1
        <5>2. CASE ~IsComplete(file, count, view[w].expect)
          BY <1>0, <4>1, <5>2 DEF Typed
        <5> QED BY <5>1, <5>2
      <4> QED BY <3>2, <4>2, <4>3 DEF CheckCopy, Kept
    <3> QED BY <1>0, <2>10, <3>1, <3>2 DEF Look, LookAgain, Typed
  <2>11. CASE DropOld(w)
    BY <1>0, <2>1, <2>5, <2>6, <2>9, <2>11 DEF Typed, DropOld, Kept
  <2>12. CASE Encode(w)
    BY <1>0, <2>1, <2>5, <2>6, <2>9, <2>12 DEF Typed, Encode, Kept
  <2>13. CASE Encoded(w)
    <3>1. parts' \in [Servers -> [Recordings -> Files]]
      BY <1>0, <2>5, <2>6, <2>13 DEF Typed, Encoded
    <3> QED BY <1>0, <2>1, <2>9, <2>13, <3>1 DEF Typed, Encoded, Kept
  <2>14. CASE EncodeFails(w) \/ Verify(w)
    <3>1. CASE EncodeFails(w)
      BY <2>2, <2>4, <2>9, <3>1 DEF EncodeFails, Kept
    <3>2. CASE Verify(w)
      <4>1. PICK count \in Probed(Part(w)) :
              IF IsComplete(Part(w), count, view[w].expect)
              THEN GoTo(w, "move") /\ PartBecomes(w, Accepted(Part(w), count, view[w].expect))
              ELSE Got(w, "clean", Original) /\ UNCHANGED parts
        BY <3>2 DEF Verify
      <4>2. CASE IsComplete(Part(w), count, view[w].expect)
        <5>1. Accepted(Part(w), count, view[w].expect) \in Files
          BY <2>6, <4>2, AcceptedFile DEF IsComplete
        <5>2. view' \in [Viewers -> Views] /\ parts' \in [Servers -> [Recordings -> Files]]
          BY <2>1, <2>5, <2>9, <4>1, <4>2, <5>1
        <5> QED BY <1>0, <3>2, <5>2 DEF Typed, Verify, Kept
      <4>3. CASE ~IsComplete(Part(w), count, view[w].expect)
        <5>1. view' \in [Viewers -> Views] /\ UNCHANGED parts
          BY <2>2, <2>9, <4>1, <4>3
        <5> QED BY <1>0, <3>2, <5>1 DEF Typed, Verify, Kept
      <4> QED BY <4>2, <4>3
    <3> QED BY <2>14, <3>1, <3>2
  <2>15. CASE Move(w)
    <3>1. CASE Part(w) = NoFile
      BY <2>2, <2>4, <2>9, <2>15, <3>1 DEF Move, Kept
    <3>2. CASE Part(w) # NoFile
      BY <2>1, <2>5, <2>6, <2>9, <2>15, <3>2 DEF Move, Kept
    <3> QED BY <3>1, <3>2
  <2>16. CASE Clean(w)
    <3>1. view' \in [Viewers -> Views]
      BY <2>1, <2>9, <2>16 DEF Clean
    <3> QED BY <1>0, <2>5, <2>6, <2>16, <3>1 DEF Typed, Clean, Kept
  <2>17. CASE OpenCopy(w)
    BY <2>2, <2>4, <2>6, <2>9, <2>17 DEF OpenCopy, Kept
  <2>18. ASSUME NEW s \in Servers, Watch(w, s) PROVE UNCHANGED <<recording, swept, copies, parts>>
    BY <2>18 DEF Watch, Kept
  <2> QED BY <1>4, <2>4, <2>7, <2>8, <2>10, <2>11, <2>12, <2>13, <2>14, <2>15, <2>16, <2>17, <2>18 DEF Serve
<1> QED BY <1>1, <1>2, <1>3, <1>4 DEF ProxyMove

\* What a request does to itself and to the files.
Goes(w, from, to) ==
  /\ view[w].pc = from /\ view'[w].pc = to
  /\ view'[w].server = view[w].server /\ view'[w].key = view[w].key
Keeps(w) == view'[w].expect = view[w].expect /\ view'[w].got = view[w].got
CellIs(w, file) ==
  \A s \in Servers, k \in Recordings :
    parts'[s][k] = IF s = view[w].server /\ k = view[w].key THEN file ELSE parts[s][k]
CopyIs(w, file) == \A k \in Recordings : copies'[k] = IF k = view[w].key THEN file ELSE copies[k]
FilesStay == UNCHANGED <<copies, parts>>
PartOf(w) == parts[view[w].server][view[w].key]

\* What one step of a request does.
Comes(w) ==
  /\ view[w].pc = "idle" /\ view'[w].pc = "count" /\ view'[w].server \in swept /\ view'[w].key = recording
  /\ Keeps(w) /\ FilesStay
Counts(w) ==
  Goes(w, "count", "look") /\ view'[w].got = view[w].got /\ FilesStay
Waits(w) ==
  Goes(w, "look", "lock") /\ Keeps(w) /\ FilesStay
Finds(w) ==
  /\ Goes(w, "look", "open") \/ Goes(w, "again", "open")
  /\ Keeps(w) /\ UNCHANGED parts
  /\ LET file == copies[view[w].key] IN \E count \in Probed(file) :
       IsComplete(file, count, view[w].expect) /\ CopyIs(w, Accepted(file, count, view[w].expect))
Enters(w) ==
  Goes(w, "lock", "again") /\ ~Held(view[w].server, view[w].key) /\ Keeps(w) /\ FilesStay
Misses(w) ==
  Goes(w, "again", "drop") /\ Keeps(w) /\ FilesStay
Drops(w) ==
  Goes(w, "drop", "encode") /\ Keeps(w) /\ UNCHANGED parts /\ CopyIs(w, NoFile)
Encodes(w) ==
  /\ Keeps(w) /\ UNCHANGED copies
  /\ \E file \in Files :
       /\ CellIs(w, file)
       /\ \/ Goes(w, "encode", "encoding") /\ file.of = recording
          \/ Goes(w, "encoding", "verify") /\ (file # NoFile => PartOf(w) # NoFile /\ file.of = PartOf(w).of)
GivesUp(w) ==
  /\ Goes(w, "encoding", "clean") \/ Goes(w, "verify", "clean") \/ Goes(w, "move", "clean")
  /\ view'[w].got = Original /\ view'[w].expect = view[w].expect /\ FilesStay
Verifies(w) ==
  /\ Goes(w, "verify", "move") /\ Keeps(w) /\ UNCHANGED copies
  /\ \E count \in Probed(PartOf(w)) : /\ IsComplete(PartOf(w), count, view[w].expect)
                                  /\ CellIs(w, Accepted(PartOf(w), count, view[w].expect))
Moves(w) ==
  /\ Goes(w, "move", "clean") /\ PartOf(w) # NoFile /\ Keeps(w)
  /\ CellIs(w, NoFile) /\ CopyIs(w, PartOf(w))
Cleans(w) ==
  /\ Goes(w, "clean", IF view[w].got = Original THEN "shown" ELSE "open")
  /\ Keeps(w) /\ CellIs(w, NoFile) /\ UNCHANGED copies
Opens(w) ==
  /\ Goes(w, "open", "shown") /\ view'[w].got = copies[view[w].key]
  /\ view'[w].expect = view[w].expect /\ FilesStay
Effect(w) ==
  \/ Comes(w) \/ Counts(w) \/ Waits(w) \/ Finds(w) \/ Enters(w) \/ Misses(w) \/ Drops(w)
  \/ Encodes(w) \/ GivesUp(w) \/ Verifies(w) \/ Moves(w) \/ Cleans(w) \/ Opens(w)

OneMoves(w) == Effect(w) /\ UNCHANGED <<recording, swept>> /\ \A v \in Viewers \ {w} : view'[v] = view[v]

\* A step of a request has one of the effects above; the other requests stay.
LEMMA Effects == ASSUME ProxyTypeOK, NEW w \in Viewers, Serve(w) PROVE OneMoves(w)
<1> DEFINE Others == UNCHANGED <<recording, swept>> /\ \A v \in Viewers \ {w} : view'[v] = view[v]
<1> USE DEF OneMoves
<1>1. ASSUME NEW from, NEW to, At(w, from), GoTo(w, to)
      PROVE  Goes(w, from, to) /\ Keeps(w) /\ \A v \in Viewers \ {w} : view'[v] = view[v]
  BY ProxyTypeOK, <1>1 DEF ProxyTypeOK, At, GoTo, Goes, Keeps
<1>2. ASSUME NEW from, NEW to, NEW file, At(w, from), Got(w, to, file)
      PROVE  /\ Goes(w, from, to) /\ view'[w].got = file /\ view'[w].expect = view[w].expect
             /\ \A v \in Viewers \ {w} : view'[v] = view[v]
  BY ProxyTypeOK, <1>2 DEF ProxyTypeOK, At, Got, Goes
<1>3. ASSUME NEW file, PartBecomes(w, file) PROVE CellIs(w, file)
  BY ProxyTypeOK, <1>3 DEF ProxyTypeOK, PartBecomes, CellIs
<1>4. ASSUME NEW file, CopyBecomes(w, file) PROVE CopyIs(w, file)
  BY ProxyTypeOK, <1>4 DEF ProxyTypeOK, CopyBecomes, CopyIs
<1>5. Part(w) = PartOf(w) /\ PartOf(w) \in Files
  BY ProxyTypeOK DEF ProxyTypeOK, Part, PartOf
<1>6. ASSUME NEW s \in Servers, Watch(w, s) PROVE Effect(w) /\ Others
  BY ProxyTypeOK, <1>6 DEF ProxyTypeOK, Watch, At, Kept, Effect, Comes, Keeps, FilesStay
<1>7. CASE Count(w)
  <2>1. PICK e \in {0, recording} : view' = [view EXCEPT ![w] = [@ EXCEPT !.pc = "look", !.expect = e]]
    BY <1>7 DEF Count
  <2> QED BY ProxyTypeOK, <1>7, <2>1 DEF ProxyTypeOK, Count, At, Kept, Effect, Counts, Goes, FilesStay
<1>8. CASE Look(w)
  <2> DEFINE file == copies[view[w].key]
  <2>1. PICK count \in Probed(file) :
          IF IsComplete(file, count, view[w].expect)
          THEN GoTo(w, "open") /\ CopyBecomes(w, Accepted(file, count, view[w].expect))
          ELSE GoTo(w, "lock") /\ UNCHANGED copies
    BY <1>8 DEF Look, CheckCopy
  <2>2. CASE IsComplete(file, count, view[w].expect)
    <3>1. Goes(w, "look", "open") /\ Keeps(w) /\ \A v \in Viewers \ {w} : view'[v] = view[v]
      BY <1>1, <1>8, <2>1, <2>2 DEF Look
    <3>2. CopyIs(w, Accepted(file, count, view[w].expect))
      BY <1>4, <2>1, <2>2
    <3>3. Finds(w)
      BY <1>8, <2>2, <3>1, <3>2 DEF Look, CheckCopy, Finds
    <3> QED BY <1>8, <3>1, <3>3 DEF Look, CheckCopy, Kept, Effect
  <2>3. CASE ~IsComplete(file, count, view[w].expect)
    <3>1. Goes(w, "look", "lock") /\ Keeps(w) /\ \A v \in Viewers \ {w} : view'[v] = view[v]
      BY <1>1, <1>8, <2>1, <2>3 DEF Look
    <3>2. FilesStay
      BY <1>8, <2>1, <2>3 DEF Look, CheckCopy, FilesStay
    <3> QED BY <1>8, <3>1, <3>2 DEF Look, CheckCopy, Kept, Effect, Waits
  <2> QED BY <2>2, <2>3
<1>9. CASE Enter(w)
  <2>1. Goes(w, "lock", "again") /\ Keeps(w) /\ \A v \in Viewers \ {w} : view'[v] = view[v]
    BY <1>1, <1>9 DEF Enter
  <2> QED BY <1>9, <2>1 DEF Enter, Kept, Effect, Enters, FilesStay
<1>10. CASE LookAgain(w)
  <2> DEFINE file == copies[view[w].key]
  <2>1. PICK count \in Probed(file) :
          IF IsComplete(file, count, view[w].expect)
          THEN GoTo(w, "open") /\ CopyBecomes(w, Accepted(file, count, view[w].expect))
          ELSE GoTo(w, "drop") /\ UNCHANGED copies
    BY <1>10 DEF LookAgain, CheckCopy
  <2>2. CASE IsComplete(file, count, view[w].expect)
    <3>1. Goes(w, "again", "open") /\ Keeps(w) /\ \A v \in Viewers \ {w} : view'[v] = view[v]
      BY <1>1, <1>10, <2>1, <2>2 DEF LookAgain
    <3>2. CopyIs(w, Accepted(file, count, view[w].expect))
      BY <1>4, <2>1, <2>2
    <3>3. Finds(w)
      BY <1>10, <2>2, <3>1, <3>2 DEF LookAgain, CheckCopy, Finds
    <3> QED BY <1>10, <3>1, <3>3 DEF LookAgain, CheckCopy, Kept, Effect
  <2>3. CASE ~IsComplete(file, count, view[w].expect)
    <3>1. Goes(w, "again", "drop") /\ Keeps(w) /\ \A v \in Viewers \ {w} : view'[v] = view[v]
      BY <1>1, <1>10, <2>1, <2>3 DEF LookAgain
    <3>2. FilesStay
      BY <1>10, <2>1, <2>3 DEF LookAgain, CheckCopy, FilesStay
    <3> QED BY <1>10, <3>1, <3>2 DEF LookAgain, CheckCopy, Kept, Effect, Misses
  <2> QED BY <2>2, <2>3
<1>11. CASE DropOld(w)
  <2>1. Goes(w, "drop", "encode") /\ Keeps(w) /\ \A v \in Viewers \ {w} : view'[v] = view[v]
    BY <1>1, <1>11 DEF DropOld
  <2>2. CopyIs(w, NoFile)
    BY <1>4, <1>11 DEF DropOld
  <2> QED BY <1>11, <2>1, <2>2 DEF DropOld, Kept, Effect, Drops
<1>12. CASE Encode(w)
  <2>1. Copy(recording, 0) \in Files /\ Copy(recording, 0).of = recording
    BY FilesKnown
  <2>2. Goes(w, "encode", "encoding") /\ Keeps(w) /\ Others /\ UNCHANGED copies
    BY <1>1, <1>12 DEF Encode, At, Kept
  <2> QED BY <1>3, <1>12, <2>1, <2>2 DEF Encode, Effect, Encodes
<1>13. CASE Encoded(w)
  <2>1. \E file \in Files : CellIs(w, file) /\ (file # NoFile => PartOf(w) # NoFile /\ file.of = PartOf(w).of)
    <3>1. CASE Part(w) = NoFile
      <4>1. CellIs(w, NoFile)
        BY <1>5, <1>13, <3>1 DEF Encoded, CellIs, PartOf
      <4> QED BY <4>1 DEF Files
    <3>2. CASE Part(w) # NoFile
      <4>1. PICK n \in PacketCounts : PartBecomes(w, [Part(w) EXCEPT !.packets = n])
        BY <1>13, <3>2 DEF Encoded
      <4>2. [Part(w) EXCEPT !.packets = n] \in Files /\ [Part(w) EXCEPT !.packets = n].of = Part(w).of
        BY <3>2, FilesKnown
      <4> QED BY <1>3, <1>5, <3>2, <4>1, <4>2
    <3> QED BY <3>1, <3>2
  <2>2. Goes(w, "encoding", "verify") /\ Keeps(w) /\ Others /\ UNCHANGED copies
    BY <1>1, <1>13 DEF Encoded, At, Kept
  <2> QED BY <2>1, <2>2 DEF Effect, Encodes
<1>14. CASE EncodeFails(w)
  BY <1>2, <1>14 DEF EncodeFails, At, Kept, Effect, GivesUp, FilesStay
<1>15. CASE Verify(w)
  <2>1. PICK count \in Probed(Part(w)) :
          IF IsComplete(Part(w), count, view[w].expect)
          THEN GoTo(w, "move") /\ PartBecomes(w, Accepted(Part(w), count, view[w].expect))
          ELSE Got(w, "clean", Original) /\ UNCHANGED parts
    BY <1>15 DEF Verify
  <2>2. CASE IsComplete(Part(w), count, view[w].expect)
    <3>1. Goes(w, "verify", "move") /\ Keeps(w) /\ Others /\ UNCHANGED copies
      BY <1>1, <1>15, <2>1, <2>2 DEF Verify, Kept
    <3>2. CellIs(w, Accepted(PartOf(w), count, view[w].expect))
      BY <1>3, <1>5, <2>1, <2>2
    <3> QED BY <1>5, <2>2, <3>1, <3>2 DEF Effect, Verifies
  <2>3. CASE ~IsComplete(Part(w), count, view[w].expect)
    <3>1. /\ Goes(w, "verify", "clean") /\ Others /\ FilesStay
          /\ view'[w].got = Original /\ view'[w].expect = view[w].expect
      BY <1>2, <1>15, <2>1, <2>3 DEF Verify, Kept, FilesStay
    <3> QED BY <3>1 DEF Effect, GivesUp
  <2> QED BY <2>2, <2>3
<1>16. CASE Move(w)
  <2>1. CASE Part(w) = NoFile
    BY <1>2, <1>16, <2>1 DEF Move, At, Kept, Effect, Moves, GivesUp, FilesStay
  <2>2. CASE Part(w) # NoFile
    <3>1. Goes(w, "move", "clean") /\ Keeps(w) /\ Others /\ CellIs(w, NoFile) /\ CopyIs(w, PartOf(w))
      BY <1>1, <1>3, <1>4, <1>5, <1>16, <2>2 DEF Move, At, Kept
    <3> QED BY <1>5, <2>2, <3>1 DEF Effect, Moves, GivesUp
  <2> QED BY <2>1, <2>2
<1>17. CASE Clean(w)
  BY <1>1, <1>3, <1>17 DEF Clean, At, Kept, Effect, Cleans
<1>18. CASE OpenCopy(w)
  BY <1>2, <1>18 DEF OpenCopy, At, Kept, Effect, Opens, FilesStay
<1> QED BY <1>6, <1>7, <1>8, <1>9, <1>10, <1>11, <1>12, <1>13, <1>14, <1>15, <1>16, <1>17, <1>18 DEF Serve, OneMoves

\* A step of a request keeps what it knows of servers and recordings.
LEMMA WatchStays ==
  ASSUME ProxyTypeOK, ProxyTypeOK', WatchInv, NEW w \in Viewers, OneMoves(w) PROVE WatchInv'
<1> SUFFICES ASSUME NEW v \in Viewers PROVE WatchInv!(v)'
  BY DEF WatchInv
<1>1. CASE v # w
  BY <1>1 DEF OneMoves, WatchInv
<1>2. CASE v = w
  <2>1. CASE Comes(w)
    BY <1>2, <2>1, ProxyTypeOK DEF ProxyTypeOK, Recordings, OneMoves, Comes
  <2>2. CASE ~Comes(w)
    BY <1>2, <2>2, ProxyTypeOK DEF ProxyTypeOK, Recordings, OneMoves, WatchInv, Goes, Keeps, Active, Locked, Effect,
       Counts, Waits, Finds, Enters, Misses, Drops, Encodes, GivesUp, Verifies, Moves, Cleans, Opens
  <2> QED BY <2>1, <2>2
<1> QED BY <1>1, <1>2

\* A step of a request keeps the lock to one request for each copy: it is entered when nobody holds it.
LEMMA LockStays ==
  ASSUME LockInv, NEW w \in Viewers, OneMoves(w) PROVE LockInv'
<1>1. /\ view'[w].pc \in Locked => /\ view'[w].server = view[w].server /\ view'[w].key = view[w].key
                                   /\ view[w].pc \in Locked \/ ~Held(view[w].server, view[w].key)
  BY DEF OneMoves, Goes, Locked, Effect, Comes, Counts, Waits, Finds, Enters, Misses, Drops, Encodes, GivesUp, Verifies, Moves, Cleans, Opens
<1> QED BY <1>1 DEF LockInv, Held, OneMoves

\* A part file changes only under the lock of its copy.
LEMMA PartsStay ==
  ASSUME ProxyTypeOK, NEW w \in Viewers, OneMoves(w)
  PROVE  \/ UNCHANGED parts
         \/ /\ view[w].pc \in {"encode", "encoding", "verify", "move", "clean"} /\ (view'[w].pc \in Locked \/ CellIs(w, NoFile))
            /\ view'[w].server = view[w].server /\ view'[w].key = view[w].key
            /\ \E file \in Files : CellIs(w, file)
<1>1. CASE Verifies(w)
  <2>1. PartOf(w) \in Files
    BY ProxyTypeOK DEF ProxyTypeOK, PartOf
  <2>2. PICK count \in Probed(PartOf(w)) : /\ IsComplete(PartOf(w), count, view[w].expect)
                                        /\ CellIs(w, Accepted(PartOf(w), count, view[w].expect))
    BY <1>1 DEF Verifies
  <2>3. Accepted(PartOf(w), count, view[w].expect) \in Files
    BY <2>1, <2>2, AcceptedFile DEF IsComplete
  <2> QED BY <1>1, <2>2, <2>3 DEF Verifies, Goes, Locked
<1>2. CASE ~Verifies(w)
  BY <1>2 DEF Files, OneMoves, Goes, Locked, FilesStay, Effect, Comes, Counts, Waits, Finds, Enters, Misses, Drops, Encodes, GivesUp, Moves, Cleans, Opens
<1> QED BY <1>1, <1>2

\* A step of a request keeps what the holder of the lock knows of its part file.
LEMMA PartStays ==
  ASSUME ProxyTypeOK, WatchInv, LockInv, PartInv, NoOrphans, NEW w \in Viewers, OneMoves(w) PROVE PartInv'
<1> SUFFICES ASSUME NEW v \in Viewers PROVE PartInv!(v)'
  BY DEF PartInv
<1>1. CASE v # w
  <2>1. ASSUME view[v].pc \in Locked PROVE PartOf(v)' = PartOf(v)
    <3>1. view[v].server \in Servers /\ view[v].key \in Recordings
      BY ProxyTypeOK DEF ProxyTypeOK
    <3>2. ~(view[w].pc \in Locked /\ view[w].server = view[v].server /\ view[w].key = view[v].key)
      BY <1>1, <2>1 DEF LockInv
    <3>3. parts'[view[v].server][view[v].key] = parts[view[v].server][view[v].key]
      <4>1. CASE UNCHANGED parts
        BY <4>1
      <4>2. ASSUME view[w].pc \in Locked, NEW file, CellIs(w, file)
            PROVE  parts'[view[v].server][view[v].key] = parts[view[v].server][view[v].key]
        BY <3>1, <3>2, <4>2 DEF CellIs
      <4> QED BY <4>1, <4>2, PartsStay DEF Locked
    <3> QED BY <1>1, <3>3 DEF OneMoves, PartOf
  <2> QED BY <1>1, <2>1 DEF PartInv, PartOf, OneMoves, Locked
<1>2. CASE v = w
  <2>1. CASE Enters(w)
    <3>1. view[w].server \in swept /\ view[w].server \in Servers /\ view[w].key \in Recordings
      BY ProxyTypeOK, <2>1 DEF ProxyTypeOK, WatchInv, Enters, Goes, Active
    <3>2. PartOf(w) = NoFile
      BY <2>1, <3>1 DEF NoOrphans, Enters, PartOf
    <3> QED BY <1>2, <2>1, <3>2 DEF Enters, Goes, FilesStay, PartOf
  <2>2. CASE Misses(w) \/ Drops(w)
    BY <1>2, <2>2 DEF PartInv, Misses, Drops, Goes, FilesStay, PartOf
  <2>3. CASE Verifies(w)
    <3>1. view[w].server \in Servers /\ view[w].key \in Recordings /\ PartOf(w) \in Files
      BY ProxyTypeOK DEF ProxyTypeOK, PartOf
    <3>2. PICK count \in Probed(PartOf(w)) : /\ IsComplete(PartOf(w), count, view[w].expect)
                                          /\ CellIs(w, Accepted(PartOf(w), count, view[w].expect))
      BY <2>3 DEF Verifies
    <3>3. /\ PartOf(w) # NoFile /\ Fit(Accepted(PartOf(w), count, view[w].expect))
          /\ Accepted(PartOf(w), count, view[w].expect).of = PartOf(w).of
      BY <3>1, <3>2, AcceptedFile, AcceptedFit
    <3>4. PartOf(w).of >= view[w].key
      BY <2>3, <3>3 DEF Verifies, Goes, PartInv, PartOf
    <3>5. PartOf(w)' = Accepted(PartOf(w), count, view[w].expect)
      BY <2>3, <3>1, <3>2 DEF CellIs, PartOf, Verifies, Goes
    <3> HIDE DEF Fit
    <3>6. Fit(PartOf(w)')
      BY <3>3, <3>5
    <3>7. view'[w].pc = "move" /\ view'[w].key = view[w].key /\ view'[w].server = view[w].server
      BY <2>3 DEF Verifies, Goes
    <3>8. PartOf(w)'.of >= view'[w].key
      BY <3>3, <3>4, <3>5, <3>7
    <3>9. Fit(PartOf(w))'
      BY <3>6 DEF Fit
    <3> HIDE DEF Fit
    <3> QED BY <1>2, <3>7, <3>8, <3>9 DEF PartOf
  <2>5. CASE Encodes(w)
    <3>1. view[w].server \in Servers /\ view[w].key \in Recordings
      BY ProxyTypeOK DEF ProxyTypeOK
    <3>2. PICK file \in Files :
            /\ CellIs(w, file)
            /\ \/ Goes(w, "encode", "encoding") /\ file.of = recording
               \/ Goes(w, "encoding", "verify") /\ (file # NoFile => PartOf(w) # NoFile /\ file.of = PartOf(w).of)
      BY <2>5 DEF Encodes
    <3>3. PartOf(w)' = file /\ view'[w].key = view[w].key /\ view'[w].pc \in {"encoding", "verify"}
      BY <3>1, <3>2 DEF CellIs, PartOf, Goes
    <3>4. file # NoFile => file.of >= view[w].key
      <4>1. CASE Goes(w, "encode", "encoding") /\ file.of = recording
        <5>1. view[w].key <= recording /\ recording \in Nat /\ view[w].key \in Nat
          BY <4>1, ProxyTypeOK DEF ProxyTypeOK, Recordings, WatchInv, Goes, Active, Locked
        <5> QED BY <4>1, <5>1
      <4>2. CASE Goes(w, "encoding", "verify") /\ (file # NoFile => PartOf(w) # NoFile /\ file.of = PartOf(w).of)
        BY <4>2 DEF PartInv, Goes, PartOf
      <4> QED BY <3>2, <4>1, <4>2
    <3> QED BY <1>2, <3>3, <3>4 DEF PartOf
  <2>4. CASE ~(Enters(w) \/ Misses(w) \/ Drops(w) \/ Verifies(w) \/ Encodes(w))
    <3>1. view'[w].pc \notin {"again", "drop", "encode", "encoding", "verify", "move"}
      BY <2>4 DEF OneMoves, Effect, Goes, Comes, Counts, Waits, Finds, GivesUp, Moves, Cleans, Opens
    <3> QED BY <1>2, <3>1
  <2> QED BY <2>1, <2>2, <2>3, <2>4, <2>5
<1> QED BY <1>1, <1>2

\* A step of a request keeps every part file in the hands of a request.
LEMMA OrphansStay ==
  ASSUME ProxyTypeOK, WatchInv, LockInv, PartInv, NoOrphans, NEW w \in Viewers, OneMoves(w) PROVE NoOrphans'
<1> SUFFICES ASSUME NEW s \in Servers, NEW key \in Recordings, parts'[s][key] # NoFile, s \in swept'
             PROVE  Held(s, key)'
  BY DEF NoOrphans
<1>0. s \in swept
  BY DEF OneMoves
<1>1. CASE view[w].pc \in Locked /\ s = view[w].server /\ key = view[w].key
  <2>1. view'[w].pc \in Locked \/ parts'[s][key] = NoFile
    <3>1. CASE Finds(w)
      <4>1. view[w].pc = "again" /\ UNCHANGED parts
        BY <1>1, <3>1 DEF Finds, Goes, FilesStay, Locked
      <4> QED BY <1>1, <4>1 DEF PartInv
    <3>2. CASE Cleans(w)
      BY <1>1, <3>2 DEF Cleans, CellIs
    <3>3. CASE ~Finds(w) /\ ~Cleans(w)
      BY <1>1, <3>3 DEF OneMoves, Effect, Goes, Locked, Comes, Counts, Waits, Enters, Misses, Drops,
         Encodes, GivesUp, Verifies, Moves, Opens
    <3> QED BY <3>1, <3>2, <3>3
  <2>2. view'[w].server = s /\ view'[w].key = key
    BY <1>1 DEF OneMoves, Effect, Goes, Locked, Comes, Counts, Waits, Finds, Enters, Misses, Drops, Encodes, GivesUp, Verifies, Moves, Cleans, Opens
  <2> QED BY <2>1, <2>2 DEF Held
<1>2. CASE ~(view[w].pc \in Locked /\ s = view[w].server /\ key = view[w].key)
  <2>1. parts'[s][key] = parts[s][key]
    BY <1>2, PartsStay DEF CellIs, Locked
  <2>2. PICK v \in Viewers : view[v].pc \in Locked /\ view[v].server = s /\ view[v].key = key
    BY <1>0, <2>1 DEF NoOrphans, Held
  <2> QED BY <1>2, <2>2 DEF Held, OneMoves
<1> QED BY <1>1, <1>2

\* What a step of a request leaves in the place of a copy: what was there, nothing,
\* what was there and is known to be fit now, or a part file that is.
LEMMA CopiesStay ==
  ASSUME ProxyTypeOK, PartInv, NEW w \in Viewers, OneMoves(w), NEW k \in Recordings
  PROVE  \/ copies'[k] = copies[k] \/ copies'[k] = NoFile
         \/ /\ view[w].key = k /\ Fit(copies'[k]) /\ view'[w].pc \in {"open", "clean"}
            /\ \/ copies[k] # NoFile /\ copies'[k].of = copies[k].of
               \/ copies'[k].of >= k
<1> DEFINE file == copies[view[w].key]
<1>0. view[w].key \in Recordings /\ file \in Files
  BY ProxyTypeOK DEF ProxyTypeOK
<1> HIDE DEF Fit
<1>1. CASE Finds(w)
  <2>1. PICK count \in Probed(file) : /\ IsComplete(file, count, view[w].expect)
                                   /\ CopyIs(w, Accepted(file, count, view[w].expect))
    BY <1>1 DEF Finds
  <2>2. CASE k # view[w].key
    BY <2>1, <2>2 DEF CopyIs
  <2>3. CASE k = view[w].key
    <3>1. copies'[k] = Accepted(file, count, view[w].expect) /\ view'[w].pc = "open"
      BY <1>1, <2>1, <2>3 DEF CopyIs, Finds, Goes
    <3>2. file # NoFile /\ Fit(Accepted(file, count, view[w].expect))
          /\ Accepted(file, count, view[w].expect).of = file.of
      BY <1>0, <2>1, AcceptedFit, AcceptedFile
    <3>3. Fit(copies'[k])
      BY <3>1, <3>2
    <3> QED BY <2>3, <3>1, <3>2, <3>3
  <2> QED BY <2>2, <2>3
<1>2. CASE Moves(w)
  <2>1. PartOf(w) # NoFile /\ Fit(PartOf(w)) /\ PartOf(w).of >= view[w].key
    BY <1>2 DEF Moves, Goes, PartInv, PartOf
  <2>2. CASE k # view[w].key
    BY <1>2, <2>2 DEF Moves, CopyIs
  <2>3. CASE k = view[w].key
    <3>1. copies'[k] = PartOf(w) /\ view'[w].pc = "clean"
      BY <1>2, <2>3 DEF Moves, Goes, CopyIs
    <3>2. Fit(copies'[k])
      BY <2>1, <3>1
    <3> QED BY <2>1, <2>3, <3>1, <3>2
  <2> QED BY <2>2, <2>3
<1>3. CASE Drops(w)
  BY <1>3 DEF Drops, CopyIs
<1>4. CASE ~Finds(w) /\ ~Moves(w) /\ ~Drops(w)
  <2>1. UNCHANGED copies
    BY <1>4 DEF OneMoves, FilesStay, Effect, Comes, Counts, Waits, Enters, Misses, Encodes, GivesUp, Verifies, Cleans, Opens
  <2> QED BY <2>1
<1> QED BY <1>1, <1>2, <1>3, <1>4

\* No copy becomes older than the recording it is named after,
LEMMA NewStays ==
  ASSUME ProxyTypeOK, PartInv, NewInv, NEW w \in Viewers, OneMoves(w) PROVE NewInv'
<1> SUFFICES ASSUME NEW k \in Recordings, copies'[k] # NoFile PROVE copies'[k].of >= k
  BY DEF NewInv, Recordings
<1> QED BY CopiesStay DEF NewInv

\* and a copy fit to be served stays so: it is dropped, or replaced by a verified one.
LEMMA GoodStays ==
  ASSUME ProxyTypeOK, PartInv, NEW w \in Viewers, OneMoves(w), NEW k \in Recordings, Good(k)
  PROVE  Good(k)'
<1>1. CASE copies'[k] = copies[k]
  BY <1>1 DEF Good, Fit
<1>2. CASE copies'[k] = NoFile
  BY <1>2 DEF Good
<1>3. CASE Fit(copies'[k])
  BY <1>3 DEF Good, Fit
<1> QED BY <1>1, <1>2, <1>3, CopiesStay

\* A step of a request keeps what is about to be served fit for it.
LEMMA OpenStays ==
  ASSUME ProxyTypeOK, PartInv, OpenInv, NEW w \in Viewers, OneMoves(w) PROVE OpenInv'
<1> SUFFICES ASSUME NEW v \in Viewers PROVE OpenInv!(v)'
  BY DEF OpenInv
<1>0. view[v].key \in Recordings
  BY ProxyTypeOK DEF ProxyTypeOK
<1>1. CASE v # w
  <2>1. view'[v] = view[v]
    BY <1>1 DEF OneMoves
  <2> QED BY <1>0, <2>1, GoodStays DEF OpenInv
<1>2. CASE v = w
  <2>1. CASE Finds(w)
    <3>1. Good(view[w].key)'
      <4>1. PICK count \in Probed(copies[view[w].key]) :
              /\ IsComplete(copies[view[w].key], count, view[w].expect)
              /\ CopyIs(w, Accepted(copies[view[w].key], count, view[w].expect))
        BY <2>1 DEF Finds
      <4>2. copies'[view[w].key] = Accepted(copies[view[w].key], count, view[w].expect)
        BY <1>0, <1>2, <4>1 DEF CopyIs
      <4>3. copies[view[w].key] \in Files
        BY <1>0, <1>2, ProxyTypeOK DEF ProxyTypeOK
      <4>4. Fit(Accepted(copies[view[w].key], count, view[w].expect))
        BY <4>1, <4>3, AcceptedFit
      <4>5. Fit(copies'[view[w].key])
        <5> HIDE DEF Fit
        <5> QED BY <4>2, <4>4
      <4>6. view'[w].key = view[w].key
        BY <2>1 DEF Finds, Goes
      <4> QED BY <4>5, <4>6 DEF Good, Fit
    <3> QED BY <1>2, <2>1, <3>1 DEF Finds, Goes, Keeps, OpenInv, Active, Locked
  <2>2. CASE Moves(w)
    <3>1. PartOf(w) # NoFile /\ Fit(PartOf(w))
      BY <2>2 DEF Moves, Goes, PartInv, PartOf
    <3>2. Good(view[w].key)'
      <4>1. copies'[view[w].key] = PartOf(w) /\ view'[w].key = view[w].key
        BY <1>0, <1>2, <2>2 DEF Moves, Goes, CopyIs
      <4>2. Fit(copies'[view[w].key])
        <5> HIDE DEF Fit
        <5> QED BY <3>1, <4>1
      <4> QED BY <4>1, <4>2 DEF Good, Fit
    <3> QED BY <1>2, <2>2, <3>2 DEF Moves, Goes, Keeps, Active, Locked, OpenInv
  <2>3. CASE Cleans(w)
    <3>1. view[w].got # Original => Good(view[w].key)'
      BY <1>0, <1>2, <2>3, GoodStays DEF Cleans, Goes, OpenInv
    <3>2. view'[w].pc \in {"open", "shown"} /\ (view'[w].pc = "open" => view'[w].got = NoFile /\ Good(view[w].key)')
      BY <2>3, <3>1 DEF Cleans, Goes, Keeps, OpenInv
    <3> QED BY <1>2, <3>2 DEF Active, Locked
  <2>4. CASE ~(Finds(w) \/ Moves(w) \/ Cleans(w))
    <3>1. /\ view'[w].pc # "open" /\ (view'[w].pc = "clean" => view'[w].got = Original)
          /\ view'[w].pc \in ({"idle"} \cup Active) \ {"clean"} =>
               view[w].pc \in ({"idle"} \cup Active) \ {"clean"} /\ view'[w].got = view[w].got
      BY <2>4 DEF OneMoves, Effect, Goes, Keeps, Active, Locked, Comes, Counts, Waits, Enters, Misses, Drops,
         Encodes, GivesUp, Verifies, Opens
    <3> QED BY <1>2, <3>1 DEF OpenInv
  <2> QED BY <2>1, <2>2, <2>3, <2>4
<1> QED BY <1>1, <1>2

\* A step of a request keeps what was served.
LEMMA ServedStays ==
  ASSUME ProxyTypeOK, NewInv, OpenInv, ServedWhole, NEW w \in Viewers, OneMoves(w) PROVE ServedWhole'
<1>1. CASE Opens(w)
  <2>1. view[w].key \in Recordings /\ view'[w].got = copies[view[w].key] /\ view'[w].key = view[w].key
    BY <1>1, ProxyTypeOK DEF ProxyTypeOK, Opens, Goes
  <2>2. copies[view[w].key] # NoFile => copies[view[w].key].of >= view[w].key /\ Fit(copies[view[w].key])
    BY <1>1, <2>1 DEF Opens, Goes, OpenInv, Good, NewInv
  <2>3. \A v \in Viewers \ {w} : view'[v] = view[v]
    BY DEF OneMoves
  <2> QED BY <2>1, <2>2, <2>3 DEF ServedWhole, Fit
<1>2. CASE ~Opens(w)
  <2>1. view'[w].got = Original \/ (view'[w].got = view[w].got /\ view'[w].key = view[w].key) \/ view'[w].got = NoFile
    BY <1>2 DEF OneMoves, Effect, Goes, Keeps, OpenInv, Active, Locked, Comes, Counts, Waits, Finds, Enters, Misses, Drops, Encodes, GivesUp, Verifies, Moves, Cleans, Opens
  <2> QED BY <2>1 DEF OneMoves, ServedWhole
<1> QED BY <1>1, <1>2

\* Without a change of files and requests nothing but the recording is new.
LEMMA SameFiles ==
  ASSUME NewInv, LockInv, PartInv, OpenInv, ServedWhole, NoOrphans, UNCHANGED <<copies, parts, swept, view>>
  PROVE  NewInv' /\ LockInv' /\ PartInv' /\ OpenInv' /\ ServedWhole' /\ NoOrphans'
<1>1. LockInv' /\ ServedWhole'
  BY DEF LockInv, ServedWhole
<1>2. PartInv' /\ NewInv'
  BY DEF PartInv, Fit, NewInv
<1>3. OpenInv'
  BY DEF OpenInv, Good, Fit
<1>4. NoOrphans'
  BY DEF NoOrphans, Held
<1> QED BY <1>1, <1>2, <1>3, <1>4

\* A new recording, a start of a server and the end of one.
LEMMA ServersStay ==
  ASSUME ProxyInv, ProxyTypeOK', Record \/ \E s \in Servers : Sweep(s) \/ ProxyCrash(s) PROVE ProxyInv'
<1> USE DEF ProxyInv
<1>1. CASE Record
  <2>1. UNCHANGED <<copies, parts, swept, view>> /\ recording' = recording + 1
    BY <1>1 DEF Record
  <2>2. WatchInv'
    BY <2>1, ProxyTypeOK DEF WatchInv, ProxyTypeOK, Recordings
  <2> QED BY <2>1, <2>2, SameFiles
<1>2. ASSUME NEW s \in Servers, Sweep(s) PROVE ProxyInv'
  <2>1. \A p \in Servers, r \in Recordings : parts'[p][r] = NoFile
    BY <1>2 DEF Sweep
  <2>2. UNCHANGED <<recording, copies, view>> /\ swept \subseteq swept'
    BY <1>2 DEF Sweep
  <2>3. NewInv' /\ WatchInv' /\ LockInv' /\ OpenInv' /\ ServedWhole'
    BY <2>2 DEF NewInv, WatchInv, LockInv, OpenInv, ServedWhole, Good, Fit
  <2>4. PartInv' /\ NoOrphans'
    BY <2>1, <2>2, ProxyTypeOK DEF PartInv, NoOrphans, ProxyTypeOK
  <2> QED BY <2>3, <2>4
<1>3. ASSUME NEW s \in Servers, ProxyCrash(s) PROVE ProxyInv'
  <2>1. \A w \in Viewers : \/ view'[w].pc = "shown" /\ view'[w].got = NoFile
                           \/ view'[w] = view[w] /\ (view[w].server # s \/ view[w].pc = "idle")
    BY <1>3, IdleShown DEF ProxyCrash, Idle
  <2>2. UNCHANGED <<recording, copies, parts>> /\ swept' = swept \ {s}
    BY <1>3 DEF ProxyCrash
  <2>3. WatchInv' /\ NewInv'
    BY <2>1, <2>2 DEF WatchInv, NewInv, Active, Locked
  <2>6. LockInv' /\ PartInv'
    <3>1. \A w \in Viewers : view'[w].pc \in Locked \cup {"again", "drop", "encode", "move"} => view'[w] = view[w]
      BY <2>1 DEF Locked
    <3>2. LockInv'
      BY <3>1 DEF LockInv
    <3>3. PartInv'
      <4>1. \A w \in Viewers : view'[w].pc \in {"encoding", "verify"} => view'[w] = view[w]
        BY <3>1 DEF Locked
      <4> QED BY <2>2, <3>1, <4>1 DEF PartInv, Fit
    <3> QED BY <3>2, <3>3
  <2>4. OpenInv' /\ ServedWhole'
    BY <2>1, <2>2 DEF OpenInv, ServedWhole, Good, Fit, Active, Locked
  <2>5. NoOrphans'
    <3> SUFFICES ASSUME NEW p \in Servers, NEW key \in Recordings, parts[p][key] # NoFile, p \in swept, p # s
                 PROVE  Held(p, key)'
      BY <2>2 DEF NoOrphans
    <3>1. PICK w \in Viewers : view[w].pc \in Locked /\ view[w].server = p /\ view[w].key = key
      BY DEF NoOrphans, Held
    <3>2. view'[w] = view[w]
      BY <1>3, <3>1 DEF ProxyCrash
    <3> QED BY <3>1, <3>2 DEF Held
  <2> QED BY <2>3, <2>4, <2>5, <2>6
<1> QED BY <1>1, <1>2, <1>3

\* It holds at the start,
LEMMA ProxyStarts == ProxyInit => ProxyInv
<1> SUFFICES ASSUME ProxyInit PROVE ProxyInv
  OBVIOUS
<1>1. (CHOOSE x \in Servers : TRUE) \in Servers
  BY Zenon
<1>2. \A w \in Viewers : view[w].pc = "idle" /\ view[w].got = NoFile
  BY DEF ProxyInit, Idle
<1>3. ProxyTypeOK
  <2>1. Copy(1, 1) \in Files /\ 1 \in Recordings /\ NoFile \in Files
    BY DEF Copy, Files, Recordings
  <2>2. copies \in [Recordings -> Files] /\ parts \in [Servers -> [Recordings -> Files]]
    <3> HIDE DEF Files, Recordings, Copy
    <3> QED BY <2>1 DEF ProxyInit
  <2> QED BY <1>1, <2>1, <2>2 DEF ProxyInit, ProxyTypeOK, Idle
<1>4. ServedWhole /\ NoOrphans /\ NewInv
  BY <1>2 DEF ProxyInit, ServedWhole, NoOrphans, NewInv, Copy, Recordings
<1>5. WatchInv /\ LockInv /\ PartInv /\ OpenInv
  BY <1>2 DEF WatchInv, LockInv, PartInv, OpenInv, Active, Locked
<1> QED BY <1>3, <1>4, <1>5 DEF ProxyInv

\* after every step,
LEMMA ProxySteps == ProxyInv /\ [ProxyMove]_proxyVars => ProxyInv'
<1> SUFFICES ASSUME ProxyInv, [ProxyMove]_proxyVars PROVE ProxyInv'
  OBVIOUS
<1>1. ASSUME NEW w \in Viewers, Serve(w) PROVE ProxyInv'
  BY <1>1, Effects, ProxyTypes, WatchStays, LockStays, PartStays, OrphansStay, NewStays, OpenStays, ServedStays DEF ProxyInv, ProxyMove
<1>2. CASE Record \/ \E s \in Servers : Sweep(s) \/ ProxyCrash(s)
  <2>1. ProxyTypeOK'
    BY <1>2, ProxyTypes DEF ProxyInv, ProxyMove
  <2> QED BY <1>2, <2>1, ServersStay
<1>3. CASE UNCHANGED proxyVars
  <2>1. UNCHANGED <<copies, parts, swept, view, recording>>
    BY <1>3 DEF proxyVars
  <2>2. ProxyTypeOK' /\ WatchInv'
    BY <2>1 DEF ProxyInv, ProxyTypeOK, WatchInv
  <2> QED BY <2>1, <2>2, SameFiles DEF ProxyInv
<1> QED BY <1>1, <1>2, <1>3 DEF ProxyMove

\* and no step but these changes the variables of the videos.
LEMMA ProxyActions == RawNext => [ProxyMove]_proxyVars
<1> SUFFICES ASSUME ServerNext PROVE [ProxyMove]_proxyVars
  BY DEF RawNext, ServerVars
<1>1. CASE Viewing
  BY <1>1 DEF Viewing, ProxyMove
<1>2. CASE MainDies \/ OtherDies
  BY <1>2 DEF MainDies, OtherDies, ProxyMove
<1> QED BY <1>1, <1>2 DEF ServerNext

\* Whatever servers start, crash and convert at the same time, however often an
\* episode is recorded again, and whenever packets cannot be counted: no copy is shown
\* of a recording older than the one there was at the request, none that lacks more
\* than two packets unless a check had nothing to compare, and no part file is left
\* without a request that works on it (transcode.py:73-175).
THEOREM ProxiesSafe == RawSpec => []ProxiesWhole
<1>1. RawInit => ProxyInv
  BY ProxyStarts DEF RawInit, ServerInit
<1>2. ProxyInv /\ [RawNext]_rawVars => ProxyInv'
  <2>1. [RawNext]_rawVars => [ProxyMove]_proxyVars
    BY ProxyActions DEF rawVars, ServerVars
  <2> QED BY <2>1, ProxySteps
<1>3. ProxyInv => ProxiesWhole
  BY DEF ProxyInv, ProxiesWhole
<1> QED BY <1>1, <1>2, <1>3, PTL DEF RawSpec

USE SizesAssumption, TextsAssumption DEF SizesAssumption, TextsAssumption

-----------------------------------------------------------------------------
(* The inductive invariant.                                                *)

Plain(r) == reqs[r].kind # "bulk"
Waiting(r) == Plain(r) /\ reqs[r].pc # "done"

\* What a request carries fits its kind and where it is.
Shape(q) ==
  /\ q.kind \in {"load", "save"} => q.body \in Contents
  /\ q.kind = "bulk" => q.body \in (IF q.pc = "asked" THEN {} ELSE Contents) \cup [prompt : Edits]
  /\ q.pc \in Saving => q.kind \in {"save", "bulk"} /\ q.body \in Contents
  /\ q.ep \notin q.rest /\ (q.kind # "bulk" => q.rest = {})
  /\ q.pc \in {"open", "written"} => q.fd # 0
ShapeInv == \A r \in Rows : Shape(reqs[r])

\* A request creates a file for an episode once.
Created(e, f) ==
  f # 0 => /\ f \in Rows /\ e \notin reqs[f].rest
           /\ reqs[f].ep = e => reqs[f].pc \notin {"asked", "merged", "copied"}
CreatedInv ==
  \A e \in Episodes :
    /\ Created(e, edits[e]) /\ Created(e, tmp[e])
    /\ edits[e] # 0 => edits[e] # tmp[e]
    /\ \A s \in snaps[e] : s.at <= now

\* Saves of an episode that do not overlap.
LoneInv ==
  \A e \in Episodes \ mingled :
    /\ edits[e] # 0 => text[e][edits[e]] \in Contents
    /\ \A r \in Busy(e) :
         /\ \A q \in Busy(e) : q = r
         /\ reqs[r].pc \in {"open", "written"} => reqs[r].fd = tmp[e]
         /\ reqs[r].pc = "open" => text[e][tmp[e]] = Empty
         /\ reqs[r].pc = "written" => text[e][tmp[e]] = reqs[r].body
         /\ reqs[r].kind = "bulk" => reqs[r].body.segs = Stored(e).segs
         /\ Keep > 0 /\ reqs[r].pc # "merged" /\ edits[e] # 0 => \E s \in snaps[e] : s.text = text[e][edits[e]]
FileInv == ShapeInv /\ CreatedInv /\ LoneInv

\* An operator who waits has one request at most, about the episode that is shown
\* or about to be.
AskedInv ==
  /\ at \in Episodes \/ (shown = None /\ \A r \in Rows : ~Plain(r))
  /\ ~rash => \A r \in Rows : Waiting(r) =>
       /\ \A q \in Rows : Waiting(q) => q = r
       /\ reqs[r].ep = at /\ (reqs[r].kind # "load" => shown = at)

\* An edit made for the episode, or for all.
Own(log, e, n) == n = 0 \/ (n \in 1..Len(log) /\ log[n] \in {e, None})
OwnText(log, e, content) == \A field \in DOMAIN content : Own(log, e, content[field])
OwnInv ==
  ~rash =>
    /\ OwnText(about, shown, form)
    /\ \A r \in Rows : OwnText(about, reqs[r].ep, reqs[r].body)
    /\ \A r \in Rows : reqs[r].kind = "bulk" => Own(about, None, reqs[r].body.prompt)
    /\ \A e \in Episodes, f \in 1..MaxRequests : text[e][f] \in Contents => OwnText(about, e, text[e][f])

\* What is stored of the segments of an episode is what the page was told, what an
\* answer on its way says, and what a page without unsaved edits shows.
SavesOver(e) == \A r \in Rows : reqs[r].kind = "save" /\ reqs[r].ep = e => reqs[r].pc = "done"
SegsOf(e, segs) ==
  /\ told[e] # None /\ SavesOver(e) => segs = told[e]
  /\ \A r \in Rows : reqs[r].kind \in {"load", "save"} /\ reqs[r].pc = "served" /\ reqs[r].ep = e => reqs[r].body.segs = segs
  /\ ~dirty /\ shown = e /\ shown # None => form.segs = segs
SameInv ==
  ~dirty => \A r \in Rows : reqs[r].kind = "save" /\ reqs[r].pc \notin {"refused", "done"} => reqs[r].body.segs = form.segs
SegsInv == ~rash => SameInv /\ \A e \in Episodes \ mingled : SegsOf(e, Stored(e).segs)
EditInv == TypeOK /\ FileInv /\ AskedInv /\ OwnInv /\ SegsInv

-----------------------------------------------------------------------------
(* The requests, one by one.                                               *)

Pcs == {"asked", "served", "refused", "done"} \cup Saving

\* Where the requests are, and what one is;
LEMMA RowTypes ==
  ASSUME TypeOK
  PROVE  /\ Len(reqs) \in Nat /\ Rows = 1..Len(reqs) /\ Len(reqs) <= MaxRequests
         /\ \A r \in Rows : r \in 1..MaxRequests /\ r \in Nat /\ r # 0 /\ reqs[r] \in Requests
<1>1. reqs \in Seq(Requests) /\ Len(reqs) <= MaxRequests
  BY DEF TypeOK
<1> HIDE DEF Requests
<1>2. Len(reqs) \in Nat /\ DOMAIN reqs = 1..Len(reqs) /\ \A r \in DOMAIN reqs : reqs[r] \in Requests
  BY <1>1
<1>3. MaxRequests \in Nat
  OBVIOUS
<1> QED BY <1>1, <1>2, <1>3 DEF Rows

\* the values of its parts.
LEMMA RowFields ==
  ASSUME TypeOK, NEW r \in Rows
  PROVE  /\ reqs[r].kind \in {"load", "save", "suggest", "bulk"} /\ reqs[r].ep \in Episodes
         /\ reqs[r].body \in Payloads /\ reqs[r].rest \in SUBSET Episodes /\ reqs[r].pc \in Pcs
         /\ reqs[r].fd \in 0..MaxRequests
BY RowTypes DEF Requests, Pcs

\* One request changes, or one is added.
Others(r) == Rows' = Rows /\ \A p \in Rows : p # r => reqs'[p] = reqs[p]
ReqsOK == reqs \in Seq(Requests) /\ Len(reqs) <= MaxRequests

\* A request that becomes another one leaves the rest as they are;
LEMMA RowBecomes ==
  ASSUME TypeOK, NEW r \in Rows, NEW q \in Requests, reqs' = [reqs EXCEPT ![r] = q]
  PROVE  ReqsOK' /\ Others(r) /\ reqs'[r] = q
<1>1. reqs \in Seq(Requests) /\ Len(reqs) <= MaxRequests
  BY DEF TypeOK
<1>2. Len(reqs) \in Nat /\ DOMAIN reqs = 1..Len(reqs) /\ r \in DOMAIN reqs
  BY RowTypes DEF Rows
<1> HIDE DEF Requests
<1>3. reqs' \in Seq(Requests) /\ Len(reqs') = Len(reqs) /\ DOMAIN reqs' = DOMAIN reqs
  BY <1>1, <1>2
<1>4. reqs'[r] = q /\ \A p \in Rows : p # r => reqs'[p] = reqs[p]
  BY <1>2 DEF Rows
<1> QED BY <1>1, <1>3, <1>4 DEF ReqsOK, Others, Rows

Added(q) ==
  LET n == Len(reqs) + 1 IN
  /\ n \notin Rows /\ Rows' = Rows \cup {n} /\ n \in 1..MaxRequests
  /\ reqs'[n] = q /\ \A p \in Rows : reqs'[p] = reqs[p]

\* a new one comes after them.
LEMMA RowAdded ==
  ASSUME TypeOK, NEW q \in Requests, Len(reqs) < MaxRequests, reqs' = Append(reqs, q)
  PROVE  ReqsOK' /\ Added(q)
<1>1. reqs \in Seq(Requests)
  BY DEF TypeOK
<1>2. Len(reqs) \in Nat /\ Rows = 1..Len(reqs) /\ MaxRequests \in Nat
  BY RowTypes
<1> HIDE DEF Requests
<1>3. reqs' \in Seq(Requests) /\ Len(reqs') = Len(reqs) + 1 /\ DOMAIN reqs' = 1..(Len(reqs) + 1)
  BY <1>1, <1>2
<1>4. reqs'[Len(reqs) + 1] = q /\ \A p \in 1..Len(reqs) : reqs'[p] = reqs[p]
  BY <1>1, <1>2
<1>5. Len(reqs) + 1 \in 1..MaxRequests /\ Len(reqs) + 1 \notin Rows
  BY <1>2
<1>6. Rows' = Rows \cup {Len(reqs) + 1}
  BY <1>2, <1>3 DEF Rows
<1> QED BY <1>2, <1>3, <1>4, <1>5, <1>6 DEF ReqsOK, Added

\* What a step does to the request it is about.
Stays(r) ==
  reqs'[r].kind = reqs[r].kind /\ reqs'[r].ep = reqs[r].ep /\ reqs'[r].rest = reqs[r].rest
Advances(r, from, to) ==
  /\ ReqsOK' /\ Others(r) /\ Stays(r) /\ reqs[r].pc = from /\ reqs'[r].pc = to
  /\ reqs'[r].body = reqs[r].body /\ reqs'[r].fd = reqs[r].fd
Closes(r) ==
  /\ ReqsOK' /\ Others(r) /\ Stays(r) /\ reqs'[r].pc = "done" /\ reqs'[r].body = Blank /\ reqs'[r].fd = 0
Turns(r) ==
  /\ ReqsOK' /\ Others(r) /\ reqs'[r].kind = reqs[r].kind /\ reqs'[r].ep \in reqs[r].rest
  /\ reqs'[r].rest = reqs[r].rest \ {reqs'[r].ep} /\ reqs'[r].body = [prompt |-> reqs[r].body.prompt]
  /\ reqs'[r].pc = "asked" /\ reqs'[r].fd = 0

\* What an episode was recorded with is a content like others.
LEMMA BlankTypes == Blank \in Contents /\ Blank \in Payloads /\ 0 \in Edits /\ MaxRequests \in Nat /\ 0 \in 0..MaxRequests
BY DEF Blank, Contents, Payloads, Edits

\* A handler goes on with its request;
LEMMA GoDoes ==
  ASSUME TypeOK, NEW r \in Rows, NEW from, NEW to \in Pcs, reqs[r].pc = from, reqs' = [reqs EXCEPT ![r].pc = to]
  PROVE  Advances(r, from, to)
<1> DEFINE q == [reqs[r] EXCEPT !.pc = to]
<1>1. reqs[r] \in Requests
  BY RowTypes
<1>2. q \in Requests /\ q.pc = to /\ q.kind = reqs[r].kind /\ q.ep = reqs[r].ep /\ q.rest = reqs[r].rest
      /\ q.body = reqs[r].body /\ q.fd = reqs[r].fd
  BY <1>1 DEF Requests, Pcs
<1>3. reqs' = [reqs EXCEPT ![r] = q]
  OBVIOUS
<1> HIDE DEF q
<1>4. ReqsOK' /\ Others(r) /\ reqs'[r] = q
  BY <1>2, <1>3, RowBecomes
<1> QED BY <1>2, <1>4 DEF Advances, Stays

\* a request is over;
LEMMA CloseDoes ==
  ASSUME TypeOK, NEW r \in Rows, reqs' = [reqs EXCEPT ![r] = Ended(@)]
  PROVE  Closes(r)
<1> DEFINE q == Ended(reqs[r])
<1>1. reqs[r] \in Requests
  BY RowTypes
<1>2. q \in Requests /\ q.pc = "done" /\ q.kind = reqs[r].kind /\ q.ep = reqs[r].ep /\ q.rest = reqs[r].rest
      /\ q.body = Blank /\ q.fd = 0
  BY <1>1, BlankTypes DEF Requests, Ended
<1>3. reqs' = [reqs EXCEPT ![r] = q]
  OBVIOUS
<1> HIDE DEF q
<1>4. ReqsOK' /\ Others(r) /\ reqs'[r] = q
  BY <1>2, <1>3, RowBecomes
<1> QED BY <1>2, <1>4 DEF Closes, Stays

\* the request for several episodes turns to the next;
LEMMA NextDoes ==
  ASSUME TypeOK, ShapeInv, NEW r \in Rows, NEW e \in reqs[r].rest, reqs[r].kind = "bulk",
         reqs' = [reqs EXCEPT ![r] = [@ EXCEPT !.pc = "asked", !.ep = e, !.body = [prompt |-> reqs[r].body.prompt],
                                               !.rest = reqs[r].rest \ {e}, !.fd = 0]]
  PROVE  Turns(r) /\ reqs'[r].body \in [prompt : Edits]
<1> DEFINE body == [prompt |-> reqs[r].body.prompt]
           rest == reqs[r].rest \ {e}
           q == [reqs[r] EXCEPT !.pc = "asked", !.ep = e, !.body = body, !.rest = rest, !.fd = 0]
<1>1. reqs[r] \in Requests /\ e \in Episodes
  BY RowTypes, RowFields
<1>2. body \in [prompt : Edits] /\ body \in Payloads /\ rest \in SUBSET Episodes
  <2>1. reqs[r].body \in Contents \cup [prompt : Edits]
    BY DEF ShapeInv, Shape
  <2>2. reqs[r].body.prompt \in Edits
    BY <2>1 DEF Contents
  <2> QED BY <2>2, RowFields DEF Payloads
<1>3. reqs' = [reqs EXCEPT ![r] = q]
  OBVIOUS
<1> HIDE DEF body, rest
<1>4. q \in Requests /\ q.pc = "asked" /\ q.kind = reqs[r].kind /\ q.ep = e /\ q.rest = rest /\ q.body = body /\ q.fd = 0
  BY <1>1, <1>2, BlankTypes DEF Requests
<1> HIDE DEF q
<1>5. ReqsOK' /\ Others(r) /\ reqs'[r] = q
  BY <1>3, <1>4, RowBecomes
<1> QED BY <1>2, <1>4, <1>5 DEF Turns, body, rest

\* one is made.
LEMMA AskDoes ==
  ASSUME TypeOK, NEW kind \in {"load", "save", "suggest", "bulk"}, NEW e \in Episodes, NEW body \in Payloads,
         NEW rest \in SUBSET Episodes, Ask(kind, e, body, rest)
  PROVE  ReqsOK' /\ Added([kind |-> kind, ep |-> e, body |-> body, rest |-> rest, pc |-> "asked", fd |-> 0])
<1> DEFINE q == [kind |-> kind, ep |-> e, body |-> body, rest |-> rest, pc |-> "asked", fd |-> 0]
<1>1. q \in Requests
  BY BlankTypes DEF Requests
<1>2. Len(reqs) < MaxRequests /\ reqs' = Append(reqs, q)
  BY DEF Ask
<1> HIDE DEF q
<1>3. ReqsOK' /\ Added(q)
  BY <1>1, <1>2, RowAdded
<1> QED BY <1>3 DEF q

\* A payload over a content is a content: the fields of the payload, and else those below.
LEMMA Overlays ==
  ASSUME NEW content \in Contents, NEW payload \in Payloads
  PROVE  /\ Overlay(content, payload) \in Contents
         /\ \A f \in {"prompt", "segs"} :
              Overlay(content, payload)[f] = IF f \in DOMAIN payload THEN payload[f] ELSE content[f]
<1>1. DOMAIN content = {"prompt", "segs"} /\ \A f \in {"prompt", "segs"} : content[f] \in Edits
  BY DEF Contents
<1>2. \A f \in DOMAIN payload : payload[f] \in Edits
  <2>1. CASE payload \in Contents
    BY <2>1 DEF Contents
  <2>2. CASE payload \in [prompt : Edits]
    BY <2>2
  <2>3. CASE payload \in [segs : Edits]
    BY <2>3
  <2> QED BY <2>1, <2>2, <2>3 DEF Payloads
<1>3. Overlay(content, payload) = [f \in {"prompt", "segs"} |-> IF f \in DOMAIN payload THEN payload[f] ELSE content[f]]
  BY <1>1 DEF Overlay
<1>4. \A f \in {"prompt", "segs"} : (IF f \in DOMAIN payload THEN payload[f] ELSE content[f]) \in Edits
  BY <1>1, <1>2
<1> QED BY <1>3, <1>4 DEF Contents

\* What is stored is blank or what the file of edits holds.
LEMMA StoredTypes ==
  ASSUME TypeOK, NEW e \in Episodes
  PROVE  /\ Stored(e) \in Contents
         /\ Stored(e) = Blank \/ (edits[e] # 0 /\ edits[e] \in 1..MaxRequests /\ Stored(e) = text[e][edits[e]] /\ text[e][edits[e]] \in Contents)
         /\ edits[e] # 0 /\ text[e][edits[e]] \in Contents => Stored(e) = text[e][edits[e]]
<1>1. edits[e] # 0 => edits[e] \in 1..MaxRequests /\ text[e][edits[e]] \in Texts
  BY SMTT(30) DEF TypeOK
<1> HIDE DEF Contents
<1>2. \A t \in Texts : Readable(t) <=> t \in Contents
  BY DEF Readable, Texts
<1> QED BY <1>1, <1>2, BlankTypes DEF Stored

\* The request after its payload is laid over what is stored;
LEMMA MergeDoes ==
  ASSUME TypeOK, NEW r \in Rows,
         reqs' = [reqs EXCEPT ![r] = [@ EXCEPT !.pc = "merged", !.body = Overlay(Stored(reqs[r].ep), reqs[r].body)]]
  PROVE  /\ ReqsOK' /\ Others(r) /\ Stays(r) /\ reqs'[r].pc = "merged" /\ reqs'[r].fd = reqs[r].fd
         /\ reqs'[r].body = Overlay(Stored(reqs[r].ep), reqs[r].body) /\ reqs'[r].body \in Contents
<1> DEFINE body == Overlay(Stored(reqs[r].ep), reqs[r].body)
           q == [reqs[r] EXCEPT !.pc = "merged", !.body = body]
<1>1. reqs[r] \in Requests
  BY RowTypes
<1>2. body \in Contents /\ body \in Payloads
  <2>1. Stored(reqs[r].ep) \in Contents /\ reqs[r].body \in Payloads
    BY RowFields, StoredTypes
  <2> QED BY <2>1, Overlays DEF Payloads
<1>3. reqs' = [reqs EXCEPT ![r] = q]
  OBVIOUS
<1> HIDE DEF body
<1>4. q \in Requests /\ q.pc = "merged" /\ q.kind = reqs[r].kind /\ q.ep = reqs[r].ep /\ q.rest = reqs[r].rest
      /\ q.body = body /\ q.fd = reqs[r].fd
  BY <1>1, <1>2 DEF Requests, Saving
<1> HIDE DEF q
<1>5. ReqsOK' /\ Others(r) /\ reqs'[r] = q
  BY <1>3, <1>4, RowBecomes
<1> QED BY <1>2, <1>4, <1>5 DEF Stays, body

\* the answer with what is stored;
LEMMA ServeDoes ==
  ASSUME TypeOK, NEW r \in Rows,
         reqs' = [reqs EXCEPT ![r] = [@ EXCEPT !.pc = "served", !.body = Stored(reqs[r].ep)]]
  PROVE  /\ ReqsOK' /\ Others(r) /\ Stays(r) /\ reqs'[r].pc = "served" /\ reqs'[r].fd = reqs[r].fd
         /\ reqs'[r].body = Stored(reqs[r].ep)
<1> DEFINE body == Stored(reqs[r].ep)
           q == [reqs[r] EXCEPT !.pc = "served", !.body = body]
<1>1. reqs[r] \in Requests
  BY RowTypes
<1>2. body \in Payloads
  BY RowFields, StoredTypes DEF Payloads
<1>3. reqs' = [reqs EXCEPT ![r] = q]
  OBVIOUS
<1> HIDE DEF body
<1>4. q \in Requests /\ q.pc = "served" /\ q.kind = reqs[r].kind /\ q.ep = reqs[r].ep /\ q.rest = reqs[r].rest
      /\ q.body = body /\ q.fd = reqs[r].fd
  BY <1>1, <1>2 DEF Requests
<1> HIDE DEF q
<1>5. ReqsOK' /\ Others(r) /\ reqs'[r] = q
  BY <1>3, <1>4, RowBecomes
<1> QED BY <1>4, <1>5 DEF Stays, body

\* the request with its file open.
LEMMA OpenDoes ==
  ASSUME TypeOK, NEW r \in Rows, NEW file \in 1..MaxRequests,
         reqs' = [reqs EXCEPT ![r] = [@ EXCEPT !.pc = "open", !.fd = file]]
  PROVE  /\ ReqsOK' /\ Others(r) /\ Stays(r) /\ reqs'[r].pc = "open" /\ reqs'[r].fd = file
         /\ reqs'[r].body = reqs[r].body
<1> DEFINE q == [reqs[r] EXCEPT !.pc = "open", !.fd = file]
<1>1. reqs[r] \in Requests /\ file \in 0..MaxRequests
  BY RowTypes
<1>2. reqs' = [reqs EXCEPT ![r] = q]
  OBVIOUS
<1>3. q \in Requests /\ q.pc = "open" /\ q.kind = reqs[r].kind /\ q.ep = reqs[r].ep /\ q.rest = reqs[r].rest
      /\ q.body = reqs[r].body /\ q.fd = file
  BY <1>1 DEF Requests, Saving
<1> HIDE DEF q
<1>4. ReqsOK' /\ Others(r) /\ reqs'[r] = q
  BY <1>2, <1>3, RowBecomes
<1> QED BY <1>3, <1>4 DEF Stays

\* The end of the server's process.
LEMMA CrashDoes ==
  ASSUME TypeOK, Crash
  PROVE  /\ ReqsOK' /\ Rows' = Rows
         /\ \A r \in Rows :
              \/ reqs[r].pc = "done" /\ reqs'[r] = reqs[r]
              \/ /\ reqs[r].pc # "done" /\ reqs'[r].pc = (IF Plain(r) THEN "refused" ELSE "done")
                 /\ reqs'[r].kind = reqs[r].kind /\ reqs'[r].ep = reqs[r].ep
                 /\ reqs'[r].body = Blank /\ reqs'[r].rest = {} /\ reqs'[r].fd = 0
<1> DEFINE pc(r) == IF reqs[r].kind = "bulk" THEN "done" ELSE "refused"
           Q(r) == IF reqs[r].pc = "done" THEN reqs[r]
                   ELSE [reqs[r] EXCEPT !.pc = pc(r), !.body = Blank, !.rest = {}, !.fd = 0]
<1>1. reqs' = [r \in Rows |-> Q(r)]
  BY DEF Crash
<1>2. \A r \in Rows :
        /\ Q(r) \in Requests
        /\ \/ reqs[r].pc = "done" /\ Q(r) = reqs[r]
           \/ /\ reqs[r].pc # "done" /\ Q(r).pc = pc(r) /\ Q(r).kind = reqs[r].kind /\ Q(r).ep = reqs[r].ep
              /\ Q(r).body = Blank /\ Q(r).rest = {} /\ Q(r).fd = 0
  <2> SUFFICES ASSUME NEW r \in Rows
               PROVE /\ Q(r) \in Requests
                     /\ \/ reqs[r].pc = "done" /\ Q(r) = reqs[r]
                        \/ /\ reqs[r].pc # "done" /\ Q(r).pc = pc(r) /\ Q(r).kind = reqs[r].kind /\ Q(r).ep = reqs[r].ep
                           /\ Q(r).body = Blank /\ Q(r).rest = {} /\ Q(r).fd = 0
    OBVIOUS
  <2>1. reqs[r] \in Requests
    BY RowTypes
  <2>2. CASE reqs[r].pc = "done"
    BY <2>1, <2>2
  <2>3. CASE reqs[r].pc # "done"
    <3> DEFINE new == [reqs[r] EXCEPT !.pc = pc(r), !.body = Blank, !.rest = {}, !.fd = 0]
    <3>1. Q(r) = new
      BY <2>3
    <3>2. pc(r) \in {"done", "refused"}
      OBVIOUS
    <3> HIDE DEF pc
    <3>3. new \in Requests /\ new.pc = pc(r) /\ new.kind = reqs[r].kind /\ new.ep = reqs[r].ep
          /\ new.body = Blank /\ new.rest = {} /\ new.fd = 0
      BY <2>1, <3>2, BlankTypes DEF Requests
    <3> QED BY <2>3, <3>1, <3>3
  <2> QED BY <2>2, <2>3
<1> HIDE DEF Q
<1>3. Len(reqs) \in Nat /\ Rows = 1..Len(reqs) /\ Len(reqs) <= MaxRequests
  BY RowTypes
<1>4. reqs' \in Seq(Requests) /\ Len(reqs') = Len(reqs) /\ DOMAIN reqs' = Rows
  <2> HIDE DEF Requests
  <2>1. \A r \in 1..Len(reqs) : Q(r) \in Requests
    BY <1>2, <1>3
  <2> QED BY <1>1, <1>3, <2>1
<1>5. ReqsOK' /\ Rows' = Rows
  BY <1>3, <1>4 DEF ReqsOK, Rows
<1> QED BY <1>1, <1>2, <1>5 DEF Plain

-----------------------------------------------------------------------------
(* What a step leaves alone, and steps outside of a save.                  *)

\* The types.
PageSame == UNCHANGED <<at, shown, form, dirty, told, about, rash>>
FilesSame == UNCHANGED <<text, edits, tmp, snaps, mingled>>

\* A step of the server gives every variable a value of its type
LEMMA ServerTypes ==
  ASSUME TypeOK, ReqsOK', PageSame,
         text' \in [Episodes -> [1..MaxRequests -> Texts]],
         edits' \in [Episodes -> 0..MaxRequests], tmp' \in [Episodes -> 0..MaxRequests],
         snaps' \in [Episodes -> SUBSET [at : 1..MaxTime, text : Texts]],
         now' \in 1..MaxTime, crashes' \in 0..MaxCrashes, mingled' \subseteq Episodes
  PROVE  TypeOK'
BY DEF TypeOK, ReqsOK, PageSame

\* if it gives the files one, or leaves them alone;
LEMMA QuietTypes ==
  ASSUME TypeOK, ReqsOK', PageSame, FilesSame, UNCHANGED <<now, crashes>>
  PROVE  TypeOK'
BY DEF TypeOK, ReqsOK, PageSame, FilesSame

\* so does a step of the page.
LEMMA PageTypes ==
  ASSUME TypeOK, ReqsOK', FilesSame, UNCHANGED <<now, crashes>>,
         at' \in Episodes \cup {None}, shown' \in Episodes \cup {None}, form' \in Contents, dirty' \in BOOLEAN,
         rash' \in BOOLEAN, told' \in [Episodes -> Edits \cup {None}], about' \in Seq(Episodes \cup {None})
  PROVE  TypeOK'
BY DEF TypeOK, ReqsOK, FilesSame

\* A step that leaves the files alone, and no request in the middle of a save but
\* those that were.
Settles(r) ==
  /\ reqs'[r].pc \notin Saving /\ reqs'[r].rest \subseteq reqs[r].rest
  /\ (reqs'[r].ep = reqs[r].ep /\ reqs'[r].pc # "asked") \/ reqs'[r].ep \in reqs[r].rest
Calm ==
  /\ FilesSame /\ now' >= now /\ Rows \subseteq Rows'
  /\ \A r \in Rows' : r \notin Rows => reqs'[r].pc = "asked"
  /\ \A r \in Rows : reqs'[r] = reqs[r] \/ Settles(r)

\* What is stored depends on the file alone.
LEMMA SameStored ==
  ASSUME NEW e, edits'[e] = edits[e], edits[e] # 0 => text'[e][edits[e]] = text[e][edits[e]]
  PROVE  Stored(e)' = Stored(e)
BY DEF Stored

\* Such a step keeps what is known of the files.
LEMMA CalmFiles ==
  ASSUME TypeOK, TypeOK', FileInv, Calm, ShapeInv' PROVE FileInv'
<1>1. FilesSame /\ \A e \in Episodes : Stored(e)' = Stored(e)
  BY SameStored DEF Calm, FilesSame
<1>2. CreatedInv'
  <2>1. ASSUME NEW e \in Episodes, NEW f, Created(e, f) PROVE Created(e, f)'
    <3> SUFFICES ASSUME f # 0
                 PROVE  /\ f \in Rows' /\ e \notin reqs'[f].rest
                        /\ reqs'[f].ep = e => reqs'[f].pc \notin {"asked", "merged", "copied"}
      BY DEF Created
    <3>1. f \in Rows /\ e \notin reqs[f].rest /\ (reqs[f].ep = e => reqs[f].pc \notin {"asked", "merged", "copied"})
      BY <2>1 DEF Created
    <3>2. CASE reqs'[f] = reqs[f]
      BY <3>1, <3>2 DEF Calm
    <3>3. CASE Settles(f)
      BY <3>1, <3>3 DEF Calm, Settles, Saving
    <3> QED BY <3>1, <3>2, <3>3 DEF Calm
  <2>2. \A e \in Episodes : \A s \in snaps[e] : s.at <= now'
    <3> SUFFICES ASSUME NEW e \in Episodes, NEW s \in snaps[e] PROVE s.at <= now'
      OBVIOUS
    <3>1. s.at \in Int /\ now \in Int /\ now' \in Int
      BY DEF TypeOK
    <3>2. s.at <= now /\ now' >= now
      BY DEF FileInv, CreatedInv, Calm
    <3> QED BY <3>1, <3>2
  <2> QED BY <1>1, <2>1, <2>2 DEF FileInv, CreatedInv, FilesSame
<1>3. LoneInv'
  <2>1. \A e \in Episodes : \A r \in Busy(e)' : r \in Busy(e) /\ reqs'[r] = reqs[r]
    BY DEF Busy, Calm, Settles, Saving
  <2>2. LoneInv
    BY DEF FileInv
  <2> QED BY <1>1, <2>1, <2>2 DEF LoneInv, FilesSame
<1> QED BY <1>2, <1>3 DEF FileInv

\* One request changes and keeps its shape,
LEMMA ShapesStay ==
  ASSUME ShapeInv, NEW r \in Rows, Others(r), Shape(reqs'[r]) PROVE ShapeInv'
BY DEF ShapeInv, Others

\* or comes with it.
LEMMA ShapesAdded ==
  ASSUME ShapeInv, NEW q, Added(q), Shape(q) PROVE ShapeInv'
BY DEF ShapeInv, Added

\* A new request leaves what is known of the files,
LEMMA AddedCalm ==
  ASSUME TypeOK, TypeOK', FileInv, NEW q, Added(q), Shape(q), q.pc = "asked", FilesSame, now' = now
  PROVE  FileInv'
<1>1. Rows \subseteq Rows' /\ \A r \in Rows : reqs'[r] = reqs[r]
  BY DEF Added
<1>2. \A r \in Rows' : r \notin Rows => reqs'[r].pc = "asked"
  BY DEF Added
<1>3. now' >= now
  BY DEF TypeOK
<1>4. Calm
  BY <1>1, <1>2, <1>3 DEF Calm
<1> QED BY <1>4, CalmFiles, ShapesAdded DEF FileInv

\* and so does one that changes outside of a save.
LEMMA MovedCalm ==
  ASSUME TypeOK, TypeOK', FileInv, NEW r \in Rows, Others(r), Settles(r), Shape(reqs'[r]), FilesSame, now' = now
  PROVE  FileInv'
<1>1. Calm
  BY DEF Others, Calm, TypeOK
<1> QED BY <1>1, CalmFiles, ShapesStay DEF FileInv

-----------------------------------------------------------------------------
(* The page: requests and edits it makes.                                  *)

\* The record of edits only grows.
Grows == about' \in Seq(Episodes \cup {None}) /\ Len(about') >= Len(about) /\ \A n \in 1..Len(about) : about'[n] = about[n]

\* An edit that was made stays made for its episode.
LEMMA OwnGrows ==
  ASSUME TypeOK, Grows
  PROVE  /\ \A e, n : Own(about, e, n) => Own(about', e, n)
         /\ \A e, content : OwnText(about, e, content) => OwnText(about', e, content)
<1>1. Len(about) \in Nat /\ Len(about') \in Nat
  BY DEF TypeOK, Grows
<1>2. \A n : n \in 1..Len(about) => n \in 1..Len(about')
  BY <1>1 DEF Grows
<1>3. \A e, n : Own(about, e, n) => Own(about', e, n)
  BY <1>2 DEF Own, Grows
<1> QED BY <1>3 DEF OwnText

\* What was recorded is of every episode.
LEMMA OwnBlank == \A log, e : OwnText(log, e, Blank)
BY DEF OwnText, Own, Blank

AskRow(kind, e, body, rest) == [kind |-> kind, ep |-> e, body |-> body, rest |-> rest, pc |-> "asked", fd |-> 0]

\* The parts of a new request.
LEMMA AskFields ==
  \A kind, e, body, rest :
    LET q == AskRow(kind, e, body, rest) IN
    q.kind = kind /\ q.ep = e /\ q.body = body /\ q.rest = rest /\ q.pc = "asked" /\ q.fd = 0
BY DEF AskRow

\* A request is added: its own part of the invariant.
LEMMA AddedSegs ==
  ASSUME SegsInv, NEW q, Added(q), q.pc = "asked", q.kind = "save" => q.body = form,
         FilesSame, UNCHANGED <<told, shown, form, dirty>>, ~rash' => ~rash
  PROVE  SegsInv'
<1> SUFFICES ASSUME ~rash' PROVE SameInv' /\ \A e \in Episodes \ mingled : SegsOf(e, Stored(e).segs)'
  BY DEF SegsInv, FilesSame
<1>1. ~rash /\ \A e \in Episodes : Stored(e)' = Stored(e)
  BY SameStored DEF FilesSame
<1>2. Rows \subseteq Rows' /\ (\A r \in Rows : reqs'[r] = reqs[r]) /\ \A r \in Rows' : r \notin Rows => reqs'[r] = q
  BY DEF Added
<1>3. SameInv'
  BY <1>1, <1>2 DEF SegsInv, SameInv
<1>4. ASSUME NEW e \in Episodes \ mingled PROVE SegsOf(e, Stored(e).segs)'
  <2>1. SegsOf(e, Stored(e).segs)
    BY <1>1 DEF SegsInv
  <2>2. SavesOver(e)' => SavesOver(e)
    BY <1>2 DEF SavesOver
  <2> QED BY <1>1, <1>2, <2>1, <2>2 DEF SegsOf
<1> QED BY <1>3, <1>4

\* It carries edits of its own episode,
LEMMA AddedOwn ==
  ASSUME TypeOK, OwnInv, NEW q, Added(q), FilesSame, UNCHANGED <<shown, form>>, Grows, ~rash' => ~rash,
         ~rash' => OwnText(about', q.ep, q.body) /\ (q.kind = "bulk" => Own(about', None, q.body.prompt))
  PROVE  OwnInv'
<1> SUFFICES ASSUME ~rash' PROVE OwnInv'
  BY DEF OwnInv
<1>1. /\ OwnText(about, shown, form)
      /\ \A r \in Rows : OwnText(about, reqs[r].ep, reqs[r].body)
      /\ \A r \in Rows : reqs[r].kind = "bulk" => Own(about, None, reqs[r].body.prompt)
      /\ \A e \in Episodes, f \in 1..MaxRequests : text[e][f] \in Contents => OwnText(about, e, text[e][f])
  BY DEF OwnInv
<1>2. Rows \subseteq Rows' /\ (\A r \in Rows : reqs'[r] = reqs[r]) /\ \A r \in Rows' : r \notin Rows => reqs'[r] = q
  BY DEF Added
<1>3. OwnText(about', shown', form')
  BY <1>1, OwnGrows
<1>4. \A e \in Episodes, f \in 1..MaxRequests : text'[e][f] \in Contents => OwnText(about', e, text'[e][f])
  BY <1>1, OwnGrows DEF FilesSame
<1>5. \A r \in Rows' : OwnText(about', reqs'[r].ep, reqs'[r].body)
  BY <1>1, <1>2, OwnGrows
<1>6. \A r \in Rows' : reqs'[r].kind = "bulk" => Own(about', None, reqs'[r].body.prompt)
  BY <1>1, <1>2, OwnGrows
<1> QED BY <1>3, <1>4, <1>5, <1>6 DEF OwnInv

\* and it is the only one an operator waits for.
LEMMA AddedAsked ==
  ASSUME AskedInv, NEW q, Added(q), q.kind # "bulk", at' = q.ep, at' \in Episodes, shown' = shown,
         ~rash' => ~rash /\ Quiet /\ (q.kind # "load" => shown = q.ep)
  PROVE  AskedInv'
<1>1. Rows \subseteq Rows' /\ (\A r \in Rows : reqs'[r] = reqs[r]) /\ \A r, p \in Rows' : r \notin Rows /\ p \notin Rows => reqs'[r] = q /\ r = p
  BY DEF Added
<1>2. ~rash' => \A r \in Rows : ~(reqs[r].kind # "bulk" /\ reqs[r].pc # "done")
  BY DEF Quiet
<1> QED BY <1>1, <1>2 DEF AskedInv, Waiting, Plain

\* The record of edits after one more,
LEMMA RecordGrows ==
  ASSUME TypeOK, NEW e \in Episodes \cup {None}, Len(about) < MaxEdits, about' = Append(about, e)
  PROVE  Grows /\ NewEdit \in Edits /\ NewEdit \in 1..Len(about') /\ about'[NewEdit] = e
<1>1. about \in Seq(Episodes \cup {None}) /\ Len(about) \in Nat
  BY DEF TypeOK
<1>2. about' \in Seq(Episodes \cup {None}) /\ Len(about') = Len(about) + 1 /\ about'[Len(about) + 1] = e
      /\ \A n \in 1..Len(about) : about'[n] = about[n]
  BY <1>1
<1> QED BY <1>1, <1>2 DEF Grows, NewEdit, Edits

\* or without.
LEMMA RecordStays ==
  ASSUME TypeOK, about' = about PROVE Grows
BY DEF TypeOK, Grows

\* Each step of the page keeps the invariant: an episode is selected,
LEMMA SelectKeeps ==
  ASSUME EditInv, NEW e \in Episodes, selectEpisode(e)
  PROVE  EditInv'
<1> DEFINE q == AskRow("load", e, Blank, {})
<1>0. TypeOK /\ FileInv /\ AskedInv /\ OwnInv /\ SegsInv
  BY DEF EditInv
<1>1. ReqsOK' /\ Added(q)
  BY <1>0, AskDoes, BlankTypes DEF selectEpisode, AskRow
<1>2. FilesSame /\ UNCHANGED <<now, crashes, shown, form, dirty, told, about>> /\ at' = e /\ rash' = (rash \/ ~Quiet)
  BY DEF selectEpisode, Outside, FilesSame
<1>3. TypeOK'
  <2>1. rash' \in BOOLEAN
    BY <1>2
  <2> QED BY <1>0, <1>1, <1>2, <2>1, PageTypes DEF TypeOK
<1>f. q.kind = "load" /\ q.ep = e /\ q.body = Blank /\ q.rest = {} /\ q.pc = "asked" /\ q.fd = 0
  BY AskFields
<1> HIDE DEF q
<1>4. Shape(q)
  BY <1>f, BlankTypes DEF Shape, Saving
<1>5. FileInv'
  BY <1>0, <1>1, <1>2, <1>3, <1>4, <1>f, AddedCalm
<1>6. AskedInv'
  <2>1. ~rash' => ~rash /\ Quiet
    BY <1>2
  <2> QED BY <1>0, <1>1, <1>2, <1>f, <2>1, AddedAsked
<1>7. ~rash' => ~rash
  BY <1>2
<1>8. OwnInv'
  BY <1>0, <1>1, <1>2, <1>f, <1>7, OwnBlank, RecordStays, AddedOwn
<1>9. SegsInv'
  BY <1>0, <1>1, <1>2, <1>f, <1>7, AddedSegs
<1> QED BY <1>3, <1>5, <1>6, <1>8, <1>9 DEF EditInv

\* the form is sent to be saved,
LEMMA SaveKeeps ==
  ASSUME EditInv, save
  PROVE  EditInv'
<1> DEFINE q == AskRow("save", at, form, {})
<1>0. TypeOK /\ FileInv /\ AskedInv /\ OwnInv /\ SegsInv
  BY DEF EditInv
<1>e. at \in Episodes /\ form \in Contents /\ form \in Payloads
  BY <1>0 DEF save, AskedInv, TypeOK, Payloads
<1>1. ReqsOK' /\ Added(q)
  BY <1>0, <1>e, AskDoes DEF save, AskRow
<1>2. FilesSame /\ UNCHANGED <<now, crashes, at, shown, form, dirty, told, about>> /\ rash' = (rash \/ ~Quiet \/ at # shown)
  BY DEF save, Act, Outside, FilesSame
<1>3. TypeOK'
  <2>1. rash' \in BOOLEAN
    BY <1>2
  <2> QED BY <1>0, <1>1, <1>2, <2>1, PageTypes DEF TypeOK
<1>f. q.kind = "save" /\ q.ep = at /\ q.body = form /\ q.rest = {} /\ q.pc = "asked" /\ q.fd = 0
  BY AskFields
<1> HIDE DEF q
<1>4. Shape(q)
  BY <1>f, <1>e DEF Shape, Saving
<1>5. FileInv'
  BY <1>0, <1>1, <1>2, <1>3, <1>4, <1>f, AddedCalm
<1>7. ~rash' => ~rash /\ Quiet /\ shown = at
  BY <1>2
<1>6. AskedInv'
  BY <1>0, <1>1, <1>2, <1>e, <1>f, <1>7, AddedAsked
<1>8. OwnInv'
  <2>1. Grows
    BY <1>0, <1>2, RecordStays
  <2>2. ~rash' => OwnText(about', at, form)
    BY <1>0, <1>2, <1>7 DEF OwnInv
  <2> QED BY <1>0, <1>1, <1>2, <1>f, <1>7, <2>1, <2>2, AddedOwn
<1>9. SegsInv'
  BY <1>0, <1>1, <1>2, <1>f, <1>7, AddedSegs
<1> QED BY <1>3, <1>5, <1>6, <1>8, <1>9 DEF EditInv

\* a suggestion is asked for,
LEMMA SuggestKeeps ==
  ASSUME EditInv, NEW fields \in {{"segs"}, {"prompt", "segs"}}, Suggest(fields)
  PROVE  EditInv'
<1> DEFINE body == [f \in fields |-> NewEdit]
           q == AskRow("suggest", at, body, {})
<1>0. TypeOK /\ FileInv /\ AskedInv /\ OwnInv /\ SegsInv
  BY DEF EditInv
<1>e. at \in Episodes
  BY <1>0 DEF Suggest, AskedInv
<1>g. Grows /\ NewEdit \in Edits /\ NewEdit \in 1..Len(about') /\ about'[NewEdit] = at
  BY <1>0, <1>e, RecordGrows DEF Suggest
<1>b. body \in Payloads /\ DOMAIN body = fields /\ \A f \in fields : body[f] = NewEdit
  <2>1. CASE fields = {"segs"}
    <3>1. body \in [segs : Edits]
      BY <1>g, <2>1
    <3> QED BY <3>1 DEF Payloads
  <2>2. CASE fields = {"prompt", "segs"}
    <3>1. body \in Contents
      BY <1>g, <2>2 DEF Contents
    <3> QED BY <3>1 DEF Payloads
  <2> QED BY <2>1, <2>2
<1>1a. Ask("suggest", at, body, {})
  BY DEF Suggest
<1> HIDE DEF body
<1>1. ReqsOK' /\ Added(q)
  BY <1>0, <1>e, <1>b, <1>1a, AskDoes DEF AskRow
<1>2. FilesSame /\ UNCHANGED <<now, crashes, at, shown, form, dirty, told>> /\ rash' = (rash \/ ~Quiet \/ at # shown)
  BY DEF Suggest, Act, Outside, FilesSame
<1>3. TypeOK'
  <2>1. rash' \in BOOLEAN
    BY <1>2
  <2> QED BY <1>0, <1>1, <1>2, <1>g, <2>1, PageTypes DEF TypeOK, Grows
<1>f. q.kind = "suggest" /\ q.ep = at /\ q.body = body /\ q.rest = {} /\ q.pc = "asked" /\ q.fd = 0
  BY AskFields
<1> HIDE DEF q
<1>4. Shape(q)
  BY <1>f DEF Shape, Saving
<1>5. FileInv'
  BY <1>0, <1>1, <1>2, <1>3, <1>4, <1>f, AddedCalm
<1>7. ~rash' => ~rash /\ Quiet /\ shown = at
  BY <1>2
<1>6. AskedInv'
  BY <1>0, <1>1, <1>2, <1>e, <1>f, <1>7, AddedAsked
<1>8. OwnInv'
  <2>1. OwnText(about', at, body)
    BY <1>b, <1>g DEF OwnText, Own
  <2> QED BY <1>0, <1>1, <1>2, <1>f, <1>g, <1>7, <2>1, AddedOwn
<1>9. SegsInv'
  BY <1>0, <1>1, <1>2, <1>f, <1>7, AddedSegs
<1> QED BY <1>3, <1>5, <1>6, <1>8, <1>9 DEF EditInv

\* another client sets a prompt of several episodes,
LEMMA BulkKeeps ==
  ASSUME EditInv, BulkPrompt
  PROVE  EditInv'
<1>0. TypeOK /\ FileInv /\ AskedInv /\ OwnInv /\ SegsInv
  BY DEF EditInv
<1> DEFINE body == [prompt |-> NewEdit]
<1>g. Grows /\ NewEdit \in Edits /\ NewEdit \in 1..Len(about') /\ about'[NewEdit] = None
  BY <1>0, RecordGrows DEF BulkPrompt
<1>b. body \in Payloads /\ body \in [prompt : Edits] /\ DOMAIN body = {"prompt"} /\ body.prompt = NewEdit
  BY <1>g DEF Payloads
<1>e. PICK e \in Episodes : Ask("bulk", e, body, Episodes \ {e})
  BY DEF BulkPrompt
<1> HIDE DEF body
<1> DEFINE q == AskRow("bulk", e, body, Episodes \ {e})
<1>1. ReqsOK' /\ Added(q)
  <2>1. Episodes \ {e} \in SUBSET Episodes
    OBVIOUS
  <2> QED BY <1>0, <1>e, <1>b, <2>1, AskDoes DEF AskRow
<1>2. FilesSame /\ UNCHANGED <<now, crashes, at, shown, form, dirty, told, rash>>
  BY DEF BulkPrompt, Outside, FilesSame
<1>3. TypeOK'
  BY <1>0, <1>1, <1>2, <1>g, PageTypes DEF TypeOK, Grows
<1>f. q.kind = "bulk" /\ q.ep = e /\ q.body = body /\ q.rest = Episodes \ {e} /\ q.pc = "asked" /\ q.fd = 0
  BY AskFields
<1> HIDE DEF q
<1>4. Shape(q)
  BY <1>f, <1>b DEF Shape, Saving
<1>5. FileInv'
  BY <1>0, <1>1, <1>2, <1>3, <1>4, <1>f, AddedCalm
<1>6. AskedInv'
  <2>1. Rows \subseteq Rows' /\ (\A r \in Rows : reqs'[r] = reqs[r]) /\ \A r \in Rows' : r \notin Rows => reqs'[r] = q
    BY <1>1 DEF Added
  <2> QED BY <1>0, <1>2, <1>f, <2>1 DEF AskedInv, Waiting, Plain
<1>8. OwnInv'
  <2>1. OwnText(about', e, body) /\ Own(about', None, body.prompt)
    BY <1>b, <1>g DEF OwnText, Own
  <2> QED BY <1>0, <1>1, <1>2, <1>f, <1>g, <2>1, AddedOwn
<1>9. SegsInv'
  BY <1>0, <1>1, <1>2, <1>f, AddedSegs
<1> QED BY <1>3, <1>5, <1>6, <1>8, <1>9 DEF EditInv

\* the operator edits a field.
LEMMA EditKeeps ==
  ASSUME EditInv, NEW field \in DOMAIN Blank, Edit(field)
  PROVE  EditInv'
<1>0. TypeOK /\ FileInv /\ AskedInv /\ OwnInv /\ SegsInv
  BY DEF EditInv
<1>g. Grows /\ NewEdit \in Edits /\ NewEdit \in 1..Len(about') /\ about'[NewEdit] = shown
  BY <1>0, RecordGrows DEF Edit, TypeOK
<1>2. FilesSame /\ UNCHANGED <<now, crashes, at, shown, told, reqs>> /\ rash' = (rash \/ ~Quiet \/ at # shown) /\ dirty' = TRUE
      /\ form' = [form EXCEPT ![field] = NewEdit]
  BY DEF Edit, Act, Outside, FilesSame
<1>b. form' \in Contents /\ DOMAIN form' = DOMAIN form /\ form'[field] = NewEdit /\ \A f \in DOMAIN form : f # field => form'[f] = form[f]
  <2>1. form \in Contents /\ field \in {"prompt", "segs"}
    BY <1>0 DEF TypeOK, Blank
  <2> QED BY <1>2, <1>g, <2>1 DEF Contents
<1>3. TypeOK'
  <2>1. rash' \in BOOLEAN /\ dirty' \in BOOLEAN
    BY <1>2
  <2>2. ReqsOK'
    BY <1>0, <1>2 DEF TypeOK, ReqsOK
  <2> QED BY <1>0, <1>b, <1>2, <1>g, <2>1, <2>2, PageTypes DEF TypeOK, Grows
<1>5. FileInv'
  <2>1. Rows' = Rows
    BY <1>2 DEF Rows
  <2>2. Calm
    BY <1>0, <1>2, <2>1 DEF Calm, TypeOK
  <2>3. ShapeInv'
    BY <1>0, <1>2, <2>1 DEF FileInv, ShapeInv
  <2> QED BY <1>0, <1>3, <2>2, <2>3, CalmFiles
<1>7. ~rash' => ~rash /\ Quiet /\ shown = at
  BY <1>2
<1>6. AskedInv'
  BY <1>0, <1>2, <1>7 DEF AskedInv, Rows, Waiting, Plain
<1>8. OwnInv'
  <2> SUFFICES ASSUME ~rash' PROVE OwnInv'
    BY DEF OwnInv
  <2>1. OwnText(about', shown, form')
    <3>1. OwnText(about', shown, form)
      BY <1>0, <1>g, <1>7, OwnGrows DEF OwnInv
    <3> QED BY <1>b, <1>g, <3>1 DEF OwnText, Own
  <2> QED BY <1>0, <1>2, <1>g, <1>7, <2>1, OwnGrows DEF OwnInv, Rows, FilesSame
<1>9. SegsInv'
  <2>1. \A e \in Episodes : Stored(e)' = Stored(e)
    BY <1>2, SameStored DEF FilesSame
  <2> QED BY <1>0, <1>2, <1>7, <2>1 DEF SegsInv, SameInv, SegsOf, SavesOver, Rows, FilesSame
<1> QED BY <1>3, <1>5, <1>6, <1>8, <1>9 DEF EditInv

-----------------------------------------------------------------------------
(* The page: answers it takes.                                             *)

\* An answer the page takes: the request r ends.
Takes(r) ==
  /\ r \in Rows /\ Closes(r) /\ Plain(r) /\ reqs[r].pc \in {"served", "refused"}
  /\ FilesSame /\ UNCHANGED <<now, crashes, at, about, rash>>
Brings(r) == reqs[r].pc = "served" /\ reqs[r].kind \in {"load", "save"}
Tells(r) ==
  \/ told' = told /\ reqs[r].kind # "save"
  \/ told' = [told EXCEPT ![reqs[r].ep] = None]
  \/ told' = [told EXCEPT ![reqs[r].ep] = reqs[r].body.segs] /\ Brings(r)
Shows(r) ==
  \/ UNCHANGED <<shown, form, dirty>>
  \/ Brings(r) /\ form' = reqs[r].body /\ dirty' = FALSE
     /\ (shown' = reqs[r].ep \/ (shown' = shown /\ reqs[r].kind = "save"))
  \/ dirty' = TRUE /\ shown' = shown /\ reqs[r].kind = "suggest" /\ form' = Overlay(form, reqs[r].body)

\* An answer keeps the types,
LEMMA AnswerTypes ==
  ASSUME TypeOK, FileInv, NEW r, Takes(r), Tells(r), Shows(r)
  PROVE  TypeOK'
<1>1. r \in Rows /\ ReqsOK' /\ reqs[r].ep \in Episodes /\ reqs[r].body \in Payloads
  BY RowFields DEF Takes, Closes
<1>2. Brings(r) => reqs[r].body \in Contents /\ reqs[r].body.segs \in Edits
  BY <1>1 DEF Brings, FileInv, ShapeInv, Shape, Contents
<1>3. form' \in Contents /\ dirty' \in BOOLEAN /\ shown' \in Episodes \cup {None}
  <2>1. CASE UNCHANGED <<shown, form, dirty>>
    BY <2>1 DEF TypeOK
  <2>2. CASE Brings(r) /\ form' = reqs[r].body /\ dirty' = FALSE
             /\ (shown' = reqs[r].ep \/ (shown' = shown /\ reqs[r].kind = "save"))
    BY <1>1, <1>2, <2>2 DEF TypeOK
  <2>3. CASE dirty' = TRUE /\ shown' = shown /\ form' = Overlay(form, reqs[r].body)
    <3>1. form \in Contents
      BY DEF TypeOK
    <3>2. form' \in Contents
      BY <1>1, <2>3, <3>1, Overlays
    <3> QED BY <2>3, <3>2 DEF TypeOK
  <2> QED BY <2>1, <2>2, <2>3 DEF Shows
<1>4. told' \in [Episodes -> Edits \cup {None}]
  BY <1>1, <1>2 DEF Tells, TypeOK
<1>5. FilesSame /\ UNCHANGED <<now, crashes, at, about, rash>>
  BY DEF Takes
<1> QED BY <1>1, <1>3, <1>4, <1>5, PageTypes DEF TypeOK

\* what is known of the files,
LEMMA AnswerFiles ==
  ASSUME TypeOK, TypeOK', FileInv, NEW r, Takes(r) PROVE FileInv'
<1>1. r \in Rows /\ Others(r) /\ Stays(r) /\ reqs'[r].pc = "done" /\ reqs'[r].body = Blank /\ reqs'[r].fd = 0
  BY DEF Takes, Closes
<1>2. Shape(reqs[r])
  BY <1>1 DEF FileInv, ShapeInv
<1>3. Shape(reqs'[r])
  BY <1>1, <1>2, BlankTypes DEF Shape, Saving, Stays
<1>4. Settles(r)
  BY <1>1 DEF Settles, Stays, Saving
<1> QED BY <1>1, <1>3, <1>4, MovedCalm DEF Takes

\* The one that waits has it all.
LEMMA AnswerLast ==
  ASSUME AskedInv, NEW r, Takes(r), ~rash
  PROVE  /\ reqs[r].ep = at /\ (reqs[r].kind # "load" => shown = at)
         /\ \A p \in Rows' : reqs'[p].kind # "bulk" => reqs'[p].pc = "done"
<1>1. r \in Rows /\ Waiting(r) /\ Others(r) /\ reqs'[r].pc = "done" /\ Stays(r)
  BY DEF Takes, Closes, Waiting
<1>2. reqs[r].ep = at /\ (reqs[r].kind # "load" => shown = at) /\ \A q \in Rows : Waiting(q) => q = r
  BY <1>1 DEF AskedInv
<1> QED BY <1>1, <1>2 DEF Others, Stays, Waiting, Plain

\* the one request an operator waits for,
LEMMA AnswerAsked ==
  ASSUME AskedInv, NEW r, Takes(r) PROVE AskedInv'
<1>1. at \in Episodes /\ at' = at /\ rash' = rash
  BY DEF AskedInv, Takes, Plain
<1>2. ~rash' => \A p \in Rows' : ~Waiting(p)'
  BY <1>1, AnswerLast DEF Waiting, Plain
<1> QED BY <1>1, <1>2 DEF AskedInv

\* the episode of every edit,
LEMMA AnswerOwn ==
  ASSUME TypeOK, FileInv, AskedInv, OwnInv, NEW r, Takes(r), Shows(r) PROVE OwnInv'
<1> SUFFICES ASSUME ~rash' PROVE OwnInv'
  BY DEF OwnInv
<1>1. ~rash /\ FilesSame /\ about' = about /\ r \in Rows /\ Rows' = Rows /\ reqs'[r].kind # "bulk" /\ reqs'[r].body = Blank
      /\ \A p \in Rows : p # r => reqs'[p] = reqs[p]
  BY DEF Takes, Closes, Others, Stays, Plain
<1>2. /\ OwnText(about, shown, form)
      /\ \A p \in Rows : OwnText(about, reqs[p].ep, reqs[p].body)
      /\ \A p \in Rows : reqs[p].kind = "bulk" => Own(about, None, reqs[p].body.prompt)
      /\ \A e \in Episodes, f \in 1..MaxRequests : text[e][f] \in Contents => OwnText(about, e, text[e][f])
  BY <1>1 DEF OwnInv
<1>3. OwnText(about, shown', form')
  <2>1. CASE UNCHANGED <<shown, form, dirty>>
    BY <1>2, <2>1
  <2>2. CASE Brings(r) /\ form' = reqs[r].body /\ (shown' = reqs[r].ep \/ (shown' = shown /\ reqs[r].kind = "save"))
    BY <1>1, <1>2, <2>2, AnswerLast
  <2>3. CASE shown' = shown /\ reqs[r].kind = "suggest" /\ form' = Overlay(form, reqs[r].body)
    <3>1. OwnText(about, shown, reqs[r].body)
      BY <1>1, <1>2, <2>3, AnswerLast
    <3>2. form \in Contents /\ reqs[r].body \in Payloads /\ DOMAIN form = {"prompt", "segs"}
      BY <1>1, RowFields DEF TypeOK, Contents
    <3>3. form' \in Contents /\ \A f \in {"prompt", "segs"} : form'[f] = IF f \in DOMAIN reqs[r].body THEN reqs[r].body[f] ELSE form[f]
      BY <2>3, <3>2, Overlays
    <3>4. DOMAIN form' = {"prompt", "segs"}
      BY <3>3 DEF Contents
    <3> QED BY <1>2, <2>3, <3>1, <3>2, <3>3, <3>4 DEF OwnText
  <2> QED BY <2>1, <2>2, <2>3 DEF Shows
<1>4. \A p \in Rows' : OwnText(about', reqs'[p].ep, reqs'[p].body) /\ (reqs'[p].kind = "bulk" => Own(about', None, reqs'[p].body.prompt))
  BY <1>1, <1>2, OwnBlank
<1> QED BY <1>1, <1>2, <1>3, <1>4 DEF OwnInv, FilesSame

\* and what is said of the segments;
LEMMA AnswerSegs ==
  ASSUME TypeOK, FileInv, AskedInv, SegsInv, NEW r, Takes(r), Tells(r), Shows(r) PROVE SegsInv'
<1> SUFFICES ASSUME ~rash' PROVE SameInv' /\ \A e \in Episodes \ mingled : SegsOf(e, Stored(e).segs)'
  BY DEF SegsInv, Takes, FilesSame
<1>1. ~rash /\ FilesSame /\ r \in Rows /\ Rows' = Rows /\ Stays(r)
      /\ \A p \in Rows : p # r => reqs'[p] = reqs[p]
  BY DEF Takes, Closes, Others
<1>2. \A p \in Rows' : reqs'[p].kind # "bulk" => reqs'[p].pc = "done"
  BY <1>1, AnswerLast
<1>3. SameInv'
  BY <1>2 DEF SameInv
<1>4. ASSUME NEW e \in Episodes \ mingled PROVE SegsOf(e, Stored(e).segs)'
  <2>1. Stored(e)' = Stored(e) /\ SegsOf(e, Stored(e).segs)
    BY <1>1, SameStored DEF SegsInv, FilesSame
  <2>2. Brings(r) /\ reqs[r].ep = e => reqs[r].body.segs = Stored(e).segs
    BY <1>1, <2>1 DEF Brings, SegsOf
  <2>3. told' \in [Episodes -> Edits \cup {None}] /\ told \in [Episodes -> Edits \cup {None}]
    BY AnswerTypes DEF TypeOK
  <2>4. (reqs[r].kind # "save" \/ reqs[r].ep # e) /\ SavesOver(e)' => SavesOver(e)
    BY <1>1 DEF SavesOver, Stays
  <2>5. told'[e] # None /\ SavesOver(e)' => Stored(e).segs = told'[e]
    <3>1. CASE told' = told /\ reqs[r].kind # "save"
      BY <2>1, <2>4, <3>1 DEF SegsOf
    <3>2. CASE told' = [told EXCEPT ![reqs[r].ep] = None]
      BY <2>1, <2>3, <2>4, <3>2 DEF SegsOf
    <3>3. CASE told' = [told EXCEPT ![reqs[r].ep] = reqs[r].body.segs] /\ Brings(r)
      BY <2>1, <2>2, <2>3, <2>4, <3>3 DEF SegsOf
    <3> QED BY <3>1, <3>2, <3>3 DEF Tells
  <2>6. ~dirty' /\ shown' = e /\ shown' # None => form'.segs = Stored(e).segs
    <3>1. CASE UNCHANGED <<shown, form, dirty>>
      BY <2>1, <3>1 DEF SegsOf
    <3>2. CASE Brings(r) /\ form' = reqs[r].body /\ (shown' = reqs[r].ep \/ (shown' = shown /\ reqs[r].kind = "save"))
      BY <1>1, <2>2, <3>2, AnswerLast
    <3>3. CASE dirty'
      BY <3>3
    <3> QED BY <3>1, <3>2, <3>3 DEF Shows
  <2> QED BY <1>2, <2>1, <2>5, <2>6 DEF SegsOf
<1> QED BY <1>3, <1>4

\* so it keeps the invariant.
LEMMA AnswerKeeps ==
  ASSUME EditInv, NEW r, Takes(r), Tells(r), Shows(r) PROVE EditInv'
<1>1. TypeOK'
  BY AnswerTypes DEF EditInv
<1> QED BY <1>1, AnswerFiles, AnswerAsked, AnswerOwn, AnswerSegs DEF EditInv

\* Every answer the page takes is one of these.
LEMMA BrowserKeeps ==
  ASSUME EditInv, NEW r \in Rows, Browser(r) PROVE EditInv'
<1>t. TypeOK
  BY DEF EditInv
<1>0. ASSUME NEW kind \in {"load", "save", "suggest"}, NEW pc \in {"served", "refused"}, Answered(r, kind, pc), Outside,
             UNCHANGED <<at, about, rash>>
      PROVE  Takes(r) /\ reqs[r].kind = kind /\ reqs[r].pc = pc
  <2>1. Closes(r)
    BY <1>t, <1>0, CloseDoes DEF Answered
  <2> QED BY <1>0, <2>1 DEF Takes, Answered, Plain, Outside, FilesSame
<1>1. CASE Loaded(r)
  <2>1. Takes(r) /\ reqs[r].kind = "load" /\ reqs[r].pc = "served"
    BY <1>0, <1>1 DEF Loaded
  <2> QED BY <1>1, <2>1, AnswerKeeps DEF Loaded, Tells, Shows, Brings
<1>2. CASE LoadFails(r)
  <2>1. Takes(r) /\ reqs[r].kind = "load" /\ reqs[r].pc = "refused"
    BY <1>0, <1>2 DEF LoadFails, page
  <2> QED BY <1>2, <2>1, AnswerKeeps DEF LoadFails, page, Tells, Shows
<1>3. CASE Saved(r)
  <2>1. Takes(r) /\ reqs[r].kind = "save" /\ reqs[r].pc = "served"
    BY <1>0, <1>3 DEF Saved
  <2> QED BY <1>3, <2>1, AnswerKeeps DEF Saved, Tells, Shows, Brings
<1>4. CASE SaveFails(r)
  <2>1. Takes(r) /\ reqs[r].kind = "save" /\ reqs[r].pc = "refused"
    BY <1>0, <1>4 DEF SaveFails
  <2> QED BY <1>4, <2>1, AnswerKeeps DEF SaveFails, Tells, Shows
<1>5. CASE Suggested(r)
  <2>1. Takes(r) /\ reqs[r].kind = "suggest" /\ reqs[r].pc = "served"
    BY <1>0, <1>5 DEF Suggested
  <2>2. form' = Overlay(form, reqs[r].body)
    BY <1>5 DEF Suggested, Overlay
  <2> QED BY <1>5, <2>1, <2>2, AnswerKeeps DEF Suggested, Tells, Shows
<1>6. CASE SuggestFails(r)
  <2>1. Takes(r) /\ reqs[r].kind = "suggest" /\ reqs[r].pc = "refused"
    BY <1>0, <1>6 DEF SuggestFails, page
  <2> QED BY <1>6, <2>1, AnswerKeeps DEF SuggestFails, page, Tells, Shows
<1> QED BY <1>1, <1>2, <1>3, <1>4, <1>5, <1>6 DEF Browser

-----------------------------------------------------------------------------
(* The server, outside of a save.                                          *)

\* A step of the server.
Works == PageSame /\ ReqsOK' /\ Rows' = Rows /\ \A p \in Rows : reqs'[p].kind = reqs[p].kind

\* A step of the server leaves the page and what it waits for,
LEMMA WorkAsked ==
  ASSUME AskedInv, Works,
         \A p \in Rows : Plain(p) => reqs'[p].ep = reqs[p].ep /\ (reqs'[p].pc # "done" => reqs[p].pc # "done")
  PROVE  AskedInv'
<1>1. at' = at /\ shown' = shown /\ rash' = rash /\ Rows' = Rows
  BY DEF Works, PageSame
<1>2. \A p \in Rows : (Plain(p)' <=> Plain(p)) /\ (Waiting(p)' => Waiting(p) /\ reqs'[p].ep = reqs[p].ep) /\ reqs'[p].kind = reqs[p].kind
  BY DEF Works, Plain, Waiting
<1> QED BY <1>1, <1>2 DEF AskedInv

Owned(p) ==
  OwnText(about, reqs[p].ep, reqs[p].body) /\ (reqs[p].kind = "bulk" => Own(about, None, reqs[p].body.prompt))

\* keeps the episode of each edit if its request and its file do,
LEMMA WorkOwn ==
  ASSUME OwnInv, Works,
         \A p \in Rows : ~rash /\ Owned(p) => Owned(p)',
         ~rash => \A e \in Episodes, f \in 1..MaxRequests :
           text'[e][f] \in Contents => text'[e][f] = text[e][f] \/ OwnText(about, e, text'[e][f])
  PROVE  OwnInv'
<1> SUFFICES ASSUME ~rash' PROVE OwnInv'
  BY DEF OwnInv
<1>1. ~rash /\ UNCHANGED <<about, shown, form>> /\ Rows' = Rows
  BY DEF Works, PageSame
<1>2. OwnText(about, shown, form) /\ \A p \in Rows : Owned(p)
  BY <1>1 DEF OwnInv, Owned
<1>3. \A p \in Rows' : Owned(p)'
  BY <1>1, <1>2
<1>4. \A e \in Episodes, f \in 1..MaxRequests : text'[e][f] \in Contents => OwnText(about', e, text'[e][f])
  BY <1>1 DEF OwnInv
<1> QED BY <1>1, <1>2, <1>3, <1>4 DEF OwnInv, Owned

\* Of the segments: nothing is said of them that is not stored.
Says(p) == reqs[p].kind \in {"load", "save"} /\ reqs[p].pc = "served"
Saves(p) == reqs[p].kind = "save" /\ reqs[p].pc \notin {"refused", "done"}

\* and what is said of the segments if it says only what is stored.
LEMMA WorkSegs ==
  ASSUME SegsInv, Works, mingled \subseteq mingled',
         \A p \in Rows : reqs[p].kind = "save" /\ reqs'[p].pc = "done" => reqs[p].pc = "done",
         \A p \in Rows : reqs[p].kind = "save" => reqs'[p].ep = reqs[p].ep,
         \A p \in Rows : Saves(p)' => Saves(p) /\ reqs'[p].body.segs = reqs[p].body.segs,
         \A e \in Episodes \ mingled' : Stored(e)'.segs = Stored(e).segs,
         \A p \in Rows : Says(p)' /\ reqs'[p].ep \notin mingled' =>
           (Says(p) /\ reqs'[p] = reqs[p]) \/ reqs'[p].body.segs = Stored(reqs'[p].ep).segs
  PROVE  SegsInv'
<1> SUFFICES ASSUME ~rash' PROVE SameInv' /\ \A e \in (Episodes \ mingled)' : SegsOf(e, Stored(e).segs)'
  BY DEF SegsInv
<1>1. ~rash /\ UNCHANGED <<told, shown, form, dirty>> /\ Rows' = Rows /\ \A p \in Rows : reqs'[p].kind = reqs[p].kind
  BY DEF Works, PageSame
<1>2. SameInv'
  BY <1>1 DEF SegsInv, SameInv, Saves
<1>3. ASSUME NEW e \in Episodes \ mingled' PROVE SegsOf(e, Stored(e).segs)'
  <2>1. SegsOf(e, Stored(e).segs) /\ Stored(e)'.segs = Stored(e).segs
    BY <1>1 DEF SegsInv
  <2>2. SavesOver(e)' => SavesOver(e)
    BY <1>1 DEF SavesOver
  <2>3. \A p \in Rows' : reqs'[p].kind \in {"load", "save"} /\ reqs'[p].pc = "served" /\ reqs'[p].ep = e => reqs'[p].body.segs = Stored(e).segs
    BY <1>1, <2>1 DEF SegsOf, Says
  <2> QED BY <1>1, <2>1, <2>2, <2>3 DEF SegsOf
<1> QED BY <1>2, <1>3

\* Requests that keep their way, and the step of one of them.
LEMMA WorkOne ==
  ASSUME NEW r \in Rows, ReqsOK', Others(r), reqs'[r].kind = reqs[r].kind, PageSame
  PROVE  Works /\ \A p \in Rows : p # r => reqs'[p] = reqs[p]
BY DEF Works, Others

\* A request that is answered or refused without a save.
LEMMA GoKeeps ==
  ASSUME EditInv, NEW r \in Rows, NEW to \in {"served", "refused"}, Advances(r, "asked", to),
         reqs[r].kind # "bulk", to = "served" => reqs[r].kind = "suggest",
         PageSame, FilesSame, UNCHANGED <<now, crashes>>
  PROVE  EditInv'
<1>0. TypeOK /\ FileInv /\ AskedInv /\ OwnInv /\ SegsInv
  BY DEF EditInv
<1>1. ReqsOK' /\ Others(r) /\ Stays(r) /\ reqs[r].pc = "asked" /\ reqs'[r].pc = to /\ reqs'[r].body = reqs[r].body
  BY DEF Advances
<1>2. Works /\ Rows' = Rows /\ \A p \in Rows : p # r => reqs'[p] = reqs[p]
  BY <1>1, WorkOne DEF Stays, Works
<1>3. TypeOK'
  BY <1>0, <1>1, QuietTypes
<1>4. FileInv'
  <2>1. Shape(reqs'[r])
    BY <1>0, <1>1 DEF FileInv, ShapeInv, Shape, Stays, Saving
  <2>2. Settles(r)
    BY <1>1 DEF Settles, Stays, Saving
  <2> QED BY <1>0, <1>1, <1>3, <2>1, <2>2, MovedCalm
<1>5. AskedInv'
  BY <1>0, <1>1, <1>2, WorkAsked DEF Stays
<1>6. OwnInv'
  <2>1. \A p \in Rows : ~rash /\ Owned(p) => Owned(p)'
    BY <1>1, <1>2 DEF Owned, Stays, PageSame
  <2>2. text' = text
    BY DEF FilesSame
  <2> QED BY <1>0, <1>2, <2>1, <2>2, WorkOwn
<1>7. SegsInv'
  <2>1. \A e \in Episodes \ mingled' : Stored(e)'.segs = Stored(e).segs
    BY SameStored DEF FilesSame
  <2>2. mingled \subseteq mingled'
    BY DEF FilesSame
  <2>3. \A p \in Rows : /\ reqs[p].kind = "save" /\ reqs'[p].pc = "done" => reqs[p].pc = "done"
                        /\ reqs[p].kind = "save" => reqs'[p].ep = reqs[p].ep
                        /\ Saves(p)' => Saves(p) /\ reqs'[p].body.segs = reqs[p].body.segs
    BY <1>1, <1>2 DEF Stays, Saves
  <2>4. \A p \in Rows : Says(p)' => Says(p) /\ reqs'[p] = reqs[p]
    BY <1>1, <1>2 DEF Stays, Says
  <2> QED BY <1>0, <1>2, <2>1, <2>2, <2>3, <2>4, WorkSegs
<1> QED BY <1>3, <1>4, <1>5, <1>6, <1>7 DEF EditInv

\* the answer with an episode,
LEMMA ServeKeeps ==
  ASSUME EditInv, NEW r \in Rows, ServeEpisode(r)
  PROVE  EditInv'
<1>0. TypeOK /\ FileInv /\ AskedInv /\ OwnInv /\ SegsInv
  BY DEF EditInv
<1>a. PageSame /\ FilesSame /\ UNCHANGED <<now, crashes>> /\ reqs[r].kind = "load" /\ reqs[r].pc = "asked"
  BY DEF ServeEpisode, page, files, clock, PageSame, FilesSame
<1>1. ReqsOK' /\ Others(r) /\ Stays(r) /\ reqs'[r].pc = "served" /\ reqs'[r].body = Stored(reqs[r].ep)
  BY <1>0, ServeDoes DEF ServeEpisode
<1>b. reqs[r].ep \in Episodes /\ Stored(reqs[r].ep) \in Contents
  BY <1>0, RowFields, StoredTypes
<1>2. Works /\ Rows' = Rows /\ \A p \in Rows : p # r => reqs'[p] = reqs[p]
  BY <1>a, <1>1, WorkOne DEF Stays, Works
<1>3. TypeOK'
  BY <1>0, <1>a, <1>1, QuietTypes
<1>4. FileInv'
  <2>1. Shape(reqs'[r])
    BY <1>0, <1>a, <1>b, <1>1 DEF FileInv, ShapeInv, Shape, Stays, Saving
  <2>2. Settles(r)
    BY <1>1 DEF Settles, Stays, Saving
  <2> QED BY <1>0, <1>a, <1>1, <1>3, <2>1, <2>2, MovedCalm
<1>5. AskedInv'
  BY <1>0, <1>a, <1>1, <1>2, WorkAsked DEF Stays
<1>6. OwnInv'
  <2>1. ~rash => OwnText(about, reqs[r].ep, Stored(reqs[r].ep))
    BY <1>0, <1>b, StoredTypes, OwnBlank DEF OwnInv
  <2>2. \A p \in Rows : ~rash /\ Owned(p) => Owned(p)'
    BY <1>a, <1>1, <1>2, <2>1 DEF Owned, Stays, PageSame
  <2>3. text' = text
    BY <1>a DEF FilesSame
  <2> QED BY <1>0, <1>2, <2>2, <2>3, WorkOwn
<1>7. SegsInv'
  <2>1. \A e \in Episodes \ mingled' : Stored(e)'.segs = Stored(e).segs
    BY <1>a, SameStored DEF FilesSame
  <2>2. mingled \subseteq mingled'
    BY <1>a DEF FilesSame
  <2>3. \A p \in Rows : /\ reqs[p].kind = "save" /\ reqs'[p].pc = "done" => reqs[p].pc = "done"
                        /\ reqs[p].kind = "save" => reqs'[p].ep = reqs[p].ep
                        /\ Saves(p)' => Saves(p) /\ reqs'[p].body.segs = reqs[p].body.segs
    BY <1>a, <1>1, <1>2 DEF Stays, Saves
  <2>4. \A p \in Rows : Says(p)' => (Says(p) /\ reqs'[p] = reqs[p]) \/ reqs'[p].body.segs = Stored(reqs'[p].ep).segs
    BY <1>1, <1>2 DEF Stays, Says
  <2> QED BY <1>0, <1>2, <2>1, <2>2, <2>3, <2>4, WorkSegs
<1> QED BY <1>3, <1>4, <1>5, <1>6, <1>7 DEF EditInv

\* the next episode of several,
LEMMA NextKeeps ==
  ASSUME EditInv, NEW r \in Rows, BulkNext(r)
  PROVE  EditInv'
<1>0. TypeOK /\ FileInv /\ AskedInv /\ OwnInv /\ SegsInv /\ ShapeInv
  BY DEF EditInv, FileInv
<1>a. PageSame /\ FilesSame /\ UNCHANGED <<now, crashes>> /\ reqs[r].kind = "bulk" /\ reqs[r].pc \in {"served", "refused"}
  BY DEF BulkNext, page, files, clock, PageSame, FilesSame
<1>1. Closes(r) \/ (Turns(r) /\ reqs'[r].body \in [prompt : Edits])
  <2>1. CASE reqs[r].rest = {}
    BY <1>0, <2>1, CloseDoes DEF BulkNext
  <2>2. CASE reqs[r].rest # {}
    BY <1>0, <1>a, <2>2, NextDoes DEF BulkNext
  <2> QED BY <2>1, <2>2
<1>b. ReqsOK' /\ Others(r) /\ reqs'[r].kind = "bulk"
  BY <1>a, <1>1 DEF Closes, Turns, Stays
<1>2. Works /\ Rows' = Rows /\ \A p \in Rows : p # r => reqs'[p] = reqs[p]
  BY <1>a, <1>b, WorkOne DEF Works
<1>3. TypeOK'
  BY <1>0, <1>a, <1>b, QuietTypes
<1>4. FileInv'
  <2>1. Shape(reqs'[r]) /\ Settles(r)
    <3>1. CASE Closes(r)
      BY <1>0, <1>a, <3>1, BlankTypes DEF ShapeInv, Shape, Closes, Stays, Saving, Settles
    <3>2. CASE Turns(r) /\ reqs'[r].body \in [prompt : Edits]
      BY <1>0, <1>a, <3>2 DEF ShapeInv, Shape, Turns, Saving, Settles
    <3> QED BY <1>1, <3>1, <3>2
  <2> QED BY <1>0, <1>a, <1>b, <1>3, <2>1, MovedCalm
<1>5. AskedInv'
  BY <1>0, <1>a, <1>2, WorkAsked DEF Plain
<1>6. OwnInv'
  <2>1. ~rash /\ Owned(r) => Owned(r)'
    <3>1. CASE Closes(r)
      BY <1>a, <3>1, OwnBlank DEF Owned, Closes, Own, Blank
    <3>2. CASE Turns(r)
      BY <1>a, <3>2 DEF Owned, Turns, OwnText, Own, PageSame
    <3> QED BY <1>1, <3>1, <3>2
  <2>2. \A p \in Rows : ~rash /\ Owned(p) => Owned(p)'
    BY <1>a, <1>2, <2>1 DEF Owned, PageSame
  <2>3. text' = text
    BY <1>a DEF FilesSame
  <2> QED BY <1>0, <1>2, <2>2, <2>3, WorkOwn
<1>7. SegsInv'
  <2>1. \A e \in Episodes \ mingled' : Stored(e)'.segs = Stored(e).segs
    BY <1>a, SameStored DEF FilesSame
  <2>2. mingled \subseteq mingled'
    BY <1>a DEF FilesSame
  <2>3. \A p \in Rows : /\ reqs[p].kind = "save" /\ reqs'[p].pc = "done" => reqs[p].pc = "done"
                        /\ reqs[p].kind = "save" => reqs'[p].ep = reqs[p].ep
                        /\ Saves(p)' => Saves(p) /\ reqs'[p].body.segs = reqs[p].body.segs
    BY <1>a, <1>b, <1>2 DEF Saves
  <2>4. \A p \in Rows : Says(p)' => (Says(p) /\ reqs'[p] = reqs[p])
    BY <1>a, <1>b, <1>2 DEF Says
  <2> QED BY <1>0, <1>2, <2>1, <2>2, <2>3, <2>4, WorkSegs
<1> QED BY <1>3, <1>4, <1>5, <1>6, <1>7 DEF EditInv

\* the clock,
LEMMA TickKeeps ==
  ASSUME EditInv, Tick
  PROVE  EditInv'
<1>0. TypeOK /\ FileInv /\ AskedInv /\ OwnInv /\ SegsInv /\ ShapeInv
  BY DEF EditInv, FileInv
<1>1. PageSame /\ FilesSame /\ reqs' = reqs /\ crashes' = crashes /\ now' = now + 1 /\ now < MaxTime
  BY DEF Tick, page, files, PageSame, FilesSame
<1>2. now' \in 1..MaxTime /\ now' >= now
  BY <1>0, <1>1 DEF TypeOK
<1>3. TypeOK'
  BY <1>0, <1>1, <1>2 DEF TypeOK, PageSame, FilesSame
<1>4. Rows' = Rows /\ ShapeInv'
  BY <1>0, <1>1 DEF Rows, ShapeInv
<1>5. FileInv'
  <2>1. Calm
    BY <1>1, <1>2, <1>4 DEF Calm
  <2> QED BY <1>0, <1>3, <1>4, <2>1, CalmFiles
<1>6. \A e \in Episodes : Stored(e)' = Stored(e)
  BY <1>1, SameStored DEF FilesSame
<1>7. AskedInv' /\ OwnInv' /\ SegsInv'
  BY <1>0, <1>1, <1>4, <1>6 DEF AskedInv, OwnInv, SegsInv, SameInv, SegsOf, SavesOver, Plain, Waiting, PageSame, FilesSame
<1> QED BY <1>3, <1>5, <1>7 DEF EditInv

\* Only the count of crashes changes when another server dies.
LEMMA OtherKeeps ==
  ASSUME EditInv, crashes < MaxCrashes, crashes' = crashes + 1, UNCHANGED page, UNCHANGED files, UNCHANGED <<reqs, now>>
  PROVE  EditInv'
<1>0. TypeOK /\ FileInv /\ AskedInv /\ OwnInv /\ SegsInv /\ ShapeInv
  BY DEF EditInv, FileInv
<1>1. PageSame /\ FilesSame /\ reqs' = reqs /\ now' = now
  BY DEF page, files, PageSame, FilesSame
<1>3. TypeOK'
  BY SMTT(30), <1>0, <1>1 DEF TypeOK, PageSame, FilesSame
<1>4. Rows' = Rows /\ ShapeInv'
  BY <1>0, <1>1 DEF Rows, ShapeInv
<1>5. FileInv'
  <2>1. Calm
    BY <1>0, <1>1, <1>4 DEF Calm, TypeOK
  <2> QED BY <1>0, <1>3, <1>4, <2>1, CalmFiles
<1>6. \A e \in Episodes : Stored(e)' = Stored(e)
  BY <1>1, SameStored DEF FilesSame
<1>7. AskedInv' /\ OwnInv' /\ SegsInv'
  BY <1>0, <1>1, <1>4, <1>6 DEF AskedInv, OwnInv, SegsInv, SameInv, SegsOf, SavesOver, Plain, Waiting, PageSame, FilesSame
<1> QED BY <1>3, <1>5, <1>7 DEF EditInv

\* The end of the server: every request fails, every file stays.
LEMMA CrashKeeps ==
  ASSUME EditInv, Crash
  PROVE  EditInv'
<1>0. TypeOK /\ FileInv /\ AskedInv /\ OwnInv /\ SegsInv /\ ShapeInv
  BY DEF EditInv, FileInv
<1>a. PageSame /\ FilesSame /\ now' = now /\ crashes' = crashes + 1 /\ crashes < MaxCrashes
  BY DEF Crash, page, files, PageSame, FilesSame
<1>1. ReqsOK' /\ Rows' = Rows
      /\ \A r \in Rows :
              \/ reqs[r].pc = "done" /\ reqs'[r] = reqs[r]
              \/ /\ reqs[r].pc # "done" /\ reqs'[r].pc = (IF Plain(r) THEN "refused" ELSE "done")
                 /\ reqs'[r].kind = reqs[r].kind /\ reqs'[r].ep = reqs[r].ep
                 /\ reqs'[r].body = Blank /\ reqs'[r].rest = {} /\ reqs'[r].fd = 0
  BY <1>0, CrashDoes
<1>2. Works
  BY <1>a, <1>1 DEF Works
<1>3. TypeOK'
  BY SMTT(30), <1>0, <1>a, <1>1 DEF TypeOK, PageSame, FilesSame, ReqsOK
<1>4. FileInv'
  <2>1. ShapeInv'
    BY <1>0, <1>1, BlankTypes DEF ShapeInv, Shape, Saving, Plain
  <2>2. \A r \in Rows : reqs'[r] = reqs[r] \/ Settles(r)
    BY <1>1 DEF Settles, Saving
  <2>3. Calm
    BY <1>0, <1>a, <1>1, <2>2 DEF Calm, TypeOK
  <2> QED BY <1>0, <1>3, <2>1, <2>3, CalmFiles
<1>5. AskedInv'
  BY <1>0, <1>1, <1>2, WorkAsked
<1>6. OwnInv'
  <2>1. \A p \in Rows : ~rash /\ Owned(p) => Owned(p)'
    BY <1>a, <1>1, OwnBlank DEF Owned, PageSame, Own, Blank
  <2>2. text' = text
    BY <1>a DEF FilesSame
  <2> QED BY <1>0, <1>2, <2>1, <2>2, WorkOwn
<1>7. SegsInv'
  <2>1. \A e \in Episodes \ mingled' : Stored(e)'.segs = Stored(e).segs
    BY <1>a, SameStored DEF FilesSame
  <2>2. mingled \subseteq mingled'
    BY <1>a DEF FilesSame
  <2>3. \A p \in Rows : /\ reqs[p].kind = "save" /\ reqs'[p].pc = "done" => reqs[p].pc = "done"
                        /\ reqs[p].kind = "save" => reqs'[p].ep = reqs[p].ep
                        /\ Saves(p)' => Saves(p) /\ reqs'[p].body.segs = reqs[p].body.segs
    BY <1>1 DEF Saves, Plain
  <2>4. \A p \in Rows : Says(p)' => (Says(p) /\ reqs'[p] = reqs[p])
    BY <1>1 DEF Says, Plain
  <2> QED BY <1>0, <1>2, <2>1, <2>2, <2>3, <2>4, WorkSegs
<1> QED BY <1>3, <1>4, <1>5, <1>6, <1>7 DEF EditInv

-----------------------------------------------------------------------------
(* The server: the steps of a save.                                        *)

\* A save in progress is the only one of its episode.
Lone(e) ==
  /\ edits[e] # 0 => text[e][edits[e]] \in Contents
  /\ \A r \in Busy(e) :
       /\ \A q \in Busy(e) : q = r
       /\ reqs[r].pc \in {"open", "written"} => reqs[r].fd = tmp[e]
       /\ reqs[r].pc = "open" => text[e][tmp[e]] = Empty
       /\ reqs[r].pc = "written" => text[e][tmp[e]] = reqs[r].body
       /\ reqs[r].kind = "bulk" => reqs[r].body.segs = Stored(e).segs
       /\ Keep > 0 /\ reqs[r].pc # "merged" /\ edits[e] # 0 => \E s \in snaps[e] : s.text = text[e][edits[e]]

\* Episode by episode.
LEMMA LoneParts == LoneInv <=> \A e \in Episodes \ mingled : Lone(e)
BY DEF LoneInv, Lone

\* What is said of the one request in the middle of a save.
Alone(e, r) ==
  /\ reqs[r].pc \in {"open", "written"} => reqs[r].fd = tmp[e]
  /\ reqs[r].pc = "open" => text[e][tmp[e]] = Empty
  /\ reqs[r].pc = "written" => text[e][tmp[e]] = reqs[r].body
  /\ reqs[r].kind = "bulk" => reqs[r].body.segs = Stored(e).segs
  /\ Keep > 0 /\ reqs[r].pc # "merged" /\ edits[e] # 0 => \E s \in snaps[e] : s.text = text[e][edits[e]]
LEMMA AloneIs ==
  ASSUME NEW e, NEW r, (\A p \in Busy(e) : p = r)', Alone(e, r)', (edits[e] # 0 => text[e][edits[e]] \in Contents)'
  PROVE  Lone(e)'
BY Zenon DEF Lone, Alone

\* The steps of a save: of another episode nothing changes.
Steps(r) ==
  /\ PageSame /\ ReqsOK' /\ Others(r) /\ Stays(r) /\ reqs[r].kind \in {"save", "bulk"}
  /\ mingled \subseteq mingled' /\ UNCHANGED <<now, crashes>>
  /\ \A e \in Episodes : e # reqs[r].ep =>
       /\ UNCHANGED <<text[e], edits[e], tmp[e], snaps[e]>>
       /\ e \in mingled' => e \in mingled

\* Only the request itself begins or ends to be in the middle of a save.
LEMMA StepBusy ==
  ASSUME NEW r \in Rows, Steps(r), NEW e \in Episodes
  PROVE  /\ e # reqs[r].ep => Busy(e)' = Busy(e) /\ \A p \in Busy(e) : reqs'[p] = reqs[p]
         /\ \A p \in Busy(e)' : p # r => p \in Busy(e) /\ reqs'[p] = reqs[p]
         /\ r \in Busy(e)' <=> (e = reqs[r].ep /\ reqs'[r].pc \in Saving)
BY DEF Steps, Busy, Others, Stays

\* A step of a save concerns its own episode only;
LEMMA StepLone ==
  ASSUME LoneInv, NEW r \in Rows, Steps(r), NEW ep, ep = reqs[r].ep, ep \notin mingled' => Lone(ep)'
  PROVE  LoneInv'
<1>1. ASSUME NEW e \in Episodes \ mingled', e # ep PROVE Lone(e)'
  <2>1. Lone(e) /\ UNCHANGED <<text[e], edits[e], tmp[e], snaps[e]>>
    BY <1>1, LoneParts DEF Steps
  <2>2. Busy(e)' = Busy(e) /\ \A p \in Busy(e) : reqs'[p] = reqs[p]
    BY <1>1, StepBusy
  <2>3. Stored(e)' = Stored(e)
    BY <2>1, SameStored
  <2> QED BY <2>1, <2>2, <2>3 DEF Lone
<1>2. \A e \in Episodes \ mingled' : Lone(e)'
  BY <1>1
<1> QED BY <1>2 DEF LoneInv, Lone

\* it leaves the page alone,
LEMMA StepAsked ==
  ASSUME AskedInv, NEW r \in Rows, Steps(r), reqs'[r].pc # "done" => reqs[r].pc # "done"
  PROVE  AskedInv' /\ Works /\ Rows' = Rows /\ \A p \in Rows : p # r => reqs'[p] = reqs[p]
<1>1. Works /\ Rows' = Rows /\ \A p \in Rows : p # r => reqs'[p] = reqs[p]
  BY WorkOne DEF Steps, Stays, Works
<1> QED BY <1>1, WorkAsked DEF Steps, Stays

\* and what is said of the segments, as long as nothing is stored.
LEMMA StepSegs ==
  ASSUME TypeOK, SegsInv, NEW r \in Rows, Steps(r), reqs[r].pc # "served", reqs'[r].pc \notin {"served", "done"},
         reqs[r].kind = "save" => reqs[r].pc # "refused" /\ reqs[r].pc # "done" /\ reqs'[r].body.segs = reqs[r].body.segs,
         \A e \in Episodes \ mingled' : Stored(e)'.segs = Stored(e).segs
  PROVE  SegsInv'
<1>1. Works /\ Rows' = Rows /\ \A p \in Rows : p # r => reqs'[p] = reqs[p]
  BY WorkOne DEF Steps, Stays, Works
<1>2. \A p \in Rows : /\ reqs[p].kind = "save" /\ reqs'[p].pc = "done" => reqs[p].pc = "done"
                      /\ reqs[p].kind = "save" => reqs'[p].ep = reqs[p].ep
                      /\ Saves(p)' => Saves(p) /\ reqs'[p].body.segs = reqs[p].body.segs
  BY <1>1 DEF Steps, Stays, Saves
<1>3. \A p \in Rows : Says(p)' => (Says(p) /\ reqs'[p] = reqs[p])
  BY <1>1 DEF Steps, Stays, Says
<1>4. mingled \subseteq mingled'
  BY DEF Steps
<1> QED BY <1>1, <1>2, <1>3, <1>4, WorkSegs

\* The payload is laid over what is stored: from here on the save is in progress.
LEMMA MergeKeeps ==
  ASSUME EditInv, NEW r \in Rows, Merge(r)
  PROVE  EditInv'
<1>e. PICK e : e = reqs[r].ep
  OBVIOUS
<1>0. TypeOK /\ FileInv /\ AskedInv /\ OwnInv /\ SegsInv /\ ShapeInv /\ CreatedInv /\ LoneInv
  BY DEF EditInv, FileInv
<1>a. PageSame /\ UNCHANGED <<text, edits, tmp, snaps>> /\ UNCHANGED <<now, crashes>> /\ reqs[r].kind \in {"save", "bulk"} /\ reqs[r].pc = "asked"
      /\ mingled' = (IF Busy(e) # {} THEN mingled \cup {e} ELSE mingled)
  BY <1>e DEF Merge, page, clock, PageSame
<1>b. e \in Episodes /\ Stored(e) \in Contents /\ reqs[r].body \in Payloads
  BY <1>0, <1>e, RowFields, StoredTypes
<1>1. ReqsOK' /\ Others(r) /\ Stays(r) /\ reqs'[r].pc = "merged" /\ reqs'[r].body = Overlay(Stored(e), reqs[r].body) /\ reqs'[r].body \in Contents
  BY <1>0, <1>e, MergeDoes DEF Merge
<1>c. reqs'[r].body.segs = (IF reqs[r].kind = "bulk" THEN Stored(e).segs ELSE reqs[r].body.segs)
      /\ reqs'[r].body.prompt = reqs[r].body.prompt /\ DOMAIN reqs'[r].body = {"prompt", "segs"}
  <2>1. \A f \in {"prompt", "segs"} : reqs'[r].body[f] = IF f \in DOMAIN reqs[r].body THEN reqs[r].body[f] ELSE Stored(e)[f]
    BY <1>b, <1>1, Overlays
  <2>2. reqs[r].kind = "bulk" => DOMAIN reqs[r].body = {"prompt"}
    BY <1>0, <1>a DEF ShapeInv, Shape
  <2>3. reqs[r].kind = "save" => DOMAIN reqs[r].body = {"prompt", "segs"}
    BY <1>0, <1>a DEF ShapeInv, Shape, Contents
  <2>4. DOMAIN reqs'[r].body = {"prompt", "segs"}
    BY <1>1 DEF Contents
  <2> QED BY <1>a, <2>1, <2>2, <2>3, <2>4
<1>2. Steps(r)
  BY <1>a, <1>e, <1>1 DEF Steps
<1>d. \A x \in Episodes : Stored(x)' = Stored(x)
  BY <1>a, SameStored
<1>3. TypeOK'
  <2>1. mingled' \subseteq Episodes
    BY <1>0, <1>a, <1>b DEF TypeOK
  <2> QED BY <1>0, <1>a, <1>1, <2>1, ServerTypes DEF TypeOK
<1>4. FileInv'
  <2>1. Shape(reqs'[r])
    BY <1>0, <1>a, <1>1 DEF ShapeInv, Shape, Stays, Saving
  <2>2. ShapeInv'
    BY <1>0, <1>1, <2>1, ShapesStay
  <2>3. CreatedInv'
    BY <1>0, <1>a, <1>e, <1>1 DEF CreatedInv, Created, Others, Stays
  <2>4. ASSUME e \notin mingled' PROVE Lone(e)'
    <3>1. Busy(e) = {} /\ e \notin mingled
      BY <1>a, <2>4
    <3>2. Lone(e)
      BY <1>0, <1>b, <3>1, LoneParts
    <3>3. \A p \in Busy(e)' : p = r
      <4>1. \A p \in Busy(e)' : p # r => p \in Busy(e)
        BY <1>b, <1>2, <1>e, StepBusy
      <4> QED BY <3>1, <4>1
    <3> QED BY <1>a, <1>c, <1>d, <1>b, <1>e, <1>1, <3>2, <3>3 DEF Lone, Stays
  <2>5. LoneInv'
    BY <1>0, <1>2, <1>e, <2>4, StepLone
  <2> QED BY <2>2, <2>3, <2>5 DEF FileInv
<1>5. AskedInv' /\ Works /\ Rows' = Rows /\ \A p \in Rows : p # r => reqs'[p] = reqs[p]
  BY <1>0, <1>a, <1>2, StepAsked
<1>6. OwnInv'
  <2>1. ~rash => OwnText(about, e, Stored(e))
    BY <1>0, <1>b, StoredTypes, OwnBlank DEF OwnInv
  <2>2. ~rash /\ Owned(r) => Owned(r)'
    <3>1. DOMAIN Stored(e) = {"prompt", "segs"}
      BY <1>b DEF Contents
    <3>2. \A f \in {"prompt", "segs"} : reqs'[r].body[f] = IF f \in DOMAIN reqs[r].body THEN reqs[r].body[f] ELSE Stored(e)[f]
      BY <1>b, <1>1, Overlays
    <3> QED BY <1>a, <1>c, <1>e, <1>1, <2>1, <3>1, <3>2 DEF Owned, OwnText, Stays, PageSame
  <2>3. \A p \in Rows : ~rash /\ Owned(p) => Owned(p)'
    BY <1>a, <1>5, <2>2 DEF Owned, PageSame
  <2> QED BY <1>0, <1>a, <1>5, <2>3, WorkOwn
<1>7. SegsInv'
  BY <1>0, <1>a, <1>b, <1>c, <1>d, <1>e, <1>1, <1>2, StepSegs
<1> QED BY <1>3, <1>4, <1>5, <1>6, <1>7 DEF EditInv

\* A snapshot that none is newer than is kept.
LEMMA NewestHolds ==
  ASSUME NEW hist, NEW s \in hist, \A x \in hist : ~(x.at > s.at), Keep > 0
  PROVE  s \in Newest(hist)
<1>1. {x \in hist : x.at > s.at} = {}
  OBVIOUS
<1>2. Cardinality({x \in hist : x.at > s.at}) = 0
  BY <1>1, FS_EmptySet
<1> QED BY <1>2 DEF Newest

\* The version that will be replaced goes to the history.
LEMMA BackupKeeps ==
  ASSUME EditInv, NEW r \in Rows, Backup(r)
  PROVE  EditInv'
<1>e. PICK e : e = reqs[r].ep
  OBVIOUS
<1>0. TypeOK /\ FileInv /\ AskedInv /\ OwnInv /\ SegsInv /\ ShapeInv /\ CreatedInv /\ LoneInv
  BY DEF EditInv, FileInv
<1>a. PageSame /\ UNCHANGED <<text, edits, tmp, mingled>> /\ UNCHANGED <<now, crashes>>
      /\ reqs[r].pc = "merged" /\ reqs' = [reqs EXCEPT ![r].pc = "copied"]
      /\ snaps' = (IF Keep > 0 /\ edits[e] # 0 THEN [snaps EXCEPT ![e] = Newest(Snapshot(e))] ELSE snaps)
  BY <1>e DEF Backup, Go, page, clock, PageSame
<1>b. e \in Episodes /\ reqs[r].kind \in {"save", "bulk"}
  BY <1>0, <1>a, <1>e, RowFields DEF ShapeInv, Shape, Saving
<1>1. ReqsOK' /\ Others(r) /\ Stays(r) /\ reqs'[r].pc = "copied" /\ reqs'[r].body = reqs[r].body /\ reqs'[r].fd = reqs[r].fd
  BY <1>0, <1>a, GoDoes DEF Advances, Pcs, Saving
<1>s. ASSUME edits[e] # 0
      PROVE  /\ Newest(Snapshot(e)) \subseteq Snapshot(e)
             /\ Snapshot(e) \subseteq [at : 1..MaxTime, text : Texts]
             /\ \A s \in Snapshot(e) : s.at <= now
             /\ Keep > 0 => \E s \in Newest(Snapshot(e)) : s.text = text[e][edits[e]]
  <2> DEFINE new == [at |-> now, text |-> text[e][edits[e]]]
  <2>1. now \in 1..MaxTime /\ text[e][edits[e]] \in Texts
    BY SMTT(30), <1>0, <1>b, <1>s DEF TypeOK
  <2> HIDE DEF Texts
  <2>2. new \in [at : 1..MaxTime, text : Texts] /\ new.at = now /\ new.text = text[e][edits[e]]
    BY <2>1
  <2>3. snaps[e] \subseteq [at : 1..MaxTime, text : Texts] /\ \A s \in snaps[e] : s.at <= now
    BY <1>0, <1>b DEF TypeOK, CreatedInv
  <2>4. Snapshot(e) = {s \in snaps[e] : s.at # now} \cup {new}
    BY DEF Snapshot
  <2> HIDE DEF new
  <2>5. Snapshot(e) \subseteq [at : 1..MaxTime, text : Texts] /\ new \in Snapshot(e) /\ \A s \in Snapshot(e) : s.at <= now
    BY <2>1, <2>2, <2>3, <2>4
  <2>6. \A s \in Snapshot(e) : ~(s.at > new.at)
    BY <2>1, <2>2, <2>5
  <2>7. Keep > 0 => new \in Newest(Snapshot(e))
    BY <2>5, <2>6, NewestHolds
  <2>8. Newest(Snapshot(e)) \subseteq Snapshot(e)
    BY DEF Newest
  <2> QED BY <2>2, <2>5, <2>7, <2>8
<1>t. snaps' \in [Episodes -> SUBSET [at : 1..MaxTime, text : Texts]] /\ \A x \in Episodes : x # e => snaps'[x] = snaps[x]
  <2> DEFINE S == [at : 1..MaxTime, text : Texts]
  <2>1. snaps \in [Episodes -> SUBSET S]
    BY <1>0 DEF TypeOK
  <2> HIDE DEF S
  <2>2. edits[e] # 0 => Newest(Snapshot(e)) \in SUBSET S
    BY <1>s DEF S
  <2> QED BY <1>a, <1>b, <2>1, <2>2 DEF S
<1>u. Keep > 0 /\ edits[e] # 0 => snaps'[e] = Newest(Snapshot(e))
  BY <1>0, <1>a, <1>b DEF TypeOK
<1>v. \A x \in Episodes : \A s \in snaps'[x] : s.at <= now
  <2>1. \A x \in Episodes : snaps'[x] = snaps[x] \/ (x = e /\ edits[e] # 0 /\ snaps'[x] = Newest(Snapshot(e)))
    BY <1>a, <1>t, <1>u
  <2> QED BY <1>0, <1>s, <2>1 DEF CreatedInv
<1>2. Steps(r)
  BY <1>a, <1>b, <1>e, <1>t, <1>1 DEF Steps
<1>d. \A x \in Episodes : Stored(x)' = Stored(x)
  BY <1>a, SameStored
<1>3. TypeOK'
  BY <1>0, <1>a, <1>t, <1>1, ServerTypes DEF TypeOK
<1>4. FileInv'
  <2>1. Shape(reqs'[r])
    BY <1>0, <1>a, <1>1 DEF ShapeInv, Shape, Stays, Saving
  <2>2. ShapeInv'
    BY <1>0, <1>1, <2>1, ShapesStay
  <2>3. CreatedInv'
    BY <1>0, <1>a, <1>v, <1>1 DEF CreatedInv, Created, Others, Stays
  <2>4. ASSUME e \notin mingled' PROVE Lone(e)'
    <3>1. Lone(e) /\ r \in Busy(e) /\ (\A p \in Busy(e)' : p = r)
      BY <1>0, <1>a, <1>b, <1>2, <1>e, <2>4, LoneParts, StepBusy DEF Busy, Saving, Lone
    <3>2. Keep > 0 /\ edits[e] # 0 => \E s \in snaps'[e] : s.text = text[e][edits[e]]
      BY <1>s, <1>u
    <3>3. edits[e] # 0 => text[e][edits[e]] \in Contents
      BY <3>1 DEF Lone
    <3>4. reqs[r].kind = "bulk" => reqs[r].body.segs = Stored(e).segs
      BY <3>1 DEF Lone
    <3> QED BY <1>a, <1>d, <1>b, <1>e, <1>1, <3>1, <3>2, <3>3, <3>4 DEF Lone, Stays
  <2>5. LoneInv'
    BY <1>0, <1>2, <1>e, <2>4, StepLone
  <2> QED BY <2>2, <2>3, <2>5 DEF FileInv
<1>5. AskedInv' /\ Works /\ Rows' = Rows /\ \A p \in Rows : p # r => reqs'[p] = reqs[p]
  BY <1>0, <1>a, <1>2, StepAsked
<1>6. OwnInv'
  <2>3. \A p \in Rows : ~rash /\ Owned(p) => Owned(p)'
    BY <1>a, <1>1, <1>5 DEF Owned, PageSame, Stays
  <2> QED BY <1>0, <1>a, <1>5, <2>3, WorkOwn
<1>7. SegsInv'
  BY <1>0, <1>a, <1>b, <1>d, <1>e, <1>1, <1>2, StepSegs
<1> QED BY <1>3, <1>4, <1>5, <1>6, <1>7 DEF EditInv

\* The temporary file is created or cut to nothing; it is not the file of edits.
LEMMA OpenKeeps ==
  ASSUME EditInv, NEW r \in Rows, Open(r)
  PROVE  EditInv'
<1>e. PICK e : e = reqs[r].ep
  OBVIOUS
<1>f. PICK file : file = IF tmp[e] = 0 THEN r ELSE tmp[e]
  OBVIOUS
<1>0. TypeOK /\ FileInv /\ AskedInv /\ OwnInv /\ SegsInv /\ ShapeInv /\ CreatedInv /\ LoneInv
  BY DEF EditInv, FileInv
<1>a. PageSame /\ UNCHANGED <<edits, snaps, mingled>> /\ UNCHANGED <<now, crashes>> /\ reqs[r].pc = "copied"
      /\ reqs' = [reqs EXCEPT ![r] = [@ EXCEPT !.pc = "open", !.fd = file]]
      /\ tmp' = [tmp EXCEPT ![e] = file] /\ text' = [text EXCEPT ![e][file] = Empty]
  BY <1>e, <1>f DEF Open, page, clock, PageSame
<1>b. e \in Episodes /\ reqs[r].kind \in {"save", "bulk"} /\ reqs[r].body \in Contents /\ e \notin reqs[r].rest
  BY <1>0, <1>a, <1>e, RowFields DEF ShapeInv, Shape, Saving
<1>c. file \in 1..MaxRequests /\ file # 0 /\ r \in 1..MaxRequests
  <2>1. tmp[e] \in 0..MaxRequests /\ r \in 1..MaxRequests
    BY <1>0, <1>b, RowTypes DEF TypeOK
  <2> QED BY <1>f, <2>1
<1>1. ReqsOK' /\ Others(r) /\ Stays(r) /\ reqs'[r].pc = "open" /\ reqs'[r].fd = file /\ reqs'[r].body = reqs[r].body
  BY <1>0, <1>a, <1>c, OpenDoes
<1>g. edits[e] # 0 => edits[e] # file
  BY <1>0, <1>a, <1>b, <1>e, <1>f DEF CreatedInv, Created
<1>h. /\ tmp'[e] = file /\ \A x \in Episodes : x # e => tmp'[x] = tmp[x] /\ text'[x] = text[x]
      /\ text'[e][file] = Empty /\ \A f \in 1..MaxRequests : f # file => text'[e][f] = text[e][f]
      /\ tmp' \in [Episodes -> 0..MaxRequests] /\ text' \in [Episodes -> [1..MaxRequests -> Texts]]
  <2>1. tmp \in [Episodes -> 0..MaxRequests] /\ text \in [Episodes -> [1..MaxRequests -> Texts]] /\ Empty \in Texts
    BY <1>0 DEF TypeOK, Texts
  <2> HIDE DEF Texts
  <2> QED BY <1>a, <1>b, <1>c, <2>1
<1>i. \A x \in Episodes : edits[x] # 0 => text'[x][edits[x]] = text[x][edits[x]]
  <2> SUFFICES ASSUME NEW x \in Episodes, edits[x] # 0 PROVE text'[x][edits[x]] = text[x][edits[x]]
    OBVIOUS
  <2>1. edits[x] \in 1..MaxRequests
    BY <1>0 DEF TypeOK
  <2> QED BY <1>g, <1>h, <2>1
<1>2. Steps(r)
  BY <1>a, <1>b, <1>e, <1>h, <1>1 DEF Steps
<1>d. \A x \in Episodes : Stored(x)' = Stored(x)
  BY <1>a, <1>i, SameStored
<1>3. TypeOK'
  BY <1>0, <1>a, <1>h, <1>1, ServerTypes DEF TypeOK
<1>4. FileInv'
  <2>1. Shape(reqs'[r])
    BY <1>0, <1>a, <1>c, <1>1 DEF ShapeInv, Shape, Stays, Saving
  <2>2. ShapeInv'
    BY <1>0, <1>1, <2>1, ShapesStay
  <2>3. CreatedInv'
    <3>1. \A x \in Episodes : \A f : Created(x, f) => Created(x, f)'
      BY <1>a, <1>e, <1>1 DEF Created, Others, Stays
    <3>2. Created(e, file)'
      <4>1. CASE tmp[e] = 0
        BY <1>1, <1>b, <1>e, <1>f, <4>1 DEF Created, Others, Stays
      <4>2. CASE tmp[e] # 0
        BY <1>0, <1>b, <1>f, <3>1, <4>2 DEF CreatedInv
      <4> QED BY <4>1, <4>2
    <3> QED BY <1>0, <1>a, <1>g, <1>h, <3>1, <3>2 DEF CreatedInv
  <2>4. ASSUME e \notin mingled' PROVE Lone(e)'
    <3>1. Lone(e) /\ r \in Busy(e) /\ (\A p \in Busy(e)' : p = r)
      BY <1>0, <1>a, <1>b, <1>e, <1>2, <2>4, LoneParts, StepBusy DEF Busy, Saving, Lone
    <3>2. Keep > 0 /\ edits[e] # 0 => \E s \in snaps[e] : s.text = text[e][edits[e]]
      BY <1>a, <3>1 DEF Lone
    <3>3. edits[e] # 0 => text'[e][edits[e]] \in Contents /\ text'[e][edits[e]] = text[e][edits[e]]
      BY <1>b, <1>i, <3>1 DEF Lone
    <3>4. reqs[r].kind = "bulk" => reqs[r].body.segs = Stored(e).segs
      BY <3>1 DEF Lone
    <3>5. Alone(e, r)'
      BY <1>a, <1>d, <1>b, <1>e, <1>h, <1>1, <3>1, <3>2, <3>3, <3>4 DEF Alone, Stays
    <3> QED BY <1>a, <3>1, <3>3, <3>5, AloneIs
  <2>5. LoneInv'
    BY <1>0, <1>2, <1>e, <2>4, StepLone
  <2> QED BY <2>2, <2>3, <2>5 DEF FileInv
<1>5. AskedInv' /\ Works /\ Rows' = Rows /\ \A p \in Rows : p # r => reqs'[p] = reqs[p]
  BY <1>0, <1>a, <1>2, StepAsked
<1>6. OwnInv'
  <2>1. \A p \in Rows : ~rash /\ Owned(p) => Owned(p)'
    BY <1>a, <1>1, <1>5 DEF Owned, PageSame, Stays
  <2>2. \A x \in Episodes, f \in 1..MaxRequests : text'[x][f] \in Contents => text'[x][f] = text[x][f]
    BY <1>h
  <2> QED BY <1>0, <1>5, <2>1, <2>2, WorkOwn
<1>7. SegsInv'
  BY <1>0, <1>a, <1>b, <1>d, <1>1, <1>2, StepSegs
<1> QED BY <1>3, <1>4, <1>5, <1>6, <1>7 DEF EditInv

\* It is written: by the only save of its episode unless two overlapped.
LEMMA WriteKeeps ==
  ASSUME EditInv, NEW r \in Rows, Write(r)
  PROVE  EditInv'
<1>e. PICK e : e = reqs[r].ep
  OBVIOUS
<1>f. PICK file : file = reqs[r].fd
  OBVIOUS
<1>0. TypeOK /\ FileInv /\ AskedInv /\ OwnInv /\ SegsInv /\ ShapeInv /\ CreatedInv /\ LoneInv
  BY DEF EditInv, FileInv
<1>n. PICK new \in {reqs[r].body} \cup (IF text[e][file] = Empty THEN {} ELSE {Mixed}) : text' = [text EXCEPT ![e][file] = new]
  BY <1>e, <1>f DEF Write
<1>a. PageSame /\ UNCHANGED <<edits, tmp, snaps, mingled>> /\ UNCHANGED <<now, crashes>> /\ reqs[r].pc = "open"
      /\ reqs' = [reqs EXCEPT ![r].pc = "written"]
  BY DEF Write, Go, page, clock, PageSame
<1>b. e \in Episodes /\ reqs[r].kind \in {"save", "bulk"} /\ reqs[r].body \in Contents /\ file # 0 /\ file \in 0..MaxRequests
  BY <1>0, <1>a, <1>e, <1>f, RowFields DEF ShapeInv, Shape, Saving
<1>c. file \in 1..MaxRequests /\ (text[e][file] = Empty => new = reqs[r].body) /\ (new \in Contents => new = reqs[r].body)
  <2> HIDE DEF Contents
  <2>1. file \in 1..MaxRequests
    BY <1>b
  <2> QED BY <1>n, <2>1
<1>1. ReqsOK' /\ Others(r) /\ Stays(r) /\ reqs'[r].pc = "written" /\ reqs'[r].fd = file /\ reqs'[r].body = reqs[r].body
  BY <1>0, <1>a, <1>f, GoDoes DEF Advances, Pcs, Saving
<1>h. /\ \A x \in Episodes : x # e => text'[x] = text[x]
      /\ text'[e][file] = new /\ \A f \in 1..MaxRequests : f # file => text'[e][f] = text[e][f]
      /\ text' \in [Episodes -> [1..MaxRequests -> Texts]]
  <2>1. text \in [Episodes -> [1..MaxRequests -> Texts]]
    BY <1>0 DEF TypeOK
  <2>2. new \in Texts
    BY <1>b, <1>n DEF Texts
  <2> HIDE DEF Texts
  <2> QED BY <1>n, <1>b, <1>c, <2>1, <2>2
<1>l. e \notin mingled => /\ Lone(e) /\ r \in Busy(e) /\ file = tmp[e] /\ text[e][file] = Empty
                          /\ edits[e] # 0 => edits[e] # file
  <2> SUFFICES ASSUME e \notin mingled
               PROVE /\ Lone(e) /\ r \in Busy(e) /\ file = tmp[e] /\ text[e][file] = Empty
                     /\ edits[e] # 0 => edits[e] # file
    OBVIOUS
  <2>1. Lone(e) /\ r \in Busy(e)
    BY <1>0, <1>a, <1>b, <1>e, LoneParts DEF Busy, Saving
  <2>2. file = tmp[e] /\ text[e][file] = Empty
    BY <1>a, <1>f, <2>1 DEF Lone
  <2> QED BY <1>0, <1>b, <2>1, <2>2 DEF CreatedInv
<1>i. \A x \in Episodes \ mingled : edits[x] # 0 => text'[x][edits[x]] = text[x][edits[x]]
  <2> SUFFICES ASSUME NEW x \in Episodes \ mingled, edits[x] # 0 PROVE text'[x][edits[x]] = text[x][edits[x]]
    OBVIOUS
  <2>1. edits[x] \in 1..MaxRequests
    BY <1>0 DEF TypeOK
  <2> QED BY <1>h, <1>l, <2>1
<1>2. Steps(r)
  BY <1>a, <1>b, <1>e, <1>h, <1>1 DEF Steps
<1>d. \A x \in Episodes \ mingled : Stored(x)' = Stored(x)
  BY <1>a, <1>i, SameStored
<1>3. TypeOK'
  BY <1>0, <1>a, <1>h, <1>1, ServerTypes DEF TypeOK
<1>4. FileInv'
  <2>1. Shape(reqs'[r])
    BY <1>0, <1>a, <1>b, <1>1 DEF ShapeInv, Shape, Stays, Saving
  <2>2. ShapeInv'
    BY <1>0, <1>1, <2>1, ShapesStay
  <2>3. CreatedInv'
    <3>1. \A x \in Episodes : \A f : Created(x, f) => Created(x, f)'
      BY <1>a, <1>e, <1>1 DEF Created, Others, Stays
    <3> QED BY <1>0, <1>a, <3>1 DEF CreatedInv
  <2>4. ASSUME e \notin mingled' PROVE Lone(e)'
    <3>0. e \notin mingled /\ Lone(e) /\ r \in Busy(e)
      BY <1>a, <1>l, <2>4
    <3>1. \A p \in Busy(e)' : p = r
      <4>1. \A p \in Busy(e)' : p # r => p \in Busy(e)
        BY <1>b, <1>2, StepBusy
      <4>2. \A p \in Busy(e) : p = r
        BY <3>0 DEF Lone
      <4> QED BY <4>1, <4>2
    <3>2. Keep > 0 /\ edits[e] # 0 => \E s \in snaps[e] : s.text = text[e][edits[e]]
      BY <1>a, <3>0 DEF Lone
    <3>3. edits[e] # 0 => text'[e][edits[e]] \in Contents /\ text'[e][edits[e]] = text[e][edits[e]]
      BY <1>b, <1>i, <3>0 DEF Lone
    <3>4. reqs[r].kind = "bulk" => reqs[r].body.segs = Stored(e).segs
      BY <3>0 DEF Lone
    <3>5. text'[e][tmp[e]] = reqs[r].body /\ file = tmp[e]
      BY <1>c, <1>h, <1>l, <3>0
    <3>6. Stored(e)' = Stored(e)
      BY <1>b, <1>d, <3>0
    <3>7. Alone(e, r)'
      BY <1>a, <1>b, <1>e, <1>1, <3>2, <3>3, <3>4, <3>5, <3>6 DEF Alone, Stays
    <3> QED BY <1>a, <3>1, <3>3, <3>7, AloneIs
  <2>5. LoneInv'
    BY <1>0, <1>2, <1>e, <2>4, StepLone
  <2> QED BY <2>2, <2>3, <2>5 DEF FileInv
<1>5. AskedInv' /\ Works /\ Rows' = Rows /\ \A p \in Rows : p # r => reqs'[p] = reqs[p]
  BY <1>0, <1>a, <1>2, StepAsked
<1>6. OwnInv'
  <2>1. \A p \in Rows : ~rash /\ Owned(p) => Owned(p)'
    BY <1>a, <1>1, <1>5 DEF Owned, PageSame, Stays
  <2>2. ~rash => OwnText(about, e, reqs[r].body)
    BY <1>0, <1>e DEF OwnInv
  <2>3. \A x \in Episodes, f \in 1..MaxRequests : text'[x][f] \in Contents =>
           text'[x][f] = text[x][f] \/ (x = e /\ text'[x][f] = reqs[r].body)
    BY <1>c, <1>h
  <2> QED BY <1>0, <1>5, <2>1, <2>2, <2>3, WorkOwn
<1>7. SegsInv'
  BY <1>0, <1>a, <1>b, <1>d, <1>1, <1>2, StepSegs
<1> QED BY <1>3, <1>4, <1>5, <1>6, <1>7 DEF EditInv

\* It takes the place of the file of edits, whose version is in the history by then.
LEMMA ReplaceKeeps ==
  ASSUME EditInv, NEW r \in Rows, Replace(r)
  PROVE  EditInv' /\ \A e \in Episodes \ mingled' : edits'[e] # edits[e] /\ edits[e] # 0 /\ Keep > 0 =>
                       \E s \in snaps[e] : s.text = text[e][edits[e]]
<1>e. PICK e : e = reqs[r].ep
  OBVIOUS
<1>0. TypeOK /\ FileInv /\ AskedInv /\ OwnInv /\ SegsInv /\ ShapeInv /\ CreatedInv /\ LoneInv
  BY DEF EditInv, FileInv
<1>a. PageSame /\ UNCHANGED <<text, snaps, mingled>> /\ UNCHANGED <<now, crashes>> /\ reqs[r].pc = "written"
  BY DEF Replace, Done, page, clock, PageSame
<1>b. e \in Episodes /\ reqs[r].kind \in {"save", "bulk"} /\ reqs[r].body \in Contents
  BY <1>0, <1>a, <1>e, RowFields DEF ShapeInv, Shape, Saving
<1>p. PICK pc \in {"served", "refused"} :
        /\ reqs' = [reqs EXCEPT ![r].pc = pc]
        /\ pc = "refused" => tmp[e] = 0 /\ UNCHANGED <<edits, tmp>>
        /\ pc = "served" => tmp[e] # 0 /\ edits' = [edits EXCEPT ![e] = tmp[e]] /\ tmp' = [tmp EXCEPT ![e] = 0]
  <2>1. CASE tmp[e] = 0
    BY <1>e, <2>1 DEF Replace, Done
  <2>2. CASE tmp[e] # 0
    BY <1>e, <2>2 DEF Replace, Done
  <2> QED BY <2>1, <2>2
<1>1. ReqsOK' /\ Others(r) /\ Stays(r) /\ reqs'[r].pc = pc /\ reqs'[r].fd = reqs[r].fd /\ reqs'[r].body = reqs[r].body
  BY <1>0, <1>a, <1>p, GoDoes DEF Advances, Pcs
<1>h. /\ \A x \in Episodes : x # e => edits'[x] = edits[x] /\ tmp'[x] = tmp[x]
      /\ pc = "refused" => edits'[e] = edits[e] /\ tmp'[e] = tmp[e]
      /\ pc = "served" => edits'[e] = tmp[e] /\ tmp'[e] = 0 /\ tmp[e] # 0
      /\ edits' \in [Episodes -> 0..MaxRequests] /\ tmp' \in [Episodes -> 0..MaxRequests]
  <2>1. tmp \in [Episodes -> 0..MaxRequests] /\ edits \in [Episodes -> 0..MaxRequests]
    BY <1>0 DEF TypeOK
  <2>2. CASE pc = "refused"
    BY <1>p, <2>1, <2>2
  <2>3. CASE pc = "served"
    <3>1. tmp[e] # 0 /\ edits' = [edits EXCEPT ![e] = tmp[e]] /\ tmp' = [tmp EXCEPT ![e] = 0]
      BY <1>p, <2>3
    <3>2. tmp[e] \in 0..MaxRequests /\ 0 \in 0..MaxRequests
      BY <1>b, <2>1 DEF SizesAssumption
    <3> QED BY <1>b, <2>1, <2>3, <3>1, <3>2
  <2> QED BY <2>2, <2>3
<1>l. e \notin mingled => /\ Lone(e) /\ r \in Busy(e) /\ text[e][tmp[e]] = reqs[r].body
                          /\ reqs[r].kind = "bulk" => reqs[r].body.segs = Stored(e).segs
                          /\ \A p \in Busy(e) : p = r
                          /\ Keep > 0 /\ edits[e] # 0 => \E s \in snaps[e] : s.text = text[e][edits[e]]
  <2> SUFFICES ASSUME e \notin mingled
               PROVE /\ Lone(e) /\ r \in Busy(e) /\ text[e][tmp[e]] = reqs[r].body
                     /\ reqs[r].kind = "bulk" => reqs[r].body.segs = Stored(e).segs
                     /\ \A p \in Busy(e) : p = r
                     /\ Keep > 0 /\ edits[e] # 0 => \E s \in snaps[e] : s.text = text[e][edits[e]]
    OBVIOUS
  <2>1. Lone(e) /\ r \in Busy(e)
    BY <1>0, <1>a, <1>b, <1>e, LoneParts DEF Busy, Saving
  <2> QED BY <1>a, <2>1 DEF Lone
<1>2. Steps(r)
  BY <1>a, <1>b, <1>e, <1>h, <1>1 DEF Steps
<1>s. e \notin mingled => Stored(e)' = (IF pc = "served" THEN reqs[r].body ELSE Stored(e))
  <2>1. CASE pc = "refused"
    BY <1>a, <1>h, <2>1, SameStored
  <2>2. CASE pc = "served"
    <3> SUFFICES ASSUME e \notin mingled PROVE Stored(e)' = reqs[r].body
      BY <2>2
    <3>1. edits'[e] # 0 /\ text'[e][edits'[e]] = reqs[r].body
      BY <1>a, <1>h, <1>l, <2>2
    <3>2. Readable(reqs[r].body)
      <4> HIDE DEF Contents
      <4> QED BY <1>b DEF Readable
    <3>3. Stored(e)' = IF edits'[e] # 0 /\ Readable(text'[e][edits'[e]]) THEN text'[e][edits'[e]] ELSE Blank
      BY DEF Stored, Readable
    <3> QED BY <3>1, <3>2, <3>3
  <2> QED BY <2>1, <2>2
<1>d. \A x \in Episodes : x # e => Stored(x)' = Stored(x)
  BY <1>a, <1>h, SameStored
<1>3. TypeOK'
  BY <1>0, <1>a, <1>h, <1>1, ServerTypes DEF TypeOK
<1>4. FileInv'
  <2>1. Shape(reqs'[r])
    BY <1>0, <1>a, <1>b, <1>1, <1>p DEF ShapeInv, Shape, Stays, Saving
  <2>2. ShapeInv'
    BY <1>0, <1>1, <2>1, ShapesStay
  <2>3. CreatedInv'
    <3>1. \A x \in Episodes : \A f : Created(x, f) => Created(x, f)'
      BY <1>a, <1>e, <1>1, <1>p DEF Created, Others, Stays
    <3>2. \A x \in Episodes : Created(x, 0)'
      BY DEF Created
    <3> QED BY <1>0, <1>a, <1>h, <1>p, <3>1, <3>2 DEF CreatedInv
  <2>4. ASSUME e \notin mingled' PROVE Lone(e)'
    <3>0. e \notin mingled
      BY <1>a, <2>4
    <3>1. Busy(e)' = {}
      <4>1. \A p \in Busy(e)' : p # r => p \in Busy(e)
        BY <1>b, <1>2, StepBusy
      <4>2. r \notin Busy(e)'
        BY <1>1, <1>p DEF Busy, Saving
      <4> QED BY <1>l, <3>0, <4>1, <4>2
    <3>2. edits'[e] # 0 => text'[e][edits'[e]] \in Contents
      BY <1>a, <1>b, <1>h, <1>l, <1>p, <3>0 DEF Lone
    <3> QED BY <3>1, <3>2 DEF Lone
  <2>5. LoneInv'
    BY <1>0, <1>2, <1>e, <2>4, StepLone
  <2> QED BY <2>2, <2>3, <2>5 DEF FileInv
<1>5. AskedInv' /\ Works /\ Rows' = Rows /\ \A p \in Rows : p # r => reqs'[p] = reqs[p]
  BY <1>0, <1>a, <1>2, StepAsked
<1>6. OwnInv'
  <2>1. \A p \in Rows : ~rash /\ Owned(p) => Owned(p)'
    BY <1>a, <1>1, <1>5 DEF Owned, PageSame, Stays
  <2> QED BY <1>0, <1>a, <1>5, <2>1, WorkOwn
<1>7. SegsInv'
  <2>1. CASE pc = "refused" \/ e \in mingled \/ reqs[r].kind = "bulk"
    <3>1. \A x \in Episodes \ mingled' : Stored(x)'.segs = Stored(x).segs
      BY <1>a, <1>d, <1>h, <1>l, <1>s, <1>p, <2>1
    <3>2. \A p \in Rows : /\ reqs[p].kind = "save" /\ reqs'[p].pc = "done" => reqs[p].pc = "done"
                          /\ reqs[p].kind = "save" => reqs'[p].ep = reqs[p].ep
                          /\ Saves(p)' => Saves(p) /\ reqs'[p].body.segs = reqs[p].body.segs
      BY <1>a, <1>1, <1>5, <1>p DEF Stays, Saves
    <3>3. \A p \in Rows : Says(p)' /\ reqs'[p].ep \notin mingled' => (Says(p) /\ reqs'[p] = reqs[p])
      BY <1>a, <1>b, <1>e, <1>1, <1>5, <1>p, <2>1 DEF Stays, Says
    <3> QED BY <1>0, <1>a, <1>5, <3>1, <3>2, <3>3, WorkSegs
  <2>2. CASE pc = "served" /\ e \notin mingled /\ reqs[r].kind = "save"
    <3> SUFFICES ASSUME ~rash' PROVE SameInv' /\ \A x \in (Episodes \ mingled)' : SegsOf(x, Stored(x).segs)'
      BY DEF SegsInv
    <3>1. ~rash /\ UNCHANGED <<told, shown, form, dirty>> /\ Rows' = Rows
      BY <1>a, <1>5 DEF PageSame
    <3>2. SameInv /\ \A x \in Episodes \ mingled : SegsOf(x, Stored(x).segs)
      BY <1>0, <3>1 DEF SegsInv
    <3>3. SameInv'
      BY <1>a, <1>1, <1>5, <3>1, <3>2, <2>2 DEF SameInv, Stays
    <3>4. Waiting(r) /\ \A p \in Rows : Waiting(p) => p = r
      BY <1>0, <1>a, <2>2, <3>1 DEF AskedInv, Waiting, Plain
    <3>5. ASSUME NEW x \in Episodes \ mingled', x # e PROVE SegsOf(x, Stored(x).segs)'
      <4>1. SegsOf(x, Stored(x).segs) /\ Stored(x)' = Stored(x)
        BY <1>a, <1>d, <3>2, <3>5
      <4>2. SavesOver(x)' => SavesOver(x)
        BY <1>1, <1>5, <1>e, <3>5 DEF SavesOver, Stays
      <4>3. \A p \in Rows' : reqs'[p].kind \in {"load", "save"} /\ reqs'[p].pc = "served" /\ reqs'[p].ep = x => p # r /\ reqs'[p] = reqs[p]
        BY <1>1, <1>5, <1>e, <3>5 DEF Stays
      <4> QED BY <3>1, <4>1, <4>2, <4>3 DEF SegsOf
    <3>6. SegsOf(e, Stored(e).segs)'
      <4>1. Stored(e)' = reqs[r].body
        BY <1>s, <2>2
      <4>2. ~SavesOver(e)'
        BY <1>1, <1>e, <1>5, <2>2 DEF SavesOver, Stays
      <4>3. \A p \in Rows' : reqs'[p].kind \in {"load", "save"} /\ reqs'[p].pc = "served" => p = r
        BY <1>5, <3>4 DEF Waiting, Plain
      <4>4. ~dirty => reqs[r].body.segs = form.segs
        BY <1>a, <2>2, <3>2 DEF SameInv
      <4> QED BY <1>1, <3>1, <4>1, <4>2, <4>3, <4>4 DEF SegsOf
    <3> QED BY <3>3, <3>5, <3>6
  <2> QED BY <1>b, <1>p, <2>1, <2>2
<1>8. \A x \in Episodes \ mingled' : edits'[x] # edits[x] /\ edits[x] # 0 /\ Keep > 0 => \E s \in snaps[x] : s.text = text[x][edits[x]]
  BY <1>a, <1>h, <1>l
<1> QED BY <1>3, <1>4, <1>5, <1>6, <1>7, <1>8 DEF EditInv

-----------------------------------------------------------------------------
(* All together.                                                           *)

\* The invariant holds at first,
LEMMA EditStarts == Init => EditInv
<1> SUFFICES ASSUME Init PROVE EditInv
  OBVIOUS
<1>1. at = None /\ shown = None /\ form = Blank /\ dirty = FALSE /\ told = [e \in Episodes |-> 0] /\ about = <<>> /\ rash = FALSE
      /\ reqs = <<>> /\ text = [e \in Episodes |-> [r \in 1..MaxRequests |-> Empty]]
      /\ edits = [e \in Episodes |-> 0] /\ tmp = [e \in Episodes |-> 0]
      /\ snaps = [e \in Episodes |-> {}] /\ now = 1 /\ crashes = 0 /\ mingled = {}
  BY DEF Init
<1>2. Rows = {}
  BY <1>1 DEF Rows
<1>3. TypeOK
  <2>1. reqs \in Seq(Requests) /\ Len(reqs) <= MaxRequests /\ about \in Seq(Episodes \cup {None})
    <3> HIDE DEF Requests
    <3> QED BY <1>1
  <2>2. text \in [Episodes -> [1..MaxRequests -> Texts]]
    BY <1>1 DEF Texts
  <2>3. now \in 1..MaxTime /\ crashes \in 0..MaxCrashes
    BY <1>1
  <2> QED BY <1>1, <2>1, <2>2, <2>3, BlankTypes DEF TypeOK
<1>4. \A e \in Episodes : Stored(e) = Blank
  BY <1>1 DEF Stored
<1>5. FileInv
  <2>1. \A e \in Episodes : edits[e] = 0 /\ tmp[e] = 0 /\ snaps[e] = {} /\ Busy(e) = {}
    BY <1>1, <1>2 DEF Busy
  <2> QED BY <1>2, <2>1 DEF FileInv, ShapeInv, CreatedInv, Created, LoneInv
<1>6. AskedInv
  BY <1>1, <1>2 DEF AskedInv
<1>7. OwnInv
  <2>1. \A e \in Episodes, f \in 1..MaxRequests : text[e][f] \notin Contents
    <3> HIDE DEF Contents
    <3> QED BY <1>1
  <2> QED BY <1>1, <1>2, <2>1, OwnBlank DEF OwnInv
<1>8. SegsInv
  <2>1. Blank.segs = 0
    BY DEF Blank
  <2> QED BY <1>1, <1>2, <1>4, <2>1 DEF SegsInv, SameInv, SegsOf
<1> QED BY <1>3, <1>5, <1>6, <1>7, <1>8 DEF EditInv

EditMove ==
  \/ Operator \/ (\E r \in Rows : Browser(r) \/ Handler(r)) \/ Tick \/ Crash
  \/ crashes < MaxCrashes /\ crashes' = crashes + 1 /\ UNCHANGED page /\ UNCHANGED files /\ UNCHANGED <<reqs, now>>

\* The steps that change the variables of the editor are these.
LEMMA EditActions == RawNext => [EditMove]_vars
<1> SUFFICES ASSUME RawNext PROVE [EditMove]_vars
  OBVIOUS
<1>1. CASE UNCHANGED ServerVars
  BY <1>1 DEF ServerVars
<1>2. CASE ServerNext
  <2>1. CASE Editing
    BY <2>1 DEF Editing, EditMove, Handler
  <2>2. CASE UNCHANGED vars
    BY <2>2
  <2>3. CASE MainDies
    BY <2>3 DEF MainDies, EditMove
  <2>4. CASE OtherDies
    BY <2>4 DEF OtherDies, EditMove
  <2> QED BY <1>2, <2>1, <2>2, <2>3, <2>4 DEF ServerNext
<1> QED BY <1>1, <1>2 DEF RawNext

\* Each step of a handler keeps the invariant,
LEMMA HandlerKeeps ==
  ASSUME EditInv, NEW r \in Rows, Handler(r) PROVE EditInv'
<1>0. TypeOK
  BY DEF EditInv
<1>1. CASE ServeSuggest(r)
  <2>1. Advances(r, "asked", "served") /\ reqs[r].kind = "suggest"
    BY <1>0, <1>1, GoDoes DEF ServeSuggest, Go, Pcs
  <2>2. PageSame /\ FilesSame /\ UNCHANGED <<now, crashes>>
    BY <1>1 DEF ServeSuggest, Go, PageSame, FilesSame, page, files, clock
  <2> QED BY <2>1, <2>2, GoKeeps
<1>2. CASE Refuse(r)
  <2>1. Advances(r, "asked", "refused") /\ reqs[r].kind # "bulk"
    BY <1>0, <1>2, GoDoes DEF Refuse, Go, Pcs
  <2>2. PageSame /\ FilesSame /\ UNCHANGED <<now, crashes>>
    BY <1>2 DEF Refuse, Go, PageSame, FilesSame, page, files, clock
  <2> QED BY <2>1, <2>2, GoKeeps
<1> QED BY <1>1, <1>2, ServeKeeps, MergeKeeps, BackupKeeps, OpenKeeps, WriteKeeps, ReplaceKeeps, NextKeeps DEF Handler

\* and so does every step.
LEMMA EditSteps == EditInv /\ [EditMove]_vars => EditInv'
<1> SUFFICES ASSUME EditInv, [EditMove]_vars PROVE EditInv'
  OBVIOUS
<1>1. CASE Operator
  BY <1>1, SelectKeeps, EditKeeps, SuggestKeeps, SaveKeeps, BulkKeeps DEF Operator
<1>2. ASSUME NEW r \in Rows, Browser(r) \/ Handler(r) PROVE EditInv'
  BY <1>2, BrowserKeeps, HandlerKeeps
<1>3. CASE Tick \/ Crash
  BY <1>3, TickKeeps, CrashKeeps
<1>4. CASE crashes < MaxCrashes /\ crashes' = crashes + 1 /\ UNCHANGED page /\ UNCHANGED files /\ UNCHANGED <<reqs, now>>
  BY <1>4, OtherKeeps
<1>5. CASE UNCHANGED vars
  BY <1>5 DEF vars, EditInv, TypeOK, FileInv, ShapeInv, Shape, CreatedInv, Created, LoneInv, Busy, Stored, AskedInv, Waiting, Plain, OwnInv,
     SegsInv, SameInv, SegsOf, SavesOver, Rows
<1> QED BY <1>1, <1>2, <1>3, <1>4, <1>5 DEF EditMove

\* It implies what is promised of edits.
LEMMA EditMeans == EditInv => SidecarWhole /\ OwnEdits /\ PromiseKept /\ CleanIsStored
<1> SUFFICES ASSUME EditInv PROVE SidecarWhole /\ OwnEdits /\ PromiseKept /\ CleanIsStored
  OBVIOUS
<1>0. TypeOK /\ LoneInv /\ AskedInv /\ OwnInv /\ SegsInv
  BY DEF EditInv, FileInv
<1>1. SidecarWhole
  <2> HIDE DEF Contents
  <2> QED BY <1>0 DEF LoneInv, SidecarWhole, Readable
<1>2. OwnEdits
  <2> SUFFICES ASSUME ~rash, NEW e \in Episodes, NEW field \in DOMAIN Blank, Stored(e)[field] # 0
               PROVE about[Stored(e)[field]] \in {e, None}
    BY DEF OwnEdits
  <2>1. OwnText(about, e, Stored(e))
    BY <1>0, StoredTypes, OwnBlank DEF OwnInv
  <2>2. DOMAIN Stored(e) = DOMAIN Blank
    BY <1>0, StoredTypes DEF Contents, Blank
  <2> QED BY <2>1, <2>2 DEF OwnText, Own
<1>3. PromiseKept
  BY <1>0 DEF SegsInv, SegsOf, SavesOver, PromiseKept
<1>4. CleanIsStored
  BY <1>0 DEF SegsInv, SegsOf, AskedInv, CleanIsStored
<1> QED BY <1>1, <1>2, <1>3, <1>4

EditStep ==
  \A e \in Episodes \ mingled' :
     edits'[e] # edits[e] /\ edits[e] # 0 /\ Keep > 0 => \E s \in snaps[e] : s.text = text[e][edits[e]]

\* Only the last step of a save replaces the file of edits.
LEMMA EditHistory == EditInv /\ [EditMove]_vars => [EditStep]_vars
<1> SUFFICES ASSUME EditInv, EditMove, edits' # edits PROVE EditStep
  BY DEF EditStep, vars
<1>1. \E r \in Rows : Replace(r)
  <2>1. ASSUME NEW r \in Rows, Handler(r) PROVE Replace(r)
    BY <2>1 DEF Handler, ServeEpisode, ServeSuggest, Refuse, Merge, Backup, Open, Write, BulkNext, Go, files
  <2>2. ~Operator
    BY DEF Operator, selectEpisode, Edit, Suggest, save, BulkPrompt, Outside
  <2>3. ~(\E r \in Rows : Browser(r))
    BY DEF Browser, Loaded, LoadFails, Saved, SaveFails, Suggested, SuggestFails, Outside
  <2>4. ~Tick /\ ~Crash /\ ~UNCHANGED files
    BY DEF Tick, Crash, files
  <2> QED BY <2>1, <2>2, <2>3, <2>4 DEF EditMove
<1> QED BY <1>1, ReplaceKeeps DEF EditStep

\* Whatever requests, answers and ends of the server come between: the file of edits
\* of an episode can be read, holds what was edited for that episode, and keeps the
\* segments the page was told are stored, if no two saves of the episode overlapped
\* and the operator waited for answers (store.py:190-240, app.js:100-280).
THEOREM EditsSafe == RawSpec => []EditsKept
<1>1. RawInit => EditInv /\ ProxyInv
  BY EditStarts, ProxyStarts DEF RawInit, ServerInit
<1>2. EditInv /\ ProxyInv /\ [RawNext]_rawVars => EditInv' /\ ProxyInv'
  <2>1. [RawNext]_rawVars => [EditMove]_vars /\ [ProxyMove]_proxyVars
    BY EditActions, ProxyActions DEF rawVars, ServerVars
  <2> QED BY <2>1, EditSteps, ProxySteps
<1>3. EditInv /\ ProxyInv => EditsKept
  BY EditMeans DEF EditsKept, ServerTypeOK, EditInv, ProxyInv
<1> QED BY <1>1, <1>2, <1>3, PTL DEF RawSpec

\* A version a save replaces is in the history by then, if the save was alone
\* (store.py:170-240).
THEOREM HistoryKept == RawSpec => HistoryHolds
<1>1. RawInit => EditInv
  BY EditStarts DEF RawInit, ServerInit
<1>2. EditInv /\ [RawNext]_rawVars => EditInv' /\ [EditStep]_vars
  <2>1. [RawNext]_rawVars => [EditMove]_vars
    BY EditActions DEF rawVars, ServerVars
  <2> QED BY <2>1, EditSteps, EditHistory
<1>3. RawSpec => [][EditStep]_vars
  BY <1>1, <1>2, PTL DEF RawSpec
<1> QED BY <1>3 DEF HistoryHolds, EditStep
=============================================================================
