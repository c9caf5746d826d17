------------------------------ MODULE Ordering ------------------------------
(* What the tools put in order: sets of numbers, the members of a sequence  *)
(* that are kept, and sequences sorted by a key.                            *)
EXTENDS Integers, Sequences, FiniteSets

\* The members of a set of numbers, in ascending order.
InOrder(S) == CHOOSE s \in [1..Cardinality(S) -> S] : \A i, j \in DOMAIN s : i < j => s[i] < s[j]

\* The members at the positions of S.
Selected(seq, S) ==
  LET at == InOrder(S) IN [k \in 1..Cardinality(S) |-> seq[at[k]]]

\* The positions by the number each of them has; those with the same stay as they are.
Precedes(key, j, i) == key[j] < key[i] \/ (key[j] = key[i] /\ j < i)
ByKey(key) ==
  CHOOSE p \in [DOMAIN key -> DOMAIN key] : \A i, j \in DOMAIN p : i < j => Precedes(key, p[i], p[j])
SortedBy(seq, key) ==
  LET at == ByKey(key) IN [k \in DOMAIN key |-> seq[at[k]]]
=============================================================================
