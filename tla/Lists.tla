------------------------------- MODULE Lists -------------------------------
(***************************************************************************)
(* Lists of the server (util.Array), as sequences.  Array.Push is Append,  *)
(* Array.Length is Len, Array.IndexOf(o) # -1 is o \in Elems(list); what   *)
(* is left is removal.  Definitions are free of RECURSIVE, so that they    *)
(* can be proved about (ListsProofs).                                      *)
(***************************************************************************)
EXTENDS Integers, Sequences, FiniteSets

Elems(list) == {list[i] : i \in DOMAIN list}

NoDuplicates(list) == \A i, j \in DOMAIN list : list[i] = list[j] => i = j

(***************************************************************************)
(* The sublist of the elements that are in S, in their order: the j-th     *)
(* element kept is the one that has j kept elements up to and including    *)
(* its own position.  It is what is left of a list after Array.Remove has  *)
(* been called for every element outside S.                                *)
(***************************************************************************)
Keep(list, S) ==
  LET kept == {i \in DOMAIN list : list[i] \in S}
      rank == [i \in kept |-> Cardinality({k \in kept : k <= i})]
      pos  == [j \in 1..Cardinality(kept) |-> CHOOSE i \in kept : rank[i] = j]
  IN  [j \in 1..Cardinality(kept) |-> list[pos[j]]]

\* What a loop over the list makes of `start`, if F[<<a, e>>] is what its turn
\* for the element e makes of a.
Looped(F, start, list) ==
  LET after[i \in 0..Len(list)] ==
        IF i = 0 THEN start ELSE F[<<after[i - 1], list[i]>>]
  IN  after[Len(list)]

\* Smallest element of a nonempty set of natural numbers.
Least(S) == CHOOSE n \in S : \A m \in S : n <= m
=============================================================================
