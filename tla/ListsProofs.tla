---------------------------- MODULE ListsProofs ----------------------------
EXTENDS Lists, FiniteSetTheorems, WellFoundedInduction, TLAPS

\* Every nonempty set of naturals has its least element: strict inclusion of
\* the intervals 0..n is well founded.
LEMMA LeastProperties ==
  ASSUME NEW S \in SUBSET Nat, S # {}
  PROVE  /\ Least(S) \in S
         /\ \A m \in S : Least(S) <= m
<1> DEFINE Intervals == {0..n : n \in S}
<1>1. Intervals # {}
  OBVIOUS
<1>2. ASSUME NEW n \in Nat
      PROVE  0..n \in FiniteSubsetsOf(Nat)
  <2>1. IsFiniteSet(0..n)
    BY FS_Interval
  <2>2. 0..n \in SUBSET Nat
    OBVIOUS
  <2> QED BY <2>1, <2>2 DEF FiniteSubsetsOf
<1>3. Intervals \subseteq FiniteSubsetsOf(Nat)
  BY <1>2
<1>4. PICK I \in Intervals :
             \A J \in Intervals : ~(<<J, I>> \in StrictSubsetOrdering(Nat))
  <2> HIDE DEF Intervals
  <2> QED BY <1>1, <1>3, WFMin, FS_StrictSubsetOrderingWellFounded
<1>5. PICK n \in S : I = 0..n
  OBVIOUS
<1>6. \A m \in S : n <= m
  <2> SUFFICES ASSUME NEW m \in S, m < n PROVE FALSE
    OBVIOUS
  <2>1. 0..m \subseteq 0..n /\ n \in 0..n /\ n \notin 0..m
    OBVIOUS
  <2>2. 0..m \in SUBSET Nat /\ 0..n \in SUBSET Nat
    OBVIOUS
  <2>3. <<0..m, 0..n>> \in StrictSubsetOrdering(Nat)
    BY <2>1, <2>2, Zenon DEF StrictSubsetOrdering
  <2>4. 0..m \in Intervals
    OBVIOUS
  <2> QED BY <2>3, <2>4, <1>4, <1>5
<1> QED BY <1>6 DEF Least

\* The number of kept positions up to i numbers the kept positions: it is a
\* bijection between them and 1..Cardinality(kept).
LEMMA RankProperties ==
  ASSUME NEW kept, NEW n \in Nat, kept \subseteq 1..n,
         NEW rank, rank = [i \in kept |-> Cardinality({k \in kept : k <= i})]
  PROVE  /\ Cardinality(kept) \in Nat
         /\ rank \in Bijection(kept, 1..Cardinality(kept))
         /\ \A i, j \in kept : i < j => rank[i] < rank[j]
<1> DEFINE UpTo(i) == {k \in kept : k <= i}
<1>1. IsFiniteSet(kept) /\ Cardinality(kept) \in Nat
  <2>1. IsFiniteSet(1..n)
    BY FS_Interval
  <2>2. kept \in SUBSET (1..n)
    OBVIOUS
  <2>3. IsFiniteSet(kept)
    BY <2>1, <2>2, FS_Subset
  <2> QED BY <2>3, FS_CardinalityType
<1>2. ASSUME NEW i \in kept
      PROVE  /\ IsFiniteSet(UpTo(i)) /\ Cardinality(UpTo(i)) \in Nat
             /\ Cardinality(UpTo(i)) <= Cardinality(kept)
             /\ Cardinality(UpTo(i)) # 0
  <2>1. UpTo(i) \in SUBSET kept /\ UpTo(i) # {}
    BY <1>2
  <2> HIDE DEF UpTo
  <2> QED BY <2>1, <1>1, FS_Subset, FS_CardinalityType, FS_EmptySet
<1>3. rank \in [kept -> 1..Cardinality(kept)]
  BY <1>1, <1>2
<1>4. ASSUME NEW i \in kept, NEW j \in kept, i < j
      PROVE  Cardinality(UpTo(i)) < Cardinality(UpTo(j))
  <2>1. i \in Nat /\ j \in Nat /\ \A k \in kept : k \in Nat
    OBVIOUS
  <2>2. \A k \in kept : k <= i => k <= j
    BY <2>1, <1>4
  <2>3. UpTo(i) \in SUBSET UpTo(j)
    BY <2>2
  <2>4. j \in UpTo(j) /\ j \notin UpTo(i)
    BY <2>1, <1>4
  <2>5. IsFiniteSet(UpTo(j)) /\ Cardinality(UpTo(i)) \in Nat /\ Cardinality(UpTo(j)) \in Nat
    BY <1>2
  <2> HIDE DEF UpTo
  <2>6. /\ Cardinality(UpTo(i)) <= Cardinality(UpTo(j))
        /\ Cardinality(UpTo(i)) # Cardinality(UpTo(j))
    BY <2>3, <2>4, <2>5, FS_Subset
  <2> QED BY <2>5, <2>6
<1>5. \A i, j \in kept : rank[i] = rank[j] => i = j
  <2> SUFFICES ASSUME NEW i \in kept, NEW j \in kept, rank[i] = rank[j], i # j
               PROVE  FALSE
    OBVIOUS
  <2>1. i < j \/ j < i
    OBVIOUS
  <2>2. Cardinality(UpTo(i)) \in Nat /\ Cardinality(UpTo(j)) \in Nat
    BY <1>2
  <2>3. Cardinality(UpTo(i)) # Cardinality(UpTo(j))
    BY <2>1, <2>2, <1>4
  <2> QED BY <2>3
<1>6. rank \in Injection(kept, 1..Cardinality(kept))
  BY <1>3, <1>5 DEF Injection, IsInjective
<1>7. /\ IsFiniteSet(1..Cardinality(kept))
      /\ Cardinality(1..Cardinality(kept)) = Cardinality(kept)
  BY <1>1, FS_Interval
<1>8. rank \in Surjection(kept, 1..Cardinality(kept))
  BY <1>6, <1>7, FS_Injection
<1> QED BY <1>1, <1>4, <1>6, <1>8 DEF Bijection

\* What is left of a list after removals is a list, of exactly the elements
\* that were not removed, and without duplicates if the list had none.
LEMMA KeepProperties ==
  ASSUME NEW T, NEW list \in Seq(T), NEW S
  PROVE  /\ Keep(list, S) \in Seq(T)
         /\ Elems(Keep(list, S)) = Elems(list) \cap S
         /\ NoDuplicates(list) => NoDuplicates(Keep(list, S))
<1> DEFINE kept == {i \in DOMAIN list : list[i] \in S}
           rank == [i \in kept |-> Cardinality({k \in kept : k <= i})]
           n == Cardinality(kept)
           pos == [j \in 1..n |-> CHOOSE i \in kept : rank[i] = j]
<1>1. n \in Nat /\ rank \in Bijection(kept, 1..n)
  <2>1. kept \subseteq 1..Len(list) /\ Len(list) \in Nat
    OBVIOUS
  <2> HIDE DEF kept
  <2> QED BY <2>1, RankProperties
<1>2. Keep(list, S) = [j \in 1..n |-> list[pos[j]]]
  BY DEF Keep
<1>3. ASSUME NEW j \in 1..n
      PROVE  pos[j] \in kept /\ rank[pos[j]] = j
  <2> HIDE DEF kept, rank, n
  <2>1. \E i \in kept : rank[i] = j
    BY <1>1, <1>3 DEF Bijection, Surjection
  <2> QED BY <2>1
<1>4. ASSUME NEW i \in kept
      PROVE  rank[i] \in 1..n /\ pos[rank[i]] = i
  <2> HIDE DEF kept, rank, n, pos
  <2>1. rank[i] \in 1..n
    BY <1>1, <1>4 DEF Bijection, Surjection
  <2>2. rank[pos[rank[i]]] = rank[i] /\ pos[rank[i]] \in kept
    BY <2>1, <1>3
  <2> QED BY <2>1, <2>2, <1>1, <1>4 DEF Bijection, Injection, IsInjective
<1>5. Keep(list, S) \in Seq(T)
  <2>1. \A i \in kept : list[i] \in T
    OBVIOUS
  <2>2. \A j \in 1..n : list[pos[j]] \in T
    <3> HIDE DEF kept, rank, n, pos
    <3> QED BY <2>1, <1>3
  <2> HIDE DEF kept, rank, n, pos
  <2> QED BY <2>2, <1>1, <1>2
<1>6. DOMAIN Keep(list, S) = 1..n
  BY <1>2
<1>7. Elems(Keep(list, S)) = Elems(list) \cap S
  <2>1. ASSUME NEW e \in Elems(Keep(list, S))
        PROVE  e \in Elems(list) \cap S
    <3>1. PICK j \in 1..n : e = list[pos[j]]
      <4> HIDE DEF kept, rank, n, pos
      <4> QED BY <2>1, <1>6, <1>2 DEF Elems
    <3> QED BY <3>1, <1>3 DEF Elems
  <2>2. ASSUME NEW e \in Elems(list) \cap S
        PROVE  e \in Elems(Keep(list, S))
    <3>1. PICK i \in kept : e = list[i]
      BY <2>2 DEF Elems
    <3> HIDE DEF kept, rank, n, pos
    <3> QED BY <3>1, <1>4, <1>6, <1>2 DEF Elems
  <2> QED BY <2>1, <2>2
<1>8. ASSUME NoDuplicates(list),
             NEW i \in 1..n, NEW j \in 1..n, list[pos[i]] = list[pos[j]]
      PROVE  i = j
  <2>1. pos[i] \in DOMAIN list /\ pos[j] \in DOMAIN list
    <3>1. kept \subseteq DOMAIN list
      OBVIOUS
    <3> HIDE DEF kept, rank, n, pos
    <3> QED BY <3>1, <1>3, <1>8
  <2> HIDE DEF kept, rank, n, pos
  <2>2. pos[i] = pos[j]
    BY <1>8, <2>1 DEF NoDuplicates
  <2> QED BY <2>2, <1>3
<1>9. NoDuplicates(list) => NoDuplicates(Keep(list, S))
  <2> HIDE DEF kept, rank, n, pos
  <2> QED BY <1>8, <1>6, <1>2 DEF NoDuplicates
<1> QED BY <1>5, <1>7, <1>9

\* Appending at the end.
LEMMA AppendElems ==
  ASSUME NEW T, NEW list \in Seq(T), NEW e \in T
  PROVE  /\ Append(list, e) \in Seq(T)
         /\ Elems(Append(list, e)) = Elems(list) \cup {e}
         /\ NoDuplicates(list) /\ e \notin Elems(list) => NoDuplicates(Append(list, e))
<1>1. /\ Append(list, e) \in Seq(T)
      /\ DOMAIN Append(list, e) = 1..(Len(list) + 1)
      /\ Append(list, e)[Len(list) + 1] = e
      /\ \A i \in DOMAIN list : i \in 1..Len(list) /\ Append(list, e)[i] = list[i]
  OBVIOUS
<1>2. \A i \in 1..(Len(list) + 1) : i \in DOMAIN list \/ i = Len(list) + 1
  OBVIOUS
<1>3. Elems(Append(list, e)) = Elems(list) \cup {e}
  <2>1. \A x \in Elems(Append(list, e)) : x \in Elems(list) \cup {e}
    BY <1>1, <1>2 DEF Elems
  <2>2. \A x \in Elems(list) : x \in Elems(Append(list, e))
    BY <1>1 DEF Elems
  <2>3. e \in Elems(Append(list, e))
    BY <1>1 DEF Elems
  <2> QED BY <2>1, <2>2, <2>3
<1>4. ASSUME NoDuplicates(list), e \notin Elems(list)
      PROVE  NoDuplicates(Append(list, e))
  <2>1. \A i \in DOMAIN list : list[i] # e
    BY <1>4 DEF Elems
  <2> QED BY <2>1, <1>1, <1>2, <1>4 DEF NoDuplicates
<1> QED BY <1>1, <1>3, <1>4

\* The first of a list, and the others.
LEMMA FirstIsElem ==
  ASSUME NEW T, NEW list \in Seq(T), list # <<>>
  PROVE  list[1] \in Elems(list)
<1>1. 1 \in DOMAIN list
  OBVIOUS
<1> QED BY <1>1 DEF Elems

LEMMA TailElems ==
  ASSUME NEW T, NEW list \in Seq(T), list # <<>>, NEW e \in Elems(list)
  PROVE  list[1] \in T /\ Tail(list) \in Seq(T) /\ (e = list[1] \/ e \in Elems(Tail(list)))
<1> PICK n : n = Len(list)
  OBVIOUS
<1> PICK rest : rest = Tail(list)
  OBVIOUS
<1>1. /\ n \in Nat \ {0} /\ DOMAIN list = 1..n /\ DOMAIN rest = 1..(n - 1)
      /\ \A i \in 1..(n - 1) : rest[i] = list[i + 1]
      /\ rest \in Seq(T) /\ list[1] \in T
  OBVIOUS
<1>2. PICK i \in 1..n : e = list[i]
  BY <1>1 DEF Elems
<1>3. CASE i # 1
  <2>1. i - 1 \in 1..(n - 1) /\ (i - 1) + 1 = i
    BY <1>1, <1>3
  <2>2. rest[i - 1] = e
    BY <1>1, <1>2, <2>1
  <2> QED BY <1>1, <2>1, <2>2 DEF Elems
<1> QED BY <1>1, <1>2, <1>3

\* Removals keep the order of what they leave: `pos` are the places that it had.
LEMMA KeepPositions ==
  ASSUME NEW T, NEW list \in Seq(T), NEW S
  PROVE  \E pos \in [1..Len(Keep(list, S)) -> DOMAIN list] :
            /\ \A j \in 1..Len(Keep(list, S)) :
                  Keep(list, S)[j] = list[pos[j]] /\ list[pos[j]] \in S
            /\ \A i, j \in 1..Len(Keep(list, S)) : i < j => pos[i] < pos[j]
            /\ \A i \in DOMAIN list :
                  list[i] \in S => \E j \in 1..Len(Keep(list, S)) : pos[j] = i
<1> DEFINE kept == {i \in DOMAIN list : list[i] \in S}
           rank == [i \in kept |-> Cardinality({k \in kept : k <= i})]
           n == Cardinality(kept)
           pos == [j \in 1..n |-> CHOOSE i \in kept : rank[i] = j]
<1>1. /\ n \in Nat /\ rank \in Bijection(kept, 1..n)
      /\ \A i, j \in kept : i < j => rank[i] < rank[j]
  <2>1. kept \subseteq 1..Len(list) /\ Len(list) \in Nat
    OBVIOUS
  <2> HIDE DEF kept
  <2> QED BY <2>1, RankProperties
<1>2. Keep(list, S) = [j \in 1..n |-> list[pos[j]]]
  BY DEF Keep
<1>3. \A j \in 1..n : pos[j] \in kept /\ rank[pos[j]] = j
  <2> TAKE j \in 1..n
  <2> HIDE DEF kept, rank, n
  <2>1. \E i \in kept : rank[i] = j
    BY <1>1 DEF Bijection, Surjection
  <2> QED BY <2>1
<1>4. DOMAIN pos = 1..n
  OBVIOUS
<1>5. \A i \in kept : i \in DOMAIN list /\ i \in Nat /\ list[i] \in S
  OBVIOUS
<1>6. \A i \in DOMAIN list : list[i] \in S => i \in kept
  OBVIOUS
<1>7. Len(Keep(list, S)) = n
  <2> HIDE DEF kept, rank, n, pos
  <2> QED BY <1>1, <1>2
<1> HIDE DEF kept, rank, n, pos
<1>8. \A j \in 1..n : Keep(list, S)[j] = list[pos[j]] /\ list[pos[j]] \in S
  BY <1>2, <1>3, <1>5
<1>9. \A i, j \in 1..n : i < j => pos[i] < pos[j]
  <2> SUFFICES ASSUME NEW i \in 1..n, NEW j \in 1..n, i < j, ~(pos[i] < pos[j])
               PROVE  FALSE
    OBVIOUS
  <2>1. pos[i] \in kept /\ pos[j] \in kept /\ pos[i] \in Nat /\ pos[j] \in Nat
    BY <1>3, <1>5
  <2>2. pos[i] = pos[j] \/ pos[j] < pos[i]
    BY <2>1
  <2>3. rank[pos[i]] = i /\ rank[pos[j]] = j
    BY <1>3
  <2> QED BY <1>1, <2>1, <2>2, <2>3
<1>10. \A i \in kept : \E j \in 1..n : pos[j] = i
  <2> TAKE i \in kept
  <2>1. rank[i] \in 1..n
    BY <1>1 DEF Bijection, Surjection
  <2>2. rank[pos[rank[i]]] = rank[i] /\ pos[rank[i]] \in kept
    BY <2>1, <1>3
  <2>3. pos[rank[i]] = i
    BY <2>2, <1>1 DEF Bijection, Injection, IsInjective
  <2> QED BY <2>1, <2>3
<1>11. pos \in [1..n -> DOMAIN list]
  <2>1. \A j \in 1..n : pos[j] \in DOMAIN list
    BY <1>3, <1>5
  <2>2. pos = [j \in 1..n |-> pos[j]]
    BY <1>4 DEF pos
  <2> QED BY <2>1, <2>2
<1> QED BY <1>6, <1>7, <1>8, <1>9, <1>10, <1>11

\* What is first of what is left has lost everything before it.
LEMMA KeepFirst ==
  ASSUME NEW T, NEW list \in Seq(T), NEW S, Keep(list, S) # <<>>
  PROVE  \E i \in DOMAIN list :
            /\ list[i] = Keep(list, S)[1]
            /\ \A k \in 1..(i - 1) : list[k] \notin S
<1> PICK rest : rest = Keep(list, S)
  OBVIOUS
<1>1. PICK pos \in [1..Len(rest) -> DOMAIN list] :
             /\ \A j \in 1..Len(rest) : rest[j] = list[pos[j]]
             /\ \A i, j \in 1..Len(rest) : i < j => pos[i] < pos[j]
             /\ \A i \in DOMAIN list :
                   list[i] \in S => \E j \in 1..Len(rest) : pos[j] = i
  BY KeepPositions
<1>2. rest \in Seq(T) /\ rest # <<>>
  BY KeepProperties
<1>3. 1 \in 1..Len(rest) /\ Len(rest) \in Nat
  BY <1>2
<1>4. pos[1] \in DOMAIN list /\ pos[1] \in Nat /\ rest[1] = list[pos[1]]
  BY <1>1, <1>3
<1>5. \A k \in 1..(pos[1] - 1) : list[k] \notin S
  <2> SUFFICES ASSUME NEW k \in 1..(pos[1] - 1), list[k] \in S PROVE FALSE
    OBVIOUS
  <2>1. k \in DOMAIN list /\ k \in Nat /\ k < pos[1]
    BY <1>4
  <2>2. PICK j \in 1..Len(rest) : pos[j] = k
    BY <1>1, <2>1
  <2>3. j = 1 \/ 1 < j
    BY <1>3
  <2> QED BY <1>1, <1>3, <1>4, <2>1, <2>2, <2>3
<1> QED BY <1>4, <1>5

\* The last element, if it is kept, stays the last.
LEMMA KeepLast ==
  ASSUME NEW T, NEW list \in Seq(T), NEW S, list # <<>>, list[Len(list)] \in S
  PROVE  /\ Keep(list, S) # <<>>
         /\ Keep(list, S)[Len(Keep(list, S))] = list[Len(list)]
<1> PICK rest : rest = Keep(list, S)
  OBVIOUS
<1>1. PICK pos \in [1..Len(rest) -> DOMAIN list] :
             /\ \A j \in 1..Len(rest) : rest[j] = list[pos[j]]
             /\ \A i, j \in 1..Len(rest) : i < j => pos[i] < pos[j]
             /\ \A i \in DOMAIN list :
                   list[i] \in S => \E j \in 1..Len(rest) : pos[j] = i
  BY KeepPositions
<1>2. rest \in Seq(T) /\ Len(rest) \in Nat
  BY KeepProperties
<1>3. Len(list) \in DOMAIN list /\ DOMAIN list = 1..Len(list) /\ Len(list) \in Nat
  OBVIOUS
<1>4. PICK j \in 1..Len(rest) : pos[j] = Len(list)
  BY <1>1, <1>3
<1>5. j = Len(rest)
  <2> SUFFICES ASSUME j < Len(rest) PROVE FALSE
    BY <1>2
  <2>1. Len(rest) \in 1..Len(rest) /\ pos[j] < pos[Len(rest)]
    BY <1>1, <1>2
  <2>2. pos[Len(rest)] \in 1..Len(list)
    BY <1>1, <1>3, <2>1
  <2> QED BY <1>3, <1>4, <2>1, <2>2
<1>6. rest # <<>>
  BY <1>2, <1>4
<1> QED BY <1>1, <1>4, <1>5, <1>6

\* Nothing is removed where everything is kept.
LEMMA KeepAll ==
  ASSUME NEW T, NEW list \in Seq(T), NEW S, Elems(list) \subseteq S
  PROVE  Keep(list, S) = list
<1> DEFINE kept == {i \in DOMAIN list : list[i] \in S}
           rank == [i \in kept |-> Cardinality({k \in kept : k <= i})]
           n == Cardinality(kept)
           pos == [j \in 1..n |-> CHOOSE i \in kept : rank[i] = j]
<1>1. kept = 1..Len(list) /\ Len(list) \in Nat
  BY DEF Elems
<1>2. n = Len(list)
  <2>1. Cardinality(1..Len(list)) = Len(list)
    <3>1. 1 \in Int /\ Len(list) \in Int /\ Len(list) >= 0
      OBVIOUS
    <3>2. Cardinality(1..Len(list)) = IF 1 > Len(list) THEN 0 ELSE Len(list) - 1 + 1
      BY <3>1, FS_Interval, Zenon
    <3> QED BY <3>1, <3>2
  <2> HIDE DEF kept
  <2> QED BY <1>1, <2>1
<1>3. \A i \in 1..Len(list) : rank[i] = i
  <2> TAKE i \in 1..Len(list)
  <2>1. {k \in kept : k <= i} = 1..i
    BY <1>1
  <2>2. Cardinality(1..i) = i
    <3>1. 1 \in Int /\ i \in Int /\ i > 0
      OBVIOUS
    <3>2. Cardinality(1..i) = IF 1 > i THEN 0 ELSE i - 1 + 1
      BY <3>1, FS_Interval, Zenon
    <3> QED BY <3>1, <3>2
  <2> QED BY <1>1, <2>1, <2>2
<1>4. Keep(list, S) = [j \in 1..n |-> list[pos[j]]]
  BY DEF Keep
<1>5. \A j \in 1..n : pos[j] = j
  <2> HIDE DEF kept, rank, n
  <2> QED BY <1>1, <1>2, <1>3
<1> HIDE DEF kept, rank, n, pos
<1> QED BY <1>1, <1>2, <1>4, <1>5

\* A list without duplicates is as long as the set of its elements is large.
LEMMA LenIsCardinality ==
  ASSUME NEW T, NEW list \in Seq(T), NoDuplicates(list)
  PROVE  IsFiniteSet(Elems(list)) /\ Cardinality(Elems(list)) = Len(list)
<1>1. /\ Len(list) \in Nat /\ DOMAIN list = 1..Len(list)
      /\ list \in [1..Len(list) -> Elems(list)]
  BY DEF Elems
<1>2. list \in Bijection(1..Len(list), Elems(list))
  BY <1>1 DEF Bijection, Injection, IsInjective, Surjection, Elems, NoDuplicates
<1>3. ExistsBijection(1..Len(list), Elems(list))
  BY <1>2 DEF ExistsBijection
<1>4. IsFiniteSet(1..Len(list)) /\ Cardinality(1..Len(list)) = Len(list)
  BY <1>1, FS_Interval
<1> QED BY <1>3, <1>4, FS_Bijection

\* The values that the turns of a loop make of one another, from the 0-th on.
Turns(after, F, start, list) ==
  /\ after = [i \in 0..Len(list) |-> after[i]]
  /\ after[0] = start
  /\ \A i \in 1..Len(list) : after[i] = F[<<after[i - 1], list[i]>>]

\* A loop ends with the last of them.
LEMMA LoopedIs ==
  ASSUME NEW F, NEW start, NEW T, NEW list \in Seq(T), NEW after,
         Turns(after, F, start, list)
  PROVE  Looped(F, start, list) = after[Len(list)]
<1> USE DEF Turns
<1> PICK n : n = Len(list)
  OBVIOUS
<1>1. n \in Nat
  OBVIOUS
<1> DEFINE Loop(h) == h = [i \in 0..n |-> IF i = 0 THEN start ELSE F[<<h[i - 1], list[i]>>]]
<1>2. Looped(F, start, list) = (CHOOSE h : Loop(h))[n]
  BY DEF Looped
<1>3. Loop(after)
  <2>1. \A i \in 0..n : i # 0 => i \in 1..n
    BY <1>1
  <2> QED BY <2>1
<1>4. ASSUME NEW h, Loop(h)
      PROVE  h[n] = after[n]
  <2> DEFINE differ == {i \in 0..n : h[i] # after[i]}
  <2>1. \A i \in 0..n : h[i] = IF i = 0 THEN start ELSE F[<<h[i - 1], list[i]>>]
    BY <1>4
  <2> SUFFICES ASSUME differ # {} PROVE FALSE
    BY <1>1
  <2> PICK k : k = Least(differ)
    OBVIOUS
  <2>0. differ \in SUBSET Nat
    BY <1>1
  <2>2. k \in differ /\ \A m \in differ : k <= m
    <3> HIDE DEF differ
    <3> QED BY <2>0, LeastProperties
  <2>3. k # 0
    BY <2>1, <2>2
  <2>4. k - 1 \in 0..n /\ k - 1 \notin differ
    BY <1>1, <2>2, <2>3
  <2>5. k \in 1..n /\ h[k - 1] = after[k - 1] /\ h[k] # after[k]
    BY <1>1, <2>2, <2>3, <2>4
  <2>6. h[k] = F[<<h[k - 1], list[k]>>]
    BY <2>1, <2>2, <2>3
  <2> HIDE DEF differ
  <2> QED BY <2>5, <2>6
<1> QED BY <1>2, <1>3, <1>4

\* `at` numbers the places in P in their order, from 1 to n.
Enumerates(at, n, P) ==
  /\ at \in [1..n -> P]
  /\ \A i, j \in 1..n : i < j => at[i] < at[j]
  /\ \A p \in P : \E j \in 1..n : at[j] = p

KeptPlaces(list, S) == {i \in DOMAIN list : list[i] \in S}

\* `new` has the elements of the list that are in S, from the places `at`.
Picks(new, at, list, S) ==
  /\ Enumerates(at, Len(new), KeptPlaces(list, S))
  /\ \A j \in 1..Len(new) : new[j] = list[at[j]]

\* Two ways to number the same places in their order are the same.
LEMMA SamePlaces ==
  ASSUME NEW n \in Nat, NEW m \in Nat, NEW P \in SUBSET Nat, NEW at, NEW pos,
         Enumerates(at, n, P), Enumerates(pos, m, P)
  PROVE  n = m /\ at = pos
<1> USE DEF Enumerates
<1> DEFINE differ == {k \in 1..n : k \in 1..m /\ at[k] # pos[k]}
<1>1. differ = {}
  <2> SUFFICES ASSUME differ # {} PROVE FALSE
    OBVIOUS
  <2> PICK k : k = Least(differ)
    OBVIOUS
  <2>0. differ \in SUBSET Nat
    OBVIOUS
  <2>1. k \in differ /\ \A i \in differ : k <= i
    <3> HIDE DEF differ
    <3> QED BY <2>0, LeastProperties
  <2>2. k \in 1..n /\ k \in 1..m /\ at[k] # pos[k]
    BY <2>1
  <2>3. \A i \in 1..(k - 1) : i \in 1..n /\ i \in 1..m /\ at[i] = pos[i]
    <3> SUFFICES ASSUME NEW i \in 1..(k - 1) PROVE i \in 1..n /\ i \in 1..m /\ at[i] = pos[i]
      OBVIOUS
    <3>1. i \in 1..n /\ i \in 1..m /\ i < k
      BY <2>2
    <3>2. i \notin differ
      BY <2>1, <3>1
    <3> QED BY <3>1, <3>2
  <2> HIDE DEF differ
  <2>4. at[k] \in P /\ pos[k] \in P /\ at[k] \in Nat /\ pos[k] \in Nat
    BY <2>2
  <2>5. CASE at[k] < pos[k]
    <3>1. PICK j \in 1..m : pos[j] = at[k]
      BY <2>4
    <3>2. j < k
      BY <2>2, <2>4, <2>5, <3>1
    <3>3. j \in 1..(k - 1)
      BY <2>2, <3>1, <3>2
    <3>4. at[j] = at[k] /\ at[j] < at[k]
      BY <2>2, <2>3, <3>1, <3>2, <3>3
    <3> QED BY <3>4, <2>4
  <2>6. CASE pos[k] < at[k]
    <3>1. PICK j \in 1..n : at[j] = pos[k]
      BY <2>4
    <3>2. j < k
      BY <2>2, <2>4, <2>6, <3>1
    <3>3. j \in 1..(k - 1)
      BY <2>2, <3>1, <3>2
    <3>4. pos[j] = pos[k] /\ pos[j] < pos[k]
      BY <2>2, <2>3, <3>1, <3>2, <3>3
    <3> QED BY <3>4, <2>4
  <2> QED BY <2>2, <2>4, <2>5, <2>6
<1>2. \A k \in 1..n : k \in 1..m => at[k] = pos[k]
  BY <1>1
<1> HIDE DEF differ
<1>3. ~(n < m)
  <2> SUFFICES ASSUME n < m PROVE FALSE
    OBVIOUS
  <2>1. n + 1 \in 1..m
    OBVIOUS
  <2>2. PICK j \in 1..n : at[j] = pos[n + 1]
    BY <2>1
  <2>3. j \in 1..m /\ j < n + 1 /\ pos[j] = pos[n + 1]
    BY <1>2, <2>2
  <2>4. pos[j] < pos[n + 1] /\ pos[j] \in Nat
    BY <2>1, <2>3
  <2> QED BY <2>3, <2>4
<1>4. ~(m < n)
  <2> SUFFICES ASSUME m < n PROVE FALSE
    OBVIOUS
  <2>1. m + 1 \in 1..n
    OBVIOUS
  <2>2. PICK j \in 1..m : pos[j] = at[m + 1]
    BY <2>1
  <2>3. j \in 1..n /\ j < m + 1 /\ at[j] = at[m + 1]
    BY <1>2, <2>2
  <2>4. at[j] < at[m + 1] /\ at[j] \in Nat
    BY <2>1, <2>3
  <2> QED BY <2>3, <2>4
<1> QED BY <1>2, <1>3, <1>4

\* Keep picks the elements in S.
LEMMA KeepPicks ==
  ASSUME NEW T, NEW list \in Seq(T), NEW S
  PROVE  /\ Keep(list, S) \in Seq(T)
         /\ \E at : Picks(Keep(list, S), at, list, S)
<1> PICK rest : rest = Keep(list, S)
  OBVIOUS
<1>1. rest \in Seq(T)
  BY KeepProperties
<1>2. PICK pos \in [1..Len(rest) -> DOMAIN list] :
            /\ \A j \in 1..Len(rest) : rest[j] = list[pos[j]] /\ list[pos[j]] \in S
            /\ \A i, j \in 1..Len(rest) : i < j => pos[i] < pos[j]
            /\ \A i \in DOMAIN list :
                  list[i] \in S => \E j \in 1..Len(rest) : pos[j] = i
  BY KeepPositions
<1>3. pos \in [1..Len(rest) -> KeptPlaces(list, S)]
  BY <1>2 DEF KeptPlaces
<1>4. \A i \in KeptPlaces(list, S) : \E j \in 1..Len(rest) : pos[j] = i
  BY <1>2 DEF KeptPlaces
<1>5. Picks(rest, pos, list, S)
  BY <1>2, <1>3, <1>4 DEF Picks, Enumerates
<1> QED BY <1>1, <1>5

\* Keep is the only list of the elements in S, in their order.
LEMMA KeepUnique ==
  ASSUME NEW T, NEW list \in Seq(T), NEW S, NEW new \in Seq(T), NEW at,
         Picks(new, at, list, S)
  PROVE  new = Keep(list, S)
<1> PICK rest : rest = Keep(list, S)
  OBVIOUS
<1>1. rest \in Seq(T) /\ \E pos : Picks(rest, pos, list, S)
  BY KeepPicks
<1>2. PICK pos : Picks(rest, pos, list, S)
  BY <1>1
<1>3. KeptPlaces(list, S) \in SUBSET Nat /\ Len(new) \in Nat /\ Len(rest) \in Nat
  BY <1>1 DEF KeptPlaces
<1>4. Len(new) = Len(rest) /\ at = pos
  <2>1. Enumerates(at, Len(new), KeptPlaces(list, S))
    BY DEF Picks
  <2>2. Enumerates(pos, Len(rest), KeptPlaces(list, S))
    BY <1>2 DEF Picks
  <2> QED BY <1>3, <2>1, <2>2, SamePlaces
<1>5. \A j \in 1..Len(new) : new[j] = rest[j]
  BY <1>2, <1>4 DEF Picks
<1> QED BY <1>1, <1>4, <1>5

\* To keep what is in A, and of that what is in B.
LEMMA KeepKeep ==
  ASSUME NEW T, NEW list \in Seq(T), NEW A, NEW B
  PROVE  Keep(Keep(list, A), B) = Keep(list, A \cap B)
<1> PICK mid : mid = Keep(list, A)
  OBVIOUS
<1> PICK new : new = Keep(mid, B)
  OBVIOUS
<1>1. mid \in Seq(T) /\ \E p : Picks(mid, p, list, A)
  BY KeepPicks
<1>2. new \in Seq(T) /\ \E q : Picks(new, q, mid, B)
  BY <1>1, KeepPicks
<1>3. PICK p : Picks(mid, p, list, A)
  BY <1>1
<1>4. PICK q : Picks(new, q, mid, B)
  BY <1>2
<1> PICK m \in Nat : m = Len(mid) /\ DOMAIN mid = 1..m
  BY <1>1
<1> PICK n \in Nat : n = Len(new)
  BY <1>2
<1>5. \A j \in 1..m : p[j] \in DOMAIN list /\ list[p[j]] \in A /\ mid[j] = list[p[j]]
  BY <1>3 DEF Picks, Enumerates, KeptPlaces
<1>6. \A j \in 1..n : q[j] \in 1..m /\ mid[q[j]] \in B /\ new[j] = mid[q[j]]
  BY <1>4 DEF Picks, Enumerates, KeptPlaces
<1>7. /\ \A i, j \in 1..m : i < j => p[i] < p[j]
      /\ \A i, j \in 1..n : i < j => q[i] < q[j]
  BY <1>3, <1>4 DEF Picks, Enumerates
<1> PICK at : at = [j \in 1..n |-> p[q[j]]]
  OBVIOUS
<1>8. \A j \in 1..n : /\ at[j] \in KeptPlaces(list, A \cap B)
                      /\ new[j] = list[at[j]]
  BY <1>5, <1>6 DEF KeptPlaces
<1>9. \A i, j \in 1..n : i < j => at[i] < at[j]
  BY <1>6, <1>7
<1>10. ASSUME NEW i \in KeptPlaces(list, A \cap B)
       PROVE  \E j \in 1..n : at[j] = i
  <2>0. i \in KeptPlaces(list, A) /\ list[i] \in B
    BY DEF KeptPlaces
  <2>1. PICK k \in 1..m : p[k] = i
    BY <1>3, <2>0 DEF Picks, Enumerates
  <2>2. k \in KeptPlaces(mid, B)
    BY <1>5, <2>0, <2>1 DEF KeptPlaces
  <2>3. PICK j \in 1..n : q[j] = k
    BY <1>4, <2>2 DEF Picks, Enumerates
  <2> QED BY <2>1, <2>3
<1>11. at \in [1..n -> KeptPlaces(list, A \cap B)]
  BY <1>8
<1>12. Picks(new, at, list, A \cap B)
  BY <1>8, <1>9, <1>10, <1>11 DEF Picks, Enumerates
<1> QED BY <1>2, <1>12, KeepUnique

\* One more element at the end.
LEMMA KeepAppend ==
  ASSUME NEW T, NEW list \in Seq(T), NEW e \in T, NEW S
  PROVE  Keep(Append(list, e), S) =
           IF e \in S THEN Append(Keep(list, S), e) ELSE Keep(list, S)
<1> PICK more : more = Append(list, e)
  OBVIOUS
<1> PICK rest : rest = Keep(list, S)
  OBVIOUS
<1> PICK n \in Nat : n = Len(list)
  OBVIOUS
<1>1. /\ more \in Seq(T) /\ DOMAIN list = 1..n /\ DOMAIN more = 1..(n + 1)
      /\ more[n + 1] = e /\ \A i \in 1..n : more[i] = list[i]
  OBVIOUS
<1>2. rest \in Seq(T) /\ \E pos : Picks(rest, pos, list, S)
  BY KeepPicks
<1> PICK m \in Nat : m = Len(rest)
  BY <1>2
<1>3. PICK pos : Picks(rest, pos, list, S)
  BY <1>2
<1>4. \A i \in 1..(n + 1) : i \in 1..n \/ i = n + 1
  OBVIOUS
<1>5. pos \in [1..m -> KeptPlaces(list, S)]
  BY <1>3 DEF Picks, Enumerates
<1>6. \A j \in 1..m : /\ pos[j] \in 1..n /\ list[pos[j]] \in S
                      /\ rest[j] = list[pos[j]]
  BY <1>1, <1>3, <1>5 DEF Picks, KeptPlaces
<1>7. \A i, j \in 1..m : i < j => pos[i] < pos[j]
  BY <1>3 DEF Picks, Enumerates
<1>8. \A i \in 1..n : list[i] \in S => \E j \in 1..m : pos[j] = i
  BY <1>1, <1>3 DEF Picks, Enumerates, KeptPlaces
<1>9. CASE e \notin S
  <2>1. KeptPlaces(more, S) = KeptPlaces(list, S)
    BY <1>1, <1>4, <1>9 DEF KeptPlaces
  <2>2. \A j \in 1..m : rest[j] = more[pos[j]]
    BY <1>1, <1>6
  <2>3. Picks(rest, pos, more, S)
    BY <1>3, <2>1, <2>2 DEF Picks
  <2>4. rest = Keep(more, S)
    BY <1>1, <1>2, <2>3, KeepUnique
  <2> QED BY <1>9, <2>4
<1>10. CASE e \in S
  <2> PICK new : new = Append(rest, e)
    OBVIOUS
  <2> PICK at : at = [j \in 1..(m + 1) |-> IF j = m + 1 THEN n + 1 ELSE pos[j]]
    OBVIOUS
  <2>1. /\ new \in Seq(T) /\ Len(new) = m + 1 /\ new[m + 1] = e
        /\ \A j \in 1..m : new[j] = rest[j]
    BY <1>2
  <2>2. \A j \in 1..(m + 1) : j \in 1..m \/ j = m + 1
    OBVIOUS
  <2>3. at[m + 1] = n + 1 /\ m + 1 \in 1..(m + 1)
    OBVIOUS
  <2>4. \A j \in 1..m : j \in 1..(m + 1) /\ at[j] = pos[j]
    OBVIOUS
  <2>5. \A j \in 1..(m + 1) : /\ at[j] \in KeptPlaces(more, S)
                              /\ new[j] = more[at[j]]
    <3>1. \A j \in 1..m : /\ at[j] \in KeptPlaces(more, S)
                          /\ new[j] = more[at[j]]
      BY <1>1, <1>6, <2>1, <2>4 DEF KeptPlaces
    <3>2. at[m + 1] \in KeptPlaces(more, S) /\ new[m + 1] = more[at[m + 1]]
      BY <1>1, <1>10, <2>1, <2>3 DEF KeptPlaces
    <3> QED BY <2>2, <3>1, <3>2
  <2>6. \A i, j \in 1..(m + 1) : i < j => at[i] < at[j]
    <3> SUFFICES ASSUME NEW i \in 1..(m + 1), NEW j \in 1..(m + 1), i < j
                 PROVE  at[i] < at[j]
      OBVIOUS
    <3>1. i \in 1..m
      OBVIOUS
    <3>2. CASE j = m + 1
      BY <1>6, <2>3, <2>4, <3>1, <3>2
    <3>3. CASE j \in 1..m
      BY <1>7, <2>4, <3>1, <3>3
    <3> QED BY <2>2, <3>2, <3>3
  <2>7. ASSUME NEW i \in KeptPlaces(more, S)
        PROVE  \E j \in 1..(m + 1) : at[j] = i
    <3>0. i \in 1..(n + 1) /\ more[i] \in S
      BY <1>1 DEF KeptPlaces
    <3>1. CASE i = n + 1
      BY <2>3, <3>1
    <3>2. CASE i \in 1..n
      <4>1. PICK j \in 1..m : pos[j] = i
        BY <1>1, <1>8, <3>0, <3>2
      <4> QED BY <2>4, <4>1
    <3> QED BY <1>4, <3>0, <3>1, <3>2
  <2>8. at \in [1..(m + 1) -> KeptPlaces(more, S)]
    BY <2>5
  <2>9. Picks(new, at, more, S)
    <3>1. Enumerates(at, m + 1, KeptPlaces(more, S))
      BY <2>6, <2>7, <2>8 DEF Enumerates
    <3> QED BY <2>1, <2>5, <3>1 DEF Picks
  <2>10. new = Keep(more, S)
    BY <1>1, <2>1, <2>9, KeepUnique
  <2> QED BY <1>10, <2>10
<1> QED BY <1>9, <1>10
=============================================================================
