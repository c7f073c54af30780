-------------------------- MODULE ListenersProofs --------------------------
(***************************************************************************)
(* For any number of clients, and of messages kept: the list of messages   *)
(* is a run of the latest, the history is handed out in order, the list of *)
(* listeners has exactly those who were told so, and a notice reaches those*)
(* who are due, while others change the list under the loop over it.       *)
(***************************************************************************)
EXTENDS Listeners, ListsProofs

Someone == Clients \cup {NoClient}

\* The types of the memory and of the readers, which ListenTypeOK only touches.
Places(m) == [1..m -> Someone]
Memory == [Caps -> UNION {Places(m) : m \in Caps}]

ReaderState ==
  [at : Labels, arr : Someone, cap : Caps, i : Int, end : Nat,
   told : [Clients -> Nat], due : SUBSET Clients, head : Nat, last : Nat, counts : Nat]

ArrayTyped(a) ==
  /\ \A m \in Caps : slots[a][m] \in Places(m)
  /\ size[a].len \in 0..size[a].cap
  /\ \A i \in 1..size[a].len : slots[a][size[a].cap][i] \in Clients

ArraysTyped ==
  /\ arrayOf \in Someone
  /\ size \in [Clients -> [len : Nat, cap : Caps]]
  /\ slots \in [Clients -> Memory]
  /\ \A a \in Clients : ArrayTyped(a)

ReadersTyped == reader \in [Clients -> ReaderState]

RestTyped ==
  /\ msglist \in Seq(1..sent) /\ sent \in Nat /\ events \in 0..MaxEvents
  /\ out \subseteq Clients /\ subscribed \subseteq Clients /\ excused \subseteq Clients

Typed == ArraysTyped /\ ReadersTyped /\ RestTyped

LEMMA CapsAreNumbers ==
  /\ Cardinality(Clients) \in Nat /\ Caps \subseteq Nat /\ 0 \in Caps
  /\ Clients # {} => 1 \in Caps
<1>1. Cardinality(Clients) \in Nat
  BY ListenersAssumption, FS_CardinalityType
<1>2. Clients # {} => Cardinality(Clients) # 0
  BY ListenersAssumption, FS_EmptySet
<1> QED BY <1>1, <1>2 DEF Caps

LEMMA IdleState == Idle \in ReaderState /\ Idle.at = "idle" /\ Idle.arr = NoClient
                   /\ Idle.last = 0
BY CapsAreNumbers DEF Idle, ReaderState, Labels, Someone

\* The first n places of a memory, as a list.
LEMMA FirstPlaces ==
  ASSUME NEW S, NEW T, NEW m \in Nat, NEW f \in [1..m -> S], NEW n \in Nat, n <= m,
         \A i \in 1..n : f[i] \in T
  PROVE  /\ SubSeq(f, 1, n) \in Seq(T) /\ Len(SubSeq(f, 1, n)) = n
         /\ DOMAIN SubSeq(f, 1, n) = 1..n
         /\ \A i \in 1..n : SubSeq(f, 1, n)[i] = f[i]
<1>1. f \in Seq(S) /\ Len(f) = m
  OBVIOUS
<1>2. /\ SubSeq(f, 1, n) \in Seq(S) /\ Len(SubSeq(f, 1, n)) = n
      /\ \A i \in 1..n : SubSeq(f, 1, n)[i] = f[i]
  BY <1>1
<1> QED BY <1>2

LEMMA ListIs ==
  ASSUME NEW a \in Clients, ArrayTyped(a), size[a].cap \in Caps
  PROVE  /\ List(a) \in Seq(Clients) /\ Len(List(a)) = size[a].len
         /\ size[a].len \in Nat
         /\ DOMAIN List(a) = 1..size[a].len
         /\ \A i \in 1..size[a].len : List(a)[i] = slots[a][size[a].cap][i]
<1> PICK n : n = size[a].len
  OBVIOUS
<1> PICK m : m = size[a].cap
  OBVIOUS
<1> PICK mem : mem = slots[a][m]
  OBVIOUS
<1>1. m \in Nat /\ n \in Nat /\ n <= m
  <2>1. m \in Nat
    BY CapsAreNumbers
  <2>2. n \in 0..m
    BY DEF ArrayTyped
  <2> QED BY ONLY <2>1, <2>2
<1>2. \A i \in 1..n : mem[i] \in Clients
  BY DEF ArrayTyped
<1>3. mem \in [1..m -> Someone]
  BY DEF ArrayTyped, Places
<1>4. List(a) = SubSeq(mem, 1, n)
  BY DEF List
<1> QED BY <1>1, <1>2, <1>3, <1>4, FirstPlaces

\* The same after a step.
LEMMA ListIsThen ==
  ASSUME NEW a \in Clients, ArrayTyped(a)', size'[a].cap \in Caps
  PROVE  /\ List(a)' \in Seq(Clients) /\ Len(List(a)') = size'[a].len
         /\ size'[a].len \in Nat
         /\ DOMAIN List(a)' = 1..size'[a].len
         /\ \A i \in 1..size'[a].len : List(a)'[i] = slots'[a][size'[a].cap][i]
<1> PICK n : n = size'[a].len
  OBVIOUS
<1> PICK m : m = size'[a].cap
  OBVIOUS
<1> PICK mem : mem = slots'[a][m]
  OBVIOUS
<1>1. m \in Nat /\ n \in Nat /\ n <= m
  <2>1. m \in Nat
    BY CapsAreNumbers
  <2>2. n \in 0..m
    BY DEF ArrayTyped
  <2> QED BY ONLY <2>1, <2>2
<1>2. \A i \in 1..n : mem[i] \in Clients
  BY DEF ArrayTyped
<1>3. mem \in [1..m -> Someone]
  BY DEF ArrayTyped, Places
<1>4. List(a)' = SubSeq(mem, 1, n)
  BY DEF List
<1> QED BY <1>1, <1>2, <1>3, <1>4, FirstPlaces

\* An array that is left alone has the same elements.
LEMMA ListStays ==
  ASSUME NEW a, size'[a] = size[a], slots'[a] = slots[a]
  PROVE  List(a)' = List(a)
BY DEF List

LEMMA PlacesTyped ==
  ASSUME NEW m \in Caps
  PROVE  Places(m) \subseteq UNION {Places(k) : k \in Caps}
OBVIOUS

\* What the memory of one array becomes, at one of its capacities.
LEMMA MemoryWritten ==
  ASSUME slots \in [Clients -> Memory], NEW a \in Clients, NEW cap \in Caps,
         NEW mem \in Places(cap), slots' = [slots EXCEPT ![a][cap] = mem]
  PROVE  /\ slots' \in [Clients -> Memory] /\ slots'[a][cap] = mem
         /\ \A m \in Caps \ {cap} : slots'[a][m] = slots[a][m]
         /\ \A b \in Clients \ {a} : slots'[b] = slots[b]
<1> PICK old : old = slots[a]
  OBVIOUS
<1> PICK U : U = UNION {Places(m) : m \in Caps}
  OBVIOUS
<1> PICK new : new = [old EXCEPT ![cap] = mem]
  OBVIOUS
<1>1. Memory = [Caps -> U] /\ mem \in U
  BY PlacesTyped DEF Memory
<1>2. slots' = [slots EXCEPT ![a] = new]
  OBVIOUS
<1>3. old \in [Caps -> U]
  BY <1>1
<1>4. new \in [Caps -> U] /\ new[cap] = mem /\ \A m \in Caps \ {cap} : new[m] = old[m]
  BY <1>1, <1>3
<1>5. slots' \in [Clients -> [Caps -> U]] /\ slots'[a] = new
      /\ \A b \in Clients \ {a} : slots'[b] = slots[b]
  BY <1>1, <1>2, <1>4
<1> QED BY <1>1, <1>4, <1>5

-----------------------------------------------------------------------------
\* Array.Push and Array.Remove, on the memory and on the list that is seen in it.

LEMMA PushEffect ==
  ASSUME ArraysTyped, NEW a \in Clients, NEW c \in Clients, Push(a, c),
         NoDuplicates(List(a)), c \notin Elems(List(a)), arrayOf' = arrayOf
  PROVE  /\ ArraysTyped'
         /\ size'[a].len = size[a].len + 1
         /\ size'[a].cap = size[a].cap \/ size[a].cap < size'[a].cap
         /\ \A b \in Clients \ {a} : size'[b] = size[b] /\ slots'[b] = slots[b]
         /\ \A m \in Caps \ {size'[a].cap} : slots'[a][m] = slots[a][m]
         /\ slots'[a][size'[a].cap][size[a].len + 1] = c
         /\ \A i \in 1..size[a].len : slots'[a][size'[a].cap][i] = slots[a][size[a].cap][i]
<1> PICK s : s = size[a]
  OBVIOUS
<1> PICK n : n = s.len
  OBVIOUS
<1> PICK k : k = s.cap
  OBVIOUS
<1> PICK was : was = slots[a][k]
  OBVIOUS
<1> PICK cap : cap = IF n < k THEN k ELSE Grown(k)
  OBVIOUS
<1> PICK old : old = IF cap = k THEN slots[a][cap]
                     ELSE [i \in 1..cap |-> IF i <= n THEN was[i] ELSE NoClient]
  OBVIOUS
<1> PICK mem : mem = [old EXCEPT ![n + 1] = c]
  OBVIOUS
<1>1. k \in Caps /\ k \in Nat /\ n \in Nat /\ n <= k
  <2>1. k \in Caps /\ k \in Nat
    BY CapsAreNumbers DEF ArraysTyped
  <2>2. n \in 0..k
    BY DEF ArraysTyped, ArrayTyped
  <2> QED BY ONLY <2>1, <2>2
<1>2. was \in [1..k -> Someone] /\ \A i \in 1..n : was[i] \in Clients
  BY <1>1 DEF ArraysTyped, ArrayTyped, Places
<1>3. /\ size' = [size EXCEPT ![a] = [len |-> n + 1, cap |-> cap]]
      /\ slots' = [slots EXCEPT ![a][cap] = mem]
  BY DEF Push
<1>4. n + 1 <= Cardinality(Clients)
  <2>1. List(a) \in Seq(Clients) /\ Len(List(a)) = n
    BY <1>1, ListIs DEF ArraysTyped
  <2>2. Elems(List(a)) \subseteq Clients
    BY <2>1 DEF Elems
  <2>3. IsFiniteSet(Elems(List(a))) /\ Cardinality(Elems(List(a))) = n
    BY <2>1, LenIsCardinality
  <2>4. Cardinality(Elems(List(a)) \cup {c}) = n + 1
    BY <2>3, FS_AddElement
  <2>5. Cardinality(Elems(List(a)) \cup {c}) <= Cardinality(Clients)
    BY <2>2, ListenersAssumption, FS_Subset
  <2> QED BY <2>4, <2>5
<1>5. /\ cap \in Caps /\ cap \in Nat /\ n + 1 <= cap
      /\ cap = k \/ k < cap
  <2>1. CASE n < k
    BY <1>1, <2>1
  <2>2. CASE ~(n < k)
    <3>1. n = k
      BY <1>1, <2>2
    <3>2. cap = IF n = 0 THEN 1 ELSE 2 * n
      BY <2>2, <3>1 DEF Grown
    <3>3. cap \in Nat /\ n < cap /\ cap <= 2 * Cardinality(Clients)
      BY <1>1, <1>4, <3>2, CapsAreNumbers
    <3>4. cap \in Caps
      BY <3>3, CapsAreNumbers DEF Caps
    <3> QED BY <1>1, <3>1, <3>3, <3>4
  <2> QED BY <2>1, <2>2
<1>6. n + 1 \in 1..cap /\ \A i \in 1..n : i # n + 1 /\ i \in 1..cap /\ i <= n
  BY <1>1, <1>5
<1>7. old \in [1..cap -> Someone] /\ \A i \in 1..n : old[i] = was[i]
  <2>1. CASE cap = k
    BY <1>2, <2>1
  <2>2. CASE cap # k
    <3>1. old = [i \in 1..cap |-> IF i <= n THEN was[i] ELSE NoClient]
      BY <2>2
    <3>2. ASSUME NEW i \in 1..cap
          PROVE  (IF i <= n THEN was[i] ELSE NoClient) \in Someone
      <4>1. CASE i <= n
        <5>1. i \in 1..n
          BY <1>1, <1>5, <4>1
        <5> QED BY <1>2, <4>1, <5>1 DEF Someone
      <4>2. CASE ~(i <= n)
        BY <4>2 DEF Someone
      <4> QED BY <4>1, <4>2
    <3> QED BY ONLY <1>6, <3>1, <3>2
  <2> QED BY <2>1, <2>2
<1>8. /\ mem \in [1..cap -> Someone] /\ mem[n + 1] = c
      /\ \A i \in 1..n : mem[i] = was[i]
  BY ONLY <1>6, <1>7, mem = [old EXCEPT ![n + 1] = c], c \in Clients DEF Someone
<1>9. /\ slots' \in [Clients -> Memory] /\ slots'[a][cap] = mem
      /\ \A m \in Caps \ {cap} : slots'[a][m] = slots[a][m]
      /\ \A b \in Clients \ {a} : slots'[b] = slots[b]
  <2>1. mem \in Places(cap)
    BY <1>8 DEF Places
  <2>2. slots \in [Clients -> Memory] /\ slots' = [slots EXCEPT ![a][cap] = mem]
    BY <1>3 DEF ArraysTyped
  <2>3. cap \in Caps
    BY <1>5
  <2> HIDE DEF Memory, Places, Caps
  <2> QED BY ONLY <2>1, <2>2, <2>3, a \in Clients, MemoryWritten
<1>10. /\ size' \in [Clients -> [len : Nat, cap : Caps]]
       /\ size'[a] = [len |-> n + 1, cap |-> cap]
       /\ \A b \in Clients \ {a} : size'[b] = size[b]
  BY <1>1, <1>3, <1>5 DEF ArraysTyped
<1>11. size'[a].len = n + 1 /\ size'[a].cap = cap
  BY <1>10
<1>12. ArrayTyped(a)'
  <2>1. ASSUME NEW m \in Caps
        PROVE  slots'[a][m] \in Places(m)
    <3>1. CASE m = cap
      BY <1>8, <1>9, <3>1 DEF Places
    <3>2. CASE m # cap
      BY <1>9, <3>2 DEF ArraysTyped, ArrayTyped
    <3> QED BY <3>1, <3>2
  <2>2. n + 1 \in 0..cap
    BY <1>1, <1>5
  <2>3. \A i \in 1..(n + 1) : i \in 1..n \/ i = n + 1
    BY <1>1
  <2>4. \A i \in 1..(n + 1) : mem[i] \in Clients
    BY <1>2, <1>8, <2>3
  <2> QED BY <1>9, <1>11, <2>1, <2>2, <2>4 DEF ArrayTyped
<1>13. ASSUME NEW b \in Clients \ {a}
       PROVE  ArrayTyped(b)'
  BY <1>9, <1>10 DEF ArraysTyped, ArrayTyped
<1>14. ArraysTyped'
  BY <1>9, <1>10, <1>12, <1>13 DEF ArraysTyped
<1>15. \A m \in Caps \ {size'[a].cap} : slots'[a][m] = slots[a][m]
  BY <1>9, <1>11
<1>16. /\ slots'[a][size'[a].cap][size[a].len + 1] = c
       /\ \A i \in 1..size[a].len : slots'[a][size'[a].cap][i] = slots[a][size[a].cap][i]
  <2>1. /\ slots'[a][size'[a].cap] = mem /\ size[a].len = n /\ size[a].cap = k
        /\ slots[a][k] = was
    BY <1>9, <1>11
  <2> QED BY ONLY <1>8, <2>1
<1>17. size'[a].cap = size[a].cap \/ size[a].cap < size'[a].cap
  BY <1>5, <1>11
<1> QED BY <1>9, <1>10, <1>11, <1>14, <1>15, <1>16, <1>17

\* What a list with one more at the end, and one without one, have in them.
LEMMA Lengthened ==
  ASSUME NEW T, NEW list \in Seq(T), NEW more \in Seq(T), NEW e, Len(more) = Len(list) + 1,
         more[Len(list) + 1] = e, \A j \in 1..Len(list) : more[j] = list[j]
  PROVE  /\ Elems(more) = Elems(list) \cup {e}
         /\ NoDuplicates(list) /\ e \notin Elems(list) => NoDuplicates(more)
<1> PICK n : n = Len(list)
  OBVIOUS
<1>1. n \in Nat /\ DOMAIN list = 1..n /\ DOMAIN more = 1..(n + 1)
  OBVIOUS
<1>2. \A j \in 1..(n + 1) : j \in 1..n \/ j = n + 1
  BY <1>1
<1>3. 1..n \subseteq 1..(n + 1) /\ n + 1 \in 1..(n + 1)
  BY <1>1
<1>4. more[n + 1] = e /\ \A j \in 1..n : more[j] = list[j] /\ list[j] \in Elems(list)
  BY <1>1 DEF Elems
<1>5. Elems(more) = Elems(list) \cup {e}
  BY ONLY <1>1, <1>2, <1>3, <1>4 DEF Elems
<1>6. ASSUME NoDuplicates(list), e \notin Elems(list),
             NEW i \in 1..(n + 1), NEW j \in 1..(n + 1), more[i] = more[j]
      PROVE  i = j
  <2>1. CASE i \in 1..n /\ j \in 1..n
    BY <1>1, <1>4, <1>6, <2>1 DEF NoDuplicates
  <2>2. CASE i \in 1..n /\ j = n + 1
    BY ONLY <1>4, <1>6, <2>2
  <2>3. CASE i = n + 1 /\ j \in 1..n
    BY ONLY <1>4, <1>6, <2>3
  <2> QED BY <1>2, <2>1, <2>2, <2>3
<1> QED BY <1>1, <1>5, <1>6 DEF NoDuplicates

LEMMA Shortened ==
  ASSUME NEW T, NEW list \in Seq(T), NEW rest \in Seq(T), NEW p \in 1..Len(list),
         Len(rest) = Len(list) - 1, NoDuplicates(list),
         \A j \in 1..(Len(list) - 1) : rest[j] = IF j < p THEN list[j] ELSE list[j + 1]
  PROVE  Elems(rest) = Elems(list) \ {list[p]} /\ NoDuplicates(rest)
<1> PICK n : n = Len(list)
  OBVIOUS
<1>1. /\ n \in Nat /\ p \in 1..n
      /\ DOMAIN list = 1..n /\ DOMAIN rest = 1..(n - 1)
  OBVIOUS
<1> DEFINE Was(j) == IF j < p THEN j ELSE j + 1
           Is(i) == IF i < p THEN i ELSE i - 1
<1>2. \A j \in 1..(n - 1) : rest[j] = list[Was(j)]
  BY <1>1
<1>3. \A j \in 1..(n - 1) : Was(j) \in 1..n /\ Was(j) # p
  BY <1>1
<1>4. \A i \in 1..n : i # p => Is(i) \in 1..(n - 1) /\ Was(Is(i)) = i
  BY <1>1
<1>5. \A i, j \in 1..(n - 1) : Was(i) = Was(j) => i = j
  BY <1>1
<1>6. \A i, j \in 1..n : list[i] = list[j] => i = j
  BY <1>1 DEF NoDuplicates
<1> HIDE DEF Was, Is
<1>7. ASSUME NEW e \in Elems(rest)
      PROVE  e \in Elems(list) \ {list[p]}
  <2>1. PICK j \in 1..(n - 1) : e = rest[j]
    BY <1>1 DEF Elems
  <2> QED BY <1>1, <1>2, <1>3, <1>6, <2>1 DEF Elems
<1>8. ASSUME NEW e \in Elems(list) \ {list[p]}
      PROVE  e \in Elems(rest)
  <2>1. PICK i \in 1..n : e = list[i]
    BY <1>1 DEF Elems
  <2> QED BY <1>1, <1>2, <1>4, <2>1 DEF Elems
<1>9. NoDuplicates(rest)
  BY <1>1, <1>2, <1>3, <1>5, <1>6 DEF NoDuplicates
<1> QED BY <1>7, <1>8, <1>9

LEMMA PushList ==
  ASSUME ArraysTyped, NEW a \in Clients, NEW c \in Clients, Push(a, c),
         NoDuplicates(List(a)), c \notin Elems(List(a)), arrayOf' = arrayOf
  PROVE  /\ Elems(List(a))' = Elems(List(a)) \cup {c}
         /\ NoDuplicates(List(a))'
         /\ \A b \in Clients \ {a} : List(b)' = List(b)
<1> PICK n : n = size[a].len
  OBVIOUS
<1> PICK cap : cap = size[a].cap
  OBVIOUS
<1> PICK list : list = List(a)
  OBVIOUS
<1> PICK more : more = List(a)'
  OBVIOUS
<1>1. /\ ArraysTyped' /\ size'[a].len = n + 1
      /\ \A b \in Clients \ {a} : size'[b] = size[b] /\ slots'[b] = slots[b]
      /\ slots'[a][size'[a].cap][n + 1] = c
      /\ \A i \in 1..n : slots'[a][size'[a].cap][i] = slots[a][cap][i]
  BY PushEffect
<1>2. /\ list \in Seq(Clients) /\ Len(list) = n /\ n \in Nat
      /\ \A i \in 1..n : list[i] = slots[a][cap][i]
  BY ListIs DEF ArraysTyped
<1>3. /\ more \in Seq(Clients) /\ Len(more) = n + 1
      /\ \A i \in 1..(n + 1) : more[i] = slots'[a][size'[a].cap][i]
  <2>1. ArrayTyped(a)' /\ size'[a].cap \in Caps
    BY <1>1 DEF ArraysTyped
  <2> QED BY <1>1, <2>1, ListIsThen
<1>4. n + 1 \in 1..(n + 1) /\ \A i \in 1..n : i \in 1..(n + 1)
  BY <1>2
<1>5. more[n + 1] = c /\ \A i \in 1..n : more[i] = list[i]
  BY ONLY <1>1, <1>2, <1>3, <1>4
<1>6. /\ Elems(more) = Elems(list) \cup {c}
      /\ NoDuplicates(list) /\ c \notin Elems(list) => NoDuplicates(more)
  BY ONLY <1>2, <1>3, <1>5, Lengthened
<1>7. Elems(List(a))' = Elems(more) /\ (NoDuplicates(List(a))' <=> NoDuplicates(more))
  BY DEF Elems, NoDuplicates
<1>8. \A b \in Clients \ {a} : List(b)' = List(b)
  BY <1>1 DEF List
<1> QED BY <1>6, <1>7, <1>8

\* Where an element of a list is.
LEMMA PlaceFound ==
  ASSUME ArraysTyped, NEW a \in Clients, NEW c \in Elems(List(a))
  PROVE  /\ PlaceOf(a, c) \in 1..size[a].len
         /\ List(a)[PlaceOf(a, c)] = c /\ slots[a][size[a].cap][PlaceOf(a, c)] = c
<1> PICK S : S = {i \in DOMAIN List(a) : List(a)[i] = c}
  OBVIOUS
<1>1. /\ DOMAIN List(a) = 1..size[a].len /\ size[a].len \in Nat
      /\ \A i \in 1..size[a].len : List(a)[i] = slots[a][size[a].cap][i]
  BY ListIs DEF ArraysTyped
<1>2. S # {}
  BY DEF Elems
<1>3. S \in SUBSET Nat
  BY <1>1
<1>4. Least(S) \in S
  BY <1>2, <1>3, LeastProperties
<1>5. PlaceOf(a, c) = Least(S)
  BY DEF PlaceOf
<1> QED BY <1>1, <1>4, <1>5

\* What Remove does to the memory and the length when it finds the element.
TakenOut(a, c) ==
  /\ slots' = [slots EXCEPT ![a][size[a].cap] = Shifted(@, PlaceOf(a, c), size[a].len)]
  /\ size' = [size EXCEPT ![a].len = @ - 1]

LEMMA RemoveEffect ==
  ASSUME ArraysTyped, NEW a \in Clients, NEW c \in Elems(List(a)), arrayOf' = arrayOf,
         TakenOut(a, c)
  PROVE  /\ ArraysTyped'
         /\ size'[a].len = size[a].len - 1 /\ size'[a].cap = size[a].cap
         /\ \A b \in Clients \ {a} : size'[b] = size[b] /\ slots'[b] = slots[b]
         /\ \A m \in Caps \ {size[a].cap} : slots'[a][m] = slots[a][m]
         /\ \A j \in 1..(size[a].len - 1) :
              slots'[a][size[a].cap][j] =
                IF j < PlaceOf(a, c) THEN slots[a][size[a].cap][j]
                ELSE slots[a][size[a].cap][j + 1]
<1> PICK s : s = size[a]
  OBVIOUS
<1> PICK n : n = s.len
  OBVIOUS
<1> PICK k : k = s.cap
  OBVIOUS
<1> PICK p : p = PlaceOf(a, c)
  OBVIOUS
<1> PICK was : was = slots[a][k]
  OBVIOUS
<1> PICK mem : mem = Shifted(was, p, n)
  OBVIOUS
<1>1. k \in Caps /\ k \in Nat /\ n \in Nat /\ n <= k
  <2>1. k \in Caps /\ k \in Nat
    BY CapsAreNumbers DEF ArraysTyped
  <2>2. n \in 0..k
    BY DEF ArraysTyped, ArrayTyped
  <2> QED BY ONLY <2>1, <2>2
<1>2. was \in [1..k -> Someone] /\ \A i \in 1..n : was[i] \in Clients
  BY <1>1 DEF ArraysTyped, ArrayTyped, Places
<1>3. p \in 1..n
  BY PlaceFound
<1>4. slots \in [Clients -> Memory] /\ slots' = [slots EXCEPT ![a][k] = mem]
  BY DEF ArraysTyped, TakenOut
<1>5. mem = [i \in 1..k |-> IF i \in p..(n - 1) THEN was[i + 1] ELSE was[i]]
  BY <1>2 DEF Shifted
<1>6. \A i \in 1..k : i \in p..(n - 1) => i + 1 \in 1..k
  BY <1>1, <1>3
<1>7. mem \in [1..k -> Someone]
  <2>1. ASSUME NEW i \in 1..k
        PROVE  (IF i \in p..(n - 1) THEN was[i + 1] ELSE was[i]) \in Someone
    BY <1>2, <1>6
  <2> QED BY ONLY <1>5, <2>1
<1>8. \A j \in 1..(n - 1) : /\ j \in 1..k /\ j \in 1..n /\ j + 1 \in 1..n
                            /\ j < p <=> j \notin p..(n - 1)
  BY ONLY <1>1, <1>3
<1>9. \A j \in 1..(n - 1) : mem[j] = IF j < p THEN was[j] ELSE was[j + 1]
  BY ONLY <1>5, <1>8
<1>10. /\ slots' \in [Clients -> Memory] /\ slots'[a][k] = mem
       /\ \A m \in Caps \ {k} : slots'[a][m] = slots[a][m]
       /\ \A b \in Clients \ {a} : slots'[b] = slots[b]
  <2>1. mem \in Places(k)
    BY <1>7 DEF Places
  <2>2. k \in Caps
    BY <1>1
  <2> HIDE DEF Memory, Places, Caps
  <2> QED BY ONLY <2>1, <2>2, <1>4, a \in Clients, MemoryWritten
<1>11. s \in [len : Nat, cap : Caps] /\ n - 1 \in Nat
  BY <1>1, <1>3 DEF ArraysTyped
<1>12. /\ size' \in [Clients -> [len : Nat, cap : Caps]]
       /\ size'[a].len = n - 1 /\ size'[a].cap = k
       /\ \A b \in Clients \ {a} : size'[b] = size[b]
  BY <1>11 DEF ArraysTyped, TakenOut
<1>13. ArrayTyped(a)'
  <2>1. ASSUME NEW m \in Caps
        PROVE  slots'[a][m] \in Places(m)
    <3>1. CASE m = k
      BY <1>7, <1>10, <3>1 DEF Places
    <3>2. CASE m # k
      BY <1>10, <3>2 DEF ArraysTyped, ArrayTyped
    <3> QED BY <3>1, <3>2
  <2>2. n - 1 \in 0..k
    BY <1>1, <1>11
  <2>3. \A i \in 1..(n - 1) : mem[i] \in Clients
    BY <1>2, <1>8, <1>9
  <2> QED BY <1>10, <1>12, <2>1, <2>2, <2>3 DEF ArrayTyped
<1>14. ASSUME NEW b \in Clients \ {a}
       PROVE  ArrayTyped(b)'
  BY <1>10, <1>12 DEF ArraysTyped, ArrayTyped
<1>15. ArraysTyped'
  BY <1>10, <1>12, <1>13, <1>14 DEF ArraysTyped
<1>16. \A j \in 1..(size[a].len - 1) :
         slots'[a][size[a].cap][j] =
           IF j < PlaceOf(a, c) THEN slots[a][size[a].cap][j]
           ELSE slots[a][size[a].cap][j + 1]
  <2>1. size[a].len = n /\ size[a].cap = k /\ slots'[a][k] = mem /\ slots[a][k] = was
        /\ PlaceOf(a, c) = p
    BY <1>10
  <2> QED BY ONLY <1>9, <2>1
<1> QED BY <1>10, <1>12, <1>15, <1>16

LEMMA RemoveList ==
  ASSUME ArraysTyped, NEW a \in Clients, NEW c \in Elems(List(a)), arrayOf' = arrayOf,
         NoDuplicates(List(a)),
         TakenOut(a, c)
  PROVE  /\ Elems(List(a))' = Elems(List(a)) \ {c}
         /\ NoDuplicates(List(a))'
         /\ \A b \in Clients \ {a} : List(b)' = List(b)
<1> PICK n : n = size[a].len
  OBVIOUS
<1> PICK cap : cap = size[a].cap
  OBVIOUS
<1> PICK p : p = PlaceOf(a, c)
  OBVIOUS
<1> PICK list : list = List(a)
  OBVIOUS
<1> PICK rest : rest = List(a)'
  OBVIOUS
<1>1. /\ ArraysTyped' /\ size'[a].len = n - 1 /\ size'[a].cap = cap
      /\ \A b \in Clients \ {a} : size'[b] = size[b] /\ slots'[b] = slots[b]
      /\ \A j \in 1..(n - 1) :
           slots'[a][cap][j] = IF j < p THEN slots[a][cap][j] ELSE slots[a][cap][j + 1]
  BY RemoveEffect
<1>2. /\ list \in Seq(Clients) /\ Len(list) = n /\ n \in Nat
      /\ \A i \in 1..n : list[i] = slots[a][cap][i]
  BY ListIs DEF ArraysTyped
<1>3. /\ rest \in Seq(Clients) /\ Len(rest) = n - 1
      /\ \A i \in 1..(n - 1) : rest[i] = slots'[a][cap][i]
  <2>1. ArrayTyped(a)' /\ size'[a].cap \in Caps
    BY <1>1 DEF ArraysTyped
  <2> QED BY <1>1, <2>1, ListIsThen
<1>4. p \in 1..n /\ list[p] = c
  BY PlaceFound
<1>5. \A j \in 1..(n - 1) : j \in 1..n /\ j + 1 \in 1..n
  BY <1>2
<1>6. \A j \in 1..(n - 1) : rest[j] = IF j < p THEN list[j] ELSE list[j + 1]
  BY ONLY <1>1, <1>2, <1>3, <1>5
<1>7. Elems(rest) = Elems(list) \ {c} /\ NoDuplicates(rest)
  <2>1. NoDuplicates(list)
    OBVIOUS
  <2>2. /\ p \in 1..Len(list) /\ Len(rest) = Len(list) - 1
        /\ \A j \in 1..(Len(list) - 1) : rest[j] = IF j < p THEN list[j] ELSE list[j + 1]
    BY ONLY <1>2, <1>3, <1>4, <1>6
  <2> QED BY ONLY <1>2, <1>3, <1>4, <2>1, <2>2, Shortened
<1>8. Elems(List(a))' = Elems(rest) /\ (NoDuplicates(List(a))' <=> NoDuplicates(rest))
  BY DEF Elems, NoDuplicates
<1>9. \A b \in Clients \ {a} : List(b)' = List(b)
  BY <1>1 DEF List
<1> QED BY <1>7, <1>8, <1>9

-----------------------------------------------------------------------------
(***************************************************************************)
(* The inductive invariant of the lists of listeners.  An Array has nobody *)
(* twice because only a client's own reader pushes it, after it has found  *)
(* it is not there; the Array which a reader is about to create is empty,  *)
(* and known to nobody; and but for the excused a client is listed exactly *)
(* if it was told so, between the two steps that put it in and tell it,    *)
(* listed in any case.                                                     *)
(***************************************************************************)
HasArray == {"look", "push", "tell"}

ReaderSound(c) ==
  /\ IsAt(c, "push") => c \notin Elems(List(reader[c].arr))
  /\ reader[c].at \in HasArray \cup {"range"} => reader[c].arr \in Clients
  /\ IsAt(c, "create") => /\ arrayOf # c /\ size[c].len = 0
                          /\ \A d \in Clients : reader[d].arr # c

\* Before the first Array nothing is in any, and nobody has one.
NoneMade ==
  arrayOf = NoClient => \A a \in Clients : size[a].len = 0 /\ reader[a].arr = NoClient

Subscription(c) ==
  /\ reader[c].at \in HasArray => reader[c].arr = arrayOf
  /\ IsAt(c, "tell") => c \in Listed
  /\ ~IsAt(c, "tell") => (c \in subscribed <=> c \in Listed)

ArrayInv ==
  /\ \A a \in Clients : NoDuplicates(List(a))
  /\ \A c \in Clients : ReaderSound(c)
  /\ NoneMade
  /\ \A c \in Clients \ excused : Subscription(c)

(***************************************************************************)
(* The inductive invariant of the messages.  The list is a run up to the   *)
(* latest; the message a reader is about to drop is the first, or already  *)
(* gone; each of those who found too many has still its one to take away.  *)
(* What a history has handed out last is before what it reads next.        *)
(***************************************************************************)
Before == sent - Len(msglist)
Trimming == {c \in Clients : reader[c].at \in {"first", "drop"}}

Consecutive == Len(msglist) <= sent /\ msglist = [i \in 1..Len(msglist) |-> Before + i]

Kept ==
  \/ Len(msglist) = sent /\ Trimming = {}
  \/ Len(msglist) - Cardinality(Trimming) > MaxMessages - Cardinality(Clients)

MessageSound(c) ==
  /\ IsAt(c, "drop") => reader[c].head \in 1..(Before + 1)
  /\ reader[c].at \in {"clip", "start"} => reader[c].last = 0
  /\ reader[c].at \in {"length", "read"} =>
       reader[c].last = 0 \/ reader[c].last < Before + reader[c].i

MessageInv == Consecutive /\ Kept /\ \A c \in Clients : MessageSound(c)

(***************************************************************************)
(* The inductive invariant of a notice: whoever is due has been told, or   *)
(* is still ahead in the memory the loop is over, and among the listeners  *)
(* if that is the memory in use.                                           *)
(***************************************************************************)
Ahead(c, d) ==
  LET r == reader[c]
  IN  \E j \in r.i..r.end :
        /\ slots[r.arr][r.cap][j] = d
        /\ r.cap = size[r.arr].cap => j <= size[r.arr].len

NoticeSound(c) ==
  IsAt(c, "range") =>
    /\ reader[c].cap <= size[reader[c].arr].cap /\ reader[c].i \in Nat \ {0}
    /\ reader[c].end <= reader[c].cap /\ c \notin reader[c].due
    /\ \A d \in reader[c].due : reader[c].told[d] >= 1 \/ Ahead(c, d)

NoticeInv == \A c \in Clients : NoticeSound(c)

ListenInv == Typed /\ ArrayInv

LEMMA UseTypes ==
  ASSUME Typed, NEW c \in Clients
  PROVE  reader[c] \in ReaderState /\ reader[c].arr \in Someone /\ ArrayTyped(c)
         /\ size[c].cap \in Caps /\ size[c].len \in Nat /\ slots[c] \in Memory
BY DEF Typed, ReadersTyped, ArraysTyped, ReaderState

LEMMA SameLists ==
  ASSUME UNCHANGED arrays
  PROVE  /\ \A a : List(a)' = List(a)
         /\ Listed' = Listed
BY DEF arrays, List, Listed

LEMMA ArraysStayTyped ==
  ASSUME ArraysTyped, UNCHANGED arrays
  PROVE  ArraysTyped'
BY DEF arrays, ArraysTyped, ArrayTyped

LEMMA ReaderGoes ==
  ASSUME ReadersTyped, NEW c \in Clients, NEW r \in ReaderState, Goes(c, r)
  PROVE  ReadersTyped' /\ reader'[c] = r /\ \A d \in Clients \ {c} : reader'[d] = reader[d]
BY DEF ReadersTyped, Goes

\* A step of one reader that leaves the Arrays alone disturbs nobody else.
LEMMA ReaderStep ==
  ASSUME ListenInv, NEW c \in Clients, NEW r \in ReaderState, Goes(c, r),
         UNCHANGED arrays, UNCHANGED <<out, excused>>,
         \A d \in Clients \ {c} : d \in subscribed' <=> d \in subscribed,
         r.arr \in {NoClient, arrayOf, reader[c].arr},
         ReaderSound(c)', c \notin excused => Subscription(c)'
  PROVE  ArraysTyped' /\ ReadersTyped' /\ ArrayInv'
<1>1. ArraysTyped' /\ \A a : List(a)' = List(a) /\ Listed' = Listed
  BY ArraysStayTyped, SameLists DEF ListenInv, Typed
<1>2. ReadersTyped' /\ reader'[c] = r /\ \A d \in Clients \ {c} : reader'[d] = reader[d]
  BY ReaderGoes DEF ListenInv, Typed
<1>3. arrayOf' = arrayOf /\ size' = size
  BY DEF arrays
<1>5. \A a \in Clients : NoDuplicates(List(a))'
  BY <1>1 DEF ListenInv, ArrayInv, NoDuplicates
<1>6. ASSUME NEW d \in Clients \ {c}
      PROVE  ReaderSound(d)'
  <2>1. ReaderSound(d)
    BY DEF ListenInv, ArrayInv
  <2>2. IsAt(d, "create") =>
          /\ arrayOf # d /\ size[d].len = 0 /\ \A e \in Clients : reader[e].arr # d
    BY <2>1 DEF ReaderSound
  <2>3. IsAt(d, "create") => \A e \in Clients : reader'[e].arr # d
    BY <1>2, <2>2, ListenersAssumption
  <2> QED BY <1>1, <1>2, <1>3, <2>1, <2>2, <2>3 DEF ReaderSound, IsAt, Elems
<1>7. NoneMade'
  <2>1. NoneMade
    BY DEF ListenInv, ArrayInv
  <2>2. arrayOf = NoClient => \A a \in Clients : reader'[a].arr = NoClient
    BY <1>2, <2>1 DEF NoneMade
  <2> QED BY <1>3, <2>1, <2>2 DEF NoneMade
<1>8. ASSUME NEW d \in Clients \ excused, d # c
      PROVE  Subscription(d)'
  <2>1. Subscription(d)
    BY DEF ListenInv, ArrayInv
  <2>2. reader'[d] = reader[d] /\ Listed' = Listed /\ (d \in subscribed' <=> d \in subscribed)
    BY <1>1, <1>2, <1>8
  <2> QED BY <1>3, <2>1, <2>2 DEF Subscription, IsAt
<1>9. \A d \in Clients : ReaderSound(d)'
  BY <1>6
<1>10. \A d \in Clients \ excused : Subscription(d)'
  BY <1>8
<1>11. excused' = excused
  OBVIOUS
<1> QED BY <1>1, <1>2, <1>5, <1>7, <1>9, <1>10, <1>11 DEF ArrayInv

\* Most steps of a reader have nothing to do with who is in the lists.
LEMMA QuietStep ==
  ASSUME ListenInv, NEW c \in Clients, NEW r \in ReaderState, Goes(c, r),
         UNCHANGED arrays, UNCHANGED <<out, subscribed, excused>>,
         r.arr \in {NoClient, arrayOf, reader[c].arr},
         r.at \notin HasArray \cup {"create"}, r.at = "range" => r.arr \in Clients,
         ~IsAt(c, "tell")
  PROVE  ArraysTyped' /\ ReadersTyped' /\ ArrayInv'
<1>1. reader'[c] = r
  BY ReaderGoes DEF ListenInv, Typed
<1>2. ReaderSound(c)'
  BY <1>1 DEF ReaderSound, IsAt, HasArray
<1>3. ASSUME c \notin excused
      PROVE  Subscription(c)'
  <2>1. Subscription(c)
    BY <1>3 DEF ListenInv, ArrayInv
  <2>2. Listed' = Listed
    BY SameLists
  <2> QED BY <1>1, <2>1, <2>2 DEF Subscription, IsAt, HasArray
<1> QED BY <1>2, <1>3, ReaderStep

Quiet(c) ==
  \/ SendServerMsg(c) \/ CountMessages(c) \/ TakeFirst(c) \/ DropMessage(c)
  \/ Notify(c) \/ TellNext(c) \/ EndOfRange(c)
  \/ GetServerOldMsg(c) \/ ClipCounts(c) \/ FirstPlace(c) \/ LookAtLength(c) \/ HandOut(c)

LEMMA MessagesAreNumbers ==
  ASSUME RestTyped
  PROVE  /\ sent \in Nat /\ Len(msglist) \in Nat /\ DOMAIN msglist = 1..Len(msglist)
         /\ \A i \in DOMAIN msglist : msglist[i] \in Nat
         /\ msglist # <<>> => 1 \in DOMAIN msglist
BY DEF RestTyped

LEMMA WhatReadersAre ==
  ASSUME NEW r \in ReaderState
  PROVE  /\ r.at \in Labels /\ r.arr \in Someone /\ r.cap \in Caps /\ r.i \in Int
         /\ r.end \in Nat /\ r.told \in [Clients -> Nat] /\ r.due \subseteq Clients
         /\ r.head \in Nat /\ r.last \in Nat /\ r.counts \in Nat
BY DEF ReaderState

\* What a quiet step makes of its reader, and that it leaves the rest alone.
LEMMA QuietReaders ==
  ASSUME ListenInv, NEW c \in Clients, Quiet(c)
  PROVE  /\ UNCHANGED arrays /\ UNCHANGED <<out, subscribed, excused>>
         /\ ~IsAt(c, "tell")
         /\ \E r \in ReaderState :
              /\ Goes(c, r) /\ r.arr \in {NoClient, arrayOf, reader[c].arr}
              /\ r.at \notin HasArray \cup {"create"}
              /\ r.at = "range" => r.arr \in Clients
<1> PICK was : was = reader[c]
  OBVIOUS
<1>1. was \in ReaderState
  BY UseTypes DEF ListenInv
<1>2. /\ sent \in Nat /\ Len(msglist) \in Nat /\ DOMAIN msglist = 1..Len(msglist)
      /\ \A i \in DOMAIN msglist : msglist[i] \in Nat
      /\ msglist # <<>> => 1 \in DOMAIN msglist
  BY MessagesAreNumbers DEF ListenInv, Typed
<1>3. /\ Idle \in ReaderState /\ Idle.arr = NoClient
  BY IdleState
<1>4. was.at = "range" => was.arr \in Clients
  BY DEF ListenInv, ArrayInv, ReaderSound, IsAt
<1> DEFINE Fits(r) == /\ r \in ReaderState
                      /\ Goes(c, r) /\ r.arr \in {NoClient, arrayOf, was.arr}
                      /\ r.at \notin HasArray \cup {"create"}
                      /\ r.at = "range" => r.arr \in Clients
           Rest == /\ UNCHANGED arrays /\ UNCHANGED <<out, subscribed, excused>>
                   /\ ~IsAt(c, "tell")
<1>5. Fits(Idle) <=> Goes(c, Idle)
  BY <1>3, IdleState DEF HasArray
<1>6. ASSUME SendServerMsg(c)
      PROVE  Rest /\ \E r : Fits(r)
  <2> PICK r : r = [Idle EXCEPT !.at = "count"]
    OBVIOUS
  <2>1. r \in ReaderState /\ r.at = "count" /\ r.arr = NoClient
    BY <1>3 DEF ReaderState, Labels
  <2>2. Fits(r)
    BY <1>6, <2>1 DEF SendServerMsg, HasArray
  <2>3. Rest
    BY <1>6 DEF SendServerMsg, Handles, IsAt
  <2> QED BY <2>2, <2>3
<1>7. ASSUME CountMessages(c)
      PROVE  Rest /\ \E r : Fits(r)
  <2> PICK r : r = [was EXCEPT !.at = IF TooMany(msglist) THEN "first" ELSE "notify"]
    OBVIOUS
  <2>1. r \in ReaderState /\ r.at \in {"first", "notify"} /\ r.arr = was.arr
    BY <1>1 DEF ReaderState, Labels
  <2>2. Fits(r)
    BY <1>7, <2>1 DEF CountMessages, HasArray
  <2>3. Rest
    BY <1>7 DEF CountMessages, IsAt
  <2> QED BY <2>2, <2>3
<1>8. ASSUME TakeFirst(c)
      PROVE  Rest /\ \E r : Fits(r)
  <2> PICK r : r = IF msglist = <<>> THEN [Idle EXCEPT !.at = "ended"]
                   ELSE [was EXCEPT !.at = "drop", !.head = msglist[1]]
    OBVIOUS
  <2>1. r \in ReaderState /\ r.at \in {"ended", "drop"} /\ r.arr \in {NoClient, was.arr}
    <3>1. CASE msglist = <<>>
      BY <1>3, <3>1 DEF ReaderState, Labels
    <3>2. CASE msglist # <<>>
      <4>1. msglist[1] \in Nat
        BY <1>2, <3>2
      <4> QED BY <1>1, <3>2, <4>1 DEF ReaderState, Labels
    <3> QED BY <3>1, <3>2
  <2>2. Fits(r)
    BY <1>8, <2>1 DEF TakeFirst, HasArray
  <2>3. Rest
    BY <1>8 DEF TakeFirst, IsAt
  <2> QED BY <2>2, <2>3
<1>9. ASSUME DropMessage(c)
      PROVE  Rest /\ \E r : Fits(r)
  <2> PICK r : r = [was EXCEPT !.at = "notify", !.head = 0]
    OBVIOUS
  <2>1. r \in ReaderState /\ r.at = "notify" /\ r.arr = was.arr
    BY <1>1 DEF ReaderState, Labels
  <2>2. Fits(r)
    BY <1>9, <2>1 DEF DropMessage, HasArray
  <2>3. Rest
    BY <1>9 DEF DropMessage, IsAt, arrays
  <2> QED BY <2>2, <2>3
<1>10. ASSUME Notify(c)
       PROVE  Rest /\ \E r : Fits(r)
  <2>1. CASE arrayOf = NoClient
    BY <1>5, <1>10, <2>1 DEF Notify, IsAt
  <2>2. CASE arrayOf # NoClient
    <3> PICK r : r = [Idle EXCEPT !.at = "range", !.arr = arrayOf,
                                  !.cap = size[arrayOf].cap, !.i = 1,
                                  !.end = size[arrayOf].len, !.due = Listed \ {c}]
      OBVIOUS
    <3>1. arrayOf \in Clients
      BY <2>2 DEF ListenInv, Typed, ArraysTyped, Someone
    <3>2. size[arrayOf].cap \in Caps /\ size[arrayOf].len \in Nat
          /\ Elems(List(arrayOf)) \subseteq Clients
      BY <3>1, ListIs DEF ListenInv, Typed, ArraysTyped, Elems
    <3>3. Listed \ {c} \in SUBSET Clients
      BY <2>2, <3>2 DEF Listed
    <3> PICK cap : cap = size[arrayOf].cap
      OBVIOUS
    <3> PICK len : len = size[arrayOf].len
      OBVIOUS
    <3> PICK due : due = Listed \ {c}
      OBVIOUS
    <3>7. r = [Idle EXCEPT !.at = "range", !.arr = arrayOf, !.cap = cap, !.i = 1,
                           !.end = len, !.due = due]
      OBVIOUS
    <3>8. cap \in Caps /\ len \in Nat /\ due \in SUBSET Clients /\ arrayOf \in Someone
      BY <3>1, <3>2, <3>3 DEF Someone
    <3> PICK none : none = [d \in Clients |-> 0]
      OBVIOUS
    <3>9. r = [at |-> "range", arr |-> arrayOf, cap |-> cap, i |-> 1, end |-> len,
               told |-> none, due |-> due, head |-> 0, last |-> 0, counts |-> 0]
      BY <3>7 DEF Idle
    <3>10. none \in [Clients -> Nat]
      OBVIOUS
    <3>4. r \in ReaderState /\ r.at = "range" /\ r.arr = arrayOf
      BY ONLY <3>8, <3>9, <3>10 DEF ReaderState, Labels
    <3>5. Fits(r)
      BY <1>10, <2>2, <3>1, <3>4 DEF Notify, HasArray
    <3>6. Rest
      BY <1>10 DEF Notify, IsAt
    <3> QED BY <3>5, <3>6
  <2> QED BY <2>1, <2>2
<1>11. ASSUME TellNext(c)
       PROVE  Rest /\ \E r : Fits(r)
  <2> PICK d : d = slots[was.arr][was.cap][was.i]
    OBVIOUS
  <2> PICK r : r = [was EXCEPT !.i = @ + 1, !.told[d] = IF d = c THEN @ ELSE @ + 1]
    OBVIOUS
  <2> PICK told : told = was.told
    OBVIOUS
  <2>1. was.i \in Int /\ told \in [Clients -> Nat]
    BY <1>1, WhatReadersAre
  <2> PICK next : next = [told EXCEPT ![d] = IF d = c THEN @ ELSE @ + 1]
    OBVIOUS
  <2> PICK v : v = IF d = c THEN told[d] ELSE told[d] + 1
    OBVIOUS
  <2>7. next = [told EXCEPT ![d] = v]
    OBVIOUS
  <2>8. d \in Clients => v \in Nat
    BY ONLY <2>1, v = IF d = c THEN told[d] ELSE told[d] + 1
  <2>9. next \in [Clients -> Nat]
    BY ONLY <2>1, <2>7, <2>8
  <2>2. next \in [Clients -> Nat] /\ was.i + 1 \in Int
    BY ONLY <2>1, <2>9
  <2>6. r = [was EXCEPT !.i = @ + 1, !.told = next]
    OBVIOUS
  <2>3. r \in ReaderState /\ r.at = was.at /\ r.arr = was.arr
    BY ONLY <1>1, <2>2, <2>6 DEF ReaderState
  <2>4. Fits(r)
    BY <1>4, <1>11, <2>3 DEF TellNext, Ranges, IsAt, HasArray
  <2>5. Rest
    BY <1>11 DEF TellNext, Ranges, IsAt
  <2> QED BY <2>4, <2>5
<1>12. ASSUME EndOfRange(c)
       PROVE  Rest /\ \E r : Fits(r)
  BY <1>5, <1>12 DEF EndOfRange, Ranges, IsAt
<1>13. ASSUME GetServerOldMsg(c)
       PROVE  Rest /\ \E r : Fits(r)
  <2>1. PICK n \in 1..(MaxMessages + 1) :
               Goes(c, IF n > Len(msglist) THEN [Idle EXCEPT !.at = "clip"]
                       ELSE [Idle EXCEPT !.at = "start", !.counts = n])
    BY <1>13 DEF GetServerOldMsg
  <2> PICK r : r = IF n > Len(msglist) THEN [Idle EXCEPT !.at = "clip"]
                   ELSE [Idle EXCEPT !.at = "start", !.counts = n]
    OBVIOUS
  <2>2. n \in Nat
    BY ListenersAssumption
  <2>3. r \in ReaderState /\ r.at \in {"clip", "start"} /\ r.arr = NoClient
    BY <1>3, <2>2 DEF ReaderState, Labels
  <2>4. Fits(r)
    BY <2>1, <2>3 DEF HasArray
  <2>5. Rest
    BY <1>13 DEF GetServerOldMsg, Asks, Handles, IsAt
  <2> QED BY <2>4, <2>5
<1>14. ASSUME ClipCounts(c)
       PROVE  Rest /\ \E r : Fits(r)
  <2>1. CASE msglist = <<>>
    BY <1>5, <1>14, <2>1 DEF ClipCounts, Asks, IsAt
  <2>2. CASE msglist # <<>>
    <3> PICK r : r = [Idle EXCEPT !.at = "start", !.counts = Len(msglist)]
      OBVIOUS
    <3>1. r \in ReaderState /\ r.at = "start" /\ r.arr = NoClient
      BY <1>2, <1>3 DEF ReaderState, Labels
    <3>2. Fits(r)
      BY <1>14, <2>2, <3>1 DEF ClipCounts, HasArray
    <3>3. Rest
      BY <1>14 DEF ClipCounts, Asks, IsAt
    <3> QED BY <3>2, <3>3
  <2> QED BY <2>1, <2>2
<1>15. ASSUME FirstPlace(c)
       PROVE  Rest /\ \E r : Fits(r)
  <2> PICK r : r = [was EXCEPT !.at = "length", !.i = Len(msglist) - was.counts + 1]
    OBVIOUS
  <2> PICK k : k = Len(msglist) - was.counts + 1
    OBVIOUS
  <2>4. was.counts \in Nat
    BY <1>1, WhatReadersAre
  <2>5. k \in Int
    BY <1>2, <2>4
  <2>1. r \in ReaderState /\ r.at = "length" /\ r.arr = was.arr
    BY ONLY <1>1, <2>5, r = [was EXCEPT !.at = "length", !.i = k] DEF ReaderState, Labels
  <2>2. Fits(r)
    BY <1>15, <2>1 DEF FirstPlace, HasArray
  <2>3. Rest
    BY <1>15 DEF FirstPlace, Asks, IsAt
  <2> QED BY <2>2, <2>3
<1>16. ASSUME LookAtLength(c)
       PROVE  Rest /\ \E r : Fits(r)
  <2>1. Rest
    BY <1>16 DEF LookAtLength, Asks, IsAt
  <2>2. CASE was.i <= Len(msglist)
    <3> PICK r : r = [was EXCEPT !.at = "read"]
      OBVIOUS
    <3>1. r \in ReaderState /\ r.at = "read" /\ r.arr = was.arr
      BY <1>1 DEF ReaderState, Labels
    <3>2. Fits(r)
      BY <1>16, <2>2, <3>1 DEF LookAtLength, HasArray
    <3> QED BY <2>1, <3>2
  <2>3. CASE ~(was.i <= Len(msglist))
    BY <1>5, <1>16, <2>1, <2>3 DEF LookAtLength
  <2> QED BY <2>2, <2>3
<1>17. ASSUME HandOut(c)
       PROVE  Rest /\ \E r : Fits(r)
  <2> PICK r : r = IF was.i \in DOMAIN msglist
                   THEN [was EXCEPT !.at = "length", !.i = @ + 1, !.last = msglist[was.i]]
                   ELSE [Idle EXCEPT !.at = "ended"]
    OBVIOUS
  <2>1. r \in ReaderState /\ r.at \in {"length", "ended"} /\ r.arr \in {NoClient, was.arr}
    <3>1. CASE was.i \in DOMAIN msglist
      <4> PICK m : m = msglist[was.i]
        OBVIOUS
      <4>1. m \in Nat /\ was.i + 1 \in Int
        BY <1>2, <3>1
      <4>2. r = [was EXCEPT !.at = "length", !.i = was.i + 1, !.last = m]
        BY <3>1
      <4> QED BY ONLY <1>1, <4>1, <4>2 DEF ReaderState, Labels
    <3>2. CASE was.i \notin DOMAIN msglist
      BY <1>3, <3>2 DEF ReaderState, Labels
    <3> QED BY <3>1, <3>2
  <2>2. Fits(r)
    BY <1>17, <2>1 DEF HandOut, HasArray
  <2>3. Rest
    BY <1>17 DEF HandOut, Asks, IsAt
  <2> QED BY <2>2, <2>3
<1> HIDE DEF Fits, Rest
<1>18. Rest /\ \E r : Fits(r)
  BY <1>6, <1>7, <1>8, <1>9, <1>10, <1>11, <1>12, <1>13, <1>14, <1>15, <1>16, <1>17 DEF Quiet
<1> QED BY <1>18 DEF Fits, Rest

LEMMA QuietKeeps ==
  ASSUME ListenInv, NEW c \in Clients, Quiet(c)
  PROVE  ArraysTyped' /\ ReadersTyped' /\ ArrayInv'
BY QuietReaders, QuietStep

LEMMA ListenerServerKeeps ==
  ASSUME ListenInv, NEW c \in Clients, ListenerServer(c)
  PROVE  ArraysTyped' /\ ReadersTyped' /\ ArrayInv'
<1> PICK r : r = IF arrayOf = NoClient THEN [Idle EXCEPT !.at = "create"]
                 ELSE [Idle EXCEPT !.at = "look", !.arr = arrayOf]
  OBVIOUS
<1>1. /\ IsAt(c, "idle") /\ Goes(c, r)
      /\ UNCHANGED arrays /\ UNCHANGED <<out, subscribed, excused>>
  BY DEF ListenerServer, Handles, arrays
<1>2. Idle \in ReaderState /\ Idle.arr = NoClient /\ arrayOf \in Someone
  BY IdleState DEF ListenInv, Typed, ArraysTyped
<1>3. r \in ReaderState /\ r.at \in {"create", "look"} /\ r.arr = arrayOf
      /\ (r.at = "create" <=> arrayOf = NoClient)
  <2>1. CASE arrayOf = NoClient
    BY <1>2, <2>1 DEF ReaderState, Labels
  <2>2. CASE arrayOf # NoClient
    BY <1>2, <2>2 DEF ReaderState, Labels
  <2> QED BY <2>1, <2>2
<1>4. reader'[c] = r /\ \A d \in Clients \ {c} : reader'[d] = reader[d]
  BY <1>1, <1>3, ReaderGoes DEF ListenInv, Typed
<1>5. ReaderSound(c)'
  <2>1. r.at = "create" =>
          arrayOf' # c /\ size'[c].len = 0 /\ \A d \in Clients : reader'[d].arr # c
    <3> SUFFICES ASSUME arrayOf = NoClient
                 PROVE  arrayOf' # c /\ size'[c].len = 0
                        /\ \A d \in Clients : reader'[d].arr # c
      BY <1>3
    <3>1. \A a \in Clients : size[a].len = 0 /\ reader[a].arr = NoClient
      BY DEF ListenInv, ArrayInv, NoneMade
    <3>2. c # NoClient /\ arrayOf' = arrayOf /\ size' = size
      BY <1>1, ListenersAssumption DEF arrays
    <3>3. \A d \in Clients : reader'[d].arr = NoClient
      BY <1>3, <1>4, <3>1
    <3> QED BY <3>1, <3>2, <3>3
  <2>2. r.at = "look" => r.arr \in Clients
    BY <1>2, <1>3 DEF Someone
  <2> QED BY <1>3, <1>4, <2>1, <2>2 DEF ReaderSound, IsAt, HasArray
<1>6. ASSUME c \notin excused
      PROVE  Subscription(c)'
  <2>1. Subscription(c)
    BY <1>6 DEF ListenInv, ArrayInv
  <2>2. Listed' = Listed /\ arrayOf' = arrayOf
    BY <1>1, SameLists DEF arrays
  <2> QED BY <1>1, <1>3, <1>4, <2>1, <2>2 DEF Subscription, IsAt, HasArray
<1> QED BY <1>1, <1>3, <1>5, <1>6, ReaderStep

LEMMA LookUpKeeps ==
  ASSUME ListenInv, NEW c \in Clients, LookUp(c)
  PROVE  ArraysTyped' /\ ReadersTyped' /\ ArrayInv'
<1> PICK was : was = reader[c]
  OBVIOUS
<1> PICK r : r = [was EXCEPT !.at = IF IsNew(c) THEN "push" ELSE "tell"]
  OBVIOUS
<1>1. /\ was.at = "look" /\ Goes(c, r)
      /\ UNCHANGED arrays /\ UNCHANGED <<out, subscribed, excused>>
  BY DEF LookUp, IsAt, arrays
<1>2. was \in ReaderState
  BY UseTypes DEF ListenInv
<1>3. r \in ReaderState /\ r.at \in {"push", "tell"} /\ r.arr = was.arr
      /\ (r.at = "push" <=> IsNew(c))
  BY <1>2 DEF ReaderState, Labels
<1>4. reader'[c] = r /\ \A d \in Clients \ {c} : reader'[d] = reader[d]
  BY <1>1, <1>3, ReaderGoes DEF ListenInv, Typed
<1>5. Listed' = Listed /\ arrayOf' = arrayOf /\ \A a : List(a)' = List(a)
  BY <1>1, SameLists DEF arrays
<1>6. ReaderSound(c)'
  <2>1. was.arr \in Clients
    BY <1>1 DEF ListenInv, ArrayInv, ReaderSound, IsAt, HasArray
  <2>2. r.at = "push" => c \notin Elems(List(r.arr)')
    BY <1>3, <1>5 DEF IsNew
  <2>3. r.at = "push" => c \notin Elems(List(reader[c].arr))'
    BY <1>4, <1>5, <2>2 DEF Elems
  <2> QED BY <1>3, <1>4, <2>1, <2>3 DEF ReaderSound, IsAt, HasArray
<1>7. ASSUME c \notin excused
      PROVE  Subscription(c)'
  <2>1. Subscription(c)
    BY <1>7 DEF ListenInv, ArrayInv
  <2>2. was.arr = arrayOf /\ was.arr \in Clients
    BY <1>1, <2>1 DEF Subscription, IsAt, HasArray, ListenInv, ArrayInv, ReaderSound
  <2>3. r.at = "tell" => c \in Listed
    BY <1>3, <2>2, ListenersAssumption DEF IsNew, Listed
  <2> QED BY <1>1, <1>3, <1>4, <1>5, <2>1, <2>2, <2>3 DEF Subscription, IsAt, HasArray
<1> QED BY <1>1, <1>3, <1>6, <1>7, ReaderStep

LEMMA TellListenerKeeps ==
  ASSUME ListenInv, NEW c \in Clients, TellListener(c)
  PROVE  ArraysTyped' /\ ReadersTyped' /\ ArrayInv'
<1>1. /\ IsAt(c, "tell") /\ Goes(c, Idle) /\ subscribed' = subscribed \cup {c}
      /\ UNCHANGED arrays /\ UNCHANGED <<out, excused>>
  BY DEF TellListener, arrays
<1>2. Idle \in ReaderState /\ Idle.arr = NoClient /\ Idle.at = "idle"
  BY IdleState
<1>3. reader'[c] = Idle
  BY <1>1, <1>2, ReaderGoes DEF ListenInv, Typed
<1>4. ReaderSound(c)'
  BY <1>2, <1>3 DEF ReaderSound, IsAt, HasArray
<1>5. ASSUME c \notin excused
      PROVE  Subscription(c)'
  <2>1. Subscription(c)
    BY <1>5 DEF ListenInv, ArrayInv
  <2>2. Listed' = Listed
    BY <1>1, SameLists
  <2>3. c \in Listed
    BY <1>1, <2>1 DEF Subscription, IsAt
  <2> QED BY <1>1, <1>2, <1>3, <2>1, <2>2, <2>3 DEF Subscription, IsAt, HasArray
<1> QED BY <1>1, <1>2, <1>4, <1>5, ReaderStep

\* An Array that replaces another has nobody in it, and those of the other are excused.
LEMMA CreateArrayKeeps ==
  ASSUME ListenInv, NEW c \in Clients, CreateArray(c)
  PROVE  ArraysTyped' /\ ReadersTyped' /\ ArrayInv'
<1> PICK r : r = [Idle EXCEPT !.at = "look", !.arr = c]
  OBVIOUS
<1>1. /\ IsAt(c, "create") /\ Goes(c, r) /\ arrayOf' = c
      /\ excused' = excused \cup Listed
           \cup {d \in Clients : arrayOf # NoClient /\ reader[d].arr = arrayOf}
      /\ size' = size /\ slots' = slots /\ UNCHANGED <<out, subscribed>>
  BY DEF CreateArray
<1>2. r \in ReaderState /\ r.at = "look" /\ r.arr = c
  BY IdleState DEF ReaderState, Labels, Someone
<1>3. ReadersTyped' /\ reader'[c] = r /\ \A d \in Clients \ {c} : reader'[d] = reader[d]
  BY <1>1, <1>2, ReaderGoes DEF ListenInv, Typed
<1>4. ArraysTyped'
  BY <1>1 DEF ListenInv, Typed, ArraysTyped, ArrayTyped, Someone
<1>5. arrayOf # c /\ size[c].len = 0 /\ \A d \in Clients : reader[d].arr # c
  BY <1>1 DEF ListenInv, ArrayInv, ReaderSound
<1>6. \A a : List(a)' = List(a)
  BY <1>1 DEF List
<1>7. Listed' = {}
  <2>1. DOMAIN List(c) = 1..0
    BY <1>5, ListIs DEF ListenInv, Typed, ArraysTyped
  <2>2. Listed' = Elems(List(c))
    BY <1>1, <1>6, ListenersAssumption DEF Listed, Elems
  <2> QED BY <2>1, <2>2 DEF Elems
<1>8. \A a \in Clients : NoDuplicates(List(a))'
  BY <1>6 DEF ListenInv, ArrayInv, NoDuplicates
<1>9. ReaderSound(c)'
  BY <1>2, <1>3 DEF ReaderSound, IsAt, HasArray
<1>10. ASSUME NEW d \in Clients \ {c}
       PROVE  ReaderSound(d)'
  <2>1. ReaderSound(d)
    BY DEF ListenInv, ArrayInv
  <2>2. IsAt(d, "create") => \A e \in Clients : reader'[e].arr # d
    BY <1>2, <1>3, <2>1 DEF ReaderSound
  <2> QED BY <1>1, <1>3, <1>6, <2>1, <2>2 DEF ReaderSound, IsAt, Elems
<1>11. NoneMade'
  BY <1>1, ListenersAssumption DEF NoneMade
<1>12. ASSUME NEW d \in Clients \ excused'
       PROVE  Subscription(d)'
  <2>1. Subscription(d) /\ d \notin Listed /\ (arrayOf = NoClient \/ reader[d].arr # arrayOf)
    BY <1>1, <1>12 DEF ListenInv, ArrayInv
  <2>2. CASE d = c
    BY <1>1, <1>2, <1>3, <1>7, <2>1, <2>2 DEF Subscription, IsAt, HasArray
  <2>3. CASE d # c
    <3>1. ReaderSound(d)
      BY DEF ListenInv, ArrayInv
    <3>2. reader[d].at \notin HasArray
      BY <2>1, <3>1, ListenersAssumption DEF ReaderSound, Subscription
    <3> QED BY <1>1, <1>3, <1>7, <2>1, <2>3, <3>2 DEF Subscription, IsAt, HasArray
  <2> QED BY <2>2, <2>3
<1>13. \A d \in Clients : ReaderSound(d)'
  BY <1>9, <1>10
<1>14. \A d \in (Clients \ excused)' : Subscription(d)'
  BY <1>12
<1> QED BY <1>3, <1>4, <1>8, <1>11, <1>13, <1>14 DEF ArrayInv

LEMMA PushListenerKeeps ==
  ASSUME ListenInv, NEW c \in Clients, PushListener(c)
  PROVE  ArraysTyped' /\ ReadersTyped' /\ ArrayInv'
<1> PICK was : was = reader[c]
  OBVIOUS
<1> PICK a : a = was.arr
  OBVIOUS
<1> PICK r : r = [was EXCEPT !.at = "tell"]
  OBVIOUS
<1>1. /\ was.at = "push" /\ Push(a, c) /\ Goes(c, r)
      /\ arrayOf' = arrayOf /\ UNCHANGED <<out, subscribed, excused>>
  BY DEF PushListener, IsAt
<1>2. was \in ReaderState
  BY UseTypes DEF ListenInv
<1>3. r \in ReaderState /\ r.at = "tell" /\ r.arr = a
  BY <1>2 DEF ReaderState, Labels
<1>4. ReadersTyped' /\ reader'[c] = r /\ \A d \in Clients \ {c} : reader'[d] = reader[d]
  BY <1>1, <1>3, ReaderGoes DEF ListenInv, Typed
<1>5. a \in Clients /\ c \notin Elems(List(a)) /\ NoDuplicates(List(a)) /\ ArraysTyped
  BY <1>1 DEF ListenInv, Typed, ArrayInv, ReaderSound, IsAt, HasArray
<1>6. ArraysTyped' /\ \A b \in Clients \ {a} : size'[b] = size[b]
  BY <1>1, <1>5, PushEffect
<1>7. /\ Elems(List(a))' = Elems(List(a)) \cup {c}
      /\ NoDuplicates(List(a))'
      /\ \A b \in Clients \ {a} : List(b)' = List(b)
  BY <1>1, <1>5, PushList
<1>8. \A b \in Clients : NoDuplicates(List(b))'
  BY <1>7 DEF ListenInv, ArrayInv, NoDuplicates
<1>9. arrayOf # NoClient /\ arrayOf \in Clients
  <2>1. NoneMade
    BY DEF ListenInv, ArrayInv
  <2>2. arrayOf # NoClient
    BY <1>5, <2>1, ListenersAssumption DEF NoneMade
  <2> QED BY <1>5, <2>2 DEF ArraysTyped, Someone
<1>10. ReaderSound(c)'
  BY <1>3, <1>4, <1>5 DEF ReaderSound, IsAt, HasArray
<1>11. ASSUME NEW d \in Clients \ {c}
       PROVE  ReaderSound(d)'
  <2>1. ReaderSound(d) /\ reader'[d] = reader[d]
    BY <1>4 DEF ListenInv, ArrayInv
  <2> PICK b : b = reader[d].arr
    OBVIOUS
  <2>2. ASSUME reader[d].at = "push"
        PROVE  d \notin Elems(List(b))'
    <3>1. d \notin Elems(List(b)) /\ b \in Clients
      BY <2>1, <2>2 DEF ReaderSound, IsAt, HasArray
    <3>2. CASE b = a
      BY <1>7, <3>1, <3>2
    <3>3. CASE b # a
      <4>1. List(b)' = List(b)
        BY <1>7, <3>1, <3>3
      <4> QED BY <3>1, <4>1 DEF Elems
    <3> QED BY <3>2, <3>3
  <2>3. ASSUME reader[d].at = "create"
        PROVE  arrayOf' # d /\ size'[d].len = 0 /\ \A e \in Clients : reader'[e].arr # d
    <3>1. arrayOf # d /\ size[d].len = 0 /\ \A e \in Clients : reader[e].arr # d
      BY <2>1, <2>3 DEF ReaderSound, IsAt
    <3>2. d # a
      BY <3>1
    <3>3. ASSUME NEW e \in Clients
          PROVE  reader'[e].arr # d
      BY <1>3, <1>4, <3>1, <3>2
    <3> QED BY <1>1, <1>6, <3>1, <3>2, <3>3
  <2>4. reader'[d].arr = b
    BY <2>1
  <2>5. reader[d].at = "push" => d \notin Elems(List(reader[d].arr))'
    BY <2>2, <2>4 DEF Elems, List
  <2> QED BY <2>1, <2>3, <2>5 DEF ReaderSound, IsAt
<1>12. NoneMade'
  BY <1>1, <1>9 DEF NoneMade
<1>13. Listed' = IF arrayOf = a THEN Listed \cup {c} ELSE Listed
  BY <1>1, <1>7, <1>9 DEF Listed, Elems
<1>14. ASSUME NEW d \in Clients \ excused
       PROVE  Subscription(d)'
  <2>1. Subscription(d)
    BY DEF ListenInv, ArrayInv
  <2>2. CASE d = c
    <3>1. a = arrayOf
      BY <1>1, <2>1, <2>2 DEF Subscription, IsAt, HasArray
    <3> QED BY <1>1, <1>3, <1>4, <1>13, <2>2, <3>1 DEF Subscription, IsAt, HasArray
  <2>3. CASE d # c
    BY <1>1, <1>4, <1>13, <2>1, <2>3 DEF Subscription, IsAt, HasArray
  <2> QED BY <2>2, <2>3
<1>15. \A d \in Clients : ReaderSound(d)'
  BY <1>10, <1>11
<1>16. \A d \in (Clients \ excused)' : Subscription(d)'
  BY <1>1, <1>14
<1> QED BY <1>4, <1>6, <1>8, <1>12, <1>15, <1>16 DEF ArrayInv

-----------------------------------------------------------------------------
\* A removal takes from what a notice owes, and leaves its reader where it is.

LEMMA RangingKeeps ==
  ASSUME ReadersTyped, NEW a, NEW c, reader' = Ranging(reader, a, c)
  PROVE  /\ ReadersTyped'
         /\ \A d \in Clients : \E due \in SUBSET reader[d].due :
              reader'[d] = [reader[d] EXCEPT !.due = due]
<1>1. ASSUME NEW d \in Clients
      PROVE  /\ reader'[d] \in ReaderState
             /\ \E due \in SUBSET reader[d].due : reader'[d] = [reader[d] EXCEPT !.due = due]
  <2> PICK r : r = reader[d]
    OBVIOUS
  <2>1. r \in ReaderState
    BY DEF ReadersTyped
  <2>2. r.due \subseteq Clients /\ r = [r EXCEPT !.due = r.due]
    BY <2>1 DEF ReaderState
  <2>3. PICK due \in SUBSET r.due : reader'[d] = [r EXCEPT !.due = due]
    <3>1. CASE r.at = "range" /\ r.arr = a /\ r.cap = size[a].cap
      BY <2>1, <3>1 DEF Ranging
    <3>2. CASE ~(r.at = "range" /\ r.arr = a /\ r.cap = size[a].cap)
      BY <2>2, <3>2 DEF Ranging
    <3> QED BY <3>1, <3>2
  <2>4. due \in SUBSET Clients
    BY <2>2
  <2>5. reader'[d] \in ReaderState
    BY ONLY <2>1, <2>3, <2>4 DEF ReaderState
  <2> QED BY <2>3, <2>5
<1>2. reader' = [d \in Clients |-> reader'[d]]
  BY DEF Ranging
<1> QED BY <1>1, <1>2 DEF ReadersTyped

LEMMA RemoveKeepsReaders ==
  ASSUME ReadersTyped, NEW a, NEW c, Remove(a, c, reader)
  PROVE  /\ ReadersTyped'
         /\ \A d \in Clients : \E due \in SUBSET reader[d].due :
              reader'[d] = [reader[d] EXCEPT !.due = due]
<1>1. CASE a = NoClient \/ c \notin Elems(List(a))
  <2>1. reader' = reader
    BY <1>1 DEF Remove
  <2>2. ASSUME NEW d \in Clients
        PROVE  reader[d] = [reader[d] EXCEPT !.due = reader[d].due]
    BY DEF ReadersTyped, ReaderState
  <2> QED BY <2>1, <2>2 DEF ReadersTyped
<1>2. CASE ~(a = NoClient \/ c \notin Elems(List(a)))
  <2>1. reader' = Ranging(reader, a, c)
    BY <1>2 DEF Remove
  <2> QED BY <2>1, RangingKeeps
<1> QED BY <1>1, <1>2

LEMMA ReadersStay ==
  ASSUME ReadersTyped, NEW a, NEW c, Remove(a, c, reader), NEW d \in Clients
  PROVE  /\ reader'[d].at = reader[d].at /\ reader'[d].arr = reader[d].arr
         /\ reader'[d].cap = reader[d].cap /\ reader'[d].i = reader[d].i
         /\ reader'[d].end = reader[d].end /\ reader'[d].told = reader[d].told
         /\ reader'[d].head = reader[d].head /\ reader'[d].last = reader[d].last
         /\ reader'[d].due \subseteq reader[d].due
<1> PICK r : r = reader[d]
  OBVIOUS
<1>1. PICK due \in SUBSET r.due : reader'[d] = [r EXCEPT !.due = due]
  BY RemoveKeepsReaders
<1>2. r \in ReaderState
  BY DEF ReadersTyped
<1> QED BY <1>1, <1>2 DEF ReaderState

LEMMA RemoveLists ==
  ASSUME ListenInv, NEW c \in Clients, Remove(arrayOf, c, reader), arrayOf' = arrayOf
  PROVE  /\ ArraysTyped' /\ ReadersTyped' /\ Listed' = Listed \ {c}
         /\ \A a \in Clients : /\ NoDuplicates(List(a))'
                               /\ Elems(List(a))' \subseteq Elems(List(a))
                               /\ size[a].len = 0 => size'[a].len = 0
<1>0. ReadersTyped'
  BY RemoveKeepsReaders DEF ListenInv, Typed
<1>1. CASE arrayOf = NoClient \/ c \notin Elems(List(arrayOf))
  <2>1. size' = size /\ slots' = slots
    BY <1>1 DEF Remove
  <2>2. UNCHANGED arrays
    BY <2>1 DEF arrays
  <2>3. ArraysTyped' /\ Listed' = Listed /\ \A a : List(a)' = List(a)
    BY <2>2, ArraysStayTyped, SameLists DEF ListenInv, Typed
  <2>4. c \notin Listed
    BY <1>1 DEF Listed
  <2>5. \A a \in Clients : NoDuplicates(List(a))' /\ Elems(List(a))' = Elems(List(a))
    BY <2>3 DEF ListenInv, ArrayInv, NoDuplicates, Elems
  <2> QED BY <1>0, <2>1, <2>3, <2>4, <2>5
<1>2. CASE arrayOf # NoClient /\ c \in Elems(List(arrayOf))
  <2>1. arrayOf \in Clients /\ ArraysTyped /\ NoDuplicates(List(arrayOf))
    BY <1>2 DEF ListenInv, Typed, ArraysTyped, ArrayInv, Someone
  <2>2. TakenOut(arrayOf, c)
    BY <1>2 DEF Remove, TakenOut
  <2>3. /\ ArraysTyped' /\ size'[arrayOf].len = size[arrayOf].len - 1
        /\ \A b \in Clients \ {arrayOf} : size'[b] = size[b]
    BY <1>2, <2>1, <2>2, RemoveEffect
  <2>4. /\ Elems(List(arrayOf))' = Elems(List(arrayOf)) \ {c}
        /\ NoDuplicates(List(arrayOf))'
        /\ \A b \in Clients \ {arrayOf} : List(b)' = List(b)
    BY <1>2, <2>1, <2>2, RemoveList
  <2>5. size[arrayOf].len # 0
    <3>1. PlaceOf(arrayOf, c) \in 1..size[arrayOf].len
      BY <1>2, <2>1, PlaceFound
    <3> QED BY <3>1
  <2>6. Listed' = Listed \ {c}
    BY <1>2, <2>4 DEF Listed, Elems
  <2>7. ASSUME NEW b \in Clients
        PROVE  /\ NoDuplicates(List(b))' /\ Elems(List(b))' \subseteq Elems(List(b))
               /\ size[b].len = 0 => size'[b].len = 0
    <3>1. CASE b = arrayOf
      BY <2>4, <2>5, <3>1 DEF NoDuplicates, Elems
    <3>2. CASE b # arrayOf
      <4>1. List(b)' = List(b) /\ size'[b] = size[b] /\ NoDuplicates(List(b))
        BY <2>3, <2>4, <3>2 DEF ListenInv, ArrayInv
      <4> QED BY <4>1 DEF NoDuplicates, Elems
    <3> QED BY <3>1, <3>2
  <2> QED BY <1>0, <2>3, <2>6, <2>7
<1> QED BY <1>1, <1>2

\* A client that leaves the lists is no more in them, nor among those who were told.
LEMMA RemovalKeeps ==
  ASSUME ListenInv, NEW c \in Clients, Remove(arrayOf, c, reader), arrayOf' = arrayOf,
         subscribed' = subscribed \ {c},
         excused \subseteq excused',
         c \in excused' \/ ~IsAt(c, "tell")
  PROVE  ArraysTyped' /\ ReadersTyped' /\ ArrayInv'
<1>1. /\ ArraysTyped' /\ ReadersTyped' /\ Listed' = Listed \ {c}
      /\ \A a \in Clients : /\ NoDuplicates(List(a))'
                            /\ Elems(List(a))' \subseteq Elems(List(a))
                            /\ size[a].len = 0 => size'[a].len = 0
  BY RemoveLists
<1>2. \A d \in Clients : reader'[d].at = reader[d].at /\ reader'[d].arr = reader[d].arr
  BY ReadersStay DEF ListenInv, Typed
<1>3. ASSUME NEW d \in Clients
      PROVE  ReaderSound(d)'
  <2>1. ReaderSound(d)
    BY DEF ListenInv, ArrayInv
  <2> PICK b : b = reader[d].arr
    OBVIOUS
  <2>2. reader[d].at = "push" => d \notin Elems(List(b))'
    <3>1. reader[d].at = "push" => b \in Clients /\ d \notin Elems(List(b))
      BY <2>1 DEF ReaderSound, IsAt, HasArray
    <3> QED BY <1>1, <3>1
  <2>3. reader'[d].arr = b /\ reader'[d].at = reader[d].at
    BY <1>2
  <2>4. reader[d].at = "push" => d \notin Elems(List(reader[d].arr))'
    BY <2>2, <2>3 DEF Elems, List
  <2>5. reader[d].at = "create" =>
          /\ arrayOf # d /\ size'[d].len = 0 /\ \A e \in Clients : reader'[e].arr # d
    BY <1>1, <1>2, <2>1 DEF ReaderSound, IsAt
  <2>6. reader[d].at \in HasArray \cup {"range"} => b \in Clients
    BY <2>1 DEF ReaderSound
  <2> QED BY <2>3, <2>4, <2>5, <2>6 DEF ReaderSound, IsAt
<1>4. NoneMade'
  BY <1>1, <1>2 DEF ListenInv, ArrayInv, NoneMade
<1>5. ASSUME NEW d \in Clients \ excused'
      PROVE  Subscription(d)'
  <2>1. Subscription(d)
    BY <1>5 DEF ListenInv, ArrayInv
  <2>2. reader'[d].at = reader[d].at /\ reader'[d].arr = reader[d].arr
    BY <1>2
  <2>3. d = c => reader[d].at # "tell"
    BY <1>5 DEF IsAt
  <2> QED BY <1>1, <2>1, <2>2, <2>3 DEF Subscription, IsAt
<1>6. \A d \in (Clients \ excused)' : Subscription(d)'
  BY <1>5
<1> QED BY <1>1, <1>3, <1>4, <1>6 DEF ArrayInv

LEMMA CannelKeeps ==
  ASSUME ListenInv, NEW c \in Clients, CannelListenerServer(c)
  PROVE  ArraysTyped' /\ ReadersTyped' /\ ArrayInv'
<1>1. /\ IsAt(c, "idle") /\ Remove(arrayOf, c, reader) /\ arrayOf' = arrayOf
      /\ subscribed' = subscribed \ {c} /\ out' = out /\ excused' = excused
  BY DEF CannelListenerServer, Handles
<1>2. ~IsAt(c, "tell")
  BY <1>1 DEF IsAt
<1> QED BY <1>1, <1>2, RemovalKeeps

LEMMA RemoveAllKeeps ==
  ASSUME ListenInv, NEW c \in Clients, RemoveAllListeners(c)
  PROVE  ArraysTyped' /\ ReadersTyped' /\ ArrayInv'
<1>1. /\ Remove(arrayOf, c, reader) /\ arrayOf' = arrayOf
      /\ subscribed' = subscribed \ {c} /\ out' = out \cup {c}
      /\ excused' = IF IsAt(c, "idle") THEN excused ELSE excused \cup {c}
  BY DEF RemoveAllListeners
<1>2. excused \subseteq excused' /\ (c \in excused' \/ IsAt(c, "idle"))
  BY <1>1
<1>3. c \in excused' \/ ~IsAt(c, "tell")
  BY <1>2 DEF IsAt
<1> QED BY <1>1, <1>2, <1>3, RemovalKeeps

-----------------------------------------------------------------------------
\* What is left of the types.

LEMMA RestStaysTyped ==
  ASSUME ListenInv, NEW c \in Clients,
         \/ ListenerServer(c) \/ CreateArray(c) \/ LookUp(c) \/ PushListener(c)
         \/ TellListener(c) \/ CannelListenerServer(c) \/ RemoveAllListeners(c) \/ Quiet(c)
  PROVE  RestTyped'
<1>1. RestTyped
  BY DEF ListenInv, Typed
<1>2. ASSUME events' = events \/ Happens
      PROVE  events' \in 0..MaxEvents
  BY <1>1, <1>2, ListenersAssumption DEF RestTyped, Happens
<1>3. ASSUME UNCHANGED <<messages, out, subscribed, excused>>,
             events' = events \/ Happens
      PROVE  RestTyped'
  BY <1>1, <1>2, <1>3 DEF RestTyped, messages
<1>4. Listed \subseteq Clients
  <2>1. CASE arrayOf = NoClient
    BY <2>1 DEF Listed
  <2>2. CASE arrayOf # NoClient
    <3>1. arrayOf \in Clients
      BY <2>2 DEF ListenInv, Typed, ArraysTyped, Someone
    <3>2. List(arrayOf) \in Seq(Clients)
      BY <3>1, ListIs DEF ListenInv, Typed, ArraysTyped
    <3> QED BY <2>2, <3>2 DEF Listed, Elems
  <2> QED BY <2>1, <2>2
<1>5. CASE ListenerServer(c)
  BY <1>3, <1>5 DEF ListenerServer, Handles
<1>6. CASE CreateArray(c)
  BY <1>1, <1>4, <1>6 DEF CreateArray, RestTyped, messages
<1>7. CASE LookUp(c) \/ PushListener(c)
  BY <1>3, <1>7 DEF LookUp, PushListener
<1>8. CASE TellListener(c)
  BY <1>1, <1>8 DEF TellListener, RestTyped, messages
<1>9. CASE CannelListenerServer(c)
  <2>1. /\ UNCHANGED messages /\ out' = out /\ excused' = excused /\ Happens
        /\ subscribed' = subscribed \ {c}
    BY <1>9 DEF CannelListenerServer, Handles
  <2> QED BY <1>1, <1>2, <2>1 DEF RestTyped, messages
<1>10. CASE RemoveAllListeners(c)
  <2>1. /\ UNCHANGED messages /\ out' = out \cup {c} /\ Happens
        /\ subscribed' = subscribed \ {c} /\ excused' \in {excused, excused \cup {c}}
    BY <1>10 DEF RemoveAllListeners
  <2> QED BY <1>1, <1>2, <2>1 DEF RestTyped, messages
<1>11. CASE SendServerMsg(c)
  <2>1. /\ sent' = sent + 1 /\ msglist' = Append(msglist, sent + 1) /\ Happens
        /\ UNCHANGED <<out, subscribed, excused>>
    BY <1>11 DEF SendServerMsg, Handles, Pushed
  <2>2. sent \in Nat /\ msglist \in Seq(1..sent)
    BY <1>1 DEF RestTyped
  <2>3. msglist \in Seq(1..(sent + 1)) /\ sent + 1 \in 1..(sent + 1)
    <3>1. 1..sent \subseteq 1..(sent + 1) /\ sent + 1 \in 1..(sent + 1)
      BY <2>2
    <3>2. \A i \in 1..Len(msglist) : msglist[i] \in 1..sent
      BY <2>2
    <3> QED BY ONLY <2>2, <3>1, <3>2
  <2>4. msglist' \in Seq(1..sent')
    BY <2>1, <2>3, AppendElems
  <2>5. sent' \in Nat
    BY <2>1, <2>2
  <2>6. events' \in 0..MaxEvents
    BY <1>2, <2>1
  <2> QED BY <1>1, <2>1, <2>4, <2>5, <2>6 DEF RestTyped
<1>12. CASE DropMessage(c)
  <2>1. /\ sent' = sent /\ msglist' = Keep(msglist, Elems(msglist) \ {reader[c].head})
        /\ events' = events /\ UNCHANGED <<out, subscribed, excused>>
    BY <1>12 DEF DropMessage, Dropped
  <2>2. msglist' \in Seq(1..sent)
    BY <1>1, <2>1, KeepProperties DEF RestTyped
  <2> QED BY <1>1, <2>1, <2>2 DEF RestTyped
<1>13. CASE CountMessages(c) \/ TakeFirst(c)
  BY <1>3, <1>13 DEF CountMessages, TakeFirst
<1>14. CASE Notify(c)
  BY <1>3, <1>14 DEF Notify
<1>15. CASE TellNext(c) \/ EndOfRange(c)
  BY <1>3, <1>15 DEF TellNext, EndOfRange, Ranges
<1>16. CASE GetServerOldMsg(c)
  BY <1>3, <1>16 DEF GetServerOldMsg, Asks, Handles
<1>17. CASE ClipCounts(c) \/ FirstPlace(c) \/ LookAtLength(c) \/ HandOut(c)
  BY <1>3, <1>17 DEF ClipCounts, FirstPlace, LookAtLength, HandOut, Asks
<1> QED BY <1>5, <1>6, <1>7, <1>8, <1>9, <1>10, <1>11, <1>12, <1>13, <1>14, <1>15, <1>16,
           <1>17 DEF Quiet

-----------------------------------------------------------------------------
LEMMA ListenInitInv ==
  ASSUME ListenInit
  PROVE  ListenInv
<1> DEFINE Begun(n, list, cap) ==
         LET a == IF n = 0 THEN NoClient ELSE list[1]
         IN  /\ NoDuplicates(list) /\ IsCapacity(cap, n)
             /\ arrayOf = a /\ subscribed = Elems(list)
             /\ size = [b \in Clients |-> IF b = a THEN [len |-> n, cap |-> cap]
                                          ELSE [len |-> 0, cap |-> 0]]
             /\ slots = [b \in Clients |-> [m \in Caps |-> [i \in 1..m |->
                           IF b = a /\ m = cap /\ i <= n THEN list[i] ELSE NoClient]]]
<1>0. PICK n \in 0..Cardinality(Clients) :
         \E list \in [1..n -> Clients], cap \in Caps : Begun(n, list, cap)
  BY DEF ListenInit
<1>1. PICK list \in [1..n -> Clients], cap \in Caps : Begun(n, list, cap)
  BY <1>0
<1> PICK a : a = IF n = 0 THEN NoClient ELSE list[1]
  OBVIOUS
<1>2. /\ NoDuplicates(list) /\ n <= cap /\ arrayOf = a /\ subscribed = Elems(list)
      /\ size = [b \in Clients |-> IF b = a THEN [len |-> n, cap |-> cap]
                                   ELSE [len |-> 0, cap |-> 0]]
      /\ slots = [b \in Clients |-> [m \in Caps |-> [i \in 1..m |->
                    IF b = a /\ m = cap /\ i <= n THEN list[i] ELSE NoClient]]]
  BY <1>1 DEF IsCapacity
<1>3. n \in Nat /\ cap \in Nat /\ DOMAIN list = 1..n /\ 0 \in Caps /\ Caps \subseteq Nat
  BY CapsAreNumbers
<1>4. reader = [c \in Clients |-> Idle] /\ out = {} /\ excused = {} /\ events = 0
  BY DEF ListenInit
<1>5. a \in Someone /\ (a = NoClient <=> n = 0) /\ (a # NoClient => a \in Clients)
  <2>1. CASE n = 0
    BY <2>1 DEF Someone
  <2>2. CASE n # 0
    <3>1. 1 \in 1..n
      BY <1>3, <2>2
    <3> QED BY <2>2, <3>1, ListenersAssumption DEF Someone
  <2> QED BY <2>1, <2>2
<1>6. ASSUME NEW b \in Clients
      PROVE  size[b] = IF b = a THEN [len |-> n, cap |-> cap] ELSE [len |-> 0, cap |-> 0]
  BY <1>2
<1>7. ASSUME NEW b \in Clients, NEW m \in Caps
      PROVE  /\ slots[b][m] \in Places(m)
             /\ \A i \in 1..m : b = a /\ m = cap /\ i <= n => slots[b][m][i] = list[i]
  <2> PICK f : f = [i \in 1..m |-> IF b = a /\ m = cap /\ i <= n THEN list[i] ELSE NoClient]
    OBVIOUS
  <2>1. slots[b][m] = f
    BY <1>2
  <2>2. ASSUME NEW i \in 1..m
        PROVE  (IF b = a /\ m = cap /\ i <= n THEN list[i] ELSE NoClient) \in Someone
    <3>1. CASE b = a /\ m = cap /\ i <= n
      <4>1. i \in 1..n
        BY <1>3, <3>1
      <4> QED BY <3>1, <4>1 DEF Someone
    <3>2. CASE ~(b = a /\ m = cap /\ i <= n)
      BY <3>2 DEF Someone
    <3> QED BY <3>1, <3>2
  <2>3. f \in [1..m -> Someone]
    BY ONLY <2>2, f = [i \in 1..m |-> IF b = a /\ m = cap /\ i <= n THEN list[i] ELSE NoClient]
  <2> QED BY <2>1, <2>3 DEF Places
<1>8. slots \in [Clients -> Memory]
  <2>1. slots = [b \in Clients |-> [m \in Caps |-> slots[b][m]]]
    BY <1>2
  <2>2. \A b \in Clients : [m \in Caps |-> slots[b][m]] \in Memory
    BY <1>7, PlacesTyped DEF Memory
  <2> QED BY ONLY <2>1, <2>2
<1>9. size \in [Clients -> [len : Nat, cap : Caps]]
  BY <1>2, <1>3
<1>10. ASSUME NEW b \in Clients
       PROVE  ArrayTyped(b)
  <2>1. CASE b = a
    <3>1. size[b].len = n /\ size[b].cap = cap
      BY <1>6, <2>1
    <3>2. \A i \in 1..n : i \in 1..cap /\ i <= n
      BY <1>2, <1>3
    <3>3. \A i \in 1..n : slots[b][cap][i] \in Clients
      BY <1>7, <2>1, <3>2
    <3>4. n \in 0..cap
      BY <1>2, <1>3
    <3> QED BY <1>7, <3>1, <3>3, <3>4 DEF ArrayTyped
  <2>2. CASE b # a
    <3>1. size[b].len = 0 /\ size[b].cap = 0
      BY <1>6, <2>2
    <3> QED BY <1>7, <3>1 DEF ArrayTyped
  <2> QED BY <2>1, <2>2
<1>11. ArraysTyped
  BY <1>2, <1>5, <1>8, <1>9, <1>10 DEF ArraysTyped
<1>12. ReadersTyped
  BY <1>4, IdleState DEF ReadersTyped
<1>13. RestTyped
  <2>1. PICK k \in 0..MaxMessages : msglist = [i \in 1..k |-> i] /\ sent = k
    BY DEF ListenInit
  <2>2. k \in Nat
    BY ListenersAssumption
  <2>3. msglist \in Seq(1..sent)
    BY ONLY <2>1, <2>2
  <2>4. subscribed \subseteq Clients
    BY <1>2 DEF Elems
  <2> QED BY <1>4, <2>1, <2>2, <2>3, <2>4, ListenersAssumption DEF RestTyped
<1>14. ASSUME NEW b \in Clients
       PROVE  NoDuplicates(List(b)) /\ (b = a => Elems(List(b)) = Elems(list))
  <2>1. /\ DOMAIN List(b) = 1..size[b].len
        /\ \A i \in 1..size[b].len : List(b)[i] = slots[b][size[b].cap][i]
    BY <1>11, ListIs DEF ArraysTyped
  <2>2. CASE b = a
    <3>1. size[b].len = n /\ size[b].cap = cap
      BY <1>6, <2>2
    <3>2. \A i \in 1..n : i \in 1..cap /\ i <= n
      BY <1>2, <1>3
    <3>3. \A i \in 1..n : slots[b][cap][i] = list[i]
      BY <1>7, <2>2, <3>2
    <3>4. DOMAIN List(b) = 1..n /\ \A i \in 1..n : List(b)[i] = list[i]
      BY <2>1, <3>1, <3>3
    <3> QED BY ONLY <1>2, <1>3, <3>4 DEF NoDuplicates, Elems
  <2>3. CASE b # a
    <3>1. size[b].len = 0
      BY <1>6, <2>3
    <3> QED BY <2>1, <2>3, <3>1 DEF NoDuplicates
  <2> QED BY <2>2, <2>3
<1>15. Listed = subscribed
  <2>1. CASE n = 0
    BY <1>2, <1>3, <1>5, <2>1 DEF Listed, Elems
  <2>2. CASE n # 0
    BY <1>2, <1>5, <1>14, <2>2 DEF Listed
  <2> QED BY <2>1, <2>2
<1>16. \A c \in Clients : reader[c] = Idle /\ Idle.at = "idle" /\ Idle.arr = NoClient
  BY <1>4, IdleState
<1>17. \A c \in Clients : ReaderSound(c) /\ Subscription(c)
  BY <1>4, <1>15, <1>16 DEF ReaderSound, Subscription, IsAt, HasArray
<1>18. NoneMade
  <2>1. arrayOf = NoClient => \A b \in Clients : size[b].len = 0
    BY <1>2, <1>5, <1>6, ListenersAssumption
  <2> QED BY <1>16, <2>1 DEF NoneMade
<1>19. ArrayInv
  BY <1>14, <1>17, <1>18 DEF ArrayInv
<1> QED BY <1>11, <1>12, <1>13, <1>19 DEF ListenInv, Typed

LEMMA ListenStep ==
  ASSUME ListenInv, [ListenNext]_listenVars
  PROVE  ListenInv'
<1>1. CASE UNCHANGED listenVars
  <2>1. UNCHANGED arrays /\ reader' = reader /\ UNCHANGED <<messages, out, subscribed, excused>>
        /\ events' = events
    BY <1>1 DEF listenVars, arrays, messages
  <2>2. ArraysTyped' /\ ReadersTyped' /\ RestTyped'
    BY <2>1, ArraysStayTyped DEF ListenInv, Typed, ReadersTyped, RestTyped, messages
  <2>3. \A a : List(a)' = List(a)
    BY <2>1, SameLists
  <2>4. Listed' = Listed
    BY <2>1, SameLists
  <2>5. (\A a \in Clients : NoDuplicates(List(a)))'
    BY <2>3 DEF ListenInv, ArrayInv, NoDuplicates
  <2>6. (\A c \in Clients : ReaderSound(c))'
    BY <2>1, <2>3 DEF ListenInv, ArrayInv, ReaderSound, IsAt, arrays, List
  <2>7. NoneMade'
    BY <2>1 DEF ListenInv, ArrayInv, NoneMade, arrays
  <2>8. (\A c \in Clients \ excused : Subscription(c))'
    BY <2>1, <2>4 DEF ListenInv, ArrayInv, Subscription, IsAt, arrays
  <2> QED BY <2>2, <2>5, <2>6, <2>7, <2>8 DEF ListenInv, Typed, ArrayInv
<1>2. CASE ListenNext
  <2>1. PICK c \in Clients :
          \/ ListenerServer(c) \/ CreateArray(c) \/ LookUp(c) \/ PushListener(c)
          \/ TellListener(c) \/ CannelListenerServer(c) \/ RemoveAllListeners(c) \/ Quiet(c)
    BY <1>2 DEF ListenNext, Quiet
  <2>2. RestTyped'
    BY <2>1, RestStaysTyped
  <2>3. ArraysTyped' /\ ReadersTyped' /\ ArrayInv'
    BY <2>1, ListenerServerKeeps, CreateArrayKeeps, LookUpKeeps, PushListenerKeeps,
       TellListenerKeeps, CannelKeeps, RemoveAllKeeps, QuietKeeps
  <2> QED BY <2>2, <2>3 DEF ListenInv, Typed
<1> QED BY <1>1, <1>2

LEMMA ListenInvariance == ListenSpec => []ListenInv
BY ListenInitInv, ListenStep, PTL DEF ListenSpec

\* Who was told that he listens is in the list, once, until he cancels or goes out, and
\* nobody else is, but for the excused: for any number of clients, whoever joins, leaves
\* and creates the list meanwhile, and whether or not they are read late.
THEOREM SubscribersAreListed == ListenSpec => []SubscribersListed
<1>1. ASSUME ListenInv
      PROVE  SubscribersListed
  <2> SUFFICES ASSUME NEW c \in Clients \ excused, IsAt(c, "idle")
               PROVE  /\ c \in subscribed <=> c \in Listed
                      /\ arrayOf # NoClient =>
                           Cardinality({i \in DOMAIN List(arrayOf) : List(arrayOf)[i] = c}) <= 1
    BY DEF SubscribersListed
  <2>1. c \in subscribed <=> c \in Listed
    BY <1>1 DEF ListenInv, ArrayInv, Subscription, IsAt
  <2>2. ASSUME arrayOf # NoClient
        PROVE  Cardinality({i \in DOMAIN List(arrayOf) : List(arrayOf)[i] = c}) <= 1
    <3> PICK S : S = {i \in DOMAIN List(arrayOf) : List(arrayOf)[i] = c}
      OBVIOUS
    <3>1. NoDuplicates(List(arrayOf))
      BY <1>1, <2>2 DEF ListenInv, Typed, ArraysTyped, ArrayInv, Someone
    <3>2. \A i, j \in S : i = j
      BY <3>1 DEF NoDuplicates
    <3>3. CASE S = {}
      <4>1. Cardinality(S) = 0
        BY <3>3, FS_EmptySet
      <4> QED BY <4>1
    <3>4. CASE S # {}
      <4>1. PICK i : S = {i}
        BY <3>2, <3>4
      <4>2. Cardinality(S) = 1
        BY <4>1, FS_Singleton
      <4> QED BY <4>2
    <3> QED BY <3>3, <3>4
  <2> QED BY <2>1, <2>2
<1> QED BY <1>1, ListenInvariance, PTL

-----------------------------------------------------------------------------
\* Taking the first element out of a list without duplicates leaves the others, each one
\* place further up.
LEMMA KeepTail ==
  ASSUME NEW T, NEW list \in Seq(T), list # <<>>, NoDuplicates(list)
  PROVE  /\ Keep(list, Elems(list) \ {list[1]}) \in Seq(T)
         /\ Len(Keep(list, Elems(list) \ {list[1]})) = Len(list) - 1
         /\ \A j \in 1..(Len(list) - 1) :
              Keep(list, Elems(list) \ {list[1]})[j] = list[j + 1]
<1> PICK n : n = Len(list)
  OBVIOUS
<1> PICK S : S = Elems(list) \ {list[1]}
  OBVIOUS
<1> PICK rest : rest = Keep(list, S)
  OBVIOUS
<1>1. n \in Nat \ {0} /\ DOMAIN list = 1..n /\ 1 \in 1..n
  OBVIOUS
<1>2. /\ rest \in Seq(T) /\ Elems(rest) = S /\ NoDuplicates(rest)
  <2>1. Elems(list) \cap S = S
    OBVIOUS
  <2> QED BY <2>1, KeepProperties
<1>3. Len(rest) = n - 1
  <2>1. IsFiniteSet(Elems(list)) /\ Cardinality(Elems(list)) = n
    BY LenIsCardinality
  <2>2. list[1] \in Elems(list)
    BY <1>1 DEF Elems
  <2>3. Cardinality(S) = n - 1
    BY <2>1, <2>2, FS_RemoveElement
  <2>4. Cardinality(Elems(rest)) = Len(rest)
    BY <1>2, LenIsCardinality
  <2> QED BY <1>2, <2>3, <2>4
<1>4. PICK pos \in [1..Len(rest) -> DOMAIN list] :
             /\ \A j \in 1..Len(rest) : rest[j] = list[pos[j]] /\ list[pos[j]] \in S
             /\ \A i, j \in 1..Len(rest) : i < j => pos[i] < pos[j]
             /\ \A i \in DOMAIN list : list[i] \in S => \E j \in 1..Len(rest) : pos[j] = i
  BY ONLY list \in Seq(T), rest = Keep(list, S), KeepPositions
<1>5. /\ \A j \in 1..(n - 1) : pos[j] \in 2..n
      /\ \A i, j \in 1..(n - 1) : i < j => pos[i] < pos[j]
      /\ \A i \in 2..n : \E j \in 1..(n - 1) : pos[j] = i
  <2>1. \A i \in 1..n : list[i] \in S <=> i # 1
    BY <1>1 DEF Elems, NoDuplicates
  <2>2. \A i \in 1..n : i # 1 <=> i \in 2..n
    BY <1>1
  <2>3. 2..n \subseteq 1..n
    BY <1>1
  <2> QED BY ONLY <1>1, <1>3, <1>4, <2>1, <2>2, <2>3
<1>6. \A j \in 1..(n - 1) : pos[j] = j + 1
  <2> PICK W : W = {j \in 1..(n - 1) : pos[j] # j + 1}
    OBVIOUS
  <2>1. SUFFICES ASSUME W # {}
                 PROVE  FALSE
    OBVIOUS
  <2> PICK j : j = Least(W)
    OBVIOUS
  <2>2. W \in SUBSET Nat
    BY <1>1
  <2>3. j \in W /\ \A k \in W : j <= k
    BY <2>1, <2>2, LeastProperties
  <2>4. j \in 1..(n - 1) /\ pos[j] # j + 1 /\ j \in Nat /\ j >= 1
    BY <1>1, <2>3
  <2>5. ASSUME NEW k \in 1..(n - 1), k < j
        PROVE  pos[k] = k + 1
    <3>1. k \in Int /\ j \in Int
      BY <1>1, <2>4
    <3>2. ~(j <= k)
      BY ONLY <3>1, <2>5
    <3>3. k \notin W
      BY ONLY <2>3, <3>2
    <3> QED BY <3>3
  <2>6. PICK k \in 1..(n - 1) : pos[k] = j + 1
    <3>1. j + 1 \in 2..n
      BY <1>1, <2>4
    <3> QED BY <1>5, <3>1
  <2>7. k \in Nat /\ k # j /\ ~(k < j)
    <3>1. k \in Nat /\ k # j
      BY <1>1, <2>4, <2>6
    <3>2. ASSUME k < j
          PROVE  FALSE
      <4>1. pos[k] = k + 1
        BY <2>5, <3>2
      <4> QED BY ONLY <2>4, <2>6, <3>1, <3>2, <4>1
    <3> QED BY <3>1, <3>2
  <2>8. pos[j] < j + 1
    <3>1. j < k
      BY ONLY <2>4, <2>7
    <3>2. pos[j] < pos[k]
      BY <1>5, <2>4, <3>1
    <3> QED BY <2>6, <3>2
  <2>9. pos[j] \in 2..n
    BY <1>5, <2>4
  <2> PICK p : p = pos[j]
    OBVIOUS
  <2>10. p \in Nat /\ p >= 2 /\ p - 1 \in 1..(n - 1) /\ p - 1 < j
    BY ONLY <1>1, <2>4, <2>8, <2>9, p = pos[j]
  <2>11. pos[p - 1] = p /\ pos[p - 1] < p
    <3>1. pos[p - 1] = (p - 1) + 1
      BY <2>5, <2>10
    <3>2. pos[p - 1] < pos[j]
      BY <1>5, <2>4, <2>10
    <3> QED BY <2>10, <3>1, <3>2
  <2> QED BY ONLY <2>10, <2>11
<1>7. \A j \in 1..(n - 1) : rest[j] = list[j + 1]
  BY ONLY <1>3, <1>4, <1>6
<1> QED BY <1>2, <1>3, <1>7

-----------------------------------------------------------------------------
\* The list of messages.

\* Dropping what was the first message: it is the first, or it has gone already.
LEMMA DropEffect ==
  ASSUME NEW n \in Nat, NEW b \in Nat, NEW list \in Seq(Nat), Len(list) = n,
         \A i \in 1..n : list[i] = b + i, NEW m \in 1..(b + 1)
  PROVE  \/ Dropped(list, m) = list
         \/ /\ n # 0 /\ Dropped(list, m) \in Seq(Nat) /\ Len(Dropped(list, m)) = n - 1
            /\ \A j \in 1..(n - 1) : Dropped(list, m)[j] = b + 1 + j
<1>1. list \in Seq(Nat) /\ DOMAIN list = 1..n /\ Len(list) = n
      /\ \A i \in 1..n : list[i] = b + i
  OBVIOUS
<1>2. CASE m \notin Elems(list)
  <2>1. Elems(list) \subseteq Elems(list) \ {m}
    BY <1>2
  <2>2. Keep(list, Elems(list) \ {m}) = list
    BY <1>1, <2>1, KeepAll
  <2> QED BY <2>2 DEF Dropped
<1>3. CASE m \in Elems(list)
  <2>1. PICK i \in 1..n : m = b + i
    BY <1>1, <1>3 DEF Elems
  <2>2. i = 1 /\ n # 0 /\ 1 \in 1..n
    BY <2>1
  <2>3. list[1] = m /\ list # <<>>
    BY <1>1, <2>1, <2>2
  <2>4. NoDuplicates(list)
    BY <1>1 DEF NoDuplicates
  <2> PICK rest : rest = Keep(list, Elems(list) \ {m})
    OBVIOUS
  <2>5. rest \in Seq(Nat) /\ Len(rest) = n - 1
        /\ \A j \in 1..(n - 1) : rest[j] = list[j + 1]
    <3>1. /\ rest \in Seq(Nat) /\ Len(rest) = Len(list) - 1
          /\ \A j \in 1..(Len(list) - 1) : rest[j] = list[j + 1]
      BY ONLY <1>1, <2>3, <2>4, rest = Keep(list, Elems(list) \ {m}), KeepTail
    <3> QED BY <1>1, <3>1
  <2>6. \A j \in 1..(n - 1) : rest[j] = b + 1 + j
    <3>1. \A j \in 1..(n - 1) : j + 1 \in 1..n /\ b + (j + 1) = b + 1 + j
      BY <2>2
    <3> QED BY <1>1, <2>5, <3>1
  <2> QED BY <2>2, <2>5, <2>6 DEF Dropped
<1> QED BY <1>2, <1>3

Trims == {"first", "drop"}

LEMMA BeforeIs ==
  ASSUME ListenInv, MessageInv
  PROVE  /\ Before \in Nat /\ Len(msglist) \in Nat /\ sent \in Nat
         /\ sent = Before + Len(msglist) /\ DOMAIN msglist = 1..Len(msglist)
         /\ \A i \in 1..Len(msglist) : msglist[i] = Before + i
<1>1. sent \in Nat /\ Len(msglist) \in Nat
  BY MessagesAreNumbers DEF ListenInv, Typed
<1>2. Len(msglist) <= sent /\ msglist = [i \in 1..Len(msglist) |-> Before + i]
  BY DEF MessageInv, Consecutive
<1>3. Before \in Nat /\ sent = Before + Len(msglist)
  BY <1>1, <1>2 DEF Before
<1> QED BY <1>1, <1>2, <1>3

LEMMA TrimmingIsFinite ==
  /\ IsFiniteSet(Trimming) /\ Cardinality(Trimming) \in Nat
  /\ Cardinality(Trimming) <= Cardinality(Clients)
<1>1. Trimming \subseteq Clients
  BY DEF Trimming
<1> QED BY <1>1, ListenersAssumption, FS_Subset, FS_CardinalityType

\* A reader that stays where it is stays sound, when the list loses what it had first.
LEMMA StaysSound ==
  ASSUME ListenInv, MessageInv, NEW d \in Clients,
         reader'[d].at = reader[d].at, reader'[d].head = reader[d].head,
         reader'[d].last = reader[d].last, reader'[d].i = reader[d].i,
         Before' \in Nat, Before <= Before'
  PROVE  MessageSound(d)'
<1> PICK b : b = Before
  OBVIOUS
<1> PICK next : next = Before'
  OBVIOUS
<1> PICK r : r = reader[d]
  OBVIOUS
<1>1. b \in Nat /\ next \in Nat /\ b <= next
  BY BeforeIs
<1>2. r.head \in Nat /\ r.last \in Nat /\ r.i \in Int
  BY UseTypes, WhatReadersAre DEF ListenInv
<1>3. /\ r.at = "drop" => r.head \in 1..(b + 1)
      /\ r.at \in {"clip", "start"} => r.last = 0
      /\ r.at \in {"length", "read"} => r.last = 0 \/ r.last < b + r.i
  BY DEF MessageInv, MessageSound, IsAt
<1>4. r.head \in 1..(b + 1) => r.head \in 1..(next + 1)
  BY <1>1, <1>2
<1>5. r.last < b + r.i => r.last < next + r.i
  BY <1>1, <1>2
<1>6. /\ r.at = "drop" => r.head \in 1..(next + 1)
      /\ r.at \in {"clip", "start"} => r.last = 0
      /\ r.at \in {"length", "read"} => r.last = 0 \/ r.last < next + r.i
  BY <1>3, <1>4, <1>5
<1>7. /\ reader'[d].at = r.at /\ reader'[d].head = r.head /\ reader'[d].last = r.last
      /\ reader'[d].i = r.i /\ Before' = next
  OBVIOUS
<1> QED BY ONLY <1>6, <1>7 DEF MessageSound, IsAt

\* Whatever leaves the messages alone, and everybody where he is.
LEMMA NoMessageStep ==
  ASSUME ListenInv, MessageInv, UNCHANGED messages,
         \A d \in Clients : /\ reader'[d].at = reader[d].at /\ reader'[d].head = reader[d].head
                            /\ reader'[d].last = reader[d].last /\ reader'[d].i = reader[d].i
  PROVE  MessageInv'
<1>1. msglist' = msglist /\ sent' = sent
  BY DEF messages
<1>2. Before' = Before /\ Trimming' = Trimming
  BY <1>1 DEF Before, Trimming
<1>3. Before \in Nat
  BY BeforeIs
<1>4. \A d \in Clients : MessageSound(d)'
  BY <1>2, <1>3, StaysSound
<1>5. Consecutive' /\ Kept'
  BY <1>1, <1>2 DEF MessageInv, Consecutive, Kept
<1> QED BY <1>4, <1>5 DEF MessageInv

\* A step of one reader that leaves the messages alone.
LEMMA ReaderMessageStep ==
  ASSUME ListenInv, MessageInv, NEW c \in Clients, NEW r \in ReaderState, Goes(c, r),
         UNCHANGED messages, reader[c].at \notin Trims, r.at \notin Trims,
         r.at \in {"clip", "start"} => r.last = 0,
         r.at \in {"length", "read"} => r.last = 0 \/ r.last < Before + r.i
  PROVE  MessageInv'
<1>1. msglist' = msglist /\ sent' = sent
  BY DEF messages
<1>2. reader'[c] = r /\ \A d \in Clients \ {c} : reader'[d] = reader[d]
  BY ReaderGoes DEF ListenInv, Typed
<1>3. Before' = Before /\ Before \in Nat
  BY <1>1, BeforeIs DEF Before
<1>4. Trimming' = Trimming
  BY <1>2 DEF Trimming, Trims
<1>5. MessageSound(c)'
  BY <1>2, <1>3 DEF MessageSound, IsAt, Trims
<1>6. \A d \in Clients \ {c} : MessageSound(d)'
  BY <1>2, <1>3, StaysSound
<1>7. Consecutive' /\ Kept'
  BY <1>1, <1>3, <1>4 DEF MessageInv, Consecutive, Kept
<1> QED BY <1>5, <1>6, <1>7 DEF MessageInv

\* The readers which neither trim nor hand out.
LEMMA ListenersLeaveMessages ==
  ASSUME ListenInv, MessageInv, NEW c \in Clients,
         \/ ListenerServer(c) \/ CreateArray(c) \/ LookUp(c) \/ PushListener(c)
         \/ TellListener(c) \/ Notify(c) \/ TellNext(c) \/ EndOfRange(c)
  PROVE  MessageInv'
<1>1. UNCHANGED messages
  BY DEF ListenerServer, CreateArray, LookUp, PushListener, TellListener, Notify, TellNext,
         EndOfRange, Ranges
<1>2. reader[c] \in ReaderState /\ reader'[c] \in ReaderState
  <2>1. ReadersTyped'
    BY ListenerServerKeeps, CreateArrayKeeps, LookUpKeeps, PushListenerKeeps,
       TellListenerKeeps, QuietKeeps DEF Quiet
  <2> QED BY <2>1 DEF ListenInv, Typed, ReadersTyped
<1>3. Goes(c, reader'[c])
  <2>1. \E r : Goes(c, r)
    BY DEF ListenerServer, CreateArray, LookUp, PushListener, TellListener, Notify, TellNext,
           EndOfRange, Ranges
  <2> QED BY <2>1 DEF Goes, ListenInv, Typed, ReadersTyped
<1>4. reader[c].at \in {"idle", "create", "look", "push", "tell", "notify", "range"}
  BY DEF ListenerServer, CreateArray, LookUp, PushListener, TellListener, Notify, TellNext,
         EndOfRange, Ranges, IsAt, Handles
<1>5. reader'[c].at \in {"idle", "create", "look", "push", "tell", "range"}
  <2>1. Idle \in ReaderState /\ Idle.at = "idle"
    BY IdleState
  <2>2. \A r : Goes(c, r) => reader'[c] = r
    BY DEF Goes, ListenInv, Typed, ReadersTyped
  <2>3. CASE ListenerServer(c)
    BY <2>1, <2>2, <2>3 DEF ListenerServer, ReaderState
  <2>4. CASE CreateArray(c)
    BY <2>1, <2>2, <2>4 DEF CreateArray, ReaderState
  <2>5. CASE LookUp(c) \/ PushListener(c)
    BY <1>2, <2>2, <2>5 DEF LookUp, PushListener, ReaderState
  <2>6. CASE TellListener(c) \/ EndOfRange(c)
    BY <2>1, <2>2, <2>6 DEF TellListener, EndOfRange
  <2>7. CASE Notify(c)
    <3>1. CASE arrayOf = NoClient
      BY <2>1, <2>2, <2>7, <3>1 DEF Notify
    <3>2. CASE arrayOf # NoClient
      <4> PICK r : r = [Idle EXCEPT !.at = "range", !.arr = arrayOf,
                               !.cap = size[arrayOf].cap, !.i = 1,
                               !.end = size[arrayOf].len, !.due = Listed \ {c}]
        OBVIOUS
      <4>1. reader'[c] = r
        BY <2>2, <2>7, <3>2 DEF Notify
      <4>2. r.at = "range"
        BY DEF Idle
      <4> QED BY <4>1, <4>2
    <3> QED BY <3>1, <3>2
  <2>8. CASE TellNext(c)
    <3> PICK was : was = reader[c]
      OBVIOUS
    <3> PICK x : x = slots[was.arr][was.cap][was.i]
      OBVIOUS
    <3> PICK r : r = [was EXCEPT !.i = @ + 1, !.told[x] = IF x = c THEN @ ELSE @ + 1]
      OBVIOUS
    <3>1. reader'[c] = r /\ was.at = "range"
      BY <2>2, <2>8 DEF TellNext, Ranges, IsAt
    <3>2. r.at = was.at
      BY <1>2 DEF ReaderState
    <3> QED BY <3>1, <3>2
  <2> QED BY <2>3, <2>4, <2>5, <2>6, <2>7, <2>8
<1> QED BY <1>1, <1>2, <1>3, <1>4, <1>5, ReaderMessageStep DEF Trims

\* The readers which hand out the history.
LEMMA HistoryKeeps ==
  ASSUME ListenInv, MessageInv, NEW c \in Clients,
         \/ GetServerOldMsg(c) \/ ClipCounts(c) \/ FirstPlace(c) \/ LookAtLength(c)
         \/ HandOut(c)
  PROVE  MessageInv'
<1> PICK was : was = reader[c]
  OBVIOUS
<1>1. UNCHANGED messages
  BY DEF GetServerOldMsg, ClipCounts, FirstPlace, LookAtLength, HandOut, Asks
<1>2. was \in ReaderState /\ reader'[c] \in ReaderState
  <2>1. ReadersTyped'
    BY QuietKeeps DEF Quiet
  <2> QED BY <2>1 DEF ListenInv, Typed, ReadersTyped
<1>3. \A r : Goes(c, r) => reader'[c] = r
  BY DEF Goes, ListenInv, Typed, ReadersTyped
<1>4. Goes(c, reader'[c])
  <2>1. \E r : Goes(c, r)
    BY DEF GetServerOldMsg, ClipCounts, FirstPlace, LookAtLength, HandOut
  <2> QED BY <1>3, <2>1
<1>5. Idle \in ReaderState /\ Idle.at = "idle" /\ Idle.last = 0
  BY IdleState
<1>6. was.at \in {"idle", "clip", "start", "length", "read"}
  BY DEF GetServerOldMsg, ClipCounts, FirstPlace, LookAtLength, HandOut, IsAt, Handles
<1>7. /\ was.at = "start" => was.last = 0
      /\ was.at \in {"length", "read"} => was.last = 0 \/ was.last < Before + was.i
  BY DEF MessageInv, MessageSound
<1> DEFINE Sound(r) == /\ r.at \notin Trims
                       /\ r.at \in {"clip", "start"} => r.last = 0
                       /\ r.at \in {"length", "read"} => r.last = 0 \/ r.last < Before + r.i
<1>8. Sound(Idle)
  BY <1>5 DEF Trims
<1>9. CASE GetServerOldMsg(c)
  <2>1. PICK n \in 1..(MaxMessages + 1) :
               Goes(c, IF n > Len(msglist) THEN [Idle EXCEPT !.at = "clip"]
                       ELSE [Idle EXCEPT !.at = "start", !.counts = n])
    BY <1>9 DEF GetServerOldMsg
  <2> PICK r : r = IF n > Len(msglist) THEN [Idle EXCEPT !.at = "clip"]
                   ELSE [Idle EXCEPT !.at = "start", !.counts = n]
    OBVIOUS
  <2>2. r.at \in {"clip", "start"} /\ r.last = 0
    BY DEF Idle
  <2>3. reader'[c] = r
    BY <1>3, <2>1
  <2>4. Sound(reader'[c])
    BY <2>2, <2>3 DEF Trims
  <2> QED BY <1>1, <1>2, <1>4, <1>6, <2>4, ReaderMessageStep DEF Trims
<1>10. CASE ClipCounts(c)
  <2>1. CASE msglist = <<>>
    <3>1. reader'[c] = Idle
      BY <1>3, <1>10, <2>1 DEF ClipCounts
    <3>2. Sound(reader'[c])
      BY <1>8, <3>1
    <3> QED BY <1>1, <1>2, <1>4, <1>6, <3>2, ReaderMessageStep DEF Trims
  <2>2. CASE msglist # <<>>
    <3> PICK r : r = [Idle EXCEPT !.at = "start", !.counts = Len(msglist)]
      OBVIOUS
    <3>1. reader'[c] = r
      BY <1>3, <1>10, <2>2 DEF ClipCounts
    <3>2. r.at = "start" /\ r.last = 0
      BY DEF Idle
    <3>3. Sound(reader'[c])
      BY <3>1, <3>2 DEF Trims
    <3> QED BY <1>1, <1>2, <1>4, <1>6, <3>3, ReaderMessageStep DEF Trims
  <2> QED BY <2>1, <2>2
<1>11. CASE FirstPlace(c)
  <2> PICK r : r = [was EXCEPT !.at = "length", !.i = Len(msglist) - was.counts + 1]
    OBVIOUS
  <2>1. reader'[c] = r /\ was.at = "start"
    BY <1>3, <1>11 DEF FirstPlace, IsAt
  <2>2. r.at = "length" /\ r.last = was.last
    BY <1>2 DEF ReaderState
  <2>3. Sound(reader'[c])
    BY <1>7, <2>1, <2>2 DEF Trims
  <2> QED BY <1>1, <1>2, <1>4, <1>6, <2>3, ReaderMessageStep DEF Trims
<1>12. CASE LookAtLength(c)
  <2>1. CASE was.i <= Len(msglist)
    <3> PICK r : r = [was EXCEPT !.at = "read"]
      OBVIOUS
    <3>1. reader'[c] = r /\ was.at = "length"
      BY <1>3, <1>12, <2>1 DEF LookAtLength, IsAt
    <3>2. r.at = "read" /\ r.last = was.last /\ r.i = was.i
      BY <1>2 DEF ReaderState
    <3>3. Sound(reader'[c])
      BY <1>7, <3>1, <3>2 DEF Trims
    <3> QED BY <1>1, <1>2, <1>4, <1>6, <3>3, ReaderMessageStep DEF Trims
  <2>2. CASE ~(was.i <= Len(msglist))
    <3>1. reader'[c] = Idle
      BY <1>3, <1>12, <2>2 DEF LookAtLength
    <3>2. Sound(reader'[c])
      BY <1>8, <3>1
    <3> QED BY <1>1, <1>2, <1>4, <1>6, <3>2, ReaderMessageStep DEF Trims
  <2> QED BY <2>1, <2>2
<1>13. CASE HandOut(c)
  <2>1. CASE was.i \in DOMAIN msglist
    <3> PICK r : r = [was EXCEPT !.at = "length", !.i = @ + 1, !.last = msglist[was.i]]
      OBVIOUS
    <3>1. reader'[c] = r
      BY <1>3, <1>13, <2>1 DEF HandOut
    <3>2. r.at = "length" /\ r.last = msglist[was.i] /\ r.i = was.i + 1
      BY <1>2 DEF ReaderState
    <3>3. msglist[was.i] = Before + was.i /\ was.i \in Int /\ Before \in Nat
      BY <2>1, BeforeIs
    <3>4. r.last < Before + r.i
      BY <3>2, <3>3
    <3>5. Sound(reader'[c])
      BY <3>1, <3>2, <3>4 DEF Trims
    <3> QED BY <1>1, <1>2, <1>4, <1>6, <3>5, ReaderMessageStep DEF Trims
  <2>2. CASE was.i \notin DOMAIN msglist
    <3> PICK r : r = [Idle EXCEPT !.at = "ended"]
      OBVIOUS
    <3>1. reader'[c] = r
      BY <1>3, <1>13, <2>2 DEF HandOut
    <3>2. r.at = "ended"
      BY DEF Idle
    <3>3. Sound(reader'[c])
      BY <3>1, <3>2 DEF Trims
    <3> QED BY <1>1, <1>2, <1>4, <1>6, <3>3, ReaderMessageStep DEF Trims
  <2> QED BY <2>1, <2>2
<1> QED BY <1>9, <1>10, <1>11, <1>12, <1>13

\* One more message: nothing is taken away.
LEMMA SendKeeps ==
  ASSUME ListenInv, MessageInv, NEW c \in Clients, SendServerMsg(c)
  PROVE  MessageInv'
<1> PICK n : n = Len(msglist)
  OBVIOUS
<1> PICK b : b = Before
  OBVIOUS
<1> PICK r : r = [Idle EXCEPT !.at = "count"]
  OBVIOUS
<1>1. /\ sent' = sent + 1 /\ msglist' = Append(msglist, sent + 1) /\ Goes(c, r)
      /\ reader[c].at = "idle"
  BY DEF SendServerMsg, Pushed, Handles, IsAt
<1>2. /\ b \in Nat /\ n \in Nat /\ sent \in Nat /\ sent = b + n
      /\ \A i \in 1..n : msglist[i] = b + i
  BY BeforeIs
<1>3. msglist \in Seq(1..sent)
  BY DEF ListenInv, Typed, RestTyped
<1>4. r \in ReaderState /\ r.at = "count"
  BY IdleState DEF ReaderState, Labels
<1>5. reader'[c] = r /\ \A d \in Clients \ {c} : reader'[d] = reader[d]
  BY <1>1, <1>4, ReaderGoes DEF ListenInv, Typed
<1>6. Len(msglist') = n + 1 /\ DOMAIN msglist' = 1..(n + 1)
      /\ \A i \in 1..(n + 1) : msglist'[i] = b + i
  <2>1. /\ Len(msglist') = n + 1 /\ msglist'[n + 1] = sent + 1
        /\ DOMAIN msglist' = 1..(n + 1)
        /\ \A i \in 1..n : msglist'[i] = msglist[i]
    BY ONLY <1>1, <1>3, n = Len(msglist)
  <2>2. \A i \in 1..(n + 1) : i \in 1..n \/ i = n + 1
    BY <1>2
  <2>3. sent + 1 = b + (n + 1)
    BY <1>2
  <2> QED BY <1>2, <2>1, <2>2, <2>3
<1>7. Before' = b
  BY <1>1, <1>2, <1>6 DEF Before
<1>8. Consecutive'
  <2>1. msglist' = [i \in 1..(n + 1) |-> msglist'[i]]
    BY <1>1, <1>3, <1>6
  <2>2. msglist' = [i \in 1..(n + 1) |-> b + i]
    BY ONLY <1>6, <2>1
  <2>3. n + 1 <= sent + 1
    BY <1>2
  <2> QED BY <1>1, <1>6, <1>7, <2>2, <2>3 DEF Consecutive
<1>9. Trimming' = Trimming
  BY <1>1, <1>4, <1>5 DEF Trimming
<1>10. Kept'
  <2>1. Kept /\ Cardinality(Trimming) \in Nat /\ Cardinality(Clients) \in Nat
    BY TrimmingIsFinite, CapsAreNumbers DEF MessageInv
  <2> PICK k : k = Cardinality(Trimming)
    OBVIOUS
  <2>2. n = sent => n + 1 = sent + 1
    OBVIOUS
  <2>3. n - k > MaxMessages - Cardinality(Clients) =>
          (n + 1) - k > MaxMessages - Cardinality(Clients)
    BY <1>2, <2>1, ListenersAssumption
  <2> QED BY <1>1, <1>6, <1>9, <2>1, <2>2, <2>3 DEF Kept
<1>11. MessageSound(c)'
  BY <1>4, <1>5 DEF MessageSound, IsAt
<1>12. \A d \in Clients \ {c} : MessageSound(d)'
  BY <1>2, <1>5, <1>7, StaysSound
<1> QED BY <1>8, <1>10, <1>11, <1>12 DEF MessageInv

LEMMA CountKeeps ==
  ASSUME ListenInv, MessageInv, NEW c \in Clients, CountMessages(c)
  PROVE  MessageInv'
<1> PICK was : was = reader[c]
  OBVIOUS
<1> PICK n : n = Len(msglist)
  OBVIOUS
<1> PICK r : r = [was EXCEPT !.at = IF TooMany(msglist) THEN "first" ELSE "notify"]
  OBVIOUS
<1>1. UNCHANGED messages /\ Goes(c, r) /\ was.at = "count"
  BY DEF CountMessages, IsAt
<1>2. was \in ReaderState
  BY UseTypes DEF ListenInv
<1>3. r \in ReaderState /\ r.at = IF TooMany(msglist) THEN "first" ELSE "notify"
  BY <1>2 DEF ReaderState, Labels
<1>4. CASE ~TooMany(msglist)
  <2>1. r.at = "notify"
    BY <1>3, <1>4
  <2> QED BY <1>1, <1>3, <2>1, ReaderMessageStep DEF Trims
<1>5. CASE TooMany(msglist)
  <2>1. reader'[c] = r /\ \A d \in Clients \ {c} : reader'[d] = reader[d]
    BY <1>1, <1>3, ReaderGoes DEF ListenInv, Typed
  <2>2. msglist' = msglist /\ sent' = sent
    BY <1>1 DEF messages
  <2>3. Before' = Before /\ Before \in Nat /\ n \in Nat
    BY <2>2, BeforeIs DEF Before
  <2>4. MessageSound(c)'
    BY <1>3, <1>5, <2>1 DEF MessageSound, IsAt
  <2>5. \A d \in Clients \ {c} : MessageSound(d)'
    BY <2>1, <2>3, StaysSound
  <2>6. Consecutive'
    BY <2>2, <2>3 DEF MessageInv, Consecutive
  <2>7. Kept'
    <3> PICK k : k = Cardinality(Trimming')
      OBVIOUS
    <3> PICK all : all = Cardinality(Clients)
      OBVIOUS
    <3>1. k \in Nat /\ all \in Nat /\ k <= all
      <4>1. Trimming' \subseteq Clients
        BY DEF Trimming
      <4> QED BY <4>1, ListenersAssumption, FS_Subset, FS_CardinalityType
    <3>2. n > MaxMessages /\ MaxMessages \in Nat
      BY <1>5, ListenersAssumption DEF TooMany
    <3>3. n - k > MaxMessages - all
      BY ONLY <2>3, <3>1, <3>2
    <3> QED BY <2>2, <3>3 DEF Kept
  <2> QED BY <2>4, <2>5, <2>6, <2>7 DEF MessageInv
<1> QED BY <1>4, <1>5

LEMMA TakeFirstKeeps ==
  ASSUME ListenInv, MessageInv, NEW c \in Clients, TakeFirst(c)
  PROVE  MessageInv'
<1> PICK was : was = reader[c]
  OBVIOUS
<1> PICK n : n = Len(msglist)
  OBVIOUS
<1> PICK b : b = Before
  OBVIOUS
<1> PICK r : r = IF msglist = <<>> THEN [Idle EXCEPT !.at = "ended"]
                 ELSE [was EXCEPT !.at = "drop", !.head = msglist[1]]
  OBVIOUS
<1>1. UNCHANGED messages /\ Goes(c, r) /\ was.at = "first"
  BY DEF TakeFirst, IsAt
<1>2. was \in ReaderState
  BY UseTypes DEF ListenInv
<1>3. /\ b \in Nat /\ n \in Nat /\ DOMAIN msglist = 1..n
      /\ \A i \in 1..n : msglist[i] = b + i
  BY BeforeIs
<1>4. msglist # <<>> => msglist[1] = b + 1
  <2>1. msglist # <<>> => 1 \in 1..n
    BY <1>3, MessagesAreNumbers DEF ListenInv, Typed
  <2> QED BY <1>3, <2>1
<1>5. r \in ReaderState /\ (r.at = "ended" \/ (r.at = "drop" /\ r.head = b + 1))
  <2>1. CASE msglist = <<>>
    BY <2>1, IdleState DEF ReaderState, Labels
  <2>2. CASE msglist # <<>>
    <3> PICK m : m = msglist[1]
      OBVIOUS
    <3>1. m = b + 1 /\ m \in Nat
      BY <1>3, <1>4, <2>2
    <3>2. r = [was EXCEPT !.at = "drop", !.head = m]
      BY <2>2
    <3> QED BY ONLY <1>2, <3>1, <3>2 DEF ReaderState, Labels
  <2> QED BY <2>1, <2>2
<1>6. reader'[c] = r /\ \A d \in Clients \ {c} : reader'[d] = reader[d]
  BY <1>1, <1>5, ReaderGoes DEF ListenInv, Typed
<1>7. msglist' = msglist /\ sent' = sent
  BY <1>1 DEF messages
<1>8. Before' = b
  BY <1>7 DEF Before
<1>9. MessageSound(c)'
  <2>1. b + 1 \in 1..(b + 1)
    BY <1>3
  <2> QED BY <1>5, <1>6, <1>8, <2>1 DEF MessageSound, IsAt
<1>10. \A d \in Clients \ {c} : MessageSound(d)'
  BY <1>3, <1>6, <1>8, StaysSound
<1>11. Consecutive'
  BY <1>7, <1>8 DEF MessageInv, Consecutive
<1>12. Kept'
  <2>1. Trimming' \subseteq Trimming /\ c \in Trimming
    BY <1>1, <1>6 DEF Trimming
  <2> PICK k : k = Cardinality(Trimming)
    OBVIOUS
  <2> PICK next : next = Cardinality(Trimming')
    OBVIOUS
  <2>2. k \in Nat /\ next \in Nat /\ next <= k
    BY <2>1, TrimmingIsFinite, FS_Subset, FS_CardinalityType
  <2>3. n - k > MaxMessages - Cardinality(Clients)
    BY <2>1 DEF MessageInv, Kept
  <2>4. n - next > MaxMessages - Cardinality(Clients)
    BY <1>3, <2>2, <2>3, ListenersAssumption, CapsAreNumbers
  <2> QED BY <1>7, <2>4 DEF Kept
<1> QED BY <1>9, <1>10, <1>11, <1>12 DEF MessageInv

\* The one who trims takes at most the one message which he has still to take.
LEMMA DropKeeps ==
  ASSUME ListenInv, MessageInv, NEW c \in Clients, DropMessage(c)
  PROVE  MessageInv'
<1> PICK was : was = reader[c]
  OBVIOUS
<1> PICK n : n = Len(msglist)
  OBVIOUS
<1> PICK b : b = Before
  OBVIOUS
<1> PICK r : r = [was EXCEPT !.at = "notify", !.head = 0]
  OBVIOUS
<1>1. /\ msglist' = Dropped(msglist, was.head) /\ sent' = sent /\ Goes(c, r)
      /\ was.at = "drop"
  BY DEF DropMessage, IsAt
<1>2. was \in ReaderState
  BY UseTypes DEF ListenInv
<1>3. /\ b \in Nat /\ n \in Nat /\ sent \in Nat /\ sent = b + n
      /\ msglist = [i \in 1..n |-> b + i]
  BY BeforeIs DEF MessageInv, Consecutive
<1>4. r \in ReaderState /\ r.at = "notify"
  BY <1>2 DEF ReaderState, Labels
<1>5. reader'[c] = r /\ \A d \in Clients \ {c} : reader'[d] = reader[d]
  BY <1>1, <1>4, ReaderGoes DEF ListenInv, Typed
<1>6. was.head \in 1..(b + 1)
  BY <1>1 DEF MessageInv, MessageSound, IsAt
<1>7. PICK taken \in {0, 1} : /\ taken <= n /\ Len(msglist') = n - taken
                              /\ msglist' = [i \in 1..(n - taken) |-> b + taken + i]
  <2> PICK list : list = msglist
    OBVIOUS
  <2> PICK next : next = msglist'
    OBVIOUS
  <2> PICK m : m = was.head
    OBVIOUS
  <2>1. \/ next = list
        \/ /\ n # 0 /\ next \in Seq(Nat) /\ Len(next) = n - 1
           /\ \A j \in 1..(n - 1) : next[j] = b + 1 + j
    <3>1. /\ n \in Nat /\ b \in Nat /\ list \in Seq(Nat) /\ Len(list) = n
          /\ \A i \in 1..n : list[i] = b + i
          /\ m \in 1..(b + 1)
      BY <1>3, <1>6
    <3>2. next = Dropped(list, m)
      BY <1>1
    <3>3. \/ Dropped(list, m) = list
          \/ /\ n # 0 /\ Dropped(list, m) \in Seq(Nat) /\ Len(Dropped(list, m)) = n - 1
             /\ \A j \in 1..(n - 1) : Dropped(list, m)[j] = b + 1 + j
      BY ONLY <3>1, DropEffect, Zenon
    <3> QED BY ONLY <3>2, <3>3
  <2>2. CASE msglist' = msglist
    <3>1. n - 0 = n /\ 0 <= n /\ b + 0 = b
      BY <1>3
    <3>2. Len(msglist') = n - 0 /\ msglist' = [i \in 1..(n - 0) |-> b + 0 + i]
      BY <1>3, <2>2, <3>1
    <3> QED BY <3>1, <3>2
  <2>3. CASE n # 0 /\ msglist' = [i \in 1..(n - 1) |-> b + 1 + i]
    <3>1. n - 1 \in Nat /\ 1 <= n
      BY <1>3, <2>3
    <3>2. Len(msglist') = n - 1
      BY ONLY <2>3, <3>1
    <3> QED BY <2>3, <3>1, <3>2
  <2>4. ASSUME n # 0, next \in Seq(Nat), Len(next) = n - 1,
               \A j \in 1..(n - 1) : next[j] = b + 1 + j
        PROVE  next = [i \in 1..(n - 1) |-> b + 1 + i]
    <3>1. next = [j \in 1..(n - 1) |-> next[j]]
      BY ONLY <2>4
    <3> QED BY ONLY <2>4, <3>1
  <2> QED BY <2>1, <2>2, <2>3, <2>4
<1>8. Before' = b + taken /\ b + taken \in Nat /\ b <= b + taken /\ n - taken \in Nat
  BY <1>1, <1>3, <1>7 DEF Before
<1>9. Consecutive'
  <2>1. n - taken <= sent
    BY <1>3, <1>7
  <2> QED BY <1>1, <1>7, <1>8, <2>1 DEF Consecutive
<1>10. Kept'
  <2>1. c \in Trimming /\ Trimming' = Trimming \ {c}
    BY <1>1, <1>4, <1>5 DEF Trimming
  <2> PICK k : k = Cardinality(Trimming)
    OBVIOUS
  <2>2. Cardinality(Trimming') = k - 1 /\ k \in Nat
    BY <2>1, TrimmingIsFinite, FS_RemoveElement
  <2>3. n - k > MaxMessages - Cardinality(Clients)
    BY <2>1 DEF MessageInv, Kept
  <2>4. (n - taken) - (k - 1) > MaxMessages - Cardinality(Clients)
    <3>1. MaxMessages \in Nat /\ Cardinality(Clients) \in Nat
      BY ListenersAssumption, CapsAreNumbers
    <3> QED BY <1>3, <1>7, <2>2, <2>3, <3>1
  <2> QED BY <1>7, <2>2, <2>4 DEF Kept
<1>11. MessageSound(c)'
  BY <1>4, <1>5 DEF MessageSound, IsAt
<1>12. \A d \in Clients \ {c} : MessageSound(d)'
  BY <1>3, <1>5, <1>8, StaysSound
<1> QED BY <1>9, <1>10, <1>11, <1>12 DEF MessageInv

LEMMA MessageStep ==
  ASSUME ListenInv, MessageInv, [ListenNext]_listenVars
  PROVE  MessageInv'
<1>1. CASE UNCHANGED listenVars
  <2>1. UNCHANGED messages /\ reader' = reader
    BY <1>1 DEF listenVars, messages
  <2> QED BY <2>1, NoMessageStep
<1>2. CASE ListenNext
  <2>1. PICK c \in Clients :
          \/ ListenerServer(c) \/ CreateArray(c) \/ LookUp(c) \/ PushListener(c)
          \/ TellListener(c) \/ CannelListenerServer(c) \/ RemoveAllListeners(c) \/ Quiet(c)
    BY <1>2 DEF ListenNext, Quiet
  <2>2. CASE CannelListenerServer(c) \/ RemoveAllListeners(c)
    <3>1. UNCHANGED messages /\ Remove(arrayOf, c, reader)
      BY <2>2 DEF CannelListenerServer, RemoveAllListeners
    <3>2. \A d \in Clients :
            /\ reader'[d].at = reader[d].at /\ reader'[d].head = reader[d].head
            /\ reader'[d].last = reader[d].last /\ reader'[d].i = reader[d].i
      BY <3>1, ReadersStay DEF ListenInv, Typed
    <3> QED BY <3>1, <3>2, NoMessageStep
  <2>3. CASE Quiet(c)
    BY <2>3, SendKeeps, CountKeeps, TakeFirstKeeps, DropKeeps, ListenersLeaveMessages,
       HistoryKeeps DEF Quiet
  <2> QED BY <2>1, <2>2, <2>3, ListenersLeaveMessages
<1> QED BY <1>1, <1>2

LEMMA MessageInit ==
  ASSUME ListenInit
  PROVE  MessageInv
<1>1. PICK n \in 0..MaxMessages : msglist = [i \in 1..n |-> i] /\ sent = n
  BY DEF ListenInit
<1>2. n \in Nat
  BY ListenersAssumption
<1>3. Len(msglist) = n
  BY <1>1, <1>2
<1>4. Before = 0
  BY <1>1, <1>2, <1>3 DEF Before
<1>5. Consecutive
  <2>1. [i \in 1..n |-> i] = [i \in 1..n |-> 0 + i]
    BY <1>2
  <2> QED BY <1>1, <1>2, <1>3, <1>4, <2>1 DEF Consecutive
<1>6. \A c \in Clients : reader[c].at = "idle"
  BY IdleState DEF ListenInit
<1>7. Kept
  BY <1>1, <1>3, <1>6 DEF Kept, Trimming
<1>8. \A c \in Clients : MessageSound(c)
  BY <1>6 DEF MessageSound, IsAt
<1> QED BY <1>5, <1>7, <1>8 DEF MessageInv

LEMMA MessageInvariance == ListenSpec => [](ListenInv /\ MessageInv)
<1>1. ListenInit => ListenInv /\ MessageInv
  BY ListenInitInv, MessageInit
<1>2. ListenInv /\ MessageInv /\ [ListenNext]_listenVars => (ListenInv /\ MessageInv)'
  BY ListenStep, MessageStep
<1> QED BY <1>1, <1>2, PTL DEF ListenSpec

\* The types hold, and the list of messages is a run of those sent up to the latest,
\* at most one short of the number kept for each reader, whoever pushes while others
\* trim: for any number of clients and of messages kept.
THEOREM LatestAreKept == ListenSpec => []LatestKept
<1>1. ASSUME ListenInv, MessageInv
      PROVE  LatestKept
  <2>1. ASSUME NEW a \in Clients
        PROVE  /\ size[a].cap \in Caps /\ size[a].len \in 0..size[a].cap
               /\ Elems(List(a)) \subseteq Clients
    <3>1. ArrayTyped(a) /\ size[a].cap \in Caps
      BY <1>1 DEF ListenInv, Typed, ArraysTyped
    <3>2. List(a) \in Seq(Clients)
      BY <3>1, ListIs
    <3> QED BY <3>1, <3>2 DEF ArrayTyped, Elems
  <2>2. \A c \in Clients : reader[c].at \in Labels /\ reader[c].due \subseteq Clients
    BY <1>1, UseTypes, WhatReadersAre DEF ListenInv
  <2>3. ListenTypeOK
    BY <1>1, <2>1, <2>2 DEF ListenTypeOK, ListenInv, Typed, ArraysTyped, RestTyped, Someone
  <2>4. msglist = [i \in 1..Len(msglist) |-> sent - Len(msglist) + i]
    BY <1>1 DEF MessageInv, Consecutive, Before
  <2>5. Len(msglist) = sent \/ Len(msglist) > MaxMessages - Cardinality(Clients)
    <3> PICK k : k = Cardinality(Trimming)
      OBVIOUS
    <3>1. k \in Nat /\ Len(msglist) \in Nat /\ MaxMessages \in Nat
          /\ Cardinality(Clients) \in Nat
      BY <1>1, TrimmingIsFinite, BeforeIs, ListenersAssumption, CapsAreNumbers
    <3>2. Len(msglist) = sent \/ Len(msglist) - k > MaxMessages - Cardinality(Clients)
      BY <1>1 DEF MessageInv, Kept
    <3> QED BY ONLY <3>1, <3>2
  <2> QED BY <2>3, <2>4, <2>5 DEF LatestKept
<1> QED BY <1>1, MessageInvariance, PTL

\* No message is handed out twice, nor after a later one, in one answer, whatever is sent
\* and trimmed between two looks at the list.
THEOREM HistoryIsInOrder == ListenSpec => HistoryInOrder
<1>1. ASSUME ListenInv, MessageInv, [ListenNext]_listenVars
      PROVE  [\A c \in Clients :
                IsAt(c, "read") /\ reader'[c].at = "length" =>
                  reader'[c].last > reader[c].last]_listenVars
  <2> SUFFICES ASSUME ListenNext, NEW d \in Clients, reader[d].at = "read",
                      reader'[d].at = "length"
               PROVE  reader'[d].last > reader[d].last
    BY <1>1 DEF IsAt
  <2> PICK was : was = reader[d]
    OBVIOUS
  <2>1. was \in ReaderState /\ was.i \in Int /\ was.last \in Nat
    BY <1>1, UseTypes, WhatReadersAre DEF ListenInv
  <2>2. \A c \in Clients : \A r : Goes(c, r) /\ c # d => reader'[d] = reader[d]
    BY <1>1 DEF Goes, ListenInv, Typed, ReadersTyped
  <2>3. HandOut(d)
    <3>1. PICK c \in Clients :
            \/ ListenerServer(c) \/ CreateArray(c) \/ LookUp(c) \/ PushListener(c)
            \/ TellListener(c) \/ CannelListenerServer(c) \/ RemoveAllListeners(c) \/ Quiet(c)
      BY DEF ListenNext, Quiet
    <3>2. ~(CannelListenerServer(c) \/ RemoveAllListeners(c))
      <4>1. Remove(arrayOf, c, reader) => reader'[d].at = reader[d].at
        BY <1>1, ReadersStay DEF ListenInv, Typed
      <4> QED BY <4>1 DEF CannelListenerServer, RemoveAllListeners
    <3>3. \E r : Goes(c, r)
      BY <3>1, <3>2 DEF ListenerServer, CreateArray, LookUp, PushListener, TellListener,
         Quiet, SendServerMsg, CountMessages, TakeFirst, DropMessage, Notify, TellNext,
         EndOfRange, GetServerOldMsg, ClipCounts, FirstPlace, LookAtLength, HandOut
    <3>4. c = d
      BY <2>2, <3>3
    <3> QED BY <3>1, <3>2, <3>4 DEF ListenerServer, CreateArray, LookUp, PushListener,
         TellListener, Quiet, SendServerMsg, CountMessages, TakeFirst, DropMessage, Notify,
         TellNext, EndOfRange, Ranges, GetServerOldMsg, ClipCounts, FirstPlace,
         LookAtLength, Handles, IsAt
  <2>4. was.i \in DOMAIN msglist
    <3>1. ASSUME was.i \notin DOMAIN msglist
          PROVE  reader'[d].at = "ended"
      <4>1. Goes(d, [Idle EXCEPT !.at = "ended"])
        BY <2>3, <3>1 DEF HandOut
      <4>2. reader'[d] = [Idle EXCEPT !.at = "ended"]
        BY <1>1, <4>1 DEF Goes, ListenInv, Typed, ReadersTyped
      <4> QED BY <4>2 DEF Idle
    <3> QED BY <3>1
  <2>5. reader'[d].last = msglist[was.i]
    <3> PICK r : r = [was EXCEPT !.at = "length", !.i = @ + 1, !.last = msglist[was.i]]
      OBVIOUS
    <3>1. reader'[d] = r
      BY <1>1, <2>3, <2>4 DEF HandOut, Goes, ListenInv, Typed, ReadersTyped
    <3>2. r.last = msglist[was.i]
      BY <2>1 DEF ReaderState
    <3> QED BY <3>1, <3>2
  <2>6. /\ Before \in Nat /\ was.i >= 1 /\ msglist[was.i] = Before + was.i
    BY <1>1, <2>4, BeforeIs
  <2>7. was.last = 0 \/ was.last < Before + was.i
    BY <1>1 DEF MessageInv, MessageSound
  <2>8. Before + was.i > was.last
    BY ONLY <2>1, <2>6, <2>7
  <2> QED BY <2>5, <2>6, <2>8
<1> QED BY <1>1, MessageInvariance, PTL DEF ListenSpec, HistoryInOrder

-----------------------------------------------------------------------------
\* Notices.

\* What a sound notice says, of whatever reader and memory.
Owes(r, mem, s, d) ==
  r.told[d] >= 1 \/ \E j \in r.i..r.end : mem[j] = d /\ (r.cap = s.cap => j <= s.len)

SoundFor(c, r, mem, s) ==
  /\ r.cap <= s.cap /\ r.i \in Nat \ {0} /\ r.end <= r.cap /\ c \notin r.due
  /\ \A d \in r.due : Owes(r, mem, s, d)

LEMMA NoticeIs ==
  ASSUME NEW c \in Clients
  PROVE  NoticeSound(c) <=>
           (reader[c].at = "range" =>
              SoundFor(c, reader[c], slots[reader[c].arr][reader[c].cap], size[reader[c].arr]))
BY DEF NoticeSound, SoundFor, Owes, Ahead, IsAt

LEMMA NoticeIsThen ==
  ASSUME NEW c \in Clients
  PROVE  NoticeSound(c)' <=>
           (reader'[c].at = "range" =>
              SoundFor(c, reader'[c], slots'[reader'[c].arr][reader'[c].cap],
                       size'[reader'[c].arr]))
BY DEF NoticeSound, SoundFor, Owes, Ahead, IsAt

LEMMA SameNotice ==
  ASSUME NEW c \in Clients, NoticeSound(c), reader'[c] = reader[c],
         size' = size, slots' = slots
  PROVE  NoticeSound(c)'
BY NoticeIs, NoticeIsThen

LEMMA NotifyKeeps ==
  ASSUME ListenInv, NoticeInv, NEW c \in Clients, Notify(c)
  PROVE  NoticeSound(c)'
<1>1. \A r : Goes(c, r) => reader'[c] = r
  BY DEF Goes, ListenInv, Typed, ReadersTyped
<1>2. CASE arrayOf = NoClient
  <2>1. reader'[c] = Idle
    BY <1>1, <1>2 DEF Notify
  <2> QED BY <2>1, IdleState, NoticeIsThen
<1>3. CASE arrayOf # NoClient
  <2> PICK a : a = arrayOf
    OBVIOUS
  <2> PICK s : s = size[a]
    OBVIOUS
  <2> PICK r : r = [Idle EXCEPT !.at = "range", !.arr = a, !.cap = s.cap, !.i = 1,
                                !.end = s.len, !.due = Listed \ {c}]
    OBVIOUS
  <2> PICK mem : mem = slots[a][s.cap]
    OBVIOUS
  <2>1. a \in Clients
    BY <1>3 DEF ListenInv, Typed, ArraysTyped, Someone
  <2>2. /\ reader'[c] = r /\ size' = size /\ slots' = slots
    BY <1>1, <1>3 DEF Notify, arrays
  <2>3. /\ r.arr = a /\ r.cap = s.cap /\ r.i = 1 /\ r.end = s.len /\ r.due = Listed \ {c}
    BY DEF Idle
  <2>4. /\ DOMAIN List(a) = 1..s.len
        /\ \A i \in 1..s.len : List(a)[i] = mem[i]
    BY <2>1, ListIs DEF ListenInv, Typed, ArraysTyped
  <2>5. s.len \in Nat /\ s.cap \in Nat /\ s.len <= s.cap
    <3>1. s.cap \in Nat
      BY <2>1, UseTypes, CapsAreNumbers DEF ListenInv
    <3>2. s.len \in 0..s.cap
      BY <2>1 DEF ListenInv, Typed, ArraysTyped, ArrayTyped
    <3> QED BY ONLY <3>1, <3>2
  <2>6. ASSUME NEW d \in Listed \ {c}
        PROVE  \E j \in 1..s.len : mem[j] = d
    BY <1>3, <2>4 DEF Listed, Elems
  <2>7. \A j \in 1..s.len : j <= s.len
    BY <2>5
  <2>8. \A d \in r.due : Owes(r, mem, s, d)
    BY <2>3, <2>6, <2>7 DEF Owes
  <2>9. SoundFor(c, r, mem, s)
    BY <2>3, <2>5, <2>8 DEF SoundFor
  <2> QED BY <2>2, <2>3, <2>9, NoticeIsThen
<1> QED BY <1>2, <1>3

LEMMA TellNextKeeps ==
  ASSUME ListenInv, NoticeInv, NEW c \in Clients, TellNext(c)
  PROVE  NoticeSound(c)'
<1> PICK was : was = reader[c]
  OBVIOUS
<1> PICK mem : mem = slots[was.arr][was.cap]
  OBVIOUS
<1> PICK s : s = size[was.arr]
  OBVIOUS
<1> PICK x : x = mem[was.i]
  OBVIOUS
<1> PICK told : told = was.told
  OBVIOUS
<1> PICK v : v = IF x = c THEN told[x] ELSE told[x] + 1
  OBVIOUS
<1> PICK next : next = [told EXCEPT ![x] = v]
  OBVIOUS
<1> PICK r : r = [was EXCEPT !.i = @ + 1, !.told = next]
  OBVIOUS
<1>1. /\ was.at = "range" /\ was.i <= was.end
      /\ Goes(c, [was EXCEPT !.i = @ + 1, !.told[x] = IF x = c THEN @ ELSE @ + 1])
      /\ size' = size /\ slots' = slots
  BY DEF TellNext, Ranges, IsAt, arrays
<1>2. was \in ReaderState
  BY UseTypes DEF ListenInv
<1>3. Goes(c, r)
  BY <1>1
<1>4. reader'[c] = r
  BY <1>3 DEF Goes, ListenInv, Typed, ReadersTyped
<1>5. /\ r.at = "range" /\ r.arr = was.arr /\ r.cap = was.cap /\ r.i = was.i + 1
      /\ r.end = was.end /\ r.due = was.due /\ r.told = next
  BY <1>1, <1>2 DEF ReaderState
<1>6. told \in [Clients -> Nat] /\ was.due \subseteq Clients /\ was.end \in Nat
  BY <1>2, WhatReadersAre
<1>7. SoundFor(c, was, mem, s)
  BY <1>1, NoticeIs DEF NoticeInv
<1>8. was.i \in Nat \ {0} /\ c \notin was.due
      /\ \A d \in was.due : Owes(was, mem, s, d)
  BY <1>7 DEF SoundFor
<1>9. ASSUME NEW d \in was.due
      PROVE  Owes(r, mem, s, d)
  <2>1. d \in Clients /\ d # c /\ told[d] \in Nat
    BY <1>6, <1>8
  <2>2. CASE x = d
    <3>1. next[d] = told[d] + 1
      BY ONLY <1>6, <2>1, <2>2, next = [told EXCEPT ![x] = v],
              v = IF x = c THEN told[x] ELSE told[x] + 1
    <3>2. next[d] >= 1
      BY ONLY <2>1, <3>1
    <3>3. r.told[d] >= 1
      BY ONLY <1>5, <3>2
    <3> QED BY <3>3 DEF Owes
  <2>3. CASE x # d
    <3>1. next[d] = told[d]
      BY <1>6, <2>1, <2>3
    <3>2. told[d] >= 1 \/ \E j \in was.i..was.end : mem[j] = d /\ (was.cap = s.cap => j <= s.len)
      BY <1>8 DEF Owes
    <3>3. ASSUME NEW j \in was.i..was.end, mem[j] = d
          PROVE  j \in (was.i + 1)..was.end
      <4> PICK i : i = was.i
        OBVIOUS
      <4> PICK end : end = was.end
        OBVIOUS
      <4>1. j # i /\ j \in i..end
        BY <2>3, <3>3
      <4>2. i \in Nat /\ end \in Nat
        BY <1>6, <1>8
      <4>3. j \in (i + 1)..end
        BY ONLY <4>1, <4>2
      <4> QED BY <4>3
    <3> QED BY <1>5, <3>1, <3>2, <3>3 DEF Owes
  <2> QED BY <2>2, <2>3
<1>10. SoundFor(c, r, mem, s)
  <2>1. r.i \in Nat \ {0}
    <3>1. was.i + 1 \in Nat \ {0}
      BY ONLY <1>8
    <3> QED BY <1>5, <3>1
  <2> QED BY <1>5, <1>7, <1>9, <2>1 DEF SoundFor
<1>11. size'[reader'[c].arr] = s /\ slots'[reader'[c].arr][reader'[c].cap] = mem
  BY <1>1, <1>4, <1>5
<1> QED BY <1>4, <1>10, <1>11, NoticeIsThen

\* A push leaves alone what others have before them: it writes behind the last, or
\* elsewhere.
LEMMA PushKeepsNotices ==
  ASSUME ListenInv, NoticeInv, NEW c \in Clients, PushListener(c)
  PROVE  \A d \in Clients \ {c} : NoticeSound(d)'
<1> PICK a : a = reader[c].arr
  OBVIOUS
<1>1. /\ Push(a, c) /\ reader[c].at = "push" /\ arrayOf' = arrayOf
      /\ Goes(c, [reader[c] EXCEPT !.at = "tell"])
  BY DEF PushListener, IsAt
<1>2. a \in Clients /\ c \notin Elems(List(a)) /\ NoDuplicates(List(a)) /\ ArraysTyped
  BY <1>1 DEF ListenInv, Typed, ArrayInv, ReaderSound, IsAt, HasArray
<1> PICK s : s = size[a]
  OBVIOUS
<1> PICK t : t = size'[a]
  OBVIOUS
<1>3. /\ t.len = s.len + 1
      /\ t.cap = s.cap \/ s.cap < t.cap
      /\ \A b \in Clients \ {a} : size'[b] = size[b] /\ slots'[b] = slots[b]
      /\ \A m \in Caps \ {t.cap} : slots'[a][m] = slots[a][m]
      /\ \A i \in 1..s.len : slots'[a][t.cap][i] = slots[a][s.cap][i]
  BY <1>1, <1>2, PushEffect
<1>4. s.len \in Nat /\ s.cap \in Nat /\ t.cap \in Nat
  <2>1. ArraysTyped'
    BY <1>1, <1>2, PushEffect
  <2>2. s.len \in Nat /\ s.cap \in Caps /\ t.cap \in Caps
    BY <1>2, <2>1 DEF ArraysTyped
  <2> QED BY <2>2, CapsAreNumbers
<1> SUFFICES ASSUME NEW d \in Clients \ {c}, reader[d].at = "range"
             PROVE  NoticeSound(d)'
  <2>1. \A d \in Clients \ {c} : reader'[d] = reader[d]
    BY <1>1 DEF Goes, ListenInv, Typed, ReadersTyped
  <2> QED BY <2>1, NoticeIsThen
<1> PICK r : r = reader[d]
  OBVIOUS
<1>5. reader'[d] = r
  BY <1>1 DEF Goes, ListenInv, Typed, ReadersTyped
<1>6. r.cap \in Caps /\ r.cap \in Nat /\ r.i \in Int /\ r.end \in Nat /\ r.arr \in Clients
  <2>1. r \in ReaderState
    BY UseTypes DEF ListenInv
  <2>2. r.arr \in Clients
    BY DEF ListenInv, ArrayInv, ReaderSound, HasArray
  <2> QED BY <2>1, <2>2, WhatReadersAre, CapsAreNumbers
<1>7. SoundFor(d, r, slots[r.arr][r.cap], size[r.arr])
  BY NoticeIs DEF NoticeInv
<1>8. CASE r.arr # a
  <2>1. size'[r.arr] = size[r.arr] /\ slots'[r.arr] = slots[r.arr]
    BY <1>3, <1>6, <1>8
  <2> QED BY <1>5, <1>7, <2>1, NoticeIsThen
<1>9. CASE r.arr = a
  <2> PICK mem : mem = slots[a][r.cap]
    OBVIOUS
  <2> PICK new : new = slots'[a][r.cap]
    OBVIOUS
  <2>1. /\ r.cap <= s.cap /\ r.i \in Nat \ {0} /\ r.end <= r.cap /\ d \notin r.due
        /\ \A e \in r.due : Owes(r, mem, s, e)
    BY <1>7, <1>9 DEF SoundFor
  <2>2. ASSUME NEW e \in r.due
        PROVE  Owes(r, new, t, e)
    <3>1. r.told[e] >= 1 \/ \E j \in r.i..r.end : mem[j] = e /\ (r.cap = s.cap => j <= s.len)
      BY <2>1 DEF Owes
    <3>2. ASSUME NEW j \in r.i..r.end, mem[j] = e, r.cap = s.cap => j <= s.len
          PROVE  new[j] = e /\ (r.cap = t.cap => j <= t.len)
      <4>1. CASE r.cap = t.cap
        <5>1. r.cap = s.cap
          BY ONLY <1>3, <1>4, <1>6, <2>1, <4>1
        <5>2. j \in 1..s.len
          BY <1>4, <1>6, <2>1, <3>2, <5>1
        <5>3. new[j] = mem[j]
          BY <1>3, <4>1, <5>1, <5>2
        <5>4. j <= t.len
          BY <1>3, <1>4, <5>2
        <5> QED BY <3>2, <5>3, <5>4
      <4>2. CASE r.cap # t.cap
        <5>1. new = mem
          BY <1>3, <1>6, <4>2
        <5> QED BY <3>2, <4>2, <5>1
      <4> QED BY <4>1, <4>2
    <3> QED BY <3>1, <3>2 DEF Owes
  <2>3. r.cap <= t.cap
    BY ONLY <1>3, <1>4, <1>6, <2>1
  <2>4. SoundFor(d, r, new, t)
    BY <2>1, <2>2, <2>3 DEF SoundFor
  <2> QED BY <1>5, <1>9, <2>4, NoticeIsThen
<1> QED BY <1>8, <1>9

\* A removal moves what is behind down by one: who was due and is behind is still ahead of
\* the reader, but for the one that comes to stand where it has just been.
LEMMA RemovalKeepsNotices ==
  ASSUME ListenInv, NoticeInv, NEW c \in Clients, Remove(arrayOf, c, reader),
         arrayOf' = arrayOf, NEW d \in Clients
  PROVE  NoticeSound(d)'
<1> PICK a : a = arrayOf
  OBVIOUS
<1> PICK r : r = reader[d]
  OBVIOUS
<1>1. CASE a = NoClient \/ c \notin Elems(List(a))
  BY <1>1, SameNotice DEF Remove, NoticeInv
<1>2. CASE ~(a = NoClient \/ c \notin Elems(List(a)))
  <2>1. a \in Clients /\ ArraysTyped /\ c \in Elems(List(a)) /\ TakenOut(a, c)
        /\ reader' = Ranging(reader, a, c)
    BY <1>2 DEF ListenInv, Typed, ArraysTyped, Someone, Remove, TakenOut
  <2> PICK s : s = size[a]
    OBVIOUS
  <2> PICK p : p = PlaceOf(a, c)
    OBVIOUS
  <2>2. /\ size'[a].len = s.len - 1 /\ size'[a].cap = s.cap
        /\ \A b \in Clients \ {a} : size'[b] = size[b] /\ slots'[b] = slots[b]
        /\ \A m \in Caps \ {s.cap} : slots'[a][m] = slots[a][m]
        /\ \A j \in 1..(s.len - 1) :
             slots'[a][s.cap][j] = IF j < p THEN slots[a][s.cap][j] ELSE slots[a][s.cap][j + 1]
    BY <2>1, RemoveEffect
  <2>3. /\ p \in 1..s.len /\ slots[a][s.cap][p] = c
    BY <2>1, PlaceFound
  <2>4. s.len \in Nat /\ DOMAIN List(a) = 1..s.len
        /\ \A i \in 1..s.len : List(a)[i] = slots[a][s.cap][i]
    BY <2>1, ListIs DEF ArraysTyped
  <2> SUFFICES ASSUME reader'[d].at = "range"
               PROVE  NoticeSound(d)'
    BY NoticeIsThen
  <2>5. r.at = "range" /\ reader'[d].arr = r.arr /\ reader'[d].cap = r.cap
    BY ReadersStay DEF ListenInv, Typed
  <2>6. /\ r \in ReaderState /\ r.cap \in Caps /\ r.i \in Int /\ r.end \in Nat
        /\ r.arr \in Clients /\ r.due \subseteq Clients
    <3>1. r \in ReaderState
      BY UseTypes DEF ListenInv
    <3>2. r.arr \in Clients
      BY <2>5 DEF ListenInv, ArrayInv, ReaderSound, IsAt, HasArray
    <3> QED BY <3>1, <3>2, WhatReadersAre
  <2>7. SoundFor(d, r, slots[r.arr][r.cap], size[r.arr])
    BY <2>5, NoticeIs DEF NoticeInv
  <2>8. reader'[d] = IF r.at = "range" /\ r.arr = a /\ r.cap = s.cap
                     THEN [r EXCEPT !.due = @ \ ({List(a)[i] : i \in {i \in {r.i} \cap DOMAIN List(a) : p < i}}
                                                 \cup {c})]
                     ELSE r
    BY <2>1 DEF Ranging
  <2>9. CASE r.arr # a
    <3>1. size'[r.arr] = size[r.arr] /\ slots'[r.arr] = slots[r.arr] /\ reader'[d] = r
      BY <2>2, <2>6, <2>8, <2>9
    <3> QED BY <2>7, <3>1, NoticeIsThen
  <2>10. CASE r.arr = a /\ r.cap # s.cap
    <3>1. reader'[d] = r /\ slots'[a][r.cap] = slots[a][r.cap]
      BY <2>2, <2>6, <2>8, <2>10
    <3>2. SoundFor(d, r, slots[a][r.cap], s)
      BY <2>7, <2>10
    <3>3. SoundFor(d, r, slots[a][r.cap], size'[a])
      BY <2>2, <2>10, <3>2 DEF SoundFor, Owes
    <3> QED BY <2>10, <3>1, <3>3, NoticeIsThen
  <2>11. CASE r.arr = a /\ r.cap = s.cap
    <3> PICK mem : mem = slots[a][s.cap]
      OBVIOUS
    <3> PICK new : new = slots'[a][s.cap]
      OBVIOUS
    <3> PICK t : t = size'[a]
      OBVIOUS
    <3> PICK passed : passed = {List(a)[i] : i \in {i \in {r.i} \cap DOMAIN List(a) : p < i}}
      OBVIOUS
    <3> PICK then : then = [r EXCEPT !.due = r.due \ (passed \cup {c})]
      OBVIOUS
    <3>1. reader'[d] = then
      BY <2>5, <2>8, <2>11
    <3>2. /\ then.at = "range" /\ then.arr = a /\ then.cap = r.cap /\ then.i = r.i
          /\ then.end = r.end /\ then.told = r.told /\ then.due = r.due \ (passed \cup {c})
      BY <2>5, <2>6, <2>11 DEF ReaderState
    <3>3. /\ r.cap <= s.cap /\ r.i \in Nat \ {0} /\ r.end <= r.cap /\ d \notin r.due
          /\ \A e \in r.due : Owes(r, mem, s, e)
      BY <2>7, <2>11 DEF SoundFor
    <3>4. ASSUME NEW e \in r.due, e \notin passed, e # c
          PROVE  Owes(then, new, t, e)
      <4>1. r.told[e] >= 1
            \/ \E j \in r.i..r.end : mem[j] = e /\ (r.cap = s.cap => j <= s.len)
        BY <3>3 DEF Owes
      <4>2. ASSUME NEW j \in r.i..r.end, mem[j] = e, j <= s.len
            PROVE  \E k \in r.i..r.end : new[k] = e /\ k <= t.len
        <5>1. j \in 1..s.len /\ j \in Nat /\ r.i \in Nat /\ p \in Nat /\ t.len = s.len - 1
          BY <2>2, <2>3, <2>4, <2>6, <3>3, <4>2
        <5>2. j # p
          BY <2>3, <3>4, <4>2
        <5>3. CASE j < p
          <6>1. j \in 1..(s.len - 1) /\ j <= t.len
            BY <2>3, <2>4, <5>1, <5>3
          <6>2. new[j] = mem[j]
            BY <2>2, <5>3, <6>1
          <6> QED BY <4>2, <6>1, <6>2
        <5>4. CASE p < j
          <6>1. j # r.i
            <7>1. ASSUME j = r.i
                  PROVE  e \in passed
              <8>1. j \in {i \in {r.i} \cap DOMAIN List(a) : p < i}
                BY <2>4, <5>1, <5>4, <7>1
              <8>2. List(a)[j] = e
                BY <2>4, <4>2, <5>1
              <8> QED BY <8>1, <8>2
            <7> QED BY <3>4, <7>1
          <6> PICK k : k = j - 1
            OBVIOUS
          <6>2. k \in 1..(s.len - 1) /\ k <= t.len /\ k \in r.i..r.end /\ k + 1 = j
                /\ ~(k < p)
            <7> PICK i : i = r.i
              OBVIOUS
            <7> PICK end : end = r.end
              OBVIOUS
            <7> PICK n : n = s.len
              OBVIOUS
            <7>1. /\ i \in Nat \ {0} /\ end \in Nat /\ n \in Nat /\ p \in 1..n /\ j # i
                  /\ j \in i..end /\ j \in 1..n /\ p < j /\ t.len = n - 1
              BY <2>3, <2>4, <2>6, <3>3, <4>2, <5>1, <5>4, <6>1
            <7>2. /\ k \in 1..(n - 1) /\ k \in i..end /\ k + 1 = j /\ ~(k < p)
              BY ONLY <7>1, k = j - 1
            <7>3. k <= t.len
              BY ONLY <7>1, <7>2
            <7> QED BY <7>2, <7>3
          <6>3. new[k] = mem[j]
            BY <2>2, <6>2
          <6> QED BY <4>2, <6>2, <6>3
        <5>5. j < p \/ p < j
          BY ONLY <5>1, <5>2
        <5> QED BY <5>3, <5>4, <5>5
      <4>3. r.told[e] >= 1 \/ \E k \in r.i..r.end : new[k] = e /\ k <= t.len
        BY <2>11, <4>1, <4>2
      <4> QED BY <3>2, <4>3 DEF Owes
    <3>5. SoundFor(d, then, new, t)
      BY <2>2, <3>2, <3>3, <3>4 DEF SoundFor
    <3>6. slots'[reader'[d].arr][reader'[d].cap] = new /\ size'[reader'[d].arr] = t
      BY <2>11, <3>1, <3>2
    <3> QED BY <3>1, <3>5, <3>6, NoticeIsThen
  <2> QED BY <2>9, <2>10, <2>11
<1> QED BY <1>1, <1>2

\* Where a reader is after a step of its own.
LEMMA OnlyNoticesRange ==
  ASSUME ListenInv, NEW c \in Clients,
         \/ ListenerServer(c) \/ CreateArray(c) \/ LookUp(c) \/ PushListener(c)
         \/ TellListener(c) \/ Quiet(c),
         ~(Notify(c) \/ TellNext(c))
  PROVE  reader'[c].at # "range"
<1> PICK was : was = reader[c]
  OBVIOUS
<1>1. \A r : Goes(c, r) => reader'[c] = r
  BY DEF Goes, ListenInv, Typed, ReadersTyped
<1>2. was \in ReaderState /\ Idle \in ReaderState /\ Idle.at = "idle"
  BY UseTypes, IdleState DEF ListenInv
<1>3. CASE ListenerServer(c)
  BY <1>1, <1>2, <1>3 DEF ListenerServer, ReaderState
<1>4. CASE CreateArray(c)
  BY <1>1, <1>2, <1>4 DEF CreateArray, ReaderState
<1>5. CASE LookUp(c)
  BY <1>1, <1>2, <1>5 DEF LookUp, ReaderState
<1>6. CASE PushListener(c)
  BY <1>1, <1>2, <1>6 DEF PushListener, ReaderState
<1>7. CASE TellListener(c) \/ EndOfRange(c)
  BY <1>1, <1>2, <1>7 DEF TellListener, EndOfRange
<1>8. CASE SendServerMsg(c)
  BY <1>1, <1>2, <1>8 DEF SendServerMsg, ReaderState
<1>9. CASE CountMessages(c)
  BY <1>1, <1>2, <1>9 DEF CountMessages, ReaderState
<1>10. CASE TakeFirst(c)
  <2> PICK m : m = msglist[1]
    OBVIOUS
  <2>1. [Idle EXCEPT !.at = "ended"].at = "ended"
        /\ [was EXCEPT !.at = "drop", !.head = m].at = "drop"
    BY <1>2 DEF ReaderState
  <2>2. \/ reader'[c] = [Idle EXCEPT !.at = "ended"]
        \/ reader'[c] = [was EXCEPT !.at = "drop", !.head = m]
    BY <1>1, <1>10 DEF TakeFirst
  <2> QED BY <2>1, <2>2
<1>11. CASE DropMessage(c)
  BY <1>1, <1>2, <1>11 DEF DropMessage, ReaderState
<1>12. CASE GetServerOldMsg(c)
  <2>1. PICK n \in 1..(MaxMessages + 1) :
               Goes(c, IF n > Len(msglist) THEN [Idle EXCEPT !.at = "clip"]
                       ELSE [Idle EXCEPT !.at = "start", !.counts = n])
    BY <1>12 DEF GetServerOldMsg
  <2> PICK r : r = IF n > Len(msglist) THEN [Idle EXCEPT !.at = "clip"]
                   ELSE [Idle EXCEPT !.at = "start", !.counts = n]
    OBVIOUS
  <2>2. r.at \in {"clip", "start"}
    BY DEF Idle
  <2> QED BY <1>1, <2>1, <2>2
<1>13. CASE ClipCounts(c)
  <2> PICK r : r = [Idle EXCEPT !.at = "start", !.counts = Len(msglist)]
    OBVIOUS
  <2>1. reader'[c] \in {Idle, r}
    BY <1>1, <1>13 DEF ClipCounts
  <2>2. r.at = "start"
    BY DEF Idle
  <2> QED BY <1>2, <2>1, <2>2
<1>14. CASE FirstPlace(c)
  BY <1>1, <1>2, <1>14 DEF FirstPlace, ReaderState
<1>15. CASE LookAtLength(c)
  BY <1>1, <1>2, <1>15 DEF LookAtLength, ReaderState
<1>16. CASE HandOut(c)
  <2> PICK m : m = msglist[was.i]
    OBVIOUS
  <2> PICK r : r = [was EXCEPT !.at = "length", !.i = @ + 1, !.last = m]
    OBVIOUS
  <2>1. reader'[c] \in {[Idle EXCEPT !.at = "ended"], r}
    BY <1>1, <1>16 DEF HandOut
  <2>2. [Idle EXCEPT !.at = "ended"].at = "ended" /\ r.at = "length"
    BY <1>2 DEF ReaderState
  <2> QED BY <2>1, <2>2
<1> QED BY <1>3, <1>4, <1>5, <1>6, <1>7, <1>8, <1>9, <1>10, <1>11, <1>12, <1>13, <1>14,
           <1>15, <1>16 DEF Quiet

LEMMA NoticeStep ==
  ASSUME ListenInv, NoticeInv, [ListenNext]_listenVars
  PROVE  NoticeInv'
<1>1. CASE UNCHANGED listenVars
  <2>1. reader' = reader /\ size' = size /\ slots' = slots
    BY <1>1 DEF listenVars, arrays
  <2>2. ASSUME NEW d \in Clients
        PROVE  NoticeSound(d)'
    BY <2>1, SameNotice DEF NoticeInv
  <2> QED BY <2>2 DEF NoticeInv
<1>2. CASE ListenNext
  <2>1. PICK c \in Clients :
          \/ ListenerServer(c) \/ CreateArray(c) \/ LookUp(c) \/ PushListener(c)
          \/ TellListener(c) \/ CannelListenerServer(c) \/ RemoveAllListeners(c) \/ Quiet(c)
    BY <1>2 DEF ListenNext, Quiet
  <2>2. CASE CannelListenerServer(c) \/ RemoveAllListeners(c)
    <3>1. Remove(arrayOf, c, reader) /\ arrayOf' = arrayOf
      BY <2>2 DEF CannelListenerServer, RemoveAllListeners
    <3>2. ASSUME NEW d \in Clients
          PROVE  NoticeSound(d)'
      BY <3>1, RemovalKeepsNotices
    <3> QED BY <3>2 DEF NoticeInv
  <2>3. CASE ~(CannelListenerServer(c) \/ RemoveAllListeners(c))
    <3>1. ReadersTyped'
      BY <2>1, <2>3, ListenerServerKeeps, CreateArrayKeeps, LookUpKeeps, PushListenerKeeps,
         TellListenerKeeps, QuietKeeps
    <3>2. \E r : Goes(c, r)
      BY <2>1, <2>3 DEF ListenerServer, CreateArray, LookUp, PushListener, TellListener,
         Quiet, SendServerMsg, CountMessages, TakeFirst, DropMessage, Notify, TellNext,
         EndOfRange, GetServerOldMsg, ClipCounts, FirstPlace, LookAtLength, HandOut
    <3>3. \A d \in Clients \ {c} : reader'[d] = reader[d]
      BY <3>2 DEF Goes, ListenInv, Typed, ReadersTyped
    <3>4. \A d \in Clients \ {c} : NoticeSound(d)'
      <4>1. CASE PushListener(c)
        BY <4>1, PushKeepsNotices
      <4>2. CASE ~PushListener(c)
        <5>1. size' = size /\ slots' = slots
          BY <2>1, <2>3, <4>2 DEF ListenerServer, CreateArray, LookUp, TellListener,
             Quiet, SendServerMsg, CountMessages, TakeFirst, DropMessage, Notify, TellNext,
             EndOfRange, Ranges, GetServerOldMsg, ClipCounts, FirstPlace, LookAtLength,
             HandOut, Asks, arrays
        <5> QED BY <3>3, <5>1, SameNotice DEF NoticeInv
      <4> QED BY <4>1, <4>2
    <3>5. NoticeSound(c)'
      <4>1. CASE Notify(c)
        BY <4>1, NotifyKeeps
      <4>2. CASE TellNext(c)
        BY <4>2, TellNextKeeps
      <4>3. CASE ~(Notify(c) \/ TellNext(c))
        <5>1. reader'[c].at # "range"
          BY <2>1, <2>3, <4>3, OnlyNoticesRange
        <5> QED BY <5>1, NoticeIsThen
      <4> QED BY <4>1, <4>2, <4>3
    <3> QED BY <3>4, <3>5 DEF NoticeInv
  <2> QED BY <2>2, <2>3
<1> QED BY <1>1, <1>2

LEMMA NoticeInit ==
  ASSUME ListenInit
  PROVE  NoticeInv
BY IdleState DEF ListenInit, NoticeInv, NoticeSound, IsAt

\* Whoever is due when a notice begins to go round has been told when it ends, whoever
\* joins and leaves, and whatever moves in memory, while it goes round.
THEOREM NoticeAlwaysReaches == ListenSpec => []NoticeReaches
<1>1. ListenInit => ListenInv /\ NoticeInv
  BY ListenInitInv, NoticeInit
<1>2. ListenInv /\ NoticeInv /\ [ListenNext]_listenVars => (ListenInv /\ NoticeInv)'
  BY ListenStep, NoticeStep
<1>3. ListenInv /\ NoticeInv => NoticeReaches
  <2> SUFFICES ASSUME ListenInv, NoticeInv, NEW c \in Clients, reader[c].at = "range",
                      reader[c].i > reader[c].end, NEW d \in reader[c].due
               PROVE  reader[c].told[d] >= 1
    BY DEF NoticeReaches, IsAt
  <2> PICK i : i = reader[c].i
    OBVIOUS
  <2> PICK end : end = reader[c].end
    OBVIOUS
  <2>1. i \in Int /\ end \in Nat /\ i > end
    BY UseTypes, WhatReadersAre DEF ListenInv
  <2>2. i..end = {}
    BY ONLY <2>1
  <2>3. reader[c].told[d] >= 1 \/ Ahead(c, d)
    BY DEF NoticeInv, NoticeSound, IsAt
  <2> QED BY <2>2, <2>3 DEF Ahead
<1> QED BY <1>1, <1>2, <1>3, PTL DEF ListenSpec
=============================================================================
