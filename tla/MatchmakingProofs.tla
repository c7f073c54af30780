------------------------- MODULE MatchmakingProofs -------------------------
(***************************************************************************)
(* For any number of clients, rooms and match options: the queue of those  *)
(* who wait for a match and its groups agree, nobody waits there who is    *)
(* gone, players who ask for the same wait together, a group that becomes  *)
(* complete gets its room; and matchmaking changes rooms only as Rooms     *)
(* says.  The last part is about the two loops over the users of such a    *)
(* group: the closed forms of Rooms and Matchmaking are what they do.      *)
(***************************************************************************)
EXTENDS MatchLoops, RoomsProofs

Groups == [users : Seq(Clients), option : {o \in MatchOptions : o.number > 1}]

\* Every one of those who wait is in one group, once; and nobody else is in one.
GroupsAgree(groups, waiting) ==
  /\ \A i \in DOMAIN groups :
       /\ groups[i].users # <<>> /\ NoDuplicates(groups[i].users)
       /\ Elems(groups[i].users) \subseteq waiting
       /\ \A k \in DOMAIN groups \ {i} :
            Elems(groups[i].users) \cap Elems(groups[k].users) = {}
  /\ \A c \in waiting : \E i \in DOMAIN groups : c \in Elems(groups[i].users)

\* The same but for its frame rate under another name, and for the range.
Alike(a, b) == a.key = b.key /\ a.number = b.number /\ FPS(a) = FPS(b)

Together(groups) ==
  \A i, k \in DOMAIN groups :
     i < k /\ Alike(groups[i].option, groups[k].option) =>
       groups[i].option.range # AnyValue

LEMMA QueueParts ==
  /\ QueueAgrees <=>
       /\ MatchTypeOK /\ NoDuplicates(matchUsers)
       /\ GroupsAgree(matchUsersGroup, Elems(matchUsers))
       /\ \A c \in Clients : matchOption[c] # NoOption => Queued(c)
  /\ WaitTogether <=> Together(matchUsersGroup)
<1>1. QueueAgrees <=>
        /\ MatchTypeOK /\ NoDuplicates(matchUsers)
        /\ GroupsAgree(matchUsersGroup, Elems(matchUsers))
        /\ \A c \in Clients : matchOption[c] # NoOption => Queued(c)
  BY DEF QueueAgrees, GroupsAgree
<1>2. WaitTogether <=> Together(matchUsersGroup)
  BY DEF WaitTogether, Together, Alike
<1> QED BY <1>1, <1>2

LEMMA ElemsType ==
  ASSUME NEW T, NEW list \in Seq(T)
  PROVE  Elems(list) \subseteq T
  BY DEF Elems

-----------------------------------------------------------------------------
\* What becomes of the groups.

\* A group of one is put at the end.
LEMMA GroupOpened ==
  ASSUME NEW groups \in Seq(Groups), NEW waiting, GroupsAgree(groups, waiting),
         Together(groups), NEW c \in Clients, c \notin waiting,
         NEW option \in {o \in MatchOptions : o.number > 1},
         \A i \in DOMAIN groups :
            Alike(groups[i].option, option) => groups[i].option.range # AnyValue,
         NEW new, new = Append(groups, [users |-> <<c>>, option |-> option])
  PROVE  /\ new \in Seq(Groups) /\ GroupsAgree(new, waiting \cup {c}) /\ Together(new)
         /\ \A h \in Elems(new) : c \in Elems(h.users) => Len(h.users) # h.option.number
<1> PICK g : g = [users |-> <<c>>, option |-> option]
  OBVIOUS
<1> PICK n : n = Len(groups) + 1
  OBVIOUS
<1>1. /\ g \in Groups /\ g.users = <<c>> /\ g.option = option
      /\ n \in Nat /\ DOMAIN groups = 1..(n - 1)
  BY DEF Groups
<1>2. /\ new \in Seq(Groups) /\ DOMAIN new = 1..n /\ new[n] = g
      /\ \A i \in DOMAIN groups : new[i] = groups[i]
  BY <1>1
<1>3. \A i \in DOMAIN new : i = n \/ (i \in DOMAIN groups /\ i < n)
  BY <1>1, <1>2
<1>4. Elems(<<c>>) = {c} /\ <<c>> # <<>> /\ NoDuplicates(<<c>>) /\ Len(<<c>>) = 1
  BY DEF Elems, NoDuplicates
<1>5. \A i \in DOMAIN groups : /\ c \notin Elems(groups[i].users)
                               /\ Elems(groups[i].users) \subseteq waiting
  BY DEF GroupsAgree
<1>6. GroupsAgree(new, waiting \cup {c})
  <2>1. ASSUME NEW i \in DOMAIN new
        PROVE  /\ new[i].users # <<>> /\ NoDuplicates(new[i].users)
               /\ Elems(new[i].users) \subseteq waiting \cup {c}
    <3>1. CASE i = n
      BY <1>1, <1>2, <1>4, <3>1
    <3>2. CASE i # n
      BY <1>2, <1>3, <3>2 DEF GroupsAgree
    <3> QED BY <3>1, <3>2
  <2>2. ASSUME NEW i \in DOMAIN new, NEW k \in DOMAIN new \ {i}
        PROVE  Elems(new[i].users) \cap Elems(new[k].users) = {}
    <3>1. CASE i = n
      BY <1>1, <1>2, <1>3, <1>4, <1>5, <3>1
    <3>2. CASE k = n
      BY <1>1, <1>2, <1>3, <1>4, <1>5, <3>2
    <3>3. CASE i # n /\ k # n
      BY <1>2, <1>3, <3>3 DEF GroupsAgree
    <3> QED BY <3>1, <3>2, <3>3
  <2>3. ASSUME NEW d \in waiting \cup {c}
        PROVE  \E i \in DOMAIN new : d \in Elems(new[i].users)
    <3>1. CASE d = c
      BY <1>1, <1>2, <1>4, <3>1
    <3>2. CASE d \in waiting
      <4>1. PICK i \in DOMAIN groups : d \in Elems(groups[i].users)
        BY <3>2 DEF GroupsAgree
      <4> QED BY <1>1, <1>2, <4>1
    <3> QED BY <3>1, <3>2
  <2> QED BY <2>1, <2>2, <2>3 DEF GroupsAgree
<1>7. Together(new)
  BY <1>1, <1>2, <1>3 DEF Together
<1>8. ASSUME NEW h \in Elems(new), c \in Elems(h.users)
      PROVE  Len(h.users) # h.option.number
  <2>1. h = g
    BY <1>2, <1>3, <1>5, <1>8 DEF Elems
  <2> QED BY <1>1, <1>4, <2>1
<1> QED BY <1>2, <1>6, <1>7, <1>8

\* In new, c is in the group i as well; the other groups are as they were.
OneMore(groups, new, i, c) ==
  /\ new \in Seq(Groups) /\ DOMAIN new = DOMAIN groups
  /\ new[i].option = groups[i].option
  /\ new[i].users = Append(groups[i].users, c)
  /\ \A k \in DOMAIN groups \ {i} : new[k] = groups[k]

\* No other group has c in it.
OnlyIn(groups, i, c) == \A h \in Elems(groups) : c \in Elems(h.users) => h = groups[i]

\* One more is put into a group.
LEMMA GroupJoined ==
  ASSUME NEW groups \in Seq(Groups), NEW waiting, GroupsAgree(groups, waiting),
         Together(groups), NEW c \in Clients, c \notin waiting, NEW i \in DOMAIN groups,
         NEW new, OneMore(groups, new, i, c)
  PROVE  GroupsAgree(new, waiting \cup {c}) /\ Together(new) /\ OnlyIn(new, i, c)
<1> PICK users : users = Append(groups[i].users, c)
  OBVIOUS
<1>1. /\ groups[i] \in Groups /\ groups[i].users \in Seq(Clients)
      /\ DOMAIN groups = 1..Len(groups)
  <2>1. groups[i] \in Groups /\ DOMAIN groups = 1..Len(groups)
    OBVIOUS
  <2> QED BY <2>1 DEF Groups
<1>2. /\ groups[i].users # <<>> /\ NoDuplicates(groups[i].users)
      /\ Elems(groups[i].users) \subseteq waiting
  BY DEF GroupsAgree
<1>3. /\ users \in Seq(Clients) /\ users # <<>> /\ NoDuplicates(users)
      /\ Elems(users) = Elems(groups[i].users) \cup {c}
  <2>1. users # <<>>
    BY <1>1
  <2> QED BY <1>1, <1>2, <2>1, AppendElems
<1>4. /\ new \in Seq(Groups) /\ DOMAIN new = DOMAIN groups
      /\ new[i].users = users
      /\ \A k \in DOMAIN groups : new[k].option = groups[k].option
      /\ \A k \in DOMAIN groups \ {i} : new[k] = groups[k]
  BY DEF OneMore
<1>5. \A k \in DOMAIN groups : /\ c \notin Elems(groups[k].users)
                               /\ Elems(groups[k].users) \subseteq waiting
  BY DEF GroupsAgree
<1>6. GroupsAgree(new, waiting \cup {c})
  <2>1. ASSUME NEW k \in DOMAIN new
        PROVE  /\ new[k].users # <<>> /\ NoDuplicates(new[k].users)
               /\ Elems(new[k].users) \subseteq waiting \cup {c}
    <3>1. CASE k = i
      BY <1>2, <1>3, <1>4, <3>1
    <3>2. CASE k # i
      BY <1>4, <3>2 DEF GroupsAgree
    <3> QED BY <3>1, <3>2
  <2>2. ASSUME NEW j \in DOMAIN new, NEW k \in DOMAIN new \ {j}
        PROVE  Elems(new[j].users) \cap Elems(new[k].users) = {}
    <3>1. Elems(groups[j].users) \cap Elems(groups[k].users) = {}
      BY <1>4 DEF GroupsAgree
    <3>2. j \in DOMAIN groups /\ k \in DOMAIN groups /\ j # k
      BY <1>4
    <3>3. CASE j = i
      <4>1. new[j].users = users /\ new[k].users = groups[k].users
        BY <1>4, <3>2, <3>3
      <4> QED BY <1>3, <1>5, <3>1, <3>2, <3>3, <4>1
    <3>4. CASE k = i
      <4>1. new[k].users = users /\ new[j].users = groups[j].users
        BY <1>4, <3>2, <3>4
      <4> QED BY <1>3, <1>5, <3>1, <3>2, <3>4, <4>1
    <3>5. CASE j # i /\ k # i
      BY <1>4, <3>1, <3>2, <3>5
    <3> QED BY <3>3, <3>4, <3>5
  <2>3. ASSUME NEW d \in waiting \cup {c}
        PROVE  \E k \in DOMAIN new : d \in Elems(new[k].users)
    <3>1. CASE d = c
      BY <1>3, <1>4, <3>1
    <3>2. CASE d \in waiting
      <4>1. PICK k \in DOMAIN groups : d \in Elems(groups[k].users)
        BY <3>2 DEF GroupsAgree
      <4> QED BY <1>3, <1>4, <4>1
    <3> QED BY <3>1, <3>2
  <2> QED BY <2>1, <2>2, <2>3 DEF GroupsAgree
<1>7. Together(new)
  BY <1>4 DEF Together
<1>8. OnlyIn(new, i, c)
  <2> SUFFICES ASSUME NEW h \in Elems(new), c \in Elems(h.users) PROVE h = new[i]
    BY DEF OnlyIn
  <2>1. PICK k \in DOMAIN new : h = new[k]
    BY DEF Elems
  <2> QED BY <1>4, <1>5, <2>1
<1> QED BY <1>6, <1>7, <1>8

\* In left, those in gone are in no group any more.
SomeLess(groups, left, gone) ==
  /\ left \in Seq(Groups) /\ Len(left) = Len(groups)
  /\ \A i \in DOMAIN groups :
       /\ left[i].option = groups[i].option /\ NoDuplicates(left[i].users)
       /\ Elems(left[i].users) = Elems(groups[i].users) \ gone

NonEmpty(groups) == Keep(groups, {g \in Elems(groups) : g.users # <<>>})

\* Some leave their groups, and the groups that are left empty go.
LEMMA GroupsLeft ==
  ASSUME NEW groups \in Seq(Groups), NEW waiting, GroupsAgree(groups, waiting),
         Together(groups), NEW gone, NEW left, SomeLess(groups, left, gone)
  PROVE  /\ NonEmpty(left) \in Seq(Groups) /\ Together(NonEmpty(left))
         /\ GroupsAgree(NonEmpty(left), waiting \ gone)
<1> USE DEF SomeLess
<1> PICK new : new = NonEmpty(left)
  OBVIOUS
<1> PICK full : full = {g \in Elems(left) : g.users # <<>>}
  OBVIOUS
<1>1. PICK pos \in [1..Len(new) -> DOMAIN left] :
             /\ \A j \in 1..Len(new) : new[j] = left[pos[j]] /\ left[pos[j]] \in full
             /\ \A i, j \in 1..Len(new) : i < j => pos[i] < pos[j]
             /\ \A i \in DOMAIN left :
                   left[i] \in full => \E j \in 1..Len(new) : pos[j] = i
  <2>1. left \in Seq(Groups) /\ new = Keep(left, full)
    BY DEF NonEmpty
  <2> HIDE DEF Groups
  <2> QED BY ONLY <2>1, KeepPositions
<1>2. new \in Seq(Groups) /\ DOMAIN new = 1..Len(new) /\ Len(new) \in Nat
  BY KeepProperties DEF NonEmpty
<1>3. DOMAIN left = DOMAIN groups /\ DOMAIN groups = 1..Len(groups)
  OBVIOUS
<1>4. \A i, j \in DOMAIN new : i # j => pos[i] # pos[j]
  <2> SUFFICES ASSUME NEW i \in DOMAIN new, NEW j \in DOMAIN new, i # j
               PROVE  pos[i] # pos[j]
    OBVIOUS
  <2>1. i < j \/ j < i
    BY <1>2
  <2>2. pos[i] \in Nat /\ pos[j] \in Nat
    BY <1>1, <1>2, <1>3
  <2>3. pos[i] < pos[j] \/ pos[j] < pos[i]
    BY <1>1, <1>2, <2>1
  <2> QED BY <2>2, <2>3
<1>5. \A j \in DOMAIN new : /\ pos[j] \in DOMAIN groups
                            /\ new[j] = left[pos[j]] /\ new[j].users # <<>>
  BY <1>1, <1>2, <1>3
<1>6. GroupsAgree(new, waiting \ gone)
  <2>1. ASSUME NEW j \in DOMAIN new
        PROVE  /\ new[j].users # <<>> /\ NoDuplicates(new[j].users)
               /\ Elems(new[j].users) \subseteq waiting \ gone
    <3>1. Elems(groups[pos[j]].users) \subseteq waiting
      BY <1>5 DEF GroupsAgree
    <3> QED BY <1>5, <3>1
  <2>2. ASSUME NEW i \in DOMAIN new, NEW j \in DOMAIN new \ {i}
        PROVE  Elems(new[i].users) \cap Elems(new[j].users) = {}
    <3>1. pos[i] # pos[j] /\ pos[i] \in DOMAIN groups /\ pos[j] \in DOMAIN groups
      BY <1>4, <1>5
    <3>2. Elems(groups[pos[i]].users) \cap Elems(groups[pos[j]].users) = {}
      BY <3>1 DEF GroupsAgree
    <3> QED BY <1>5, <3>2
  <2>3. ASSUME NEW d \in waiting \ gone
        PROVE  \E j \in DOMAIN new : d \in Elems(new[j].users)
    <3>1. PICK i \in DOMAIN groups : d \in Elems(groups[i].users)
      BY DEF GroupsAgree
    <3>2. d \in Elems(left[i].users)
      BY <3>1
    <3>3. left[i].users # <<>> /\ left[i] \in Elems(left)
      BY <1>3, <3>2 DEF Elems
    <3>4. PICK j \in 1..Len(new) : pos[j] = i
      BY <1>1, <1>3, <3>3
    <3> QED BY <1>2, <1>5, <3>2, <3>4
  <2> QED BY <2>1, <2>2, <2>3 DEF GroupsAgree
<1>7. Together(new)
  <2> SUFFICES ASSUME NEW i \in DOMAIN new, NEW j \in DOMAIN new, i < j,
                      Alike(new[i].option, new[j].option)
               PROVE  new[i].option.range # AnyValue
    BY DEF Together
  <2>1. pos[i] < pos[j] /\ pos[i] \in DOMAIN groups /\ pos[j] \in DOMAIN groups
    BY <1>1, <1>2, <1>5
  <2>2. new[i].option = groups[pos[i]].option /\ new[j].option = groups[pos[j]].option
    BY <1>5
  <2> QED BY <2>1, <2>2 DEF Together
<1> QED BY <1>2, <1>6, <1>7

-----------------------------------------------------------------------------
\* The inductive invariant.

\* A connection that is read from is open, but for those with buffered frames.
ReadersOpen == \A c \in reading : phase[c] = "open" \/ c \in LateReaders

MatchInv == IInv /\ ReadersOpen /\ QueueAgrees /\ NoDeadQueued /\ WaitTogether

LEMMA MatchInitInv == MatchInit => MatchInv
<1> SUFFICES ASSUME MatchInit PROVE MatchInv
  OBVIOUS
<1>1. /\ matchUsers = <<>> /\ matchUsersGroup = <<>> /\ reading = {}
      /\ matchOption = [c \in Clients |-> NoOption]
      /\ roomOption = [r \in Rooms |-> NoOption]
  BY DEF MatchInit, Init
<1>2. IInv
  BY InitInv DEF MatchInit
<1>3. MatchTypeOK
  BY <1>1 DEF MatchTypeOK
<1>4. GroupsAgree(<<>>, Elems(<<>>)) /\ Together(<<>>)
  BY DEF GroupsAgree, Together, Elems
<1>5. Elems(matchUsers) = {} /\ NoDuplicates(matchUsers)
  BY <1>1 DEF Elems, NoDuplicates
<1>6. QueueAgrees /\ WaitTogether
  BY <1>1, <1>3, <1>4, <1>5, QueueParts
<1>7. NoDeadQueued /\ ReadersOpen
  BY <1>1, <1>5 DEF NoDeadQueued, ReadersOpen
<1> QED BY <1>2, <1>6, <1>7 DEF MatchInv

LEMMA ReadersStep ==
  ASSUME IInv, ReadersOpen, [Next]_vars
  PROVE  ReadersOpen'
<1>1. phase \in [Clients -> Phases] /\ reading \subseteq Clients
  BY DEF IInv, ConnsOK
<1>2. ASSUME NEW S, ServerCloses(S) PROVE ReadersOpen'
  BY <1>1, <1>2 DEF ServerCloses, ReadersOpen
<1>3. ASSUME NEW c \in Clients, ConnectionEvent(c) PROVE ReadersOpen'
  <2>1. CASE Accept(c) \/ Disconnect(c)
    BY <1>1, <2>1 DEF Accept, Disconnect, ReadersOpen
  <2>2. CASE Dropped(c) \/ \E u \in Users : Login(c, u)
    BY <1>2, <2>2 DEF Dropped, Login
  <2> QED BY <1>3, <2>1, <2>2 DEF ConnectionEvent
<1>4. ASSUME NEW c \in Clients, UserOut(c) PROVE ReadersOpen'
  BY <1>1, <1>4 DEF UserOut, GoOffline, OnUserOut, ReadersOpen
<1>5. ASSUME NEW c \in Clients, RoomHandler(c) PROVE ReadersOpen'
  <2>1. UNCHANGED conns
    BY <1>5, HandlerWays, MatchedGroup DEF Reset, Reseat, SweepOut, Join, Create
  <2> QED BY <2>1 DEF conns, ReadersOpen
<1>6. CASE UNCHANGED vars
  BY <1>6 DEF vars, conns, ReadersOpen
<1> QED BY <1>3, <1>4, <1>5, <1>6 DEF Next

-----------------------------------------------------------------------------
\* Whoever completes a group is not left behind in the queue.
LEMMA LastNotLeft ==
  ASSUME NEW users \in Seq(Clients), users # <<>>, NoDuplicates(users),
         NEW stay, stay = LeftBehind(users)
  PROVE  /\ stay \in Seq(Clients) /\ NoDuplicates(stay)
         /\ Elems(stay) \subseteq Elems(users) \ {users[Len(users)]}
<1> PICK n : n = (Len(users) - 1) \div 2
  OBVIOUS
<1>1. /\ Len(users) \in Nat \ {0} /\ n \in Nat /\ 2 * n < Len(users)
      /\ DOMAIN users = 1..Len(users) /\ Len(users) \in DOMAIN users
  OBVIOUS
<1>2. stay = [i \in 1..n |-> users[2 * i]]
  BY DEF LeftBehind
<1>3. ASSUME NEW i \in 1..n
      PROVE  2 * i \in DOMAIN users /\ 2 * i # Len(users)
  <2>1. i \in Nat /\ 1 <= i /\ i <= n
    BY <1>1
  <2> PICK k : k = 2 * i
    OBVIOUS
  <2> PICK m : m = 2 * n
    OBVIOUS
  <2>2. k \in Nat /\ m \in Nat /\ 1 <= k /\ k <= m
    BY <1>1, <2>1
  <2>3. m < Len(users)
    BY <1>1
  <2>4. Len(users) \in Nat
    BY <1>1
  <2>5. k \in 1..Len(users) /\ k # Len(users)
    BY ONLY <2>2, <2>3, <2>4
  <2> QED BY <1>1, <2>5
<1>4. stay \in Seq(Clients) /\ DOMAIN stay = 1..n
  <2>1. \A i \in 1..n : users[2 * i] \in Clients
    BY <1>3
  <2> QED BY <1>1, <1>2, <2>1
<1>5. NoDuplicates(stay)
  <2> SUFFICES ASSUME NEW i \in 1..n, NEW j \in 1..n, users[2 * i] = users[2 * j]
               PROVE  i = j
    BY <1>2, <1>4 DEF NoDuplicates
  <2>1. 2 * i = 2 * j
    BY <1>3 DEF NoDuplicates
  <2> QED BY <1>1, <2>1
<1>6. \A i \in 1..n : users[2 * i] \in Elems(users) /\ users[2 * i] # users[Len(users)]
  <2> SUFFICES ASSUME NEW i \in 1..n
               PROVE  users[2 * i] \in Elems(users) /\ users[2 * i] # users[Len(users)]
    OBVIOUS
  <2> PICK k : k = 2 * i
    OBVIOUS
  <2>1. k \in DOMAIN users /\ k # Len(users)
    BY <1>3
  <2> QED BY <1>1, <2>1 DEF NoDuplicates, Elems
<1> QED BY <1>2, <1>4, <1>5, <1>6 DEF Elems

\* The group i becomes complete by c and gets the room r; half of it stays queued.
MatchOf(c, i, r, users) ==
  LET g    == matchUsersGroup[i]
      gone == Elems(users) \ Elems(LeftBehind(users))
      rest == [matchUsersGroup EXCEPT ![i].users = LeftBehind(users)]
  IN  /\ users = Append(g.users, c) /\ NoDuplicates(users)
      /\ Len(users) = g.option.number /\ ~InRoom(users[1])
      /\ \A d \in Elems(users) : uid[d] # NoUser /\ (phase[d] # "out" \/ d \in LateReaders)
      /\ app.object[r] = NilRoom
      /\ app' = CreateMatched(app, r, Roomless(app, users), g.option.number)
      /\ matchUsersGroup' = Keep(rest, {h \in Elems(rest) : h.users # <<>>})
      /\ matchUsers' = Keep(matchUsers, Clients \ gone)
      /\ OptionsDropped(gone)

LEMMA CompletedGroup ==
  ASSUME MatchInv, NEW c \in Clients, c \in reading, uid[c] # NoUser, ~InRoom(c),
         c \notin Elems(matchUsers),
         NEW option, CompleteGroup(c, option)
  PROVE  \E i \in DOMAIN matchUsersGroup, r \in Rooms, users \in Seq(Clients) :
            MatchOf(c, i, r, users)
<1>1. /\ MatchTypeOK /\ GroupsAgree(matchUsersGroup, Elems(matchUsers))
      /\ matchUsersGroup \in Seq(Groups)
  BY QueueParts DEF MatchInv, MatchTypeOK, Groups
<1> PICK i : i = Least(Fitting(option, c))
  OBVIOUS
<1>2. i \in DOMAIN matchUsersGroup
  <2>1. Fitting(option, c) \subseteq DOMAIN matchUsersGroup /\ Fitting(option, c) # {}
    BY DEF Fitting, CompleteGroup
  <2>2. Fitting(option, c) \in SUBSET Nat
    BY <1>1, <2>1
  <2> QED BY <2>1, <2>2, LeastProperties
<1> PICK g : g = matchUsersGroup[i]
  OBVIOUS
<1> PICK users : users = Append(g.users, c)
  OBVIOUS
<1>3. /\ g \in Groups /\ g.users \in Seq(Clients) /\ g.option \in MatchOptions
      /\ g.users # <<>> /\ NoDuplicates(g.users) /\ Elems(g.users) \subseteq Elems(matchUsers)
  <2>1. g \in Groups
    BY <1>1, <1>2
  <2> QED BY <1>1, <1>2, <2>1 DEF GroupsAgree, Groups
<1>4. /\ users \in Seq(Clients) /\ NoDuplicates(users)
      /\ Elems(users) = Elems(g.users) \cup {c} /\ Len(users) = Len(g.users) + 1
  BY <1>3, AppendElems
<1>5. Len(users) = g.option.number /\ ~InRoom(users[1])
  <2>1. Completes(g) /\ ~InRoom(g.users[1])
    BY DEF CompleteGroup
  <2>2. users[1] = g.users[1]
    BY <1>3
  <2> QED BY <1>4, <2>1, <2>2 DEF Completes
<1>6. \A d \in Elems(users) : uid[d] # NoUser /\ (phase[d] # "out" \/ d \in LateReaders)
  BY <1>3, <1>4 DEF MatchInv, ReadersOpen, NoDeadQueued
<1>7. PICK r \in Rooms : /\ app.object[r] = NilRoom
                         /\ app' = CreateMatched(app, r, Roomless(app, users), g.option.number)
  BY DEF CompleteGroup
<1>8. LET gone == Elems(users) \ Elems(LeftBehind(users))
          rest == [matchUsersGroup EXCEPT ![i].users = LeftBehind(users)]
      IN  /\ matchUsersGroup' = Keep(rest, {h \in Elems(rest) : h.users # <<>>})
          /\ matchUsers' = Keep(matchUsers, Clients \ gone)
          /\ OptionsDropped(gone)
  BY DEF CompleteGroup
<1>9. MatchOf(c, i, r, users)
  BY <1>4, <1>5, <1>6, <1>7, <1>8, Zenon DEF MatchOf
<1> QED BY <1>2, <1>4, <1>9

LEMMA MatchIsMatched ==
  ASSUME MatchInv, NEW c \in Clients, Handles(c), ~InRoom(c), c \notin Elems(matchUsers),
         NEW option, CompleteGroup(c, option)
  PROVE  HandleMatched(c)
<1>1. c \in reading /\ uid[c] # NoUser
  BY DEF Handles
<1>2. PICK i \in DOMAIN matchUsersGroup, r \in Rooms, users \in Seq(Clients) :
             MatchOf(c, i, r, users)
  BY <1>1, CompletedGroup
<1>3. /\ users = Append(matchUsersGroup[i].users, c) /\ NoDuplicates(users)
      /\ Len(users) = matchUsersGroup[i].option.number
      /\ \A d \in Elems(users) : uid[d] # NoUser /\ (phase[d] # "out" \/ d \in LateReaders)
      /\ app.object[r] = NilRoom
      /\ app' = CreateMatched(app, r, Roomless(app, users), matchUsersGroup[i].option.number)
  BY <1>2, Zenon DEF MatchOf
<1> PICK number : number = matchUsersGroup[i].option.number
  OBVIOUS
<1> PICK roomless : roomless = {d \in Clients : app.room[d] = NoRoom}
  OBVIOUS
<1> PICK joiners : joiners = Keep(users, roomless)
  OBVIOUS
<1>4. matchUsersGroup[i] \in Groups /\ matchUsersGroup[i].users # <<>>
  <2>1. matchUsersGroup \in Seq(Groups) /\ GroupsAgree(matchUsersGroup, Elems(matchUsers))
    BY QueueParts DEF MatchInv, MatchTypeOK, Groups
  <2> QED BY <2>1 DEF GroupsAgree
<1>5. number \in MatchNumbers /\ number \in Int /\ number > 1
  BY <1>3, <1>4, OptionsAssumption, CountsAssumption DEF Groups
<1>6. /\ users # <<>> /\ Len(users) = number /\ users[Len(users)] = c
      /\ users[Len(users)] \in roomless
  BY <1>3, <1>4 DEF InRoom, Groups
<1>7. /\ joiners # <<>> /\ joiners[Len(joiners)] = c
  BY <1>6, KeepLast
<1>8. /\ joiners \in Seq(Clients) /\ NoDuplicates(joiners)
      /\ Elems(joiners) = Elems(users) \cap roomless
  BY <1>3, KeepProperties
<1>9. Len(joiners) <= number
  <2>1. /\ IsFiniteSet(Elems(users)) /\ Cardinality(Elems(users)) = Len(users)
        /\ Cardinality(Elems(joiners)) = Len(joiners)
    BY <1>3, <1>8, LenIsCardinality
  <2>2. Elems(joiners) \in SUBSET Elems(users)
    BY <1>8
  <2>3. Cardinality(Elems(joiners)) <= Cardinality(Elems(users))
    BY <2>1, <2>2, FS_Subset
  <2> QED BY <1>6, <2>1, <2>3
<1>10. joiners \in GroupsWith(c, number)
  <2>1. Len(joiners) \in 1..number
    <3>1. Len(joiners) \in Nat /\ Len(joiners) # 0
      BY <1>7, <1>8
    <3> QED BY <1>5, <1>9, <3>1
  <2>2. joiners \in [1..Len(joiners) -> Clients]
    <3>1. joiners \in Seq(Clients)
      BY <1>8
    <3> QED BY ONLY <3>1
  <2> QED BY <1>7, <1>8, <2>1, <2>2 DEF GroupsWith
<1>11. \A d \in Elems(joiners) : Matchable(d)
  BY <1>3, <1>8 DEF Matchable, InRoom
<1>12. app' = CreateMatched(app, r, joiners, number)
  BY <1>3 DEF Roomless
<1> QED BY <1>3, <1>5, <1>10, <1>11, <1>12 DEF HandleMatched

LEMMA ByIsMatchRoom ==
  ASSUME NEW c \in Clients, HandleMatchRoomBy(c)
  PROVE  HandleMatchRoom(c)
<1>1. PICK option \in MatchOptions :
        LET s == OutOfRoom(c)
        IN  \/ \E r \in s.rooms : MayJoin(s, r) /\ app' = JoinClient(s, r, c)
            \/ \E r \in Rooms : /\ app.object[r] = NilRoom
                                /\ app' = CreateRoom(s, r, c, Capacity(option.number))
  BY DEF HandleMatchRoomBy
<1>2. option.number \in MatchNumbers /\ Handles(c)
  BY OptionsAssumption DEF HandleMatchRoomBy
<1> QED BY <1>1, <1>2 DEF HandleMatchRoom

LEMMA MatchStepIsStep ==
  ASSUME MatchInv, [MatchNext]_matchVars
  PROVE  [Next]_vars
<1>1. ASSUME NEW c \in Clients, Elsewhere(c) PROVE Next
  BY <1>1 DEF Elsewhere, Next, UserOut, RoomHandler
<1>2. ASSUME NEW c \in Clients, GoesOut(c) PROVE Next
  BY <1>2 DEF GoesOut, Next, UserOut
<1>3. ASSUME NEW c \in Clients, HandleMatchUser(c) PROVE [Next]_vars
  <2>1. /\ Handles(c) /\ ~InRoom(c) /\ c \notin Elems(matchUsers)
        /\ \E option \in MatchOptions :
             OpenGroup(c, option) \/ JoinGroup(c, option) \/ CompleteGroup(c, option)
    BY <1>3 DEF HandleMatchUser
  <2>2. PICK option \in MatchOptions :
              OpenGroup(c, option) \/ JoinGroup(c, option) \/ CompleteGroup(c, option)
    BY <2>1
  <2>3. CASE OpenGroup(c, option) \/ JoinGroup(c, option)
    BY <2>1, <2>3 DEF OpenGroup, JoinGroup, Handles, vars
  <2>4. CASE CompleteGroup(c, option)
    BY <2>1, <2>4, MatchIsMatched DEF Next, RoomHandler
  <2> QED BY <2>2, <2>3, <2>4
<1>4. ASSUME NEW c \in Clients, HandleCannelMatchUser(c) PROVE [Next]_vars
  BY <1>4 DEF HandleCannelMatchUser, Handles, vars
<1>5. ASSUME NEW c \in Clients, HandleMatchRoomBy(c) PROVE Next
  BY <1>5, ByIsMatchRoom DEF Next, RoomHandler
<1>6. ASSUME NEW c \in Clients, HandleSetRoomMatchOption(c) PROVE [Next]_vars
  BY <1>6 DEF HandleSetRoomMatchOption, Handles, vars
<1>7. CASE UNCHANGED matchVars
  BY <1>7 DEF matchVars, vars, conns
<1> QED BY <1>1, <1>2, <1>3, <1>4, <1>5, <1>6, <1>7 DEF MatchNext

-----------------------------------------------------------------------------
\* What each action does to the queue.

LEMMA QueueNow ==
  ASSUME MatchInv
  PROVE  /\ matchUsers \in Seq(Clients) /\ matchUsersGroup \in Seq(Groups)
         /\ matchOption \in [Clients -> MatchOptions \cup {NoOption}]
         /\ roomOption \in [Rooms -> MatchOptions \cup {NoOption}]
         /\ NoDuplicates(matchUsers)
         /\ GroupsAgree(matchUsersGroup, Elems(matchUsers)) /\ Together(matchUsersGroup)
         /\ \A c \in Clients : matchOption[c] # NoOption => c \in Elems(matchUsers)
  BY QueueParts DEF MatchInv, MatchTypeOK, Groups, Queued

LEMMA QueueThen ==
  ASSUME matchUsers' \in Seq(Clients), matchUsersGroup' \in Seq(Groups),
         matchOption' \in [Clients -> MatchOptions \cup {NoOption}],
         roomOption' \in [Rooms -> MatchOptions \cup {NoOption}],
         NoDuplicates(matchUsers'),
         GroupsAgree(matchUsersGroup', Elems(matchUsers')), Together(matchUsersGroup'),
         \A c \in Clients : matchOption'[c] # NoOption => c \in Elems(matchUsers')
  PROVE  QueueAgrees' /\ WaitTogether'
<1>1. MatchTypeOK'
  BY DEF MatchTypeOK, Groups
<1>2. QueueAgrees'
  BY <1>1 DEF QueueAgrees, GroupsAgree, Queued
<1>3. WaitTogether'
  BY DEF WaitTogether, Together, Alike
<1> QED BY <1>2, <1>3

LEMMA RoomOptionsTyped ==
  ASSUME MatchInv, RoomOptionsKept
  PROVE  roomOption' \in [Rooms -> MatchOptions \cup {NoOption}]
<1>1. roomOption \in [Rooms -> MatchOptions \cup {NoOption}]
  BY QueueNow
<1> QED BY <1>1 DEF RoomOptionsKept

\* Options may be forgotten while the queue stays as it is.
LEMMA QueueKept ==
  ASSUME MatchInv, UNCHANGED <<matchUsers, matchUsersGroup>>,
         matchOption' = matchOption \/ \E gone : OptionsDropped(gone),
         roomOption' \in [Rooms -> MatchOptions \cup {NoOption}]
  PROVE  QueueAgrees' /\ WaitTogether'
<1>1. matchOption \in [Clients -> MatchOptions \cup {NoOption}]
  BY QueueNow
<1>2. /\ matchOption' \in [Clients -> MatchOptions \cup {NoOption}]
      /\ \A c \in Clients : matchOption'[c] \in {matchOption[c], NoOption}
  BY <1>1 DEF OptionsDropped
<1> QED BY <1>2, QueueNow, QueueThen

LEMMA CannelKeepsQueue ==
  ASSUME MatchInv, NEW c \in Clients, cannelMatchUser(c),
         roomOption' \in [Rooms -> MatchOptions \cup {NoOption}]
  PROVE  /\ QueueAgrees' /\ WaitTogether'
         /\ Elems(matchUsers') = Elems(matchUsers) \ {c}
<1> PICK left : left = [i \in DOMAIN matchUsersGroup |->
                          [matchUsersGroup[i] EXCEPT !.users = Keep(@, Clients \ {c})]]
  OBVIOUS
<1>1. /\ matchUsers \in Seq(Clients) /\ matchUsersGroup \in Seq(Groups)
      /\ matchOption \in [Clients -> MatchOptions \cup {NoOption}]
      /\ NoDuplicates(matchUsers)
      /\ GroupsAgree(matchUsersGroup, Elems(matchUsers)) /\ Together(matchUsersGroup)
      /\ \A d \in Clients : matchOption[d] # NoOption => d \in Elems(matchUsers)
  BY QueueNow
<1>2. /\ matchUsers' = Keep(matchUsers, Clients \ {c})
      /\ matchUsersGroup' = NonEmpty(left)
      /\ matchOption' = [d \in Clients |-> IF d = c THEN NoOption ELSE matchOption[d]]
  BY DEF cannelMatchUser, Dequeued, WithoutUser, OptionsDropped, NonEmpty
<1>3. /\ matchUsers' \in Seq(Clients) /\ NoDuplicates(matchUsers')
      /\ Elems(matchUsers') = Elems(matchUsers) \ {c}
  <2>1. Elems(matchUsers) \subseteq Clients
    BY <1>1, ElemsType
  <2>2. /\ Keep(matchUsers, Clients \ {c}) \in Seq(Clients)
        /\ NoDuplicates(Keep(matchUsers, Clients \ {c}))
        /\ Elems(Keep(matchUsers, Clients \ {c})) = Elems(matchUsers) \cap (Clients \ {c})
    BY <1>1, KeepProperties
  <2> QED BY <1>2, <2>1, <2>2
<1>4. ASSUME NEW i \in DOMAIN matchUsersGroup
      PROVE  /\ left[i] \in Groups /\ left[i].option = matchUsersGroup[i].option
             /\ NoDuplicates(left[i].users)
             /\ Elems(left[i].users) = Elems(matchUsersGroup[i].users) \ {c}
  <2> PICK users : users = matchUsersGroup[i].users
    OBVIOUS
  <2>1. matchUsersGroup[i] \in Groups /\ NoDuplicates(users)
    BY <1>1 DEF GroupsAgree
  <2>2. users \in Seq(Clients)
    BY <2>1 DEF Groups
  <2>3. /\ Keep(users, Clients \ {c}) \in Seq(Clients)
        /\ NoDuplicates(Keep(users, Clients \ {c}))
        /\ Elems(Keep(users, Clients \ {c})) = Elems(users) \cap (Clients \ {c})
    BY <2>1, <2>2, KeepProperties
  <2>4. Elems(users) \subseteq Clients
    BY <2>2, ElemsType
  <2>5. /\ left[i] \in Groups /\ left[i].option = matchUsersGroup[i].option
        /\ left[i].users = Keep(users, Clients \ {c})
    BY <2>1, <2>3 DEF Groups
  <2> QED BY <2>3, <2>4, <2>5
<1>5. left \in Seq(Groups) /\ Len(left) = Len(matchUsersGroup)
  <2> PICK n : n = Len(matchUsersGroup)
    OBVIOUS
  <2>1. n \in Nat /\ DOMAIN matchUsersGroup = 1..n
    BY <1>1
  <2>2. left \in [1..n -> Groups]
    BY <1>4, <2>1
  <2> QED BY ONLY <2>1, <2>2, n = Len(matchUsersGroup)
<1>6. /\ matchUsersGroup' \in Seq(Groups) /\ Together(matchUsersGroup')
      /\ GroupsAgree(matchUsersGroup', Elems(matchUsers) \ {c})
  <2>1. SomeLess(matchUsersGroup, left, {c})
    BY <1>4, <1>5 DEF SomeLess
  <2> QED BY <1>1, <1>2, <2>1, GroupsLeft
<1>7. /\ matchOption' \in [Clients -> MatchOptions \cup {NoOption}]
      /\ \A d \in Clients : matchOption'[d] # NoOption => d \in Elems(matchUsers')
  BY <1>1, <1>2, <1>3
<1> QED BY <1>3, <1>6, <1>7, QueueThen

\* A group that c is in and that is full has a first user who is in a room.
Filled(c) ==
  \A g \in Elems(matchUsersGroup') :
     c \in Elems(g.users) /\ Len(g.users) = g.option.number => InRoom(g.users[1])

LEMMA EnqueueKeepsQueue ==
  ASSUME MatchInv, NEW c \in Clients, c \notin Elems(matchUsers),
         NEW option \in MatchOptions, Playable(option), RoomOptionsKept,
         OpenGroup(c, option) \/ JoinGroup(c, option)
  PROVE  /\ QueueAgrees' /\ WaitTogether' /\ Filled(c)
         /\ Elems(matchUsers') = Elems(matchUsers) \cup {c}
<1>1. /\ matchUsers \in Seq(Clients) /\ matchUsersGroup \in Seq(Groups)
      /\ matchOption \in [Clients -> MatchOptions \cup {NoOption}]
      /\ NoDuplicates(matchUsers)
      /\ GroupsAgree(matchUsersGroup, Elems(matchUsers)) /\ Together(matchUsersGroup)
      /\ \A d \in Clients : matchOption[d] # NoOption => d \in Elems(matchUsers)
  BY QueueNow
<1>2. /\ matchUsers' = Append(matchUsers, c)
      /\ matchOption' = [matchOption EXCEPT ![c] = option]
  BY DEF OpenGroup, JoinGroup, Enqueued
<1>3. /\ matchUsers' \in Seq(Clients) /\ NoDuplicates(matchUsers')
      /\ Elems(matchUsers') = Elems(matchUsers) \cup {c}
  BY <1>1, <1>2, AppendElems
<1>4. /\ matchOption' \in [Clients -> MatchOptions \cup {NoOption}]
      /\ \A d \in Clients : matchOption'[d] # NoOption => d \in Elems(matchUsers')
  BY <1>1, <1>2, <1>3
<1>5. ASSUME matchUsersGroup' \in Seq(Groups), Together(matchUsersGroup'),
             GroupsAgree(matchUsersGroup', Elems(matchUsers) \cup {c})
      PROVE  QueueAgrees' /\ WaitTogether'
  BY <1>3, <1>4, <1>5, RoomOptionsTyped, QueueThen
<1>6. CASE OpenGroup(c, option)
  <2>1. /\ Fitting(option, c) = {}
        /\ matchUsersGroup' = Append(matchUsersGroup, [users |-> <<c>>, option |-> option])
    BY <1>6 DEF OpenGroup
  <2>2. option \in {o \in MatchOptions : o.number > 1} /\ option # NoOption
    BY OptionsAssumption DEF Playable
  <2>3. \A i \in DOMAIN matchUsersGroup :
           Alike(matchUsersGroup[i].option, option)
             => matchUsersGroup[i].option.range # AnyValue
    BY <2>1, <2>2 DEF Fitting, matchClient, Alike
  <2>4. /\ matchUsersGroup' \in Seq(Groups) /\ Together(matchUsersGroup')
        /\ GroupsAgree(matchUsersGroup', Elems(matchUsers) \cup {c})
        /\ \A h \in Elems(matchUsersGroup') :
             c \in Elems(h.users) => Len(h.users) # h.option.number
    BY <1>1, <2>1, <2>2, <2>3, GroupOpened
  <2> QED BY <1>3, <1>5, <2>4 DEF Filled
<1>7. CASE JoinGroup(c, option)
  <2> PICK i : i = Least(Fitting(option, c))
    OBVIOUS
  <2> PICK g : g = matchUsersGroup[i]
    OBVIOUS
  <2>1. /\ ~Completes(g) \/ InRoom(g.users[1])
        /\ matchUsersGroup' = [matchUsersGroup EXCEPT ![i].users = Append(@, c)]
    BY <1>7 DEF JoinGroup
  <2>2. i \in DOMAIN matchUsersGroup
    <3>1. Fitting(option, c) \subseteq DOMAIN matchUsersGroup /\ Fitting(option, c) # {}
      BY <1>7 DEF Fitting, JoinGroup
    <3>2. Fitting(option, c) \in SUBSET Nat
      BY <1>1, <3>1
    <3> QED BY <3>1, <3>2, LeastProperties
  <2>3. /\ matchUsersGroup' \in Seq(Groups) /\ Together(matchUsersGroup')
        /\ GroupsAgree(matchUsersGroup', Elems(matchUsers) \cup {c})
        /\ \A h \in Elems(matchUsersGroup') :
             c \in Elems(h.users) => h = matchUsersGroup'[i]
    <3> PICK new : new = matchUsersGroup'
      OBVIOUS
    <3> PICK joined : joined = [g EXCEPT !.users = Append(@, c)]
      OBVIOUS
    <3> PICK waiting : waiting = Elems(matchUsers)
      OBVIOUS
    <3>1. /\ matchUsersGroup \in Seq(Groups) /\ GroupsAgree(matchUsersGroup, waiting)
          /\ Together(matchUsersGroup) /\ c \notin waiting
      BY <1>1
    <3>2. g \in Groups /\ g = matchUsersGroup[i]
      BY <1>1, <2>2
    <3>3. /\ joined \in Groups /\ joined.users = Append(g.users, c) /\ joined.option = g.option
      BY <3>2, AppendElems DEF Groups
    <3>4. new = [matchUsersGroup EXCEPT ![i] = joined]
      BY <2>1
    <3>5. /\ new \in Seq(Groups) /\ DOMAIN new = DOMAIN matchUsersGroup
          /\ new[i] = joined /\ \A k \in DOMAIN matchUsersGroup \ {i} : new[k] = matchUsersGroup[k]
      BY <1>1, <2>2, <3>3, <3>4
    <3>6. Together(new) /\ GroupsAgree(new, waiting \cup {c}) /\ OnlyIn(new, i, c)
      <4>1. OneMore(matchUsersGroup, new, i, c)
        BY <3>2, <3>3, <3>5 DEF OneMore
      <4> QED BY <2>2, <3>1, <4>1, GroupJoined
    <3> QED BY <3>5, <3>6 DEF OnlyIn
  <2>4. /\ matchUsersGroup'[i].users = Append(g.users, c)
        /\ matchUsersGroup'[i].option = g.option
        /\ g.users \in Seq(Clients) /\ g.users # <<>>
    <3>1. g \in Groups /\ g.users # <<>>
      BY <1>1, <2>2 DEF GroupsAgree
    <3> QED BY <1>1, <2>1, <2>2, <3>1 DEF Groups
  <2>5. /\ Append(g.users, c)[1] = g.users[1]
        /\ Len(Append(g.users, c)) = Len(g.users) + 1
    BY <2>4
  <2>6. Filled(c)
    BY <2>1, <2>3, <2>4, <2>5 DEF Filled, Completes
  <2> QED BY <1>3, <1>5, <2>3, <2>6
<1> QED BY <1>6, <1>7

LEMMA CompleteKeepsQueue ==
  ASSUME MatchInv, NEW c \in Clients, c \in reading, uid[c] # NoUser, ~InRoom(c),
         c \notin Elems(matchUsers), NEW option, CompleteGroup(c, option), RoomOptionsKept
  PROVE  /\ QueueAgrees' /\ WaitTogether'
         /\ Elems(matchUsers') \subseteq Elems(matchUsers)
<1>1. /\ matchUsers \in Seq(Clients) /\ matchUsersGroup \in Seq(Groups)
      /\ matchOption \in [Clients -> MatchOptions \cup {NoOption}]
      /\ NoDuplicates(matchUsers)
      /\ GroupsAgree(matchUsersGroup, Elems(matchUsers)) /\ Together(matchUsersGroup)
      /\ \A d \in Clients : matchOption[d] # NoOption => d \in Elems(matchUsers)
  BY QueueNow
<1>2. PICK i \in DOMAIN matchUsersGroup, r \in Rooms, users \in Seq(Clients) :
             MatchOf(c, i, r, users)
  BY CompletedGroup
<1> PICK stay : stay = LeftBehind(users)
  OBVIOUS
<1> PICK gone : gone = Elems(users) \ Elems(stay)
  OBVIOUS
<1> PICK rest : rest = [matchUsersGroup EXCEPT ![i].users = stay]
  OBVIOUS
<1> PICK full : full = [matchUsersGroup EXCEPT ![i].users = Append(@, c)]
  OBVIOUS
<1>3. /\ users = Append(matchUsersGroup[i].users, c) /\ NoDuplicates(users)
      /\ matchUsersGroup' = NonEmpty(rest)
      /\ matchUsers' = Keep(matchUsers, Clients \ gone)
      /\ matchOption' = [d \in Clients |-> IF d \in gone THEN NoOption ELSE matchOption[d]]
  BY <1>2 DEF MatchOf, OptionsDropped, NonEmpty
<1>4. /\ matchUsersGroup[i] \in Groups /\ matchUsersGroup[i].users \in Seq(Clients)
  <2>1. matchUsersGroup[i] \in Groups
    BY <1>1, <1>2
  <2> QED BY <2>1 DEF Groups
<1>5. /\ users # <<>> /\ users[Len(users)] = c
      /\ Elems(users) = Elems(matchUsersGroup[i].users) \cup {c}
  <2>1. users # <<>> /\ users[Len(users)] = c
    BY <1>3, <1>4
  <2> QED BY <1>3, <1>4, <2>1, AppendElems
<1>6. /\ stay \in Seq(Clients) /\ NoDuplicates(stay)
      /\ Elems(stay) \subseteq Elems(users) \ {c}
  BY <1>2, <1>3, <1>5, LastNotLeft
<1>7. c \in gone /\ Elems(stay) = Elems(users) \ gone
  BY <1>5, <1>6
<1> PICK waiting : waiting = Elems(matchUsers) \cup {c}
  OBVIOUS
<1>8. /\ DOMAIN full = DOMAIN matchUsersGroup /\ Len(full) = Len(matchUsersGroup)
      /\ full \in Seq(Groups)
      /\ full[i].users = users /\ full[i].option = matchUsersGroup[i].option
      /\ \A k \in DOMAIN matchUsersGroup \ {i} : full[k] = matchUsersGroup[k]
  <2> PICK h : h = [matchUsersGroup[i] EXCEPT !.users = users]
    OBVIOUS
  <2>1. h \in Groups /\ h.users = users /\ h.option = matchUsersGroup[i].option
    BY <1>2, <1>4 DEF Groups
  <2>2. full = [matchUsersGroup EXCEPT ![i] = h]
    BY <1>3, <1>4 DEF Groups
  <2>3. /\ full \in Seq(Groups) /\ DOMAIN full = DOMAIN matchUsersGroup
        /\ Len(full) = Len(matchUsersGroup)
    BY ONLY <1>1, i \in DOMAIN matchUsersGroup, <2>1, <2>2
  <2>4. full[i] = h /\ \A k \in DOMAIN matchUsersGroup \ {i} : full[k] = matchUsersGroup[k]
    BY <1>1, <1>2, <2>2
  <2> QED BY <2>1, <2>3, <2>4
<1>9. Together(full) /\ GroupsAgree(full, waiting)
  <2> PICK queued : queued = Elems(matchUsers)
    OBVIOUS
  <2>1. /\ matchUsersGroup \in Seq(Groups) /\ GroupsAgree(matchUsersGroup, queued)
        /\ Together(matchUsersGroup) /\ c \notin queued
    BY <1>1
  <2>2. Together(full) /\ GroupsAgree(full, queued \cup {c})
    <3>1. OneMore(matchUsersGroup, full, i, c)
      BY <1>3, <1>8 DEF OneMore
    <3> QED BY <1>2, <2>1, <3>1, GroupJoined
  <2> QED BY <2>2
<1>10. /\ DOMAIN rest = DOMAIN matchUsersGroup /\ Len(rest) = Len(matchUsersGroup)
       /\ rest \in Seq(Groups)
       /\ rest[i].users = stay /\ rest[i].option = matchUsersGroup[i].option
       /\ \A k \in DOMAIN matchUsersGroup \ {i} : rest[k] = matchUsersGroup[k]
  <2> PICK h : h = [matchUsersGroup[i] EXCEPT !.users = stay]
    OBVIOUS
  <2>1. h \in Groups /\ h.users = stay /\ h.option = matchUsersGroup[i].option
    BY <1>4, <1>6 DEF Groups
  <2>2. rest = [matchUsersGroup EXCEPT ![i] = h]
    OBVIOUS
  <2>3. /\ rest \in Seq(Groups) /\ DOMAIN rest = DOMAIN matchUsersGroup
        /\ Len(rest) = Len(matchUsersGroup)
    BY <1>1, <1>2, <2>1, <2>2
  <2>4. rest[i] = h /\ \A k \in DOMAIN matchUsersGroup \ {i} : rest[k] = matchUsersGroup[k]
    BY <1>1, <1>2, <2>2
  <2> QED BY <2>1, <2>3, <2>4
<1>11. ASSUME NEW k \in DOMAIN full
       PROVE  /\ rest[k].option = full[k].option /\ NoDuplicates(rest[k].users)
              /\ Elems(rest[k].users) = Elems(full[k].users) \ gone
  <2>1. CASE k = i
    BY <1>6, <1>7, <1>8, <1>10, <2>1
  <2>2. CASE k # i
    <3>1. rest[k] = full[k] /\ NoDuplicates(full[k].users)
      BY <1>8, <1>9, <1>10, <2>2 DEF GroupsAgree
    <3>2. Elems(full[k].users) \cap Elems(full[i].users) = {}
      BY <1>2, <1>8, <1>9, <2>2 DEF GroupsAgree
    <3> QED BY <1>8, <3>1, <3>2
  <2> QED BY <2>1, <2>2
<1>12. /\ matchUsersGroup' \in Seq(Groups) /\ Together(matchUsersGroup')
       /\ GroupsAgree(matchUsersGroup', waiting \ gone)
  <2>1. SomeLess(full, rest, gone)
    BY <1>8, <1>10, <1>11 DEF SomeLess
  <2>2. full \in Seq(Groups) /\ Together(full) /\ GroupsAgree(full, waiting)
    BY <1>8, <1>9
  <2> QED BY <1>3, <2>1, <2>2, GroupsLeft
<1>13. /\ matchUsers' \in Seq(Clients) /\ NoDuplicates(matchUsers')
       /\ Elems(matchUsers') = waiting \ gone
  <2>1. Elems(matchUsers) \subseteq Clients
    BY <1>1, ElemsType
  <2>2. /\ Keep(matchUsers, Clients \ gone) \in Seq(Clients)
        /\ NoDuplicates(Keep(matchUsers, Clients \ gone))
        /\ Elems(Keep(matchUsers, Clients \ gone)) = Elems(matchUsers) \cap (Clients \ gone)
    BY <1>1, KeepProperties
  <2>3. Elems(matchUsers) \cap (Clients \ gone) = waiting \ gone
    BY <1>7, <2>1
  <2> QED BY <1>3, <2>2, <2>3
<1>14. /\ matchOption' \in [Clients -> MatchOptions \cup {NoOption}]
       /\ \A d \in Clients : matchOption'[d] # NoOption => d \in Elems(matchUsers')
  BY <1>1, <1>3, <1>13
<1>15. QueueAgrees' /\ WaitTogether'
  BY <1>12, <1>13, <1>14, RoomOptionsTyped, QueueThen
<1> QED BY <1>7, <1>13, <1>15

\* Whoever comes into the queue asked for a match, and did not wait in vain.
Newcomers ==
  \A d \in Clients : ~Queued(d) /\ Queued(d)' => Handles(d) /\ Filled(d)

LEMMA MatchUserStep ==
  ASSUME MatchInv, NEW c \in Clients, HandleMatchUser(c)
  PROVE  QueueAgrees' /\ WaitTogether' /\ Newcomers
<1>1. /\ Handles(c) /\ ~InRoom(c) /\ c \notin Elems(matchUsers) /\ RoomOptionsKept
      /\ c \in reading /\ uid[c] # NoUser
  BY DEF HandleMatchUser, Handles
<1>2. PICK option \in MatchOptions :
            /\ Playable(option)
            /\ OpenGroup(c, option) \/ JoinGroup(c, option) \/ CompleteGroup(c, option)
  BY DEF HandleMatchUser
<1>3. CASE OpenGroup(c, option) \/ JoinGroup(c, option)
  <2>1. /\ QueueAgrees' /\ WaitTogether' /\ Filled(c)
        /\ Elems(matchUsers') = Elems(matchUsers) \cup {c}
    BY <1>1, <1>2, <1>3, EnqueueKeepsQueue
  <2>2. Newcomers
    BY <1>1, <2>1 DEF Newcomers, Queued
  <2> QED BY <2>1, <2>2
<1>4. CASE CompleteGroup(c, option)
  <2>1. /\ QueueAgrees' /\ WaitTogether'
        /\ Elems(matchUsers') \subseteq Elems(matchUsers)
    BY <1>1, <1>4, CompleteKeepsQueue
  <2>2. Newcomers
    BY <2>1 DEF Newcomers, Queued
  <2> QED BY <2>1, <2>2
<1> QED BY <1>2, <1>3, <1>4

LEMMA MatchRoomByRooms ==
  ASSUME MatchInv, NEW c \in Clients, HandleMatchRoomBy(c)
  PROVE  roomOption' \in [Rooms -> MatchOptions \cup {NoOption}]
<1>1. RoomOptionsKept \/
        \E option \in MatchOptions, r \in Rooms :
           roomOption' = [q \in Rooms |->
             IF q = r THEN option
             ELSE IF app'.object[q] = NilRoom THEN NoOption ELSE roomOption[q]]
  BY DEF HandleMatchRoomBy
<1>2. roomOption \in [Rooms -> MatchOptions \cup {NoOption}]
  BY QueueNow
<1> QED BY <1>1, <1>2, RoomOptionsTyped

LEMMA QueueStep ==
  ASSUME MatchInv, [MatchNext]_matchVars
  PROVE  QueueAgrees' /\ WaitTogether' /\ Newcomers
<1>1. ASSUME UNCHANGED <<matchUsers, matchUsersGroup>>,
             matchOption' = matchOption \/ \E gone : OptionsDropped(gone),
             roomOption' \in [Rooms -> MatchOptions \cup {NoOption}]
      PROVE  QueueAgrees' /\ WaitTogether' /\ Newcomers
  <2>1. Newcomers
    BY <1>1 DEF Newcomers, Queued
  <2> QED BY <1>1, <2>1, QueueKept
<1>2. ASSUME NEW c \in Clients, cannelMatchUser(c),
             roomOption' \in [Rooms -> MatchOptions \cup {NoOption}]
      PROVE  QueueAgrees' /\ WaitTogether' /\ Newcomers
  <2>1. /\ QueueAgrees' /\ WaitTogether'
        /\ Elems(matchUsers') = Elems(matchUsers) \ {c}
    BY <1>2, CannelKeepsQueue
  <2> QED BY <2>1 DEF Newcomers, Queued
<1>3. roomOption \in [Rooms -> MatchOptions \cup {NoOption}]
  BY QueueNow
<1>4. ASSUME NEW c \in Clients, Elsewhere(c)
      PROVE  QueueAgrees' /\ WaitTogether' /\ Newcomers
  BY <1>1, <1>4, RoomOptionsTyped DEF Elsewhere
<1>5. ASSUME NEW c \in Clients, GoesOut(c)
      PROVE  QueueAgrees' /\ WaitTogether' /\ Newcomers
  BY <1>2, <1>5, RoomOptionsTyped DEF GoesOut
<1>6. ASSUME NEW c \in Clients, HandleCannelMatchUser(c)
      PROVE  QueueAgrees' /\ WaitTogether' /\ Newcomers
  BY <1>2, <1>3, <1>6 DEF HandleCannelMatchUser
<1>7. ASSUME NEW c \in Clients, HandleMatchRoomBy(c)
      PROVE  QueueAgrees' /\ WaitTogether' /\ Newcomers
  <2>1. UNCHANGED <<matchUsers, matchUsersGroup>> /\ \E gone : OptionsDropped(gone)
    BY <1>7 DEF HandleMatchRoomBy
  <2> QED BY <1>1, <1>7, <2>1, MatchRoomByRooms
<1>8. ASSUME NEW c \in Clients, HandleSetRoomMatchOption(c)
      PROVE  QueueAgrees' /\ WaitTogether' /\ Newcomers
  <2>1. /\ UNCHANGED <<matchUsers, matchUsersGroup, matchOption>>
        /\ roomOption' \in [Rooms -> MatchOptions \cup {NoOption}]
    BY <1>3, <1>8 DEF HandleSetRoomMatchOption
  <2> QED BY <1>1, <2>1
<1>9. CASE UNCHANGED matchVars
  <2>1. UNCHANGED <<matchUsers, matchUsersGroup, matchOption, roomOption>>
    BY <1>9 DEF matchVars, queue
  <2> QED BY <1>1, <1>3, <2>1
<1> QED BY <1>4, <1>5, <1>6, <1>7, <1>8, <1>9, MatchUserStep DEF MatchNext

\* Who waits is logged in, and is out of the queue with his connection.
LEMMA NoDeadStep ==
  ASSUME MatchInv, [MatchNext]_matchVars, Newcomers
  PROVE  NoDeadQueued'
<1>1. /\ phase \in [Clients -> Phases] /\ reading \subseteq Clients
      /\ uid \in [Clients -> Users \cup {NoUser}]
  BY DEF MatchInv, IInv, ConnsOK
<1>2. QueueAgrees'
  BY QueueStep
<1>3. Elems(matchUsers) \subseteq Clients /\ Elems(matchUsers') \subseteq Clients
  <2>1. matchUsers \in Seq(Clients) /\ matchUsers' \in Seq(Clients)
    BY <1>2, QueueNow DEF QueueAgrees, MatchTypeOK
  <2> QED BY <2>1, ElemsType
<1>4. \A d \in Elems(matchUsers) :
         uid[d] # NoUser /\ (phase[d] # "out" \/ d \in LateReaders)
  BY DEF MatchInv, NoDeadQueued
<1>5. CASE UNCHANGED conns
  <2> SUFFICES ASSUME NEW d \in Elems(matchUsers')
               PROVE  uid[d] # NoUser /\ (phase[d] # "out" \/ d \in LateReaders)
    BY <1>5 DEF NoDeadQueued, conns
  <2>1. CASE d \in Elems(matchUsers)
    BY <1>4, <2>1
  <2>2. CASE d \notin Elems(matchUsers)
    BY <1>3, <2>2 DEF Newcomers, Queued, Handles, MatchInv, ReadersOpen
  <2> QED BY <2>1, <2>2
<1>6. ASSUME NEW c \in Clients, ConnectionEvent(c), matchUsers' = matchUsers
      PROVE  NoDeadQueued'
  <2>1. \A d \in Clients : /\ phase'[d] = "out" => phase[d] = "out"
                           /\ uid[d] # NoUser => uid'[d] # NoUser
    <3>1. ASSUME NEW S, ServerCloses(S)
          PROVE  \A d \in Clients : phase'[d] = "out" => phase[d] = "out"
      BY <1>1, <3>1 DEF ServerCloses
    <3>2. CASE Accept(c) \/ Disconnect(c)
      BY <1>1, <3>2 DEF Accept, Disconnect
    <3>3. CASE Dropped(c)
      BY <3>1, <3>3 DEF Dropped
    <3>4. ASSUME NEW u \in Users, Login(c, u)
          PROVE  \A d \in Clients : /\ phase'[d] = "out" => phase[d] = "out"
                                    /\ uid[d] # NoUser => uid'[d] # NoUser
      BY <1>1, <3>1, <3>4 DEF Login
    <3> QED BY <1>6, <3>2, <3>3, <3>4 DEF ConnectionEvent
  <2> QED BY <1>3, <1>4, <1>6, <2>1 DEF NoDeadQueued
<1>12. ASSUME NEW c \in Clients, GoOffline(c), matchUsers' = matchUsers
       PROVE  NoDeadQueued'
  <2>1. uid' = uid /\ \A d \in Clients : phase'[d] = "out" => phase[d] = "out"
    BY <1>1, <1>12 DEF GoOffline
  <2> QED BY <1>3, <1>4, <1>12, <2>1 DEF NoDeadQueued
<1>7. ASSUME NEW c \in Clients, GoesOut(c)
      PROVE  NoDeadQueued'
  <2>1. Elems(matchUsers') = Elems(matchUsers) \ {c}
    BY <1>7, RoomOptionsTyped, CannelKeepsQueue DEF GoesOut
  <2>2. uid' = uid /\ \A d \in Clients \ {c} : phase'[d] = phase[d]
    BY <1>1, <1>7 DEF GoesOut, OnUserOut
  <2> QED BY <1>3, <1>4, <2>1, <2>2 DEF NoDeadQueued
<1>8. ASSUME NEW c \in Clients, JoinHandler(c) \/ MemberHandler(c)
      PROVE  UNCHANGED conns
  <2>1. RoomHandler(c)
    BY <1>8 DEF RoomHandler
  <2> QED BY <2>1, HandlerWays, MatchedGroup
          DEF MatchInv, Reset, Reseat, SweepOut, Join, Create
<1>9. ASSUME NEW c \in Clients, Elsewhere(c)
      PROVE  NoDeadQueued'
  BY <1>5, <1>6, <1>8, <1>9, <1>12 DEF Elsewhere
<1>10. ASSUME NEW c \in Clients,
              \/ HandleMatchUser(c) \/ HandleCannelMatchUser(c)
              \/ HandleMatchRoomBy(c) \/ HandleSetRoomMatchOption(c)
       PROVE  UNCHANGED conns
  BY <1>10 DEF HandleMatchUser, HandleCannelMatchUser, HandleMatchRoomBy,
               HandleSetRoomMatchOption, Handles
<1>11. CASE UNCHANGED matchVars
  BY <1>5, <1>11 DEF matchVars, conns
<1> QED BY <1>5, <1>7, <1>9, <1>10, <1>11 DEF MatchNext

LEMMA MatchStepInv == MatchInv /\ [MatchNext]_matchVars => MatchInv'
<1> SUFFICES ASSUME MatchInv, [MatchNext]_matchVars PROVE MatchInv'
  OBVIOUS
<1>1. [Next]_vars
  BY MatchStepIsStep
<1>2. IInv' /\ ReadersOpen'
  BY <1>1, StepInv, ReadersStep DEF MatchInv
<1>3. QueueAgrees' /\ WaitTogether' /\ Newcomers
  BY QueueStep
<1>4. NoDeadQueued'
  BY <1>3, NoDeadStep
<1> QED BY <1>2, <1>3, <1>4 DEF MatchInv

LEMMA MatchInvariance == MatchSpec => []MatchInv
  BY MatchInitInv, MatchStepInv, PTL DEF MatchSpec

-----------------------------------------------------------------------------
\* Whatever the queue does to rooms and connections is a step of Rooms: the room
\* that mathMatch makes of a complete group is one that Rooms allows, for no user of
\* the group is gone, twice in it, or too many.  So every theorem about Rooms
\* holds with matchmaking.
THEOREM MatchmakingUsesRooms == MatchSpec => UsesRooms
<1>1. MatchInit => Init
  BY DEF MatchInit
<1>2. MatchInv /\ [MatchNext]_matchVars => [Next]_vars
  BY MatchStepIsStep
<1> QED BY <1>1, <1>2, MatchInvariance, PTL DEF MatchSpec, UsesRooms, Spec

\* Matchs.matchUsers, the groups and Client.matchOption agree, although mathMatch
\* leaves half of a matched group behind: who waits is in one group, once.
THEOREM QueueAlwaysAgrees == MatchSpec => []QueueAgrees
<1>1. MatchInv => QueueAgrees
  BY DEF MatchInv
<1> QED BY <1>1, MatchInvariance, PTL

\* OnUserOut takes a client out of the queue: nobody waits whose connection is
\* gone, except who is still read from after that.
THEOREM NobodyDeadWaits == MatchSpec => []NoDeadQueued
<1>1. MatchInv => NoDeadQueued
  BY DEF MatchInv
<1> QED BY <1>1, MatchInvariance, PTL

\* matchClient opens no second group for those who ask for the same without a
\* range, whoever has left the queue meanwhile and in whatever order.
THEOREM AlikeWaitTogether == MatchSpec => []WaitTogether
<1>1. MatchInv => WaitTogether
  BY DEF MatchInv
<1> QED BY <1>1, MatchInvariance, PTL

-----------------------------------------------------------------------------
\* But for a match, one step brings one client into a room at most.
LEMMA HandlerBringsOne ==
  ASSUME IInv, NEW c \in Clients, JoinHandler(c) \/ MemberHandler(c) \/ HandleMatchRoom(c),
         NEW d \in Clients \ {c}
  PROVE  app'.room[d] \in {app.room[d], NoRoom}
<1>1. AppInv(app) /\ app \in AppState
  BY DEF IInv, AppInv, Coherent, Typed
<1>2. CASE \/ HandleStartFrameSync(c) \/ HandleSwitchSeat(c) \/ HandleLockRoom(c)
           \/ HandleUpdateRoomOption(c)
  <2>1. app'.room = app.room
    BY <1>1, <1>2 DEF HandleStartFrameSync, HandleSwitchSeat, HandleLockRoom,
                      HandleUpdateRoomOption, AppState
  <2> QED BY <2>1
<1>3. CASE SweepOut(c) \/ Exit(c)
  BY <1>1, <1>3, ExitRooms
<1> PICK s : s = OutOfRoom(c)
  OBVIOUS
<1>4. AppInv(s) /\ s.room[c] = NoRoom /\ s.room[d] \in {app.room[d], NoRoom}
  BY <1>1, OutOfRoomInv, OutOfRoomTidied DEF Tidied
<1>5. CASE Join(c)
  <2>1. PICK r \in s.rooms : app' = JoinClient(s, r, c)
    BY <1>5 DEF Join
  <2>2. r \in Rooms
    BY <1>4 DEF AppInv, Coherent, Typed, AppState
  <2>3. Joined(s, app', r, c)
    BY <1>4, <2>1, <2>2, JoinEffect DEF AppInv
  <2> QED BY <1>4, <2>3 DEF Joined
<1>6. CASE Create(c)
  <2>1. PICK r \in Rooms, asked \in MatchNumbers \cup {0} :
               s.object[r] = NilRoom /\ app' = CreateRoom(s, r, c, Capacity(asked))
    BY <1>6 DEF Create
  <2>2. Capacity(asked) \in Int
    BY CountsAssumption, CapacityType
  <2>3. Created(s, app', r, <<c>>, Capacity(asked))
    BY <1>4, <2>1, <2>2, CreateEffect
  <2>4. Elems(<<c>>) = {c}
    BY DEF Elems
  <2> QED BY <1>4, <2>3, <2>4 DEF Created
<1> QED BY <1>2, <1>3, <1>5, <1>6, MoverWays DEF MemberHandler

LEMMA OneComesIn ==
  ASSUME IInv, SessionInv, [MatchNext]_matchVars,
         \A c \in Clients, option \in MatchOptions :
            HandleMatchUser(c) => ~CompleteGroup(c, option)
  PROVE  \E e : \A d \in Clients \ {e} : app'.room[d] \in {app.room[d], NoRoom}
<1>1. AppInv(app) /\ ConnsOK
  BY DEF IInv
<1>2. CASE app' = app
  BY <1>2
<1>3. ASSUME NEW c \in Clients, JoinHandler(c) \/ MemberHandler(c) \/ HandleMatchRoom(c)
      PROVE  \A d \in Clients \ {c} : app'.room[d] \in {app.room[d], NoRoom}
  BY <1>3, HandlerBringsOne
<1>4. ASSUME NEW c \in Clients, NEW u \in Users, Login(c, u)
      PROVE  \A d \in Clients \ {c} : app'.room[d] \in {app.room[d], NoRoom}
  <2> PICK old : old = account[u]
    OBVIOUS
  <2> PICK connected : connected = Connected
    OBVIOUS
  <2>1. /\ old \in Clients \cup {NoClient} /\ ~InRoom(c)
        /\ app' = Collect(TakeOver(app, old, c, connected))
    BY <1>1, <1>4 DEF Login, SessionInv, ConnsOK
  <2>2. Collect(app).room = app.room
    BY <1>1, CollectEffect
  <2>3. app' = Collect(app) \/ \E r : TakenOver(app', r, old, c, connected)
    BY <1>1, <2>1, TakeOverEffect
  <2> QED BY <2>2, <2>3 DEF TakenOver
<1>5. ASSUME NEW c \in Clients, OnUserOut(c)
      PROVE  \A d \in Clients : app'.room[d] \in {app.room[d], NoRoom}
  BY <1>1, <1>5, OutWays, ExitRooms
<1>6. ASSUME NEW c \in Clients, Elsewhere(c)
      PROVE  \E e : \A d \in Clients \ {e} : app'.room[d] \in {app.room[d], NoRoom}
  <2>1. CASE JoinHandler(c) \/ MemberHandler(c)
    BY <1>3, <2>1
  <2>2. CASE ConnectionEvent(c) \/ GoOffline(c)
    <3>1. Accept(c) \/ Disconnect(c) \/ Dropped(c) \/ GoOffline(c) => app' = app
      BY DEF Accept, Disconnect, Dropped, GoOffline
    <3> QED BY <1>2, <1>4, <2>2, <3>1 DEF ConnectionEvent
  <2> QED BY <1>6, <2>1, <2>2 DEF Elsewhere
<1>7. ASSUME NEW c \in Clients, HandleMatchRoomBy(c)
      PROVE  \A d \in Clients \ {c} : app'.room[d] \in {app.room[d], NoRoom}
  BY <1>3, <1>7, ByIsMatchRoom
<1>8. ASSUME NEW c \in Clients,
             HandleMatchUser(c) \/ HandleCannelMatchUser(c) \/ HandleSetRoomMatchOption(c)
      PROVE  app' = app
  <2>1. HandleCannelMatchUser(c) \/ HandleSetRoomMatchOption(c) => app' = app
    BY DEF HandleCannelMatchUser, HandleSetRoomMatchOption
  <2>2. HandleMatchUser(c) => \E option \in MatchOptions :
                                 OpenGroup(c, option) \/ JoinGroup(c, option)
    BY DEF HandleMatchUser
  <2>3. \A option : OpenGroup(c, option) \/ JoinGroup(c, option) => app' = app
    BY DEF OpenGroup, JoinGroup
  <2> QED BY <1>8, <2>1, <2>2, <2>3
<1>9. UNCHANGED matchVars => app' = app
  BY DEF matchVars
<1> QED BY <1>2, <1>5, <1>6, <1>7, <1>8, <1>9 DEF MatchNext, GoesOut

LEMMA SmallRoom ==
  ASSUME IInv, IInv', NEW e, \A d \in Clients \ {e} : app'.room[d] \in {app.room[d], NoRoom},
         NEW r \in Rooms, app.object[r] = NilRoom
  PROVE  ~(Len(app'.object[r].users) > 1)
<1> PICK users : users = app'.object[r].users
  OBVIOUS
<1>1. AppInv(app) /\ AppInv(app')
  BY DEF IInv
<1>2. /\ users \in Seq(Clients) /\ NoDuplicates(users)
      /\ Elems(users) = {d \in Clients : app'.room[d] = r}
      /\ Members(app, r) = {d \in Clients : app.room[d] = r}
  BY <1>1 DEF AppInv, Coherent, Typed, AppState, RoomObject, MembershipIn, Members
<1>3. \A d \in Elems(users) : d = e
  BY <1>1, <1>2, NilNotListed, SentinelsAssumption
<1> SUFFICES ASSUME Len(users) > 1 PROVE FALSE
  OBVIOUS
<1>4. 1 \in DOMAIN users /\ 2 \in DOMAIN users
  BY <1>2
<1>5. users[1] = e /\ users[2] = e
  BY <1>3, <1>4 DEF Elems
<1> QED BY <1>2, <1>4, <1>5 DEF NoDuplicates

\* A complete group in its room.
LEMMA CompletedMatch ==
  ASSUME MatchInv, NEW c \in Clients, Handles(c), ~InRoom(c), c \notin Elems(matchUsers),
         NEW option, CompleteGroup(c, option)
  PROVE  /\ \A d \in Clients : Queued(d) /\ ~Queued(d)' => InRoom(d)'
         /\ \A r \in Rooms :
              app.object[r] = NilRoom /\ Len(app'.object[r].users) > 1 => MatchedIn(r)
<1>1. c \in reading /\ uid[c] # NoUser
  BY DEF Handles
<1>2. PICK i \in DOMAIN matchUsersGroup, q \in Rooms, users \in Seq(Clients) :
             MatchOf(c, i, q, users)
  BY <1>1, CompletedGroup
<1> PICK g : g = matchUsersGroup[i]
  OBVIOUS
<1> PICK gone : gone = Elems(users) \ Elems(LeftBehind(users))
  OBVIOUS
<1> PICK number : number = g.option.number
  OBVIOUS
<1> PICK roomless : roomless = {d \in Clients : app.room[d] = NoRoom}
  OBVIOUS
<1> PICK joiners : joiners = Keep(users, roomless)
  OBVIOUS
<1>3. /\ users = Append(g.users, c) /\ NoDuplicates(users)
      /\ Len(users) = number /\ ~InRoom(users[1])
      /\ app.object[q] = NilRoom
      /\ app' = CreateMatched(app, q, joiners, number)
      /\ matchUsers' = Keep(matchUsers, Clients \ gone)
  BY <1>2, Zenon DEF MatchOf, Roomless
<1>4. /\ matchUsersGroup \in Seq(Groups) /\ matchUsers \in Seq(Clients)
      /\ g \in Groups /\ g \in Elems(matchUsersGroup) /\ AppInv(app)
      /\ number \in Int
  <2>1. matchUsersGroup \in Seq(Groups) /\ matchUsers \in Seq(Clients) /\ AppInv(app)
    BY QueueNow DEF MatchInv, IInv
  <2>2. g \in Groups /\ g \in Elems(matchUsersGroup)
    BY <1>2, <2>1 DEF Elems
  <2> QED BY <2>1, <2>2, OptionsAssumption, CountsAssumption DEF Groups
<1>5. /\ users # <<>> /\ users[1] \in roomless /\ 1 \in DOMAIN users
      /\ \A d \in Elems(users) : d \in Clients
  <2>1. Len(users) = Len(g.users) + 1 /\ Len(g.users) \in Nat
    BY <1>3, <1>4 DEF Groups
  <2>2. users # <<>> /\ 1 \in DOMAIN users
    BY <2>1
  <2> QED BY <1>3, <2>2 DEF InRoom, Elems
<1>6. /\ joiners \in Seq(Clients) /\ NoDuplicates(joiners)
      /\ Elems(joiners) = Elems(users) \cap roomless
  BY <1>3, KeepProperties
<1>7. joiners # <<>> /\ joiners[1] = users[1]
  <2>1. users[1] \in Elems(joiners)
    BY <1>5, <1>6 DEF Elems
  <2>2. joiners # <<>>
    BY <2>1 DEF Elems
  <2>3. PICK k \in DOMAIN users : /\ users[k] = joiners[1]
                                  /\ \A j \in 1..(k - 1) : users[j] \notin roomless
    BY <2>2, KeepFirst
  <2>4. k \in Nat /\ k >= 1
    OBVIOUS
  <2>5. ~(1 \in 1..(k - 1))
    BY <1>5, <2>3
  <2>6. k = 1
    BY <2>4, <2>5
  <2> QED BY <2>2, <2>3, <2>6
<1>8. Created(app, app', q, joiners, Capacity(number))
  <2>1. \A d \in Elems(joiners) : app.room[d] = NoRoom
    BY <1>6
  <2> QED BY <1>3, <1>4, <1>6, <1>7, <2>1, MatchedEffect
<1>9. \A d \in Elems(users) : InRoom(d)'
  <2> SUFFICES ASSUME NEW d \in Elems(users) PROVE app'.room[d] # NoRoom
    BY DEF InRoom
  <2>1. CASE app.room[d] = NoRoom
    BY <1>5, <1>6, <1>8, <2>1, SentinelsAssumption DEF Created
  <2>2. CASE app.room[d] # NoRoom
    BY <1>5, <1>6, <1>8, <2>2 DEF Created
  <2> QED BY <2>1, <2>2
<1>10. ASSUME NEW d \in Clients, Queued(d), ~Queued(d)' PROVE InRoom(d)'
  <2> PICK stay : stay = Clients \ gone
    OBVIOUS
  <2>1. Elems(Keep(matchUsers, stay)) = Elems(matchUsers) \cap stay
    BY <1>4, KeepProperties
  <2>2. d \in gone
    BY <1>3, <1>10, <2>1 DEF Queued
  <2> QED BY <1>9, <2>2
<1>11. ASSUME NEW r \in Rooms, app.object[r] = NilRoom, Len(app'.object[r].users) > 1
       PROVE  MatchedIn(r)
  <2>1. r = q
    <3>1. Len(NilRoom.users) = 0
      BY DEF NilRoom
    <3> QED BY <1>8, <1>11, <3>1 DEF Created
  <2>2. app'.object[r].users = Roomless(app, users) /\ app'.object[r].master = users[1]
    BY <1>7, <1>8, <2>1 DEF Created, Roomless
  <2> QED BY <1>3, <1>4, <1>9, <2>2 DEF MatchedIn
<1> QED BY <1>10, <1>11

LEMMA MatchedStep ==
  ASSUME MatchInv, SessionInv, [MatchNext]_matchVars
  PROVE  /\ \A d \in Clients :
              Queued(d) /\ ~Queued(d)' /\ app' # app /\ UNCHANGED conns => InRoom(d)'
         /\ \A r \in Rooms :
              app.object[r] = NilRoom /\ Len(app'.object[r].users) > 1 => MatchedIn(r)
<1>1. ASSUME NEW c \in Clients, NEW option, HandleMatchUser(c), CompleteGroup(c, option)
      PROVE  /\ \A d \in Clients : Queued(d) /\ ~Queued(d)' => InRoom(d)'
             /\ \A r \in Rooms :
                  app.object[r] = NilRoom /\ Len(app'.object[r].users) > 1 => MatchedIn(r)
  <2>1. Handles(c) /\ ~InRoom(c) /\ c \notin Elems(matchUsers)
    BY <1>1 DEF HandleMatchUser
  <2> QED BY <1>1, <2>1, CompletedMatch
<1>2. ASSUME \A c \in Clients, option \in MatchOptions :
                HandleMatchUser(c) => ~CompleteGroup(c, option),
             NEW r \in Rooms, app.object[r] = NilRoom
      PROVE  ~(Len(app'.object[r].users) > 1)
  <2>1. IInv /\ IInv'
    BY MatchStepInv DEF MatchInv
  <2>2. \E e : \A d \in Clients \ {e} : app'.room[d] \in {app.room[d], NoRoom}
    BY <1>2, <2>1, OneComesIn
  <2> QED BY <1>2, <2>1, <2>2, SmallRoom
<1>3. ASSUME \A c \in Clients, option \in MatchOptions :
                HandleMatchUser(c) => ~CompleteGroup(c, option),
             NEW d \in Clients, Queued(d), ~Queued(d)', app' # app, UNCHANGED conns
      PROVE  FALSE
  <2>1. \A c \in Clients : ~GoesOut(c)
    BY <1>3 DEF GoesOut, OnUserOut, conns, MatchInv, IInv, ConnsOK
  <2>2. \A c \in Clients : Elsewhere(c) \/ HandleMatchRoomBy(c) => matchUsers' = matchUsers
    BY DEF Elsewhere, HandleMatchRoomBy
  <2>3. \A c \in Clients : HandleCannelMatchUser(c) \/ HandleSetRoomMatchOption(c) => app' = app
    BY DEF HandleCannelMatchUser, HandleSetRoomMatchOption
  <2>4. \A c \in Clients : HandleMatchUser(c) => app' = app
    <3>1. \A c \in Clients : HandleMatchUser(c) => \E option \in MatchOptions :
                                 OpenGroup(c, option) \/ JoinGroup(c, option)
      BY <1>3 DEF HandleMatchUser
    <3>2. \A c, option : OpenGroup(c, option) \/ JoinGroup(c, option) => app' = app
      BY DEF OpenGroup, JoinGroup
    <3> QED BY <3>1, <3>2
  <2>5. UNCHANGED matchVars => app' = app
    BY DEF matchVars
  <2>6. matchUsers' # matchUsers
    BY <1>3 DEF Queued
  <2> QED BY <1>3, <2>1, <2>2, <2>3, <2>4, <2>5, <2>6 DEF MatchNext
<1> QED BY <1>1, <1>2, <1>3

\* A match gives everyone in a whole group a room: who completes a group by
\* MatchUser and waits on found its first user in a room; whoever a match takes off
\* the queue is in a room then; and no room is made for more than one but for the
\* users of one complete group, the first of whom is its master.
THEOREM CompleteGetsRoom == MatchSpec => CompleteIsMatched
<1>1. MatchInv /\ SessionInv /\ [MatchNext]_matchVars =>
        [/\ \A c \in Clients : ~Queued(c) /\ Queued(c)' =>
              \A g \in Elems(matchUsersGroup') :
                 c \in Elems(g.users) /\ Len(g.users) = g.option.number =>
                    InRoom(g.users[1])
         /\ \A d \in Clients :
              Queued(d) /\ ~Queued(d)' /\ app' # app /\ UNCHANGED conns => InRoom(d)'
         /\ \A r \in Rooms :
              app.object[r] = NilRoom /\ Len(app'.object[r].users) > 1 => MatchedIn(r)
        ]_matchVars
  BY QueueStep, MatchedStep DEF Newcomers, Filled
<1>2. MatchSpec => Spec
  BY MatchmakingUsesRooms DEF UsesRooms
<1> QED BY <1>1, <1>2, SessionInvariance, MatchInvariance, PTL DEF MatchSpec, CompleteIsMatched

-----------------------------------------------------------------------------
Lesser(i, j) == IF i <= j THEN i ELSE j

\* Of n users (n = 2h or 2h - 1), the place of the one that is at place j of the
\* array after i turns, and how many of them are then in the list.
PlaceOf(n, h, i, j) == Lesser(n, j + Lesser(j, Lesser(i, h)))
LenAfter(n, h, i) == IF i <= h THEN n - i ELSE h - 1

ArrayAfter(users, h, i) ==
  [array |-> [j \in 1..Len(users) |-> users[PlaceOf(Len(users), h, i, j)]],
   len   |-> LenAfter(Len(users), h, i)]

\* The middle of a list.
Middle(n, h) == h \in Nat \ {0} /\ (n = 2 * h \/ n = 2 * h - 1)

\* Every list that is not empty has one.
LEMMA HasMiddle ==
  ASSUME NEW n \in Nat, n # 0
  PROVE  \E h : Middle(n, h) /\ h \in 1..n /\ (n - 1) \div 2 = h - 1
<1>1. CASE n % 2 = 0
  <2>1. Middle(n, n \div 2) /\ n \div 2 \in 1..n /\ (n - 1) \div 2 = n \div 2 - 1
    BY <1>1 DEF Middle
  <2> QED BY <2>1
<1>2. CASE n % 2 # 0
  <2>1. Middle(n, (n + 1) \div 2) /\ (n + 1) \div 2 \in 1..n
        /\ (n - 1) \div 2 = (n + 1) \div 2 - 1
    BY <1>2 DEF Middle
  <2> QED BY <2>1
<1> QED BY <1>1, <1>2

LEMMA PlaceType ==
  ASSUME NEW n \in Nat, NEW h, Middle(n, h), NEW i \in 0..n
  PROVE  /\ \A j \in 1..n : PlaceOf(n, h, i, j) \in 1..n
         /\ LenAfter(n, h, i) \in 0..n
<1>1. h \in 1..n
  BY DEF Middle
<1> QED BY <1>1 DEF Middle, PlaceOf, Lesser, LenAfter

\* The first turns: each takes out the user it reads.
LEMMA EarlyTurn ==
  ASSUME NEW n \in Nat, NEW h, Middle(n, h), NEW i \in 1..h
  PROVE  /\ i \in 1..LenAfter(n, h, i - 1)
         /\ \A j \in 1..LenAfter(n, h, i - 1) :
              PlaceOf(n, h, i - 1, j) = PlaceOf(n, h, i - 1, i) => j = i
         /\ \A j \in 1..n :
              PlaceOf(n, h, i, j) =
                IF j \in i..(LenAfter(n, h, i - 1) - 1)
                THEN PlaceOf(n, h, i - 1, j + 1) ELSE PlaceOf(n, h, i - 1, j)
         /\ LenAfter(n, h, i) = LenAfter(n, h, i - 1) - 1
<1> USE DEF Middle
<1>1. h \in 1..n /\ i - 1 \in 0..(h - 1) /\ 2 * i - 1 <= n /\ i \in Int /\ h \in Int
  OBVIOUS
<1>2. LenAfter(n, h, i - 1) = n - i + 1 /\ LenAfter(n, h, i) = n - i
  BY <1>1 DEF LenAfter
<1>3. /\ Lesser(i - 1, h) = i - 1 /\ Lesser(i, h) = i
  BY <1>1 DEF Lesser
<1>4. \A j \in 1..(n - i + 1) : PlaceOf(n, h, i - 1, j) = IF j < i THEN 2 * j ELSE j + i - 1
  BY <1>1, <1>3 DEF PlaceOf, Lesser
<1>5. \A j \in 1..(n - i + 1) : PlaceOf(n, h, i - 1, j) = PlaceOf(n, h, i - 1, i) => j = i
  BY <1>1, <1>4
<1>6. \A j \in 1..n :
        PlaceOf(n, h, i, j) = IF j \in i..(n - i)
                              THEN PlaceOf(n, h, i - 1, j + 1) ELSE PlaceOf(n, h, i - 1, j)
  BY <1>1, <1>3 DEF PlaceOf, Lesser
<1> QED BY <1>1, <1>2, <1>5, <1>6

\* The later ones read the last user, who is in the list at most once more, at
\* its end.
LEMMA LateTurn ==
  ASSUME NEW n \in Nat, NEW h, Middle(n, h), NEW i \in (h + 1)..n
  PROVE  /\ PlaceOf(n, h, i - 1, i) = n
         /\ \A j \in 1..n : PlaceOf(n, h, i, j) = PlaceOf(n, h, i - 1, j)
         /\ \A j \in 1..LenAfter(n, h, i - 1) :
              PlaceOf(n, h, i - 1, j) = n => j = LenAfter(n, h, i - 1) /\ j = h
         /\ LenAfter(n, h, i - 1) = h => PlaceOf(n, h, i - 1, h) = n
         /\ LenAfter(n, h, i - 1) \in {h, h - 1}
         /\ LenAfter(n, h, i) = h - 1
<1> USE DEF Middle
<1>1. h \in 1..n /\ h <= i - 1 /\ n < 2 * h + 1 /\ i \in Int /\ h \in Int
  OBVIOUS
<1>2. Lesser(i - 1, h) = h /\ Lesser(i, h) = h
  BY <1>1 DEF Lesser
<1>3. /\ LenAfter(n, h, i - 1) = (IF i - 1 = h THEN n - h ELSE h - 1)
      /\ LenAfter(n, h, i) = h - 1
  BY <1>1 DEF LenAfter
<1>4. \A j \in 1..n : PlaceOf(n, h, i - 1, j) = Lesser(n, j + Lesser(j, h))
  BY <1>2 DEF PlaceOf
<1>5. \A j \in 1..n : PlaceOf(n, h, i, j) = Lesser(n, j + Lesser(j, h))
  BY <1>2 DEF PlaceOf
<1>6. LenAfter(n, h, i - 1) \in {h, h - 1}
  BY <1>1, <1>3
<1>7. \A j \in 1..n : j < h => PlaceOf(n, h, i - 1, j) # n
  BY <1>1, <1>4 DEF Lesser
<1>8. LenAfter(n, h, i - 1) = h => n = 2 * h
  BY <1>1, <1>3
<1>9. n = 2 * h => PlaceOf(n, h, i - 1, h) = n
  BY <1>1, <1>4 DEF Lesser
<1>10. PlaceOf(n, h, i - 1, i) = n
  BY <1>1, <1>4 DEF Lesser
<1>11. \A j \in 1..LenAfter(n, h, i - 1) :
         PlaceOf(n, h, i - 1, j) = n => j = LenAfter(n, h, i - 1) /\ j = h
  BY <1>1, <1>6, <1>7
<1> QED BY <1>3, <1>4, <1>5, <1>6, <1>8, <1>9, <1>10, <1>11

\* What one turn does.
LEMMA TurnIs ==
  ASSUME NEW T, NEW users \in Seq(T), NoDuplicates(users), NEW h, Middle(Len(users), h),
         NEW i \in 1..Len(users)
  PROVE  RemoveInPlace(ArrayAfter(users, h, i - 1), ArrayAfter(users, h, i - 1).array[i])
           = ArrayAfter(users, h, i)
<1> PICK n \in Nat : n = Len(users)
  OBVIOUS
<1> PICK a : a = ArrayAfter(users, h, i - 1)
  OBVIOUS
<1> PICK len : len = LenAfter(n, h, i - 1)
  OBVIOUS
<1>0. i \in 1..n /\ i - 1 \in 0..n /\ i \in 0..n /\ h \in 1..n /\ h \in Int
  BY DEF Middle
<1>1. /\ a.array = [j \in 1..n |-> users[PlaceOf(n, h, i - 1, j)]]
      /\ a.len = len /\ len \in 0..n
  BY <1>0, PlaceType DEF ArrayAfter
<1>2. /\ \A j \in 1..n : PlaceOf(n, h, i - 1, j) \in 1..n
      /\ \A j, k \in 1..n : users[j] = users[k] => j = k
  <2>1. \A j \in 1..n : PlaceOf(n, h, i - 1, j) \in 1..n
    BY <1>0, PlaceType
  <2>2. DOMAIN users = 1..n
    OBVIOUS
  <2> QED BY <2>1, <2>2 DEF NoDuplicates
<1> PICK value : value = a.array[i]
  OBVIOUS
<1>3. \A j \in 1..n : a.array[j] = value <=> PlaceOf(n, h, i - 1, j) = PlaceOf(n, h, i - 1, i)
  <2>1. \A j \in 1..n : a.array[j] = users[PlaceOf(n, h, i - 1, j)]
    BY <1>1
  <2>2. value = users[PlaceOf(n, h, i - 1, i)]
    BY <1>0, <2>1
  <2> SUFFICES ASSUME NEW j \in 1..n
               PROVE  a.array[j] = value
                        <=> PlaceOf(n, h, i - 1, j) = PlaceOf(n, h, i - 1, i)
    OBVIOUS
  <2>3. PlaceOf(n, h, i - 1, j) \in 1..n /\ PlaceOf(n, h, i - 1, i) \in 1..n
    BY <1>0, <1>2
  <2> QED BY <1>2, <2>1, <2>2, <2>3
<1> PICK hits : hits = {j \in 1..len : a.array[j] = value}
  OBVIOUS
<1>4. hits = {j \in 1..len : PlaceOf(n, h, i - 1, j) = PlaceOf(n, h, i - 1, i)}
  BY <1>1, <1>3
<1> PICK p : p = Least(hits)
  OBVIOUS
<1>5. RemoveInPlace(a, value) =
        IF hits = {} THEN a
        ELSE [array |-> [j \in 1..n |-> IF j \in p..(len - 1) THEN a.array[j + 1]
                                        ELSE a.array[j]],
              len   |-> len - 1]
  BY <1>1 DEF RemoveInPlace
<1> DEFINE Moved(q) == [j \in 1..n |-> IF j \in q..(len - 1) THEN a.array[j + 1]
                                       ELSE a.array[j]]
<1>6. ASSUME NEW q, hits = {q}
      PROVE  RemoveInPlace(a, value) = [array |-> Moved(q), len |-> len - 1]
  <2>1. hits \in SUBSET Nat /\ hits # {}
    <3>1. q \in 1..len /\ 1..len \in SUBSET Nat
      BY <1>1, <1>4, <1>6
    <3> QED BY <1>6, <3>1
  <2>2. p \in hits
    BY <2>1, LeastProperties
  <2> QED BY <1>5, <1>6, <2>2
<1>7. ArrayAfter(users, h, i) =
        [array |-> [j \in 1..n |-> users[PlaceOf(n, h, i, j)]], len |-> LenAfter(n, h, i)]
  BY DEF ArrayAfter
<1>8. CASE i <= h
  <2>0. i \in 1..h
    BY <1>0, <1>8
  <2>1. /\ i \in 1..len
        /\ \A j \in 1..len : PlaceOf(n, h, i - 1, j) = PlaceOf(n, h, i - 1, i) => j = i
        /\ LenAfter(n, h, i) = len - 1
    BY <2>0, EarlyTurn
  <2>2. \A j \in 1..n :
          PlaceOf(n, h, i, j) = IF j \in i..(len - 1) THEN PlaceOf(n, h, i - 1, j + 1)
                                ELSE PlaceOf(n, h, i - 1, j)
    BY <2>0, EarlyTurn
  <2>3. hits = {i}
    BY <1>4, <2>1
  <2>4. \A j \in 1..n : Moved(i)[j] = users[PlaceOf(n, h, i, j)]
    <3> SUFFICES ASSUME NEW j \in 1..n PROVE Moved(i)[j] = users[PlaceOf(n, h, i, j)]
      OBVIOUS
    <3>1. CASE j \in i..(len - 1)
      <4>1. j + 1 \in 1..n
        BY <1>0, <1>1, <3>1
      <4>2. Moved(i)[j] = a.array[j + 1]
        BY <3>1
      <4> QED BY <1>1, <2>2, <3>1, <4>1, <4>2
    <3>2. CASE j \notin i..(len - 1)
      BY <1>1, <2>2, <3>2
    <3> QED BY <3>1, <3>2
  <2>5. Moved(i) = [j \in 1..n |-> users[PlaceOf(n, h, i, j)]]
    BY <2>4
  <2> HIDE DEF Moved
  <2> QED BY <1>6, <1>7, <2>1, <2>3, <2>5
<1>9. CASE i > h
  <2>0. i \in (h + 1)..n
    BY <1>0, <1>9
  <2>1. /\ PlaceOf(n, h, i - 1, i) = n
        /\ \A j \in 1..n : PlaceOf(n, h, i, j) = PlaceOf(n, h, i - 1, j)
    BY <2>0, LateTurn
  <2>2. /\ \A j \in 1..len : PlaceOf(n, h, i - 1, j) = n => j = len /\ j = h
        /\ len = h => PlaceOf(n, h, i - 1, h) = n
        /\ len \in {h, h - 1}
        /\ LenAfter(n, h, i) = h - 1
    BY <2>0, LateTurn
  <2>3. a.array = [j \in 1..n |-> users[PlaceOf(n, h, i, j)]]
    BY <1>1, <2>1
  <2>4. CASE len = h
    <3>1. hits = {h}
      BY <1>0, <1>4, <2>1, <2>2, <2>4
    <3>2. \A j \in 1..n : Moved(h)[j] = a.array[j]
      BY <1>0, <1>1, <2>4
    <3>3. Moved(h) = a.array
      BY <1>1, <3>2
    <3> HIDE DEF Moved
    <3>4. RemoveInPlace(a, value) = [array |-> a.array, len |-> len - 1]
      BY <1>6, <3>1, <3>3
    <3> QED BY <1>7, <2>2, <2>3, <2>4, <3>4
  <2>5. CASE len = h - 1
    <3>1. hits = {}
      BY <1>0, <1>4, <2>1, <2>2, <2>5
    <3>2. RemoveInPlace(a, value) = a
      BY <1>5, <3>1
    <3>3. a = [array |-> a.array, len |-> a.len]
      BY DEF ArrayAfter
    <3> QED BY <1>1, <1>7, <2>2, <2>3, <2>5, <3>2, <3>3
  <2> QED BY <2>2, <2>4, <2>5
<1> QED BY <1>0, <1>8, <1>9

\* The loop leaves the users at the even places, the last one excepted, however
\* many they are.
LEMMA RangingLeaves ==
  ASSUME NEW T, NEW users \in Seq(T), users # <<>>, NoDuplicates(users)
  PROVE  RemoveWhileRanging(users) = LeftBehind(users)
<1> PICK n \in Nat : n = Len(users) /\ n # 0
  OBVIOUS
<1> PICK h : Middle(n, h) /\ h \in 1..n /\ (n - 1) \div 2 = h - 1
  BY HasMiddle
<1> PICK places : places = 1..n
  OBVIOUS
<1> PICK list : list = [i \in places |-> i]
  OBVIOUS
<1> PICK memory : memory = [array : [places -> Elems(users)], len : 0..n]
  OBVIOUS
<1> PICK turn : turn = [at \in memory \X places |-> RemoveInPlace(at[1], at[1].array[at[2]])]
  OBVIOUS
<1> PICK start : start = [array |-> users, len |-> n]
  OBVIOUS
<1> PICK after : after = [i \in 0..n |-> ArrayAfter(users, h, i)]
  OBVIOUS
<1>1. DOMAIN users = places /\ \A j \in 1..n : users[j] \in Elems(users)
  <2>1. DOMAIN users = 1..n
    OBVIOUS
  <2> QED BY <2>1 DEF Elems
<1>2. list \in Seq(Nat) /\ Len(list) = n /\ \A i \in 1..n : list[i] = i
  OBVIOUS
<1>3. \A i \in 0..n : after[i] \in memory
  <2> SUFFICES ASSUME NEW i \in 0..n PROVE ArrayAfter(users, h, i) \in memory
    OBVIOUS
  <2>1. /\ \A j \in 1..n : PlaceOf(n, h, i, j) \in 1..n
        /\ LenAfter(n, h, i) \in 0..n
    BY PlaceType
  <2>2. \A j \in 1..n : users[PlaceOf(n, h, i, j)] \in Elems(users)
    BY <1>1, <2>1
  <2> QED BY <2>1, <2>2 DEF ArrayAfter
<1>4. after[0] = start
  <2>1. 0 <= h /\ LenAfter(n, h, 0) = n
    BY DEF LenAfter
  <2>2. \A j \in 1..n : PlaceOf(n, h, 0, j) = j
    BY DEF PlaceOf, Lesser
  <2>3. [j \in 1..n |-> users[PlaceOf(n, h, 0, j)]] = users
    BY <1>1, <2>2
  <2>4. ArrayAfter(users, h, 0) = start
    BY <2>1, <2>3 DEF ArrayAfter
  <2> QED BY <2>4
<1>5. \A i \in 1..n : after[i] = turn[<<after[i - 1], list[i]>>]
  <2> SUFFICES ASSUME NEW i \in 1..n PROVE after[i] = turn[<<after[i - 1], list[i]>>]
    OBVIOUS
  <2>1. after[i - 1] = ArrayAfter(users, h, i - 1) /\ after[i - 1] \in memory
    <3>1. i - 1 \in 0..n
      OBVIOUS
    <3> QED BY <1>3, <3>1
  <2>2. turn[<<after[i - 1], i>>] = RemoveInPlace(after[i - 1], after[i - 1].array[i])
    BY <2>1
  <2>3. RemoveInPlace(ArrayAfter(users, h, i - 1), ArrayAfter(users, h, i - 1).array[i])
          = ArrayAfter(users, h, i)
    BY TurnIs
  <2> QED BY <1>2, <2>1, <2>2, <2>3
<1>6. Looped(turn, start, list) = after[n]
  <2>1. Turns(after, turn, start, list)
    <3>1. after = [i \in 0..Len(list) |-> after[i]]
      BY <1>2
    <3> QED BY <1>2, <1>4, <1>5, <3>1 DEF Turns
  <2>2. Looped(turn, start, list) = after[Len(list)]
    <3>1. list \in Seq(Nat)
      BY <1>2
    <3> QED BY ONLY <2>1, <3>1, LoopedIs
  <2> QED BY <1>2, <2>2
<1> PICK end : end = after[n]
  OBVIOUS
<1>7. RemoveWhileRanging(users) = SubSeq(end.array, 1, end.len)
  BY <1>1, <1>6 DEF RemoveWhileRanging
<1>8. end.len = h - 1 /\ end.array = [j \in 1..n |-> users[PlaceOf(n, h, n, j)]]
  <2>1. LenAfter(n, h, n) = h - 1
    BY DEF LenAfter, Middle
  <2>2. end = ArrayAfter(users, h, n)
    OBVIOUS
  <2>3. ArrayAfter(users, h, n) =
          [array |-> [j \in 1..n |-> users[PlaceOf(n, h, n, j)]], len |-> LenAfter(n, h, n)]
    BY DEF ArrayAfter
  <2> QED BY ONLY <2>1, <2>2, <2>3
<1>9. \A j \in 1..(h - 1) : PlaceOf(n, h, n, j) = 2 * j /\ j \in 1..n
  BY DEF PlaceOf, Lesser, Middle
<1>10. SubSeq(end.array, 1, h - 1) = [j \in 1..(h - 1) |-> users[2 * j]]
  <2>1. SubSeq(end.array, 1, h - 1) = [j \in 1..(h - 1) |-> end.array[j]]
    OBVIOUS
  <2> QED BY <1>8, <1>9, <2>1
<1> QED BY <1>7, <1>8, <1>10 DEF LeftBehind

-----------------------------------------------------------------------------
\* A new room is empty, and who is in which room stays as it is.
LEMMA AddRoomTyped ==
  ASSUME NEW s \in AppState, NEW r \in Rooms, NEW c \in Clients, NEW max \in Int,
         NEW t, t = AddRoom(s, r, c, max)
  PROVE  t \in AppState /\ t.room = s.room /\ t.object[r].users = <<>>
<1> PICK stack : stack = s.freedRoomIds
  OBVIOUS
<1> PICK id : id = NextRoomId(s)
  OBVIOUS
<1> PICK o : o = NewRoom(id, c, max)
  OBVIOUS
<1> PICK a : a = allocateRoomId(s)
  OBVIOUS
<1>1. /\ s.object \in [Rooms -> RoomObject] /\ s.rooms \in SUBSET Rooms
      /\ stack \in Seq(Nat \ {0}) /\ s.nextRoomId \in Nat
  BY DEF AppState
<1>2. id \in Nat
  <2>1. stack # <<>> => stack[Len(stack)] \in Nat \ {0}
    BY <1>1
  <2> QED BY <1>1, <2>1 DEF NextRoomId
<1>3. stack # <<>> => Popped(stack) \in Seq(Nat \ {0})
  BY <1>1 DEF Popped
<1>4. a \in AppState /\ a.room = s.room /\ a.object = s.object /\ a.rooms = s.rooms
  <2>1. CASE stack # <<>>
    <3> PICK rest : rest = Popped(stack)
      OBVIOUS
    <3>1. a = [s EXCEPT !.freedRoomIds = rest]
      BY <2>1 DEF allocateRoomId
    <3>2. rest \in Seq(Nat \ {0})
      BY <1>3, <2>1
    <3> QED BY <3>1, <3>2 DEF AppState
  <2>2. CASE stack = <<>>
    <3>1. a = [s EXCEPT !.nextRoomId = s.nextRoomId + 1]
      BY <2>2 DEF allocateRoomId
    <3>2. s.nextRoomId + 1 \in Nat
      BY <1>1
    <3> QED BY <3>1, <3>2 DEF AppState
  <2> QED BY <2>1, <2>2
<1>5. o \in RoomObject /\ o.users = <<>>
  BY <1>2 DEF NewRoom, RoomObject
<1>6. /\ [s.object EXCEPT ![r] = o] \in [Rooms -> RoomObject]
      /\ [s.object EXCEPT ![r] = o][r] = o
      /\ s.rooms \cup {r} \in SUBSET Rooms
  BY <1>1, <1>5
<1>7. t = [a EXCEPT !.rooms = s.rooms \cup {r}, !.object = [s.object EXCEPT ![r] = o]]
  BY <1>4 DEF AddRoom, AppState
<1> QED BY <1>4, <1>5, <1>6, <1>7 DEF AppState

\* The place of a client in a list.
PlaceIn(L, c) == CHOOSE i \in DOMAIN L : L[i] = c

\* t is s with the clients of L in room r, who have taken the seats from the
\* first on.
AllIn(s, t, r, L) ==
  /\ t \in AppState
  /\ t.rooms = s.rooms /\ t.freedRoomIds = s.freedRoomIds /\ t.nextRoomId = s.nextRoomId
  /\ t.object[r] = [s.object[r] EXCEPT !.users = L]
  /\ \A q \in Rooms \ {r} : t.object[q] = s.object[q]
  /\ \A d \in Clients : t.room[d] = IF d \in Elems(L) THEN r ELSE s.room[d]
  /\ \A d \in Clients :
       t.seat[d] = IF d \in Elems(L) /\ PlaceIn(L, d) <= s.object[r].maxCounts
                   THEN PlaceIn(L, d) ELSE s.seat[d]

LEMMA PlaceInProperties ==
  ASSUME NEW L \in Seq(Clients), NEW c \in Elems(L)
  PROVE  PlaceIn(L, c) \in 1..Len(L) /\ L[PlaceIn(L, c)] = c
<1>1. \E i \in DOMAIN L : L[i] = c
  BY DEF Elems
<1>2. DOMAIN L = 1..Len(L)
  OBVIOUS
<1> QED BY <1>1, <1>2 DEF PlaceIn

LEMMA JoinAllIs ==
  ASSUME NEW s \in AppState, NEW r \in Rooms, NEW L \in Seq(Clients)
  PROVE  AllIn(s, JoinAll(s, r, L), r, L)
<1> PICK t : t = JoinAll(s, r, L)
  OBVIOUS
<1> DEFINE room == [c \in Clients |-> IF c \in Elems(L) THEN r ELSE s.room[c]]
           seat == [c \in Clients |->
                      IF c \in Elems(L) /\ PlaceIn(L, c) <= s.object[r].maxCounts
                      THEN PlaceIn(L, c) ELSE s.seat[c]]
           o == [s.object[r] EXCEPT !.users = L]
           object == [s.object EXCEPT ![r] = o]
<1>1. /\ s.object \in [Rooms -> RoomObject] /\ s.room \in [Clients -> Rooms \cup {NoRoom}]
      /\ s.seat \in [Clients -> Nat]
  BY DEF AppState
<1>2. \A c \in Elems(L) : PlaceIn(L, c) \in Nat
  <2>1. \A c \in Elems(L) : PlaceIn(L, c) \in 1..Len(L)
    BY PlaceInProperties
  <2> QED BY <2>1
<1>3. room \in [Clients -> Rooms \cup {NoRoom}] /\ seat \in [Clients -> Nat]
  BY <1>1, <1>2
<1>4. o \in RoomObject
  BY <1>1 DEF RoomObject
<1>5. object \in [Rooms -> RoomObject] /\ object[r] = o
      /\ \A q \in Rooms \ {r} : object[q] = s.object[q]
  <2> HIDE DEF o
  <2> QED BY <1>1, <1>4
<1>6. t = [s EXCEPT !.object = object, !.room = room, !.seat = seat]
  BY <1>1 DEF JoinAll, AppState, RoomObject, PlaceIn
<1>7. /\ \A d \in Clients : room[d] = IF d \in Elems(L) THEN r ELSE s.room[d]
      /\ \A d \in Clients :
           seat[d] = IF d \in Elems(L) /\ PlaceIn(L, d) <= s.object[r].maxCounts
                     THEN PlaceIn(L, d) ELSE s.seat[d]
  OBVIOUS
<1> HIDE DEF room, seat, object
<1>8. /\ t \in AppState
      /\ t.rooms = s.rooms /\ t.freedRoomIds = s.freedRoomIds /\ t.nextRoomId = s.nextRoomId
      /\ t.object = object /\ t.room = room /\ t.seat = seat
  BY <1>3, <1>5, <1>6 DEF AppState
<1>9. t.object[r] = [s.object[r] EXCEPT !.users = L]
  BY <1>5, <1>8
<1> HIDE DEF o
<1>10. AllIn(s, t, r, L)
  BY <1>5, <1>7, <1>8, <1>9 DEF AllIn
<1> QED BY <1>10

\* They are the only such state.
LEMMA AllInOnce ==
  ASSUME NEW s, NEW t, NEW u, NEW r \in Rooms, NEW L,
         AllIn(s, t, r, L), AllIn(s, u, r, L)
  PROVE  t = u
<1>1. t \in AppState /\ u \in AppState
  BY DEF AllIn
<1>2. /\ t.rooms = u.rooms /\ t.freedRoomIds = u.freedRoomIds
      /\ t.nextRoomId = u.nextRoomId
  BY DEF AllIn
<1>3. /\ t.object \in [Rooms -> RoomObject] /\ u.object \in [Rooms -> RoomObject]
      /\ t.room \in [Clients -> Rooms \cup {NoRoom}]
      /\ u.room \in [Clients -> Rooms \cup {NoRoom}]
      /\ t.seat \in [Clients -> Nat] /\ u.seat \in [Clients -> Nat]
  BY <1>1 DEF AppState
<1>4. \A q \in Rooms : t.object[q] = u.object[q]
  <2>1. t.object[r] = u.object[r]
    BY DEF AllIn
  <2>2. \A q \in Rooms \ {r} : t.object[q] = u.object[q]
    BY DEF AllIn
  <2> QED BY <2>1, <2>2
<1>5. \A d \in Clients : t.room[d] = u.room[d]
  BY DEF AllIn
<1>6. \A d \in Clients : t.seat[d] = u.seat[d]
  BY DEF AllIn
<1>7. t.object = u.object /\ t.room = u.room /\ t.seat = u.seat
  BY <1>3, <1>4, <1>5, <1>6
<1> QED BY <1>1, <1>2, <1>7, AppEqual

\* Clients that are in no room, in a room that was empty.
Entered(s, t, r, L) ==
  /\ L \in Seq(Clients) /\ NoDuplicates(L)
  /\ AllIn(s, t, r, L)

\* The places in a list with one more at its end.
LEMMA PlaceInMore ==
  ASSUME NEW L \in Seq(Clients), NEW c \in Clients, c \notin Elems(L)
  PROVE  /\ PlaceIn(Append(L, c), c) = Len(L) + 1
         /\ NoDuplicates(L) =>
              \A d \in Elems(L) : PlaceIn(Append(L, c), d) = PlaceIn(L, d)
<1> PICK M : M = Append(L, c)
  OBVIOUS
<1> PICK n \in Nat : n = Len(L)
  OBVIOUS
<1>1. /\ M \in Seq(Clients) /\ DOMAIN M = 1..(n + 1) /\ DOMAIN L = 1..n
      /\ M[n + 1] = c /\ \A i \in 1..n : M[i] = L[i]
  OBVIOUS
<1>2. \A i \in 1..n : L[i] # c
  BY <1>1 DEF Elems
<1>3. Elems(M) = Elems(L) \cup {c}
  BY AppendElems
<1>4. PlaceIn(M, c) = n + 1
  <2>1. PlaceIn(M, c) \in 1..Len(M) /\ M[PlaceIn(M, c)] = c
    BY <1>1, <1>3, PlaceInProperties
  <2> QED BY <1>1, <1>2, <2>1
<1>5. ASSUME NoDuplicates(L), NEW d \in Elems(L)
      PROVE  PlaceIn(M, d) = PlaceIn(L, d)
  <2>1. PlaceIn(M, d) \in 1..Len(M) /\ M[PlaceIn(M, d)] = d
    BY <1>1, <1>3, PlaceInProperties
  <2>2. PlaceIn(L, d) \in 1..n /\ L[PlaceIn(L, d)] = d
    BY PlaceInProperties
  <2>3. PlaceIn(M, d) \in 1..(n + 1) /\ PlaceIn(M, d) # n + 1
    BY <1>1, <2>1
  <2>4. PlaceIn(M, d) \in 1..n /\ L[PlaceIn(M, d)] = d
    BY <1>1, <2>1, <2>3
  <2> QED BY <1>1, <1>5, <2>2, <2>4 DEF NoDuplicates
<1> QED BY <1>4, <1>5

\* One more joins: it takes the next seat.
LEMMA OneMoreIn ==
  ASSUME NEW s \in AppState, NEW t, NEW r \in Rooms, NEW L, Entered(s, t, r, L),
         NEW c \in Clients, c \notin Elems(L), s.room[c] = NoRoom,
         NEW u, u = JoinClient(t, r, c)
  PROVE  Entered(s, u, r, Append(L, c))
<1> PICK M : M = Append(L, c)
  OBVIOUS
<1> PICK max : max = s.object[r].maxCounts
  OBVIOUS
<1> PICK n : n = Len(L)
  OBVIOUS
<1>1. /\ L \in Seq(Clients) /\ NoDuplicates(L) /\ n \in Nat
      /\ AllIn(s, t, r, L) /\ t \in AppState
  BY DEF Entered, AllIn
<1>2. /\ M \in Seq(Clients) /\ NoDuplicates(M) /\ Elems(M) = Elems(L) \cup {c}
  BY <1>1, AppendElems
<1>3. /\ PlaceIn(M, c) = n + 1
      /\ \A d \in Elems(L) : PlaceIn(M, d) = PlaceIn(L, d)
  BY <1>1, PlaceInMore
<1>4. /\ t.object \in [Rooms -> RoomObject] /\ s.object \in [Rooms -> RoomObject]
      /\ t.room \in [Clients -> Rooms \cup {NoRoom}] /\ t.seat \in [Clients -> Nat]
      /\ max \in Int
  BY <1>1 DEF AppState, RoomObject
<1>5. /\ t.object[r].users = L /\ t.object[r].maxCounts = max
      /\ t.object[r] = [s.object[r] EXCEPT !.users = L]
  BY <1>1, <1>4 DEF AllIn, RoomObject
<1>6. t.room[c] = NoRoom
  BY <1>1 DEF AllIn
<1> PICK o : o = [s.object[r] EXCEPT !.users = M]
  OBVIOUS
<1> PICK p : p = [t EXCEPT !.object[r].users = Append(@, c)]
  OBVIOUS
<1> PICK q : q = assignSeat(p, r, c)
  OBVIOUS
<1>7. u = [q EXCEPT !.room[c] = r]
  BY <1>6 DEF JoinClient
<1>8. o \in RoomObject /\ o = [t.object[r] EXCEPT !.users = M] /\ o.maxCounts = max
      /\ o.users = M
  <2> PICK w : w = s.object[r]
    OBVIOUS
  <2>1. w \in RoomObject /\ w.maxCounts = max /\ o = [w EXCEPT !.users = M]
        /\ t.object[r] = [w EXCEPT !.users = L]
    BY <1>4, <1>5
  <2> QED BY ONLY <1>1, <1>2, <2>1 DEF RoomObject
<1> PICK object : object = [t.object EXCEPT ![r] = o]
  OBVIOUS
<1>9. /\ object \in [Rooms -> RoomObject] /\ object[r] = o
      /\ \A k \in Rooms \ {r} : object[k] = t.object[k]
  BY <1>4, <1>8
<1>10. p = [t EXCEPT !.object = object]
  BY <1>1, <1>4, <1>5, <1>8 DEF AppState, RoomObject
<1>11. /\ p \in AppState /\ p.object = object /\ p.seat = t.seat /\ p.room = t.room
       /\ p.rooms = t.rooms /\ p.freedRoomIds = t.freedRoomIds
       /\ p.nextRoomId = t.nextRoomId
  BY <1>1, <1>9, <1>10 DEF AppState
<1> PICK free : free = FreeSeats(p, r, c)
  OBVIOUS
<1>12. free = IF n < max THEN (n + 1)..max ELSE {}
  <2>1. Members(p, r) \ {c} = Elems(L)
    <3>1. p.object[r].users = M
      BY <1>8, <1>9, <1>11
    <3> QED BY <1>2, <3>1 DEF Members
  <2> PICK taken : taken = {t.seat[d] : d \in Elems(L)}
    OBVIOUS
  <2>2. free = (1..max) \ taken
    <3>1. p.object[r].maxCounts = max /\ p.seat = t.seat
      BY <1>8, <1>9, <1>11
    <3> QED BY <2>1, <3>1 DEF FreeSeats
  <2>3. \A d \in Elems(L) : /\ d \in Clients /\ PlaceIn(L, d) \in 1..n
                            /\ t.seat[d] = IF PlaceIn(L, d) <= max THEN PlaceIn(L, d)
                                           ELSE s.seat[d]
    <3> SUFFICES ASSUME NEW d \in Elems(L)
                 PROVE  /\ d \in Clients /\ PlaceIn(L, d) \in 1..n
                        /\ t.seat[d] = IF PlaceIn(L, d) <= max THEN PlaceIn(L, d)
                                       ELSE s.seat[d]
      OBVIOUS
    <3>1. PlaceIn(L, d) \in 1..n
      BY <1>1, PlaceInProperties
    <3>2. d \in Clients
      BY <1>1 DEF Elems
    <3> QED BY <1>1, <3>1, <3>2 DEF AllIn
  <2>4. \A i \in 1..n : i <= max => \E d \in Elems(L) : t.seat[d] = i
    <3> SUFFICES ASSUME NEW i \in 1..n, i <= max PROVE \E d \in Elems(L) : t.seat[d] = i
      OBVIOUS
    <3>1. L[i] \in Elems(L) /\ i \in DOMAIN L /\ DOMAIN L = 1..n
      BY <1>1 DEF Elems
    <3>2. PlaceIn(L, L[i]) \in 1..n /\ L[PlaceIn(L, L[i])] = L[i]
      BY <1>1, <3>1, PlaceInProperties
    <3>3. PlaceIn(L, L[i]) = i
      BY <1>1, <3>1, <3>2 DEF NoDuplicates
    <3> QED BY <2>3, <3>1, <3>3
  <2>5. CASE n < max
    <3>1. \A d \in Elems(L) : t.seat[d] \in 1..n
      BY <1>1, <1>4, <2>3, <2>5
    <3>2. \A i \in 1..n : i \in taken
      BY <1>1, <1>4, <2>4, <2>5
    <3>3. \A i \in taken : i \in 1..n
      BY <3>1
    <3>4. (1..max) \ taken = (n + 1)..max
      BY ONLY <1>1, <1>4, <2>5, <3>2, <3>3
    <3> QED BY <2>2, <2>5, <3>4
  <2>6. CASE ~(n < max)
    <3>1. \A i \in 1..max : i \in 1..n /\ i <= max
      BY <1>1, <1>4, <2>6
    <3>2. \A i \in 1..max : i \in taken
      BY <2>4, <3>1
    <3> QED BY <2>2, <2>6, <3>2
  <2> QED BY <2>5, <2>6
<1> PICK seat : seat = IF n < max THEN [t.seat EXCEPT ![c] = n + 1] ELSE t.seat
  OBVIOUS
<1>13. q = [p EXCEPT !.seat = seat]
  <2>1. CASE n < max
    <3>0. free = (n + 1)..max
      BY <1>12, <2>1
    <3>1. n + 1 \in free /\ free \in SUBSET Nat /\ free # {} /\ \A i \in free : n + 1 <= i
      <4>1. n \in Nat /\ max \in Int /\ n < max
        BY <1>1, <1>4, <2>1
      <4>2. n + 1 \in (n + 1)..max /\ \A i \in (n + 1)..max : i \in Nat /\ n + 1 <= i
        BY ONLY <4>1
      <4> QED BY ONLY <3>0, <4>2
    <3> PICK least : least = Least(free)
      OBVIOUS
    <3>2. least \in free /\ \A i \in free : least <= i
      BY <3>1, LeastProperties
    <3>3. least = n + 1
      <4>1. least \in Nat /\ least <= n + 1 /\ n + 1 <= least
        BY <3>1, <3>2
      <4> QED BY <1>1, <4>1
    <3>4. q = [p EXCEPT !.seat[c] = n + 1]
      BY <3>1, <3>3 DEF assignSeat
    <3> QED BY <1>11, <2>1, <3>4 DEF AppState
  <2>2. CASE ~(n < max)
    <3>1. q = p
      BY <1>12, <2>2 DEF assignSeat
    <3>2. [p EXCEPT !.seat = p.seat] = p
      BY <1>11 DEF AppState
    <3> QED BY <1>11, <2>2, <3>1, <3>2
  <2> QED BY <2>1, <2>2
<1>14. seat \in [Clients -> Nat]
  BY <1>1, <1>4
<1> PICK room : room = [t.room EXCEPT ![c] = r]
  OBVIOUS
<1>15. room \in [Clients -> Rooms \cup {NoRoom}]
  BY <1>4
<1>16. u = [p EXCEPT !.seat = seat, !.room = room]
  BY <1>7, <1>11, <1>13 DEF AppState
<1>17. /\ u \in AppState /\ u.object = object /\ u.seat = seat /\ u.room = room
       /\ u.rooms = t.rooms /\ u.freedRoomIds = t.freedRoomIds
       /\ u.nextRoomId = t.nextRoomId
  BY <1>11, <1>14, <1>15, <1>16 DEF AppState
<1>18. \A d \in Clients : u.room[d] = IF d \in Elems(M) THEN r ELSE s.room[d]
  <2>1. \A d \in Clients : u.room[d] = IF d = c THEN r ELSE t.room[d]
    BY <1>4, <1>17
  <2>2. \A d \in Clients : t.room[d] = IF d \in Elems(L) THEN r ELSE s.room[d]
    BY <1>1 DEF AllIn
  <2> QED BY <1>2, <2>1, <2>2
<1>19. \A d \in Clients : u.seat[d] = IF d \in Elems(M) /\ PlaceIn(M, d) <= max
                                      THEN PlaceIn(M, d) ELSE s.seat[d]
  <2> SUFFICES ASSUME NEW d \in Clients
               PROVE  u.seat[d] = IF d \in Elems(M) /\ PlaceIn(M, d) <= max
                                  THEN PlaceIn(M, d) ELSE s.seat[d]
    OBVIOUS
  <2>1. t.seat[d] = IF d \in Elems(L) /\ PlaceIn(L, d) <= max THEN PlaceIn(L, d)
                    ELSE s.seat[d]
    BY <1>1 DEF AllIn
  <2>2. u.seat[d] = IF d = c /\ n < max THEN n + 1 ELSE t.seat[d]
    BY <1>4, <1>17
  <2>3. CASE d = c
    <3>1. n < max <=> n + 1 <= max
      BY <1>1, <1>4
    <3> QED BY <1>2, <1>3, <2>1, <2>2, <2>3, <3>1
  <2>4. CASE d # c
    <3>1. d \in Elems(M) <=> d \in Elems(L)
      BY <1>2, <2>4
    <3>2. d \in Elems(L) => PlaceIn(M, d) = PlaceIn(L, d)
      BY <1>3
    <3> QED BY <2>1, <2>2, <2>4, <3>1, <3>2
  <2> QED BY <2>3, <2>4
<1>20. u.object[r] = [s.object[r] EXCEPT !.users = M]
  BY <1>9, <1>17
<1>21. \A k \in Rooms \ {r} : u.object[k] = s.object[k]
  BY <1>1, <1>9, <1>17 DEF AllIn
<1>22. /\ u.rooms = s.rooms /\ u.freedRoomIds = s.freedRoomIds
       /\ u.nextRoomId = s.nextRoomId
  BY <1>1, <1>17 DEF AllIn
<1>23. AllIn(s, u, r, M)
  BY <1>17, <1>18, <1>19, <1>20, <1>21, <1>22 DEF AllIn
<1> QED BY <1>2, <1>23 DEF Entered

\* One who is in a room stays there.
LEMMA AwayStays ==
  ASSUME NEW s, NEW t, NEW r, NEW L, Entered(s, t, r, L),
         NEW c \in Clients, c \notin Elems(L), s.room[c] # NoRoom
  PROVE  JoinClient(t, r, c) = t
<1>1. t.room[c] = s.room[c]
  BY DEF Entered, AllIn
<1> QED BY <1>1 DEF JoinClient

\* The room of a complete group.
LEMMA JoinedIs ==
  ASSUME NEW s \in AppState, NEW r \in Rooms, NEW number \in Int,
         NEW users \in Seq(Clients), users # <<>>, NoDuplicates(users),
         s.room[users[1]] = NoRoom
  PROVE  JoinedInTurn(s, r, users, number) = CreateMatched(s, r, Roomless(s, users), number)
<1> PICK roomless : roomless = {d \in Clients : s.room[d] = NoRoom}
  OBVIOUS
<1> PICK n \in Nat : n = Len(users) /\ n # 0
  OBVIOUS
<1> PICK first : first = users[1]
  OBVIOUS
<1> PICK rest : rest = Tail(users)
  OBVIOUS
<1> PICK max : max = Capacity(number)
  OBVIOUS
<1> PICK a : a = AddRoom(s, r, first, max)
  OBVIOUS
<1> PICK join : join = [call \in AppState \X Clients |-> JoinClient(call[1], r, call[2])]
  OBVIOUS
<1>1. /\ DOMAIN users = 1..n /\ \A j \in 1..n : users[j] \in Clients
      /\ \A j, k \in 1..n : users[j] = users[k] => j = k
  <2>1. DOMAIN users = 1..n
    OBVIOUS
  <2>2. \A j \in 1..n : users[j] \in Clients
    OBVIOUS
  <2>3. \A j, k \in 1..n : users[j] = users[k] => j = k
    BY <2>1 DEF NoDuplicates
  <2> QED BY <2>1, <2>2, <2>3
<1>2. /\ rest \in Seq(Clients) /\ Len(rest) = n - 1
      /\ \A i \in 1..(n - 1) : rest[i] = users[i + 1]
  OBVIOUS
<1>3. first \in Clients /\ first \in roomless /\ max \in Int
  BY <1>1, CapacityType
<1>4. a \in AppState /\ a.room = s.room /\ a.object[r].users = <<>>
  BY <1>3, AddRoomTyped
<1> PICK pre : pre = [i \in 0..(n - 1) |-> [j \in 1..(i + 1) |-> users[j]]]
  OBVIOUS
<1> PICK lists : lists = [i \in 0..(n - 1) |-> Keep(pre[i], roomless)]
  OBVIOUS
<1> PICK after : after = [i \in 0..(n - 1) |-> JoinAll(a, r, lists[i])]
  OBVIOUS
<1>5. ASSUME NEW i \in 0..(n - 1)
      PROVE  /\ pre[i] \in Seq(Clients) /\ Len(pre[i]) = i + 1
             /\ \A j \in 1..(i + 1) : j \in 1..n /\ pre[i][j] = users[j]
             /\ NoDuplicates(pre[i])
  <2>1. i + 1 \in Nat /\ \A j \in 1..(i + 1) : j \in 1..n
    OBVIOUS
  <2>2. pre[i] = [j \in 1..(i + 1) |-> users[j]]
    OBVIOUS
  <2>3. \A j \in 1..(i + 1) : users[j] \in Clients
    BY <1>1, <2>1
  <2>4. pre[i] \in Seq(Clients) /\ Len(pre[i]) = i + 1 /\ DOMAIN pre[i] = 1..(i + 1)
    BY ONLY <2>1, <2>2, <2>3
  <2>5. \A j \in 1..(i + 1) : pre[i][j] = users[j]
    BY ONLY <2>2
  <2>6. NoDuplicates(pre[i])
    BY <1>1, <2>1, <2>4, <2>5 DEF NoDuplicates
  <2> QED BY <2>1, <2>4, <2>5, <2>6
<1>6. ASSUME NEW i \in 0..(n - 1)
      PROVE  Entered(a, after[i], r, lists[i])
  <2> PICK p : p = pre[i]
    OBVIOUS
  <2>1. p \in Seq(Clients) /\ NoDuplicates(p)
    BY <1>5
  <2>2. lists[i] = Keep(p, roomless)
    OBVIOUS
  <2>3. lists[i] \in Seq(Clients) /\ NoDuplicates(lists[i])
    BY <2>1, <2>2, KeepProperties
  <2>4. AllIn(a, after[i], r, lists[i])
    BY <1>4, <2>3, JoinAllIs
  <2> QED BY <2>3, <2>4 DEF Entered
<1>7. after[0] = CreateRoom(s, r, first, max)
  <2> PICK u : u = JoinClient(a, r, first)
    OBVIOUS
  <2> PICK empty : empty = <<>>
    OBVIOUS
  <2>1. empty \in Seq(Clients) /\ NoDuplicates(empty) /\ Elems(empty) = {}
    BY DEF NoDuplicates, Elems
  <2>2. AllIn(a, a, r, empty)
    <3>1. a.object[r] \in RoomObject /\ a.object[r].users = empty
      BY <1>4 DEF AppState
    <3>2. a.object[r] = [a.object[r] EXCEPT !.users = empty]
      BY <3>1 DEF RoomObject
    <3> QED BY <1>4, <2>1, <3>2 DEF AllIn
  <2>3. Entered(a, a, r, empty)
    BY <2>1, <2>2 DEF Entered
  <2>4. first \notin Elems(empty) /\ a.room[first] = NoRoom
    BY <1>4, <2>1
  <2>5. Entered(a, u, r, Append(empty, first))
    BY <1>3, <1>4, <2>3, <2>4, OneMoreIn
  <2>6. lists[0] = Append(empty, first)
    <3>1. 0 \in 0..(n - 1)
      OBVIOUS
    <3>2. pre[0] = Append(empty, first)
      <4>1. Append(empty, first) = <<first>> /\ pre[0] = [j \in 1..1 |-> users[j]]
        BY <3>1
      <4>2. \A j \in 1..1 : j = 1
        OBVIOUS
      <4>3. pre[0] = [j \in 1..1 |-> first]
        BY ONLY <4>1, <4>2, first = users[1]
      <4>4. [j \in 1..1 |-> first] = <<first>>
        OBVIOUS
      <4> QED BY ONLY <4>1, <4>3, <4>4
    <3>3. /\ Append(empty, first) \in Seq(Clients)
          /\ Elems(Append(empty, first)) \subseteq roomless
      <4>1. /\ Append(empty, first) \in Seq(Clients)
            /\ Elems(Append(empty, first)) = Elems(empty) \cup {first}
        BY ONLY <1>3, <2>1, AppendElems
      <4> QED BY <1>3, <2>1, <4>1
    <3>4. Keep(Append(empty, first), roomless) = Append(empty, first)
      BY <3>3, KeepAll
    <3>5. lists[0] = Keep(pre[0], roomless)
      BY <3>1
    <3> QED BY <3>2, <3>4, <3>5
  <2>7. AllIn(a, u, r, lists[0]) /\ AllIn(a, after[0], r, lists[0])
    <3>1. Entered(a, after[0], r, lists[0])
      <4>1. 0 \in 0..(n - 1)
        OBVIOUS
      <4> QED BY <1>6, <4>1
    <3> QED BY <2>5, <2>6, <3>1 DEF Entered
  <2>8. after[0] = u
    BY <2>7, AllInOnce
  <2> QED BY <2>8 DEF CreateRoom
<1>8. ASSUME NEW i \in 1..(n - 1)
      PROVE  after[i] = join[<<after[i - 1], rest[i]>>]
  <2> PICK d : d = rest[i]
    OBVIOUS
  <2> PICK k : k = i - 1
    OBVIOUS
  <2>1. k \in 0..(n - 1) /\ i \in 0..(n - 1) /\ d = users[i + 1] /\ i + 1 \in 1..n
        /\ k + 1 = i
    BY <1>2
  <2>2. d \in Clients
    BY <1>1, <2>1
  <2>3. Entered(a, after[k], r, lists[k]) /\ Entered(a, after[i], r, lists[i])
    BY <1>6, <2>1
  <2> PICK p : p = pre[k]
    OBVIOUS
  <2>4. p \in Seq(Clients) /\ Len(p) = i /\ \A j \in 1..i : j \in 1..n /\ p[j] = users[j]
    BY <1>5, <2>1
  <2>5. pre[i] = Append(p, d)
    <3> PICK q : q = pre[i]
      OBVIOUS
    <3>1. q \in Seq(Clients) /\ Len(q) = i + 1 /\ \A j \in 1..(i + 1) : q[j] = users[j]
      BY <1>5, <2>1
    <3>2. /\ Append(p, d) \in Seq(Clients) /\ Len(Append(p, d)) = i + 1
          /\ \A j \in 1..i : Append(p, d)[j] = p[j]
          /\ Append(p, d)[i + 1] = d
      BY <2>2, <2>4
    <3>3. \A j \in 1..(i + 1) : j \in 1..i \/ j = i + 1
      OBVIOUS
    <3>4. \A j \in 1..(i + 1) : q[j] = Append(p, d)[j]
      BY <2>1, <2>4, <3>1, <3>2, <3>3
    <3> QED BY <3>1, <3>2, <3>4
  <2>6. d \notin Elems(p)
    <3>1. \A j \in DOMAIN p : j \in 1..i /\ p[j] = users[j] /\ j \in 1..n
      BY <2>4
    <3>2. \A j \in DOMAIN p : p[j] # d
      BY <1>1, <2>1, <3>1
    <3> QED BY <3>2 DEF Elems
  <2>7. lists[k] = Keep(p, roomless)
    BY <2>1
  <2>8. d \notin Elems(lists[k])
    BY <2>4, <2>6, <2>7, KeepProperties
  <2>9. lists[i] = IF d \in roomless THEN Append(lists[k], d) ELSE lists[k]
    <3>1. lists[i] = Keep(Append(p, d), roomless)
      BY <2>1, <2>5
    <3>2. p \in Seq(Clients) /\ d \in Clients
      BY <2>2, <2>4
    <3>3. Keep(Append(p, d), roomless) =
            IF d \in roomless THEN Append(Keep(p, roomless), d) ELSE Keep(p, roomless)
      BY ONLY <3>2, KeepAppend
    <3> QED BY ONLY <2>7, <3>1, <3>3
  <2> PICK u : u = JoinClient(after[k], r, d)
    OBVIOUS
  <2>10. after[i] = u
    <3>1. CASE d \in roomless
      <4>1. a.room[d] = NoRoom
        BY <1>4, <3>1
      <4>2. Entered(a, u, r, Append(lists[k], d))
        BY <1>4, <2>2, <2>3, <2>8, <4>1, OneMoreIn
      <4>3. AllIn(a, u, r, lists[i]) /\ AllIn(a, after[i], r, lists[i])
        BY <2>3, <2>9, <3>1, <4>2 DEF Entered
      <4> QED BY <4>3, AllInOnce
    <3>2. CASE d \notin roomless
      <4>1. a.room[d] # NoRoom
        BY <1>4, <2>2, <3>2
      <4>2. u = after[k]
        BY <2>2, <2>3, <2>8, <4>1, AwayStays
      <4>3. AllIn(a, u, r, lists[i]) /\ AllIn(a, after[i], r, lists[i])
        BY <2>3, <2>9, <3>2, <4>2 DEF Entered
      <4> QED BY <4>3, AllInOnce
    <3> QED BY <3>1, <3>2
  <2>11. after[k] \in AppState
    BY <2>3 DEF Entered, AllIn
  <2>12. join[<<after[k], d>>] = u
    BY <2>2, <2>11
  <2> QED BY <2>10, <2>12
<1>9. Looped(join, CreateRoom(s, r, first, max), rest) = after[n - 1]
  <2> PICK start : start = CreateRoom(s, r, first, max)
    OBVIOUS
  <2>1. after = [i \in 0..Len(rest) |-> after[i]]
    BY <1>2
  <2>2. Turns(after, join, start, rest)
    BY <1>2, <1>7, <1>8, <2>1 DEF Turns
  <2>3. Looped(join, start, rest) = after[Len(rest)]
    <3>1. rest \in Seq(Clients)
      BY <1>2
    <3> QED BY ONLY <2>2, <3>1, LoopedIs
  <2> QED BY <1>2, <2>3
<1>10. JoinedInTurn(s, r, users, number) = after[n - 1]
  BY <1>9 DEF JoinedInTurn
<1> PICK joiners : joiners = Keep(users, roomless)
  OBVIOUS
<1>11. after[n - 1] = JoinAll(a, r, joiners)
  <2>1. n - 1 \in 0..(n - 1) /\ (n - 1) + 1 = n
    OBVIOUS
  <2> PICK p : p = pre[n - 1]
    OBVIOUS
  <2>2. p \in Seq(Clients) /\ Len(p) = n /\ \A j \in 1..n : p[j] = users[j]
    BY <1>5, <2>1
  <2>3. p = users
    BY <2>2
  <2> QED BY <2>1, <2>3
<1>12. joiners[1] = first
  <2>1. joiners # <<>>
    <3>1. first \in Elems(users)
      BY FirstIsElem
    <3>2. Elems(joiners) = Elems(users) \cap roomless
      BY KeepProperties
    <3>3. Elems(<<>>) = {}
      BY DEF Elems
    <3> QED BY <1>3, <3>1, <3>2, <3>3
  <2>2. PICK i \in DOMAIN users : /\ users[i] = joiners[1]
                                  /\ \A k \in 1..(i - 1) : users[k] \notin roomless
    BY <2>1, KeepFirst
  <2>3. i = 1
    <3>1. i \in 1..n
      BY <1>1
    <3>2. i # 1 => 1 \in 1..(i - 1)
      BY <3>1
    <3> QED BY <1>3, <2>2, <3>2
  <2> QED BY <2>2, <2>3
<1>13. Roomless(s, users) = joiners
  BY DEF Roomless
<1>14. CreateMatched(s, r, joiners, number) = JoinAll(a, r, joiners)
  BY <1>12 DEF CreateMatched
<1> QED BY <1>10, <1>11, <1>13, <1>14

\* The two parts of LoopsAsClosed.
LEMMA LoopLeaves == MatchInv => LoopLeavesBehind
<1> SUFFICES ASSUME MatchInv, NEW i \in DOMAIN matchUsersGroup, NEW c \in Clients,
                    c \notin Elems(matchUsersGroup[i].users)
             PROVE  LET users == Append(matchUsersGroup[i].users, c)
                    IN  RemoveWhileRanging(users) = LeftBehind(users)
  BY DEF LoopLeavesBehind
<1> PICK waiting : waiting = matchUsersGroup[i].users
  OBVIOUS
<1> PICK users : users = Append(waiting, c)
  OBVIOUS
<1>1. waiting \in Seq(Clients) /\ NoDuplicates(waiting)
  <2>1. matchUsersGroup \in Seq(Groups) /\ GroupsAgree(matchUsersGroup, Elems(matchUsers))
    BY QueueNow
  <2>2. matchUsersGroup[i] \in Groups /\ NoDuplicates(waiting)
    BY <2>1 DEF GroupsAgree
  <2> QED BY <2>2 DEF Groups
<1>2. users \in Seq(Clients) /\ NoDuplicates(users)
  BY <1>1, AppendElems
<1>3. users # <<>>
  BY <1>1
<1>4. RemoveWhileRanging(users) = LeftBehind(users)
  BY <1>2, <1>3, RangingLeaves
<1> QED BY <1>4

LEMMA JoinedSame == MatchInv => JoinedIsCreateMatched
<1> SUFFICES ASSUME MatchInv,
                    NEW i \in DOMAIN matchUsersGroup, NEW c \in Clients, NEW r \in Rooms,
                    c \notin Elems(matchUsersGroup[i].users),
                    ~InRoom(Append(matchUsersGroup[i].users, c)[1]),
                    NEW away \in SUBSET (Elems(Append(matchUsersGroup[i].users, c))
                                           \ {Append(matchUsersGroup[i].users, c)[1]})
             PROVE  LET g     == matchUsersGroup[i]
                        users == Append(g.users, c)
                        s     == [app EXCEPT !.room =
                                    [d \in Clients |-> IF d \in away THEN r ELSE @[d]]]
                    IN  JoinedInTurn(s, r, users, g.option.number)
                          = CreateMatched(s, r, Roomless(s, users), g.option.number)
  BY DEF JoinedIsCreateMatched
<1> PICK g : g = matchUsersGroup[i]
  OBVIOUS
<1> PICK users : users = Append(g.users, c)
  OBVIOUS
<1> PICK number : number = g.option.number
  OBVIOUS
<1> PICK room : room = [d \in Clients |-> IF d \in away THEN r ELSE app.room[d]]
  OBVIOUS
<1> PICK s : s = [app EXCEPT !.room = room]
  OBVIOUS
<1>1. g \in Groups /\ NoDuplicates(g.users)
  <2>1. matchUsersGroup \in Seq(Groups) /\ GroupsAgree(matchUsersGroup, Elems(matchUsers))
    BY QueueNow
  <2> QED BY <2>1 DEF GroupsAgree
<1>2. g.users \in Seq(Clients) /\ number \in Int
  BY <1>1, OptionsAssumption, CountsAssumption DEF Groups
<1>3. users \in Seq(Clients) /\ NoDuplicates(users) /\ users # <<>>
  <2>1. users \in Seq(Clients) /\ NoDuplicates(users)
    BY <1>1, <1>2, AppendElems
  <2>2. Len(users) = Len(g.users) + 1 /\ Len(g.users) \in Nat
    BY <1>2
  <2> QED BY <2>1, <2>2
<1>4. app \in AppState /\ app.room \in [Clients -> Rooms \cup {NoRoom}]
  BY DEF MatchInv, IInv, AppInv, Coherent, Typed, AppState
<1>5. room \in [Clients -> Rooms \cup {NoRoom}]
  BY <1>4
<1>6. s \in AppState /\ s.room = room
  BY <1>4, <1>5 DEF AppState
<1>7. s.room[users[1]] = NoRoom
  <2>1. users[1] \in Clients
    BY <1>3
  <2>2. users[1] \notin away /\ app.room[users[1]] = NoRoom
    BY DEF InRoom
  <2> QED BY <1>6, <2>1, <2>2
<1>8. JoinedInTurn(s, r, users, number) = CreateMatched(s, r, Roomless(s, users), number)
  <2>1. r \in Rooms /\ s \in AppState
    BY <1>6
  <2> QED BY ONLY <1>2, <1>3, <1>7, <2>1, JoinedIs
<1>9. s = [app EXCEPT !.room = [d \in Clients |-> IF d \in away THEN r ELSE @[d]]]
  BY <1>4
<1> QED BY <1>8, <1>9

\* What mathMatch does to the rooms for a complete group, and whom its loop over the
\* list that the loop itself shortens leaves behind, is in every reachable state
\* what Matchmaking says in closed form.  (JoinedIs and RangingLeaves say so of
\* groups of any size.)
THEOREM LoopsDoAsClosed == MatchSpec => []LoopsAsClosed
<1>1. MatchInv => LoopsAsClosed
  BY LoopLeaves, JoinedSame DEF LoopsAsClosed
<1> QED BY <1>1, MatchInvariance, PTL
=============================================================================
