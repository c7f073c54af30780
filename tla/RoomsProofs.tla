---------------------------- MODULE RoomsProofs ----------------------------
(***************************************************************************)
(* Theorems about Rooms, for any clients, accounts, rooms and capacities.  *)
(*                                                                         *)
(* First what each method of App and Room changes, then the invariants.    *)
(* Handlers are compositions of methods, so an invariant needs one lemma   *)
(* per method and one step per handler.                                    *)
(* The second half is about what members of rooms may rely on: sessions,   *)
(* locks, masters, sweeps, seats, and no rooms of ghosts.  It says which   *)
(* fields a composed method changes; then, for every property, what it     *)
(* takes to be inductive, with one step per way in which a handler changes *)
(* the App.                                                                *)
(***************************************************************************)
EXTENDS ExitRecursion, ListsProofs

LEMMA NilRoomType == NilRoom \in RoomObject
  BY DEF NilRoom, RoomObject

LEMMA MembersType ==
  ASSUME NEW s \in AppState, NEW r \in Rooms
  PROVE  Members(s, r) \subseteq Clients
  BY DEF Members, Elems, AppState, RoomObject

-----------------------------------------------------------------------------
LEMMA AssignSeatFields ==
  ASSUME NEW s \in AppState, NEW r \in Rooms, NEW c \in Clients
  PROVE  \E seats \in [Clients -> Nat] : assignSeat(s, r, c) = [s EXCEPT !.seat = seats]
<1>1. s = [s EXCEPT !.seat = s.seat] /\ s.seat \in [Clients -> Nat]
  BY DEF AppState
<1>2. ASSUME FreeSeats(s, r, c) # {}
      PROVE  Least(FreeSeats(s, r, c)) \in Nat
  <2>1. FreeSeats(s, r, c) \in SUBSET Nat
    BY DEF FreeSeats
  <2> QED BY <2>1, <1>2, LeastProperties
<1>3. ASSUME NEW n \in Nat
      PROVE  /\ [s EXCEPT !.seat[c] = n] = [s EXCEPT !.seat = [s.seat EXCEPT ![c] = n]]
             /\ [s.seat EXCEPT ![c] = n] \in [Clients -> Nat]
  BY DEF AppState
<1>4. CASE FreeSeats(s, r, c) = {}
  BY <1>1, <1>4 DEF assignSeat
<1>5. CASE FreeSeats(s, r, c) # {}
  BY <1>2, <1>3, <1>5 DEF assignSeat
<1> QED BY <1>4, <1>5

LEMMA JoinClientFields ==
  ASSUME NEW s \in AppState, NEW r \in Rooms, NEW c \in Clients,
         s.room[c] = NoRoom,
         NEW t, t = JoinClient(s, r, c)
  PROVE  /\ t \in AppState
         /\ t.rooms = s.rooms
         /\ t.freedRoomIds = s.freedRoomIds
         /\ t.nextRoomId = s.nextRoomId
         /\ t.room = [s.room EXCEPT ![c] = r]
         /\ t.object = [s.object EXCEPT ![r].users = Append(@, c)]
<1> DEFINE pushed == [s EXCEPT !.object[r].users = Append(@, c)]
<1>1. pushed \in AppState
  <2>1. s.object[r] \in RoomObject /\ s.object[r].users \in Seq(Clients)
    BY DEF AppState, RoomObject
  <2>2. Append(s.object[r].users, c) \in Seq(Clients)
    BY <2>1
  <2>3. [s.object[r] EXCEPT !.users = Append(@, c)] \in RoomObject
    BY <2>1, <2>2 DEF RoomObject
  <2>4. pushed = [s EXCEPT !.object = [s.object EXCEPT
                    ![r] = [s.object[r] EXCEPT !.users = Append(@, c)]]]
    BY DEF AppState
  <2> QED BY <2>3, <2>4 DEF AppState
<1>2. PICK seats \in [Clients -> Nat] :
             assignSeat(pushed, r, c) = [pushed EXCEPT !.seat = seats]
  <2> HIDE DEF pushed
  <2> QED BY <1>1, AssignSeatFields
<1>3. t = [pushed EXCEPT !.seat = seats, !.room[c] = r]
  BY <1>2 DEF JoinClient
<1>4. pushed.rooms = s.rooms /\ pushed.freedRoomIds = s.freedRoomIds
      /\ pushed.nextRoomId = s.nextRoomId /\ pushed.room = s.room
      /\ pushed.object = [s.object EXCEPT ![r].users = Append(@, c)]
  BY DEF AppState
<1> HIDE DEF pushed
<1>5. t = [pushed EXCEPT !.seat = seats, !.room = [pushed.room EXCEPT ![c] = r]]
  BY <1>1, <1>3 DEF AppState
<1>6. [pushed.room EXCEPT ![c] = r] \in [Clients -> Rooms \cup {NoRoom}]
  BY <1>1 DEF AppState
<1>7. t \in AppState
  BY <1>1, <1>5, <1>6 DEF AppState
<1> QED BY <1>1, <1>4, <1>5, <1>7 DEF AppState

LEMMA MoveOutFields ==
  ASSUME NEW s \in AppState, NEW r \in Rooms, NEW gone,
         NEW t, t = MoveOut(s, r, gone)
  PROVE  /\ t \in AppState
         /\ t.rooms = s.rooms
         /\ t.freedRoomIds = s.freedRoomIds
         /\ t.nextRoomId = s.nextRoomId
         /\ t.room = [c \in Clients |-> IF c \in gone THEN NoRoom ELSE s.room[c]]
         /\ t.object = [s.object EXCEPT
              ![r].users = Left(s.object[r].users, gone),
              ![r].master = Heir(s.object[r].master, gone, Left(s.object[r].users, gone))]
<1> DEFINE left == Left(s.object[r].users, gone)
           heir == Heir(s.object[r].master, gone, left)
<1>1. s.object[r].users \in Seq(Clients)
      /\ s.object[r].master \in Clients \cup {NoClient}
  BY DEF AppState, RoomObject
<1>2. left \in Seq(Clients)
  BY <1>1, KeepProperties DEF Left
<1>3. heir \in Clients \cup {NoClient}
  <2> HIDE DEF left
  <2>1. left # <<>> => left[1] \in Clients
    BY <1>2
  <2> QED BY <2>1, <1>1 DEF Heir
<1>4. t = [s EXCEPT !.object[r].users = left, !.object[r].master = heir,
                    !.room = [c \in Clients |-> IF c \in gone THEN NoRoom ELSE s.room[c]],
                    !.seat = [c \in Clients |-> IF c \in gone THEN 0 ELSE s.seat[c]]]
  BY DEF MoveOut, AppState, RoomObject
<1> HIDE DEF left, heir
<1>5. t.object = [s.object EXCEPT ![r].users = left, ![r].master = heir]
  BY <1>4 DEF AppState
<1>6. t.object \in [Rooms -> RoomObject]
  <2>1. s.object \in [Rooms -> RoomObject]
    BY DEF AppState
  <2>2. [s.object[r] EXCEPT !.users = left, !.master = heir] \in RoomObject
    BY <2>1, <1>2, <1>3 DEF RoomObject
  <2>3. t.object = [s.object EXCEPT ![r] =
                      [s.object[r] EXCEPT !.users = left, !.master = heir]]
    BY <2>1, <1>5
  <2> QED BY <2>1, <2>2, <2>3
<1>7. [c \in Clients |-> IF c \in gone THEN NoRoom ELSE s.room[c]]
        \in [Clients -> Rooms \cup {NoRoom}]
  BY DEF AppState
<1>8. [c \in Clients |-> IF c \in gone THEN 0 ELSE s.seat[c]] \in [Clients -> Nat]
  BY DEF AppState
<1>9. t \in AppState
  <2> DEFINE rooms == [c \in Clients |-> IF c \in gone THEN NoRoom ELSE s.room[c]]
             seats == [c \in Clients |-> IF c \in gone THEN 0 ELSE s.seat[c]]
  <2>1. t = [s EXCEPT !.object = t.object, !.room = rooms, !.seat = seats]
    BY <1>4, <1>5 DEF AppState
  <2>2. rooms \in [Clients -> Rooms \cup {NoRoom}] /\ seats \in [Clients -> Nat]
    BY <1>7, <1>8
  <2> HIDE DEF rooms, seats
  <2> QED BY <2>1, <2>2, <1>6 DEF AppState
<1> QED BY <1>4, <1>5, <1>9 DEF AppState, left, heir

LEMMA RemoveRoomFields ==
  ASSUME NEW s, Typed(s), NEW r \in Rooms,
         NEW t, t = removeRoom(s, r)
  PROVE  /\ Typed(t)
         /\ t.rooms = s.rooms \ {r}
         /\ t.freedRoomIds = IF r \in s.rooms THEN Append(s.freedRoomIds, s.object[r].id)
                             ELSE s.freedRoomIds
         /\ t.nextRoomId = s.nextRoomId
         /\ t.room = s.room /\ t.object = s.object /\ t.seat = s.seat
<1>1. CASE r \notin s.rooms
  BY <1>1 DEF removeRoom, Typed, AppState
<1>2. CASE r \in s.rooms
  <2>1. s.object[r].id \in Nat \ {0}
    BY <1>2 DEF Typed, AppState, RoomObject
  <2>2. Append(s.freedRoomIds, s.object[r].id) \in Seq(Nat \ {0})
    BY <2>1 DEF Typed, AppState
  <2>3. t = [s EXCEPT !.rooms = s.rooms \ {r},
                      !.freedRoomIds = Append(s.freedRoomIds, s.object[r].id)]
    BY <1>2 DEF removeRoom, Typed, AppState
  <2> QED BY <1>2, <2>2, <2>3 DEF Typed, AppState
<1> QED BY <1>1, <1>2

LEMMA CollectFields ==
  ASSUME NEW s, Typed(s), NEW t, t = Collect(s)
  PROVE  /\ Typed(t)
         /\ t.rooms = s.rooms /\ t.freedRoomIds = s.freedRoomIds
         /\ t.nextRoomId = s.nextRoomId
         /\ t.room = s.room /\ t.seat = s.seat
         /\ t.object = [r \in Rooms |->
                          IF r \in s.rooms \/ s.object[r].users # <<>>
                          THEN s.object[r] ELSE NilRoom]
  BY NilRoomType DEF Collect, Typed, AppState
-----------------------------------------------------------------------------
\* What holds of an App between two method calls of a handler is Coherent:
\* everything but MasterIsMember, which CreateRoom establishes only with its
\* JoinClient.
AppInv(s) == Coherent(s) /\ MasterIsMemberIn(s)

LEMMA SameIds ==
  ASSUME NEW s, NEW t, RoomIdsConservedIn(s),
         t.rooms = s.rooms, t.freedRoomIds = s.freedRoomIds,
         t.nextRoomId = s.nextRoomId,
         \A r \in s.rooms : t.object[r].id = s.object[r].id
  PROVE  RoomIdsConservedIn(t)
<1>1. IdsOfRooms(t) = IdsOfRooms(s)
  BY DEF IdsOfRooms
<1> QED BY <1>1 DEF RoomIdsConservedIn

LEMMA JoinClientCoherent ==
  ASSUME NEW s, Coherent(s), NEW r \in Rooms, NEW c \in Clients,
         s.room[c] = NoRoom,
         NEW t, t = JoinClient(s, r, c)
  PROVE  /\ Coherent(t)
         /\ t.rooms = s.rooms
         /\ \A q \in Rooms : t.object[q].master = s.object[q].master
         /\ Members(t, r) = Members(s, r) \cup {c}
         /\ \A q \in Rooms \ {r} : Members(t, q) = Members(s, q)
<1>1. s \in AppState /\ Typed(s) /\ MembershipIn(s) /\ RoomIdsConservedIn(s)
  BY DEF Coherent, Typed
<1>2. /\ t \in AppState
      /\ t.rooms = s.rooms
      /\ t.freedRoomIds = s.freedRoomIds
      /\ t.nextRoomId = s.nextRoomId
      /\ t.room = [s.room EXCEPT ![c] = r]
      /\ t.object = [s.object EXCEPT ![r].users = Append(@, c)]
  BY <1>1, JoinClientFields
<1>3. s.object \in [Rooms -> RoomObject] /\ s.room \in [Clients -> Rooms \cup {NoRoom}]
      /\ s.rooms \subseteq Rooms
  BY <1>1 DEF AppState
<1>4. s.object[r].users \in Seq(Clients)
  BY <1>3 DEF RoomObject
<1>5. /\ t.object[r].users = Append(s.object[r].users, c)
      /\ \A q \in Rooms : /\ t.object[q].id = s.object[q].id
                          /\ t.object[q].master = s.object[q].master
      /\ \A q \in Rooms \ {r} : t.object[q] = s.object[q]
  BY <1>2, <1>3 DEF RoomObject
<1>6. Members(t, r) = Members(s, r) \cup {c}
  BY <1>4, <1>5, AppendElems DEF Members
<1>7. \A q \in Rooms \ {r} : Members(t, q) = Members(s, q)
  BY <1>5 DEF Members
<1>8. c \notin Members(s, r)
  BY <1>1, SentinelsAssumption DEF MembershipIn
<1>9. MembershipIn(t)
  <2>1. NoDuplicates(t.object[r].users)
    BY <1>1, <1>4, <1>5, <1>8, AppendElems DEF MembershipIn, Members
  <2>2. Members(t, r) = {d \in Clients : t.room[d] = r}
    BY <1>1, <1>2, <1>3, <1>6 DEF MembershipIn
  <2>3. ASSUME NEW q \in Rooms \ {r}
        PROVE  /\ NoDuplicates(t.object[q].users)
               /\ Members(t, q) = {d \in Clients : t.room[d] = q}
    <3>1. \A d \in Clients : t.room[d] = q <=> s.room[d] = q
      BY <1>2, <1>3, <2>3, SentinelsAssumption
    <3> QED BY <3>1, <1>1, <1>5, <1>7, <2>3 DEF MembershipIn
  <2> QED BY <2>1, <2>2, <2>3 DEF MembershipIn
<1>10. RoomIdsConservedIn(t)
  BY <1>1, <1>2, <1>3, <1>5, SameIds
<1>11. Typed(t)
  BY <1>1, <1>2, <1>3, <1>5 DEF Typed
<1> QED BY <1>2, <1>5, <1>6, <1>7, <1>9, <1>10, <1>11 DEF Coherent

LEMMA JoinClientInv ==
  ASSUME NEW s, AppInv(s), NEW r \in Rooms, NEW c \in Clients
  PROVE  AppInv(JoinClient(s, r, c))
<1>1. CASE s.room[c] # NoRoom
  BY <1>1 DEF JoinClient
<1>2. CASE s.room[c] = NoRoom
  <2> SUFFICES ASSUME NEW t, t = JoinClient(s, r, c)
               PROVE  AppInv(t)
    OBVIOUS
  <2>1. Coherent(s) /\ MasterIsMemberIn(s) /\ s.rooms \subseteq Rooms
    BY DEF AppInv, Coherent, Typed, AppState
  <2>2. /\ Coherent(t)
        /\ t.rooms = s.rooms
        /\ \A q \in Rooms : t.object[q].master = s.object[q].master
        /\ Members(t, r) = Members(s, r) \cup {c}
        /\ \A q \in Rooms \ {r} : Members(t, q) = Members(s, q)
    BY <1>2, <2>1, JoinClientCoherent
  <2>3. MasterIsMemberIn(t)
    BY <2>1, <2>2 DEF MasterIsMemberIn
  <2> QED BY <2>2, <2>3 DEF AppInv
<1> QED BY <1>1, <1>2

\* Members that move out leave the others, in their order, and a master that
\* is one of them.
LEMMA MoveOutKeeps ==
  ASSUME NEW s, Coherent(s), NEW r \in Rooms,
         NEW gone \in SUBSET Members(s, r),
         NEW t, t = MoveOut(s, r, gone)
  PROVE  /\ Coherent(t)
         /\ t.rooms = s.rooms
         /\ t.object[r].id = s.object[r].id
         /\ Members(t, r) = Members(s, r) \ gone
         /\ t.object[r].users \in Seq(Clients)
         /\ MasterIsMemberIn(s) =>
              /\ r \in t.rooms /\ t.object[r].users # <<>>
                   => t.object[r].master \in Members(t, r)
              /\ \A q \in t.rooms \ {r} : t.object[q].master \in Members(t, q)
<1> DEFINE left == Left(s.object[r].users, gone)
           heir == Heir(s.object[r].master, gone, left)
<1>1. /\ s \in AppState /\ Typed(s) /\ MembershipIn(s) /\ RoomIdsConservedIn(s)
  BY DEF Coherent, Typed
<1>2. /\ t \in AppState
      /\ t.rooms = s.rooms
      /\ t.freedRoomIds = s.freedRoomIds
      /\ t.nextRoomId = s.nextRoomId
      /\ t.room = [c \in Clients |-> IF c \in gone THEN NoRoom ELSE s.room[c]]
      /\ t.object = [s.object EXCEPT ![r].users = left, ![r].master = heir]
  BY <1>1, MoveOutFields
<1>3. s.object \in [Rooms -> RoomObject] /\ s.room \in [Clients -> Rooms \cup {NoRoom}]
      /\ s.rooms \subseteq Rooms
  BY <1>1 DEF AppState
<1>4. s.object[r].users \in Seq(Clients)
  BY <1>3 DEF RoomObject
<1>5. Members(s, r) \subseteq Clients
  BY <1>1, MembersType
<1>6. /\ left \in Seq(Clients)
      /\ Elems(left) = Members(s, r) \ gone
      /\ NoDuplicates(left)
  <2>1. NoDuplicates(s.object[r].users)
    BY <1>1 DEF MembershipIn
  <2>2. /\ left \in Seq(Clients) /\ NoDuplicates(left)
        /\ Elems(left) = Elems(s.object[r].users) \cap (Clients \ gone)
    BY <1>4, <2>1, KeepProperties DEF Left
  <2> HIDE DEF left
  <2> QED BY <2>2, <1>5 DEF Members
<1> HIDE DEF left
<1>7. left # <<>> => left[1] \in Elems(left)
  BY <1>6 DEF Elems
<1>8. s.object[r].master \in Members(s, r) /\ left # <<>> => heir \in Elems(left)
  BY <1>6, <1>7 DEF Heir
<1> HIDE DEF heir
<1>9. /\ t.object[r].users = left /\ t.object[r].master = heir
      /\ \A q \in Rooms : t.object[q].id = s.object[q].id
      /\ \A q \in Rooms \ {r} : t.object[q] = s.object[q]
  BY <1>2, <1>3 DEF RoomObject
<1>10. /\ Members(t, r) = Members(s, r) \ gone
       /\ \A q \in Rooms \ {r} : Members(t, q) = Members(s, q)
  BY <1>6, <1>9 DEF Members
<1>11. MembershipIn(t)
  <2>1. \A d \in gone : d \in Clients /\ s.room[d] = r
    BY <1>1, <1>5 DEF MembershipIn
  <2>2. ASSUME NEW q \in Rooms, NEW d \in Clients
        PROVE  t.room[d] = q <=> s.room[d] = q /\ d \notin gone
    BY <1>2, <2>1, SentinelsAssumption
  <2>3. Members(t, r) = {d \in Clients : t.room[d] = r}
    BY <1>1, <1>10, <2>2 DEF MembershipIn
  <2>4. \A q \in Rooms \ {r} : Members(t, q) = {d \in Clients : t.room[d] = q}
    BY <1>1, <1>10, <2>1, <2>2 DEF MembershipIn
  <2>5. \A q \in Rooms : NoDuplicates(t.object[q].users)
    BY <1>1, <1>6, <1>9 DEF MembershipIn
  <2> QED BY <2>3, <2>4, <2>5 DEF MembershipIn
<1>12. RoomIdsConservedIn(t)
  BY <1>1, <1>2, <1>3, <1>9, SameIds
<1>13. Typed(t)
  BY <1>1, <1>2, <1>3, <1>9 DEF Typed
<1>14. MasterIsMemberIn(s) /\ r \in t.rooms /\ t.object[r].users # <<>>
         => t.object[r].master \in Members(t, r)
  BY <1>1, <1>2, <1>8, <1>9 DEF MasterIsMemberIn, Members
<1>15. MasterIsMemberIn(s) => \A q \in t.rooms \ {r} : t.object[q].master \in Members(t, q)
  BY <1>1, <1>2, <1>3, <1>9, <1>10 DEF MasterIsMemberIn
<1> QED BY <1>2, <1>6, <1>9, <1>10, <1>11, <1>12, <1>13, <1>14, <1>15 DEF Coherent

LEMMA MoveOutCoherent ==
  ASSUME NEW s, AppInv(s), NEW r \in Rooms,
         NEW gone \in SUBSET Members(s, r),
         NEW t, t = MoveOut(s, r, gone)
  PROVE  /\ Coherent(t)
         /\ t.rooms = s.rooms
         /\ t.object[r].id = s.object[r].id
         /\ Members(t, r) = Members(s, r) \ gone
         /\ t.object[r].users \in Seq(Clients)
         /\ r \in t.rooms /\ t.object[r].users # <<>>
              => t.object[r].master \in Members(t, r)
         /\ \A q \in t.rooms \ {r} : t.object[q].master \in Members(t, q)
  BY MoveOutKeeps DEF AppInv

LEMMA RemoveRoomCoherent ==
  ASSUME NEW s, Coherent(s), NEW r \in Rooms,
         NEW t, t = removeRoom(s, r)
  PROVE  /\ Coherent(t)
         /\ t.rooms = s.rooms \ {r}
         /\ t.object = s.object /\ t.room = s.room
<1>1. Typed(s) /\ MembershipIn(s) /\ RoomIdsConservedIn(s)
  BY DEF Coherent
<1>2. /\ Typed(t)
      /\ t.rooms = s.rooms \ {r}
      /\ t.freedRoomIds = IF r \in s.rooms THEN Append(s.freedRoomIds, s.object[r].id)
                          ELSE s.freedRoomIds
      /\ t.nextRoomId = s.nextRoomId
      /\ t.room = s.room /\ t.object = s.object
  BY <1>1, RemoveRoomFields
<1>3. MembershipIn(t)
  BY <1>1, <1>2 DEF MembershipIn, Members
<1>4. RoomIdsConservedIn(t)
  <2>1. CASE r \notin s.rooms
    <3>1. t.rooms = s.rooms
      BY <1>2, <2>1
    <3> QED BY <3>1, <1>1, <1>2, <2>1, SameIds
  <2>2. CASE r \in s.rooms
    <3> DEFINE id == s.object[r].id
    <3>1. id \in Nat \ {0} /\ s.freedRoomIds \in Seq(Nat \ {0})
      BY <1>1, <2>2 DEF Typed, AppState, RoomObject
    <3>2. id \notin Elems(s.freedRoomIds)
      BY <1>1, <2>2 DEF RoomIdsConservedIn, IdsOfRooms
    <3>3. /\ Elems(t.freedRoomIds) = Elems(s.freedRoomIds) \cup {id}
          /\ NoDuplicates(t.freedRoomIds)
      BY <1>1, <1>2, <2>2, <3>1, <3>2, AppendElems DEF RoomIdsConservedIn
    <3>4. IdsOfRooms(t) = IdsOfRooms(s) \ {id}
      BY <1>1, <1>2, <2>2 DEF RoomIdsConservedIn, IdsOfRooms
    <3>5. id \in IdsOfRooms(s)
      BY <2>2 DEF IdsOfRooms
    <3>6. \A q, p \in t.rooms : t.object[q].id = t.object[p].id => q = p
      BY <1>1, <1>2 DEF RoomIdsConservedIn
    <3> QED BY <1>1, <1>2, <3>3, <3>4, <3>5, <3>6 DEF RoomIdsConservedIn
  <2> QED BY <2>1, <2>2
<1> QED BY <1>2, <1>3, <1>4 DEF Coherent

LEMMA SweepInv ==
  ASSUME NEW s, AppInv(s), NEW r \in Rooms, NEW first, NEW zombies,
         first \cup zombies \subseteq Members(s, r)
  PROVE  AppInv(Sweep(s, r, first, zombies))
<1> DEFINE gone == first \cup zombies
<1>1. PICK t : t = MoveOut(s, r, gone)
  OBVIOUS
<1>2. PICK u : u = removeRoom(t, r)
  OBVIOUS
<1>3. /\ Coherent(t)
      /\ t.rooms = s.rooms
      /\ t.object[r].id = s.object[r].id
      /\ Members(t, r) = Members(s, r) \ gone
      /\ t.object[r].users \in Seq(Clients)
      /\ r \in t.rooms /\ t.object[r].users # <<>>
           => t.object[r].master \in Members(t, r)
      /\ \A q \in t.rooms \ {r} : t.object[q].master \in Members(t, q)
  <2>1. gone \in SUBSET Members(s, r)
    OBVIOUS
  <2> HIDE DEF gone
  <2> QED BY <1>1, <2>1, MoveOutCoherent
<1>4. CASE RemovedBySweep(t.object[r].users, zombies)
  <2>1. Sweep(s, r, first, zombies) = u
    BY <1>1, <1>2, <1>4 DEF Sweep
  <2>2. Coherent(u) /\ u.rooms = t.rooms \ {r} /\ u.object = t.object
    BY <1>2, <1>3, RemoveRoomCoherent
  <2>3. MasterIsMemberIn(u)
    BY <1>3, <2>2 DEF MasterIsMemberIn, Members
  <2> QED BY <2>1, <2>2, <2>3 DEF AppInv
<1>5. CASE ~RemovedBySweep(t.object[r].users, zombies)
  <2>1. Sweep(s, r, first, zombies) = t
    BY <1>1, <1>5 DEF Sweep
  <2>2. t.object[r].users # <<>>
    BY <1>5 DEF RemovedBySweep
  <2>3. MasterIsMemberIn(t)
    BY <1>3, <2>2 DEF MasterIsMemberIn
  <2> QED BY <1>3, <2>1, <2>3 DEF AppInv
<1> QED BY <1>4, <1>5

LEMMA ExitClientInv ==
  ASSUME NEW s, AppInv(s), NEW r \in Rooms, NEW c \in Members(s, r), NEW connected
  PROVE  AppInv(ExitClient(s, r, c, connected))
<1>1. {c} \cup (Zombies(s, r, connected) \ {c}) \subseteq Members(s, r)
  BY DEF Zombies
<1> QED BY <1>1, SweepInv DEF ExitClient

LEMMA CleanZombieClientsInv ==
  ASSUME NEW s, AppInv(s), NEW r \in Rooms, NEW connected
  PROVE  AppInv(cleanZombieClients(s, r, connected))
<1>1. {} \cup Zombies(s, r, connected) \subseteq Members(s, r)
  BY DEF Zombies
<1>2. AppInv(Sweep(s, r, {}, Zombies(s, r, connected)))
  BY <1>1, SweepInv
<1> QED BY <1>2 DEF cleanZombieClients

LEMMA CollectInv ==
  ASSUME NEW s, AppInv(s)
  PROVE  AppInv(Collect(s))
<1>1. PICK t : t = Collect(s)
  OBVIOUS
<1>2. /\ Typed(s) /\ MembershipIn(s) /\ RoomIdsConservedIn(s) /\ MasterIsMemberIn(s)
      /\ s.rooms \subseteq Rooms
  BY DEF AppInv, Coherent, Typed, AppState
<1>3. /\ Typed(t)
      /\ t.rooms = s.rooms /\ t.freedRoomIds = s.freedRoomIds
      /\ t.nextRoomId = s.nextRoomId /\ t.room = s.room
      /\ t.object = [r \in Rooms |->
                       IF r \in s.rooms \/ s.object[r].users # <<>>
                       THEN s.object[r] ELSE NilRoom]
  BY <1>1, <1>2, CollectFields
<1>4. /\ \A r \in s.rooms : t.object[r] = s.object[r]
      /\ \A r \in Rooms : t.object[r].users = s.object[r].users
  BY <1>2, <1>3 DEF NilRoom
<1>5. MembershipIn(t) /\ MasterIsMemberIn(t)
  BY <1>2, <1>3, <1>4 DEF MembershipIn, MasterIsMemberIn, Members
<1>6. RoomIdsConservedIn(t)
  BY <1>2, <1>3, <1>4, SameIds
<1> QED BY <1>1, <1>3, <1>5, <1>6 DEF AppInv, Coherent

\* The flags and the capacity of a room do not matter to the invariant.
LEMMA SettingsInv ==
  ASSUME NEW s, AppInv(s), NEW r \in Rooms, NEW o \in RoomObject,
         o.id = s.object[r].id, o.master = s.object[r].master,
         o.users = s.object[r].users
  PROVE  AppInv([s EXCEPT !.object[r] = o])
<1>1. PICK t : t = [s EXCEPT !.object[r] = o]
  OBVIOUS
<1>2. /\ s \in AppState /\ Typed(s) /\ MembershipIn(s) /\ RoomIdsConservedIn(s)
      /\ MasterIsMemberIn(s) /\ s.rooms \subseteq Rooms
      /\ s.object \in [Rooms -> RoomObject]
  BY DEF AppInv, Coherent, Typed, AppState
<1>3. /\ t \in AppState
      /\ t.rooms = s.rooms /\ t.freedRoomIds = s.freedRoomIds
      /\ t.nextRoomId = s.nextRoomId /\ t.room = s.room
      /\ t.object = [s.object EXCEPT ![r] = o]
  BY <1>1, <1>2 DEF AppState
<1>4. \A q \in Rooms : /\ t.object[q].id = s.object[q].id
                       /\ t.object[q].master = s.object[q].master
                       /\ t.object[q].users = s.object[q].users
  BY <1>2, <1>3
<1>5. Typed(t) /\ MembershipIn(t) /\ MasterIsMemberIn(t)
  BY <1>2, <1>3, <1>4 DEF Typed, MembershipIn, MasterIsMemberIn, Members
<1>6. RoomIdsConservedIn(t)
  BY <1>2, <1>3, <1>4, SameIds
<1> QED BY <1>1, <1>5, <1>6 DEF AppInv, Coherent

-----------------------------------------------------------------------------
\* Popping the stack of freed ids.
LEMMA PoppedProperties ==
  ASSUME NEW T, NEW stack \in Seq(T), stack # <<>>, NoDuplicates(stack)
  PROVE  /\ Popped(stack) \in Seq(T)
         /\ NoDuplicates(Popped(stack))
         /\ stack[Len(stack)] \in T
         /\ stack[Len(stack)] \notin Elems(Popped(stack))
         /\ Elems(stack) = Elems(Popped(stack)) \cup {stack[Len(stack)]}
<1> DEFINE n == Len(stack)
           rest == Popped(stack)
<1>1. n \in Nat \ {0} /\ DOMAIN stack = 1..n /\ \A i \in 1..n : stack[i] \in T
  OBVIOUS
<1>2. /\ rest \in Seq(T) /\ DOMAIN rest = 1..(n - 1)
      /\ \A i \in 1..(n - 1) : rest[i] = stack[i]
  BY <1>1 DEF Popped
<1> HIDE DEF n, rest
<1>3. \A i \in 1..n : i \in 1..(n - 1) \/ i = n
  BY <1>1
<1>4. \A i \in 1..(n - 1) : i \in 1..n /\ i # n
  BY <1>1
<1>5. NoDuplicates(rest)
  BY <1>1, <1>2, <1>4 DEF NoDuplicates
<1>6. n \in 1..n
  BY <1>1
<1>7. stack[n] \notin Elems(rest)
  BY <1>1, <1>2, <1>4, <1>6 DEF NoDuplicates, Elems
<1>8. Elems(stack) = Elems(rest) \cup {stack[n]}
  <2>1. \A e \in Elems(stack) : e \in Elems(rest) \cup {stack[n]}
    BY <1>1, <1>2, <1>3 DEF Elems
  <2>2. \A e \in Elems(rest) : e \in Elems(stack)
    BY <1>1, <1>2, <1>4 DEF Elems
  <2>3. stack[n] \in Elems(stack)
    BY <1>1, <1>6 DEF Elems
  <2> QED BY <2>1, <2>2, <2>3
<1> QED BY <1>1, <1>2, <1>5, <1>6, <1>7, <1>8 DEF n, rest

\* A created room gets an id that no listed room has and that is not free.
LEMMA AddRoomCoherent ==
  ASSUME NEW s, Coherent(s), NEW r \in Rooms, NEW c \in Clients, NEW max \in Int,
         s.object[r] = NilRoom,
         NEW t, t = AddRoom(s, r, c, max)
  PROVE  /\ Coherent(t)
         /\ t.rooms = s.rooms \cup {r}
         /\ \A d \in Clients : t.room[d] = s.room[d]
         /\ t.object[r].master = c /\ t.object[r].users = <<>>
         /\ \A q \in Rooms \ {r} : t.object[q] = s.object[q]
<1> DEFINE stack == s.freedRoomIds
           reused == stack # <<>>
           id == NextRoomId(s)
           freed == IF reused THEN Popped(stack) ELSE stack
           next == IF reused THEN s.nextRoomId ELSE s.nextRoomId + 1
           object == NewRoom(id, c, max)
<1>1. /\ s \in AppState /\ Typed(s) /\ MembershipIn(s) /\ RoomIdsConservedIn(s)
      /\ s.object \in [Rooms -> RoomObject] /\ s.rooms \subseteq Rooms
      /\ stack \in Seq(Nat \ {0}) /\ s.nextRoomId \in Nat /\ NoDuplicates(stack)
  BY DEF Coherent, Typed, AppState, RoomIdsConservedIn
<1>2. r \notin s.rooms
  BY <1>1 DEF Typed, NilRoom
<1>3. /\ id \in Nat \ {0} /\ freed \in Seq(Nat \ {0}) /\ next \in Nat
      /\ NoDuplicates(freed) /\ id \notin Elems(freed)
      /\ Elems(freed) \subseteq Elems(stack)
      /\ id \notin IdsOfRooms(s)
      /\ IdsOfRooms(s) \cup {id} \cup Elems(freed) = 1..next
  <2>1. CASE reused
    <3>1. /\ Popped(stack) \in Seq(Nat \ {0})
          /\ NoDuplicates(Popped(stack))
          /\ stack[Len(stack)] \in Nat \ {0}
          /\ stack[Len(stack)] \notin Elems(Popped(stack))
          /\ Elems(stack) = Elems(Popped(stack)) \cup {stack[Len(stack)]}
      BY <1>1, <2>1, PoppedProperties
    <3>2. /\ IdsOfRooms(s) \cap Elems(stack) = {}
          /\ IdsOfRooms(s) \cup Elems(stack) = 1..s.nextRoomId
      BY <1>1 DEF RoomIdsConservedIn
    <3>3. id = stack[Len(stack)] /\ freed = Popped(stack) /\ next = s.nextRoomId
      BY <2>1 DEF NextRoomId
    <3> HIDE DEF id, freed, next, stack
    <3> QED BY <1>1, <3>1, <3>2, <3>3
  <2>2. CASE ~reused
    <3>1. Elems(stack) = {}
      BY <2>2 DEF Elems
    <3>2. IdsOfRooms(s) = 1..s.nextRoomId
      BY <1>1, <3>1 DEF RoomIdsConservedIn
    <3>3. id = s.nextRoomId + 1 /\ freed = stack /\ next = s.nextRoomId + 1
      BY <2>2 DEF NextRoomId
    <3>4. /\ s.nextRoomId + 1 \in Nat \ {0}
          /\ s.nextRoomId + 1 \notin 1..s.nextRoomId
          /\ (1..s.nextRoomId) \cup {s.nextRoomId + 1} = 1..(s.nextRoomId + 1)
      BY <1>1
    <3> HIDE DEF id, freed, next, stack
    <3> QED BY <1>1, <3>1, <3>2, <3>3, <3>4
  <2> QED BY <2>1, <2>2
<1> HIDE DEF id, freed, next
<1>4. object \in RoomObject /\ object.id = id /\ object.users = <<>> /\ object.master = c
  BY <1>3 DEF NewRoom, RoomObject
<1>5. PICK a : a = allocateRoomId(s)
  OBVIOUS
<1>6. /\ t \in AppState /\ t.rooms = s.rooms \cup {r} /\ t.freedRoomIds = freed
      /\ t.nextRoomId = next /\ t.room = s.room
      /\ t.object = [s.object EXCEPT ![r] = object]
  <2>1. /\ a \in AppState /\ a.rooms = s.rooms /\ a.freedRoomIds = freed
        /\ a.nextRoomId = next /\ a.room = s.room /\ a.object = s.object
    BY <1>1, <1>3, <1>5 DEF allocateRoomId, AppState, freed, next
  <2>2. t = [a EXCEPT !.rooms = @ \cup {r}, !.object[r] = object]
    BY <1>5 DEF AddRoom, id
  <2> HIDE DEF object
  <2>3. t = [a EXCEPT !.rooms = s.rooms \cup {r},
                      !.object = [s.object EXCEPT ![r] = object]]
    BY <2>1, <2>2 DEF AppState
  <2>4. s.rooms \cup {r} \in SUBSET Rooms
        /\ [s.object EXCEPT ![r] = object] \in [Rooms -> RoomObject]
    BY <1>1, <1>4
  <2> QED BY <2>1, <2>3, <2>4 DEF AppState
<1> HIDE DEF object
<1>7. t.object[r] = object /\ \A q \in Rooms \ {r} : t.object[q] = s.object[q]
  BY <1>1, <1>6
<1>8. Typed(t)
  BY <1>1, <1>3, <1>4, <1>6, <1>7 DEF Typed
<1>9. MembershipIn(t)
  <2>1. \A q \in Rooms : t.object[q].users = s.object[q].users
    BY <1>4, <1>7 DEF NilRoom
  <2> QED BY <1>1, <1>6, <2>1 DEF MembershipIn, Members
<1>10. RoomIdsConservedIn(t)
  <2>1. \A q \in s.rooms : t.object[q].id = s.object[q].id /\ s.object[q].id # id
    BY <1>1, <1>2, <1>3, <1>7 DEF IdsOfRooms
  <2>2. t.object[r].id = id
    BY <1>4, <1>7
  <2>3. IdsOfRooms(t) = IdsOfRooms(s) \cup {id}
    BY <1>6, <2>1, <2>2 DEF IdsOfRooms
  <2>4. \A p, q \in t.rooms : t.object[p].id = t.object[q].id => p = q
    BY <1>1, <1>6, <2>1, <2>2 DEF RoomIdsConservedIn
  <2>5. IdsOfRooms(t) \cap Elems(t.freedRoomIds) = {}
    BY <1>1, <1>3, <1>6, <2>3 DEF RoomIdsConservedIn
  <2>6. IdsOfRooms(t) \cup Elems(t.freedRoomIds) = 1..t.nextRoomId
    BY <1>3, <1>6, <2>3
  <2> QED BY <1>3, <1>6, <2>4, <2>5, <2>6 DEF RoomIdsConservedIn
<1> QED BY <1>4, <1>6, <1>7, <1>8, <1>9, <1>10 DEF Coherent

LEMMA CreateRoomInv ==
  ASSUME NEW s, AppInv(s), NEW r \in Rooms, NEW c \in Clients, NEW max \in Int,
         s.object[r] = NilRoom, s.room[c] = NoRoom
  PROVE  AppInv(CreateRoom(s, r, c, max))
<1>1. PICK a : a = AddRoom(s, r, c, max)
  OBVIOUS
<1>2. PICK t : t = JoinClient(a, r, c)
  OBVIOUS
<1>3. t = CreateRoom(s, r, c, max)
  BY <1>1, <1>2 DEF CreateRoom
<1>4. Coherent(s) /\ MasterIsMemberIn(s) /\ s.rooms \subseteq Rooms
  BY DEF AppInv, Coherent, Typed, AppState
<1>5. /\ Coherent(a)
      /\ a.rooms = s.rooms \cup {r}
      /\ \A d \in Clients : a.room[d] = s.room[d]
      /\ a.object[r].master = c
      /\ \A q \in Rooms \ {r} : a.object[q] = s.object[q]
  BY <1>1, <1>4, AddRoomCoherent
<1>6. /\ Coherent(t)
      /\ t.rooms = a.rooms
      /\ \A q \in Rooms : t.object[q].master = a.object[q].master
      /\ Members(t, r) = Members(a, r) \cup {c}
      /\ \A q \in Rooms \ {r} : Members(t, q) = Members(a, q)
  BY <1>2, <1>5, JoinClientCoherent
<1>7. MasterIsMemberIn(t)
  BY <1>4, <1>5, <1>6 DEF MasterIsMemberIn, Members
<1> QED BY <1>3, <1>6, <1>7 DEF AppInv

LEMMA CapacityType == \A asked \in Int : Capacity(asked) \in Int
  BY CountsAssumption DEF Capacity

\* Clients that are in no room become the members of an empty one.
LEMMA JoinAllCoherent ==
  ASSUME NEW s, Coherent(s), NEW r \in Rooms, s.object[r].users = <<>>,
         NEW joiners \in Seq(Clients), NoDuplicates(joiners),
         \A d \in Elems(joiners) : s.room[d] = NoRoom,
         NEW t, t = JoinAll(s, r, joiners)
  PROVE  /\ Coherent(t)
         /\ t.rooms = s.rooms
         /\ \A q \in Rooms : t.object[q].master = s.object[q].master
         /\ Members(t, r) = Elems(joiners)
         /\ \A q \in Rooms \ {r} : Members(t, q) = Members(s, q)
<1> DEFINE place(c) == CHOOSE i \in DOMAIN joiners : joiners[i] = c
           room == [c \in Clients |-> IF c \in Elems(joiners) THEN r ELSE s.room[c]]
           seat == [c \in Clients |->
                      IF c \in Elems(joiners) /\ place(c) <= s.object[r].maxCounts
                      THEN place(c) ELSE s.seat[c]]
           o == [s.object[r] EXCEPT !.users = joiners]
<1>1. /\ s \in AppState /\ Typed(s) /\ MembershipIn(s) /\ RoomIdsConservedIn(s)
      /\ s.object \in [Rooms -> RoomObject] /\ s.room \in [Clients -> Rooms \cup {NoRoom}]
      /\ s.seat \in [Clients -> Nat] /\ s.rooms \subseteq Rooms
  BY DEF Coherent, Typed, AppState
<1>2. \A c \in Elems(joiners) : c \in Clients /\ place(c) \in Nat
  BY DEF Elems
<1>3. room \in [Clients -> Rooms \cup {NoRoom}] /\ seat \in [Clients -> Nat]
  BY <1>1, <1>2
<1>4. o \in RoomObject /\ o.id = s.object[r].id /\ o.master = s.object[r].master
      /\ o.users = joiners
  BY <1>1 DEF RoomObject
<1>5. t = [s EXCEPT !.object = [s.object EXCEPT ![r] = o], !.room = room, !.seat = seat]
  BY <1>1 DEF JoinAll, AppState, RoomObject
<1> HIDE DEF place, seat, o
<1>6. /\ t \in AppState /\ t.rooms = s.rooms /\ t.freedRoomIds = s.freedRoomIds
      /\ t.nextRoomId = s.nextRoomId /\ t.room = room
      /\ t.object[r] = o /\ \A q \in Rooms \ {r} : t.object[q] = s.object[q]
  <2>1. [s.object EXCEPT ![r] = o] \in [Rooms -> RoomObject]
    BY <1>1, <1>4
  <2> HIDE DEF room
  <2> QED BY <1>1, <1>3, <1>5, <2>1 DEF AppState
<1>7. /\ Members(t, r) = Elems(joiners)
      /\ \A q \in Rooms \ {r} : Members(t, q) = Members(s, q)
      /\ \A q \in Rooms : t.object[q].id = s.object[q].id
                         /\ t.object[q].master = s.object[q].master
  BY <1>4, <1>6 DEF Members
<1>8. MembershipIn(t)
  <2>1. {c \in Clients : s.room[c] = r} = {}
    BY <1>1 DEF MembershipIn, Members, Elems
  <2>2. \A c \in Clients : t.room[c] = r <=> c \in Elems(joiners)
    BY <1>6, <2>1
  <2>3. \A q \in Rooms \ {r}, c \in Clients : t.room[c] = q <=> s.room[c] = q
    BY <1>6, SentinelsAssumption
  <2>4. NoDuplicates(t.object[r].users) /\ Members(t, r) = {c \in Clients : t.room[c] = r}
    BY <1>2, <1>4, <1>6, <1>7, <2>2
  <2>5. ASSUME NEW q \in Rooms \ {r}
        PROVE  /\ NoDuplicates(t.object[q].users)
               /\ Members(t, q) = {c \in Clients : t.room[c] = q}
    BY <1>1, <1>6, <1>7, <2>3 DEF MembershipIn
  <2> QED BY <2>4, <2>5 DEF MembershipIn
<1>9. RoomIdsConservedIn(t)
  BY <1>1, <1>6, <1>7, SameIds
<1>10. Typed(t)
  BY <1>1, <1>6, <1>7 DEF Typed
<1> QED BY <1>6, <1>7, <1>8, <1>9, <1>10 DEF Coherent

LEMMA CreateMatchedInv ==
  ASSUME NEW s, AppInv(s), NEW r \in Rooms, NEW number \in Int,
         s.object[r] = NilRoom,
         NEW joiners \in Seq(Clients), NoDuplicates(joiners), joiners # <<>>,
         \A d \in Elems(joiners) : s.room[d] = NoRoom
  PROVE  AppInv(CreateMatched(s, r, joiners, number))
<1> PICK first : first = joiners[1]
  OBVIOUS
<1> PICK max : max = Capacity(number)
  OBVIOUS
<1>1. first \in Clients /\ first \in Elems(joiners) /\ max \in Int
  BY CapacityType DEF Elems
<1>2. PICK a : a = AddRoom(s, r, first, max)
  OBVIOUS
<1>3. PICK t : t = JoinAll(a, r, joiners)
  OBVIOUS
<1>4. t = CreateMatched(s, r, joiners, number)
  BY <1>2, <1>3 DEF CreateMatched
<1>5. Coherent(s) /\ MasterIsMemberIn(s) /\ s.rooms \subseteq Rooms
  BY DEF AppInv, Coherent, Typed, AppState
<1>6. /\ Coherent(a)
      /\ a.rooms = s.rooms \cup {r}
      /\ \A d \in Clients : a.room[d] = s.room[d]
      /\ a.object[r].master = first /\ a.object[r].users = <<>>
      /\ \A q \in Rooms \ {r} : a.object[q] = s.object[q]
  BY <1>1, <1>2, <1>5, AddRoomCoherent
<1>7. \A d \in Elems(joiners) : a.room[d] = NoRoom
  BY <1>6 DEF Elems
<1>8. /\ Coherent(t)
      /\ t.rooms = a.rooms
      /\ \A q \in Rooms : t.object[q].master = a.object[q].master
      /\ Members(t, r) = Elems(joiners)
      /\ \A q \in Rooms \ {r} : Members(t, q) = Members(a, q)
  BY <1>3, <1>6, <1>7, JoinAllCoherent
<1>9. MasterIsMemberIn(t)
  BY <1>1, <1>5, <1>6, <1>8 DEF MasterIsMemberIn, Members
<1> QED BY <1>4, <1>8, <1>9 DEF AppInv

LEMMA TakeOverInv ==
  ASSUME NEW s, AppInv(s), NEW c \in Clients, NEW old \in Clients \cup {NoClient},
         NEW connected
  PROVE  AppInv(TakeOver(s, old, c, connected))
<1>1. CASE old = NoClient \/ s.room[old] = NoRoom
  BY <1>1 DEF TakeOver
<1>2. CASE old # NoClient /\ s.room[old] # NoRoom
  <2>1. PICK r : r = s.room[old]
    OBVIOUS
  <2>2. r \in Rooms /\ old \in Clients /\ old \in Members(s, r)
    BY <1>2, <2>1 DEF AppInv, Coherent, Typed, AppState, MembershipIn
  <2>3. AppInv(ExitClient(s, r, old, connected))
    BY <2>2, ExitClientInv
  <2>4. AppInv(JoinClient(ExitClient(s, r, old, connected), r, c))
    BY <2>2, <2>3, JoinClientInv
  <2> QED BY <1>2, <2>1, <2>4 DEF TakeOver
<1> QED BY <1>1, <1>2

LEMMA StopFrameSyncInv ==
  ASSUME NEW s, AppInv(s), NEW r \in Rooms, NEW keepLock \in BOOLEAN, NEW connected
  PROVE  AppInv(StopFrameSync(s, r, keepLock, connected))
<1> DEFINE o == [s.object[r] EXCEPT !.frameSync = FALSE,
                                    !.lock = keepLock /\ s.object[r].lock]
<1>1. s \in AppState /\ s.object \in [Rooms -> RoomObject]
  BY DEF AppInv, Coherent, Typed, AppState
<1>2. /\ o \in RoomObject /\ o.id = s.object[r].id
      /\ o.master = s.object[r].master /\ o.users = s.object[r].users
  BY <1>1 DEF RoomObject
<1>3. [s EXCEPT !.object[r].frameSync = FALSE, !.object[r].lock = keepLock /\ @]
        = [s EXCEPT !.object[r] = o]
  BY <1>1 DEF AppState, RoomObject
<1> HIDE DEF o
<1>4. AppInv([s EXCEPT !.object[r] = o])
  BY <1>2, SettingsInv
<1> QED BY <1>3, <1>4, CleanZombieClientsInv DEF StopFrameSync

-----------------------------------------------------------------------------
ConnsOK ==
  /\ phase \in [Clients -> Phases]
  /\ reading \in SUBSET Clients
  /\ uid \in [Clients -> Users \cup {NoUser}]
  /\ account \in [Users -> Clients \cup {NoClient}]

\* The inductive invariant.
IInv == ConnsOK /\ AppInv(app)

LEMMA RoomOfMember ==
  ASSUME AppInv(app), NEW c \in Clients, InRoom(c)
  PROVE  app.room[c] \in Rooms /\ c \in Members(app, app.room[c])
  BY DEF AppInv, Coherent, Typed, AppState, MembershipIn, InRoom

\* Who exits is in no room.
LEMMA ExitedRoom ==
  ASSUME NEW s, AppInv(s), NEW r \in Rooms, NEW c \in Members(s, r), NEW connected
  PROVE  Collect(ExitClient(s, r, c, connected)).room[c] = NoRoom
<1>1. s \in AppState /\ c \in Clients
  BY MembersType DEF AppInv, Coherent, Typed
<1> PICK gone : gone = {c} \cup (Zombies(s, r, connected) \ {c})
  OBVIOUS
<1> PICK m : m = MoveOut(s, r, gone)
  OBVIOUS
<1>a. m.room = [d \in Clients |-> IF d \in gone THEN NoRoom ELSE s.room[d]]
  BY <1>1 DEF MoveOut, AppState
<1>b. Typed(m)
  <2>1. gone \in SUBSET Members(s, r)
    BY DEF Zombies
  <2> QED BY <2>1, MoveOutCoherent DEF Coherent
<1>2. m.room[c] = NoRoom
  BY <1>1, <1>a
<1> PICK e : e = ExitClient(s, r, c, connected)
  OBVIOUS
<1>3. e = m \/ e = removeRoom(m, r)
  BY DEF ExitClient, Sweep
<1>4. e.room = m.room
  BY <1>b, <1>3, RemoveRoomFields
<1>5. Typed(e)
  BY ExitClientInv DEF AppInv, Coherent
<1> PICK t : t = Collect(e)
  OBVIOUS
<1>6. t.room = e.room
  BY <1>5, CollectFields
<1> QED BY <1>2, <1>4, <1>6

LEMMA InitInv == Init => IInv
<1> SUFFICES ASSUME Init PROVE IInv
  OBVIOUS
<1>1. /\ app.rooms = {} /\ app.freedRoomIds = <<>> /\ app.nextRoomId = 0
      /\ app.object = [r \in Rooms |-> NilRoom]
      /\ app.room = [c \in Clients |-> NoRoom]
  BY DEF Init
<1>2. app \in AppState
  BY NilRoomType DEF Init, AppState
<1>3. Typed(app)
  BY <1>1, <1>2 DEF Typed
<1>4. MembershipIn(app)
  BY <1>1, SentinelsAssumption DEF MembershipIn, Members, Elems, NoDuplicates, NilRoom
<1>5. RoomIdsConservedIn(app)
  <2>1. Elems(app.freedRoomIds) = {} /\ IdsOfRooms(app) = {}
    BY <1>1 DEF Elems, IdsOfRooms
  <2>2. 1..app.nextRoomId = {} /\ NoDuplicates(app.freedRoomIds)
    BY <1>1 DEF NoDuplicates
  <2> QED BY <1>1, <2>1, <2>2 DEF RoomIdsConservedIn
<1>6. MasterIsMemberIn(app)
  BY <1>1 DEF MasterIsMemberIn
<1>7. ConnsOK
  BY DEF Init, ConnsOK, Phases
<1> QED BY <1>3, <1>4, <1>5, <1>6, <1>7 DEF IInv, AppInv, Coherent

\* Connections come, close and are taken over: the App changes through
\* ExitClient and JoinClient only.
LEMMA ConnectionStep ==
  ASSUME IInv, NEW c \in Clients,
         \/ Accept(c) \/ Disconnect(c) \/ Dropped(c) \/ UserOut(c)
         \/ \E u \in Users : Login(c, u)
  PROVE  IInv'
<1>1. ConnsOK /\ AppInv(app)
  BY DEF IInv
<1>2. CASE Accept(c)
  <2>1. AppInv(app)'
    BY <1>1, <1>2 DEF Accept
  <2>2. ConnsOK'
    BY <1>1, <1>2 DEF Accept, ConnsOK, Phases
  <2> QED BY <2>1, <2>2 DEF IInv
<1>3. CASE Disconnect(c)
  <2>1. AppInv(app)'
    BY <1>1, <1>3 DEF Disconnect
  <2>2. ConnsOK'
    BY <1>1, <1>3 DEF Disconnect, ConnsOK, Phases
  <2> QED BY <2>1, <2>2 DEF IInv
<1>4. CASE Dropped(c)
  <2>1. AppInv(app)'
    BY <1>1, <1>4 DEF Dropped
  <2>2. ConnsOK'
    BY <1>1, <1>4 DEF Dropped, ServerCloses, ConnsOK, Phases
  <2> QED BY <2>1, <2>2 DEF IInv
<1>5. CASE OnUserOut(c)
  <2>1. ConnsOK'
    BY <1>1, <1>5 DEF OnUserOut, ConnsOK, Phases
  <2>2. PICK r : r = app.room[c]
    OBVIOUS
  <2>3. PICK online : online = Connected
    OBVIOUS
  <2>4. app' = app \/ (r # NoRoom /\ app' = Collect(ExitClient(app, r, c, online)))
    BY <1>5, <2>2, <2>3 DEF OnUserOut
  <2>5. ASSUME r # NoRoom
        PROVE  AppInv(Collect(ExitClient(app, r, c, online)))
    <3>1. r \in Rooms /\ c \in Members(app, r)
      BY <1>1, <2>2, <2>5, RoomOfMember DEF InRoom
    <3> QED BY <1>1, <3>1, ExitClientInv, CollectInv
  <2>6. AppInv(app)'
    BY <1>1, <2>4, <2>5
  <2> QED BY <2>1, <2>6 DEF IInv
<1>6. ASSUME NEW u \in Users, Login(c, u)
      PROVE  IInv'
  <2>1. ConnsOK'
    BY <1>1, <1>6 DEF Login, ServerCloses, ConnsOK, Phases
  <2>2. account[u] \in Clients \cup {NoClient}
    BY <1>1 DEF ConnsOK
  <2>3. AppInv(Collect(TakeOver(app, account[u], c, Connected)))
    BY <1>1, <2>2, TakeOverInv, CollectInv
  <2>4. AppInv(app)'
    BY <1>6, <2>3 DEF Login
  <2> QED BY <2>1, <2>4 DEF IInv
<1>7. CASE GoOffline(c)
  <2>1. AppInv(app)'
    BY <1>1, <1>7 DEF GoOffline
  <2>2. ConnsOK'
    BY <1>1, <1>7 DEF GoOffline, ConnsOK, Phases
  <2> QED BY <2>1, <2>2 DEF IInv
<1> QED BY <1>2, <1>3, <1>4, <1>5, <1>6, <1>7 DEF UserOut

-----------------------------------------------------------------------------
(***************************************************************************)
(* The ways in which the handlers change the App, in terms of the methods  *)
(* they call.  There are fewer of them than handlers, and what is proved   *)
(* of every step is proved way by way.                                     *)
(***************************************************************************)
SameMembers(o, p) == o.id = p.id /\ o.master = p.master /\ o.users = p.users

\* StartFrameSync, LockRoom, UpdateRoomOption.
Reset(c) ==
  /\ UNCHANGED conns
  /\ \E r \in Rooms, o \in RoomObject :
       /\ SameMembers(o, app.object[r]) /\ app.object[r].users # <<>>
       /\ app.object[r].lock => o.lock
       /\ o.maxCounts = app.object[r].maxCounts \/ Len(o.users) <= o.maxCounts
       /\ app' = [app EXCEPT !.object[r] = o]

\* SwitchSeat.
Reseat(c) ==
  /\ UNCHANGED conns /\ InRoom(c)
  /\ \E n \in FreeSeats(app, app.room[c], c) : app' = [app EXCEPT !.seat[c] = n]

\* Somebody exits: ExitRoom, KickOut, OnUserOut.
Exit(c) ==
  \E r \in Rooms : \E d \in Members(app, r) :
     app' = Collect(ExitClient(app, r, d, Connected'))

\* The offline members are swept: StopFrameSync, UnlockRoom.
SweepOut(c) ==
  /\ UNCHANGED conns
  /\ \E r \in Rooms, o \in RoomObject :
       /\ SameMembers(o, app.object[r]) /\ o.maxCounts = app.object[r].maxCounts
       /\ o.frameSync => app.object[r].frameSync
       /\ app' = Collect(cleanZombieClients([app EXCEPT !.object[r] = o], r, Connected))

\* Into a room of the list: JoinRoom, MatchRoom.
Join(c) ==
  /\ UNCHANGED conns /\ c \in reading /\ uid[c] # NoUser
  /\ LET s == OutOfRoom(c)
     IN  \E r \in s.rooms : MayJoin(s, r) /\ app' = JoinClient(s, r, c)

\* Into a room of one's own: CreateRoom, MatchRoom.
Create(c) ==
  /\ UNCHANGED conns /\ c \in reading /\ uid[c] # NoUser
  /\ LET s == OutOfRoom(c)
     IN  \E r \in Rooms, asked \in MatchNumbers \cup {0} :
           /\ app.object[r] = NilRoom /\ s.object[r] = NilRoom
           /\ app' = CreateRoom(s, r, c, Capacity(asked))

\* An exit makes use of no room object that was not in use.
LEMMA OutOfRoomNil ==
  ASSUME AppInv(app), NEW c \in Clients, NEW r \in Rooms, app.object[r] = NilRoom
  PROVE  OutOfRoom(c).object[r] = NilRoom
<1>1. CASE ~InRoom(c)
  BY <1>1 DEF OutOfRoom
<1>2. CASE InRoom(c)
  <2> PICK q : q = app.room[c]
    OBVIOUS
  <2>1. q \in Rooms /\ c \in Members(app, q) /\ q # r
    BY <1>2, RoomOfMember DEF NilRoom, Members, Elems
  <2> PICK gone : gone = {c} \cup (Zombies(app, q, Connected) \ {c})
    OBVIOUS
  <2> PICK m : m = MoveOut(app, q, gone)
    OBVIOUS
  <2>2. app \in AppState /\ app.object \in [Rooms -> RoomObject]
    BY DEF AppInv, Coherent, Typed, AppState
  <2>9. m.object[r] = NilRoom
    <3> PICK left : left = Left(app.object[q].users, gone)
      OBVIOUS
    <3> PICK heir : heir = Heir(app.object[q].master, gone, left)
      OBVIOUS
    <3>1. m.object = [app.object EXCEPT ![q].users = left, ![q].master = heir]
      BY <2>2 DEF MoveOut, AppState
    <3> QED BY <2>1, <2>2, <3>1
  <2>3. gone \in SUBSET Members(app, q)
    BY <2>1 DEF Zombies
  <2>4. Typed(m)
    BY <2>1, <2>3, MoveOutCoherent DEF AppInv, Coherent
  <2> PICK e : e = ExitClient(app, q, c, Connected)
    OBVIOUS
  <2>5. e = m \/ e = removeRoom(m, q)
    BY DEF ExitClient, Sweep
  <2>6. Typed(e) /\ e.object[r] = NilRoom
    BY <2>1, <2>9, <2>4, <2>5, RemoveRoomFields
  <2>7. Collect(e).object[r] = NilRoom
    <3>1. Collect(e).object = [x \in Rooms |-> IF x \in e.rooms \/ e.object[x].users # <<>>
                                              THEN e.object[x] ELSE NilRoom]
      BY <2>6, CollectFields
    <3> QED BY <2>6, <3>1
  <2> QED BY <1>2, <2>7 DEF OutOfRoom
<1> QED BY <1>1, <1>2

\* The handlers that change who is in which room.
LEMMA MoverWays ==
  ASSUME IInv, NEW c \in Clients,
         \/ JoinHandler(c) \/ HandleExitRoom(c) \/ HandleUnlockRoom(c) \/ HandleKickOut(c)
         \/ \E keepLock \in BOOLEAN : HandleStopFrameSync(c, keepLock)
         \/ HandleMatchRoom(c)
  PROVE  SweepOut(c) \/ (UNCHANGED conns /\ Exit(c)) \/ Join(c) \/ Create(c)
<1>1. /\ AppInv(app) /\ app \in AppState
      /\ app.object \in [Rooms -> RoomObject] /\ app.room \in [Clients -> Rooms \cup {NoRoom}]
  BY DEF IInv, AppInv, Coherent, Typed, AppState
<1>2. UNCHANGED conns => Connected' = Connected
  BY DEF conns, Connected
<1>3. CASE HandleCreateRoom(c)
  <2>1. OutOfRoom(c) = app /\ UNCHANGED conns /\ c \in reading /\ uid[c] # NoUser
    BY <1>3 DEF HandleCreateRoom, Handles, OutOfRoom
  <2>2. \E r \in Rooms : app.object[r] = NilRoom /\ app' = CreateRoom(app, r, c, Capacity(0))
    BY <1>3 DEF HandleCreateRoom
  <2> QED BY <2>1, <2>2 DEF Create
<1>4. CASE HandleJoinRoom(c)
  <2>1. OutOfRoom(c) = app /\ UNCHANGED conns /\ c \in reading /\ uid[c] # NoUser
    BY <1>4 DEF HandleJoinRoom, Handles, OutOfRoom
  <2> QED BY <1>4, <2>1 DEF HandleJoinRoom, Join
<1>5. CASE HandleExitRoom(c)
  <2>1. /\ UNCHANGED conns /\ InRoom(c)
        /\ app' = Collect(ExitClient(app, app.room[c], c, Connected))
    BY <1>5 DEF HandleExitRoom, Handles
  <2>2. app.room[c] \in Rooms /\ c \in Members(app, app.room[c])
    BY <1>1, <2>1, RoomOfMember
  <2> QED BY <1>2, <2>1, <2>2 DEF Exit
<1>6. ASSUME NEW keepLock \in BOOLEAN, HandleStopFrameSync(c, keepLock)
      PROVE  SweepOut(c)
  <2>1. UNCHANGED conns
    BY <1>6 DEF HandleStopFrameSync, Handles
  <2>2. PICK r \in Rooms : app' = Collect(StopFrameSync(app, r, keepLock, Connected))
    BY <1>1, <1>6, RoomOfMember DEF HandleStopFrameSync
  <2>3. PICK o : o = [app.object[r] EXCEPT !.frameSync = FALSE,
                                           !.lock = keepLock /\ app.object[r].lock]
    OBVIOUS
  <2>4. /\ o \in RoomObject /\ SameMembers(o, app.object[r])
        /\ o.maxCounts = app.object[r].maxCounts /\ ~o.frameSync
    BY <1>1, <2>3 DEF RoomObject, SameMembers
  <2>5. [app EXCEPT !.object[r].frameSync = FALSE, !.object[r].lock = keepLock /\ @]
          = [app EXCEPT !.object[r] = o]
    BY <1>1, <2>3 DEF AppState, RoomObject
  <2> QED BY <2>1, <2>2, <2>4, <2>5 DEF StopFrameSync, SweepOut
<1>7. CASE HandleUnlockRoom(c)
  <2>1. UNCHANGED conns
    BY <1>7 DEF HandleUnlockRoom, Handles
  <2>2. PICK r \in Rooms :
               app' = Collect(cleanZombieClients([app EXCEPT !.object[r].lock = FALSE],
                                                 r, Connected))
    BY <1>1, <1>7, RoomOfMember DEF HandleUnlockRoom, IsMaster
  <2>3. PICK o : o = [app.object[r] EXCEPT !.lock = FALSE]
    OBVIOUS
  <2>4. /\ o \in RoomObject /\ SameMembers(o, app.object[r])
        /\ o.maxCounts = app.object[r].maxCounts /\ o.frameSync = app.object[r].frameSync
    BY <1>1, <2>3 DEF RoomObject, SameMembers
  <2>5. [app EXCEPT !.object[r].lock = FALSE] = [app EXCEPT !.object[r] = o]
    BY <1>1, <2>3 DEF AppState, RoomObject
  <2> QED BY <2>1, <2>2, <2>4, <2>5 DEF SweepOut
<1>8. CASE HandleKickOut(c)
  <2>1. UNCHANGED conns
    BY <1>8 DEF HandleKickOut, Handles
  <2>2. PICK r : r = app.room[c]
    OBVIOUS
  <2>3. r \in Rooms
    BY <1>1, <1>8, <2>2, RoomOfMember DEF HandleKickOut, IsMaster
  <2>4. PICK u \in Users :
               LET users   == app.object[r].users
                   matches == {i \in DOMAIN users : uid[users[i]] = u}
               IN  /\ matches # {}
                   /\ app' = Collect(ExitClient(app, r, users[Least(matches)], Connected))
    BY <1>8, <2>2 DEF HandleKickOut
  <2> DEFINE users   == app.object[r].users
             matches == {i \in DOMAIN users : uid[users[i]] = u}
  <2>5. users \in Seq(Clients)
    BY <1>1, <2>3 DEF RoomObject
  <2>6. matches \in SUBSET Nat /\ matches \subseteq DOMAIN users
    BY <2>5
  <2>7. Least(matches) \in DOMAIN users
    <3> HIDE DEF matches
    <3> QED BY <2>4, <2>6, LeastProperties DEF matches
  <2>8. PICK d : d = users[Least(matches)]
    OBVIOUS
  <2>9. d \in Members(app, r)
    BY <2>7, <2>8 DEF Members, Elems
  <2>20. app' = Collect(ExitClient(app, r, d, Connected))
    BY <2>4, <2>8
  <2> QED BY <1>2, <2>1, <2>3, <2>9, <2>20 DEF Exit
<1>9. CASE HandleMatchRoom(c)
  <2>1. UNCHANGED conns /\ c \in reading /\ uid[c] # NoUser
    BY <1>9 DEF HandleMatchRoom, Handles
  <2> PICK s : s = OutOfRoom(c)
    OBVIOUS
  <2>2. \/ \E r \in s.rooms : MayJoin(s, r) /\ app' = JoinClient(s, r, c)
        \/ \E number \in MatchNumbers, r \in Rooms :
             app.object[r] = NilRoom /\ app' = CreateRoom(s, r, c, Capacity(number))
    BY <1>9 DEF HandleMatchRoom
  <2>3. \A r \in Rooms : app.object[r] = NilRoom => s.object[r] = NilRoom
    BY <1>1, OutOfRoomNil
  <2> QED BY <2>1, <2>2, <2>3 DEF Join, Create
<1> QED BY <1>3, <1>4, <1>5, <1>6, <1>7, <1>8, <1>9 DEF JoinHandler

LEMMA HandlerWays ==
  ASSUME IInv, NEW c \in Clients, RoomHandler(c)
  PROVE  \/ Reset(c) \/ Reseat(c) \/ SweepOut(c)
         \/ (UNCHANGED conns /\ Exit(c))
         \/ Join(c) \/ Create(c) \/ HandleMatched(c)
<1>1. /\ AppInv(app) /\ app \in AppState
      /\ app.object \in [Rooms -> RoomObject] /\ app.room \in [Clients -> Rooms \cup {NoRoom}]
  BY DEF IInv, AppInv, Coherent, Typed, AppState
<1>6. InRoom(c) => app.room[c] \in Rooms /\ app.object[app.room[c]].users # <<>>
  BY <1>1, RoomOfMember DEF Members, Elems
<1>2. CASE HandleStartFrameSync(c)
  <2>1. UNCHANGED conns
    BY <1>2 DEF HandleStartFrameSync, Handles
  <2>2. PICK r \in Rooms : /\ app.object[r].users # <<>>
                            /\ app' = [app EXCEPT !.object[r].frameSync = TRUE,
                                                  !.object[r].lock = TRUE]
    BY <1>2, <1>6 DEF HandleStartFrameSync
  <2>3. PICK o : o = [app.object[r] EXCEPT !.frameSync = TRUE, !.lock = TRUE]
    OBVIOUS
  <2>4. /\ o \in RoomObject /\ SameMembers(o, app.object[r])
        /\ o.lock /\ o.maxCounts = app.object[r].maxCounts
    BY <1>1, <2>3 DEF RoomObject, SameMembers
  <2>5. app' = [app EXCEPT !.object[r] = o]
    BY <1>1, <2>2, <2>3 DEF AppState, RoomObject
  <2> QED BY <2>1, <2>2, <2>4, <2>5 DEF Reset
<1>3. CASE HandleSwitchSeat(c)
  BY <1>3 DEF HandleSwitchSeat, Handles, Reseat
<1>4. CASE HandleLockRoom(c)
  <2>1. UNCHANGED conns
    BY <1>4 DEF HandleLockRoom, Handles
  <2>2. PICK r \in Rooms : /\ app.object[r].users # <<>>
                            /\ app' = [app EXCEPT !.object[r].lock = TRUE]
    BY <1>4, <1>6 DEF HandleLockRoom, IsMaster
  <2>3. PICK o : o = [app.object[r] EXCEPT !.lock = TRUE]
    OBVIOUS
  <2>4. /\ o \in RoomObject /\ SameMembers(o, app.object[r])
        /\ o.lock /\ o.maxCounts = app.object[r].maxCounts
    BY <1>1, <2>3 DEF RoomObject, SameMembers
  <2>5. app' = [app EXCEPT !.object[r] = o]
    BY <1>1, <2>2, <2>3 DEF AppState, RoomObject
  <2> QED BY <2>1, <2>2, <2>4, <2>5 DEF Reset
<1>5. CASE HandleUpdateRoomOption(c)
  <2>1. UNCHANGED conns
    BY <1>5 DEF HandleUpdateRoomOption, Handles
  <2>2. PICK r \in Rooms, asked \in AskedMaxCounts :
               /\ app.object[r].users # <<>>
               /\ app' = [app EXCEPT !.object[r].maxCounts =
                            RaisedCounts(app.object[r].users, asked)]
    BY <1>5, <1>6 DEF HandleUpdateRoomOption, IsMaster
  <2>3. PICK n : n = RaisedCounts(app.object[r].users, asked)
    OBVIOUS
  <2>4. n \in Int /\ Len(app.object[r].users) <= n
    BY <1>1, <2>3, CountsAssumption DEF RaisedCounts, RoomObject
  <2>5. PICK o : o = [app.object[r] EXCEPT !.maxCounts = n]
    OBVIOUS
  <2>6. /\ o \in RoomObject /\ SameMembers(o, app.object[r])
        /\ o.lock = app.object[r].lock /\ Len(o.users) <= o.maxCounts
    BY <1>1, <2>4, <2>5 DEF RoomObject, SameMembers
  <2>7. app' = [app EXCEPT !.object[r] = o]
    BY <1>1, <2>2, <2>3, <2>5 DEF AppState, RoomObject
  <2> QED BY <2>1, <2>2, <2>6, <2>7 DEF Reset
<1> QED BY <1>2, <1>3, <1>4, <1>5, MoverWays DEF RoomHandler, MemberHandler

\* Where MatchRoom starts from: the client is in no room.
LEMMA OutOfRoomInv ==
  ASSUME AppInv(app), NEW c \in Clients
  PROVE  AppInv(OutOfRoom(c)) /\ OutOfRoom(c).room[c] = NoRoom
<1>1. CASE InRoom(c)
  <2>1. app.room[c] \in Rooms /\ c \in Members(app, app.room[c])
    BY <1>1, RoomOfMember
  <2>2. AppInv(OutOfRoom(c))
    BY <1>1, <2>1, ExitClientInv, CollectInv DEF OutOfRoom
  <2>3. OutOfRoom(c).room[c] = NoRoom
    BY <1>1, <2>1, ExitedRoom DEF OutOfRoom
  <2> QED BY <2>2, <2>3
<1>2. CASE ~InRoom(c)
  BY <1>2 DEF InRoom, OutOfRoom
<1> QED BY <1>1, <1>2

\* What HandleMatched says of its group.
LEMMA MatchedGroup ==
  ASSUME NEW c \in Clients, HandleMatched(c)
  PROVE  /\ UNCHANGED conns
         /\ \E number \in MatchNumbers, r \in Rooms, joiners \in Seq(Clients) :
              /\ number > 1 /\ app.object[r] = NilRoom
              /\ joiners # <<>> /\ NoDuplicates(joiners) /\ Len(joiners) <= number
              /\ \A d \in Elems(joiners) : d \in Clients /\ Matchable(d)
              /\ app' = CreateMatched(app, r, joiners, number)
<1>1. PICK number \in MatchNumbers, r \in Rooms :
             /\ number > 1 /\ app.object[r] = NilRoom
             /\ \E joiners \in GroupsWith(c, number) :
                  /\ \A d \in Elems(joiners) : Matchable(d)
                  /\ app' = CreateMatched(app, r, joiners, number)
  BY DEF HandleMatched
<1>2. PICK joiners \in GroupsWith(c, number) :
             /\ \A d \in Elems(joiners) : Matchable(d)
             /\ app' = CreateMatched(app, r, joiners, number)
  BY <1>1
<1>3. number \in Int
  BY CountsAssumption
<1>4. /\ joiners \in Seq(Clients) /\ joiners # <<>> /\ NoDuplicates(joiners)
      /\ Len(joiners) <= number
  BY <1>3 DEF GroupsWith
<1>5. \A d \in Elems(joiners) : d \in Clients
  BY <1>4 DEF Elems
<1>6. UNCHANGED conns
  BY DEF HandleMatched, Handles
<1> QED BY <1>1, <1>2, <1>4, <1>5, <1>6

LEMMA HandlerStep ==
  ASSUME IInv, NEW c \in Clients, RoomHandler(c)
  PROVE  IInv'
<1>1. /\ ConnsOK /\ AppInv(app) /\ app \in AppState
      /\ app.object \in [Rooms -> RoomObject] /\ app.room \in [Clients -> Rooms \cup {NoRoom}]
      /\ app.seat \in [Clients -> Nat] /\ app.rooms \subseteq Rooms
  BY DEF IInv, AppInv, Coherent, Typed, AppState
<1>2. UNCHANGED conns
  BY DEF RoomHandler, JoinHandler, MemberHandler, HandleCreateRoom, HandleJoinRoom, HandleExitRoom,
         HandleStartFrameSync, HandleStopFrameSync, HandleSwitchSeat,
         HandleLockRoom, HandleUnlockRoom, HandleUpdateRoomOption, HandleKickOut,
         HandleMatchRoom, HandleMatched, Handles
<1>3. ConnsOK'
  BY <1>1, <1>2 DEF conns, ConnsOK
<1> SUFFICES AppInv(app)'
  BY <1>3 DEF IInv
<1>4. CASE Reset(c)
  BY <1>1, <1>4, SettingsInv DEF Reset, SameMembers
<1>5. CASE Reseat(c)
  <2>1. PICK n : n \in FreeSeats(app, app.room[c], c) /\ app' = [app EXCEPT !.seat[c] = n]
    BY <1>5 DEF Reseat
  <2>2. n \in Nat
    BY <2>1 DEF FreeSeats
  <2>3. /\ app' \in AppState /\ app'.rooms = app.rooms
        /\ app'.freedRoomIds = app.freedRoomIds /\ app'.nextRoomId = app.nextRoomId
        /\ app'.object = app.object /\ app'.room = app.room
    BY <1>1, <2>1, <2>2 DEF AppState
  <2>4. Typed(app') /\ MembershipIn(app') /\ MasterIsMemberIn(app')
    BY <1>1, <2>3 DEF AppInv, Coherent, Typed, MembershipIn, MasterIsMemberIn, Members
  <2>5. RoomIdsConservedIn(app')
    BY <1>1, <2>3, SameIds DEF AppInv, Coherent
  <2> QED BY <2>4, <2>5 DEF AppInv, Coherent
<1>6. CASE Exit(c)
  BY <1>1, <1>6, ExitClientInv, CollectInv DEF Exit
<1>7. CASE SweepOut(c)
  <2>1. PICK r \in Rooms, o \in RoomObject :
          /\ SameMembers(o, app.object[r])
          /\ app' = Collect(cleanZombieClients([app EXCEPT !.object[r] = o], r, Connected))
    BY <1>7 DEF SweepOut
  <2>2. AppInv([app EXCEPT !.object[r] = o])
    BY <1>1, <2>1, SettingsInv DEF SameMembers
  <2> QED BY <2>1, <2>2, CleanZombieClientsInv, CollectInv
<1>8. CASE Join(c)
  <2> PICK s : s = OutOfRoom(c)
    OBVIOUS
  <2>1. AppInv(s) /\ s.room[c] = NoRoom
    BY <1>1, OutOfRoomInv
  <2>2. s.rooms \subseteq Rooms
    BY <2>1 DEF AppInv, Coherent, Typed, AppState
  <2> QED BY <1>8, <2>1, <2>2, JoinClientInv DEF Join
<1>9. CASE Create(c)
  <2> PICK s : s = OutOfRoom(c)
    OBVIOUS
  <2>1. AppInv(s) /\ s.room[c] = NoRoom
    BY <1>1, OutOfRoomInv
  <2>2. \A asked \in MatchNumbers \cup {0} : Capacity(asked) \in Int
    BY CountsAssumption, CapacityType
  <2> QED BY <1>9, <2>1, <2>2, CreateRoomInv DEF Create
<1>10. CASE HandleMatched(c)
  <2>1. PICK number \in MatchNumbers, r \in Rooms, joiners \in Seq(Clients) :
              /\ app.object[r] = NilRoom
              /\ joiners # <<>> /\ NoDuplicates(joiners)
              /\ \A d \in Elems(joiners) : d \in Clients /\ Matchable(d)
              /\ app' = CreateMatched(app, r, joiners, number)
    BY <1>10, MatchedGroup
  <2>2. number \in Int
    BY CountsAssumption
  <2>3. \A d \in Elems(joiners) : app.room[d] = NoRoom
    BY <2>1 DEF Matchable, InRoom
  <2> QED BY <1>1, <2>1, <2>2, <2>3, CreateMatchedInv
<1> QED BY <1>4, <1>5, <1>6, <1>7, <1>8, <1>9, <1>10, HandlerWays

LEMMA StepInv == IInv /\ [Next]_vars => IInv'
<1> SUFFICES ASSUME IInv, [Next]_vars PROVE IInv'
  OBVIOUS
<1>1. CASE UNCHANGED vars
  BY <1>1 DEF vars, conns, IInv, ConnsOK
<1>2. CASE Next
  BY <1>2, ConnectionStep, HandlerStep DEF Next, ConnectionEvent
<1> QED BY <1>1, <1>2

LEMMA Invariance == Spec => []IInv
  BY InitInv, StepInv, PTL DEF Spec

\* Every state of the App and of the connections has the types of TypeOK; the
\* freed ids are positive because listed rooms have positive ids.
THEOREM TypeCorrect == Spec => []TypeOK
<1>1. IInv => TypeOK
  BY DEF IInv, AppInv, Coherent, Typed, ConnsOK, TypeOK
<1> QED BY <1>1, Invariance, PTL

\* Client.room and Room.users agree, whatever sequence of joins, exits, kicks,
\* takeovers, sweeps and disconnects led there.
THEOREM MembershipAgrees == Spec => []Membership
<1>1. IInv => Membership
  BY DEF IInv, AppInv, Coherent, Membership
<1> QED BY <1>1, Invariance, PTL

\* No room id is shared by two rooms of the list, freed twice or lost, even
\* where a sweep removes a room that still has members.
THEOREM RoomIdsNeverShared == Spec => []RoomIdsConserved
<1>1. IInv => RoomIdsConserved
  BY DEF IInv, AppInv, Coherent, RoomIdsConserved
<1> QED BY <1>1, Invariance, PTL

\* Every room of the list has a member, and its master is one of them.
THEOREM MasterAmongMembers == Spec => []MasterIsMember
<1>1. IInv => MasterIsMember
  BY DEF IInv, AppInv, MasterIsMember
<1> QED BY <1>1, Invariance, PTL

-----------------------------------------------------------------------------
\* Rooms implements Sessions, so it relies on no more than that of its
\* connections; and what Sessions itself promises.
LEMMA ServerClosesIsClose ==
  ASSUME NEW S, reading \subseteq Clients, ServerCloses(S)
  PROVE  Session!Close(S \cap Clients)
<1> DEFINE stopped == (S \cap Clients) \ LateReaders
<1>1. Life' = Session!Closed(S \cap Clients)
  BY DEF ServerCloses, Life, Session!Closed
<1>2. reading' = reading \ stopped
  BY DEF ServerCloses
<1>3. stopped \in SUBSET (S \cap Clients)
  OBVIOUS
<1> QED BY <1>1, <1>2, <1>3 DEF Session!Close

LEMMA StepIsSessionStep ==
  ASSUME TypeOK, [Next]_vars
  PROVE  [Session!Next]_(Session!vars)
<1>1. CASE UNCHANGED vars
  BY <1>1 DEF vars, conns, Life, Session!vars
<1>2. ASSUME NEW c \in Clients, Accept(c) PROVE Session!Open(c)
  BY <1>2 DEF Accept, Life, Session!Open, TypeOK
<1>3. ASSUME NEW c \in Clients, Disconnect(c) PROVE Session!Quit(c)
  <2>1. Life' = Session!Closed({c})
    BY <1>3 DEF Disconnect, Life, Session!Closed, TypeOK
  <2> QED BY <1>3, <2>1 DEF Disconnect, Session!Quit
<1>4. ASSUME NEW c \in Clients, Dropped(c) PROVE Session!Close({c} \cap Clients)
  BY <1>4, ServerClosesIsClose DEF Dropped, TypeOK
<1>5. ASSUME NEW c \in Clients, OnUserOut(c) PROVE Session!Out(c)
  BY <1>5 DEF OnUserOut, Life, Session!Out, TypeOK
<1>9. ASSUME NEW c \in Clients, GoOffline(c) PROVE UNCHANGED Session!vars
  BY <1>9 DEF GoOffline, Life, Session!vars, TypeOK
<1>6. ASSUME NEW c \in Clients, NEW u \in Users, Login(c, u)
      PROVE  Session!Close(LoggedOut(u) \cap Clients)
  <2>1. ServerCloses(LoggedOut(u))
    BY <1>6 DEF Login
  <2> QED BY <2>1, ServerClosesIsClose DEF TypeOK
<1>7. ASSUME NEW c \in Clients, RoomHandler(c) PROVE UNCHANGED Session!vars
  BY <1>7 DEF RoomHandler, JoinHandler, MemberHandler, HandleCreateRoom, HandleJoinRoom, HandleExitRoom,
     HandleStartFrameSync, HandleStopFrameSync, HandleSwitchSeat, HandleLockRoom,
     HandleUnlockRoom, HandleUpdateRoomOption, HandleKickOut, Handles, conns,
     HandleMatchRoom, HandleMatched, Life, Session!vars
<1>8. CASE Next
  <2> PICK c \in Clients : ConnectionEvent(c) \/ UserOut(c) \/ RoomHandler(c)
    BY <1>8 DEF Next
  <2>1. ASSUME NEW S, Session!Close(S \cap Clients) PROVE Session!Next
    BY <2>1 DEF Session!Next
  <2>2. CASE ConnectionEvent(c)
    BY <1>2, <1>3, <1>4, <1>6, <2>1, <2>2 DEF ConnectionEvent, Session!Next
  <2>3. CASE UserOut(c)
    BY <1>5, <1>9, <2>3 DEF UserOut, Session!Next
  <2> QED BY <1>7, <2>2, <2>3
<1> QED BY <1>1, <1>8

\* Rooms implements Sessions: its handlers, whole as they are, use connections
\* only in the steps that Connection shows the goroutines to make.
THEOREM RoomsUseSessions == Spec => UsesSessions
<1>1. Init => Session!Init
  BY DEF Init, Life, Session!Init
<1>2. TypeOK /\ [Next]_vars => [Session!Next]_(Session!vars)
  BY StepIsSessionStep
<1> QED BY <1>1, <1>2, TypeCorrect, PTL DEF Spec, UsesSessions, Session!Spec

-----------------------------------------------------------------------------
\* t is s after the members `gone` of r left it in one sweep, `zombies` of them
\* as the swept ones.
Swept(s, t, r, gone, zombies) ==
  LET left == Left(s.object[r].users, gone)
  IN  /\ t.rooms = IF RemovedBySweep(left, zombies) THEN s.rooms \ {r} ELSE s.rooms
      /\ \A c \in Clients : t.room[c] = IF c \in gone THEN NoRoom ELSE s.room[c]
      /\ \A c \in Clients : t.seat[c] = IF c \in gone THEN 0 ELSE s.seat[c]
      /\ \A q \in Rooms \ {r} : t.object[q] = s.object[q]
      /\ t.object[r].users = left
      /\ t.object[r].master = Heir(s.object[r].master, gone, left)
      /\ t.object[r].lock = s.object[r].lock
      /\ t.object[r].frameSync = s.object[r].frameSync
      /\ t.object[r].maxCounts = s.object[r].maxCounts

LEMMA SweepEffect ==
  ASSUME NEW s, AppInv(s), NEW r \in Rooms, NEW first, NEW zombies,
         first \cup zombies \subseteq Members(s, r)
  PROVE  /\ AppInv(Sweep(s, r, first, zombies))
         /\ Swept(s, Sweep(s, r, first, zombies), r, first \cup zombies, zombies)
<1> PICK gone : gone = first \cup zombies
  OBVIOUS
<1> PICK m : m = MoveOut(s, r, gone)
  OBVIOUS
<1> PICK t : t = Sweep(s, r, first, zombies)
  OBVIOUS
<1> PICK left : left = Left(s.object[r].users, gone)
  OBVIOUS
<1> PICK heir : heir = Heir(s.object[r].master, gone, left)
  OBVIOUS
<1>1. s \in AppState /\ s.object \in [Rooms -> RoomObject] /\ s.object[r] \in RoomObject
  BY DEF AppInv, Coherent, Typed, AppState
<1>2. Typed(m)
  <2>1. gone \in SUBSET Members(s, r)
    OBVIOUS
  <2> QED BY <2>1, MoveOutCoherent DEF Coherent
<1>3. /\ m.rooms = s.rooms
      /\ m.room = [c \in Clients |-> IF c \in gone THEN NoRoom ELSE s.room[c]]
      /\ m.seat = [c \in Clients |-> IF c \in gone THEN 0 ELSE s.seat[c]]
      /\ m.object = [s.object EXCEPT ![r].users = left, ![r].master = heir]
  BY <1>1 DEF MoveOut, AppState, RoomObject
<1>4. m.object = [s.object EXCEPT ![r] = [s.object[r] EXCEPT !.users = left, !.master = heir]]
  BY <1>1, <1>3
<1>5. /\ m.object[r].users = left /\ m.object[r].master = heir
      /\ m.object[r].lock = s.object[r].lock
      /\ m.object[r].frameSync = s.object[r].frameSync
      /\ m.object[r].maxCounts = s.object[r].maxCounts
  BY <1>1, <1>4 DEF RoomObject
<1>6. \A q \in Rooms \ {r} : m.object[q] = s.object[q]
  BY <1>1, <1>4
<1>7. /\ t.rooms = IF RemovedBySweep(left, zombies) THEN s.rooms \ {r} ELSE s.rooms
      /\ t.room = m.room /\ t.seat = m.seat /\ t.object = m.object
  <2>1. t = IF RemovedBySweep(left, zombies) THEN removeRoom(m, r) ELSE m
    BY <1>5 DEF Sweep
  <2>2. CASE RemovedBySweep(left, zombies)
    BY <1>2, <1>3, <2>1, <2>2, RemoveRoomFields
  <2>3. CASE ~RemovedBySweep(left, zombies)
    BY <1>3, <2>1, <2>3
  <2> QED BY <2>2, <2>3
<1>8. Swept(s, t, r, gone, zombies)
  <2>1. /\ \A c \in Clients : t.room[c] = IF c \in gone THEN NoRoom ELSE s.room[c]
        /\ \A c \in Clients : t.seat[c] = IF c \in gone THEN 0 ELSE s.seat[c]
    BY <1>3, <1>7
  <2>2. /\ t.object[r].users = left /\ t.object[r].master = heir
        /\ t.object[r].lock = s.object[r].lock
        /\ t.object[r].frameSync = s.object[r].frameSync
        /\ t.object[r].maxCounts = s.object[r].maxCounts
        /\ \A q \in Rooms \ {r} : t.object[q] = s.object[q]
    BY <1>5, <1>6, <1>7
  <2> QED BY <2>1, <2>2, <1>7, Zenon DEF Swept
<1> QED BY <1>8, SweepInv

\* The members that ExitClient(s, r, c, connected) makes leave.
Leaving(s, r, c, connected) == {c} \cup (Members(s, r) \ connected)

LEMMA ExitEffect ==
  ASSUME NEW s, AppInv(s), NEW r \in Rooms, NEW c \in Members(s, r), NEW connected
  PROVE  /\ AppInv(ExitClient(s, r, c, connected))
         /\ Leaving(s, r, c, connected) \subseteq Members(s, r)
         /\ Swept(s, ExitClient(s, r, c, connected), r, Leaving(s, r, c, connected),
                  Members(s, r) \ (connected \cup {c}))
<1>1. Zombies(s, r, connected) \ {c} = Members(s, r) \ (connected \cup {c})
  BY DEF Zombies
<1>2. Leaving(s, r, c, connected) = {c} \cup (Members(s, r) \ (connected \cup {c}))
  BY DEF Leaving
<1>3. Leaving(s, r, c, connected) \subseteq Members(s, r)
  BY DEF Leaving
<1>4. ExitClient(s, r, c, connected)
        = Sweep(s, r, {c}, Members(s, r) \ (connected \cup {c}))
  BY <1>1 DEF ExitClient
<1> HIDE DEF Leaving
<1> QED BY <1>2, <1>3, <1>4, SweepEffect

LEMMA CleanEffect ==
  ASSUME NEW s, AppInv(s), NEW r \in Rooms, NEW connected
  PROVE  /\ AppInv(cleanZombieClients(s, r, connected))
         /\ \/ /\ Members(s, r) \subseteq connected
               /\ cleanZombieClients(s, r, connected) = s
            \/ /\ ~ Members(s, r) \subseteq connected
               /\ Swept(s, cleanZombieClients(s, r, connected), r,
                        Members(s, r) \ connected, Members(s, r) \ connected)
<1>1. Zombies(s, r, connected) = Members(s, r) \ connected
  BY DEF Zombies
<1>2. CASE Members(s, r) \subseteq connected
  BY <1>1, <1>2 DEF cleanZombieClients
<1>3. CASE ~ Members(s, r) \subseteq connected
  <2> PICK zombies : zombies = Members(s, r) \ connected
    OBVIOUS
  <2>1. cleanZombieClients(s, r, connected) = Sweep(s, r, {}, zombies)
    BY <1>1, <1>3 DEF cleanZombieClients
  <2>2. {} \cup zombies = zombies /\ zombies \subseteq Members(s, r)
    OBVIOUS
  <2> QED BY <1>3, <2>1, <2>2, SweepEffect
<1> QED BY <1>2, <1>3

\* What Collect changes: objects that have no members, and are in no list.
LEMMA CollectEffect ==
  ASSUME NEW s, AppInv(s), NEW t, t = Collect(s)
  PROVE  /\ AppInv(t)
         /\ t.rooms = s.rooms /\ t.room = s.room /\ t.seat = s.seat
         /\ \A r \in Rooms :
              \/ t.object[r] = s.object[r]
              \/ /\ r \notin s.rooms /\ s.object[r].users = <<>>
                 /\ t.object[r] = NilRoom
<1>1. Typed(s)
  BY DEF AppInv, Coherent
<1>2. /\ t.rooms = s.rooms /\ t.room = s.room /\ t.seat = s.seat
      /\ t.object = [r \in Rooms |->
                       IF r \in s.rooms \/ s.object[r].users # <<>>
                       THEN s.object[r] ELSE NilRoom]
  BY <1>1, CollectFields
<1>3. \A r \in Rooms :
         \/ t.object[r] = s.object[r]
         \/ /\ r \notin s.rooms /\ s.object[r].users = <<>>
            /\ t.object[r] = NilRoom
  BY <1>2
<1> QED BY <1>2, <1>3, CollectInv

\* t is s after c, in no room so far, has entered r.
Joined(s, t, r, c) ==
  LET free == 1..s.object[r].maxCounts \ {s.seat[d] : d \in Members(s, r)}
  IN  /\ t.rooms = s.rooms
      /\ \A d \in Clients : t.room[d] = IF d = c THEN r ELSE s.room[d]
      /\ \A d \in Clients \ {c} : t.seat[d] = s.seat[d]
      /\ t.seat[c] \in IF free # {} THEN free ELSE {s.seat[c]}
      /\ \A q \in Rooms \ {r} : t.object[q] = s.object[q]
      /\ t.object[r].users = Append(s.object[r].users, c)
      /\ t.object[r].master = s.object[r].master
      /\ t.object[r].lock = s.object[r].lock
      /\ t.object[r].frameSync = s.object[r].frameSync
      /\ t.object[r].maxCounts = s.object[r].maxCounts

LEMMA JoinEffect ==
  ASSUME NEW s, Coherent(s), NEW r \in Rooms, NEW c \in Clients, s.room[c] = NoRoom
  PROVE  Joined(s, JoinClient(s, r, c), r, c)
<1> PICK t : t = JoinClient(s, r, c)
  OBVIOUS
<1>1. /\ s \in AppState /\ s.object \in [Rooms -> RoomObject] /\ s.object[r] \in RoomObject
      /\ s.object[r].users \in Seq(Clients) /\ s.seat \in [Clients -> Nat]
  BY DEF Coherent, Typed, AppState, RoomObject
<1>2. /\ t.rooms = s.rooms
      /\ t.room = [s.room EXCEPT ![c] = r]
      /\ t.object = [s.object EXCEPT ![r].users = Append(@, c)]
  <2>1. s \in AppState
    BY <1>1
  <2> QED BY <2>1, JoinClientFields
<1> PICK users : users = Append(s.object[r].users, c)
  OBVIOUS
<1> PICK pushed : pushed = [s EXCEPT !.object[r].users = Append(@, c)]
  OBVIOUS
<1> PICK free : free = 1..s.object[r].maxCounts \ {s.seat[d] : d \in Members(s, r)}
  OBVIOUS
<1>3. t.object = [s.object EXCEPT ![r] = [s.object[r] EXCEPT !.users = users]]
  BY <1>1, <1>2
<1>4. /\ t.object[r].users = users /\ t.object[r].master = s.object[r].master
      /\ t.object[r].lock = s.object[r].lock
      /\ t.object[r].frameSync = s.object[r].frameSync
      /\ t.object[r].maxCounts = s.object[r].maxCounts
      /\ \A q \in Rooms \ {r} : t.object[q] = s.object[q]
  BY <1>1, <1>3 DEF RoomObject
<1>5. \A d \in Clients : t.room[d] = IF d = c THEN r ELSE s.room[d]
  BY <1>1, <1>2 DEF AppState
<1>6. /\ pushed.seat = s.seat /\ pushed.object[r].users = users
      /\ pushed.object[r].maxCounts = s.object[r].maxCounts
  BY <1>1 DEF AppState, RoomObject
<1>7. Members(pushed, r) = Members(s, r) \cup {c} /\ c \notin Members(s, r)
  <2>1. Members(pushed, r) = Members(s, r) \cup {c}
    BY <1>1, <1>6, AppendElems DEF Members
  <2>2. c \notin Members(s, r)
    BY SentinelsAssumption DEF Coherent, MembershipIn
  <2> QED BY <2>1, <2>2
<1>8. FreeSeats(pushed, r, c) = free
  BY <1>6, <1>7 DEF FreeSeats
<1>9. t = [assignSeat(pushed, r, c) EXCEPT !.room[c] = r]
  BY DEF JoinClient
<1>10. /\ \A d \in Clients \ {c} : t.seat[d] = s.seat[d]
       /\ t.seat[c] \in IF free # {} THEN free ELSE {s.seat[c]}
  <2>1. CASE free = {}
    <3>1. t.seat = s.seat
      BY <1>1, <1>6, <1>8, <1>9, <2>1 DEF assignSeat, AppState
    <3> QED BY <2>1, <3>1
  <2>2. CASE free # {}
    <3>1. Least(free) \in free
      <4>1. free \in SUBSET Nat
        OBVIOUS
      <4> QED BY <2>2, <4>1, LeastProperties
    <3>2. t.seat = [s.seat EXCEPT ![c] = Least(free)]
      BY <1>1, <1>6, <1>8, <1>9, <2>2 DEF assignSeat, AppState
    <3> QED BY <1>1, <3>1, <3>2
  <2> QED BY <2>1, <2>2
<1> QED BY <1>2, <1>4, <1>5, <1>10, Zenon DEF Joined

\* t is s with a new room r, of master c, that has no members yet.
Added(s, t, r, c, max) ==
  /\ t.rooms = s.rooms \cup {r}
  /\ t.room = s.room /\ t.seat = s.seat
  /\ \A q \in Rooms \ {r} : t.object[q] = s.object[q]
  /\ t.object[r].users = <<>> /\ t.object[r].master = c
  /\ t.object[r].lock = FALSE /\ t.object[r].frameSync = FALSE
  /\ t.object[r].maxCounts = max

LEMMA AddEffect ==
  ASSUME NEW s, Coherent(s), NEW r \in Rooms, NEW c \in Clients, NEW max \in Int,
         s.object[r] = NilRoom
  PROVE  /\ Coherent(AddRoom(s, r, c, max))
         /\ Added(s, AddRoom(s, r, c, max), r, c, max)
<1> PICK t : t = AddRoom(s, r, c, max)
  OBVIOUS
<1> PICK a : a = allocateRoomId(s)
  OBVIOUS
<1>1. s \in AppState /\ s.object \in [Rooms -> RoomObject]
  BY DEF Coherent, Typed, AppState
<1>2. /\ a.rooms = s.rooms /\ a.room = s.room /\ a.seat = s.seat /\ a.object = s.object
      /\ DOMAIN a = DOMAIN s
  BY <1>1 DEF allocateRoomId, AppState
<1> PICK o : o = NewRoom(NextRoomId(s), c, max)
  OBVIOUS
<1>3. t = [a EXCEPT !.rooms = @ \cup {r}, !.object[r] = o]
  BY DEF AddRoom
<1>4. /\ t.rooms = s.rooms \cup {r} /\ t.room = s.room /\ t.seat = s.seat
      /\ t.object = [s.object EXCEPT ![r] = o]
  BY <1>1, <1>2, <1>3 DEF AppState
<1>5. t.object[r] = o /\ \A q \in Rooms \ {r} : t.object[q] = s.object[q]
  BY <1>1, <1>4
<1>6. o.users = <<>> /\ o.master = c /\ o.lock = FALSE /\ o.frameSync = FALSE
      /\ o.maxCounts = max
  BY DEF NewRoom
<1> QED BY <1>4, <1>5, <1>6, AddRoomCoherent DEF Added

\* t is s after the joiners have entered the empty room r in their order.
AllJoined(s, t, r, joiners) ==
  /\ t.rooms = s.rooms
  /\ \A d \in Clients : t.room[d] = IF d \in Elems(joiners) THEN r ELSE s.room[d]
  /\ \A q \in Rooms \ {r} : t.object[q] = s.object[q]
  /\ t.object[r].users = joiners
  /\ t.object[r].master = s.object[r].master
  /\ t.object[r].lock = s.object[r].lock
  /\ t.object[r].frameSync = s.object[r].frameSync
  /\ t.object[r].maxCounts = s.object[r].maxCounts
  /\ \A d \in Clients \ Elems(joiners) : t.seat[d] = s.seat[d]
  /\ \A i \in DOMAIN joiners :
       t.seat[joiners[i]] = IF i <= s.object[r].maxCounts THEN i ELSE s.seat[joiners[i]]

LEMMA JoinAllEffect ==
  ASSUME NEW s, Coherent(s), NEW r \in Rooms,
         NEW joiners \in Seq(Clients), NoDuplicates(joiners)
  PROVE  AllJoined(s, JoinAll(s, r, joiners), r, joiners)
<1> DEFINE place(d) == CHOOSE i \in DOMAIN joiners : joiners[i] = d
           room == [d \in Clients |-> IF d \in Elems(joiners) THEN r ELSE s.room[d]]
           seat == [d \in Clients |->
                      IF d \in Elems(joiners) /\ place(d) <= s.object[r].maxCounts
                      THEN place(d) ELSE s.seat[d]]
           o == [s.object[r] EXCEPT !.users = joiners]
<1> PICK t : t = JoinAll(s, r, joiners)
  OBVIOUS
<1>1. s \in AppState /\ s.object \in [Rooms -> RoomObject] /\ s.object[r] \in RoomObject
  BY DEF Coherent, Typed, AppState
<1>2. t = [s EXCEPT !.object = [s.object EXCEPT ![r] = o], !.room = room, !.seat = seat]
  BY <1>1 DEF JoinAll, AppState, RoomObject
<1>3. \A i \in DOMAIN joiners : place(joiners[i]) = i
  <2> SUFFICES ASSUME NEW i \in DOMAIN joiners PROVE place(joiners[i]) = i
    OBVIOUS
  <2>1. place(joiners[i]) \in DOMAIN joiners /\ joiners[place(joiners[i])] = joiners[i]
    OBVIOUS
  <2> QED BY <2>1 DEF NoDuplicates
<1>4. /\ o.users = joiners /\ o.master = s.object[r].master
      /\ o.lock = s.object[r].lock /\ o.frameSync = s.object[r].frameSync
      /\ o.maxCounts = s.object[r].maxCounts
  BY <1>1 DEF RoomObject
<1> HIDE DEF place, o
<1>5. \A d \in Clients : room[d] = IF d \in Elems(joiners) THEN r ELSE s.room[d]
  OBVIOUS
<1>6. /\ \A d \in Clients \ Elems(joiners) : seat[d] = s.seat[d]
      /\ \A i \in DOMAIN joiners :
           seat[joiners[i]] = IF i <= s.object[r].maxCounts THEN i ELSE s.seat[joiners[i]]
  <2>1. \A i \in DOMAIN joiners : joiners[i] \in Clients /\ joiners[i] \in Elems(joiners)
    BY DEF Elems
  <2> QED BY <1>3, <2>1
<1> HIDE DEF room, seat
<1>7. t.rooms = s.rooms /\ t.room = room /\ t.seat = seat
      /\ t.object = [s.object EXCEPT ![r] = o]
  BY <1>1, <1>2 DEF AppState
<1>8. t.object[r] = o /\ \A q \in Rooms \ {r} : t.object[q] = s.object[q]
  BY <1>1, <1>7
<1>9. /\ \A d \in Clients \ Elems(joiners) : t.seat[d] = s.seat[d]
      /\ \A i \in DOMAIN joiners :
           t.seat[joiners[i]] = IF i <= s.object[r].maxCounts THEN i ELSE s.seat[joiners[i]]
  BY <1>6, <1>7
<1> QED BY <1>4, <1>5, <1>7, <1>8, <1>9, Zenon DEF AllJoined

\* The users take different seats of a room for max, as long as there are any.
Seated(s, t, users, max) ==
  /\ \A d \in Elems(users) : t.seat[d] \in (1..max) \cup {s.seat[d]}
  /\ Len(users) <= max => \A d \in Elems(users) : t.seat[d] \in 1..max
  /\ \A d \in Elems(users) : \A e \in Elems(users) \ {d} :
       t.seat[d] # t.seat[e] \/ t.seat[d] = s.seat[d] \/ t.seat[e] = s.seat[e]

\* t is s with a new room r that has the members `users`, the first as its master.
Created(s, t, r, users, max) ==
  /\ t.rooms = s.rooms \cup {r}
  /\ \A d \in Clients : t.room[d] = IF d \in Elems(users) THEN r ELSE s.room[d]
  /\ \A q \in Rooms \ {r} : t.object[q] = s.object[q]
  /\ t.object[r].users = users /\ t.object[r].master = users[1]
  /\ t.object[r].lock = FALSE /\ t.object[r].frameSync = FALSE
  /\ t.object[r].maxCounts = max
  /\ \A d \in Clients \ Elems(users) : t.seat[d] = s.seat[d]
  /\ Seated(s, t, users, max)

LEMMA CreateEffect ==
  ASSUME NEW s, AppInv(s), NEW r \in Rooms, NEW c \in Clients, NEW max \in Int,
         s.object[r] = NilRoom, s.room[c] = NoRoom
  PROVE  /\ AppInv(CreateRoom(s, r, c, max))
         /\ Created(s, CreateRoom(s, r, c, max), r, <<c>>, max)
<1> PICK a : a = AddRoom(s, r, c, max)
  OBVIOUS
<1> PICK t : t = JoinClient(a, r, c)
  OBVIOUS
<1>1. Coherent(a) /\ Added(s, a, r, c, max)
  BY AddEffect DEF AppInv
<1>2. Joined(a, t, r, c)
  BY <1>1, JoinEffect DEF Added
<1>3. Members(a, r) = {} /\ Elems(<<c>>) = {c} /\ Append(<<>>, c) = <<c>>
      /\ <<c>>[1] = c /\ Len(<<c>>) = 1
  BY <1>1 DEF Added, Members, Elems
<1>4. Seated(s, t, <<c>>, max)
  <2>1. 1..a.object[r].maxCounts \ {a.seat[d] : d \in Members(a, r)} = 1..max
    BY <1>1, <1>3 DEF Added
  <2>2. t.seat[c] \in IF 1..max # {} THEN 1..max ELSE {s.seat[c]}
    BY <1>1, <1>2, <2>1 DEF Joined, Added
  <2>3. 1 <= max => 1..max # {}
    OBVIOUS
  <2> QED BY <1>3, <2>2, <2>3 DEF Seated
<1>5. Created(s, t, r, <<c>>, max)
  <2>1. /\ t.rooms = s.rooms \cup {r}
        /\ \A d \in Clients : t.room[d] = IF d \in {c} THEN r ELSE s.room[d]
        /\ \A q \in Rooms \ {r} : t.object[q] = s.object[q]
        /\ t.object[r].users = <<c>> /\ t.object[r].master = c
        /\ t.object[r].lock = FALSE /\ t.object[r].frameSync = FALSE
  /\ t.object[r].maxCounts = max
        /\ \A d \in Clients \ {c} : t.seat[d] = s.seat[d]
    BY <1>1, <1>2, <1>3 DEF Added, Joined
  <2> QED BY <1>3, <1>4, <2>1 DEF Created
<1>6. CreateRoom(s, r, c, max) = t
  BY DEF CreateRoom
<1> QED BY <1>5, <1>6, CreateRoomInv

LEMMA MatchedEffect ==
  ASSUME NEW s, AppInv(s), NEW r \in Rooms, NEW number \in Int,
         s.object[r] = NilRoom,
         NEW joiners \in Seq(Clients), NoDuplicates(joiners), joiners # <<>>,
         \A d \in Elems(joiners) : s.room[d] = NoRoom
  PROVE  /\ AppInv(CreateMatched(s, r, joiners, number))
         /\ Created(s, CreateMatched(s, r, joiners, number), r, joiners, Capacity(number))
<1> PICK first : first = joiners[1]
  OBVIOUS
<1> PICK max : max = Capacity(number)
  OBVIOUS
<1>1. first \in Clients /\ max \in Int /\ first \in Elems(joiners)
  BY CapacityType DEF Elems
<1> PICK a : a = AddRoom(s, r, first, max)
  OBVIOUS
<1> PICK t : t = JoinAll(a, r, joiners)
  OBVIOUS
<1>2. Coherent(a) /\ Added(s, a, r, first, max)
  BY <1>1, AddEffect DEF AppInv
<1>3. AllJoined(a, t, r, joiners)
  BY <1>2, JoinAllEffect
<1>4. Seated(s, t, joiners, max)
  <2>1. \A i \in DOMAIN joiners :
          t.seat[joiners[i]] = IF i <= max THEN i ELSE s.seat[joiners[i]]
    BY <1>2, <1>3 DEF Added, AllJoined
  <2>2. \A i \in DOMAIN joiners : i \in 1..Len(joiners)
    OBVIOUS
  <2>3. \A d \in Elems(joiners) : \E i \in 1..Len(joiners) : i \in DOMAIN joiners /\ joiners[i] = d
    BY DEF Elems
  <2>4. \A d \in Elems(joiners) : t.seat[d] \in (1..max) \cup {s.seat[d]}
    BY <1>1, <2>1, <2>3
  <2>5. Len(joiners) <= max => \A d \in Elems(joiners) : t.seat[d] \in 1..max
    BY <1>1, <2>1, <2>3
  <2>6. \A d \in Elems(joiners) : \A e \in Elems(joiners) \ {d} :
          t.seat[d] # t.seat[e] \/ t.seat[d] = s.seat[d] \/ t.seat[e] = s.seat[e]
    BY <1>1, <2>1, <2>3
  <2> QED BY <2>4, <2>5, <2>6 DEF Seated
<1>5. Created(s, t, r, joiners, max)
  BY <1>2, <1>3, <1>4 DEF Added, AllJoined, Created
<1>6. CreateMatched(s, r, joiners, number) = t
  BY DEF CreateMatched
<1> QED BY <1>5, <1>6, CreateMatchedInv

-----------------------------------------------------------------------------
\* t is s after a sweep of r, and without the garbage of it, seen from the rooms
\* that are left in the list.
Tidied(s, t, r, gone, zombies) ==
  LET left == Left(s.object[r].users, gone)
  IN  /\ t.rooms = IF RemovedBySweep(left, zombies) THEN s.rooms \ {r} ELSE s.rooms
      /\ \A c \in Clients : t.room[c] = IF c \in gone THEN NoRoom ELSE s.room[c]
      /\ \A q \in t.rooms \ {r} : /\ t.object[q].users = s.object[q].users
                                  /\ t.object[q].master = s.object[q].master
      /\ r \in t.rooms => /\ t.object[r].users = left
                          /\ t.object[r].master = Heir(s.object[r].master, gone, left)

LEMMA ExitTidied ==
  ASSUME NEW s, AppInv(s), NEW r \in Rooms, NEW c \in Members(s, r), NEW connected,
         NEW t, t = Collect(ExitClient(s, r, c, connected))
  PROVE  /\ AppInv(t)
         /\ Leaving(s, r, c, connected) \subseteq Members(s, r)
         /\ Tidied(s, t, r, Leaving(s, r, c, connected),
                    Members(s, r) \ (connected \cup {c}))
         /\ \A q \in t.rooms : t.object[q].lock = s.object[q].lock
<1> PICK gone : gone = Leaving(s, r, c, connected)
  OBVIOUS
<1> PICK zombies : zombies = Members(s, r) \ (connected \cup {c})
  OBVIOUS
<1> PICK m : m = ExitClient(s, r, c, connected)
  OBVIOUS
<1>0. t = Collect(m)
  OBVIOUS
<1>1. AppInv(m) /\ gone \subseteq Members(s, r) /\ Swept(s, m, r, gone, zombies)
  BY ExitEffect
<1>2. /\ AppInv(t) /\ t.rooms = m.rooms /\ t.room = m.room
      /\ \A q \in Rooms : t.object[q] = m.object[q] \/ q \notin m.rooms
  BY <1>0, <1>1, CollectEffect
<1>3. m.rooms \subseteq Rooms
  BY <1>1 DEF AppInv, Coherent, Typed, AppState
<1>4. Tidied(s, t, r, gone, zombies)
  BY <1>1, <1>2, <1>3 DEF Swept, Tidied
<1>5. \A q \in t.rooms : t.object[q].lock = s.object[q].lock
  <2>1. \A q \in Rooms : m.object[q].lock = s.object[q].lock
    <3> TAKE q \in Rooms
    <3>1. q = r \/ q \in Rooms \ {r}
      OBVIOUS
    <3> QED BY <1>1, <3>1 DEF Swept
  <2> QED BY <1>2, <1>3, <2>1
<1> QED BY <1>1, <1>2, <1>4, <1>5

LEMMA CleanTidied ==
  ASSUME NEW s, AppInv(s), NEW r \in Rooms, NEW connected
  PROVE  /\ AppInv(Collect(cleanZombieClients(s, r, connected)))
         /\ Tidied(s, Collect(cleanZombieClients(s, r, connected)), r,
                    Members(s, r) \ connected, Members(s, r) \ connected)
<1> PICK zombies : zombies = Members(s, r) \ connected
  OBVIOUS
<1> PICK m : m = cleanZombieClients(s, r, connected)
  OBVIOUS
<1> PICK t : t = Collect(m)
  OBVIOUS
<1>1. /\ AppInv(m)
      /\ \/ zombies = {} /\ m = s
         \/ Swept(s, m, r, zombies, zombies)
  BY CleanEffect
<1>2. /\ AppInv(t) /\ t.rooms = m.rooms /\ t.room = m.room
      /\ \A q \in Rooms : t.object[q] = m.object[q] \/ q \notin m.rooms
  BY <1>1, CollectEffect
<1>3. m.rooms \subseteq Rooms
  BY <1>1 DEF AppInv, Coherent, Typed, AppState
<1>4. ASSUME zombies = {}, m = s
      PROVE  Tidied(s, t, r, zombies, zombies)
  <2> PICK users : users = s.object[r].users
    OBVIOUS
  <2>1. users \in Seq(Clients)
    BY DEF AppInv, Coherent, Typed, AppState, RoomObject
  <2>2. Left(users, zombies) = users
    <3>1. Elems(users) \subseteq Clients \ zombies
      BY <1>4, <2>1 DEF Elems
    <3> QED BY <2>1, <3>1, KeepAll DEF Left
  <2>3. r \in s.rooms => users # <<>>
    BY DEF AppInv, MasterIsMemberIn, Members, Elems
  <2>4. t.rooms = IF RemovedBySweep(Left(users, zombies), zombies) THEN s.rooms \ {r}
                  ELSE s.rooms
    BY <1>2, <1>4, <2>2, <2>3 DEF RemovedBySweep
  <2>5. \A q \in t.rooms : t.object[q] = s.object[q]
    BY <1>2, <1>3, <1>4
  <2>6. s.object[r].master = Heir(s.object[r].master, zombies, Left(users, zombies))
    BY <1>4 DEF Heir
  <2> QED BY <1>2, <1>4, <2>2, <2>4, <2>5, <2>6 DEF Tidied
<1>5. Swept(s, m, r, zombies, zombies) => Tidied(s, t, r, zombies, zombies)
  BY <1>2, <1>3 DEF Swept, Tidied
<1> QED BY <1>1, <1>2, <1>4, <1>5

\* Where MatchRoom starts from: the App as it is, or after an exit.
LEMMA OutOfRoomTidied ==
  ASSUME AppInv(app), NEW c \in Clients
  PROVE  /\ \A q \in OutOfRoom(c).rooms : OutOfRoom(c).object[q].lock = app.object[q].lock
         /\ \/ ~InRoom(c) /\ OutOfRoom(c) = app
            \/ /\ InRoom(c) /\ app.room[c] \in Rooms /\ c \in Members(app, app.room[c])
               /\ Leaving(app, app.room[c], c, Connected) \subseteq Members(app, app.room[c])
               /\ Tidied(app, OutOfRoom(c), app.room[c],
                          Leaving(app, app.room[c], c, Connected),
                          Members(app, app.room[c]) \ (Connected \cup {c}))
<1>1. CASE ~InRoom(c)
  BY <1>1 DEF OutOfRoom
<1>2. CASE InRoom(c)
  <2>1. app.room[c] \in Rooms /\ c \in Members(app, app.room[c])
    BY <1>2, RoomOfMember
  <2> PICK r : r = app.room[c]
    OBVIOUS
  <2> PICK connected : connected = Connected
    OBVIOUS
  <2> PICK s : s = Collect(ExitClient(app, r, c, connected))
    OBVIOUS
  <2>2. OutOfRoom(c) = s
    BY <1>2 DEF OutOfRoom
  <2>3. /\ Leaving(app, r, c, connected) \subseteq Members(app, r)
        /\ Tidied(app, s, r, Leaving(app, r, c, connected),
                   Members(app, r) \ (connected \cup {c}))
        /\ \A q \in s.rooms : s.object[q].lock = app.object[q].lock
    <3>1. r \in Rooms /\ c \in Members(app, r)
      BY <2>1
    <3>2. Leaving(app, r, c, connected) \subseteq Members(app, r)
      BY <3>1, ExitTidied
    <3>3. Tidied(app, s, r, Leaving(app, r, c, connected),
                  Members(app, r) \ (connected \cup {c}))
      BY <3>1, ExitTidied
    <3> QED BY <3>1, <3>2, <3>3, ExitTidied
  <2> QED BY <1>2, <2>1, <2>2, <2>3
<1> QED BY <1>1, <1>2

\* What a sweep does to the rooms of clients: out of them, or nothing.
LEMMA ExitRooms ==
  ASSUME AppInv(app), NEW c \in Clients, Exit(c) \/ SweepOut(c)
  PROVE  \A d \in Clients : app'.room[d] \in {app.room[d], NoRoom}
<1>1. CASE Exit(c)
  <2>1. PICK r \in Rooms : \E d \in Members(app, r) :
               app' = Collect(ExitClient(app, r, d, Connected'))
    BY <1>1 DEF Exit
  <2>2. PICK d \in Members(app, r) : app' = Collect(ExitClient(app, r, d, Connected'))
    BY <2>1
  <2> PICK connected : connected = Connected'
    OBVIOUS
  <2>3. \E gone, zombies : Tidied(app, app', r, gone, zombies)
    BY <2>2, ExitTidied
  <2> QED BY <2>3 DEF Tidied
<1>2. CASE SweepOut(c)
  <2>1. PICK r \in Rooms, o \in RoomObject :
          /\ SameMembers(o, app.object[r])
          /\ app' = Collect(cleanZombieClients([app EXCEPT !.object[r] = o], r, Connected))
    BY <1>2 DEF SweepOut
  <2> PICK s : s = [app EXCEPT !.object[r] = o]
    OBVIOUS
  <2>2. AppInv(s) /\ s.room = app.room
    BY <2>1, SettingsInv DEF SameMembers, AppInv, Coherent, Typed, AppState
  <2>3. \E gone, zombies : Tidied(s, app', r, gone, zombies)
    BY <2>1, <2>2, CleanTidied
  <2> QED BY <2>2, <2>3 DEF Tidied
<1> QED BY <1>1, <1>2

\* A login that takes over a place in r: old leaves with the offline members,
\* then c enters.
TakenOver(t, r, old, c, connected) ==
  LET gone == Leaving(app, r, old, connected)
      left == Left(app.object[r].users, gone)
  IN  /\ t.rooms = IF RemovedBySweep(left, Members(app, r) \ (connected \cup {old}))
                   THEN app.rooms \ {r} ELSE app.rooms
      /\ \A d \in Clients : t.room[d] = IF d = c THEN r
                                        ELSE IF d \in gone THEN NoRoom ELSE app.room[d]
      /\ \A q \in t.rooms \ {r} : t.object[q] = app.object[q]
      /\ r \in t.rooms => /\ t.object[r].users = Append(left, c)
                          /\ t.object[r].master = Heir(app.object[r].master, gone, left)

LEMMA TakeOverEffect ==
  ASSUME AppInv(app), NEW c \in Clients, ~InRoom(c), NEW old \in Clients \cup {NoClient},
         NEW connected, NEW t, t = Collect(TakeOver(app, old, c, connected))
  PROVE  \/ /\ old = NoClient \/ ~InRoom(old)
            /\ t = Collect(app)
         \/ /\ old \in Clients /\ InRoom(old)
            /\ app.room[old] \in Rooms /\ old \in Members(app, app.room[old])
            /\ Leaving(app, app.room[old], old, connected) \subseteq Members(app, app.room[old])
            /\ TakenOver(t, app.room[old], old, c, connected)
<1>1. CASE old = NoClient \/ ~InRoom(old)
  BY <1>1 DEF TakeOver, InRoom
<1>2. CASE old # NoClient /\ InRoom(old)
  <2> PICK r : r = app.room[old]
    OBVIOUS
  <2> PICK gone : gone = Leaving(app, r, old, connected)
    OBVIOUS
  <2> PICK zombies : zombies = Members(app, r) \ (connected \cup {old})
    OBVIOUS
  <2> PICK m : m = ExitClient(app, r, old, connected)
    OBVIOUS
  <2> PICK j : j = JoinClient(m, r, c)
    OBVIOUS
  <2>1. r \in Rooms /\ old \in Members(app, r)
    BY <1>2, RoomOfMember
  <2>2. AppInv(m) /\ gone \subseteq Members(app, r) /\ Swept(app, m, r, gone, zombies)
    BY <2>1, ExitEffect
  <2>3. m.room[c] = NoRoom
    BY <2>2 DEF Swept, InRoom
  <2>4. Joined(m, j, r, c) /\ AppInv(j)
    BY <2>1, <2>2, <2>3, JoinEffect, JoinClientInv DEF AppInv
  <2>5. t = Collect(j)
    BY <1>2 DEF TakeOver, InRoom
  <2>6. /\ t.rooms = j.rooms /\ t.room = j.room
        /\ \A q \in Rooms : t.object[q] = j.object[q] \/ q \notin j.rooms
    BY <2>4, <2>5, CollectEffect
  <2>7. j.rooms \subseteq Rooms
    BY <2>4 DEF AppInv, Coherent, Typed, AppState
  <2>8. TakenOver(t, r, old, c, connected)
    <3> PICK left : left = Left(app.object[r].users, gone)
      OBVIOUS
    <3>1. t.rooms = IF RemovedBySweep(left, zombies) THEN app.rooms \ {r} ELSE app.rooms
      BY <2>2, <2>4, <2>6 DEF Swept, Joined
    <3>2. \A d \in Clients : t.room[d] = IF d = c THEN r
                                         ELSE IF d \in gone THEN NoRoom ELSE app.room[d]
      <4>1. \A d \in Clients : m.room[d] = IF d \in gone THEN NoRoom ELSE app.room[d]
        BY <2>2 DEF Swept
      <4>2. \A d \in Clients : j.room[d] = IF d = c THEN r ELSE m.room[d]
        BY <2>4 DEF Joined
      <4> QED BY <2>6, <4>1, <4>2
    <3>3. \A q \in t.rooms \ {r} : t.object[q] = app.object[q]
      <4>1. \A q \in Rooms \ {r} : m.object[q] = app.object[q]
        BY <2>2 DEF Swept
      <4>2. \A q \in Rooms \ {r} : j.object[q] = m.object[q]
        BY <2>4 DEF Joined
      <4> QED BY <2>6, <2>7, <4>1, <4>2
    <3>4. r \in t.rooms => /\ t.object[r].users = Append(left, c)
                           /\ t.object[r].master = Heir(app.object[r].master, gone, left)
      BY <2>1, <2>2, <2>4, <2>6 DEF Swept, Joined
    <3> QED BY <3>1, <3>2, <3>3, <3>4, Zenon DEF TakenOver
  <2> QED BY <1>2, <2>1, <2>2, <2>8
<1> QED BY <1>1, <1>2

\* OnUserOut is an exit, or leaves the App alone.
LEMMA OutWays ==
  ASSUME AppInv(app), ConnsOK, NEW c \in Clients, OnUserOut(c)
  PROVE  \/ /\ app' = app
            /\ InRoom(c) => /\ app.object[app.room[c]].lock
                            /\ Members(app, app.room[c]) \cap Connected' # {}
         \/ /\ Exit(c) /\ InRoom(c)
            /\ app' = Collect(ExitClient(app, app.room[c], c, Connected'))
<1> PICK r : r = app.room[c]
  OBVIOUS
<1> PICK online : online = Connected
  OBVIOUS
<1>1. online = Connected'
  BY DEF OnUserOut, Connected, ConnsOK
<1>2. app' = IF r = NoRoom THEN app
             ELSE IF Members(app, r) \cap online = {} \/ ~app.object[r].lock
             THEN Collect(ExitClient(app, r, c, online))
             ELSE app
  BY DEF OnUserOut
<1>3. r # NoRoom => r \in Rooms /\ c \in Members(app, r)
  BY RoomOfMember DEF InRoom
<1> QED BY <1>1, <1>2, <1>3 DEF Exit, InRoom

\* Who enters a room: the client of the handler, or the users of a match.
LEMMA EntersByHandler ==
  ASSUME IInv, NEW c \in Clients, RoomHandler(c), NEW d \in Clients,
         app'.room[d] # app.room[d], app'.room[d] # NoRoom
  PROVE  /\ uid[d] # NoUser
         /\ \/ d = c /\ c \in reading
            \/ Matchable(d) /\ app.object[app'.room[d]] = NilRoom
<1>1. AppInv(app) /\ app \in AppState
  BY DEF IInv, AppInv, Coherent, Typed
<1>2. ~Reset(c)
  BY <1>1 DEF Reset, AppState
<1>3. ~Reseat(c)
  BY <1>1 DEF Reseat, AppState
<1>4. ~SweepOut(c) /\ ~Exit(c)
  BY <1>1, ExitRooms
<1>5. ASSUME Join(c) \/ Create(c)
      PROVE  d = c /\ c \in reading /\ uid[c] # NoUser
  <2> PICK s : s = OutOfRoom(c)
    OBVIOUS
  <2>1. AppInv(s) /\ s.room[c] = NoRoom
    BY <1>1, OutOfRoomInv
  <2>2. s.room[d] \in {app.room[d], NoRoom}
    BY <1>1, OutOfRoomTidied DEF Tidied
  <2>3. CASE Join(c)
    <3>1. PICK r \in s.rooms : app' = JoinClient(s, r, c)
      BY <2>3 DEF Join
    <3>2. r \in Rooms
      BY <2>1 DEF AppInv, Coherent, Typed, AppState
    <3>3. Joined(s, app', r, c)
      BY <2>1, <3>1, <3>2, JoinEffect DEF AppInv
    <3> QED BY <2>2, <2>3, <3>3 DEF Join, Joined
  <2>4. CASE Create(c)
    <3>1. PICK r \in Rooms, asked \in MatchNumbers \cup {0} :
                 /\ app.object[r] = NilRoom /\ s.object[r] = NilRoom
                 /\ app' = CreateRoom(s, r, c, Capacity(asked))
      BY <2>4 DEF Create
    <3>2. Capacity(asked) \in Int
      BY CountsAssumption, CapacityType
    <3>3. Created(s, app', r, <<c>>, Capacity(asked))
      BY <2>1, <3>1, <3>2, CreateEffect
    <3>4. Elems(<<c>>) = {c}
      BY DEF Elems
    <3> QED BY <2>2, <2>4, <3>3, <3>4 DEF Create, Created
  <2> QED BY <1>5, <2>3, <2>4
<1>6. ASSUME HandleMatched(c)
      PROVE  Matchable(d) /\ app.object[app'.room[d]] = NilRoom
  <2>1. PICK number \in MatchNumbers, r \in Rooms, joiners \in Seq(Clients) :
              /\ number > 1 /\ app.object[r] = NilRoom
              /\ joiners # <<>> /\ NoDuplicates(joiners)
              /\ \A e \in Elems(joiners) : e \in Clients /\ Matchable(e)
              /\ app' = CreateMatched(app, r, joiners, number)
    BY <1>6, MatchedGroup
  <2>2. number \in Int /\ \A e \in Elems(joiners) : app.room[e] = NoRoom
    BY <2>1, CountsAssumption DEF Matchable, InRoom
  <2>3. Created(app, app', r, joiners, Capacity(number))
    BY <1>1, <2>1, <2>2, MatchedEffect
  <2> QED BY <2>1, <2>3 DEF Created
<1>7. Matchable(d) => uid[d] # NoUser
  BY DEF Matchable
<1> QED BY <1>2, <1>3, <1>4, <1>5, <1>6, <1>7, HandlerWays

-----------------------------------------------------------------------------
\* What SingleSession needs to be inductive: an account refers to a connection
\* that carries its uid, and a client without a uid is nobody, in no room.
SessionInv ==
  /\ SingleSession
  /\ \A u \in Users : account[u] \in Clients => uid[account[u]] = u
  /\ \A c \in Clients : phase[c] = "none" => uid[c] = NoUser /\ c \notin reading
  /\ \A c \in Clients : InRoom(c) => uid[c] # NoUser

LEMMA InitSession == Init => SessionInv
  BY SentinelsAssumption DEF Init, SessionInv, SingleSession, InRoom

LEMMA LoginSession ==
  ASSUME IInv, SessionInv, NEW c \in Clients, NEW u \in Users, Login(c, u)
  PROVE  SessionInv'
<1>1. /\ phase \in [Clients -> Phases] /\ uid \in [Clients -> Users \cup {NoUser}]
      /\ account \in [Users -> Clients \cup {NoClient}] /\ AppInv(app)
  BY DEF IInv, ConnsOK
<1>2. /\ uid[c] = NoUser /\ uid' = [uid EXCEPT ![c] = u] /\ c \in reading
      /\ account' = [account EXCEPT ![u] = c]
      /\ \A d \in Clients : phase'[d] = IF d \in {account[u]} /\ phase[d] = "open"
                                        THEN "closed" ELSE phase[d]
      /\ reading' \subseteq reading
  BY DEF Login, ServerCloses, LoggedOut
<1>3. SingleSession'
  <2> SUFFICES ASSUME NEW d \in Clients, phase'[d] = "open", uid'[d] # NoUser
               PROVE  account'[uid'[d]] = d
    BY DEF SingleSession
  <2>1. phase[d] = "open" /\ d # account[u]
    BY <1>1, <1>2
  <2>2. CASE d = c
    BY <1>1, <1>2, <2>2
  <2>3. CASE d # c
    <3>1. uid'[d] = uid[d] /\ account[uid[d]] = d
      BY <1>1, <1>2, <2>1, <2>3 DEF SessionInv, SingleSession
    <3>2. uid[d] # u /\ uid[d] \in Users
      BY <1>1, <2>1, <3>1
    <3> QED BY <1>1, <1>2, <3>1, <3>2
  <2> QED BY <2>2, <2>3
<1>4. \A v \in Users : account'[v] \in Clients => uid'[account'[v]] = v
  BY <1>1, <1>2, SentinelsAssumption DEF SessionInv
<1>5. \A d \in Clients : phase'[d] = "none" => uid'[d] = NoUser /\ d \notin reading'
  BY <1>1, <1>2 DEF SessionInv
<1>6. \A d \in Clients : app'.room[d] # NoRoom => uid'[d] # NoUser
  <2> SUFFICES ASSUME NEW d \in Clients, app'.room[d] # NoRoom, d # c
               PROVE  uid[d] # NoUser
    BY <1>1, <1>2, SentinelsAssumption
  <2> PICK old : old = account[u]
    OBVIOUS
  <2> PICK connected : connected = Connected
    OBVIOUS
  <2>1. old \in Clients \cup {NoClient} /\ ~InRoom(c)
    BY <1>1, <1>2 DEF SessionInv
  <2>2. app' = Collect(TakeOver(app, old, c, connected))
    BY DEF Login
  <2>3. Collect(app).room = app.room
    BY <1>1, CollectEffect
  <2>4. \/ app' = Collect(app)
        \/ \E r : TakenOver(app', r, old, c, connected)
    BY <1>1, <2>1, <2>2, TakeOverEffect
  <2>5. app.room[d] # NoRoom
    BY <2>3, <2>4 DEF TakenOver
  <2> QED BY <2>5 DEF SessionInv, InRoom
<1> QED BY <1>3, <1>4, <1>5, <1>6 DEF SessionInv, InRoom

LEMMA StepSession ==
  ASSUME IInv, SessionInv, [Next]_vars
  PROVE  SessionInv'
<1>1. /\ phase \in [Clients -> Phases] /\ AppInv(app)
  BY DEF IInv, ConnsOK
<1>2. CASE UNCHANGED vars
  BY <1>2 DEF vars, conns, SessionInv, SingleSession, InRoom
<1>3. ASSUME NEW c \in Clients, Accept(c) PROVE SessionInv'
  BY <1>1, <1>3 DEF Accept, SessionInv, SingleSession, InRoom
<1>4. ASSUME NEW c \in Clients, Disconnect(c) PROVE SessionInv'
  BY <1>1, <1>4 DEF Disconnect, SessionInv, SingleSession, InRoom
<1>5. ASSUME NEW c \in Clients, Dropped(c) PROVE SessionInv'
  BY <1>1, <1>5 DEF Dropped, ServerCloses, SessionInv, SingleSession, InRoom
<1>8. ASSUME NEW c \in Clients, GoOffline(c) PROVE SessionInv'
  BY <1>1, <1>8 DEF GoOffline, SessionInv, SingleSession, InRoom
<1>6. ASSUME NEW c \in Clients, OnUserOut(c) PROVE SessionInv'
  <2>1. \A d \in Clients : app'.room[d] \in {app.room[d], NoRoom}
    BY <1>1, <1>6, OutWays, ExitRooms DEF IInv
  <2>2. /\ phase' = [phase EXCEPT ![c] = "out"] /\ UNCHANGED <<reading, uid, account>>
    BY <1>6 DEF OnUserOut
  <2> QED BY <1>1, <2>1, <2>2 DEF SessionInv, SingleSession, InRoom
<1>7. ASSUME NEW c \in Clients, RoomHandler(c) PROVE SessionInv'
  <2>1. UNCHANGED conns
    BY <1>7, HandlerWays, MatchedGroup DEF Reset, Reseat, SweepOut, Join, Create
  <2>2. \A d \in Clients : app'.room[d] # NoRoom => uid[d] # NoUser
    BY <1>7, EntersByHandler DEF SessionInv, InRoom
  <2> QED BY <2>1, <2>2 DEF conns, SessionInv, SingleSession, InRoom
<1> QED BY <1>2, <1>3, <1>4, <1>5, <1>6, <1>7, <1>8, LoginSession
        DEF Next, ConnectionEvent, UserOut

LEMMA SessionInvariance == Spec => [](IInv /\ SessionInv)
<1>1. Init => IInv /\ SessionInv
  BY InitInv, InitSession
<1>2. IInv /\ SessionInv /\ [Next]_vars => IInv' /\ SessionInv'
  BY StepInv, StepSession
<1> QED BY <1>1, <1>2, PTL DEF Spec

\* An account is on at most one open connection: the one it refers to, however
\* logins race with closings and with frames that are read late.
THEOREM OneSessionPerAccount == Spec => []SingleSession
<1>1. SessionInv => SingleSession
  BY DEF SessionInv
<1> QED BY <1>1, SessionInvariance, PTL

-----------------------------------------------------------------------------
(***************************************************************************)
(* The shape of every step: a sweep at most, which leads from the App to s *)
(* and makes at most one connected member leave; then entries at most,     *)
(* into one room, of one client or of a match.                             *)
(***************************************************************************)
Shrinks(s) ==
  \/ s = app
  \/ \E q \in Rooms : \E gone \in SUBSET Members(app, q) : \E zombies \in SUBSET gone :
       /\ zombies \cap Connected' = {}
       /\ \E d : gone \cap Connected' \subseteq {d}
       /\ Tidied(app, s, q, gone, zombies)

SameRoom(s, q) == /\ app'.object[q].users = s.object[q].users
                  /\ app'.object[q].master = s.object[q].master

NobodyEnters(s) ==
  /\ app'.rooms = s.rooms
  /\ \A d \in Clients : app'.room[d] = s.room[d]
  /\ \A q \in s.rooms : SameRoom(s, q)

\* e is let in, or comes for a member that has left.
Welcome(s, q, e) ==
  \/ q \in s.rooms /\ (q \in app.rooms => ~app.object[q].lock)
  \/ /\ app.room[e] = NoRoom
     /\ \E d \in Clients \ {e} :
          app.room[d] = q /\ s.room[d] = NoRoom /\ uid[d] = uid'[e]

OneEnters(s, q, e) ==
  /\ Welcome(s, q, e) /\ s.room[e] = NoRoom
  /\ app'.rooms = s.rooms
  /\ \A d \in Clients : app'.room[d] = IF d = e THEN q ELSE s.room[d]
  /\ \A p \in s.rooms \ {q} : SameRoom(s, p)
  /\ q \in s.rooms => /\ app'.object[q].users = Append(s.object[q].users, e)
                      /\ app'.object[q].master = s.object[q].master

NewRoomOf(s, q, users) ==
  /\ s.object[q] = NilRoom /\ users # <<>>
  /\ \A d \in Elems(users) : s.room[d] = NoRoom
  /\ q \in app.rooms => \E e \in Clients : users = <<e>> /\ app.room[e] = q
  /\ app'.rooms = s.rooms \cup {q}
  /\ \A d \in Clients : app'.room[d] = IF d \in Elems(users) THEN q ELSE s.room[d]
  /\ \A p \in s.rooms \ {q} : SameRoom(s, p)
  /\ app'.object[q].users = users /\ app'.object[q].master = users[1]

Grows(s) ==
  \/ NobodyEnters(s)
  \/ \E q \in Rooms, e \in Clients : OneEnters(s, q, e)
  \/ \E q \in Rooms, users \in Seq(Clients) : NewRoomOf(s, q, users)

LEMMA NilNotListed ==
  ASSUME NEW s, AppInv(s), NEW r \in Rooms, s.object[r] = NilRoom
  PROVE  r \notin s.rooms /\ Members(s, r) = {}
  BY DEF AppInv, Coherent, Typed, NilRoom, Members, Elems

LEMMA ExitShape ==
  ASSUME AppInv(app), NEW c \in Clients, Exit(c)
  PROVE  Shrinks(app') /\ AppInv(app')
<1>1. PICK r \in Rooms : \E d \in Members(app, r) :
             app' = Collect(ExitClient(app, r, d, Connected'))
  BY DEF Exit
<1>2. PICK d \in Members(app, r) : app' = Collect(ExitClient(app, r, d, Connected'))
  BY <1>1
<1> PICK connected : connected = Connected'
  OBVIOUS
<1> PICK gone : gone = Leaving(app, r, d, connected)
  OBVIOUS
<1> PICK zombies : zombies = Members(app, r) \ (connected \cup {d})
  OBVIOUS
<1>3. AppInv(app') /\ gone \subseteq Members(app, r) /\ Tidied(app, app', r, gone, zombies)
  BY <1>2, ExitTidied
<1>4. /\ zombies \in SUBSET gone /\ zombies \cap Connected' = {}
      /\ gone \cap Connected' \subseteq {d}
  BY DEF Leaving
<1> QED BY <1>3, <1>4 DEF Shrinks

LEMMA SweepShape ==
  ASSUME AppInv(app), NEW c \in Clients, SweepOut(c)
  PROVE  Shrinks(app') /\ AppInv(app')
<1>1. PICK r \in Rooms, o \in RoomObject :
          /\ SameMembers(o, app.object[r])
          /\ app' = Collect(cleanZombieClients([app EXCEPT !.object[r] = o], r, Connected))
  BY DEF SweepOut
<1> PICK s : s = [app EXCEPT !.object[r] = o]
  OBVIOUS
<1> PICK connected : connected = Connected
  OBVIOUS
<1>2. Connected' = connected
  BY DEF SweepOut, conns, Connected
<1>3. /\ AppInv(s) /\ s.room = app.room /\ s.rooms = app.rooms
      /\ app.rooms \subseteq Rooms
      /\ \A q \in Rooms : /\ s.object[q].users = app.object[q].users
                          /\ s.object[q].master = app.object[q].master
  BY <1>1, SettingsInv DEF SameMembers, AppInv, Coherent, Typed, AppState
<1> PICK zombies : zombies = Members(app, r) \ connected
  OBVIOUS
<1>4. Members(s, r) \ connected = zombies
  BY <1>3 DEF Members
<1>5. AppInv(app') /\ Tidied(s, app', r, zombies, zombies)
  BY <1>1, <1>3, <1>4, CleanTidied
<1>6. Tidied(app, app', r, zombies, zombies)
  BY <1>3, <1>5 DEF Tidied
<1>7. /\ zombies \in SUBSET Members(app, r) /\ zombies \in SUBSET zombies
      /\ zombies \cap Connected' = {} /\ zombies \cap Connected' \subseteq {c}
  BY <1>2
<1> QED BY <1>5, <1>6, <1>7 DEF Shrinks

\* MatchRoom's way out of the room it is in.
LEMMA OutOfRoomShape ==
  ASSUME AppInv(app), NEW c \in Clients, UNCHANGED conns
  PROVE  /\ Shrinks(OutOfRoom(c)) /\ AppInv(OutOfRoom(c))
         /\ OutOfRoom(c).room[c] = NoRoom
         /\ \A q \in OutOfRoom(c).rooms : OutOfRoom(c).object[q].lock = app.object[q].lock
<1> PICK s : s = OutOfRoom(c)
  OBVIOUS
<1> PICK connected : connected = Connected
  OBVIOUS
<1>1. Connected' = connected
  BY DEF conns, Connected
<1>2. /\ AppInv(s) /\ s.room[c] = NoRoom
      /\ \A q \in s.rooms : s.object[q].lock = app.object[q].lock
  BY OutOfRoomInv, OutOfRoomTidied
<1>3. Shrinks(s)
  <2>1. CASE ~InRoom(c)
    BY <2>1 DEF OutOfRoom, Shrinks
  <2>2. CASE InRoom(c)
    <3> PICK r : r = app.room[c]
      OBVIOUS
    <3> PICK gone : gone = Leaving(app, r, c, connected)
      OBVIOUS
    <3> PICK zombies : zombies = Members(app, r) \ (connected \cup {c})
      OBVIOUS
    <3>1. /\ r \in Rooms /\ gone \subseteq Members(app, r) /\ c \in Members(app, r)
          /\ Tidied(app, s, r, gone, zombies)
      BY <2>2, OutOfRoomTidied
    <3>2. /\ zombies \in SUBSET gone /\ zombies \cap Connected' = {}
          /\ gone \cap Connected' \subseteq {c}
      BY <1>1 DEF Leaving
    <3> QED BY <3>1, <3>2 DEF Shrinks
  <2> QED BY <2>1, <2>2
<1> QED BY <1>2, <1>3

LEMMA JoinShape ==
  ASSUME AppInv(app), NEW c \in Clients, Join(c)
  PROVE  \E s : AppInv(s) /\ Shrinks(s) /\ Grows(s)
<1> PICK s : s = OutOfRoom(c)
  OBVIOUS
<1>1. UNCHANGED conns
  BY DEF Join
<1>2. /\ AppInv(s) /\ Shrinks(s) /\ s.room[c] = NoRoom
      /\ \A q \in s.rooms : s.object[q].lock = app.object[q].lock
  BY <1>1, OutOfRoomShape
<1>3. PICK r \in s.rooms : MayJoin(s, r) /\ app' = JoinClient(s, r, c)
  BY DEF Join
<1>4. s.rooms \subseteq Rooms
  BY <1>2 DEF AppInv, Coherent, Typed, AppState
<1>5. Joined(s, app', r, c)
  BY <1>2, <1>3, <1>4, JoinEffect DEF AppInv
<1>6. Welcome(s, r, c)
  BY <1>2, <1>3 DEF MayJoin, Welcome
<1>7. OneEnters(s, r, c)
  BY <1>2, <1>4, <1>5, <1>6 DEF Joined, OneEnters, SameRoom
<1> QED BY <1>2, <1>4, <1>7 DEF Grows

LEMMA CreateShape ==
  ASSUME AppInv(app), NEW c \in Clients, Create(c)
  PROVE  \E s : AppInv(s) /\ Shrinks(s) /\ Grows(s)
<1> PICK s : s = OutOfRoom(c)
  OBVIOUS
<1>1. UNCHANGED conns
  BY DEF Create
<1>2. AppInv(s) /\ Shrinks(s) /\ s.room[c] = NoRoom
  BY <1>1, OutOfRoomShape
<1>3. PICK r \in Rooms, asked \in MatchNumbers \cup {0} :
             /\ app.object[r] = NilRoom /\ s.object[r] = NilRoom
                 /\ app' = CreateRoom(s, r, c, Capacity(asked))
  BY DEF Create
<1>4. s.rooms \subseteq Rooms /\ Capacity(asked) \in Int
  <2>1. s.rooms \subseteq Rooms
    BY <1>2 DEF AppInv, Coherent, Typed, AppState
  <2>2. asked \in Int
    BY CountsAssumption
  <2> QED BY <2>1, <2>2, CapacityType
<1>5. Created(s, app', r, <<c>>, Capacity(asked))
  BY <1>2, <1>3, <1>4, CreateEffect
<1> PICK users : users = <<c>>
  OBVIOUS
<1>6. users \in Seq(Clients) /\ users # <<>> /\ Elems(users) = {c} /\ Len(users) = 1
  BY DEF Elems
<1>7. r \in app.rooms => app.room[c] = r
  <2>1. r \notin s.rooms
    BY <1>2, <1>3, NilNotListed
  <2> QED BY <2>1, OutOfRoomTidied DEF Tidied
<1>8. NewRoomOf(s, r, users)
  BY <1>2, <1>3, <1>4, <1>5, <1>6, <1>7 DEF Created, NewRoomOf, SameRoom
<1> QED BY <1>2, <1>6, <1>8 DEF Grows

LEMMA MatchedShape ==
  ASSUME AppInv(app), NEW c \in Clients, HandleMatched(c)
  PROVE  Grows(app)
<1>1. PICK number \in MatchNumbers, r \in Rooms, joiners \in Seq(Clients) :
              /\ app.object[r] = NilRoom
              /\ joiners # <<>> /\ NoDuplicates(joiners)
              /\ \A d \in Elems(joiners) : d \in Clients /\ Matchable(d)
              /\ app' = CreateMatched(app, r, joiners, number)
  BY MatchedGroup
<1>2. number \in Int /\ app.rooms \subseteq Rooms
      /\ \A d \in Elems(joiners) : app.room[d] = NoRoom
  BY <1>1, CountsAssumption DEF Matchable, InRoom, AppInv, Coherent, Typed, AppState
<1>3. Created(app, app', r, joiners, Capacity(number))
  BY <1>1, <1>2, MatchedEffect
<1>4. r \notin app.rooms
  BY <1>1, NilNotListed
<1>5. NewRoomOf(app, r, joiners)
  BY <1>1, <1>2, <1>3, <1>4 DEF Created, NewRoomOf, SameRoom
<1> QED BY <1>5 DEF Grows

LEMMA LoginShape ==
  ASSUME IInv, SessionInv, NEW c \in Clients, NEW u \in Users, Login(c, u)
  PROVE  \E s : AppInv(s) /\ Shrinks(s) /\ Grows(s)
<1> PICK old : old = account[u]
  OBVIOUS
<1> PICK connected : connected = Connected
  OBVIOUS
<1>1. /\ phase \in [Clients -> Phases] /\ uid \in [Clients -> Users \cup {NoUser}]
      /\ account \in [Users -> Clients \cup {NoClient}] /\ AppInv(app)
  BY DEF IInv, ConnsOK
<1>2. /\ uid[c] = NoUser /\ uid' = [uid EXCEPT ![c] = u]
      /\ app' = Collect(TakeOver(app, old, c, connected))
      /\ \A d \in Clients : phase'[d] = IF d \in {account[u]} /\ phase[d] = "open"
                                        THEN "closed" ELSE phase[d]
  BY DEF Login, ServerCloses, LoggedOut
<1>3. Connected' = connected
  BY <1>1, <1>2 DEF Connected
<1>4. old \in Clients \cup {NoClient} /\ ~InRoom(c)
  BY <1>1, <1>2 DEF SessionInv
<1>5. \/ app' = Collect(app)
      \/ /\ old \in Clients /\ InRoom(old)
         /\ app.room[old] \in Rooms /\ old \in Members(app, app.room[old])
         /\ Leaving(app, app.room[old], old, connected) \subseteq Members(app, app.room[old])
         /\ TakenOver(app', app.room[old], old, c, connected)
  <2>1. AppInv(app) /\ app' = Collect(TakeOver(app, old, c, connected))
    BY <1>1, <1>2
  <2> QED BY <1>4, <2>1, TakeOverEffect
<1>6. CASE app' = Collect(app)
  <2>1. /\ app'.rooms = app.rooms /\ app'.room = app.room /\ app.rooms \subseteq Rooms
        /\ \A q \in Rooms : app'.object[q] = app.object[q] \/ q \notin app.rooms
    BY <1>1, <1>6, CollectEffect DEF AppInv, Coherent, Typed, AppState
  <2>2. NobodyEnters(app)
    BY <2>1 DEF NobodyEnters, SameRoom
  <2> QED BY <1>1, <2>2 DEF Grows, Shrinks
<1>7. CASE app' # Collect(app)
  <2> PICK r : r = app.room[old]
    OBVIOUS
  <2> PICK gone : gone = Leaving(app, r, old, connected)
    OBVIOUS
  <2> PICK zombies : zombies = Members(app, r) \ (connected \cup {old})
    OBVIOUS
  <2> PICK s : s = Collect(ExitClient(app, r, old, connected))
    OBVIOUS
  <2>1. /\ old \in Clients /\ r \in Rooms /\ old \in Members(app, r) /\ InRoom(old)
        /\ gone \subseteq Members(app, r)
        /\ TakenOver(app', r, old, c, connected)
    BY <1>7, <1>5
  <2>2. AppInv(s) /\ Tidied(app, s, r, gone, zombies)
    BY <1>1, <2>1, ExitTidied
  <2>3. Shrinks(s)
    <3>1. /\ zombies \in SUBSET gone /\ zombies \cap Connected' = {}
          /\ gone \cap Connected' \subseteq {old}
      BY <1>3 DEF Leaving
    <3> QED BY <2>1, <2>2, <3>1 DEF Shrinks
  <2>4. Welcome(s, r, c)
    <3>1. old # c /\ uid[old] = u /\ uid'[c] = u
      BY <1>1, <1>2, <2>1, SentinelsAssumption DEF SessionInv
    <3>2. old \in gone
      BY DEF Leaving
    <3>3. s.room[old] = NoRoom
      BY <2>1, <2>2, <3>2 DEF Tidied
    <3> QED BY <1>4, <2>1, <3>1, <3>3 DEF Welcome, InRoom
  <2>5. s.room[c] = NoRoom
    BY <1>4, <2>2 DEF Tidied, InRoom
  <2> PICK left : left = Left(app.object[r].users, gone)
    OBVIOUS
  <2>6. app'.rooms = s.rooms
    BY <2>1, <2>2 DEF Tidied, TakenOver
  <2>7. \A d \in Clients : app'.room[d] = IF d = c THEN r ELSE s.room[d]
    <3>1. \A d \in Clients : app'.room[d] = IF d = c THEN r
                                            ELSE IF d \in gone THEN NoRoom ELSE app.room[d]
      BY <2>1 DEF TakenOver
    <3>2. \A d \in Clients : s.room[d] = IF d \in gone THEN NoRoom ELSE app.room[d]
      BY <2>2 DEF Tidied
    <3> QED BY <3>1, <3>2
  <2>8. /\ \A p \in s.rooms \ {r} : SameRoom(s, p)
        /\ r \in s.rooms => /\ app'.object[r].users = Append(s.object[r].users, c)
                            /\ app'.object[r].master = s.object[r].master
    <3>1. /\ \A p \in s.rooms \ {r} : app'.object[p] = app.object[p]
          /\ r \in s.rooms =>
               /\ app'.object[r].users = Append(left, c)
               /\ app'.object[r].master = Heir(app.object[r].master, gone, left)
      BY <2>1, <2>6 DEF TakenOver
    <3>2. /\ \A p \in s.rooms \ {r} : /\ s.object[p].users = app.object[p].users
                                      /\ s.object[p].master = app.object[p].master
          /\ r \in s.rooms =>
               /\ s.object[r].users = left
               /\ s.object[r].master = Heir(app.object[r].master, gone, left)
      BY <2>2 DEF Tidied
    <3>3. ASSUME NEW p \in s.rooms \ {r} PROVE SameRoom(s, p)
      <4>1. app'.object[p] = app.object[p]
        BY <3>1
      <4>2. /\ s.object[p].users = app.object[p].users
            /\ s.object[p].master = app.object[p].master
        BY <3>2
      <4> QED BY <4>1, <4>2, Zenon DEF SameRoom
    <3> QED BY <3>1, <3>2, <3>3
  <2>9. OneEnters(s, r, c)
    BY <2>4, <2>5, <2>6, <2>7, <2>8 DEF OneEnters
  <2> QED BY <2>1, <2>2, <2>3, <2>9 DEF Grows
<1> QED BY <1>6, <1>7

LEMMA StepShape ==
  ASSUME IInv, SessionInv, [Next]_vars
  PROVE  \E s : AppInv(s) /\ Shrinks(s) /\ Grows(s)
<1>1. AppInv(app) /\ ConnsOK /\ app.rooms \subseteq Rooms
  BY DEF IInv, AppInv, Coherent, Typed, AppState
<1>2. CASE app' = app
  <2>1. NobodyEnters(app) /\ Shrinks(app)
    BY <1>2 DEF NobodyEnters, SameRoom, Shrinks
  <2> QED BY <1>1, <2>1 DEF Grows
<1>3. ASSUME Shrinks(app'), AppInv(app')
      PROVE  \E s : AppInv(s) /\ Shrinks(s) /\ Grows(s)
  <2>1. NobodyEnters(app')
    BY DEF NobodyEnters, SameRoom
  <2> QED BY <1>3, <2>1 DEF Grows
<1>4. ASSUME NEW c \in Clients, OnUserOut(c)
      PROVE  app' = app \/ (Shrinks(app') /\ AppInv(app'))
  BY <1>1, <1>4, OutWays, ExitShape
<1>5. ASSUME NEW c \in Clients, RoomHandler(c)
      PROVE  \E s : AppInv(s) /\ Shrinks(s) /\ Grows(s)
  <2>1. CASE Exit(c)
    BY <1>1, <1>3, <2>1, ExitShape
  <2>2. CASE SweepOut(c)
    BY <1>1, <1>3, <2>2, SweepShape
  <2>3. CASE Join(c)
    BY <1>1, <2>3, JoinShape
  <2>4. CASE Create(c)
    BY <1>1, <2>4, CreateShape
  <2>5. CASE HandleMatched(c)
    BY <1>1, <2>5, MatchedShape DEF Shrinks
  <2>6. CASE Reset(c)
    <3>1. PICK r \in Rooms, o \in RoomObject :
            SameMembers(o, app.object[r]) /\ app' = [app EXCEPT !.object[r] = o]
      BY <2>6 DEF Reset
    <3>2. NobodyEnters(app)
      BY <1>1, <3>1 DEF SameMembers, NobodyEnters, SameRoom, AppInv, Coherent, Typed, AppState
    <3> QED BY <1>1, <3>2 DEF Grows, Shrinks
  <2>7. CASE Reseat(c)
    <3>1. app'.rooms = app.rooms /\ app'.room = app.room /\ app'.object = app.object
      BY <1>1, <2>7 DEF Reseat, AppInv, Coherent, Typed, AppState
    <3>2. NobodyEnters(app)
      BY <3>1 DEF NobodyEnters, SameRoom
    <3> QED BY <1>1, <3>2 DEF Grows, Shrinks
  <2> QED BY <1>5, <2>1, <2>2, <2>3, <2>4, <2>5, <2>6, <2>7, HandlerWays
<1>6. \A c \in Clients :
         Accept(c) \/ Disconnect(c) \/ Dropped(c) \/ GoOffline(c) => app' = app
  BY DEF Accept, Disconnect, Dropped, GoOffline
<1>7. UNCHANGED vars => app' = app
  BY DEF vars
<1>8. CASE Next
  <2>1. PICK c \in Clients : ConnectionEvent(c) \/ UserOut(c) \/ RoomHandler(c)
    BY <1>8 DEF Next
  <2>2. CASE ConnectionEvent(c)
    BY <1>2, <1>6, <2>2, LoginShape DEF ConnectionEvent
  <2>3. CASE UserOut(c)
    BY <1>2, <1>3, <1>4, <1>6, <2>3 DEF UserOut
  <2> QED BY <1>5, <2>1, <2>2, <2>3
<1> QED BY <1>2, <1>7, <1>8

-----------------------------------------------------------------------------
LEMMA ShrinkRooms ==
  ASSUME NEW s, Shrinks(s)
  PROVE  /\ s.rooms \subseteq app.rooms
         /\ \A d \in Clients : s.room[d] \in {app.room[d], NoRoom}
<1>1. CASE s = app
  BY <1>1
<1>2. CASE \E q, gone, zombies : Tidied(app, s, q, gone, zombies)
  BY <1>2 DEF Tidied
<1> QED BY <1>1, <1>2 DEF Shrinks

\* Who comes into a room is let in, or takes the place of a member.
LEMMA EntersStep ==
  ASSUME IInv, SessionInv, [Next]_vars,
         NEW c \in Clients, NEW r \in Rooms, Enters(c, r)
  PROVE  \/ r \in app'.rooms /\ (r \in app.rooms => ~app.object[r].lock)
         \/ \E d \in Clients : Leaves(d, r) /\ uid[d] = uid'[c]
<1>1. PICK s : AppInv(s) /\ Shrinks(s) /\ Grows(s)
  BY StepShape
<1>2. s.rooms \subseteq app.rooms /\ \A d \in Clients : s.room[d] \in {app.room[d], NoRoom}
  BY <1>1, ShrinkRooms
<1>3. app.room[c] # r /\ app'.room[c] = r /\ s.room[c] # r
  BY <1>2, SentinelsAssumption DEF Enters
<1>4. ~NobodyEnters(s)
  BY <1>3 DEF NobodyEnters
<1>5. ASSUME NEW q \in Rooms, NEW e \in Clients, OneEnters(s, q, e)
      PROVE  \/ r \in app'.rooms /\ (r \in app.rooms => ~app.object[r].lock)
             \/ \E d \in Clients : Leaves(d, r) /\ uid[d] = uid'[c]
  <2>1. c = e /\ q = r /\ app'.rooms = s.rooms
    BY <1>3, <1>5 DEF OneEnters
  <2>2. ASSUME NEW d \in Clients \ {e}, app.room[d] = q, s.room[d] = NoRoom
        PROVE  Leaves(d, r)
    BY <1>5, <2>1, <2>2, SentinelsAssumption DEF OneEnters, Leaves
  <2> QED BY <1>5, <2>1, <2>2 DEF OneEnters, Welcome
<1>6. ASSUME NEW q \in Rooms, NEW users \in Seq(Clients), NewRoomOf(s, q, users)
      PROVE  r \in app'.rooms /\ r \notin app.rooms
  <2>1. c \in Elems(users) /\ q = r /\ app'.rooms = s.rooms \cup {q}
    BY <1>3, <1>6 DEF NewRoomOf
  <2>2. \A e \in Clients : Elems(<<e>>) = {e}
    BY DEF Elems
  <2> QED BY <1>3, <1>6, <2>1, <2>2 DEF NewRoomOf
<1> QED BY <1>1, <1>4, <1>5, <1>6 DEF Grows

\* The heir of a master who leaves is the first of those who stay.
LEMMA HeirFirst ==
  ASSUME NEW users \in Seq(Clients), NEW gone, NEW master,
         NEW heir, heir = Heir(master, gone, Left(users, gone)), heir # master
  PROVE  /\ master \in gone /\ Left(users, gone) # <<>> /\ heir = Left(users, gone)[1]
         /\ \E i \in DOMAIN users :
              users[i] = heir /\ \A k \in 1..(i - 1) : users[k] \in gone
<1>1. master \in gone /\ Left(users, gone) # <<>> /\ heir = Left(users, gone)[1]
  BY DEF Heir
<1>2. PICK i \in DOMAIN users :
             /\ users[i] = heir
             /\ \A k \in 1..(i - 1) : users[k] \notin Clients \ gone
  BY <1>1, KeepFirst DEF Left
<1>3. \A k \in 1..(i - 1) : users[k] \in Clients
  OBVIOUS
<1> QED BY <1>1, <1>2, <1>3

\* A room that somebody clears of all members and makes again as a new one.
LEMMA RemadeStep ==
  ASSUME AppInv(app), NEW s, AppInv(s), NEW r \in app.rooms,
         NEW users \in Seq(Clients), NewRoomOf(s, r, users)
  PROVE  Inherited(r)
<1> SUFFICES ASSUME app'.object[r].master # app.object[r].master
             PROVE  Inherited(r)
  BY DEF Inherited
<1>1. /\ r \in Rooms /\ app.object[r].users \in Seq(Clients)
      /\ \A d \in Members(app, r) : app.room[d] = r /\ d \in Clients
      /\ \A d \in Clients : app.room[d] = r => d \in Members(app, r)
      /\ app.object[r].master \in Members(app, r)
  BY DEF AppInv, Coherent, Typed, AppState, RoomObject, MembershipIn, MasterIsMemberIn
<1>2. PICK e \in Clients : users = <<e>> /\ app.room[e] = r
  BY DEF NewRoomOf
<1>3. Elems(users) = {e} /\ users[1] = e /\ Len(users) = 1
  BY <1>2 DEF Elems
<1>4. app'.object[r].master = e /\ app'.object[r].users = users
  BY <1>3 DEF NewRoomOf
<1>5. \A d \in Members(app, r) : d # e => Leaves(d, r)
  <2> SUFFICES ASSUME NEW d \in Members(app, r), d # e PROVE Leaves(d, r)
    OBVIOUS
  <2>1. app'.room[d] = s.room[d]
    BY <1>1, <1>3 DEF NewRoomOf
  <2>2. s.room[d] # r
    <3>1. Members(s, r) = {}
      BY <1>1, NilNotListed DEF NewRoomOf
    <3> QED BY <1>1, <3>1 DEF AppInv, Coherent, MembershipIn
  <2> QED BY <1>1, <2>1, <2>2 DEF Leaves
<1>6. Leaves(app.object[r].master, r)
  BY <1>1, <1>4, <1>5
<1>7. PICK i \in DOMAIN app.object[r].users : app.object[r].users[i] = e
  BY <1>1, <1>2 DEF Members, Elems
<1>8. \A k \in 1..(i - 1) : app.object[r].users[k] \in Members(app, r)
  BY <1>1 DEF Members, Elems
<1> QED BY <1>3, <1>4, <1>5, <1>6, <1>7, <1>8 DEF Inherited

LEMMA SuccessionStep ==
  ASSUME IInv, SessionInv, [Next]_vars,
         NEW r \in app.rooms \cap app'.rooms
  PROVE  Inherited(r)
<1> SUFFICES ASSUME app'.object[r].master # app.object[r].master
             PROVE  Inherited(r)
  BY DEF Inherited
<1>1. /\ AppInv(app) /\ r \in Rooms /\ app.object[r].users \in Seq(Clients)
      /\ \A d \in Members(app, r) : app.room[d] = r /\ d \in Clients
      /\ app.object[r].master \in Members(app, r)
  BY DEF IInv, AppInv, Coherent, Typed, AppState, RoomObject, MembershipIn, MasterIsMemberIn
<1>2. PICK s : AppInv(s) /\ Shrinks(s) /\ Grows(s)
  BY StepShape
<1>3. CASE \E users \in Seq(Clients) : NewRoomOf(s, r, users)
  BY <1>1, <1>2, <1>3, RemadeStep
<1>4. CASE ~\E users \in Seq(Clients) : NewRoomOf(s, r, users)
  <2> PICK users : users = app.object[r].users
    OBVIOUS
  <2> PICK new : new = app'.object[r].users
    OBVIOUS
  \* The youngest, if somebody has come in.
  <2> PICK last : last = new[Len(new)]
    OBVIOUS
  <2> DEFINE Kept == /\ r \in s.rooms
                     /\ app'.object[r].master = s.object[r].master
                     /\ \/ /\ new = s.object[r].users
                           /\ \A d \in Clients : app'.room[d] = r => s.room[d] = r
                        \/ \E e \in Clients :
                             /\ new = Append(s.object[r].users, e)
                             /\ \A d \in Clients :
                                  app'.room[d] = r => s.room[d] = r \/ d = e
  <2>1. Kept
    <3>1. CASE NobodyEnters(s)
      BY <3>1 DEF NobodyEnters, SameRoom
    <3>2. ASSUME NEW q \in Rooms, NEW e \in Clients, OneEnters(s, q, e)
          PROVE  Kept
      <4>1. CASE q = r
        BY <3>2, <4>1 DEF OneEnters
      <4>2. CASE q # r
        BY <3>2, <4>2 DEF OneEnters, SameRoom
      <4> QED BY <4>1, <4>2
    <3>3. ASSUME NEW q \in Rooms, NEW u \in Seq(Clients), NewRoomOf(s, q, u)
          PROVE  Kept
      <4>1. q # r
        BY <1>4, <3>3
      <4> QED BY <3>3, <4>1 DEF NewRoomOf, SameRoom
    <3> QED BY <1>2, <3>1, <3>2, <3>3 DEF Grows
  <2>2. PICK gone \in SUBSET Members(app, r) :
               /\ s.object[r].users = Left(users, gone)
               /\ s.object[r].master = Heir(app.object[r].master, gone, Left(users, gone))
               /\ \A d \in gone : s.room[d] = NoRoom
    <3>1. s # app
      BY <2>1
    <3>2. PICK q \in Rooms : \E gone \in SUBSET Members(app, q) :
                 \E zombies : Tidied(app, s, q, gone, zombies)
      BY <1>2, <3>1 DEF Shrinks
    <3>3. PICK gone \in SUBSET Members(app, q) : \E zombies : Tidied(app, s, q, gone, zombies)
      BY <3>2
    <3>4. PICK zombies : Tidied(app, s, q, gone, zombies)
      BY <3>3
    <3>5. q = r
      BY <2>1, <3>4 DEF Tidied
    <3>6. \A d \in gone : s.room[d] = NoRoom
      BY <1>1, <3>4, <3>5 DEF Tidied
    <3> QED BY <2>1, <3>3, <3>4, <3>5, <3>6 DEF Tidied
  <2> PICK left : left = Left(users, gone)
    OBVIOUS
  <2> PICK heir : heir = s.object[r].master
    OBVIOUS
  <2>3. /\ app.object[r].master \in gone /\ left # <<>> /\ heir = left[1]
        /\ \E i \in DOMAIN users :
             users[i] = heir /\ \A k \in 1..(i - 1) : users[k] \in gone
    <3> PICK master : master = app.object[r].master
      OBVIOUS
    <3>1. users \in Seq(Clients) /\ heir = Heir(master, gone, Left(users, gone)) /\ heir # master
      BY <1>1, <2>1, <2>2
    <3> QED BY <3>1, HeirFirst
  <2>4. left \in Seq(Clients)
    BY <1>1, KeepProperties DEF Left
  <2>5. \A d \in gone : Leaves(d, r) \/ d = last
    <3> SUFFICES ASSUME NEW d \in gone, app'.room[d] = r PROVE d = last
      BY <1>1 DEF Leaves
    <3>1. s.room[d] # r /\ d \in Clients
      BY <1>1, <2>2, SentinelsAssumption
    <3>2. PICK e \in Clients : new = Append(left, e) /\ d = e
      BY <2>1, <2>2, <3>1
    <3> QED BY <2>4, <3>2
  <2>6. new[1] = left[1]
    BY <2>1, <2>2, <2>3, <2>4
  <2> QED BY <2>1, <2>3, <2>5, <2>6 DEF Inherited
<1> QED BY <1>3, <1>4

\* Whoever is moved from one room has been swept or has left it by itself.
LEMMA MovedStep ==
  ASSUME AppInv(app), NEW s, Shrinks(s), Grows(s),
         NEW c \in Clients, InRoom(c), app'.room[c] # app.room[c]
  PROVE  s.room[c] = NoRoom
<1>1. s.room[c] # app.room[c]
  BY SentinelsAssumption DEF Grows, NobodyEnters, OneEnters, NewRoomOf, InRoom
<1> QED BY <1>1, ShrinkRooms

LEMMA SweepsStep ==
  ASSUME IInv, SessionInv, [Next]_vars
  PROVE  Explained
<1>1. AppInv(app) /\ app.rooms \subseteq Rooms
  BY DEF IInv, AppInv, Coherent, Typed, AppState
<1>2. PICK s : AppInv(s) /\ Shrinks(s) /\ Grows(s)
  BY StepShape
<1>4. ASSUME NEW c \in Clients, InRoom(c), app'.room[c] # app.room[c], c \in Connected',
             NEW d \in Clients, InRoom(d), app'.room[d] # app.room[d], d \in Connected'
      PROVE  c = d
  <2>1. s.room[c] = NoRoom /\ s.room[d] = NoRoom
    BY <1>1, <1>2, <1>4, MovedStep
  <2>2. s # app
    BY <1>4, <2>1 DEF InRoom
  <2>3. PICK q \in Rooms : \E gone \in SUBSET Members(app, q) : \E zombies :
               /\ \E e : gone \cap Connected' \subseteq {e}
               /\ Tidied(app, s, q, gone, zombies)
    BY <1>2, <2>2 DEF Shrinks
  <2>4. PICK gone \in SUBSET Members(app, q) : \E zombies :
               /\ \E e : gone \cap Connected' \subseteq {e}
               /\ Tidied(app, s, q, gone, zombies)
    BY <2>3
  <2>5. c \in gone /\ d \in gone
    BY <1>4, <2>1, <2>4 DEF Tidied, InRoom
  <2> QED BY <1>4, <2>4, <2>5
<1>5. ASSUME NEW r \in app.rooms \ app'.rooms, NEW c \in Clients, Stays(c, r)
      PROVE  \E y, z \in Clients : /\ y # z /\ Leaves(y, r) /\ Leaves(z, r)
                                   /\ y \notin Connected' /\ z \notin Connected'
  <2>1. r \in Rooms /\ r # NoRoom /\ r \notin s.rooms
    BY <1>1, <1>2, SentinelsAssumption DEF Grows, NobodyEnters, OneEnters, NewRoomOf
  <2>2. PICK q \in Rooms : \E gone \in SUBSET Members(app, q) :
               \E zombies \in SUBSET gone :
                 zombies \cap Connected' = {} /\ Tidied(app, s, q, gone, zombies)
    BY <1>2, <2>1 DEF Shrinks
  <2>3. PICK gone \in SUBSET Members(app, q) : \E zombies \in SUBSET gone :
               zombies \cap Connected' = {} /\ Tidied(app, s, q, gone, zombies)
    BY <2>2
  <2>4. PICK zombies \in SUBSET gone :
               zombies \cap Connected' = {} /\ Tidied(app, s, q, gone, zombies)
    BY <2>3
  <2> PICK left : left = Left(app.object[q].users, gone)
    OBVIOUS
  <2>5. q = r /\ RemovedBySweep(left, zombies)
    BY <2>1, <2>4 DEF Tidied
  <2>6. \A d \in Members(app, r) : d \in Clients /\ app.room[d] = r
    BY <1>1, <2>1 DEF AppInv, Coherent, MembershipIn
  \* Nobody who was a member comes back into a room that is gone.
  <2>7. \A d \in gone : Leaves(d, r)
    <3> SUFFICES ASSUME NEW d \in gone PROVE app'.room[d] # r
      BY <2>3, <2>5, <2>6 DEF Leaves
    <3>1. d \in Clients /\ app.room[d] = r /\ s.room[d] = NoRoom
      BY <2>3, <2>4, <2>5, <2>6 DEF Tidied
    <3>2. CASE NobodyEnters(s)
      BY <2>1, <3>1, <3>2 DEF NobodyEnters
    <3>3. ASSUME NEW p \in Rooms, NEW e \in Clients, OneEnters(s, p, e)
          PROVE  app'.room[d] # r
      BY <2>1, <3>1, <3>3 DEF OneEnters, Welcome
    <3>4. ASSUME NEW p \in Rooms, NEW u \in Seq(Clients), NewRoomOf(s, p, u)
          PROVE  app'.room[d] # r
      BY <2>1, <3>1, <3>4 DEF NewRoomOf
    <3> QED BY <1>2, <3>2, <3>3, <3>4 DEF Grows
  <2>8. left # <<>>
    <3>1. c \notin gone /\ c \in Members(app, r)
      BY <1>1, <1>5, <2>1, <2>7 DEF Stays, Leaves, AppInv, Coherent, MembershipIn
    <3>2. app.object[r].users \in Seq(Clients)
      BY <1>1, <2>1 DEF AppInv, Coherent, Typed, AppState, RoomObject
    <3>3. c \in Elems(left)
      BY <2>5, <3>1, <3>2, KeepProperties DEF Left, Members
    <3> QED BY <3>3 DEF Elems
  <2>9. PICK y \in zombies, z \in zombies : y # z
    BY <2>5, <2>8 DEF RemovedBySweep
  <2>10. y \in Clients /\ z \in Clients /\ y \notin Connected' /\ z \notin Connected'
    BY <2>3, <2>4, <2>5, <2>6, <2>9
  <2> QED BY <2>4, <2>7, <2>9, <2>10
<1>6. ASSUME NEW c \in Clients, NEW r \in Rooms \ app'.rooms, Enters(c, r)
      PROVE  \E d \in Clients : Leaves(d, r) /\ uid[d] = uid'[c]
  BY <1>6, EntersStep
<1> QED BY <1>4, <1>5, <1>6 DEF Explained

\* Into a locked room comes only the account of a member that leaves it in the
\* same step, whatever handler, match or login brings it.
THEOREM LockIsKept == Spec => LockedOut
<1>1. IInv /\ SessionInv /\ [Next]_vars =>
        [\A r \in app.rooms, c \in Clients :
           Enters(c, r) /\ app.object[r].lock =>
             \E d \in Clients : Leaves(d, r) /\ uid[d] = uid'[c]]_vars
  <2>1. IInv => app.rooms \subseteq Rooms
    BY DEF IInv, AppInv, Coherent, Typed, AppState
  <2> QED BY <2>1, EntersStep
<1> QED BY <1>1, SessionInvariance, PTL DEF Spec, LockedOut

\* A master is replaced only when it leaves, by the longest standing of the
\* members that stay, although one leave sweeps others out as well.
THEOREM MastersSucceed == Spec => Succession
<1>1. IInv /\ SessionInv /\ [Next]_vars =>
        [\A r \in app.rooms \cap app'.rooms : Inherited(r)]_vars
  BY SuccessionStep
<1> QED BY <1>1, SessionInvariance, PTL DEF Spec, Succession

\* One step makes at most one connected client leave a room, takes a room with
\* members off the list only for two swept members, and lets nobody into a room
\* off the list who does not take over a place.
THEOREM SweepsAreExplained == Spec => SweepsExplained
<1>1. IInv /\ SessionInv /\ [Next]_vars => [Explained]_vars
  BY SweepsStep
<1> QED BY <1>1, SessionInvariance, PTL DEF Spec, SweepsExplained

-----------------------------------------------------------------------------
\* The first of those who stay is the first of all, or the heir.
LEMMA FirstAfter ==
  ASSUME NEW users \in Seq(Clients), users # <<>>, NEW gone,
         Left(users, gone) # <<>>
  PROVE  Heir(users[1], gone, Left(users, gone)) = Left(users, gone)[1]
<1>1. CASE users[1] \in gone
  BY <1>1 DEF Heir
<1>2. CASE users[1] \notin gone
  <2>1. PICK i \in DOMAIN users :
               /\ users[i] = Left(users, gone)[1]
               /\ \A k \in 1..(i - 1) : users[k] \notin Clients \ gone
    BY KeepFirst DEF Left
  <2>2. users[1] \in Clients \ gone
    BY <1>2
  <2>3. i \in Nat /\ (i = 1 \/ 1 \in 1..(i - 1))
    OBVIOUS
  <2>4. users[1] = Left(users, gone)[1]
    BY <2>1, <2>2, <2>3
  <2> QED BY <1>2, <2>4 DEF Heir
<1> QED BY <1>1, <1>2

\* So a sweep keeps it,
LEMMA FirstShrinks ==
  ASSUME AppInv(app), FirstIsMasterIn(app), NEW s, AppInv(s), Shrinks(s)
  PROVE  FirstIsMasterIn(s)
<1> SUFFICES ASSUME NEW r \in s.rooms
             PROVE  s.object[r].users # <<>> /\ s.object[r].master = s.object[r].users[1]
  BY DEF FirstIsMasterIn
<1>1. CASE s = app
  BY <1>1 DEF FirstIsMasterIn
<1>2. CASE s # app
  <2>1. PICK q \in Rooms : \E gone \in SUBSET Members(app, q) :
               \E zombies : Tidied(app, s, q, gone, zombies)
    BY <1>2 DEF Shrinks
  <2>2. PICK gone \in SUBSET Members(app, q) : \E zombies : Tidied(app, s, q, gone, zombies)
    BY <2>1
  <2>3. PICK zombies : Tidied(app, s, q, gone, zombies)
    BY <2>2
  <2>4. r \in app.rooms /\ app.object[r].users \in Seq(Clients)
        /\ app.object[r].users # <<>>
        /\ app.object[r].master = app.object[r].users[1]
    BY <2>3 DEF Tidied, FirstIsMasterIn, AppInv, Coherent, Typed, AppState, RoomObject
  <2>5. s.object[r].users # <<>>
    BY DEF AppInv, MasterIsMemberIn, Members, Elems
  <2>6. CASE r = q
    <3>1. /\ s.object[r].users = Left(app.object[r].users, gone)
          /\ s.object[r].master =
               Heir(app.object[r].master, gone, Left(app.object[r].users, gone))
      BY <2>3, <2>6 DEF Tidied
    <3> QED BY <2>4, <2>5, <3>1, FirstAfter
  <2>7. CASE r # q
    <3>1. /\ s.object[r].users = app.object[r].users
          /\ s.object[r].master = app.object[r].master
      BY <2>3, <2>7 DEF Tidied
    <3> QED BY <2>4, <3>1
  <2> QED BY <2>6, <2>7
<1> QED BY <1>1, <1>2

\* and so does every step: who enters is last, who makes a room is first.
LEMMA FirstStep ==
  ASSUME IInv, SessionInv, FirstIsMaster, [Next]_vars
  PROVE  FirstIsMaster'
<1>1. PICK s : AppInv(s) /\ Shrinks(s) /\ Grows(s)
  BY StepShape
<1>2. FirstIsMasterIn(s)
  BY <1>1, FirstShrinks DEF IInv, FirstIsMaster
<1>3. \A r \in s.rooms : r \in Rooms /\ s.object[r].users \in Seq(Clients)
  BY <1>1 DEF AppInv, Coherent, Typed, AppState, RoomObject
<1>4. \A r \in s.rooms : s.object[r].users # <<>> /\ s.object[r].master = s.object[r].users[1]
  BY <1>2 DEF FirstIsMasterIn
<1> SUFFICES ASSUME NEW r \in app'.rooms
             PROVE  /\ app'.object[r].users # <<>>
                    /\ app'.object[r].master = app'.object[r].users[1]
  BY DEF FirstIsMaster, FirstIsMasterIn
<1>5. CASE NobodyEnters(s)
  BY <1>4, <1>5 DEF NobodyEnters, SameRoom
<1>6. ASSUME NEW q \in Rooms, NEW e \in Clients, OneEnters(s, q, e)
      PROVE  app'.object[r].users # <<>> /\ app'.object[r].master = app'.object[r].users[1]
  <2>1. r \in s.rooms
    BY <1>6 DEF OneEnters
  <2>2. CASE r = q
    <3>1. /\ app'.object[r].users = Append(s.object[r].users, e)
          /\ app'.object[r].master = s.object[r].master
      BY <1>6, <2>1, <2>2 DEF OneEnters
    <3> PICK users : users = s.object[r].users
      OBVIOUS
    <3>2. users \in Seq(Clients) /\ users # <<>>
      BY <1>3, <1>4, <2>1
    <3>3. Append(users, e) # <<>> /\ Append(users, e)[1] = users[1]
      BY <3>2
    <3> QED BY <1>4, <2>1, <3>1, <3>3
  <2>3. CASE r # q
    BY <1>4, <1>6, <2>1, <2>3 DEF OneEnters, SameRoom
  <2> QED BY <2>2, <2>3
<1>7. ASSUME NEW q \in Rooms, NEW users \in Seq(Clients), NewRoomOf(s, q, users)
      PROVE  app'.object[r].users # <<>> /\ app'.object[r].master = app'.object[r].users[1]
  <2>1. CASE r = q
    BY <1>7, <2>1 DEF NewRoomOf
  <2>2. CASE r # q
    BY <1>4, <1>7, <2>2 DEF NewRoomOf, SameRoom
  <2> QED BY <2>1, <2>2
<1> QED BY <1>1, <1>5, <1>6, <1>7 DEF Grows

\* Between whole handlers the longest standing member of every listed room is its
\* master, however masters leave, are kicked, swept or taken over.  RoomSteps and
\* UserStates begin with such rooms.
THEOREM FirstAlwaysMaster == Spec => []FirstIsMaster
<1>1. Init => FirstIsMaster
  BY DEF Init, FirstIsMaster, FirstIsMasterIn
<1>2. IInv /\ SessionInv /\ FirstIsMaster /\ [Next]_vars => FirstIsMaster'
  BY FirstStep
<1> QED BY <1>1, <1>2, SessionInvariance, PTL DEF Spec

-----------------------------------------------------------------------------
(***************************************************************************)
(* Seats.  Every method keeps SeatsSoundIn as long as whoever enters a     *)
(* room finds it not full.                                                 *)
(***************************************************************************)
LEMMA LeftShorter ==
  ASSUME NEW users \in Seq(Clients), NoDuplicates(users), NEW gone,
         NEW left, left = Left(users, gone)
  PROVE  /\ left \in Seq(Clients) /\ Elems(left) = Elems(users) \ gone
         /\ Len(left) <= Len(users)
         /\ \A d \in Elems(users) \cap gone : Len(left) < Len(users)
<1>1. Elems(users) \subseteq Clients
  BY DEF Elems
<1>2. /\ left \in Seq(Clients) /\ NoDuplicates(left)
      /\ Elems(left) = Elems(users) \cap (Clients \ gone)
  BY KeepProperties DEF Left
<1>3. Elems(left) = Elems(users) \ gone
  BY <1>1, <1>2
<1>4. /\ IsFiniteSet(Elems(users)) /\ Cardinality(Elems(users)) = Len(users)
      /\ Cardinality(Elems(left)) = Len(left)
  BY <1>2, LenIsCardinality
<1>5. Elems(left) \in SUBSET Elems(users)
  BY <1>3
<1>6. /\ Cardinality(Elems(left)) <= Cardinality(Elems(users))
      /\ Cardinality(Elems(users)) = Cardinality(Elems(left)) => Elems(users) = Elems(left)
  BY <1>4, <1>5, FS_Subset
<1>7. Len(left) \in Nat /\ Len(users) \in Nat
  BY <1>2
<1>8. Len(left) <= Len(users)
  BY <1>4, <1>6
<1>9. ASSUME NEW d \in Elems(users) \cap gone PROVE Len(left) < Len(users)
  <2>1. Len(left) # Len(users)
    BY <1>3, <1>4, <1>6
  <2> QED BY <1>7, <1>8, <2>1
<1> QED BY <1>2, <1>3, <1>8, <1>9

\* What fits still fits when members leave.
LEMMA FewerFit ==
  ASSUME NEW n \in Nat, NEW m \in Nat, m <= n, NEW max \in Int, Fits(n, max)
  PROVE  Fits(m, max)
<1>1. \A number \in MatchNumbers : n <= number => m <= number
  BY CountsAssumption
<1> QED BY <1>1 DEF Fits

\* Of t, reached from the App: a client has kept its seat, has one, or is in no
\* room; or it has come into one that is overfull.
Seating(t, c) ==
  \/ t.room[c] = NoRoom \/ t.seat[c] # 0
  \/ t.room[c] = app.room[c] /\ t.seat[c] = app.seat[c]
  \/ /\ t.room[c] # app.room[c]
     /\ t.object[t.room[c]].users # <<>>
     /\ t.object[t.room[c]].maxCounts < Len(t.object[t.room[c]].users)

\* Whoever is in a room is where, and as, it was in s.
Keeps(s, t) ==
  \A c \in Clients : t.room[c] = NoRoom \/ (t.room[c] = s.room[c] /\ t.seat[c] = s.seat[c])

LEMMA SweptSeats ==
  ASSUME NEW s, AppInv(s), SeatsSoundIn(s), NEW r \in Rooms,
         NEW gone \in SUBSET Members(s, r), NEW zombies, NEW t, Swept(s, t, r, gone, zombies)
  PROVE  /\ SeatsSoundIn(t)
         /\ gone # {} => Fits(Len(t.object[r].users) + 1, t.object[r].maxCounts)
         /\ Keeps(s, t)
<1> PICK users : users = s.object[r].users
  OBVIOUS
<1> PICK max : max = s.object[r].maxCounts
  OBVIOUS
<1>1. /\ users \in Seq(Clients) /\ NoDuplicates(users) /\ max \in Int
      /\ gone \subseteq Elems(users) /\ Fits(Len(users), max)
  BY DEF AppInv, Coherent, Typed, AppState, RoomObject, MembershipIn, Members, SeatsSoundIn
<1> PICK left : left = Left(users, gone)
  OBVIOUS
<1>2. /\ left \in Seq(Clients) /\ Len(left) <= Len(users)
      /\ gone # {} => Len(left) < Len(users)
  BY <1>1, LeftShorter
<1>3. t.object[r].users = left /\ t.object[r].maxCounts = max
  BY DEF Swept
<1>4. Fits(Len(left), max) /\ (gone # {} => Fits(Len(left) + 1, max))
  <2>1. Len(left) \in Nat /\ Len(users) \in Nat /\ Len(left) + 1 \in Nat
    BY <1>1, <1>2
  <2>2. Fits(Len(left), max)
    BY <1>1, <1>2, <2>1, FewerFit
  <2>3. gone # {} => Len(left) + 1 <= Len(users)
    BY <1>2, <2>1
  <2>4. gone # {} => Fits(Len(left) + 1, max)
    BY <1>1, <2>1, <2>3, FewerFit
  <2> QED BY <2>2, <2>4
<1>5. \A q \in Rooms : Fits(Len(t.object[q].users), t.object[q].maxCounts)
  BY <1>3, <1>4 DEF Swept, SeatsSoundIn
<1>6. /\ \A c \in Clients : t.room[c] = IF c \in gone THEN NoRoom ELSE s.room[c]
      /\ \A c \in Clients : t.seat[c] = IF c \in gone THEN 0 ELSE s.seat[c]
  BY DEF Swept
<1>7. \A c \in Clients : t.seat[c] # 0 => t.room[c] # NoRoom
  BY <1>6 DEF SeatsSoundIn
<1>8. \A c \in Clients : \A d \in Clients \ {c} :
        t.seat[c] # 0 /\ t.room[d] = t.room[c] => t.seat[d] # t.seat[c]
  BY <1>6 DEF SeatsSoundIn
<1>9. SeatsSoundIn(t)
  BY <1>5, <1>7, <1>8 DEF SeatsSoundIn
<1>10. Keeps(s, t)
  BY <1>6 DEF Keeps
<1> QED BY <1>3, <1>4, <1>9, <1>10

LEMMA CollectSeats ==
  ASSUME NEW s, AppInv(s), SeatsSoundIn(s), NEW t, t = Collect(s)
  PROVE  SeatsSoundIn(t)
<1>1. /\ t.room = s.room /\ t.seat = s.seat
      /\ \A r \in Rooms : t.object[r] = s.object[r] \/ t.object[r] = NilRoom
  BY CollectEffect
<1>2. Fits(Len(NilRoom.users), NilRoom.maxCounts)
  BY DEF NilRoom, Fits
<1> QED BY <1>1, <1>2 DEF SeatsSoundIn

\* A room that is not full has a seat that no member has taken.
LEMMA FreeSeatLeft ==
  ASSUME NEW s, Coherent(s), NEW r \in Rooms,
         Len(s.object[r].users) < s.object[r].maxCounts
  PROVE  1..s.object[r].maxCounts \ {s.seat[d] : d \in Members(s, r)} # {}
<1> PICK users : users = s.object[r].users
  OBVIOUS
<1> PICK max : max = s.object[r].maxCounts
  OBVIOUS
<1> PICK M : M = Elems(users)
  OBVIOUS
<1> DEFINE seatOf == [d \in M |-> s.seat[d]]
           taken  == {s.seat[d] : d \in M}
<1>1. users \in Seq(Clients) /\ NoDuplicates(users) /\ max \in Int /\ Len(users) < max
  BY DEF Coherent, Typed, AppState, RoomObject, MembershipIn
<1>2. IsFiniteSet(M) /\ Cardinality(M) = Len(users)
  BY <1>1, LenIsCardinality
<1>3. seatOf \in Surjection(M, taken)
  BY DEF Surjection
<1>4. IsFiniteSet(taken) /\ Cardinality(taken) <= Cardinality(M)
  <2> HIDE DEF seatOf, taken
  <2> QED BY <1>2, <1>3, FS_Surjection
<1>5. Len(users) \in Nat /\ max \in Nat
  BY <1>1
<1>6. Cardinality(1..max) = max
  <2>1. 1 \in Int
    OBVIOUS
  <2>2. Cardinality(1..max) = IF 1 > max THEN 0 ELSE max - 1 + 1
    BY <1>1, <2>1, FS_Interval, Zenon
  <2> QED BY <1>5, <2>2
<1>7. 1..max \in SUBSET taken => Cardinality(1..max) <= Cardinality(taken)
  <2> HIDE DEF taken
  <2> QED BY <1>4, FS_Subset
<1>8. Cardinality(taken) \in Nat
  BY <1>4, FS_CardinalityType
<1>9. ~ 1..max \in SUBSET taken
  <2> HIDE DEF taken
  <2> QED BY <1>1, <1>2, <1>4, <1>5, <1>6, <1>7, <1>8
<1> QED BY <1>9 DEF Members

LEMMA JoinedSeats ==
  ASSUME NEW s, Coherent(s), SeatsSoundIn(s), NEW r \in Rooms, NEW c \in Clients,
         s.room[c] = NoRoom, Fits(Len(s.object[r].users) + 1, s.object[r].maxCounts),
         NEW t, Joined(s, t, r, c)
  PROVE  /\ SeatsSoundIn(t) /\ t.object[r].users # <<>>
         /\ Len(t.object[r].users) <= t.object[r].maxCounts => t.seat[c] # 0
         /\ \A d \in Clients \ {c} : t.room[d] = s.room[d] /\ t.seat[d] = s.seat[d]
<1> PICK max : max = s.object[r].maxCounts
  OBVIOUS
<1> PICK users : users = s.object[r].users
  OBVIOUS
<1> PICK free : free = 1..max \ {s.seat[d] : d \in Members(s, r)}
  OBVIOUS
<1>1. /\ users \in Seq(Clients) /\ max \in Int
      /\ Members(s, r) = {d \in Clients : s.room[d] = r}
  BY DEF Coherent, Typed, AppState, RoomObject, MembershipIn
<1>2. /\ t.seat[c] \in free \/ t.seat[c] = 0
      /\ Len(users) < max => t.seat[c] \in free
  <2>1. s.seat[c] = 0
    BY DEF SeatsSoundIn
  <2>2. t.seat[c] \in IF free # {} THEN free ELSE {s.seat[c]}
    BY DEF Joined
  <2>3. Len(users) < max => free # {}
    BY FreeSeatLeft
  <2> QED BY <2>1, <2>2, <2>3
<1>3. t.seat[c] \in free => t.seat[c] # 0 /\ \A d \in Members(s, r) : t.seat[c] # s.seat[d]
  OBVIOUS
<1>4. /\ \A d \in Clients : t.room[d] = IF d = c THEN r ELSE s.room[d]
      /\ \A d \in Clients \ {c} : t.seat[d] = s.seat[d]
  BY DEF Joined
<1>5. /\ t.object[r].users = Append(users, c) /\ t.object[r].maxCounts = max
      /\ Len(Append(users, c)) = Len(users) + 1 /\ Append(users, c) # <<>>
  BY <1>1 DEF Joined
<1>6. \A q \in Rooms : Fits(Len(t.object[q].users), t.object[q].maxCounts)
  <2>1. Fits(Len(t.object[r].users), t.object[r].maxCounts)
    BY <1>5
  <2>2. \A q \in Rooms \ {r} : t.object[q] = s.object[q]
    BY DEF Joined
  <2>3. \A q \in Rooms \ {r} : Fits(Len(s.object[q].users), s.object[q].maxCounts)
    BY DEF SeatsSoundIn
  <2> QED BY <2>1, <2>2, <2>3
<1>7. r # NoRoom
  BY SentinelsAssumption
<1>8. \A d \in Clients : t.seat[d] # 0 => t.room[d] # NoRoom
  BY <1>4, <1>7 DEF SeatsSoundIn
<1>9. ASSUME NEW d \in Clients, NEW e \in Clients \ {d},
             t.seat[d] # 0, t.room[e] = t.room[d]
      PROVE  t.seat[e] # t.seat[d]
  <2>1. CASE d = c
    BY <1>1, <1>2, <1>3, <1>4, <1>9, <2>1
  <2>2. CASE e = c
    BY <1>1, <1>2, <1>3, <1>4, <1>9, <2>2
  <2>3. CASE d # c /\ e # c
    BY <1>4, <1>9, <2>3 DEF SeatsSoundIn
  <2> QED BY <2>1, <2>2, <2>3
<1>10. Len(t.object[r].users) <= t.object[r].maxCounts => t.seat[c] # 0
  <2>1. Len(users) \in Nat
    BY <1>1
  <2> QED BY <1>1, <1>2, <1>3, <1>5, <2>1
<1> QED BY <1>4, <1>5, <1>6, <1>8, <1>9, <1>10 DEF SeatsSoundIn

LEMMA CreatedSeats ==
  ASSUME NEW s, AppInv(s), SeatsSoundIn(s), NEW r \in Rooms, s.object[r] = NilRoom,
         NEW users \in Seq(Clients), NEW max \in Int, Fits(Len(users), max),
         \A d \in Elems(users) : s.room[d] = NoRoom,
         NEW t, Created(s, t, r, users, max)
  PROVE  /\ SeatsSoundIn(t)
         /\ Len(users) <= max => \A d \in Elems(users) : t.seat[d] # 0
         /\ \A d \in Clients \ Elems(users) :
              t.room[d] = s.room[d] /\ t.seat[d] = s.seat[d]
<1>1. \A d \in Clients : s.room[d] # r
  BY NilNotListed DEF AppInv, Coherent, MembershipIn
<1>2. /\ \A d \in Clients : t.room[d] = IF d \in Elems(users) THEN r ELSE s.room[d]
      /\ \A d \in Clients \ Elems(users) : t.seat[d] = s.seat[d]
      /\ Seated(s, t, users, max)
  BY DEF Created
<1>3. Elems(users) \subseteq Clients
  BY DEF Elems
<1>4. /\ \A d \in Elems(users) : s.seat[d] = 0
      /\ \A d \in Elems(users) : \A e \in Elems(users) \ {d} :
           t.seat[d] # t.seat[e] \/ t.seat[d] = 0 \/ t.seat[e] = 0
      /\ Len(users) <= max => \A d \in Elems(users) : t.seat[d] # 0
  <2>1. \A d \in Elems(users) : s.seat[d] = 0
    BY <1>3 DEF SeatsSoundIn
  <2>2. Len(users) <= max => \A d \in Elems(users) : t.seat[d] \in 1..max
    BY <1>2 DEF Seated
  <2>3. \A n \in 1..max : n # 0
    OBVIOUS
  <2>4. \A d \in Elems(users) : \A e \in Elems(users) \ {d} :
          t.seat[d] # t.seat[e] \/ t.seat[d] = s.seat[d] \/ t.seat[e] = s.seat[e]
    BY <1>2 DEF Seated
  <2> QED BY <2>1, <2>2, <2>3, <2>4
<1>5. \A q \in Rooms : Fits(Len(t.object[q].users), t.object[q].maxCounts)
  BY DEF Created, SeatsSoundIn
<1>6. \A d \in Clients : t.seat[d] # 0 => t.room[d] # NoRoom
  <2>1. r # NoRoom
    BY SentinelsAssumption
  <2> QED BY <1>2, <2>1 DEF SeatsSoundIn
<1>7. \A d \in Clients : \A e \in Clients \ {d} :
        t.seat[d] # 0 /\ t.room[e] = t.room[d] => t.seat[e] # t.seat[d]
  BY <1>1, <1>2, <1>4 DEF SeatsSoundIn
<1> QED BY <1>2, <1>4, <1>5, <1>6, <1>7 DEF SeatsSoundIn

LEMMA ExitSeats ==
  ASSUME NEW s, AppInv(s), SeatsSoundIn(s), NEW r \in Rooms, NEW c \in Members(s, r),
         NEW connected, NEW t, t = Collect(ExitClient(s, r, c, connected))
  PROVE  SeatsSoundIn(t) /\ Keeps(s, t)
<1> PICK m : m = ExitClient(s, r, c, connected)
  OBVIOUS
<1> PICK gone : gone = Leaving(s, r, c, connected)
  OBVIOUS
<1> PICK zombies : zombies = Members(s, r) \ (connected \cup {c})
  OBVIOUS
<1>1. AppInv(m) /\ gone \in SUBSET Members(s, r) /\ Swept(s, m, r, gone, zombies)
  BY ExitEffect
<1>2. SeatsSoundIn(m) /\ Keeps(s, m)
  BY <1>1, SweptSeats
<1>3. t = Collect(m)
  OBVIOUS
<1>4. t.room = m.room /\ t.seat = m.seat
  BY <1>1, <1>3, CollectEffect
<1> QED BY <1>1, <1>2, <1>3, <1>4, CollectSeats DEF Keeps

LEMMA OutOfRoomSeats ==
  ASSUME AppInv(app), SeatsSound, NEW c \in Clients
  PROVE  SeatsSoundIn(OutOfRoom(c)) /\ Keeps(app, OutOfRoom(c))
<1> PICK s : s = OutOfRoom(c)
  OBVIOUS
<1>1. CASE ~InRoom(c)
  BY <1>1 DEF OutOfRoom, SeatsSound, Keeps
<1>2. CASE InRoom(c)
  <2> PICK r : r = app.room[c]
    OBVIOUS
  <2> PICK connected : connected = Connected
    OBVIOUS
  <2>1. r \in Rooms /\ c \in Members(app, r)
    BY <1>2, RoomOfMember
  <2>2. s = Collect(ExitClient(app, r, c, connected))
    BY <1>2 DEF OutOfRoom
  <2>3. SeatsSoundIn(s) /\ Keeps(app, s)
    BY <2>1, <2>2, ExitSeats DEF SeatsSound
  <2> QED BY <2>3
<1> QED BY <1>1, <1>2

LEMMA CleanSeats ==
  ASSUME NEW s, AppInv(s), SeatsSoundIn(s), NEW r \in Rooms, NEW connected,
         NEW t, t = Collect(cleanZombieClients(s, r, connected))
  PROVE  SeatsSoundIn(t) /\ Keeps(s, t)
<1> PICK m : m = cleanZombieClients(s, r, connected)
  OBVIOUS
<1> PICK zombies : zombies = Members(s, r) \ connected
  OBVIOUS
<1>1. AppInv(m) /\ (m = s \/ Swept(s, m, r, zombies, zombies))
  BY CleanEffect
<1>2. zombies \in SUBSET Members(s, r)
  OBVIOUS
<1>3. SeatsSoundIn(m) /\ Keeps(s, m)
  <2>1. m = s => Keeps(s, m)
    BY DEF Keeps
  <2>2. Swept(s, m, r, zombies, zombies) => SeatsSoundIn(m) /\ Keeps(s, m)
    BY <1>2, SweptSeats
  <2> QED BY <1>1, <2>1, <2>2
<1>4. t = Collect(m)
  OBVIOUS
<1>5. t.room = m.room /\ t.seat = m.seat
  BY <1>1, <1>4, CollectEffect
<1> QED BY <1>1, <1>3, <1>4, <1>5, CollectSeats DEF Keeps

LEMMA TakeOverSeats ==
  ASSUME AppInv(app), SeatsSound, NEW c \in Clients, ~InRoom(c),
         NEW old \in Clients \cup {NoClient}, NEW connected,
         NEW t, t = Collect(TakeOver(app, old, c, connected))
  PROVE  SeatsSoundIn(t) /\ \A d \in Clients : Seating(t, d)
<1>1. CASE old = NoClient \/ ~InRoom(old)
  <2>1. t = Collect(app)
    BY <1>1 DEF TakeOver, InRoom
  <2>2. t.room = app.room /\ t.seat = app.seat
    BY <2>1, CollectEffect
  <2> QED BY <2>1, <2>2, CollectSeats DEF SeatsSound, Seating
<1>2. CASE old # NoClient /\ InRoom(old)
  <2> PICK r : r = app.room[old]
    OBVIOUS
  <2> PICK gone : gone = Leaving(app, r, old, connected)
    OBVIOUS
  <2> PICK zombies : zombies = Members(app, r) \ (connected \cup {old})
    OBVIOUS
  <2> PICK m : m = ExitClient(app, r, old, connected)
    OBVIOUS
  <2> PICK j : j = JoinClient(m, r, c)
    OBVIOUS
  <2>1. r \in Rooms /\ old \in Members(app, r)
    BY <1>2, RoomOfMember
  <2>2. AppInv(m) /\ gone \in SUBSET Members(app, r) /\ Swept(app, m, r, gone, zombies)
    BY <2>1, ExitEffect
  <2>3. gone # {}
    BY DEF Leaving
  <2>4. /\ SeatsSoundIn(m) /\ Fits(Len(m.object[r].users) + 1, m.object[r].maxCounts)
        /\ Keeps(app, m)
    BY <2>1, <2>2, <2>3, SweptSeats DEF SeatsSound
  <2>5. m.room[c] = NoRoom
    BY <2>2 DEF Swept, InRoom
  <2>6. Joined(m, j, r, c) /\ AppInv(j)
    BY <2>1, <2>2, <2>5, JoinEffect, JoinClientInv DEF AppInv
  <2>7. /\ SeatsSoundIn(j) /\ j.object[r].users # <<>>
        /\ Len(j.object[r].users) <= j.object[r].maxCounts => j.seat[c] # 0
        /\ \A d \in Clients \ {c} : j.room[d] = m.room[d] /\ j.seat[d] = m.seat[d]
    <3>1. Coherent(m)
      BY <2>2 DEF AppInv
    <3> QED BY <2>1, <2>4, <2>5, <2>6, <3>1, JoinedSeats, SMTT(30)
  <2>8. t = Collect(j)
    BY <1>2 DEF TakeOver, InRoom
  <2>9. t.room = j.room /\ t.seat = j.seat /\ t.object[r] = j.object[r]
    <3>1. /\ t.room = j.room /\ t.seat = j.seat
          /\ j.object[r].users # <<>> => t.object[r] = j.object[r]
      BY <2>1, <2>6, <2>8, CollectEffect
    <3> QED BY <2>7, <3>1
  <2>10. ASSUME NEW d \in Clients \ {c} PROVE Seating(t, d)
    <3>1. \/ m.room[d] = NoRoom
          \/ m.room[d] = app.room[d] /\ m.seat[d] = app.seat[d]
      BY <2>4 DEF Keeps
    <3>2. t.room[d] = m.room[d] /\ t.seat[d] = m.seat[d]
      BY <2>7, <2>9
    <3> QED BY <3>1, <3>2 DEF Seating
  <2>11. Seating(t, c)
    <3>1. t.room[c] = r /\ app.room[c] = NoRoom /\ r # NoRoom
      <4>1. j.room[c] = r
        BY <2>6 DEF Joined
      <4> QED BY <2>1, <2>9, <4>1, SentinelsAssumption DEF InRoom
    <3>2. Len(t.object[r].users) \in Nat /\ t.object[r].maxCounts \in Int
      BY <2>1, <2>6, <2>9 DEF AppInv, Coherent, Typed, AppState, RoomObject
    <3> QED BY <2>7, <2>9, <3>1, <3>2 DEF Seating
  <2> QED BY <2>6, <2>7, <2>8, <2>10, <2>11, CollectSeats
<1> QED BY <1>1, <1>2

\* What fits into a room that is created for so many.
LEMMA CapacityFits ==
  ASSUME NEW asked \in MatchNumbers \cup {0}
  PROVE  /\ Capacity(asked) \in Int /\ Fits(1, Capacity(asked))
         /\ asked > 0 => \A n \in Nat : n <= asked => Fits(n, Capacity(asked))
<1>1. asked \in Int
  BY CountsAssumption
<1>2. CASE asked = 0
  BY <1>2, CountsAssumption DEF Capacity, Fits
<1>3. CASE asked > RoomLimit
  <2>1. Capacity(asked) = RoomLimit /\ asked \in MatchNumbers /\ RoomLimit \in Nat \ {0}
    BY <1>3, CountsAssumption DEF Capacity
  <2> QED BY <1>1, <1>3, <2>1 DEF Fits
<1>4. CASE asked # 0 /\ ~ asked > RoomLimit
  <2>1. Capacity(asked) = asked /\ asked \in MatchNumbers
    BY <1>4 DEF Capacity
  <2> QED BY <1>1, <1>4, <2>1 DEF Fits
<1> QED BY <1>2, <1>3, <1>4

LEMMA HandlerSeats ==
  ASSUME IInv, SeatsSound, NEW c \in Clients, RoomHandler(c)
  PROVE  SeatsSoundIn(app') /\ \A d \in Clients : Seating(app', d)
<1>1. AppInv(app) /\ app \in AppState /\ app.object \in [Rooms -> RoomObject]
  BY DEF IInv, AppInv, Coherent, Typed, AppState
<1>2. CASE Reset(c)
  <2>1. PICK r \in Rooms, o \in RoomObject :
          /\ SameMembers(o, app.object[r])
          /\ o.maxCounts = app.object[r].maxCounts \/ Len(o.users) <= o.maxCounts
          /\ app' = [app EXCEPT !.object[r] = o]
    BY <1>2 DEF Reset
  <2>2. /\ app'.room = app.room /\ app'.seat = app.seat
        /\ app'.object = [app.object EXCEPT ![r] = o]
    BY <1>1, <2>1 DEF AppState
  <2>3. Fits(Len(o.users), o.maxCounts)
    BY <2>1 DEF SameMembers, SeatsSound, SeatsSoundIn, Fits
  <2>4. \A q \in Rooms : Fits(Len(app'.object[q].users), app'.object[q].maxCounts)
    BY <1>1, <2>2, <2>3 DEF SeatsSound, SeatsSoundIn
  <2> QED BY <2>2, <2>4 DEF SeatsSound, SeatsSoundIn, Seating
<1>3. CASE Reseat(c)
  <2> PICK r : r = app.room[c]
    OBVIOUS
  <2>1. PICK n \in FreeSeats(app, r, c) : app' = [app EXCEPT !.seat[c] = n]
    BY <1>3 DEF Reseat
  <2>2. /\ app'.room = app.room /\ app'.object = app.object
        /\ \A d \in Clients : app'.seat[d] = IF d = c THEN n ELSE app.seat[d]
    BY <1>1, <2>1 DEF AppState
  <2>3. r \in Rooms /\ r # NoRoom
    BY <1>1, <1>3, RoomOfMember DEF Reseat, InRoom
  <2>4. \A d \in Clients : app.room[d] = r => d \in Members(app, r)
    BY <1>1, <2>3 DEF AppInv, Coherent, MembershipIn
  <2>5. /\ n \in 1..app.object[r].maxCounts
        /\ \A d \in Members(app, r) \ {c} : n # app.seat[d]
    BY <2>1 DEF FreeSeats
  <2>6. n # 0
    BY <2>5
  <2>7. \A d \in Clients : app'.seat[d] # 0 => app'.room[d] # NoRoom
    BY <2>2, <2>3, <2>6 DEF SeatsSound, SeatsSoundIn
  <2>8. ASSUME NEW d \in Clients, NEW e \in Clients \ {d},
               app'.seat[d] # 0, app'.room[e] = app'.room[d]
        PROVE  app'.seat[e] # app'.seat[d]
    BY <2>2, <2>4, <2>5, <2>8 DEF SeatsSound, SeatsSoundIn
  <2>9. \A d \in Clients : Seating(app', d)
    BY <2>2, <2>6 DEF Seating
  <2> QED BY <2>2, <2>7, <2>8, <2>9 DEF SeatsSound, SeatsSoundIn
<1>4. CASE SweepOut(c)
  <2>1. PICK r \in Rooms, o \in RoomObject :
          /\ SameMembers(o, app.object[r]) /\ o.maxCounts = app.object[r].maxCounts
          /\ app' = Collect(cleanZombieClients([app EXCEPT !.object[r] = o], r, Connected))
    BY <1>4 DEF SweepOut
  <2> PICK s : s = [app EXCEPT !.object[r] = o]
    OBVIOUS
  <2> PICK connected : connected = Connected
    OBVIOUS
  <2>2. AppInv(s)
    BY <1>1, <2>1, SettingsInv DEF SameMembers
  <2>3. /\ s.room = app.room /\ s.seat = app.seat
        /\ \A q \in Rooms : /\ s.object[q].users = app.object[q].users
                            /\ s.object[q].maxCounts = app.object[q].maxCounts
    BY <1>1, <2>1 DEF AppState, SameMembers
  <2>4. SeatsSoundIn(s)
    BY <2>3 DEF SeatsSound, SeatsSoundIn
  <2>5. SeatsSoundIn(app') /\ Keeps(s, app')
    <3>1. app' = Collect(cleanZombieClients(s, r, connected))
      BY <2>1
    <3> QED BY <2>2, <2>4, <3>1, CleanSeats
  <2> QED BY <2>3, <2>5 DEF Keeps, Seating
<1>5. CASE Exit(c)
  <2>1. PICK r \in Rooms : \E d \in Members(app, r) :
               app' = Collect(ExitClient(app, r, d, Connected'))
    BY <1>5 DEF Exit
  <2>2. PICK d \in Members(app, r) : app' = Collect(ExitClient(app, r, d, Connected'))
    BY <2>1
  <2> QED BY <1>1, <2>2, ExitSeats DEF SeatsSound, Keeps, Seating
<1>6. CASE Join(c)
  <2> PICK s : s = OutOfRoom(c)
    OBVIOUS
  <2>1. AppInv(s) /\ s.room[c] = NoRoom /\ SeatsSoundIn(s) /\ Keeps(app, s)
    BY <1>1, OutOfRoomInv, OutOfRoomSeats
  <2>2. PICK r \in s.rooms : MayJoin(s, r) /\ app' = JoinClient(s, r, c)
    BY <1>6 DEF Join
  <2>3. r \in Rooms
    BY <2>1 DEF AppInv, Coherent, Typed, AppState
  <2>4. Joined(s, app', r, c)
    BY <2>1, <2>2, <2>3, JoinEffect DEF AppInv
  <2>5. /\ Len(s.object[r].users) < s.object[r].maxCounts
        /\ s.object[r].users \in Seq(Clients) /\ s.object[r].maxCounts \in Int
    BY <2>1, <2>2, <2>3 DEF MayJoin, AppInv, Coherent, Typed, AppState, RoomObject
  <2>6. Fits(Len(s.object[r].users) + 1, s.object[r].maxCounts)
    BY <2>5 DEF Fits
  <2>7. /\ SeatsSoundIn(app')
        /\ Len(app'.object[r].users) <= app'.object[r].maxCounts => app'.seat[c] # 0
        /\ \A d \in Clients \ {c} : app'.room[d] = s.room[d] /\ app'.seat[d] = s.seat[d]
    BY <2>1, <2>3, <2>4, <2>6, JoinedSeats DEF AppInv
  <2>8. Len(app'.object[r].users) <= app'.object[r].maxCounts
    BY <2>4, <2>5 DEF Joined
  <2>9. \A d \in Clients : Seating(app', d)
    BY <2>1, <2>7, <2>8 DEF Keeps, Seating
  <2> QED BY <2>7, <2>9
<1>7. CASE Create(c)
  <2> PICK s : s = OutOfRoom(c)
    OBVIOUS
  <2>1. AppInv(s) /\ s.room[c] = NoRoom /\ SeatsSoundIn(s) /\ Keeps(app, s)
    BY <1>1, OutOfRoomInv, OutOfRoomSeats
  <2>2. PICK r \in Rooms, asked \in MatchNumbers \cup {0} :
               /\ app.object[r] = NilRoom /\ s.object[r] = NilRoom
               /\ app' = CreateRoom(s, r, c, Capacity(asked))
    BY <1>7 DEF Create
  <2> PICK max : max = Capacity(asked)
    OBVIOUS
  <2>9. PICK users : users = <<c>>
    OBVIOUS
  <2>3. max \in Int /\ Fits(1, max)
    BY CapacityFits
  <2>4. users \in Seq(Clients) /\ Len(users) = 1 /\ Elems(users) = {c} /\ users # <<>>
    BY <2>9 DEF Elems
  <2>5. Created(s, app', r, users, max)
    BY <2>1, <2>2, <2>3, <2>9, CreateEffect
  <2>6. /\ SeatsSoundIn(app')
        /\ 1 <= max => app'.seat[c] # 0
        /\ \A d \in Clients \ {c} : app'.room[d] = s.room[d] /\ app'.seat[d] = s.seat[d]
    <3>1. \A d \in Elems(users) : s.room[d] = NoRoom
      BY <2>1, <2>4
    <3>2. s.object[r] = NilRoom /\ Fits(Len(users), max)
      BY <2>2, <2>3, <2>4
    <3>3. /\ SeatsSoundIn(app')
          /\ Len(users) <= max => \A d \in Elems(users) : app'.seat[d] # 0
          /\ \A d \in Clients \ Elems(users) :
               app'.room[d] = s.room[d] /\ app'.seat[d] = s.seat[d]
      <4>1. AppInv(s) /\ SeatsSoundIn(s) /\ r \in Rooms
        BY <2>1, <2>2
      <4>2. users \in Seq(Clients) /\ max \in Int
        BY <2>3, <2>4
      <4> QED BY <2>5, <3>1, <3>2, <4>1, <4>2, CreatedSeats
    <3> QED BY <2>4, <3>3
  <2>7. app'.room[c] = r /\ r # app.room[c]
    BY <1>1, <2>2, <2>4, <2>5, NilNotListed
       DEF Created, AppInv, Coherent, MembershipIn
  <2>8. Seating(app', c)
    BY <2>3, <2>4, <2>5, <2>6, <2>7 DEF Seating, Created
  <2> QED BY <2>1, <2>6, <2>8 DEF Keeps, Seating
<1>8. CASE HandleMatched(c)
  <2>1. PICK number \in MatchNumbers, r \in Rooms, joiners \in Seq(Clients) :
              /\ app.object[r] = NilRoom
              /\ joiners # <<>> /\ NoDuplicates(joiners) /\ Len(joiners) <= number
              /\ \A d \in Elems(joiners) : d \in Clients /\ Matchable(d)
              /\ app' = CreateMatched(app, r, joiners, number)
    BY <1>8, MatchedGroup
  <2> PICK max : max = Capacity(number)
    OBVIOUS
  <2>2. number \in Int /\ Len(joiners) \in Nat /\ Len(joiners) >= 1
    BY <2>1, CountsAssumption
  <2>3. \A d \in Elems(joiners) : app.room[d] = NoRoom
    BY <2>1 DEF Matchable, InRoom
  <2>4. max \in Int /\ Fits(Len(joiners), max)
    <3>1. number > 0
      BY <2>1, <2>2
    <3> QED BY <2>1, <2>2, <3>1, CapacityFits
  <2>5. Created(app, app', r, joiners, max)
    BY <1>1, <2>1, <2>2, <2>3, MatchedEffect
  <2>6. /\ SeatsSoundIn(app')
        /\ Len(joiners) <= max => \A d \in Elems(joiners) : app'.seat[d] # 0
        /\ \A d \in Clients \ Elems(joiners) :
             app'.room[d] = app.room[d] /\ app'.seat[d] = app.seat[d]
    BY <1>1, <2>1, <2>3, <2>4, <2>5, CreatedSeats DEF SeatsSound
  <2>7. ASSUME NEW d \in Elems(joiners)
        PROVE  Seating(app', d)
    <3>1. d \in Clients /\ app'.room[d] = r /\ app.room[d] = NoRoom /\ r # NoRoom
      BY <2>1, <2>3, <2>5, SentinelsAssumption DEF Created
    <3>2. app'.object[r].users = joiners /\ app'.object[r].maxCounts = max
      BY <2>5 DEF Created
    <3> QED BY <2>1, <2>2, <2>4, <2>6, <3>1, <3>2 DEF Seating
  <2> QED BY <2>6, <2>7 DEF Seating
<1> QED BY <1>2, <1>3, <1>4, <1>5, <1>6, <1>7, <1>8, HandlerWays

LEMMA SeatsStep ==
  ASSUME IInv, SessionInv, SeatsSound, [Next]_vars
  PROVE  SeatsSound' /\ \A d \in Clients : Seating(app', d)
<1>1. AppInv(app) /\ ConnsOK
  BY DEF IInv
<1> SUFFICES SeatsSoundIn(app') /\ \A d \in Clients : Seating(app', d)
  BY DEF SeatsSound, SeatsSoundIn
<1>2. app' = app => SeatsSoundIn(app') /\ \A d \in Clients : Seating(app', d)
  BY DEF SeatsSound, Seating
<1>3. ASSUME NEW c \in Clients, OnUserOut(c)
      PROVE  SeatsSoundIn(app') /\ \A d \in Clients : Seating(app', d)
  <2>1. CASE Exit(c)
    <3>1. PICK r \in Rooms : \E d \in Members(app, r) :
                 app' = Collect(ExitClient(app, r, d, Connected'))
      BY <2>1 DEF Exit
    <3>2. PICK d \in Members(app, r) : app' = Collect(ExitClient(app, r, d, Connected'))
      BY <3>1
    <3> QED BY <1>1, <3>2, ExitSeats DEF SeatsSound, Keeps, Seating
  <2> QED BY <1>1, <1>2, <1>3, <2>1, OutWays
<1>4. ASSUME NEW c \in Clients, NEW u \in Users, Login(c, u)
      PROVE  SeatsSoundIn(app') /\ \A d \in Clients : Seating(app', d)
  <2> PICK old : old = account[u]
    OBVIOUS
  <2> PICK connected : connected = Connected
    OBVIOUS
  <2>1. old \in Clients \cup {NoClient} /\ ~InRoom(c)
    BY <1>1, <1>4 DEF ConnsOK, Login, SessionInv
  <2>2. app' = Collect(TakeOver(app, old, c, connected))
    BY <1>4 DEF Login
  <2> QED BY <1>1, <2>1, <2>2, TakeOverSeats
<1>5. \A c \in Clients :
         Accept(c) \/ Disconnect(c) \/ Dropped(c) \/ GoOffline(c) => app' = app
  BY DEF Accept, Disconnect, Dropped, GoOffline
<1>6. UNCHANGED vars => app' = app
  BY DEF vars
<1> QED BY <1>2, <1>3, <1>4, <1>5, <1>6, HandlerSeats DEF Next, ConnectionEvent, UserOut

LEMMA SeatsInvariance == Spec => [](IInv /\ SessionInv /\ SeatsSound)
<1>1. Init => SeatsSound
  BY DEF Init, NilRoom, SeatsSound, SeatsSoundIn, Fits
<1>2. IInv /\ SessionInv /\ SeatsSound /\ [Next]_vars => SeatsSound'
  BY SeatsStep
<1> QED BY <1>1, <1>2, SessionInvariance, PTL DEF Spec

\* A room has more members than its capacity only if MatchRoom created it for a
\* negative number of players, or MatchUser for a group larger than any room; and
\* nobody has a seat that another member has, or one outside a room.
THEOREM SeatsAreSound == Spec => []SeatsSound
  BY SeatsInvariance, PTL

\* Who comes into a room that is not overfull, by whatever handler, match or
\* takeover, has a seat afterwards, and who has a seat keeps one in that room.
THEOREM SeatsAreKept == Spec => SeatsKept
<1>1. ASSUME IInv, SessionInv, SeatsSound, [Next]_vars,
             NEW c \in Clients, NEW r \in Rooms
      PROVE  /\ Enters(c, r) /\ Len(app'.object[r].users) <= app'.object[r].maxCounts =>
                   app'.seat[c] # 0
             /\ Stays(c, r) /\ app.seat[c] # 0 => app'.seat[c] # 0
  <2>1. Seating(app', c) /\ r # NoRoom
    BY <1>1, SeatsStep, SentinelsAssumption
  <2>2. Len(app'.object[r].users) \in Nat /\ app'.object[r].maxCounts \in Int
    <3>1. IInv'
      BY <1>1, StepInv
    <3>2. app'.object[r] \in RoomObject
      BY <3>1 DEF IInv, AppInv, Coherent, Typed, AppState
    <3> QED BY <3>2 DEF RoomObject
  <2> QED BY <2>1, <2>2 DEF Seating, Enters, Stays
<1>2. IInv /\ SessionInv /\ SeatsSound /\ [Next]_vars =>
        [\A c \in Clients, r \in Rooms :
           /\ Enters(c, r) /\ Len(app'.object[r].users) <= app'.object[r].maxCounts =>
                app'.seat[c] # 0
           /\ Stays(c, r) /\ app.seat[c] # 0 => app'.seat[c] # 0]_vars
  BY <1>1
<1> QED BY <1>2, SeatsInvariance, PTL DEF Spec, SeatsKept

-----------------------------------------------------------------------------
(***************************************************************************)
(* Ghosts: rooms of the list whose members are gone for good.  A step from *)
(* s to t is orderly with a room if it takes nobody out, does not unlock   *)
(* it and does not put it on the list; or leaves connected members only;   *)
(* or lets somebody into the unlocked room, in which a connected one is.   *)
(***************************************************************************)
Orderly(s, t, r, connected) ==
  \/ /\ Members(s, r) \subseteq Members(t, r)
     /\ s.object[r].lock => t.object[r].lock
     /\ r \in t.rooms => r \in s.rooms
  \/ Members(t, r) \cap Members(s, r) \subseteq connected
  \/ ~s.object[r].lock /\ Members(t, r) \cap connected # {}

\* A sweep leaves the connected members in its room.
LEMMA SweptOrderly ==
  ASSUME NEW s, AppInv(s), NEW r \in Rooms, NEW gone, NEW zombies, NEW connected,
         Members(s, r) \ connected \subseteq gone,
         NEW t, Swept(s, t, r, gone, zombies)
  PROVE  /\ Members(t, r) \subseteq Members(s, r) \cap connected
         /\ \A q \in Rooms : Orderly(s, t, q, connected)
<1> PICK users : users = s.object[r].users
  OBVIOUS
<1> PICK left : left = Left(users, gone)
  OBVIOUS
<1>1. users \in Seq(Clients) /\ Members(s, r) = Elems(users) /\ Elems(users) \subseteq Clients
  BY DEF AppInv, Coherent, Typed, AppState, RoomObject, Members, Elems
<1>2. Elems(left) = Elems(users) \cap (Clients \ gone)
  BY <1>1, KeepProperties DEF Left
<1>3. Members(t, r) = Elems(left)
  BY DEF Swept, Members
<1>4. Members(t, r) \subseteq Members(s, r) \cap connected
  BY <1>1, <1>2, <1>3
<1>5. ASSUME NEW q \in Rooms \ {r} PROVE Orderly(s, t, q, connected)
  <2>1. t.object[q] = s.object[q] /\ (q \in t.rooms => q \in s.rooms)
    BY DEF Swept
  <2>2. Members(t, q) = Members(s, q)
    BY <2>1 DEF Members
  <2> QED BY <2>1, <2>2 DEF Orderly
<1>6. Orderly(s, t, r, connected)
  BY <1>4 DEF Orderly
<1> QED BY <1>4, <1>5, <1>6

LEMMA CollectOrderly ==
  ASSUME NEW m, AppInv(m), NEW t, t = Collect(m), NEW connected
  PROVE  \A q \in Rooms :
           /\ Members(t, q) = Members(m, q)
           /\ \A s : Orderly(s, m, q, connected) => Orderly(s, t, q, connected)
<1> TAKE q \in Rooms
<1>1. t.rooms = m.rooms
  BY CollectEffect
<1>2. CASE t.object[q] = m.object[q]
  <2>1. Members(t, q) = Members(m, q)
    BY <1>2 DEF Members
  <2> QED BY <1>1, <1>2, <2>1 DEF Orderly
<1>3. CASE m.object[q].users = <<>> /\ t.object[q] = NilRoom
  <2>1. Members(t, q) = {} /\ Members(m, q) = {}
    BY <1>3 DEF Members, NilRoom, Elems
  <2> QED BY <2>1 DEF Orderly
<1> QED BY <1>2, <1>3, CollectEffect

LEMMA ExitOrderly ==
  ASSUME NEW s, AppInv(s), NEW r \in Rooms, NEW c \in Members(s, r), NEW connected,
         NEW t, t = Collect(ExitClient(s, r, c, connected))
  PROVE  /\ Members(t, r) \subseteq Members(s, r) \cap connected
         /\ \A q \in Rooms : Orderly(s, t, q, connected)
<1> PICK m : m = ExitClient(s, r, c, connected)
  OBVIOUS
<1> PICK gone : gone = Leaving(s, r, c, connected)
  OBVIOUS
<1> PICK zombies : zombies = Members(s, r) \ (connected \cup {c})
  OBVIOUS
<1>1. AppInv(m) /\ Swept(s, m, r, gone, zombies)
  BY ExitEffect
<1>2. Members(s, r) \ connected \subseteq gone
  BY DEF Leaving
<1>3. /\ Members(m, r) \subseteq Members(s, r) \cap connected
      /\ \A q \in Rooms : Orderly(s, m, q, connected)
  BY <1>1, <1>2, SweptOrderly
<1>4. t = Collect(m)
  OBVIOUS
<1> QED BY <1>1, <1>3, <1>4, CollectOrderly

LEMMA CleanOrderly ==
  ASSUME NEW s, AppInv(s), NEW r \in Rooms, NEW connected,
         NEW t, t = Collect(cleanZombieClients(s, r, connected))
  PROVE  /\ Members(t, r) \subseteq connected
         /\ \A q \in Rooms : Orderly(s, t, q, connected)
<1> PICK m : m = cleanZombieClients(s, r, connected)
  OBVIOUS
<1> PICK zombies : zombies = Members(s, r) \ connected
  OBVIOUS
<1>1. /\ AppInv(m)
      /\ \/ m = s /\ Members(s, r) \subseteq connected
         \/ Swept(s, m, r, zombies, zombies)
  BY CleanEffect
<1>2. m = s => \A q \in Rooms : Orderly(s, m, q, connected)
  BY DEF Orderly
<1>3. Swept(s, m, r, zombies, zombies) =>
        /\ Members(m, r) \subseteq connected
        /\ \A q \in Rooms : Orderly(s, m, q, connected)
  <2>1. Members(s, r) \ connected \subseteq zombies
    OBVIOUS
  <2> QED BY <2>1, SweptOrderly
<1>4. t = Collect(m)
  OBVIOUS
<1>5. /\ Members(m, r) \subseteq connected
      /\ \A q \in Rooms : Orderly(s, m, q, connected)
  BY <1>1, <1>2, <1>3
<1> QED BY <1>1, <1>4, <1>5, CollectOrderly

LEMMA OutOfRoomOrderly ==
  ASSUME AppInv(app), NEW c \in Clients, NEW connected, connected = Connected
  PROVE  \A q \in Rooms :
           /\ Orderly(app, OutOfRoom(c), q, connected)
           /\ \/ OutOfRoom(c).object[q] = app.object[q]
              \/ Members(OutOfRoom(c), q) \subseteq connected
<1> PICK s : s = OutOfRoom(c)
  OBVIOUS
<1>1. CASE ~InRoom(c)
  BY <1>1 DEF OutOfRoom, Orderly
<1>2. CASE InRoom(c)
  <2> PICK r : r = app.room[c]
    OBVIOUS
  <2> PICK m : m = ExitClient(app, r, c, connected)
    OBVIOUS
  <2>1. r \in Rooms /\ c \in Members(app, r)
    BY <1>2, RoomOfMember
  <2>2. s = Collect(m)
    BY <1>2 DEF OutOfRoom
  <2>3. /\ Members(s, r) \subseteq connected
        /\ \A q \in Rooms : Orderly(app, s, q, connected)
    BY <2>1, <2>2, ExitOrderly
  <2>4. ASSUME NEW q \in Rooms \ {r}
        PROVE  s.object[q] = app.object[q] \/ Members(s, q) = {}
    <3>1. AppInv(m) /\ m.object[q] = app.object[q]
      <4>1. /\ AppInv(m)
            /\ \E gone, zombies : Swept(app, m, r, gone, zombies)
        BY <2>1, ExitEffect
      <4> QED BY <4>1 DEF Swept
    <3>2. s.object[q] = m.object[q] \/ s.object[q] = NilRoom
      BY <2>2, <3>1, CollectEffect
    <3> QED BY <3>1, <3>2 DEF Members, NilRoom, Elems
  <2> QED BY <2>3, <2>4
<1> QED BY <1>1, <1>2

LEMMA JoinOrderly ==
  ASSUME IInv, NEW c \in Clients, Join(c), NEW connected, connected = Connected
  PROVE  \A q \in Rooms : Orderly(app, app', q, connected)
<1> PICK s : s = OutOfRoom(c)
  OBVIOUS
<1>1. AppInv(app)
  BY DEF IInv
<1>2. AppInv(s) /\ s.room[c] = NoRoom
  BY <1>1, OutOfRoomInv
<1>3. \A q \in Rooms : /\ Orderly(app, s, q, connected)
                       /\ s.object[q] = app.object[q] \/ Members(s, q) \subseteq connected
  BY <1>1, OutOfRoomOrderly
<1>4. PICK r \in s.rooms : MayJoin(s, r) /\ app' = JoinClient(s, r, c)
  BY DEF Join
<1>5. r \in Rooms /\ s.object[r].users \in Seq(Clients)
  BY <1>2 DEF AppInv, Coherent, Typed, AppState, RoomObject
<1>6. Joined(s, app', r, c)
  BY <1>2, <1>4, <1>5, JoinEffect DEF AppInv
<1>7. ASSUME NEW q \in Rooms \ {r} PROVE Orderly(app, app', q, connected)
  <2>1. app'.object[q] = s.object[q] /\ app'.rooms = s.rooms
    BY <1>6 DEF Joined
  <2>2. Members(app', q) = Members(s, q)
    BY <2>1 DEF Members
  <2> QED BY <1>3, <2>1, <2>2 DEF Orderly
<1>8. Orderly(app, app', r, connected)
  <2>1. Members(app', r) = Members(s, r) \cup {c}
    BY <1>5, <1>6, AppendElems DEF Joined, Members
  <2>2. app'.object[r].lock = s.object[r].lock /\ app'.rooms = s.rooms
    BY <1>6 DEF Joined
  <2>3. CASE s.object[r] = app.object[r]
    <3>1. Members(s, r) = Members(app, r)
      BY <2>3 DEF Members
    <3>2. r \in app.rooms \/ Members(app, r) = {}
      <4>1. CASE ~InRoom(c)
        BY <1>4, <4>1 DEF OutOfRoom
      <4>2. CASE InRoom(c)
        BY <1>1, <1>4, <4>2, OutOfRoomTidied DEF Tidied
      <4> QED BY <4>1, <4>2
    <3> QED BY <2>1, <2>2, <2>3, <3>1, <3>2 DEF Orderly
  <2>4. CASE Members(s, r) \subseteq connected
    <3>1. Members(s, r) # {}
      BY <1>2, <1>4 DEF AppInv, MasterIsMemberIn
    <3>2. ~app.object[r].lock
      BY <1>1, <1>4, OutOfRoomTidied DEF MayJoin
    <3> QED BY <2>1, <2>4, <3>1, <3>2 DEF Orderly
  <2> QED BY <1>3, <1>5, <2>3, <2>4
<1> QED BY <1>7, <1>8

\* A new room is none that somebody was in before.
LEMMA CreatedOrderly ==
  ASSUME NEW s, NEW connected, NEW r \in Rooms, app.object[r] = NilRoom,
         \A q \in Rooms : Orderly(app, s, q, connected),
         NEW users, NEW max, NEW t, Created(s, t, r, users, max)
  PROVE  \A q \in Rooms : Orderly(app, t, q, connected)
<1>1. Members(app, r) = {}
  BY DEF Members, NilRoom, Elems
<1>2. Orderly(app, t, r, connected)
  BY <1>1 DEF Orderly
<1>3. ASSUME NEW q \in Rooms \ {r} PROVE Orderly(app, t, q, connected)
  <2>1. t.object[q] = s.object[q] /\ t.rooms = s.rooms \cup {r}
    BY DEF Created
  <2>2. Members(t, q) = Members(s, q)
    BY <2>1 DEF Members
  <2>3. Orderly(app, s, q, connected)
    OBVIOUS
  <2> QED BY <2>1, <2>2, <2>3 DEF Orderly
<1> QED BY <1>2, <1>3

LEMMA HandlerOrderly ==
  ASSUME IInv, NEW c \in Clients, RoomHandler(c), NEW connected, connected = Connected
  PROVE  \A q \in Rooms : Orderly(app, app', q, connected)
<1>1. AppInv(app) /\ app \in AppState /\ app.object \in [Rooms -> RoomObject]
  BY DEF IInv, AppInv, Coherent, Typed, AppState
<1>2. CASE Reset(c)
  <2>1. PICK r \in Rooms, o \in RoomObject :
          /\ SameMembers(o, app.object[r])
          /\ app.object[r].lock => o.lock
          /\ app' = [app EXCEPT !.object[r] = o]
    BY <1>2 DEF Reset
  <2>2. /\ app'.rooms = app.rooms
        /\ \A q \in Rooms : app'.object[q] = IF q = r THEN o ELSE app.object[q]
    BY <1>1, <2>1 DEF AppState
  <2>3. ASSUME NEW q \in Rooms PROVE Orderly(app, app', q, connected)
    <3>1. /\ app'.object[q].users = app.object[q].users
          /\ app.object[q].lock => app'.object[q].lock
      BY <2>1, <2>2 DEF SameMembers
    <3>2. Members(app', q) = Members(app, q)
      BY <3>1 DEF Members
    <3> QED BY <2>2, <3>1, <3>2 DEF Orderly
  <2> QED BY <2>3
<1>3. CASE Reseat(c)
  <2>1. app'.rooms = app.rooms /\ app'.object = app.object
    BY <1>1, <1>3 DEF Reseat, AppState
  <2> QED BY <2>1 DEF Orderly, Members
<1>4. CASE SweepOut(c)
  <2>1. PICK r \in Rooms, o \in RoomObject :
          /\ SameMembers(o, app.object[r])
          /\ app' = Collect(cleanZombieClients([app EXCEPT !.object[r] = o], r, Connected))
    BY <1>4 DEF SweepOut
  <2> PICK s : s = [app EXCEPT !.object[r] = o]
    OBVIOUS
  <2>2. AppInv(s)
    BY <1>1, <2>1, SettingsInv DEF SameMembers
  <2>3. s.rooms = app.rooms /\ \A q \in Rooms \ {r} : s.object[q] = app.object[q]
    BY <1>1 DEF AppState
  <2>4. app' = Collect(cleanZombieClients(s, r, connected))
    BY <2>1
  <2>5. /\ Members(app', r) \subseteq connected
        /\ \A q \in Rooms : Orderly(s, app', q, connected)
    BY <2>2, <2>4, CleanOrderly
  <2>6. ASSUME NEW q \in Rooms \ {r} PROVE Orderly(app, app', q, connected)
    <3>1. Members(s, q) = Members(app, q)
      BY <2>3 DEF Members
    <3> QED BY <2>3, <2>5, <3>1 DEF Orderly
  <2>7. Orderly(app, app', r, connected)
    BY <2>5 DEF Orderly
  <2> QED BY <2>6, <2>7
<1>5. CASE Exit(c) /\ UNCHANGED conns
  <2>1. Connected' = connected
    BY <1>5 DEF conns, Connected
  <2>2. PICK r \in Rooms : \E d \in Members(app, r) :
               app' = Collect(ExitClient(app, r, d, Connected'))
    BY <1>5 DEF Exit
  <2>3. PICK d \in Members(app, r) : app' = Collect(ExitClient(app, r, d, Connected'))
    BY <2>2
  <2> QED BY <1>1, <2>1, <2>3, ExitOrderly
<1>6. CASE Join(c)
  BY <1>6, JoinOrderly
<1>7. CASE Create(c)
  <2> PICK s : s = OutOfRoom(c)
    OBVIOUS
  <2>1. PICK r \in Rooms, asked \in MatchNumbers \cup {0} :
               /\ app.object[r] = NilRoom /\ s.object[r] = NilRoom
               /\ app' = CreateRoom(s, r, c, Capacity(asked))
    BY <1>7 DEF Create
  <2> PICK max : max = Capacity(asked)
    OBVIOUS
  <2>2. PICK users : users = <<c>>
    OBVIOUS
  <2>3. max \in Int
    BY CapacityFits
  <2>4. AppInv(s) /\ s.room[c] = NoRoom
    BY <1>1, OutOfRoomInv
  <2>5. Created(s, app', r, users, max)
    BY <2>1, <2>2, <2>3, <2>4, CreateEffect
  <2>6. \A q \in Rooms : Orderly(app, s, q, connected)
    BY <1>1, OutOfRoomOrderly
  <2> QED BY <2>1, <2>5, <2>6, CreatedOrderly
<1>8. CASE HandleMatched(c)
  <2>1. PICK number \in MatchNumbers, r \in Rooms, joiners \in Seq(Clients) :
              /\ app.object[r] = NilRoom
              /\ joiners # <<>> /\ NoDuplicates(joiners)
              /\ \A d \in Elems(joiners) : d \in Clients /\ Matchable(d)
              /\ app' = CreateMatched(app, r, joiners, number)
    BY <1>8, MatchedGroup
  <2>2. number \in Int /\ \A d \in Elems(joiners) : app.room[d] = NoRoom
    BY <2>1, CountsAssumption DEF Matchable, InRoom
  <2>3. Created(app, app', r, joiners, Capacity(number))
    BY <1>1, <2>1, <2>2, MatchedEffect
  <2>4. \A q \in Rooms : Orderly(app, app, q, connected)
    BY DEF Orderly
  <2> QED BY <2>1, <2>3, <2>4, CreatedOrderly
<1> QED BY <1>2, <1>3, <1>4, <1>5, <1>6, <1>7, <1>8, HandlerWays

LEMMA TakeOverOrderly ==
  ASSUME AppInv(app), NEW connected, NEW c \in Clients, ~InRoom(c),
         NEW old \in Clients \cup {NoClient},
         NEW t, t = Collect(TakeOver(app, old, c, connected))
  PROVE  \A q \in Rooms : Orderly(app, t, q, connected)
<1>1. CASE old = NoClient \/ ~InRoom(old)
  <2>1. t = Collect(app)
    BY <1>1 DEF TakeOver, InRoom
  <2>2. \A q \in Rooms : Orderly(app, app, q, connected)
    BY DEF Orderly
  <2> QED BY <2>1, <2>2, CollectOrderly
<1>2. CASE old # NoClient /\ InRoom(old)
  <2> PICK r : r = app.room[old]
    OBVIOUS
  <2> PICK gone : gone = Leaving(app, r, old, connected)
    OBVIOUS
  <2> PICK zombies : zombies = Members(app, r) \ (connected \cup {old})
    OBVIOUS
  <2> PICK m : m = ExitClient(app, r, old, connected)
    OBVIOUS
  <2> PICK j : j = JoinClient(m, r, c)
    OBVIOUS
  <2>1. r \in Rooms /\ old \in Members(app, r)
    BY <1>2, RoomOfMember
  <2>2. AppInv(m) /\ Swept(app, m, r, gone, zombies)
    BY <2>1, ExitEffect
  <2>3. Members(app, r) \ connected \subseteq gone
    BY DEF Leaving
  <2>4. /\ Members(m, r) \subseteq connected
        /\ \A q \in Rooms : Orderly(app, m, q, connected)
    BY <2>1, <2>2, <2>3, SweptOrderly
  <2>5. m.room[c] = NoRoom
    BY <2>2 DEF Swept, InRoom
  <2>6. Joined(m, j, r, c) /\ AppInv(j)
    BY <2>1, <2>2, <2>5, JoinEffect, JoinClientInv DEF AppInv
  <2>7. m.object[r].users \in Seq(Clients)
    BY <2>1, <2>2 DEF AppInv, Coherent, Typed, AppState, RoomObject
  <2>8. Members(j, r) = Members(m, r) \cup {c}
    <3>1. j.object[r].users = Append(m.object[r].users, c)
      BY <2>6 DEF Joined
    <3>2. Elems(Append(m.object[r].users, c)) = Elems(m.object[r].users) \cup {c}
      BY <2>7, AppendElems
    <3> QED BY <3>1, <3>2, Zenon DEF Members
  <2>9. c \notin Members(app, r)
    BY <2>1, SentinelsAssumption DEF AppInv, Coherent, MembershipIn, InRoom
  <2>10. Orderly(app, j, r, connected)
    BY <2>4, <2>8, <2>9 DEF Orderly
  <2>11. ASSUME NEW q \in Rooms \ {r} PROVE Orderly(app, j, q, connected)
    <3>1. j.object[q] = m.object[q] /\ j.rooms = m.rooms
      BY <2>6 DEF Joined
    <3>2. Members(j, q) = Members(m, q)
      BY <3>1 DEF Members
    <3> QED BY <2>4, <3>1, <3>2 DEF Orderly
  <2>12. t = Collect(j)
    BY <1>2 DEF TakeOver, InRoom
  <2> QED BY <2>6, <2>10, <2>11, <2>12, CollectOrderly
<1> QED BY <1>1, <1>2

\* An orderly step makes no ghosts, if nobody in a room is gone by it.
LEMMA OrderlyStep ==
  ASSUME IInv, IInv', \A r \in Rooms : Orderly(app, app', r, Connected),
         \A c \in Clients : phase'[c] = "out" /\ app'.room[c] # NoRoom => phase[c] = "out"
  PROVE  GhostsComeIn
<1>1. AppInv(app) /\ AppInv(app')
  BY DEF IInv
<1>2. /\ app.room \in [Clients -> Rooms \cup {NoRoom}]
      /\ app'.rooms \subseteq Rooms
  BY <1>1 DEF AppInv, Coherent, Typed, AppState
<1>3. \A r \in Rooms : /\ Members(app, r) = {c \in Clients : app.room[c] = r}
                       /\ Members(app', r) = {c \in Clients : app'.room[c] = r}
                       /\ r \in app'.rooms => Members(app', r) # {}
  BY <1>1 DEF AppInv, Coherent, MembershipIn, MasterIsMemberIn
<1>4. ASSUME NEW r \in Rooms, ~Ghost(r), Ghost(r)'
      PROVE  \E c \in Clients : phase[c] = "out" /\ Enters(c, r)
  <2> SUFFICES ASSUME \A c \in Clients : phase[c] = "out" => ~Enters(c, r)
               PROVE  FALSE
    OBVIOUS
  <2>1. r \in app'.rooms /\ \A c \in Members(app', r) : phase'[c] = "out"
    BY <1>4 DEF Ghost
  <2>2. \A c \in Members(app', r) : phase[c] = "out" /\ c \notin Connected
    <3>1. r # NoRoom
      BY SentinelsAssumption
    <3> QED BY <1>3, <2>1, <3>1 DEF Connected
  <2>3. Members(app', r) \subseteq Members(app, r)
    BY <1>3, <2>2 DEF Enters
  <2>4. Members(app, r) \subseteq Members(app', r) /\ r \in app.rooms
    BY <1>3, <2>1, <2>2, <2>3 DEF Orderly
  <2> QED BY <1>4, <2>2, <2>4 DEF Ghost
<1>5. ASSUME NEW c \in Clients, ~Stranded(c), Stranded(c)',
             app'.room[c] = app.room[c]
      PROVE  FALSE
  <2> PICK r : r = app.room[c]
    OBVIOUS
  <2>1. r # NoRoom /\ phase'[c] = "out" /\ ~app'.object[r].lock
    BY <1>5 DEF Stranded, InRoom
  <2>2. r \in Rooms /\ phase[c] = "out" /\ c \notin Connected
    BY <1>2, <1>5, <2>1 DEF Connected
  <2>3. app.object[r].lock
    BY <1>5, <2>1, <2>2 DEF Stranded, InRoom
  <2>4. c \in Members(app, r) /\ c \in Members(app', r)
    BY <1>3, <1>5, <2>2
  <2> QED BY <2>1, <2>2, <2>3, <2>4 DEF Orderly
<1>6. ASSUME NEW c \in Clients, ~Stranded(c), Stranded(c)'
      PROVE  phase[c] = "out" /\ app'.room[c] # app.room[c]
  <2>1. phase'[c] = "out" /\ app'.room[c] # NoRoom
    BY <1>6 DEF Stranded, InRoom
  <2> QED BY <1>5, <1>6, <2>1
<1> QED BY <1>4, <1>6 DEF GhostsComeIn

LEMMA UserOutGhosts ==
  ASSUME IInv, IInv', NEW c \in Clients, OnUserOut(c)
  PROVE  GhostsComeIn
<1> PICK online : online = Connected
  OBVIOUS
<1>1. AppInv(app) /\ ConnsOK
  BY DEF IInv
<1>2. /\ phase[c] = "offline" /\ phase \in [Clients -> Phases]
      /\ phase' = [phase EXCEPT ![c] = "out"]
  BY <1>1 DEF OnUserOut, ConnsOK
<1>3. Connected' = online /\ c \notin online
  BY <1>2 DEF Connected
<1>4. CASE /\ app' = app
           /\ InRoom(c) => /\ app.object[app.room[c]].lock
                           /\ Members(app, app.room[c]) \cap online # {}
  <2>1. \A r \in Rooms : c \in Members(app, r) => InRoom(c) /\ app.room[c] = r
    BY <1>1, SentinelsAssumption DEF AppInv, Coherent, MembershipIn, InRoom
  <2>2. ASSUME NEW r \in Rooms, Ghost(r)' PROVE Ghost(r)
    <3>1. r \in app.rooms /\ \A d \in Members(app, r) : phase'[d] = "out"
      BY <1>4, <2>2 DEF Ghost
    <3>2. Members(app, r) \cap online = {}
      BY <1>2, <1>3, <3>1 DEF Connected
    <3>3. c \notin Members(app, r)
      BY <1>4, <2>1, <3>2
    <3> QED BY <1>2, <3>1, <3>3 DEF Ghost
  <2>3. ASSUME NEW d \in Clients, Stranded(d)' PROVE Stranded(d)
    BY <1>2, <1>4, <2>3 DEF Stranded, InRoom
  <2> QED BY <2>2, <2>3 DEF GhostsComeIn
<1>5. CASE InRoom(c) /\ app' = Collect(ExitClient(app, app.room[c], c, online))
  <2> PICK r : r = app.room[c]
    OBVIOUS
  <2>1. r \in Rooms /\ c \in Members(app, r)
    BY <1>1, <1>5, RoomOfMember
  <2>2. \A q \in Rooms : Orderly(app, app', q, online)
    BY <1>1, <1>5, <2>1, ExitOrderly
  <2>3. app'.room[c] = NoRoom
    BY <1>1, <1>5, <2>1, ExitedRoom
  <2>4. \A d \in Clients : phase'[d] = "out" /\ app'.room[d] # NoRoom => phase[d] = "out"
    BY <1>2, <2>3
  <2> QED BY <2>2, <2>4, OrderlyStep
<1> QED BY <1>1, <1>3, <1>4, <1>5, OutWays

LEMMA GhostsStep ==
  ASSUME IInv, SessionInv, IInv', [Next]_vars
  PROVE  GhostsComeIn
<1>1. AppInv(app) /\ ConnsOK /\ phase \in [Clients -> Phases]
  BY DEF IInv, ConnsOK
<1>2. ASSUME app' = app, \A c \in Clients : phase'[c] = "out" => phase[c] = "out"
      PROVE  GhostsComeIn
  <2>1. \A r \in Rooms : Orderly(app, app', r, Connected)
    BY <1>2 DEF Orderly
  <2> QED BY <1>2, <2>1, OrderlyStep
<1>3. CASE UNCHANGED vars
  BY <1>2, <1>3 DEF vars, conns
<1>4. ASSUME NEW c \in Clients, Accept(c) PROVE GhostsComeIn
  BY <1>1, <1>2, <1>4 DEF Accept
<1>5. ASSUME NEW c \in Clients, Disconnect(c) PROVE GhostsComeIn
  BY <1>1, <1>2, <1>5 DEF Disconnect
<1>6. ASSUME NEW c \in Clients, Dropped(c) PROVE GhostsComeIn
  BY <1>1, <1>2, <1>6 DEF Dropped, ServerCloses
<1>7. ASSUME NEW c \in Clients, GoOffline(c) PROVE GhostsComeIn
  BY <1>1, <1>2, <1>7 DEF GoOffline
<1>8. ASSUME NEW c \in Clients, NEW u \in Users, Login(c, u) PROVE GhostsComeIn
  <2> PICK old : old = account[u]
    OBVIOUS
  <2> PICK connected : connected = Connected
    OBVIOUS
  <2>1. /\ old \in Clients \cup {NoClient} /\ ~InRoom(c)
        /\ app' = Collect(TakeOver(app, old, c, connected))
        /\ ServerCloses(LoggedOut(u))
    BY <1>1, <1>8 DEF ConnsOK, Login, SessionInv
  <2>2. \A r \in Rooms : Orderly(app, app', r, connected)
    BY <1>1, <2>1, TakeOverOrderly
  <2>3. \A d \in Clients : phase'[d] = "out" => phase[d] = "out"
    BY <1>1, <2>1 DEF ServerCloses
  <2> QED BY <2>2, <2>3, OrderlyStep
<1>9. ASSUME NEW c \in Clients, RoomHandler(c) PROVE GhostsComeIn
  <2>1. UNCHANGED conns
    BY <1>9, HandlerWays, MatchedGroup DEF Reset, Reseat, SweepOut, Join, Create
  <2>2. phase' = phase
    BY <2>1 DEF conns
  <2>3. \A r \in Rooms : Orderly(app, app', r, Connected)
    BY <1>9, HandlerOrderly
  <2> QED BY <2>2, <2>3, OrderlyStep
<1> QED BY <1>3, <1>4, <1>5, <1>6, <1>7, <1>8, <1>9, UserOutGhosts
        DEF Next, ConnectionEvent, UserOut

\* Neither a room of clients that are gone for good nor such a client in an
\* unlocked room comes about in any step but the entry of such a client: whatever
\* readers are late, whoever is last to leave has cleared the room away.
THEOREM NoGhostRooms == Spec => NoGhostRoom
<1>1. IInv /\ SessionInv /\ IInv' /\ [Next]_vars => [GhostsComeIn]_vars
  BY GhostsStep
<1> QED BY <1>1, SessionInvariance, PTL DEF Spec, NoGhostRoom

-----------------------------------------------------------------------------
\* A second place of an account.  Whoever is superseded by a login is out of the
\* room by that step; so one who is in a room then has come into it later.
LEMMA PlaceStep ==
  ASSUME IInv, SessionInv, [Next]_vars, NEW c \in Clients,
         ~Superseded(c), Superseded(c)'
  PROVE  /\ UNCHANGED conns /\ phase[c] # "open"
         /\ c \in reading \/ app.object[app'.room[c]] = NilRoom
<1>1. /\ AppInv(app) /\ ConnsOK
      /\ uid \in [Clients -> Users \cup {NoUser}]
      /\ account \in [Users -> Clients \cup {NoClient}]
  BY DEF IInv, ConnsOK
<1>2. app'.room[c] # NoRoom /\ account'[uid'[c]] # c
  BY DEF Superseded, InRoom
<1>3. ASSUME UNCHANGED <<uid, account>>, app'.room[c] \in {app.room[c], NoRoom}
      PROVE  FALSE
  BY <1>2, <1>3 DEF Superseded, InRoom
<1>4. ~UNCHANGED vars
  BY <1>3 DEF vars, conns
<1>5. ASSUME NEW d \in Clients
      PROVE  ~Accept(d) /\ ~Disconnect(d) /\ ~Dropped(d) /\ ~GoOffline(d)
  BY <1>3 DEF Accept, Disconnect, Dropped, GoOffline
<1>6. ASSUME NEW d \in Clients, OnUserOut(d) PROVE FALSE
  <2>1. app'.room[c] \in {app.room[c], NoRoom}
    BY <1>1, <1>6, OutWays, ExitRooms
  <2> QED BY <1>3, <1>6, <2>1 DEF OnUserOut
<1>7. ASSUME NEW d \in Clients, NEW u \in Users, Login(d, u) PROVE FALSE
  <2> PICK old : old = account[u]
    OBVIOUS
  <2> PICK connected : connected = Connected
    OBVIOUS
  <2>1. /\ old \in Clients \cup {NoClient} /\ ~InRoom(d)
        /\ app' = Collect(TakeOver(app, old, d, connected))
        /\ uid' = [uid EXCEPT ![d] = u] /\ account' = [account EXCEPT ![u] = d]
    BY <1>1, <1>7 DEF Login, SessionInv
  <2>2. Collect(app).room = app.room
    BY <1>1, CollectEffect
  <2>3. c # d
    BY <1>1, <1>2, <2>1
  <2>4. uid'[c] = uid[c]
    BY <1>1, <2>1, <2>3
  <2>5. InRoom(c) /\ c # old
    <3>1. CASE (old = NoClient \/ ~InRoom(old)) /\ app' = Collect(app)
      BY <1>2, <2>2, <3>1, SentinelsAssumption DEF InRoom
    <3>2. CASE \E r : TakenOver(app', r, old, d, connected)
      BY <1>2, <2>3, <3>2 DEF TakenOver, Leaving, InRoom
    <3> QED BY <1>1, <2>1, <3>1, <3>2, TakeOverEffect
  <2>6. uid[c] \in Users /\ account[uid[c]] = c
    BY <1>1, <2>5 DEF Superseded, SessionInv
  <2> QED BY <1>1, <1>2, <2>1, <2>3, <2>4, <2>5, <2>6
<1>8. ASSUME NEW d \in Clients, RoomHandler(d)
      PROVE  /\ UNCHANGED conns /\ phase[c] # "open"
             /\ c \in reading \/ app.object[app'.room[c]] = NilRoom
  <2>1. UNCHANGED conns
    BY <1>8, HandlerWays, MatchedGroup DEF Reset, Reseat, SweepOut, Join, Create
  <2>2. account[uid[c]] # c /\ app'.room[c] # app.room[c]
    BY <1>2, <1>3, <2>1 DEF conns
  <2>3. /\ uid[c] # NoUser
        /\ c \in reading \/ app.object[app'.room[c]] = NilRoom
    BY <1>2, <1>8, <2>2, EntersByHandler
  <2>4. phase[c] # "open"
    BY <2>2, <2>3 DEF SessionInv, SingleSession
  <2> QED BY <2>1, <2>3, <2>4
<1> QED BY <1>4, <1>5, <1>6, <1>7, <1>8 DEF Next, ConnectionEvent, UserOut

\* However often an account logs in again, it gets a second place by none of the
\* takeovers: one that a newer connection has superseded is in a room only after
\* a frame of its own that was read late, or a match it was still queued for.
THEOREM OnePlaceEach == Spec => OnePlacePerUser
<1>1. IInv /\ SessionInv /\ [Next]_vars =>
        [\A c \in Clients : ~Superseded(c) /\ Superseded(c)' =>
           /\ UNCHANGED conns /\ phase[c] # "open"
           /\ c \in reading \/ app.object[app'.room[c]] = NilRoom]_vars
  BY PlaceStep
<1> QED BY <1>1, SessionInvariance, PTL DEF Spec, OnePlacePerUser

-----------------------------------------------------------------------------
(***************************************************************************)
(* The recursion of ExitClient and cleanZombieClients has one result, the  *)
(* closed form of Rooms.  A function on calls that solves the equation of  *)
(* the recursion is given by the closed form: its turn for the first       *)
(* zombie takes all of them out, the turns for the others only remove the  *)
(* room.  And it is the only one: if another solution differed anywhere,   *)
(* it would differ for a room with a least number of members, while the    *)
(* calls inside concern rooms of fewer members.                            *)
(***************************************************************************)
\* What a call of ExitClient comes to, in closed form.
ExitOf(s, r, c, connected) ==
  IF s.room[c] = NoRoom THEN removeRoom(s, r) ELSE ExitClient(s, r, c, connected)

\* `exit` does so for rooms of fewer than n members, and for those who are out.
Agrees(exit, r, connected, n) ==
  \A s \in AppState, c \in Clients :
     /\ Coherent(s)
     /\ s.room[c] = NoRoom \/ (s.room[c] = r /\ Len(s.object[r].users) < n)
     => exit[<<s, c>>] = ExitOf(s, r, c, connected)

\* To remove a room twice is to remove it once.
LEMMA RemovedOnce ==
  ASSUME NEW s, Typed(s), NEW r \in Rooms
  PROVE  removeRoom(removeRoom(s, r), r) = removeRoom(s, r)
<1> PICK t : t = removeRoom(s, r)
  OBVIOUS
<1>1. r \notin t.rooms
  BY RemoveRoomFields
<1> QED BY <1>1 DEF removeRoom

\* The offline members, in their order.
LEMMA ZombieList ==
  ASSUME NEW s, Coherent(s), NEW r \in Rooms, NEW connected,
         NEW zs, zs = Keep(s.object[r].users, Clients \ connected)
  PROVE  /\ zs \in Seq(Clients) /\ NoDuplicates(zs)
         /\ Elems(zs) = Zombies(s, r, connected)
         /\ Elems(zs) \in SUBSET Members(s, r)
<1>1. s.object[r].users \in Seq(Clients) /\ NoDuplicates(s.object[r].users)
  BY DEF Coherent, Typed, AppState, RoomObject, MembershipIn
<1>2. /\ zs \in Seq(Clients) /\ NoDuplicates(zs)
      /\ Elems(zs) = Elems(s.object[r].users) \cap (Clients \ connected)
  BY <1>1, KeepProperties
<1>3. Elems(s.object[r].users) \subseteq Clients
  BY <1>1 DEF Elems
<1> QED BY <1>2, <1>3 DEF Zombies, Members

\* The loop of cleanZombieClients: its first turn takes all zombies out, the
\* others find them out and remove the room.
LEMMA ZombiesInTurn ==
  ASSUME NEW s, Coherent(s), NEW r \in Rooms, NEW connected, NEW exit, NEW n \in Nat,
         Agrees(exit, r, connected, n), Len(s.object[r].users) < n
  PROVE  cleanZombies(exit, s, r, connected) = cleanZombieClients(s, r, connected)
<1> PICK zs : zs = Keep(s.object[r].users, Clients \ connected)
  OBVIOUS
<1>1. /\ zs \in Seq(Clients) /\ NoDuplicates(zs)
      /\ Elems(zs) = Zombies(s, r, connected)
      /\ Elems(zs) \in SUBSET Members(s, r)
  BY ZombieList
<1>2. cleanZombies(exit, s, r, connected) = Looped(exit, s, zs)
  BY DEF cleanZombies
<1> PICK k \in Nat : k = Len(zs) /\ DOMAIN zs = 1..k
  BY <1>1
<1>3. CASE k = 0
  <2> PICK after : after = [i \in 0..k |-> s]
    OBVIOUS
  <2>1. after[0] = s /\ after = [i \in 0..k |-> after[i]]
    BY <1>3
  <2>2. \A i \in 1..k : after[i] = exit[<<after[i - 1], zs[i]>>]
    BY <1>3
  <2>3. Looped(exit, s, zs) = s
    BY <1>1, <1>3, <2>1, <2>2, LoopedIs DEF Turns
  <2>4. Zombies(s, r, connected) = {}
    BY <1>1, <1>3 DEF Elems
  <2> QED BY <1>2, <2>3, <2>4 DEF cleanZombieClients
<1>4. CASE k # 0
  <2> PICK z : z = zs[1]
    OBVIOUS
  <2> PICK Z : Z = Elems(zs)
    OBVIOUS
  <2> PICK m : m = MoveOut(s, r, Z)
    OBVIOUS
  <2> PICK u : u = removeRoom(m, r)
    OBVIOUS
  <2> PICK first : first = Sweep(s, r, {z}, Z \ {z})
    OBVIOUS
  <2>1. 1 \in 1..k /\ z \in Z /\ z \in Clients /\ Z \in SUBSET Members(s, r)
    <3>1. 1 \in 1..k
      BY <1>4
    <3>2. zs[1] \in Clients
      BY <1>1, <3>1
    <3>3. zs[1] \in Elems(zs)
      BY <3>1 DEF Elems
    <3> QED BY <1>1, <3>1, <3>2, <3>3
  <2>2. Typed(s) /\ s \in AppState /\ MembershipIn(s)
    BY DEF Coherent, Typed
  <2>3. Coherent(m)
    BY <2>1, MoveOutKeeps
  <2>4. Coherent(u) /\ u.room = m.room /\ Typed(m)
    BY <2>3, RemoveRoomCoherent DEF Coherent
  <2>5. {z} \cup (Z \ {z}) = Z
    BY <2>1
  <2>6. first = IF RemovedBySweep(m.object[r].users, Z \ {z}) THEN u ELSE m
    BY <2>5 DEF Sweep
  <2>7. removeRoom(m, r) = u /\ removeRoom(u, r) = u
    BY <2>4, RemovedOnce
  <2>8. \A d \in Z : d \in Clients /\ m.room[d] = NoRoom /\ u.room[d] = NoRoom
    <3>1. m.room = [d \in Clients |-> IF d \in Z THEN NoRoom ELSE s.room[d]]
      BY <2>2 DEF MoveOut, AppState
    <3>2. Z \subseteq Clients
      BY <1>1 DEF Elems
    <3> QED BY <2>4, <3>1, <3>2
  <2>9. exit[<<s, z>>] = first
    <3>1. s.room[z] = r /\ r # NoRoom
      BY <2>1, <2>2, SentinelsAssumption DEF MembershipIn
    <3>2. exit[<<s, z>>] = ExitOf(s, r, z, connected)
      BY <2>1, <2>2, <3>1 DEF Agrees
    <3> QED BY <1>1, <3>1, <3>2 DEF ExitOf, ExitClient
  <2>10. ASSUME NEW d \in Z
         PROVE  exit[<<m, d>>] = u /\ exit[<<u, d>>] = u
    <3>1. m \in AppState /\ u \in AppState
      BY <2>3, <2>4 DEF Coherent, Typed
    <3>2. /\ exit[<<m, d>>] = ExitOf(m, r, d, connected)
          /\ exit[<<u, d>>] = ExitOf(u, r, d, connected)
      BY <2>3, <2>4, <2>8, <3>1 DEF Agrees
    <3> QED BY <2>7, <2>8, <3>2 DEF ExitOf
  <2>11. first = m \/ first = u
    BY <2>6
  <2> PICK after : after = [i \in 0..k |-> IF i = 0 THEN s ELSE IF i = 1 THEN first ELSE u]
    OBVIOUS
  <2>12. after[0] = s /\ after = [i \in 0..k |-> after[i]] /\ after[1] = first
    BY <1>4
  <2>13. \A i \in 1..k : after[i] = exit[<<after[i - 1], zs[i]>>]
    <3> SUFFICES ASSUME NEW i \in 1..k
                 PROVE  after[i] = exit[<<after[i - 1], zs[i]>>]
      OBVIOUS
    <3>1. CASE i = 1
      BY <2>9, <2>12, <3>1
    <3>2. CASE i # 1
      <4>1. after[i] = u /\ (after[i - 1] = first \/ after[i - 1] = u)
        <5>1. i - 1 \in 0..k /\ i \in 0..k /\ i # 0 /\ i - 1 # 0
          BY <3>2
        <5> QED BY <3>2, <5>1
      <4>2. zs[i] \in Z
        BY <1>1 DEF Elems
      <4>3. after[i - 1] = m \/ after[i - 1] = u
        BY <2>11, <4>1
      <4> QED BY <2>10, <4>1, <4>2, <4>3
    <3> QED BY <3>1, <3>2
  <2>14. Looped(exit, s, zs) = after[k]
    <3>1. after = [i \in 0..Len(zs) |-> after[i]] /\ after[0] = s
      BY <2>12
    <3>2. \A i \in 1..Len(zs) : after[i] = exit[<<after[i - 1], zs[i]>>]
      BY <2>13
    <3>3. Turns(after, exit, s, zs)
      BY <3>1, <3>2 DEF Turns
    <3>4. Looped(exit, s, zs) = after[Len(zs)]
      BY <1>1, <3>3, LoopedIs
    <3> QED BY <3>4
  <2>15. cleanZombieClients(s, r, connected) =
           IF RemovedBySweep(m.object[r].users, Z) THEN u ELSE m
    <3>1. Zombies(s, r, connected) # {}
      BY <1>1, <2>1
    <3>2. {} \cup Z = Z
      OBVIOUS
    <3> QED BY <1>1, <3>1, <3>2 DEF cleanZombieClients, Sweep
  <2>16. CASE k = 1
    <3>1. Z = {z}
      <4>1. DOMAIN zs = 1..1 /\ Z = Elems(zs) /\ z = zs[1]
        BY <1>1, <2>16
      <4>2. \A i \in 1..1 : i = 1
        OBVIOUS
      <4> QED BY ONLY <4>1, <4>2 DEF Elems
    <3>2. RemovedBySweep(m.object[r].users, Z) <=> RemovedBySweep(m.object[r].users, Z \ {z})
      BY <3>1 DEF RemovedBySweep
    <3> QED BY <1>2, <2>6, <2>12, <2>14, <2>15, <2>16, <3>2
  <2>17. CASE k # 1
    <3>1. 1 \in 1..k /\ 2 \in 1..k
      BY <1>4, <2>17
    <3>2. zs[1] \in Z /\ zs[2] \in Z
      BY <3>1 DEF Elems
    <3>5. zs[1] # zs[2]
      <4>1. zs[1] = zs[2] => 1 = 2
        BY <1>1, <3>1 DEF NoDuplicates
      <4> QED BY <4>1
    <3>3. RemovedBySweep(m.object[r].users, Z)
      BY <3>2, <3>5 DEF RemovedBySweep
    <3>4. after[k] = u
      BY <1>4, <2>17
    <3> QED BY <1>2, <2>14, <2>15, <3>3, <3>4
  <2> QED BY <2>16, <2>17
<1> QED BY <1>3, <1>4

\* An App is its six fields.
LEMMA AppEqual ==
  ASSUME NEW s \in AppState, NEW t \in AppState,
         s.rooms = t.rooms, s.freedRoomIds = t.freedRoomIds,
         s.nextRoomId = t.nextRoomId, s.object = t.object,
         s.room = t.room, s.seat = t.seat
  PROVE  s = t
<1>1. s = [rooms |-> s.rooms, freedRoomIds |-> s.freedRoomIds, nextRoomId |-> s.nextRoomId,
           object |-> s.object, room |-> s.room, seat |-> s.seat]
  BY DEF AppState
<1>2. t = [rooms |-> t.rooms, freedRoomIds |-> t.freedRoomIds, nextRoomId |-> t.nextRoomId,
           object |-> t.object, room |-> t.room, seat |-> t.seat]
  BY DEF AppState
<1> QED BY <1>1, <1>2

\* Only the object of room r is another one: o.
OnlyObject(s, t, r, o) ==
  /\ t.rooms = s.rooms /\ t.freedRoomIds = s.freedRoomIds
  /\ t.nextRoomId = s.nextRoomId /\ t.room = s.room /\ t.seat = s.seat
  /\ t.object = [s.object EXCEPT ![r] = o]

SetMaster(s, r, x) == [s EXCEPT !.object[r].master = x]

\* The master is in neither record of membership.
LEMMA MasterSet ==
  ASSUME NEW s, Coherent(s), NEW r \in Rooms, NEW x \in Clients \cup {NoClient},
         NEW o, o = [s.object[r] EXCEPT !.master = x],
         NEW t, t = SetMaster(s, r, x)
  PROVE  Coherent(t) /\ t \in AppState /\ OnlyObject(s, t, r, o)
<1>1. s \in AppState /\ Typed(s) /\ MembershipIn(s) /\ RoomIdsConservedIn(s)
  BY DEF Coherent, Typed
<1>2. s.object \in [Rooms -> RoomObject] /\ s.rooms \subseteq Rooms
  BY <1>1 DEF AppState
<1>3. [s.object EXCEPT ![r] = o] \in [Rooms -> RoomObject]
  <2>1. o \in RoomObject
    BY <1>2 DEF RoomObject
  <2> QED BY <1>2, <2>1
<1>4. /\ t.rooms = s.rooms /\ t.freedRoomIds = s.freedRoomIds
      /\ t.nextRoomId = s.nextRoomId /\ t.room = s.room /\ t.seat = s.seat
      /\ t.object = [s.object EXCEPT ![r] = o]
  BY <1>1 DEF AppState, SetMaster
<1>5. t \in AppState
  BY <1>1, <1>3 DEF AppState, SetMaster
<1>6. \A q \in Rooms : /\ t.object[q].users = s.object[q].users
                       /\ t.object[q].id = s.object[q].id
  BY <1>2, <1>4 DEF RoomObject
<1>7. MembershipIn(t)
  BY <1>1, <1>4, <1>6 DEF MembershipIn, Members
<1>8. RoomIdsConservedIn(t)
  <2>1. \A q \in s.rooms : t.object[q].id = s.object[q].id
    BY <1>2, <1>6
  <2> QED BY <1>1, <1>4, <2>1, SameIds
<1>9. Typed(t)
  BY <1>1, <1>2, <1>4, <1>5, <1>6 DEF Typed
<1> QED BY <1>4, <1>5, <1>7, <1>8, <1>9 DEF Coherent, OnlyObject

LessOne(o, c) == [o EXCEPT !.users = Left(@, {c})]

\* t is s with one member of r less, and the master as it was.
OneLess(s, t, r, c) ==
  /\ Coherent(t) /\ t \in AppState
  /\ t.rooms = s.rooms /\ t.freedRoomIds = s.freedRoomIds
  /\ t.nextRoomId = s.nextRoomId
  /\ \A d \in Clients : /\ t.room[d] = IF d = c THEN NoRoom ELSE s.room[d]
                        /\ t.seat[d] = IF d = c THEN 0 ELSE s.seat[d]
  /\ t.object = [s.object EXCEPT ![r] = LessOne(s.object[r], c)]
  /\ Members(t, r) = Members(s, r) \ {c}
  /\ Len(t.object[r].users) < Len(s.object[r].users)

\* The first statements of ExitClient.
LEMMA OneGone ==
  ASSUME NEW s, Coherent(s), NEW r \in Rooms, NEW c \in Clients, s.room[c] = r
  PROVE  OneLess(s, goneFrom(s, r, c), r, c)
<1> PICK gone : gone = goneFrom(s, r, c)
  OBVIOUS
<1> PICK left : left = Left(s.object[r].users, {c})
  OBVIOUS
<1>1. s \in AppState /\ MembershipIn(s)
  BY DEF Coherent, Typed
<1>2. s.object \in [Rooms -> RoomObject] /\ s.object[r] \in RoomObject
  BY <1>1 DEF AppState
<1>3. s.object[r].users \in Seq(Clients) /\ s.object[r].master \in Clients \cup {NoClient}
  BY <1>2 DEF RoomObject
<1>4. c \in Members(s, r) /\ NoDuplicates(s.object[r].users)
  BY <1>1 DEF MembershipIn
<1>5. left \in Seq(Clients) /\ Len(left) < Len(s.object[r].users)
  BY <1>3, <1>4, LeftShorter DEF Members
<1> PICK m : m = MoveOut(s, r, {c})
  OBVIOUS
<1>6. Coherent(m) /\ m \in AppState /\ Members(m, r) = Members(s, r) \ {c}
  BY <1>4, MoveOutKeeps DEF Coherent, Typed
<1>7. /\ m.rooms = s.rooms /\ m.freedRoomIds = s.freedRoomIds
      /\ m.nextRoomId = s.nextRoomId
      /\ m.room = [d \in Clients |-> IF d \in {c} THEN NoRoom ELSE s.room[d]]
      /\ m.seat = [d \in Clients |-> IF d \in {c} THEN 0 ELSE s.seat[d]]
      /\ m.object = [s.object EXCEPT ![r].users = left,
                       ![r].master = Heir(s.object[r].master, {c}, left)]
  BY <1>1 DEF MoveOut, AppState
<1>9. /\ gone.rooms = s.rooms /\ gone.freedRoomIds = s.freedRoomIds
      /\ gone.nextRoomId = s.nextRoomId
      /\ gone.room = [s.room EXCEPT ![c] = NoRoom]
      /\ gone.seat = [s.seat EXCEPT ![c] = 0]
      /\ gone.object = [s.object EXCEPT ![r].users = left]
  BY <1>1 DEF AppState, Left, goneFrom
<1>12. gone \in AppState
  <2>1. [s.object EXCEPT ![r].users = left] \in [Rooms -> RoomObject]
    <3>1. [s.object[r] EXCEPT !.users = left] \in RoomObject
      BY <1>2, <1>5 DEF RoomObject
    <3> QED BY <1>2, <3>1
  <2>2. /\ [s.room EXCEPT ![c] = NoRoom] \in [Clients -> Rooms \cup {NoRoom}]
        /\ [s.seat EXCEPT ![c] = 0] \in [Clients -> Nat]
    BY <1>1 DEF AppState
  <2> QED BY <1>1, <2>1, <2>2 DEF AppState, Left, goneFrom
<1>14. gone.object[r].users = left /\ m.object[r].users = left
  <2> PICK o : o = [s.object[r] EXCEPT !.users = left]
    OBVIOUS
  <2> PICK heir : heir = Heir(s.object[r].master, {c}, left)
    OBVIOUS
  <2> PICK p : p = [o EXCEPT !.master = heir]
    OBVIOUS
  <2>1. o.users = left
    BY <1>2 DEF RoomObject
  <2>2. p.users = left
    BY <1>2, <2>1 DEF RoomObject
  <2>3. gone.object[r] = o
    BY <1>2, <1>9
  <2>4. m.object[r] = p
    BY <1>2, <1>7
  <2> QED BY <2>1, <2>2, <2>3, <2>4
<1>15. \A q \in Rooms : gone.object[q].users = m.object[q].users
  BY <1>2, <1>7, <1>9, <1>14
<1>16. \A q \in Rooms : gone.object[q].id = s.object[q].id
  BY <1>2, <1>9 DEF RoomObject
<1>17. \A d \in Clients : gone.room[d] = m.room[d]
  BY <1>1, <1>7, <1>9 DEF AppState
<1>18. \A q \in Rooms : Members(gone, q) = Members(m, q)
  BY <1>15 DEF Members
<1>19. MembershipIn(gone)
  <2>1. MembershipIn(m)
    BY <1>6 DEF Coherent
  <2>2. ASSUME NEW q \in Rooms
        PROVE  {d \in Clients : gone.room[d] = q} = {d \in Clients : m.room[d] = q}
    BY <1>17
  <2>3. ASSUME NEW q \in Rooms
        PROVE  /\ NoDuplicates(gone.object[q].users)
               /\ Members(gone, q) = {d \in Clients : gone.room[d] = q}
    BY <1>15, <1>18, <2>1, <2>2 DEF MembershipIn
  <2> QED BY <2>3 DEF MembershipIn
<1>20. s.rooms \subseteq Rooms /\ Typed(s) /\ RoomIdsConservedIn(s)
  BY <1>1 DEF AppState, Coherent
<1>21. RoomIdsConservedIn(gone)
  <2>1. \A q \in s.rooms : gone.object[q].id = s.object[q].id
    BY <1>16, <1>20
  <2> QED BY ONLY <1>9, <1>20, <2>1, SameIds
<1>22. Typed(gone)
  BY <1>9, <1>12, <1>16, <1>20 DEF Typed
<1>23. gone.object = [s.object EXCEPT ![r] = LessOne(s.object[r], c)]
  BY <1>9 DEF LessOne
<1>24. \A d \in Clients : /\ gone.room[d] = IF d = c THEN NoRoom ELSE s.room[d]
                         /\ gone.seat[d] = IF d = c THEN 0 ELSE s.seat[d]
  BY <1>1, <1>9 DEF AppState
<1> QED BY <1>5, <1>6, <1>9, <1>12, <1>14, <1>18, <1>19, <1>21, <1>22, <1>23, <1>24
  DEF Coherent, OneLess

\* removeRoom and the change of a master do not disturb each other.
LEMMA RemovedMaster ==
  ASSUME NEW s, Coherent(s), NEW r \in Rooms, NEW x \in Clients \cup {NoClient}
  PROVE  SetMaster(removeRoom(s, r), r, x) = removeRoom(SetMaster(s, r, x), r)
<1> PICK t : t = removeRoom(s, r)
  OBVIOUS
<1> PICK u : u = SetMaster(s, r, x)
  OBVIOUS
<1> PICK v : v = SetMaster(t, r, x)
  OBVIOUS
<1> PICK w : w = removeRoom(u, r)
  OBVIOUS
<1>1. Typed(s) /\ s.object \in [Rooms -> RoomObject]
  BY DEF Coherent, Typed, AppState
<1>2. /\ Coherent(t)
      /\ t.rooms = s.rooms \ {r}
      /\ t.freedRoomIds = IF r \in s.rooms THEN Append(s.freedRoomIds, s.object[r].id)
                          ELSE s.freedRoomIds
      /\ t.nextRoomId = s.nextRoomId
      /\ t.room = s.room /\ t.object = s.object /\ t.seat = s.seat
  BY <1>1, RemoveRoomCoherent, RemoveRoomFields
<1> PICK o : o = [s.object[r] EXCEPT !.master = x]
  OBVIOUS
<1>3. Coherent(u) /\ u \in AppState /\ OnlyObject(s, u, r, o)
  BY MasterSet
<1>4. v \in AppState /\ OnlyObject(t, v, r, o)
  BY <1>2, MasterSet
<1> USE DEF OnlyObject
<1>5. Typed(u)
  BY <1>3 DEF Coherent
<1>6. /\ Typed(w)
      /\ w.rooms = u.rooms \ {r}
      /\ w.freedRoomIds = IF r \in u.rooms THEN Append(u.freedRoomIds, u.object[r].id)
                          ELSE u.freedRoomIds
      /\ w.nextRoomId = u.nextRoomId
      /\ w.room = u.room /\ w.object = u.object /\ w.seat = u.seat
  BY <1>5, RemoveRoomFields
<1>7. u.object[r].id = s.object[r].id
  BY <1>1, <1>3 DEF RoomObject
<1>8. v = w
  <2>1. w \in AppState
    BY <1>6 DEF Typed
  <2>2. /\ v.rooms = w.rooms /\ v.nextRoomId = w.nextRoomId
        /\ v.room = w.room /\ v.seat = w.seat
    BY <1>2, <1>3, <1>4, <1>6
  <2>3. v.freedRoomIds = w.freedRoomIds
    BY <1>2, <1>3, <1>4, <1>6, <1>7
  <2>4. v.object = w.object
    BY <1>2, <1>3, <1>4, <1>6
  <2> QED BY <1>4, <2>1, <2>2, <2>3, <2>4, AppEqual
<1> QED BY <1>8

LEMMA ObjectSet ==
  ASSUME NEW o \in RoomObject, NEW K, NEW L, NEW g, NEW h,
         NEW p, p = [[[[o EXCEPT !.users = K] EXCEPT !.users = L]
                         EXCEPT !.master = g] EXCEPT !.master = h]
  PROVE  p = [[o EXCEPT !.users = L] EXCEPT !.master = h]
  BY DEF RoomObject

\* The other members, and c with members Z.
Others(s, r, c) == Members(s, r) \ {c}
With(c, Z) == {c} \cup Z

\* One member goes, then others do: they all go, but for the master, which the
\* first statements leave.
LEMMA MovedInTurn ==
  ASSUME NEW s, Coherent(s), NEW r \in Rooms, NEW c \in Clients, s.room[c] = r,
         NEW gone,
         gone = goneFrom(s, r, c),
         NEW Z \in SUBSET Others(s, r, c),
         NEW v, v = MoveOut(gone, r, Z),
         NEW left, left = Left(s.object[r].users, With(c, Z)),
         NEW master, master = s.object[r].master
  PROVE  /\ Coherent(v) /\ v \in AppState
         /\ v.object[r].users = left
         /\ v.object[r].master = Heir(master, Z, left)
         /\ MoveOut(s, r, With(c, Z))
              = SetMaster(v, r, Heir(master, With(c, Z), left))
         /\ Z = {} => v = gone
<1> USE DEF Others, With
<1>1. s \in AppState /\ MembershipIn(s) /\ s.object \in [Rooms -> RoomObject]
      /\ s.object[r] \in RoomObject
  BY DEF Coherent, Typed, AppState
<1> PICK users : users = s.object[r].users
  OBVIOUS
<1> PICK most : most = Left(users, {c})
  OBVIOUS
<1> PICK o : o = LessOne(s.object[r], c)
  OBVIOUS
<1>2. /\ Coherent(gone) /\ gone \in AppState
      /\ gone.rooms = s.rooms /\ gone.freedRoomIds = s.freedRoomIds
      /\ gone.nextRoomId = s.nextRoomId
      /\ \A d \in Clients : /\ gone.room[d] = IF d = c THEN NoRoom ELSE s.room[d]
                            /\ gone.seat[d] = IF d = c THEN 0 ELSE s.seat[d]
      /\ gone.object = [s.object EXCEPT ![r] = o]
      /\ Members(gone, r) = Members(s, r) \ {c}
  BY OneGone DEF OneLess
<1>3. users \in Seq(Clients) /\ master \in Clients \cup {NoClient}
  BY <1>1 DEF RoomObject
<1>4. most \in Seq(Clients)
  BY <1>3, KeepProperties DEF Left
<1>5. Left(most, Z) = left
  <2>1. (Clients \ {c}) \cap (Clients \ Z) = Clients \ ({c} \cup Z)
    OBVIOUS
  <2> QED BY <1>3, <2>1, KeepKeep DEF Left
<1>6. /\ o = [s.object[r] EXCEPT !.users = most]
      /\ o.users = most /\ o.master = master /\ o \in RoomObject
  BY <1>1, <1>4 DEF RoomObject, LessOne
<1>7. gone.object = [s.object EXCEPT ![r] = o] /\ gone.object[r] = o
  BY <1>1, <1>2
<1> PICK g : g = Heir(master, Z, left)
  OBVIOUS
<1> PICK h : h = Heir(master, {c} \cup Z, left)
  OBVIOUS
<1> PICK w : w = MoveOut(s, r, {c} \cup Z)
  OBVIOUS
<1>8. Coherent(v) /\ v \in AppState /\ Coherent(w) /\ w \in AppState
  <2>1. {c} \cup Z \in SUBSET Members(s, r)
    BY <1>1 DEF MembershipIn
  <2>2. Z \in SUBSET Members(gone, r)
    BY <1>2
  <2>3. Coherent(v)
    BY <1>2, <2>2, MoveOutKeeps
  <2>4. Coherent(w)
    BY <2>1, MoveOutKeeps
  <2> QED BY <2>3, <2>4 DEF Coherent, Typed
<1>9. /\ v.rooms = s.rooms /\ v.freedRoomIds = s.freedRoomIds
      /\ v.nextRoomId = s.nextRoomId
      /\ v.room = [d \in Clients |-> IF d \in Z THEN NoRoom ELSE gone.room[d]]
      /\ v.seat = [d \in Clients |-> IF d \in Z THEN 0 ELSE gone.seat[d]]
      /\ v.object = [gone.object EXCEPT ![r].users = Left(gone.object[r].users, Z),
                       ![r].master = Heir(gone.object[r].master, Z,
                                          Left(gone.object[r].users, Z))]
  BY <1>2 DEF MoveOut, AppState
<1>10. /\ w.rooms = s.rooms /\ w.freedRoomIds = s.freedRoomIds
       /\ w.nextRoomId = s.nextRoomId
       /\ w.room = [d \in Clients |-> IF d \in {c} \cup Z THEN NoRoom ELSE s.room[d]]
       /\ w.seat = [d \in Clients |-> IF d \in {c} \cup Z THEN 0 ELSE s.seat[d]]
       /\ w.object = [s.object EXCEPT ![r].users = left, ![r].master = h]
  BY <1>1 DEF MoveOut, AppState
<1>11. w.room = v.room /\ w.seat = v.seat
  <2>2. \A d \in Clients :
          /\ (IF d \in Z THEN NoRoom ELSE gone.room[d])
               = IF d \in {c} \cup Z THEN NoRoom ELSE s.room[d]
          /\ (IF d \in Z THEN 0 ELSE gone.seat[d])
               = IF d \in {c} \cup Z THEN 0 ELSE s.seat[d]
    BY <1>2
  <2> QED BY <1>9, <1>10, <2>2
<1> PICK p : p = [[o EXCEPT !.users = left] EXCEPT !.master = g]
  OBVIOUS
<1>12. v.object = [s.object EXCEPT ![r] = p] /\ v.object[r] = p
  <2>1. gone.object[r].users = most /\ gone.object[r].master = master
    BY <1>6, <1>7
  <2>2. v.object = [gone.object EXCEPT ![r].users = left, ![r].master = g]
    BY <1>5, <1>9, <2>1
  <2>3. v.object = [gone.object EXCEPT ![r] = p]
    BY <1>1, <1>7, <2>2
  <2> QED BY <1>1, <1>7, <2>3
<1>13. p.users = left /\ p.master = g
  BY <1>6 DEF RoomObject
<1> PICK u : u = SetMaster(v, r, h)
  OBVIOUS
<1>14. h \in Clients \cup {NoClient}
  <2>1. left \in Seq(Clients)
    BY <1>3, KeepProperties DEF Left
  <2> QED BY <1>3, <2>1 DEF Heir
<1> PICK q : q = [p EXCEPT !.master = h]
  OBVIOUS
<1>15. u \in AppState /\ OnlyObject(v, u, r, q)
  BY <1>8, <1>12, <1>14, MasterSet
<1>16. u.object = w.object
  <2>1. u.object = [s.object EXCEPT ![r] = q]
    BY <1>1, <1>12, <1>15 DEF OnlyObject
  <2>2. w.object = [s.object EXCEPT ![r] = [[s.object[r] EXCEPT !.users = left]
                                               EXCEPT !.master = h]]
    BY <1>1, <1>10
  <2>3. q = [[s.object[r] EXCEPT !.users = left] EXCEPT !.master = h]
    BY <1>1, <1>6, ObjectSet
  <2> QED BY <2>1, <2>2, <2>3
<1>17. w = u
  <2>1. /\ u.rooms = w.rooms /\ u.freedRoomIds = w.freedRoomIds
        /\ u.nextRoomId = w.nextRoomId
    BY <1>9, <1>10, <1>15 DEF OnlyObject
  <2>2. u.room = w.room /\ u.seat = w.seat
    BY <1>11, <1>15 DEF OnlyObject
  <2> QED BY <1>8, <1>15, <1>16, <2>1, <2>2, AppEqual
<1>18. ASSUME Z = {} PROVE v = gone
  <2>1. left = most
    <3>1. Elems(most) \subseteq Clients
      BY <1>4 DEF Elems
    <3>2. Clients \ {} = Clients
      OBVIOUS
    <3> QED BY <1>4, <1>5, <1>18, <3>1, <3>2, KeepAll DEF Left
  <2>2. g = master
    BY <1>18 DEF Heir
  <2>3. p = o
    BY <1>6, <2>1, <2>2 DEF RoomObject
  <2>4. v.object = gone.object
    BY <1>7, <1>12, <2>3
  <2>5. v.room = gone.room /\ v.seat = gone.seat
    <3>1. \A d \in Clients : d \notin Z
      BY <1>18
    <3>2. /\ gone.room = [d \in Clients |-> gone.room[d]]
          /\ gone.seat = [d \in Clients |-> gone.seat[d]]
      BY <1>2 DEF AppState
    <3> QED BY <1>9, <3>1, <3>2
  <2> QED BY <1>2, <1>8, <1>9, <2>4, <2>5, AppEqual
<1> QED BY <1>8, <1>12, <1>13, <1>17, <1>18

\* One exit, if the exits inside it do as ExitOf says.
LEMMA MemberExits ==
  ASSUME NEW s, Coherent(s), NEW r \in Rooms, NEW c \in Clients, s.room[c] = r,
         NEW connected, NEW exit, NEW n \in Nat, n = Len(s.object[r].users),
         Agrees(exit, r, connected, n)
  PROVE  exitMember(exit, s, r, c, connected) = ExitClient(s, r, c, connected)
<1> PICK gone : gone = goneFrom(s, r, c)
  OBVIOUS
<1>3. /\ Coherent(gone)
      /\ Members(gone, r) = Members(s, r) \ {c}
      /\ Len(gone.object[r].users) < n
  <2>1. OneLess(s, gone, r, c)
    BY OneGone
  <2> QED BY <2>1 DEF OneLess
<1> PICK Z : Z = Zombies(s, r, connected) \ {c}
  OBVIOUS
<1> PICK v : v = MoveOut(gone, r, Z)
  OBVIOUS
<1> PICK left : left = Left(s.object[r].users, With(c, Z))
  OBVIOUS
<1> PICK master : master = s.object[r].master
  OBVIOUS
<1> PICK h : h = Heir(master, With(c, Z), left)
  OBVIOUS
<1> PICK w : w = MoveOut(s, r, With(c, Z))
  OBVIOUS
<1> PICK swept : swept = cleanZombies(exit, gone, r, connected)
  OBVIOUS
<1>1. Z \in SUBSET (Others(s, r, c)) /\ s \in AppState
  BY DEF Zombies, Coherent, Typed, Others
<1>2. /\ Coherent(v) /\ v \in AppState /\ Typed(v)
      /\ v.object[r].users = left
      /\ v.object[r].master = Heir(master, Z, left)
      /\ w = SetMaster(v, r, h)
      /\ Z = {} => v = gone
  <2>1. /\ Coherent(v) /\ v \in AppState
        /\ v.object[r].users = left
        /\ v.object[r].master = Heir(master, Z, left)
        /\ w = SetMaster(v, r, h)
        /\ Z = {} => v = gone
    BY <1>1, MovedInTurn
  <2> QED BY <2>1 DEF Coherent
<1>4. Zombies(gone, r, connected) = Z
  BY <1>3 DEF Zombies, Others
<1>5. swept = cleanZombieClients(gone, r, connected)
  BY <1>3, ZombiesInTurn
<1>6. swept = IF Z # {} /\ RemovedBySweep(left, Z) THEN removeRoom(v, r) ELSE v
  <2>1. {} \cup Z = Z
    OBVIOUS
  <2> QED BY <1>2, <1>4, <1>5, <2>1 DEF cleanZombieClients, Sweep
<1>7. swept.object = v.object
  BY <1>2, <1>6, RemoveRoomFields
<1>8. ExitClient(s, r, c, connected) =
        IF RemovedBySweep(w.object[r].users, Z) THEN removeRoom(w, r) ELSE w
  BY DEF ExitClient, Sweep, With
<1>9. left \in Seq(Clients) /\ master \in Clients \cup {NoClient}
      /\ Elems(left) \subseteq Clients \ {c}
  <2>1. /\ s.object[r].users \in Seq(Clients)
        /\ s.object[r].master \in Clients \cup {NoClient}
    BY <1>1 DEF AppState, RoomObject
  <2> QED BY <2>1, KeepProperties DEF Left, With
<1> PICK o : o = [v.object[r] EXCEPT !.master = h]
  OBVIOUS
<1>15. v.object \in [Rooms -> RoomObject] /\ v.object[r] \in RoomObject
  BY <1>2 DEF AppState
<1>16. w \in AppState /\ OnlyObject(v, w, r, o)
  <2>1. left # <<>> => left[1] \in Clients
    BY <1>9
  <2>2. h \in Clients \cup {NoClient}
    BY <1>9, <2>1 DEF Heir
  <2> QED BY <1>2, <2>2, MasterSet
<1>10. w.object[r].users = left
  <2>1. w.object[r] = o
    BY <1>15, <1>16 DEF OnlyObject
  <2>2. o.users = v.object[r].users
    BY <1>15 DEF RoomObject
  <2> QED BY <1>2, <2>1, <2>2
<1>11. exitMember(exit, s, r, c, connected) =
         IF left = <<>> THEN removeRoom(swept, r)
         ELSE SetMaster(swept, r, IF Heir(master, Z, left) = c THEN left[1]
                                  ELSE Heir(master, Z, left))
  <2>1. swept.object[r].users = left /\ swept.object[r].master = Heir(master, Z, left)
    BY <1>2, <1>7
  <2> QED BY <2>1 DEF exitMember, SetMaster
<1>12. removeRoom(removeRoom(v, r), r) = removeRoom(v, r)
  BY <1>2, RemovedOnce
<1>13. CASE left = <<>>
  <2>1. RemovedBySweep(left, Z)
    BY <1>13 DEF RemovedBySweep
  <2>2. exitMember(exit, s, r, c, connected) = removeRoom(v, r)
    BY <1>6, <1>11, <1>12, <1>13
  <2>3. h = v.object[r].master
    BY <1>2, <1>13 DEF Heir
  <2>4. w = v
    <3>1. o = v.object[r]
      BY <1>15, <2>3 DEF RoomObject
    <3>2. w.object = v.object
      <4>1. w.object = [v.object EXCEPT ![r] = v.object[r]]
        BY <1>16, <3>1 DEF OnlyObject
      <4> QED BY <1>15, <4>1
    <3> QED BY <1>2, <1>16, <3>2, AppEqual DEF OnlyObject
  <2> QED BY <1>8, <1>10, <2>1, <2>2, <2>4
<1>14. CASE left # <<>>
  <2>1. left[1] \in Elems(left) /\ left[1] # c /\ left[1] \in Clients
    <3>1. left[1] \in Elems(left)
      <4>1. 1 \in DOMAIN left
        BY <1>9, <1>14
      <4> QED BY <4>1 DEF Elems
    <3> QED BY <1>9, <3>1
  <2>2. (IF Heir(master, Z, left) = c THEN left[1] ELSE Heir(master, Z, left)) = h
    BY <1>1, <1>14, <2>1 DEF Heir, With, Others
  <2>3. exitMember(exit, s, r, c, connected) = SetMaster(swept, r, h)
    BY <1>11, <1>14, <2>2
  <2>4. h \in Clients \cup {NoClient}
    BY <1>9, <2>1 DEF Heir
  <2>5. SetMaster(removeRoom(v, r), r, h) = removeRoom(w, r)
    BY <1>2, <2>4, RemovedMaster
  <2>6. RemovedBySweep(left, Z) => Z # {}
    BY <1>14 DEF RemovedBySweep
  <2> QED BY <1>2, <1>6, <1>8, <1>10, <2>3, <2>5, <2>6
<1> QED BY <1>13, <1>14

\* One turn of the recursion.
LEMMA CallExits ==
  ASSUME NEW r \in Rooms, NEW connected, NEW exit,
         NEW s \in AppState, NEW c \in Clients, <<s, c>> \in Calls(r),
         NEW n \in Nat, n = Len(s.object[r].users),
         Agrees(exit, r, connected, n)
  PROVE  exitCall(exit, s, r, c, connected) = ExitOf(s, r, c, connected)
<1>1. Coherent(s) /\ s.room[c] \in {r, NoRoom} /\ r # NoRoom
  BY SentinelsAssumption DEF Calls
<1>2. CASE s.room[c] = NoRoom
  BY <1>2 DEF exitCall, ExitOf
<1>3. CASE s.room[c] = r
  <2>1. exitMember(exit, s, r, c, connected) = ExitClient(s, r, c, connected)
    BY <1>1, <1>3, MemberExits
  <2> QED BY <1>1, <1>3, <2>1 DEF exitCall, ExitOf
<1> QED BY <1>1, <1>2, <1>3

\* A function that solves the equation of the recursion.
Solves(exit, r, connected) ==
  exit = [call \in Calls(r) |-> exitCall(exit, call[1], r, call[2], connected)]

LEMMA CallOf ==
  ASSUME NEW r \in Rooms, NEW call \in Calls(r)
  PROVE  /\ call = <<call[1], call[2]>>
         /\ call[1] \in AppState /\ call[2] \in Clients /\ Coherent(call[1])
         /\ call[1].room[call[2]] \in {r, NoRoom}
         /\ Len(call[1].object[r].users) \in Nat
<1>1. call \in AppState \X Clients
  BY DEF Calls
<1>2. /\ call = <<call[1], call[2]>>
      /\ call[1] \in AppState /\ call[2] \in Clients
  BY <1>1
<1>3. call[1].object[r].users \in Seq(Clients)
  BY <1>2 DEF AppState, RoomObject
<1> QED BY <1>2, <1>3 DEF Calls

\* The closed form is a solution,
LEMMA ClosedSolves ==
  ASSUME NEW r \in Rooms, NEW connected,
         NEW exit, exit = [call \in Calls(r) |-> ExitOf(call[1], r, call[2], connected)]
  PROVE  Solves(exit, r, connected)
<1>1. ASSUME NEW n \in Nat PROVE Agrees(exit, r, connected, n)
  <2> SUFFICES ASSUME NEW s \in AppState, NEW c \in Clients, Coherent(s),
                      s.room[c] \in {NoRoom, r}
               PROVE  exit[<<s, c>>] = ExitOf(s, r, c, connected)
    BY DEF Agrees
  <2>1. <<s, c>> \in Calls(r)
    BY DEF Calls
  <2> QED BY <2>1
<1>2. ASSUME NEW call \in Calls(r)
      PROVE  exit[call] = exitCall(exit, call[1], r, call[2], connected)
  <2>1. exit[call] = ExitOf(call[1], r, call[2], connected)
    OBVIOUS
  <2> PICK s \in AppState, c \in Clients : call = <<s, c>>
    BY CallOf
  <2> PICK n \in Nat : n = Len(s.object[r].users)
    BY CallOf
  <2>2. exitCall(exit, s, r, c, connected) = ExitOf(s, r, c, connected)
    BY <1>1, CallExits
  <2> QED BY <2>1, <2>2
<1>3. exit = [call \in Calls(r) |-> exit[call]]
  OBVIOUS
<1> QED BY <1>2, <1>3 DEF Solves

\* and the only one: a difference would show first in a room of so many members,
\* but the exits inside, from smaller rooms, would all be as they should.
LEMMA OneSolution ==
  ASSUME NEW r \in Rooms, NEW connected, NEW exit, Solves(exit, r, connected),
         NEW call \in Calls(r)
  PROVE  exit[call] = ExitOf(call[1], r, call[2], connected)
<1> DEFINE wrong(d) == exit[d] # ExitOf(d[1], r, d[2], connected)
           sizes == {k \in Nat : \E d \in Calls(r) :
                       wrong(d) /\ k = Len(d[1].object[r].users)}
<1>1. \A d \in Calls(r) : exit[d] = exitCall(exit, d[1], r, d[2], connected)
  BY DEF Solves
<1> SUFFICES ASSUME wrong(call) PROVE FALSE
  OBVIOUS
<1>2. sizes # {} /\ sizes \in SUBSET Nat
  BY CallOf
<1> PICK n : n = Least(sizes)
  OBVIOUS
<1>3. n \in sizes /\ \A k \in sizes : n <= k
  <2> HIDE DEF sizes
  <2> QED BY <1>2, LeastProperties
<1>4. PICK d \in Calls(r) : wrong(d) /\ n = Len(d[1].object[r].users)
  BY <1>3
<1>5. Agrees(exit, r, connected, n)
  <2> SUFFICES ASSUME NEW s \in AppState, NEW c \in Clients, Coherent(s),
                      s.room[c] = NoRoom \/ (s.room[c] = r /\ Len(s.object[r].users) < n)
               PROVE  exit[<<s, c>>] = ExitOf(s, r, c, connected)
    BY DEF Agrees
  <2>1. <<s, c>> \in Calls(r)
    BY DEF Calls
  <2>2. CASE s.room[c] = NoRoom
    <3>1. exit[<<s, c>>] = exitCall(exit, s, r, c, connected)
      BY <1>1, <2>1
    <3> QED BY <2>2, <3>1 DEF exitCall, ExitOf
  <2>3. CASE Len(s.object[r].users) < n
    <3>1. Len(s.object[r].users) \in Nat /\ n \in Nat
      BY <1>3, <2>1, CallOf
    <3>2. Len(s.object[r].users) \notin sizes
      <4> HIDE DEF sizes
      <4> QED BY <1>3, <2>3, <3>1
    <3>3. ~wrong(<<s, c>>)
      BY <2>1, <3>1, <3>2
    <3> QED BY <3>3
  <2> QED BY <2>2, <2>3
<1>6. PICK s \in AppState, c \in Clients : d = <<s, c>>
  BY CallOf
<1>7. exitCall(exit, s, r, c, connected) = ExitOf(s, r, c, connected)
  <2>1. n \in Nat
    BY <1>3
  <2>2. n = Len(s.object[r].users)
    BY <1>4, <1>6
  <2> HIDE DEF sizes, wrong
  <2> QED BY <1>5, <1>6, <2>1, <2>2, CallExits
<1>8. exit[d] = ExitOf(s, r, c, connected)
  BY <1>1, <1>6, <1>7
<1> QED BY <1>4, <1>6, <1>8

\* So the recursion does what the closed forms say, however many members and
\* zombies there are.
LEMMA RecursionIs ==
  ASSUME NEW r \in Rooms, NEW connected, NEW s, Coherent(s),
         NEW exit, exit = exitClient(r, connected)
  PROVE  /\ \A n \in Nat : Agrees(exit, r, connected, n)
         /\ \A c \in Clients : s.room[c] = r =>
               exit[<<s, c>>] = ExitClient(s, r, c, connected)
         /\ cleanZombies(exit, s, r, connected) = cleanZombieClients(s, r, connected)
<1>1. exit = CHOOSE e : Solves(e, r, connected)
  BY DEF exitClient, Solves
<1>2. \E e : Solves(e, r, connected)
  BY ClosedSolves
<1>3. Solves(exit, r, connected)
  BY <1>1, <1>2
<1>4. ASSUME NEW t \in AppState, NEW c \in Clients, Coherent(t), t.room[c] \in {NoRoom, r}
      PROVE  exit[<<t, c>>] = ExitOf(t, r, c, connected)
  <2>1. <<t, c>> \in Calls(r)
    BY <1>4 DEF Calls
  <2> QED BY <1>3, <2>1, OneSolution
<1>5. \A n \in Nat : Agrees(exit, r, connected, n)
  BY <1>4 DEF Agrees
<1>6. s \in AppState /\ Len(s.object[r].users) \in Nat
  <2>1. s \in AppState
    BY DEF Coherent, Typed
  <2>2. s.object[r].users \in Seq(Clients)
    BY <2>1 DEF AppState, RoomObject
  <2> QED BY <2>1, <2>2
<1>7. \A c \in Clients : s.room[c] = r =>
         exit[<<s, c>>] = ExitClient(s, r, c, connected)
  BY <1>4, <1>6, SentinelsAssumption DEF ExitOf
<1>8. cleanZombies(exit, s, r, connected) = cleanZombieClients(s, r, connected)
  <2> PICK n \in Nat : n = Len(s.object[r].users) + 1
    BY <1>6
  <2> QED BY <1>5, <1>6, ZombiesInTurn
<1> QED BY <1>5, <1>7, <1>8

\* ExitClient called for any member, by way of the recursion, and exitRoom, which
\* removes the room of nobody once more.
LEMMA ExitsAgree ==
  ASSUME NEW s, Coherent(s), NEW c \in Clients, NEW connected, s.room[c] # NoRoom,
         NEW r, r = s.room[c]
  PROVE  /\ r \in Rooms
         /\ exitClient(r, connected)[<<s, c>>] = ExitClient(s, r, c, connected)
         /\ cleanZombies(exitClient(r, connected), s, r, connected)
              = cleanZombieClients(s, r, connected)
         /\ exitRoom(s, c, connected) = ExitClient(s, r, c, connected)
<1>1. s \in AppState /\ r \in Rooms /\ MembershipIn(s)
  BY DEF Coherent, Typed, AppState
<1> PICK exit : exit = exitClient(r, connected)
  OBVIOUS
<1> PICK t : t = exit[<<s, c>>]
  OBVIOUS
<1>2. /\ t = ExitClient(s, r, c, connected)
      /\ cleanZombies(exit, s, r, connected) = cleanZombieClients(s, r, connected)
  BY <1>1, RecursionIs
<1>3. exitRoom(s, c, connected) = IF t.object[r].users = <<>> THEN removeRoom(t, r) ELSE t
  BY DEF exitRoom
<1>4. ASSUME t.object[r].users = <<>> PROVE removeRoom(t, r) = t
  <2> PICK zombies : zombies = Zombies(s, r, connected) \ {c}
    OBVIOUS
  <2> PICK w : w = MoveOut(s, r, {c} \cup zombies)
    OBVIOUS
  <2>1. t = IF RemovedBySweep(w.object[r].users, zombies) THEN removeRoom(w, r) ELSE w
    BY <1>2 DEF ExitClient, Sweep
  <2>2. Typed(w)
    <3>1. {c} \cup zombies \in SUBSET Members(s, r)
      BY <1>1 DEF MembershipIn, Zombies
    <3> QED BY <1>1, <3>1, MoveOutKeeps DEF Coherent
  <2>3. t = removeRoom(w, r)
    <3>1. CASE t = w
      BY <1>4, <2>1, <3>1 DEF RemovedBySweep
    <3> QED BY <2>1, <3>1
  <2> QED BY <1>1, <2>2, <2>3, RemovedOnce
<1> QED BY <1>1, <1>2, <1>3, <1>4

\* An exit of any member, whoever asks for it and however many members and
\* zombies the room has, ends as Sweep says: the recursion of ExitClient and
\* cleanZombieClients has one result, the closed form, whatever the order is in
\* which it visits them.
THEOREM ExitsAreSweeps == Spec => []ExitIsSweep
<1>1. IInv => ExitIsSweep
  <2> SUFFICES ASSUME IInv, NEW c \in Clients, InRoom(c),
                      NEW r, r = app.room[c]
               PROVE  /\ exitClient(r, Connected)[<<app, c>>]
                           = ExitClient(app, r, c, Connected)
                      /\ exitRoom(app, c, Connected) = ExitClient(app, r, c, Connected)
                      /\ cleanZombies(exitClient(r, Connected), app, r, Connected)
                           = cleanZombieClients(app, r, Connected)
    BY DEF ExitIsSweep
  <2>1. Coherent(app) /\ app.room[c] # NoRoom
    BY DEF IInv, AppInv, InRoom
  <2> QED BY <2>1, ExitsAgree
<1> QED BY <1>1, Invariance, PTL

\* TryExitRoom of a room of offline clients: each of them exits, the first with
\* all the others.
LEMMA AllExit ==
  ASSUME NEW s, Coherent(s), NEW c \in Clients, NEW connected, s.room[c] # NoRoom,
         NEW r, r = s.room[c], Members(s, r) \cap connected = {}
  PROVE  tryExitRoom(s, c, connected) = ExitClient(s, r, c, connected)
<1>1. s \in AppState /\ r \in Rooms /\ MembershipIn(s)
  BY DEF Coherent, Typed, AppState
<1> PICK users \in Seq(Clients) : users = s.object[r].users
  BY <1>1 DEF AppState, RoomObject
<1> PICK all : all = Members(s, r)
  OBVIOUS
<1>2. Elems(users) = all /\ c \in all /\ all \subseteq Clients
  BY <1>1, MembersType DEF MembershipIn, Members
<1>3. Keep(users, Clients \ connected) = users
  <2>1. Elems(users) \subseteq Clients \ connected
    BY <1>2
  <2> QED BY <2>1, KeepAll
<1> PICK exit : exit = exitClient(r, connected)
  OBVIOUS
<1> PICK w : w = MoveOut(s, r, all)
  OBVIOUS
<1>4. Looped(exit, s, users) = cleanZombieClients(s, r, connected)
  <2>1. cleanZombies(exit, s, r, connected) = cleanZombieClients(s, r, connected)
    BY <1>1, RecursionIs
  <2> QED BY <1>3, <2>1 DEF cleanZombies
<1>5. Zombies(s, r, connected) = all
  BY DEF Zombies
<1>6. Typed(w) /\ w.object[r].users = <<>>
  <2>1. Coherent(w) /\ Members(w, r) = Members(s, r) \ all
    BY <1>1, MoveOutKeeps
  <2> PICK left \in Seq(Clients) : left = w.object[r].users
    BY <1>1, <2>1 DEF Coherent, Typed, AppState, RoomObject
  <2>2. Elems(left) = {}
    BY <2>1 DEF Members
  <2>3. left = <<>>
    <3>1. \A i \in DOMAIN left : left[i] \in Elems(left)
      BY DEF Elems
    <3>2. Len(left) # 0 => 1 \in DOMAIN left
      OBVIOUS
    <3> QED BY <2>2, <3>1, <3>2
  <2> QED BY <2>1, <2>3 DEF Coherent
<1>7. Looped(exit, s, users) = removeRoom(w, r)
  <2>1. {} \cup all = all /\ all # {}
    BY <1>2
  <2> QED BY <1>4, <1>5, <1>6, <2>1 DEF cleanZombieClients, Sweep, RemovedBySweep
<1>8. ExitClient(s, r, c, connected) = removeRoom(w, r)
  <2>1. {c} \cup (all \ {c}) = all
    BY <1>2
  <2> QED BY <1>5, <1>6, <2>1 DEF ExitClient, Sweep, RemovedBySweep
<1>9. (Elems(users) \cap connected) \ {c} = {}
  BY <1>2
<1>10. tryExitRoom(s, c, connected) = removeRoom(Looped(exit, s, users), r)
  BY <1>9 DEF tryExitRoom
<1> QED BY <1>1, <1>6, <1>7, <1>8, <1>10, RemovedOnce

-----------------------------------------------------------------------------
\* No garbage: a room that is not in the list and has no member is not in use.
\* It is what every handler leaves, so that Collect has nothing to do.
CollectedIn(s) ==
  \A r \in Rooms : r \in s.rooms \/ s.object[r].users # <<>> \/ s.object[r] = NilRoom

LEMMA CollectDone ==
  ASSUME NEW s, Typed(s), CollectedIn(s)
  PROVE  Collect(s) = s
<1>1. s.object = [r \in Rooms |-> IF r \in s.rooms \/ s.object[r].users # <<>>
                                  THEN s.object[r] ELSE NilRoom]
  BY DEF Typed, AppState, CollectedIn
<1> PICK t : t = Collect(s)
  OBVIOUS
<1>2. t \in AppState /\ s \in AppState
  BY CollectFields DEF Typed
<1>3. /\ t.rooms = s.rooms /\ t.freedRoomIds = s.freedRoomIds
      /\ t.nextRoomId = s.nextRoomId
      /\ t.room = s.room /\ t.seat = s.seat
      /\ t.object = s.object
  BY <1>1, CollectFields
<1> QED BY <1>2, <1>3, AppEqual

LEMMA CollectCollects ==
  ASSUME NEW s, AppInv(s)
  PROVE  CollectedIn(Collect(s))
<1> PICK t : t = Collect(s)
  OBVIOUS
<1>1. t.rooms = s.rooms /\ \A r \in Rooms :
              \/ t.object[r] = s.object[r]
              \/ /\ r \notin s.rooms /\ s.object[r].users = <<>>
                 /\ t.object[r] = NilRoom
  BY CollectEffect
<1>2. Typed(s)
  BY DEF AppInv, Coherent
<1>3. t.object = [r \in Rooms |-> IF r \in s.rooms \/ s.object[r].users # <<>>
                                  THEN s.object[r] ELSE NilRoom]
  BY <1>2, CollectFields
<1> QED BY <1>1, <1>3 DEF CollectedIn

LEMMA JoinCollected ==
  ASSUME NEW s, Coherent(s), CollectedIn(s), NEW r \in Rooms, NEW c \in Clients,
         s.room[c] = NoRoom
  PROVE  CollectedIn(JoinClient(s, r, c))
<1> PICK t : t = JoinClient(s, r, c)
  OBVIOUS
<1>1. Joined(s, t, r, c)
  BY JoinEffect
<1>2. s.object[r].users \in Seq(Clients)
  BY DEF Coherent, Typed, AppState, RoomObject
<1>3. t.object[r].users # <<>>
  BY <1>1, <1>2 DEF Joined
<1>4. t.rooms = s.rooms /\ \A q \in Rooms \ {r} : t.object[q] = s.object[q]
  BY <1>1 DEF Joined
<1> QED BY <1>3, <1>4 DEF CollectedIn

LEMMA CreatedCollected ==
  ASSUME NEW s, CollectedIn(s), NEW t, NEW r \in Rooms, NEW users, NEW max,
         Created(s, t, r, users, max)
  PROVE  CollectedIn(t)
  BY DEF Created, CollectedIn

LEMMA OutOfRoomCollected ==
  ASSUME IInv, CollectedIn(app), NEW c \in Clients
  PROVE  CollectedIn(OutOfRoom(c))
<1>1. CASE InRoom(c)
  <2>1. app.room[c] \in Rooms /\ c \in Members(app, app.room[c])
    BY <1>1, RoomOfMember DEF IInv
  <2> QED BY <1>1, <2>1, ExitClientInv, CollectCollects DEF OutOfRoom, IInv
<1>2. CASE ~InRoom(c)
  BY <1>2 DEF OutOfRoom
<1> QED BY <1>1, <1>2

LEMMA CollectedStep ==
  ASSUME IInv, CollectedIn(app), [Next]_vars
  PROVE  CollectedIn(app')
<1>1. /\ ConnsOK /\ AppInv(app) /\ app \in AppState /\ Coherent(app)
      /\ app.object \in [Rooms -> RoomObject] /\ app.rooms \subseteq Rooms
  BY DEF IInv, AppInv, Coherent, Typed, AppState
<1>2. CASE UNCHANGED vars
  BY <1>2 DEF vars, CollectedIn
<1>3. ASSUME NEW c \in Clients, Accept(c) \/ Disconnect(c) \/ Dropped(c) \/ GoOffline(c)
      PROVE  CollectedIn(app')
  BY <1>3 DEF Accept, Disconnect, Dropped, GoOffline, CollectedIn
<1>4. ASSUME NEW c \in Clients, NEW u \in Users, Login(c, u)
      PROVE  CollectedIn(app')
  <2>1. account[u] \in Clients \cup {NoClient}
    BY <1>1 DEF ConnsOK
  <2>2. AppInv(TakeOver(app, account[u], c, Connected))
    BY <1>1, <2>1, TakeOverInv
  <2> QED BY <1>4, <2>2, CollectCollects DEF Login
<1>5. ASSUME NEW c \in Clients, Exit(c)
      PROVE  CollectedIn(app')
  BY <1>1, <1>5, ExitClientInv, CollectCollects DEF Exit
<1>6. ASSUME NEW c \in Clients, OnUserOut(c)
      PROVE  CollectedIn(app')
  <2>1. app' = app \/ Exit(c)
    BY <1>1, <1>6, OutWays
  <2> QED BY <1>5, <2>1 DEF CollectedIn
<1>7. ASSUME NEW c \in Clients, RoomHandler(c)
      PROVE  CollectedIn(app')
  <2>1. CASE Reset(c)
    <3>1. PICK r \in Rooms, o \in RoomObject :
             /\ o.users = app.object[r].users /\ app.object[r].users # <<>>
             /\ app' = [app EXCEPT !.object[r] = o]
      BY <2>1 DEF Reset, SameMembers
    <3>2. /\ app'.rooms = app.rooms /\ app'.object[r] = o
          /\ \A q \in Rooms \ {r} : app'.object[q] = app.object[q]
      BY <1>1, <3>1 DEF AppState
    <3> QED BY <3>1, <3>2 DEF CollectedIn
  <2>2. CASE Reseat(c)
    <3>1. app'.rooms = app.rooms /\ app'.object = app.object
      BY <1>1, <2>2 DEF Reseat, AppState
    <3> QED BY <3>1 DEF CollectedIn
  <2>3. CASE SweepOut(c)
    <3>1. PICK r \in Rooms, o \in RoomObject :
            /\ SameMembers(o, app.object[r])
            /\ app' = Collect(cleanZombieClients([app EXCEPT !.object[r] = o], r, Connected))
      BY <2>3 DEF SweepOut
    <3>2. AppInv([app EXCEPT !.object[r] = o])
      BY <1>1, <3>1, SettingsInv DEF SameMembers
    <3> QED BY <3>1, <3>2, CleanZombieClientsInv, CollectCollects
  <2> PICK s : s = OutOfRoom(c)
    OBVIOUS
  <2>4. AppInv(s) /\ s.room[c] = NoRoom /\ CollectedIn(s)
    BY <1>1, OutOfRoomInv, OutOfRoomCollected
  <2>5. CASE Join(c)
    <3>1. PICK r \in s.rooms : app' = JoinClient(s, r, c)
      BY <2>5 DEF Join
    <3>2. r \in Rooms /\ Coherent(s)
      BY <2>4, <3>1 DEF AppInv, Coherent, Typed, AppState
    <3> QED BY <2>4, <3>1, <3>2, JoinCollected
  <2>6. CASE Create(c)
    <3>1. PICK r \in Rooms, asked \in MatchNumbers \cup {0} :
                /\ app.object[r] = NilRoom /\ s.object[r] = NilRoom
                 /\ app' = CreateRoom(s, r, c, Capacity(asked))
      BY <2>6 DEF Create
    <3>2. Capacity(asked) \in Int
      BY CountsAssumption, CapacityType
    <3>3. Created(s, app', r, <<c>>, Capacity(asked))
      BY <2>4, <3>1, <3>2, CreateEffect
    <3> QED BY <2>4, <3>3, CreatedCollected
  <2>7. CASE HandleMatched(c)
    <3>1. PICK number \in MatchNumbers, r \in Rooms, joiners \in Seq(Clients) :
                /\ app.object[r] = NilRoom
                /\ joiners # <<>> /\ NoDuplicates(joiners)
                /\ \A d \in Elems(joiners) : d \in Clients /\ Matchable(d)
                /\ app' = CreateMatched(app, r, joiners, number)
      BY <2>7, MatchedGroup
    <3>2. number \in Int /\ \A d \in Elems(joiners) : app.room[d] = NoRoom
      BY <3>1, CountsAssumption DEF Matchable, InRoom
    <3>3. Created(app, app', r, joiners, Capacity(number))
      BY <1>1, <3>1, <3>2, MatchedEffect
    <3> QED BY <3>3, CreatedCollected
  <2> QED BY <1>5, <1>7, <2>1, <2>2, <2>3, <2>5, <2>6, <2>7, HandlerWays
<1> QED BY <1>2, <1>3, <1>4, <1>6, <1>7 DEF Next, ConnectionEvent, UserOut

LEMMA UserOutStep ==
  ASSUME IInv, CollectedIn(app), [Next]_vars, NEW c \in Clients,
         phase[c] = "offline", phase'[c] = "out"
  PROVE  app' = Collect(userOut(app, c, Connected))
<1>1. /\ Coherent(app) /\ Typed(app) /\ app \in AppState
      /\ phase \in [Clients -> Phases]
  BY DEF IInv, ConnsOK, AppInv, Coherent, Typed
<1>2. OnUserOut(c)
  <2>1. phase' # phase /\ "offline" # "out"
    BY DEF Phases
  <2>2. PICK d \in Clients : ConnectionEvent(d) \/ UserOut(d) \/ RoomHandler(d)
    BY <2>1 DEF Next, vars, conns
  <2>3. ~RoomHandler(d)
    BY <2>1 DEF RoomHandler, JoinHandler, MemberHandler, HandleCreateRoom,
                HandleJoinRoom, HandleExitRoom, HandleStartFrameSync,
                HandleStopFrameSync, HandleSwitchSeat, HandleLockRoom,
                HandleUnlockRoom, HandleUpdateRoomOption, HandleKickOut,
                HandleMatchRoom, HandleMatched, Handles, conns
  <2>4. ~ConnectionEvent(d)
    BY <1>1 DEF ConnectionEvent, Accept, Disconnect, Dropped, Login, ServerCloses
  <2>5. OnUserOut(d)
    BY <1>1, <2>2, <2>3, <2>4 DEF UserOut, GoOffline
  <2>6. d = c
    BY <1>1, <2>5 DEF OnUserOut
  <2> QED BY <2>5, <2>6
<1> PICK online : online = Connected
  OBVIOUS
<1> PICK r : r = app.room[c]
  OBVIOUS
<1>3. app' = IF r = NoRoom THEN app
             ELSE IF Members(app, r) \cap online = {} \/ ~app.object[r].lock
             THEN Collect(ExitClient(app, r, c, online))
             ELSE app
  BY <1>2 DEF OnUserOut
<1>4. Collect(app) = app
  BY <1>1, CollectDone
<1>5. userOut(app, c, online) =
        IF r = NoRoom THEN app
        ELSE IF Members(app, r) \cap online = {} \/ app.object[r].lock
        THEN tryExitRoom(app, c, online)
        ELSE exitRoom(app, c, online)
  BY DEF userOut
<1>6. CASE r = NoRoom
  BY <1>3, <1>4, <1>5, <1>6
<1>7. CASE r # NoRoom /\ Members(app, r) \cap online = {}
  <2>1. tryExitRoom(app, c, online) = ExitClient(app, r, c, online)
    BY <1>1, <1>7, AllExit
  <2> QED BY <1>3, <1>5, <1>7, <2>1
<1>8. CASE r # NoRoom /\ Members(app, r) \cap online # {} /\ app.object[r].lock
  <2>1. (Elems(app.object[r].users) \cap online) \ {c} # {}
    BY <1>2, <1>8 DEF Members, Connected, OnUserOut
  <2>2. tryExitRoom(app, c, online) = app
    BY <2>1 DEF tryExitRoom
  <2> QED BY <1>3, <1>4, <1>5, <1>8, <2>2
<1>9. CASE r # NoRoom /\ Members(app, r) \cap online # {} /\ ~app.object[r].lock
  <2>1. exitRoom(app, c, online) = ExitClient(app, r, c, online)
    BY <1>1, <1>9, ExitsAgree
  <2> QED BY <1>3, <1>5, <1>9, <2>1
<1> QED BY <1>6, <1>7, <1>8, <1>9

\* OnUserOut takes one of three ways out of the room, with checks of their own;
\* they come to the one that Rooms!OnUserOut has.
THEOREM UserOutsAreExits == Spec => UserOutIsExit
<1>1. Init => CollectedIn(app)
  BY DEF Init, CollectedIn
<1>2. IInv /\ CollectedIn(app) /\ [Next]_vars => CollectedIn(app)'
  BY CollectedStep
<1>3. IInv /\ CollectedIn(app) /\ [Next]_vars =>
        [\A c \in Clients : phase[c] = "offline" /\ phase'[c] = "out" =>
            app' = Collect(userOut(app, c, Connected))]_vars
  BY UserOutStep
<1> QED BY <1>1, <1>2, <1>3, Invariance, PTL DEF Spec, UserOutIsExit
=============================================================================
