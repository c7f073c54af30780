------------------------------- MODULE Rooms -------------------------------
(***************************************************************************)
(* The rooms of one App (src/net/server.go, room.go) and the connections,  *)
(* logins and message handlers that change them (client.go, users.go,      *)
(* client_op_message.go).                                                  *)
(*                                                                         *)
(* One action is one whole message handler, or one whole OnUserOut.  What  *)
(* happens between the steps of two handlers is the subject of other       *)
(* modules; here the interleavings are those of whole handlers with the    *)
(* events of the connections: a connection is closed by one goroutine,     *)
(* its reader may still hand over the frames it has buffered, and its      *)
(* OnUserOut runs in a third goroutine some time later, in two steps: the  *)
(* connection is marked as offline, and it leaves its room.                *)
(*                                                                         *)
(* The state of an App is a record, and the methods of App and Room are    *)
(* operators from such a record to the next one, so that a handler is the  *)
(* composition of the methods it calls.                                    *)
(***************************************************************************)
EXTENDS Lists

CONSTANTS
  Clients,           \* connections: *Client objects, each used once
  Users,             \* openids; the uid of an account is its openid here
  Rooms,             \* *Room objects that can be reachable at a time (bound)
  NoClient, NoUser, NoRoom,   \* nil and uid 0
  DefaultMaxCounts,  \* capacity of a room created without one (10 in the code)
  RoomLimit,         \* highest capacity of a new room (100 in the code)
  AskedMaxCounts,    \* capacities asked for in UpdateRoomOption
  MatchNumbers,      \* numbers of players asked for in MatchRoom and MatchUser
  LateReaders        \* connections that still have frames buffered when the
                     \* server closes them

ASSUME SentinelsAssumption ==
  NoClient \notin Clients /\ NoUser \notin Users /\ NoRoom \notin Rooms
ASSUME CountsAssumption ==
  /\ DefaultMaxCounts \in Nat \ {0} /\ RoomLimit \in Nat \ {0}
  /\ AskedMaxCounts \subseteq Int /\ MatchNumbers \subseteq Int
ASSUME LateReadersAssumption == LateReaders \subseteq Clients

VARIABLES
  app,      \* the App: rooms, freedRoomIds, nextRoomId; the fields of every
            \* Room (object) and, of every Client, its room and its seat
  phase,    \* life of a connection: "none", "open", "closed", "offline" in its
            \* OnUserOut, then "out" when that has run
  reading,  \* connections whose readMessage still calls OnMessage
  uid,      \* Client.uid
  account   \* RegisterUserData.client of every registered openid

conns == <<phase, reading, uid, account>>
vars == <<app, conns>>

Phases == {"none", "open", "closed", "offline", "out"}

\* Client.Connected: true from CreateClient until OnUserOut.
Connected == {c \in Clients : phase[c] \notin {"offline", "out"}}

\* A *Room that nothing refers to.
NilRoom == [id |-> 0, master |-> NoClient, users |-> <<>>, lock |-> FALSE,
            frameSync |-> FALSE, maxCounts |-> 0]

Members(s, r) == Elems(s.object[r].users)

-----------------------------------------------------------------------------
\* Slips (operators named Slip...) are mistakes the code could make at that
\* place; no specification uses them.

SlipUnpopped(stack) == stack
Popped(stack) == SubSeq(stack, 1, Len(stack) - 1)

\* Room ids: the stack of freed ids first, then the counter.
NextRoomId(s) ==
  IF s.freedRoomIds # <<>> THEN s.freedRoomIds[Len(s.freedRoomIds)]
  ELSE s.nextRoomId + 1

allocateRoomId(s) ==
  IF s.freedRoomIds # <<>> THEN [s EXCEPT !.freedRoomIds = Popped(@)]
  ELSE [s EXCEPT !.nextRoomId = @ + 1]

SlipClearedFirst(s, r) ==
  [s EXCEPT !.rooms = @ \ {r}, !.freedRoomIds = Append(@, NilRoom.id)]

\* The flag `removed` is true exactly when the room is not in the list.
removeRoom(s, r) ==
  IF r \notin s.rooms THEN s
  ELSE [s EXCEPT !.rooms = @ \ {r},
                 !.freedRoomIds = Append(@, s.object[r].id)]

\* A room outside the list that has no member left is garbage.
Collect(s) ==
  [s EXCEPT !.object =
     [r \in Rooms |-> IF r \in s.rooms \/ s.object[r].users # <<>>
                      THEN s.object[r] ELSE NilRoom]]

-----------------------------------------------------------------------------
\* Seats and membership.

SlipSeatsOfAll(s, r, c) == 1..s.object[r].maxCounts
SlipLastSeatSpared(s, r, c) ==
  1..(s.object[r].maxCounts - 1) \ {s.seat[d] : d \in Members(s, r) \ {c}}
FreeSeats(s, r, c) ==
  1..s.object[r].maxCounts \ {s.seat[d] : d \in Members(s, r) \ {c}}

assignSeat(s, r, c) ==
  LET free == FreeSeats(s, r, c)
  IN  IF free = {} THEN s ELSE [s EXCEPT !.seat[c] = Least(free)]

\* No capacity, lock or password is looked at here: that is JoinRoom.
JoinClient(s, r, c) ==
  IF s.room[c] # NoRoom THEN s
  ELSE [assignSeat([s EXCEPT !.object[r].users = Append(@, c)], r, c)
          EXCEPT !.room[c] = r]

SlipYoungest(master, gone, left) ==
  IF master \in gone /\ left # <<>> THEN left[Len(left)] ELSE master
SlipStaleMaster(master, gone, left) == master
\* The longest standing of the members left inherits the room.
Heir(master, gone, left) ==
  IF master \in gone /\ left # <<>> THEN left[1] ELSE master

SlipStillListed(users, gone) == users
Left(users, gone) == Keep(users, Clients \ gone)

MoveOut(s, r, gone) ==
  LET left == Left(s.object[r].users, gone)
  IN  [s EXCEPT !.object[r].users = left,
                !.object[r].master = Heir(@, gone, left),
                !.room = [c \in Clients |-> IF c \in gone THEN NoRoom ELSE @[c]],
                !.seat = [c \in Clients |-> IF c \in gone THEN 0 ELSE @[c]]]

SlipNeverEmpty(left, zombies) == \E y, z \in zombies : y # z
SlipAnyZombie(left, zombies) == left = <<>> \/ zombies # {}
(***************************************************************************)
(* ExitClient and cleanZombieClients call each other: every exit sweeps    *)
(* the offline members that are left, and every swept member is an exit.   *)
(* The inner sweeps take away the zombies that the outermost one still     *)
(* iterates over; from its second zombie on it calls ExitClient for a      *)
(* client whose room is already nil, and that branch removes the room,     *)
(* whoever is still in it.  (ExitRecursion checks that Sweep is the result *)
(* of the recursion.)                                                      *)
(***************************************************************************)
RemovedBySweep(left, zombies) == left = <<>> \/ \E y, z \in zombies : y # z

\* Members `first` leave, and with them the zombies.
Sweep(s, r, first, zombies) ==
  LET t == MoveOut(s, r, first \cup zombies)
  IN  IF RemovedBySweep(t.object[r].users, zombies) THEN removeRoom(t, r) ELSE t

SlipNoZombies(s, r, connected) == {}
Zombies(s, r, connected) == Members(s, r) \ connected

\* Called for a member only: r = s.room[c].
ExitClient(s, r, c, connected) ==
  Sweep(s, r, {c}, Zombies(s, r, connected) \ {c})

cleanZombieClients(s, r, connected) ==
  LET zombies == Zombies(s, r, connected)
  IN  IF zombies = {} THEN s ELSE Sweep(s, r, {}, zombies)

StopFrameSync(s, r, keepLock, connected) ==
  cleanZombieClients([s EXCEPT !.object[r].frameSync = FALSE,
                               !.object[r].lock = keepLock /\ @],
                     r, connected)

\* The capacity of a new room for which `asked` places are asked; a negative
\* number is taken as it is.
Capacity(asked) ==
  IF asked = 0 THEN DefaultMaxCounts
  ELSE IF asked > RoomLimit THEN RoomLimit ELSE asked

NewRoom(id, c, maxCounts) ==
  [id |-> id, master |-> c, users |-> <<>>, lock |-> FALSE, frameSync |-> FALSE,
   maxCounts |-> maxCounts]

AddRoom(s, r, c, maxCounts) ==
  [allocateRoomId(s) EXCEPT !.rooms = @ \cup {r},
                            !.object[r] = NewRoom(NextRoomId(s), c, maxCounts)]

CreateRoom(s, r, c, maxCounts) == JoinClient(AddRoom(s, r, c, maxCounts), r, c)

(***************************************************************************)
(* mathMatch: a room for the first of a group that is complete, which the  *)
(* others then join one by one.  The group's clients that are in a room    *)
(* already stay there; joiners are the others, in their order.  Each takes *)
(* the lowest free seat, as long as there is one.                          *)
(***************************************************************************)
JoinAll(s, r, joiners) ==
  LET place(c) == CHOOSE i \in DOMAIN joiners : joiners[i] = c
  IN  [s EXCEPT !.object[r].users = joiners,
                !.room = [c \in Clients |-> IF c \in Elems(joiners) THEN r ELSE @[c]],
                !.seat = [c \in Clients |->
                            IF c \in Elems(joiners) /\ place(c) <= s.object[r].maxCounts
                            THEN place(c) ELSE @[c]]]

CreateMatched(s, r, joiners, number) ==
  JoinAll(AddRoom(s, r, joiners[1], Capacity(number)), r, joiners)

SlipLockIgnored(s, r) == Len(s.object[r].users) < s.object[r].maxCounts
\* App.JoinRoom lets a client in.
MayJoin(s, r) ==
  ~s.object[r].lock /\ Len(s.object[r].users) < s.object[r].maxCounts

\* updateRoomData: never fewer places than members.
RaisedCounts(users, asked) == IF Len(users) > asked THEN Len(users) ELSE asked

SlipMovedTwice(s, old, c, connected) ==
  IF old = NoClient \/ s.room[old] = NoRoom THEN s
  ELSE JoinClient(s, s.room[old], c)
(***************************************************************************)
(* A login that finds the account of its openid on another connection      *)
(* takes over the place in the room.  ExitClient may have removed the room *)
(* by then (the old connection was its only member, or two members were    *)
(* offline): JoinClient enters it all the same.                            *)
(***************************************************************************)
TakeOver(s, old, c, connected) ==
  IF old = NoClient \/ s.room[old] = NoRoom THEN s
  ELSE LET r == s.room[old]
       IN  JoinClient(ExitClient(s, r, old, connected), r, c)

-----------------------------------------------------------------------------
\* Connections.

SlipReadsOn(S) ==
  /\ phase' = phase
  /\ reading' = reading \ (S \ LateReaders)
\* WebSocket.Close() of the connections S by someone else than their readers.
ServerCloses(S) ==
  /\ phase' = [c \in Clients |-> IF c \in S /\ phase[c] = "open"
                                 THEN "closed" ELSE phase[c]]
  /\ reading' = reading \ (S \ LateReaders)

\* upgradeToWebsocket: a connection is created, with its two goroutines.
Accept(c) ==
  /\ phase[c] = "none"
  /\ phase' = [phase EXCEPT ![c] = "open"]
  /\ reading' = reading \cup {c}
  /\ UNCHANGED <<app, uid, account>>

\* The peer is gone, or a handler panics: the reader closes the connection.
Disconnect(c) ==
  /\ c \in reading
  /\ phase' = [phase EXCEPT ![c] = IF @ = "open" THEN "closed" ELSE @]
  /\ reading' = reading \ {c}
  /\ UNCHANGED <<app, uid, account>>

\* A failed write or ping, a login without openid, a login timeout.
Dropped(c) ==
  /\ phase[c] = "open"
  /\ ServerCloses({c})
  /\ UNCHANGED <<app, uid, account>>

\* OnUserOut, run by the hub in a goroutine of its own, once for a closed
\* connection.  First Connected is cleared.
GoOffline(c) ==
  /\ phase[c] = "closed"
  /\ phase' = [phase EXCEPT ![c] = "offline"]
  /\ UNCHANGED <<app, reading, uid, account>>

\* The rest of it.  TryExitRoom of an offline client in a room of offline clients
\* makes all of them exit, which is what ExitClient of one of them does.
OnUserOut(c) ==
  /\ phase[c] = "offline"
  /\ phase' = [phase EXCEPT ![c] = "out"]
  /\ LET r == app.room[c]
     IN  app' = IF r = NoRoom THEN app
                ELSE IF Members(app, r) \cap Connected = {} \/ ~app.object[r].lock
                THEN Collect(ExitClient(app, r, c, Connected))
                ELSE app
  /\ UNCHANGED <<reading, uid, account>>

SlipKeepsOld(u) == {}
\* The connection that a login to u logs out.
LoggedOut(u) == {account[u]}

Login(c, u) ==
  /\ c \in reading /\ uid[c] = NoUser
  /\ app' = Collect(TakeOver(app, account[u], c, Connected))
  /\ ServerCloses(LoggedOut(u))
  /\ uid' = [uid EXCEPT ![c] = u]
  /\ account' = [account EXCEPT ![u] = c]

-----------------------------------------------------------------------------
\* Message handlers of a logged in client.  A request that is refused changes
\* nothing.

Handles(c) == c \in reading /\ uid[c] # NoUser /\ UNCHANGED conns

InRoom(c) == app.room[c] # NoRoom

IsMaster(c) == InRoom(c) /\ app.object[app.room[c]].master = c

HandleCreateRoom(c) ==
  /\ Handles(c) /\ ~InRoom(c)
  /\ \E r \in Rooms : /\ app.object[r] = NilRoom
                      /\ app' = CreateRoom(app, r, c, Capacity(0))

HandleJoinRoom(c) ==
  /\ Handles(c) /\ ~InRoom(c)
  /\ \E r \in app.rooms : MayJoin(app, r) /\ app' = JoinClient(app, r, c)

HandleExitRoom(c) ==
  /\ Handles(c) /\ InRoom(c)
  /\ app' = Collect(ExitClient(app, app.room[c], c, Connected))

HandleStartFrameSync(c) ==
  /\ Handles(c) /\ InRoom(c)
  /\ ~app.object[app.room[c]].frameSync
  /\ app' = [app EXCEPT !.object[app.room[c]].frameSync = TRUE,
                        !.object[app.room[c]].lock = TRUE]

\* StopFrameSync, StopFrameSyncWithoutUnlock (keepLock) and ResetRoom.
HandleStopFrameSync(c, keepLock) ==
  /\ Handles(c) /\ InRoom(c)
  /\ app' = Collect(StopFrameSync(app, app.room[c], keepLock, Connected))

HandleSwitchSeat(c) ==
  /\ Handles(c) /\ InRoom(c)
  /\ \E seat \in FreeSeats(app, app.room[c], c) : app' = [app EXCEPT !.seat[c] = seat]

HandleLockRoom(c) ==
  /\ Handles(c) /\ IsMaster(c)
  /\ app' = [app EXCEPT !.object[app.room[c]].lock = TRUE]

HandleUnlockRoom(c) ==
  /\ Handles(c) /\ IsMaster(c)
  /\ LET r == app.room[c]
     IN  app' = Collect(cleanZombieClients(
                          [app EXCEPT !.object[r].lock = FALSE], r, Connected))

HandleUpdateRoomOption(c) ==
  /\ Handles(c) /\ IsMaster(c)
  /\ \E asked \in AskedMaxCounts :
        app' = [app EXCEPT !.object[app.room[c]].maxCounts =
                  RaisedCounts(app.object[app.room[c]].users, asked)]

\* The first member with the uid, which is not the master's own.
HandleKickOut(c) ==
  /\ Handles(c) /\ IsMaster(c)
  /\ \E u \in Users \ {uid[c]} :
       LET users   == app.object[app.room[c]].users
           matches == {i \in DOMAIN users : uid[users[i]] = u}
       IN  /\ matches # {}
           /\ app' = Collect(ExitClient(app, app.room[c],
                                        users[Least(matches)], Connected))

OutOfRoom(c) ==
  IF InRoom(c) THEN Collect(ExitClient(app, app.room[c], c, Connected)) ELSE app

\* Out of the room the client is in, and into the first room of the list that
\* suits its match option and takes it, or into one of its own.  Which rooms
\* suit is left open here: Matchmaking has their match options.
HandleMatchRoom(c) ==
  /\ Handles(c)
  /\ \E number \in MatchNumbers :
       LET s == OutOfRoom(c)
       IN  \/ \E r \in s.rooms : MayJoin(s, r) /\ app' = JoinClient(s, r, c)
           \/ \E r \in Rooms : /\ app.object[r] = NilRoom
                               /\ app' = CreateRoom(s, r, c, Capacity(number))

\* Whom the queue of MatchUser may hold: OnUserOut takes a client out of it, but
\* a late reader can put it in again.
Matchable(c) ==
  uid[c] # NoUser /\ ~InRoom(c) /\ (phase[c] # "out" \/ c \in LateReaders)

\* Lists of up to n clients, the last of whom is c.
GroupsWith(c, n) ==
  {g \in UNION {[1..k -> Clients] : k \in 1..n} : NoDuplicates(g) /\ g[Len(g)] = c}

\* MatchUser, when the client completes a group.  Which clients the group holds
\* is left open here: Matchmaking has the queue.
HandleMatched(c) ==
  /\ Handles(c) /\ ~InRoom(c)
  /\ \E number \in MatchNumbers, r \in Rooms :
       /\ number > 1 /\ app.object[r] = NilRoom
       /\ \E joiners \in GroupsWith(c, number) :
            /\ \A d \in Elems(joiners) : Matchable(d)
            /\ app' = CreateMatched(app, r, joiners, number)

JoinHandler(c) == HandleCreateRoom(c) \/ HandleJoinRoom(c)

MemberHandler(c) ==
  \/ HandleExitRoom(c)
  \/ HandleStartFrameSync(c)
  \/ \E keepLock \in BOOLEAN : HandleStopFrameSync(c, keepLock)
  \/ HandleSwitchSeat(c)
  \/ HandleLockRoom(c)
  \/ HandleUnlockRoom(c)
  \/ HandleUpdateRoomOption(c)
  \/ HandleKickOut(c)

RoomHandler(c) ==
  JoinHandler(c) \/ MemberHandler(c) \/ HandleMatchRoom(c) \/ HandleMatched(c)

Init ==
  /\ app = [rooms |-> {}, freedRoomIds |-> <<>>, nextRoomId |-> 0,
            object |-> [r \in Rooms |-> NilRoom],
            room |-> [c \in Clients |-> NoRoom],
            seat |-> [c \in Clients |-> 0]]
  /\ phase = [c \in Clients |-> "none"]
  /\ reading = {}
  /\ uid = [c \in Clients |-> NoUser]
  /\ account = [u \in Users |-> NoClient]

ConnectionEvent(c) ==
  Accept(c) \/ Disconnect(c) \/ Dropped(c) \/ \E u \in Users : Login(c, u)

UserOut(c) == GoOffline(c) \/ OnUserOut(c)

Next == \E c \in Clients : ConnectionEvent(c) \/ UserOut(c) \/ RoomHandler(c)

Spec == Init /\ [][Next]_vars

\* The hub hands every closed connection to a goroutine that runs OnUserOut.
Fairness == \A c \in Clients : WF_vars(UserOut(c))

FairSpec == Spec /\ Fairness

-----------------------------------------------------------------------------
RoomObject == [id : Nat, master : Clients \cup {NoClient}, users : Seq(Clients),
               lock : BOOLEAN, frameSync : BOOLEAN, maxCounts : Int]

AppState == [rooms : SUBSET Rooms, freedRoomIds : Seq(Nat \ {0}),
             nextRoomId : Nat, object : [Rooms -> RoomObject],
             room : [Clients -> Rooms \cup {NoRoom}], seat : [Clients -> Nat]]

\* Types; what removeRoom gives back to the stack of freed ids is a real id, not
\* the 0 of a room object that is not in use.
TypeOK ==
  /\ app \in AppState
  /\ phase \in [Clients -> Phases]
  /\ reading \in SUBSET Clients
  /\ uid \in [Clients -> Users \cup {NoUser}]
  /\ account \in [Users -> Clients \cup {NoClient}]

\* Client.room and Room.users agree, and nobody is listed twice: the two are
\* written in separate statements of JoinClient and ExitClient, for clients
\* that join, leave, are kicked, taken over and swept.
MembershipIn(s) ==
  \A r \in Rooms :
     /\ NoDuplicates(s.object[r].users)
     /\ Members(s, r) = {c \in Clients : s.room[c] = r}

Membership == MembershipIn(app)

IdsOfRooms(s) == {s.object[r].id : r \in s.rooms}

\* allocateRoomId, recycleRoomId and the idempotent removeRoom, called up to
\* three times for one exit: no id is shared, given back twice or lost.
RoomIdsConservedIn(s) ==
  /\ \A r, q \in s.rooms : s.object[r].id = s.object[q].id => r = q
  /\ NoDuplicates(s.freedRoomIds)
  /\ IdsOfRooms(s) \cap Elems(s.freedRoomIds) = {}
  /\ IdsOfRooms(s) \cup Elems(s.freedRoomIds) = 1..s.nextRoomId

RoomIdsConserved == RoomIdsConservedIn(app)

\* No room of the list is empty, and its master is one of its members.
MasterIsMemberIn(s) ==
  \A r \in s.rooms : s.object[r].master \in Members(s, r)

MasterIsMember == MasterIsMemberIn(app)

\* Nor is it ever another than the longest standing one: who creates a room joins
\* it first, and an exit, after all that it sweeps away, looks for the heir once.
FirstIsMasterIn(s) ==
  \A r \in s.rooms : /\ s.object[r].users # <<>>
                     /\ s.object[r].master = s.object[r].users[1]

FirstIsMaster == FirstIsMasterIn(app)

\* n members in a room for max: a member too many is there only if MatchRoom was
\* asked for a negative number of players, or a group was matched that is larger
\* than any room.
Fits(n, max) ==
  \/ n <= max
  \/ n <= 1 /\ max \in MatchNumbers
  \/ max = RoomLimit /\ \E number \in MatchNumbers : n <= number

\* Rooms are not overfull but for these two reasons, although JoinClient does not
\* look and a master may lower the limit; and whoever has a seat is in a room,
\* where no other member has the same seat.
SeatsSoundIn(s) ==
  /\ \A r \in Rooms : Fits(Len(s.object[r].users), s.object[r].maxCounts)
  /\ \A c \in Clients : s.seat[c] # 0 => s.room[c] # NoRoom
  /\ \A c \in Clients : \A d \in Clients \ {c} :
       s.seat[c] # 0 /\ s.room[d] = s.room[c] => s.seat[d] # s.seat[c]

SeatsSound == SeatsSoundIn(app)

\* An account is on at most one open connection: the one it refers to.
SingleSession ==
  \A c \in Clients :
     phase[c] = "open" /\ uid[c] # NoUser => account[uid[c]] = c

\* All members of a room of the list are gone for good.
Ghost(r) ==
  r \in app.rooms /\ \A c \in Members(app, r) : phase[c] = "out"

\* A member is gone for good, and the room is not locked.
Stranded(c) == InRoom(c) /\ phase[c] = "out" /\ ~app.object[app.room[c]].lock

\* In a room, with an account that is on another connection by now.
Superseded(c) == InRoom(c) /\ account[uid[c]] # c

-----------------------------------------------------------------------------
Enters(c, r) == app.room[c] # r /\ app'.room[c] = r
Leaves(c, r) == app.room[c] = r /\ app'.room[c] # r
Stays(c, r)  == app.room[c] = r /\ app'.room[c] = r

\* The last one out removes the room, in whatever order exits, kicks and disconnects
\* come, and members whose OnUserOut has run stay in locked rooms only: neither a
\* room of such members nor such a member of an unlocked room comes about, unless
\* that member comes in after its own OnUserOut, by a buffered frame or a match.
GhostsComeIn ==
  /\ \A r \in Rooms : ~Ghost(r) /\ Ghost(r)' =>
       \E c \in Clients : phase[c] = "out" /\ Enters(c, r)
  /\ \A c \in Clients : ~Stranded(c) /\ Stranded(c)' =>
       phase[c] = "out" /\ app'.room[c] # app.room[c]

NoGhostRoom == [][GhostsComeIn]_vars

\* A second place for one account never comes of a login or a takeover: a closed
\* connection gets back into a room only by a frame of its own that was buffered,
\* or when it is taken from the queue of MatchUser into a new room.
OnePlacePerUser ==
  [][\A c \in Clients : ~Superseded(c) /\ Superseded(c)' =>
       /\ UNCHANGED conns /\ phase[c] # "open"
       /\ c \in reading \/ app.object[app'.room[c]] = NilRoom]_vars

\* Who comes into a room that has place for all its members gets a seat, and who
\* has one and stays keeps one, be it another.
SeatsKept ==
  [][\A c \in Clients, r \in Rooms :
       /\ Enters(c, r) /\ Len(app'.object[r].users) <= app'.object[r].maxCounts =>
            app'.seat[c] # 0
       /\ Stays(c, r) /\ app.seat[c] # 0 => app'.seat[c] # 0]_vars

\* Into a locked room comes only the account of a member that leaves it in the
\* same step: the login on another connection.
LockedOut ==
  [][\A r \in app.rooms, c \in Clients :
       Enters(c, r) /\ app.object[r].lock =>
         \E d \in Clients : Leaves(d, r) /\ uid[d] = uid'[c]]_vars

\* A room changes its master only when the master leaves, if only to come back
\* by MatchRoom as the youngest member; and then the longest standing of the
\* members inherits it: those before the heir leave in the same step, if only to
\* come back in that way.
Inherited(r) ==
  LET old == app.object[r]
      new == app'.object[r]
  IN  new.master # old.master =>
        /\ new.master = new.users[1]
        /\ Leaves(old.master, r) \/ old.master = new.users[Len(new.users)]
        /\ \E i \in DOMAIN old.users :
             /\ old.users[i] = new.master
             /\ \A k \in 1..(i - 1) :
                  \/ Leaves(old.users[k], r)
                  \/ old.users[k] = new.users[Len(new.users)]

Succession == [][\A r \in app.rooms \cap app'.rooms : Inherited(r)]_vars

\* Whatever one step sweeps out of the rooms, at most one of those that leave
\* is still connected: a sweep hits offline members only.  A room leaves the list
\* while members stay in it only when the step swept two of them; and a client
\* gets into a room that is not in the list only by taking over a place.
Explained ==
  /\ \A c, d \in Clients :
       /\ InRoom(c) /\ app'.room[c] # app.room[c] /\ c \in Connected'
       /\ InRoom(d) /\ app'.room[d] # app.room[d] /\ d \in Connected'
       => c = d
  /\ \A r \in app.rooms \ app'.rooms :
       (\E c \in Clients : Stays(c, r)) =>
          \E y, z \in Clients : /\ y # z /\ Leaves(y, r) /\ Leaves(z, r)
                                /\ y \notin Connected' /\ z \notin Connected'
  /\ \A c \in Clients : \A r \in Rooms \ app'.rooms :
       Enters(c, r) => \E d \in Clients : Leaves(d, r) /\ uid[d] = uid'[c]

SweepsExplained == [][Explained]_vars

\* The handlers use connections as Sessions promises them, no other way: what
\* Connection shows of the goroutines is all that this module relies on.
\* (For Sessions, OnUserOut is one step, and ends it.)
Life == [c \in Clients |-> IF phase[c] = "offline" THEN "closed" ELSE phase[c]]

Session == INSTANCE Sessions WITH phase <- Life

UsesSessions == Session!Spec

\* A room without an open connection goes, unless someone comes back to it.
RoomsReclaimed ==
  \A r \in Rooms :
     LET abandoned == r \in app.rooms /\ \A c \in Members(app, r) : phase[c] # "open"
     IN  abandoned ~> ~abandoned

-----------------------------------------------------------------------------
\* What comments of the code say and the code does not do.

\* room.go:311: the room is deleted when no user is left in it.
ListedWhilePeopled ==
  [][\A r \in app.rooms \ app'.rooms : ~\E c \in Clients : Stays(c, r)]_vars
=============================================================================
