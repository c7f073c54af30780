---------------------------- MODULE Matchmaking ----------------------------
(***************************************************************************)
(* The queue of players that wait for a match (src/net/match.go), on top   *)
(* of the rooms: a group that is complete gets a room.  As in Rooms, an    *)
(* action is one whole handler.                                            *)
(***************************************************************************)
EXTENDS Rooms

CONSTANTS
  MatchOptions,   \* what clients ask for: key, number, fps and range
  NoOption,       \* nil
  AnyValue,       \* an option without a range; one with a range has [min, max]
  Level           \* Client.userData under the key of the ranges

ASSUME OptionsAssumption ==
  /\ NoOption \notin MatchOptions
  /\ \A o \in MatchOptions : o.number \in MatchNumbers
  /\ Level \in [Clients -> Int]

VARIABLES
  matchUsers,       \* Matchs.matchUsers
  matchUsersGroup,  \* Matchs.matchUsersGroup: records of users and option
  matchOption,      \* Client.matchOption
  roomOption        \* Room.matchOption

queue == <<matchUsers, matchUsersGroup, matchOption, roomOption>>
matchVars == <<app, phase, reading, uid, account, queue>>

-----------------------------------------------------------------------------
DefaultFPS == 30
FPS(option) == IF option.fps = 0 THEN DefaultFPS ELSE option.fps

\* A number that arrived as JSON is a float64 in a map[string]any.
UserValue(c) == [type |-> "float64", value |-> Level[c]]

InRange(range, v) == v.type = "int" /\ v.value \in range.min .. range.max

\* Slips (operators named Slip...) are mistakes the code could make at that
\* place; no specification uses them.

SlipFpsAsGiven(o, asked, c) ==
  /\ asked # NoOption
  /\ o.key = asked.key /\ o.number = asked.number /\ o.fps = asked.fps
  /\ o.range # AnyValue => InRange(o.range, UserValue(c))

\* MatchOption.matchClient, for a client whose own option is `asked`.  The range
\* is the one of the group or room; that of the client is not looked at.
matchClient(o, asked, c) ==
  /\ asked # NoOption
  /\ o.key = asked.key /\ o.number = asked.number /\ FPS(o) = FPS(asked)
  /\ o.range # AnyValue => InRange(o.range, UserValue(c))

OptionsDropped(gone) ==
  matchOption' = [c \in Clients |-> IF c \in gone THEN NoOption ELSE matchOption[c]]

\* cannelMatchUser: c out of its group, and the group away with its last user.
WithoutUser(groups, c) ==
  LET left == [i \in DOMAIN groups |->
                 [groups[i] EXCEPT !.users = Keep(@, Clients \ {c})]]
  IN  Keep(left, {g \in Elems(left) : g.users # <<>>})

SlipStaysQueued(c) == UNCHANGED <<matchUsers, matchUsersGroup>>
SlipOnlyUsers(c) ==
  /\ matchUsers' = Keep(matchUsers, Clients \ {c})
  /\ UNCHANGED matchUsersGroup
Dequeued(c) ==
  /\ matchUsers' = Keep(matchUsers, Clients \ {c})
  /\ matchUsersGroup' = WithoutUser(matchUsersGroup, c)

cannelMatchUser(c) == Dequeued(c) /\ OptionsDropped({c})

\* A room object that is garbage, and any new one, has no match option.
RoomOptionsKept ==
  roomOption' = [r \in Rooms |-> IF app'.object[r] = NilRoom THEN NoOption
                                 ELSE roomOption[r]]

(***************************************************************************)
(* After a match every user of the group is to leave it, but mathMatch     *)
(* ranges over the very list that cannelMatchUser removes them from: each  *)
(* removal moves the next user to a place that the loop has passed.  The   *)
(* users at the even places stay, except the last one, which the loop      *)
(* meets again at the end of the array.  (MatchLoops checks this.)         *)
(***************************************************************************)
LeftBehind(users) == [i \in 1..((Len(users) - 1) \div 2) |-> users[2 * i]]

-----------------------------------------------------------------------------
\* MatchUser refuses a match for one player.
Playable(option) == option.number > 1

\* The groups that a client with this option fits in; the first one takes it.
Fitting(asked, c) ==
  {i \in DOMAIN matchUsersGroup : matchClient(matchUsersGroup[i].option, asked, c)}

Enqueued(c, option) ==
  /\ matchUsers' = Append(matchUsers, c)
  /\ matchOption' = [matchOption EXCEPT ![c] = option]

\* mathMatch finds no group: a new one.
OpenGroup(c, option) ==
  /\ Fitting(option, c) = {}
  /\ Enqueued(c, option)
  /\ matchUsersGroup' =
       Append(matchUsersGroup, [users |-> <<c>>, option |-> option])
  /\ UNCHANGED app

SlipIncomplete(g) == Len(g.users) + 2 = g.option.number
\* The group needs one user more.
Completes(g) == Len(g.users) + 1 = g.option.number

\* It joins one that is not complete by it, or one that cannot get a room
\* because its first user is in a room: CreateRoom returns nil.
JoinGroup(c, option) ==
  /\ Fitting(option, c) # {}
  /\ LET i == Least(Fitting(option, c))
         g == matchUsersGroup[i]
     IN  /\ ~Completes(g) \/ InRoom(g.users[1])
         /\ matchUsersGroup' = [matchUsersGroup EXCEPT ![i].users = Append(@, c)]
  /\ Enqueued(c, option)
  /\ UNCHANGED app

\* The users of a group that are in no room.
Roomless(s, users) == Keep(users, {d \in Clients : s.room[d] = NoRoom})

\* It completes one, which gets a room.
CompleteGroup(c, option) ==
  /\ Fitting(option, c) # {}
  /\ LET i     == Least(Fitting(option, c))
         g     == matchUsersGroup[i]
         users == Append(g.users, c)
         stay  == LeftBehind(users)
         gone  == Elems(users) \ Elems(stay)
         rest  == [matchUsersGroup EXCEPT ![i].users = stay]
     IN  /\ Completes(g) /\ ~InRoom(g.users[1])
         /\ \E r \in Rooms :
              /\ app.object[r] = NilRoom
              /\ app' = CreateMatched(app, r, Roomless(app, users), g.option.number)
         /\ matchUsersGroup' = Keep(rest, {h \in Elems(rest) : h.users # <<>>})
         /\ matchUsers' = Keep(matchUsers, Clients \ gone)
         /\ OptionsDropped(gone)

HandleMatchUser(c) ==
  /\ Handles(c) /\ ~InRoom(c)
  /\ c \notin Elems(matchUsers)
  /\ \E option \in MatchOptions :
       /\ Playable(option)
       /\ OpenGroup(c, option) \/ JoinGroup(c, option) \/ CompleteGroup(c, option)
  /\ RoomOptionsKept

\* Refused by nothing, not even for a client that waits for no match.
HandleCannelMatchUser(c) ==
  /\ Handles(c)
  /\ cannelMatchUser(c)
  /\ UNCHANGED <<app, roomOption>>

\* The option of the message stands in for that of a MatchUser, if the client
\* waits for a match, and is forgotten in the end; the client stays in the queue.
HandleMatchRoomBy(c) ==
  /\ Handles(c)
  /\ \E option \in MatchOptions :
       LET s        == OutOfRoom(c)
           suitable == {r \in s.rooms : /\ roomOption[r] # NoOption
                                        /\ matchClient(roomOption[r], option, c)
                                        /\ MayJoin(s, r)}
       IN  \/ /\ \E r \in suitable : app' = JoinClient(s, r, c)
              /\ RoomOptionsKept
           \/ /\ suitable = {}
              /\ \E r \in Rooms :
                   /\ app.object[r] = NilRoom
                   /\ app' = CreateRoom(s, r, c, Capacity(option.number))
                   /\ roomOption' = [q \in Rooms |->
                        IF q = r THEN option
                        ELSE IF app'.object[q] = NilRoom THEN NoOption ELSE roomOption[q]]
  /\ OptionsDropped({c})
  /\ UNCHANGED <<matchUsers, matchUsersGroup>>

\* The master changes the match option of a room that has one: the message is
\* read into it.  In a room without one nothing happens.
HandleSetRoomMatchOption(c) ==
  /\ Handles(c) /\ IsMaster(c)
  /\ roomOption[app.room[c]] # NoOption
  /\ \E option \in MatchOptions :
       roomOption' = [roomOption EXCEPT ![app.room[c]] = option]
  /\ UNCHANGED <<app, matchUsers, matchUsersGroup, matchOption>>

\* What does not touch the queue.
Elsewhere(c) ==
  /\ \/ ConnectionEvent(c)
     \/ GoOffline(c)
     \/ matchOption[c] = NoOption /\ JoinHandler(c)
     \/ MemberHandler(c)
  /\ RoomOptionsKept
  /\ UNCHANGED <<matchUsers, matchUsersGroup, matchOption>>

\* OnUserOut of an offline client: out of the room, then out of the queue.
GoesOut(c) ==
  /\ OnUserOut(c)
  /\ cannelMatchUser(c)
  /\ RoomOptionsKept

MatchInit ==
  /\ Init
  /\ matchUsers = <<>> /\ matchUsersGroup = <<>>
  /\ matchOption = [c \in Clients |-> NoOption]
  /\ roomOption = [r \in Rooms |-> NoOption]

MatchNext ==
  \E c \in Clients :
     \/ Elsewhere(c) \/ GoesOut(c)
     \/ HandleMatchUser(c) \/ HandleCannelMatchUser(c)
     \/ HandleMatchRoomBy(c) \/ HandleSetRoomMatchOption(c)

MatchSpec == MatchInit /\ [][MatchNext]_matchVars

-----------------------------------------------------------------------------
Queued(c) == c \in Elems(matchUsers)

MatchTypeOK ==
  /\ matchUsers \in Seq(Clients)
  /\ matchUsersGroup \in 
       Seq([users : Seq(Clients), option : {o \in MatchOptions : o.number > 1}])
  /\ matchOption \in [Clients -> MatchOptions \cup {NoOption}]
  /\ roomOption \in [Rooms -> MatchOptions \cup {NoOption}]

\* Types, and no group is for less than two players.  The two lists that matchUser,
\* cannelMatchUser and the loop of mathMatch keep apart agree: who waits is in one
\* group, once, and no group is empty.  And "in the queue" is not a lie: who is kept
\* from rooms because of a match option waits for a match.
QueueAgrees ==
  /\ MatchTypeOK
  /\ NoDuplicates(matchUsers)
  /\ \A i \in DOMAIN matchUsersGroup :
       LET users == matchUsersGroup[i].users
       IN  /\ users # <<>> /\ NoDuplicates(users)
           /\ Elems(users) \subseteq Elems(matchUsers)
           /\ \A k \in DOMAIN matchUsersGroup \ {i} :
                Elems(users) \cap Elems(matchUsersGroup[k].users) = {}
  /\ \A c \in Elems(matchUsers) :
       \E i \in DOMAIN matchUsersGroup : c \in Elems(matchUsersGroup[i].users)
  /\ \A c \in Clients : matchOption[c] # NoOption => Queued(c)

\* Nobody is matched whose connection is gone.
NoDeadQueued ==
  \A c \in Elems(matchUsers) :
     uid[c] # NoUser /\ (phase[c] # "out" \/ c \in LateReaders)

\* Clients that ask for the same wait together: no group is opened while an
\* earlier one takes players of any number at the same frame rate, 0 frames a
\* second being the default rate.
WaitTogether ==
  \A i, k \in DOMAIN matchUsersGroup :
     LET a == matchUsersGroup[i].option
         b == matchUsersGroup[k].option
     IN  i < k /\ a.key = b.key /\ a.number = b.number /\ FPS(a) = FPS(b) =>
           a.range # AnyValue

\* Room r is that of a group which its last client has completed: as many users
\* as asked for, all of them in a room now, in r those that were in none before;
\* the first of the group is its master.
MatchedIn(r) ==
  \E g \in Elems(matchUsersGroup), c \in Clients :
     LET users == Append(g.users, c)
     IN  /\ Len(users) = g.option.number
         /\ \A d \in Elems(users) : InRoom(d)'
         /\ app'.object[r].users = Roomless(app, users)
         /\ app'.object[r].master = users[1]

\* A match is for one whole group and gives everyone in it a room.  Who makes a
\* group complete waits on only if its first user has found a room elsewhere;
\* whoever a match takes off the queue is in a room; and a new room with more
\* than one member is that of one complete group.
CompleteIsMatched ==
  [][/\ \A c \in Clients : ~Queued(c) /\ Queued(c)' =>
          \A g \in Elems(matchUsersGroup') :
             c \in Elems(g.users) /\ Len(g.users) = g.option.number =>
                InRoom(g.users[1])
     /\ \A d \in Clients :
          Queued(d) /\ ~Queued(d)' /\ app' # app /\ UNCHANGED conns => InRoom(d)'
     /\ \A r \in Rooms :
          app.object[r] = NilRoom /\ Len(app'.object[r].users) > 1 => MatchedIn(r)
    ]_matchVars

\* Matchmaking changes rooms and connections only as Rooms says, so that what is
\* proved of Rooms holds of it.
UsesRooms == Spec
=============================================================================
