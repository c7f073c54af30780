# Verification of go-websocket-server

TLA+ models of the room server in this repository, TLC configurations that check
them, and proofs that TLAPS checks. Source files are named without the leading
`net/` where that is clear.

## The system

A process serves WebSocket connections. A connection has a reader and a writer
goroutine; the reader runs the handler of each message, so handlers of different
connections run at the same time, almost without locks. Clients log in with an
openid to an application (`App`), and meet there in rooms.

| Component | State | Operations | Talks to |
| --- | --- | --- | --- |
| Connections and hub (`websocketv2/`) | socket, `isClosed`, send queue, callbacks, the channel `unregister` | accept, `readMessage`, `writeMessage`, `cleanup`, `Init` | calls `OnMessage` in the reader and `OnUserOut` in a goroutine of its own |
| Logins (`users.go`) | accounts by openid, the connection of each | `login`: new account, or takeover of the session and of the place in the room | closes the old connection, moves the place |
| Rooms (`room.go`, `server.go`) | list of rooms, freed ids, counter; per room members, master, lock, maximum; per client its room and seat | create, join, exit, kick, lock, unlock, options, seats | sweeps offline members at every exit |
| Leaving (`client.go`, `server.go`) | `Connected` | `OnUserOut`, `ExitRoom`, `TryExitRoom` | rooms, queue, listeners, extensions |
| Matchmaking (`match.go`) | queue, groups, match option of clients and rooms | `MatchUser`, `CannelMatchUser`, `MatchRoom`, `SetRoomMatchOption` | creates rooms and joins clients to them |
| Frame synchronisation (`room.go`) | flag, counter, cache, uploaded frames | start, stop, reset, upload, the loop `onRoomFrame` | locks the room, sweeps when it stops |
| User states (`room.go`, `client_op_message.go`) | `userState` and its lock | set, request, room data, reset, clearing at an exit | the lock is taken by exits and joins |
| Server messages and listeners (`server.go`) | list of messages, an `Array` of listeners per notice | send, trim, history, listen, cancel | `OnUserOut` takes a client off the lists |
| Queries, applications, extensions | maps and lists | look up, page, call | |

What is hard here, and what is right for each component:

- *Connections.* Three kinds of goroutine may close a connection, also that of
  another client; the hub is reached by an unbuffered channel and started in the
  background; callbacks are bound after the goroutines run; a reader hands over
  what it has buffered after somebody else has closed the connection. Right: one
  cleanup, one `OnUserOut`, never skipped for a client that could be in a room,
  and no goroutine left.
- *Rooms.* `ExitClient` and `cleanZombieClients` call each other; a room is
  removed in several places and by several goroutines; ids are reused. Right: the
  two records of membership agree, every listed room has a master among its
  members, ids are never shared nor given back twice, seats and maximum hold, and
  abandoned rooms go.
- *Logins.* An account moves from one connection to another, possibly between the
  closing of the first and its `OnUserOut`. Right: one session, one place.
- *Matchmaking.* Queue, groups and options are kept apart and lists are changed
  while they are ranged over. Right: they agree, complete groups get a room, the
  others wait together.
- *Frames.* A loop copies and clears what members upload, and counts on, without a
  lock; stopping and starting leaves two loops. Right: no acknowledged frame is
  lost, the time that is announced is not ahead of the cache, a synchronised room has a
  loop, and the loop of a room that is stopped or abandoned ends.
- *User states.* A handler holds the lock while it reads `c.room`, which others set
  to nil. Right: states belong to members, and the lock comes free.
- *Listeners.* Lists are changed in place while they are ranged over, and trimmed by
  all senders at once. Right: who listens is told, and the latest messages are kept
  in order.

## The modules

| Module | Models | About |
| --- | --- | --- |
| `Lists` | `util/array.go` | lists as sequences; `Keep` is what repeated `Remove` leaves, `Looped` what a loop over a list ends with |
| `Sessions` | | abstract connection: opened, closed, out; its reader may read on |
| `Connection` | `websocketv2/`, `runtime/`, `CreateClient` | goroutines and hub, one step per shared access; implements `Sessions` |
| `Rooms` | `room.go`, `server.go`, `users.go`, `client.go`, handlers | one action per handler; uses `Sessions` |
| `ExitRecursion` | `room.go`, `server.go`, `client.go` | the recursion of an exit, statement by statement, against the closed form in `Rooms` |
| `RoomSteps` | the same, for one room | exits, joins, kicks, takeovers and `OnUserOut` between each other's steps |
| `FrameSync` | `room.go`, handlers | the loops `onRoomFrame` step by step beside the handlers of `Rooms` |
| `UserStates` | `room.go`, `client_op_message.go` | user states, their lock, and all who take it, one step per look at `c.room` |
| `Matchmaking` | `match.go`, handlers | the queue on top of `Rooms`; changes rooms only as `Rooms` does |
| `MatchLoops` | `match.go`, `util/array.go` | two loops of `mathMatch`, step by step, against closed forms |
| `Listeners` | `server.go`, `util/array.go` | messages, history and listeners, one step per locked call |
| `MC...` | | instances for TLC |
| `...Proofs` | | proofs, see below |

How they fit. `Connection` shows that the goroutines behave as `Sessions` says, for
any interleaving. `Rooms` takes connections as `Sessions` has them (`UsesSessions`)
and whole handlers as its steps. `Matchmaking` and `FrameSync` extend `Rooms`:
each step of theirs is proved to be one of `Rooms`, or none of it (`UsesRooms` of the
first), so that both inherit what is proved there. `RoomSteps` and `UserStates` start from
rooms as whole handlers leave them and ask what is left of the properties when the
handlers are cut into steps; that the first member of a room is then its master, and that
offline members sit in locked rooms only, is what `FirstIsMaster` and `NoGhostRoom` say.
`Listeners` shares only the clients with the others.

**State and actions.** In `Rooms` the variable `app` is a record with the fields of
`App` and, by room and by client, those of `Room` and `Client` that matter; the
methods are operators on such records, called as the code calls them
(`TakeOver` is `ExitClient` and then `JoinClient`). A handler's guard is the
conjunction of its early returns. A refused request changes nothing and is no
step. `Collect` resets a room object that nothing refers to, so that a few objects
stand for as many rooms as clients create one after the other. `phase` and
`reading` say how far a connection has come; `Disconnect` is also the end of a
reader whose handler has panicked before it changed anything. `OnUserOut` is two steps,
since loops and other handlers read `Connected` in between: `GoOffline` clears it
(`client.go:151`), `OnUserOut` does the rest. Sending is left out
everywhere, but for the notices of `Listeners`.

An exit, with all that `ExitClient` and `cleanZombieClients` do to each other, is
`Sweep`: members leave, the master is inherited, and the room goes if it is empty
*or if two offline members were swept*. `ExitRecursion` has the code as it is written,
as a recursive function of the `App` that a call finds and of the client, and compares the
two in every reachable state; `MatchLoops` does so for the two loops of `mathMatch`, with
the memory of the list that one of them shortens while it ranges over it. In `RoomSteps` the same recursion is a
stack of calls per goroutine; each label is a statement that touches something
shared, and the two looks of `ExitClient` at `client.room` (`room.go:301`, `302`) are two.
Its handlers ask for a login and for no connection, as `OnMessage` does, so that frames are
handled late. What a goroutine does between two calls of locked methods is one step; a range
over a list reads the list as it is at its start.

In `Connection` a goroutine is at a label (reading, in a handler, entering
`cleanup`, sending to the hub, shutting the socket, done). `Matchmaking` has the
queue, the groups, and the match options of clients and rooms. In `FrameSync` a loop
is at a label of `onRoomFrame`, and `time` is the counter `cacheId` with the length of
`frameDatas`; to count on, to cache, and to tell each member are steps of their own, as
`r.cacheId` is read once more for everybody who is told (`room.go:139`). Handlers are whole
there, and `OnUserOut` is the two steps of `Rooms`. `UserStates` lets every statement that
reads `c.room` be a step; a nil room ends the reader, with the lock if no unlock was
deferred. In `Listeners` the memory behind a slice is a variable of its own, so that a
range goes on over memory that a removal shifts and an append replaces; a sender looks at
the first message after it has counted (`TakeFirst`), and panics if others have emptied
the list in between, which takes more senders at once than messages are kept.

Some variables record what happened and are read by properties only: `history` and
`uploaded` of `FrameSync`, `overlapped` and `late` of `RoomSteps`, `stored` and `overtaken` of
`UserStates`, `subscribed` and `excused` of `Listeners`, `told` and `due` of its readers.

Operators named `Slip...` stand next to the definition they would replace: mistakes
that somebody could make there. No specification uses them; each property is known
to fail under one of them.

**Abstractions.** An account is its openid. There is one `App`. Room passwords are
left out (a wrong one is a refusal), as are the data of rooms and users except one
number per client that ranges look at. The list of rooms is a set: where the code
takes the first that suits, the model takes any. `Matchmaking` gives options a
symbolic key. `FrameSync` leaves out `SwitchSeat` and `UpdateRoomOption`, which no loop
looks at. A login is one step everywhere but in `RoomSteps`, which has its steps for one
room and no accounts: two logins of one account at the same time, which leave two open
sessions (`users.go:28`), are in no module. In `UserStates` a user is its client: logins that take over a place and
sweeps are left out, a room that may be joined may always be joined (its lock and its
maximum are left open), and a client that is moved to another room between locking
and unlocking, which would unlock the other room's lock, is not. Reads and writes of
words and slice headers are whole, although Go promises nothing about unsynchronised
ones; Go's abort on two writers of one map is not modelled.

## The runs

| Run | Instance | Shows |
| --- | --- | --- |
| `late` | 3 clients, 2 accounts, 2 rooms, matches for 2; one reader may read on after the close | membership, ids, masters, one session per account, locked rooms; how an account gets a second place and a room nobody but dead clients; connections are used as `Sessions` says |
| `crowd` | 4 clients, 3 accounts, 1 room, maximum 3, lowered to 1; matches for -1 and for 3, where a room may have 2 | the exit recursion, succession, sweeps and when they unlist, capacity and seats |
| `connection` | 2 connections that can close each other, one with a buffered frame | one cleanup, no session skipped, all goroutines end, `Sessions` is implemented |
| `matchmaking` | 3 clients, 2 accounts, 1 room; matches for 3, with and without a range, and for 1 | queue and groups, dead clients, waiting together, complete groups get one room, both loops, `UsesRooms` |
| `frames` | 2 clients, 1 room, 2 loops, one frame | frames are kept, the cache reaches what is announced, synchronised rooms are driven |
| `live` | 2 clients, 2 accounts, 1 room, 1 loop that collects and counts, matches for 2, fair goroutines | abandoned rooms go, loops of stopped and abandoned rooms end from wherever they are |
| `steps` | 4 clients, 1 room, 2 handlers or breaks after the first state | the id is given back once, membership settles, nobody leaves an empty room behind |
| `listeners` | 3 clients, 3 messages kept, 3 handlers or ends of connections after the first state | the latest messages in order, history in order, notices reach, who subscribed is listed |
| `states` | 2 clients, 4 handlers or ends of connections | states of members only, nothing stored is lost, the lock comes free unless its holder has ended |

Three more runs find what the code does against its own comments:

| Run | Finding |
| --- | --- |
| `listed_while_peopled` | an exit that sweeps two offline members unlists a room with people in it (`room.go:351`, against the comment at 311) |
| `survives` | a kick or a takeover while `OnUserOut` runs makes it use a nil room; nobody recovers that goroutine and the process ends (`client.go:157`, `hub.go:42`, against `runtime/recover.go:8`) |
| `lock_released` | a member leaves in the middle of its own request, which panics and keeps `userStateLock` for ever (`client_op_message.go:528`, against `room.go:318`) |

**What the properties except.** Some properties hold but for a case that the code does
get wrong, and say so:

- `FramesKept` excepts frames uploaded between a loop's copying and clearing
  (`room.go:127`): they are acknowledged and lost. `UploadOverClear` is the upload that
  comes between the two when they overlap as statements.
- `CacheReaches` lets a loop announce what other loops have counted on and not cached yet:
  the time is read anew for each member (`room.go:139`), so that with two loops a member can
  be told a time that `GetFrameAt` does not have. With one loop it cannot. Rooms whose last
  reset came between a loop's reading and writing of the counter are excepted. A
  second loop, or a stop that sets `cacheId` back while the cache is kept (`room.go:181`),
  otherwise leaves the counter behind the cache.
- `Driven` excepts rooms that somebody entered when none of their members was connected
  (`revived`): between `client.go:151` and the exit of the last one the loop may end, and
  who comes into the room at that moment finds it synchronised and cannot start it again.
- `NoGhostRoom` and `OnePlacePerUser` are about steps, and name the one that is to blame. A
  room of clients that are past their `OnUserOut`, or such a client in an unlocked room, comes
  about only when that client enters then: by a frame that its reader had buffered
  (`client_op_message.go:14`), or by a match it was queued for. A superseded connection
  gets into a room in the same two ways.
- `SeatsSound` lets a room be overfull if its match asked for a negative number of players
  (`server.go:360`), or for more than a room may have.
- `CompleteIsMatched` excepts a group whose first user is in another room when it becomes
  complete (`match.go:78`): it gets no room, and stays.
- `MembershipSettles` and `NoGhostAtRest` except clients that were taken out of the
  room in the middle of a handler of their own (`overlapped`): one that is kicked while
  it joins is a member without knowing, or knows without being one. The second also
  excepts clients that a handler puts into the room after their `OnUserOut` began (`late`).
- `StatesOfMembers` excepts a client that leaves and is back before the handler that
  took it out clears its state (`room.go:320`): its new state is lost.
- `SubscribersListed` excepts those whose `Array` another first listener has replaced
  (`server.go:265`) and those whose `OnUserOut` ran in a handler of theirs. It does not ask
  who is connected: a `ListenerServer` that is handled after the client's `OnUserOut` lists it
  like any other, for ever (`client_op_message.go:652`). `NoticeReaches`
  excepts the listener that moves down when one before it is removed (`server.go:315`).
- `LatestKept` allows for one message too few per client that trims at the same time.

**Bounds.** A sweep needs three clients for its worst case (the one that leaves, and
two offline ones), four for somebody to be left behind: `crowd` and `steps` have four.
A second room is needed for ids to be reused out of order and shared, and for group
members that are in rooms elsewhere; one suffices for what happens inside a room. With
two accounts among three clients somebody takes over as soon as all are logged in. Two
connections are enough for one to close the other, at
every point, both ways. `LateReaders` bounds the buffered frames of `Connection` to
one per connection; in `Rooms` they are not bounded, and one late reader among three is
enough for its frames to meet everything the others do. The maxima 10 and 100 are the
constants `DefaultMaxCounts` and `RoomLimit`, set to 1, 2 or 3 so that rooms get
full. `MatchNumbers` are the numbers that matches ask for; every one that a member of a match
can tell from the others is there once. Groups of three are the smallest of which somebody
stays in the queue while more than one leaves it; the closed forms of the loops are
compared for the groups that wait.

Two loops are what a stop and a start leave; a third adds nothing that two do not do to
the counter. `MaxFrames` and `MaxTicks` bound the uploads and the time: one frame is
enough to be lost, and one turn of each loop, with the stops and resets between its steps,
takes the counter past the cache or back. `MaxEvents` bounds how many handlers begin, and ends of
connections happen, after the first state of `RoomSteps`, `Listeners` and `UserStates`; the
first states are all those that whole handlers leave, so that two events are two
goroutines at once in any room, and in `RoomSteps` clients that are already offline
bring no event. In `UserStates` a set, a leaving, a return and a second leaving or a kick
are four.

Deadlock is not checked: each connection is used once and handlers are bounded, and
when all are out nothing happens any more, in the model as in the server.

**Fairness.** `Rooms` and `FrameSync`: `OnUserOut` of a closed connection runs, since the
hub hands it to a goroutine; a loop goes on and its sleep ends; nothing is assumed
about clients. `Connection`: goroutines that can run do, handlers return, a socket that
is not open fails its reader, the ticker ticks. Nothing is assumed of peers, and not
that the hub is ever started: what was closed without one counts as lost. `UserStates`:
a goroutine that can go on does, and one that waits for a lock that is free gets it, as
Go's mutex does once nobody else comes; handlers are bounded, so weak fairness is
enough. That handlers begin is not assumed anywhere.

## The proofs

They hold for any clients, accounts, rooms, loops, capacities and bounds, under the
assumptions of the modules (the nil values are none of the others; limits are numbers,
some positive). Each inductive invariant was checked by TLC, on the instance of the run,
before it was proved.

`RoomsProofs`. Methods are composed into handlers, so there is a lemma for each method
(which fields it changes, and that it keeps the invariant of a record) and a step for
each handler.

- `TypeOK`, `Membership`, `RoomIdsConserved`, `MasterIsMember`: `IInv` is their
  conjunction with one addition, that listed rooms have an id other than 0, without which
  a removal could push a 0 onto the stack of freed ids. No single one of them is
  inductive: who a sweep takes out is known by membership, the room goes when the list
  of its members is empty, the master is one of them, and only a listed room has an id
  to give back. In the middle of an exit the master may be one who has left; `Coherent`,
  the invariant without the master, holds there, and the lemma on `Sweep` brings the
  master back.
- `UsesSessions`: every step is one of `Sessions`, or none of it.
- `SingleSession`, with what `SessionInv` adds: an account refers to a connection that has
  logged in with it, and only who has logged in is in a room.
- `FirstIsMaster` (stronger than `MasterIsMember`: the master is the longest standing member),
  `LockedOut`, `Succession` and `SweepsExplained`, about steps from a state in which both
  hold. `Swept` says what an exit does to a room, in one
  formula for `ExitClient` and for `cleanZombieClients`; a handler is then one sweep, or
  adds members, or leaves them.
- `SeatsSound` and `SeatsKept`: a room gets members by `JoinRoom`, which looks at its
  maximum, by a takeover, which brings one for one that leaves, or when a match makes it; and
  `assignSeat` finds a seat wherever there are fewer members than seats.
- `NoGhostRoom` and `OnePlacePerUser`, with whatever readers are late and whatever is matched.
  They are action properties: for each handler, who enters a room in it has logged in on an
  open connection, or reads late, or is matched; and an exit leaves no offline member
  unless it finds the room locked.

`FrameSyncProofs`.

- `FrameSpec => Spec` up to the loops, so that the theorems about rooms hold beside them.
- `FramesKept`, from `CarriesWhatItClears`: a loop that sleeps has nothing, and one that is
  about to clear a list has all that is in it but what was uploaded since it copied.
- `CacheReaches`, from `TimeInv`: but after a reset that has overtaken a loop, the counter is
  at most the frames cached and those that loops have counted and not cached, and so
  is what a loop has read and not stored yet.
- `Driven`: a loop ends only when the flag is off or nobody in the room is connected; from
  then on nobody can be connected in it who has not entered it when nobody was, which
  makes it `revived`, and who goes offline does not come back.

`MatchmakingProofs`. `QueueAgrees`, `NoDeadQueued`, `WaitTogether`, `CompleteIsMatched` (a
whole group, one room, its first user the master) and `UsesRooms`. One invariant, `MatchInv`, serves them all:
`Rooms` lets a match join only who has logged in and whose `OnUserOut` has not run, which is
what `NoDeadQueued` says of the queue; by `QueueAgrees` it is so of the members of groups; and
leaving takes a client out of both. So each step is one of `Rooms`, and its theorems carry
over.

`RoomStepsProofs`, about goroutines between each other's steps.

- `StepsTypeOK` (also that stacks of calls are well formed), and `IdOnce`: the id is
  counted once because the flag `removed` is tested and set in one step. At most one
  call, of all stacks of all goroutines, is past that test, the room is then flagged, and
  nothing has been given back yet.
- `MembershipSettles`, from `Settling`: whoever is on one side only, in `Client.room` or in
  the list of members, has exactly one goroutine that is about to bring the other side
  in line, and a goroutine that enters and one that leaves meet only for the
  `overlapped`, be it by a frame that is handled late.
- `NoGhostAtRest`, from `NoGhostInv`: somebody still counts the members of a room that is
  empty, somebody will delist a room that is removed, and of members that are all offline
  each has a goroutine that will take him out, his own `OnUserOut` or a sweep.

`UserStatesProofs`. `StatesOfMembers`. The invariant adds that only an exit names a
client to be taken out, that one whose exit has passed the check is out of the room or
`overtaken`, and that what is stored is kept also in a room that is removed. One goroutine
moves at a time: the lemma `Moves` says what has to be looked at then, and each statement
is an instance of it.

`ConnectionProofs`. `TypeOK`, `OneCleaner`, `NoSessionSkipped`, `ImplementsSession`. The
invariant says which labels go with which state of a connection (a goroutine past the
entry of cleanup works for a connection whose `isClosed` is set), who has not been
accepted has nothing, and a connection that was closed before its callbacks were bound
has a reader that has ended, so that no handler can run for it afterwards. Setting
`isClosed` is then `Close` or `Quit`, dispatching or running `OnUserOut` is `Out`, and
everything else is unseen.

`ListenersProofs`.

- `SubscribersListed`, from `ArrayInv`, whether or not a request is handled late: an `Array` has nobody twice because only a client's
  own reader pushes it; one that is about to be created is empty and known to nobody;
  and a client is listed exactly if it was told so, but between the two steps that put
  it in and tell it.
- `LatestKept` and `HistoryInOrder`, from `MessageInv`: the list is a run up to the latest,
  and each sender that found too many messages still has its one to take away, so that all
  of them together take at most one each too many.
- `NoticeReaches`, from `NoticeInv`: whoever is due has been told, or is still ahead in
  the memory the loop is over, and among the listeners if that memory is still in use.

`ListsProofs`: `Keep` returns a list of the elements kept, in their order, without new
duplicates, and is the only such list; what removals and appends do to it; and what a
loop over a list ends with, if one knows the state after each turn (`LoopedIs`).

**Closed forms.** `Rooms` and `Matchmaking` say in one formula what the code does by
recursion and loops, and everything above rests on these formulas. That they are right is
proved as well.

- `ExitIsSweep` and `UserOutIsExit` (`RoomsProofs`). `exitClient` is a recursive function, so
  it is some solution of its equation, if there is one. `ClosedSolves`: the function that
  is `Sweep` for a client who is in the room, and only removes the room for one who is not,
  solves it. `OneSolution`: two solutions agree on every call, by the least number of
  members for which they would not; the calls inside an exit find a member less. Solving
  it takes the loop over the zombies: the first of them takes all the others out, and the
  later turns find clients without a room (`room.go:351`), so that the room goes. To exit,
  and then to sweep, is one sweep (`MovedInTurn`), the master included. For
  `UserOutIsExit` one needs the three branches of `OnUserOut`, what `App.ExitRoom` and
  `TryExitRoom` do afterwards, and that objects of rooms that nobody refers to are
  always reset (`CollectedIn`, an invariant of its own).
- `LoopsAsClosed` (`MatchmakingProofs`), for groups of any size. `JoinedIs`: after `i` turns
  those of the first `i + 1` users who are in no room are members, in their order, and sit
  from the first seat on as far as there are seats. `RangingLeaves`: with `n = 2h` or
  `n = 2h - 1` users, each of the first `h` turns reads a user at an odd place of the list
  and takes it out; from then on a turn reads the last user, who is in the list
  at most once more.

The type invariants of `FrameSync` and `RoomSteps` (`FrameTypeOK`, `StepsTypeOK`) are
theorems and no run lists them. Only model-checked: `RoomsReclaimed`, `ClosedIsReleased`, `LoopsEnd` and `LockComesFree`.
They are liveness under fairness, which is beyond the prover, as is ENABLED. Every other
property of the runs that pass is a theorem.

## Not modelled

- Queries and paging (`GetRoomList`, `GetQueryRoomList`): they read and change nothing.
- `roomState`, `customData` and old messages of a room: maps and lists that nothing else
  reads.
- What is sent, and the send queue that drops messages when it is full.
- Applications other than one, and two first logins to an application at once.
- The extension API (reflection over code outside the repository), typed access to JSON
  data, certificates, flags and log files.

Some disagreements between code and comments were found on the way and have no run of
their own; each is a plain reading of one place:

- a second login returns the user to a room that is removed at that moment
  (`users.go:33`, against 30); `SweepsExplained` has it as its exception;
- `MatchRoom` with a negative number makes a room with more members than places
  (`server.go:360`, against `room.go:19`), and two that join at once may exceed the maximum
  (`server.go:399`);
- after a match every second player stays in the queue and in the group (`match.go:89`,
  against the comment at 88, that all players leave the match). The model has it so, and
  `LoopsAsClosed` is about what the code does: whom the loop, element by element,
  leaves. It is not a promise that somebody stays;
- ranges admit nobody, since JSON numbers are no `int` (`match.go:132`, against
  `README.md:63`); in the model too, so that an option with a range opens a group of
  its own;
- an offline member can be left in a room that is unlocked while its `OnUserOut` is on
  its way (`client.go:153`), beside connected ones, until somebody leaves;
- a frame that is handled after `OnUserOut` puts its client into a room or on the list of
  listeners, where nobody clears it away (`client_op_message.go:14` asks for no connection);
- two logins of one account at once close the same old connection and leave two open
  (`users.go:28`);
- a new room takes the id that was given back last, not the smallest
  (`server.go:216`, against 215);
- more than 100 server messages are kept while several send at once (`server.go:253`).

## What is left

In this order:

1. `MatchSteps`: two readers in `mathMatch` and `MatchRoom` between each other's steps
   (a number that is skipped, a group that gets two rooms, a client in two rooms), and
   a match between the rest of the steps of `OnUserOut`; with a run for the comment at
   `match.go:88`.
2. The steps of `login`: two of one account at once, and first ones (the counter of
   `uid`s and the unlocked map, the creation of an application).
3. The steps of `SwitchSeat` and of the handlers that lower the maximum.
4. Proofs: what of `MatchSteps` can be stated for any number of readers.
