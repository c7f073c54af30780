----------------------------- MODULE RoomSteps -----------------------------
(***************************************************************************)
(* One room and the goroutines that work on it at the same time, one step  *)
(* per access to what they share (room.go, server.go, client.go, users.go):*)
(* of every client the reader, which runs its handlers one by one, and the *)
(* goroutine of its OnUserOut.  Rooms has whole handlers as its steps;     *)
(* here is what remains true when they run between each other's steps.     *)
(*                                                                         *)
(* Only Array.Push, Remove and Length and the flag `removed` are guarded   *)
(* by locks.  What a goroutine does between two calls is one step, but for *)
(* the choice of an heir, who is read in one step and stored in another;   *)
(* a loop over a list reads the list as it is when it starts.              *)
(***************************************************************************)
EXTENDS Lists

CONSTANTS
  Clients, NoClient,
  MaxCounts,   \* capacity of the room
  MaxEvents    \* handlers and breaks of sockets after the first state (bound)

ASSUME StepsAssumption ==
  /\ IsFiniteSet(Clients) /\ NoClient \notin Clients
  /\ MaxCounts \in Nat \ {0} /\ MaxEvents \in Nat

VARIABLES
  room,       \* the Room: users, master, lock, its flag removed, whether App.rooms
              \* has it, and how often its id has been given back
  inRoom,     \* clients whose Client.room is the room; nil for the others
  online,     \* Client.Connected
  loggedIn,   \* clients whose Client.uid is set
  conn,       \* of every connection: "open", "closed", "out" (OnUserOut has run)
  thread,     \* the goroutines
  events,     \* handlers and breaks so far
  crashed,    \* the process has ended
  overlapped, \* clients whose reader was in a handler while their OnUserOut ran, or
              \* while another goroutine took them out of the room
  late        \* clients of which a handler began when OnUserOut had begun

stepVars == <<room, inRoom, online, loggedIn, conn, thread, events, crashed, overlapped,
              late>>

Reader(c) == <<"reader", c>>
Outgoing(c) == <<"OnUserOut", c>>
Threads == {"reader", "OnUserOut"} \X Clients

(***************************************************************************)
(* A thread is at a label of its handler; at "call" it executes the top of *)
(* its stack of calls of ExitClient, cleanZombieClients and removeRoom,    *)
(* and it goes on at `then` when the stack is empty.  `old` is the client  *)
(* whose login a Login takes over, and `list` the members TryExitRoom has  *)
(* yet to take out.                                                        *)
(***************************************************************************)
Idle == [at |-> "idle", stack |-> <<>>, then |-> "idle", old |-> NoClient,
         list |-> <<>>]

\* A call is at a step of ExitClient (check, same, drop, leave, count, heir, crown), of
\* cleanZombieClients (sweep, next) or of removeRoom (remove, delist, recycle).
Call(at, who) == [at |-> at, who |-> who, todo |-> <<>>]

Calls(s, call, then) ==
  [s EXCEPT !.at = "call", !.stack = <<call>>, !.then = then]

Top(t) == thread[t].stack[Len(thread[t].stack)]

IsAt(t, at) == thread[t].at = at
CallAt(t, at) == IsAt(t, "call") /\ Top(t).at = at

\* A goroutine that works on c besides c's own reader.
TakenOut(c, threads) ==
  \/ threads[Outgoing(c)] # Idle
  \/ \E t \in Threads \ {Reader(c)} : \E i \in DOMAIN threads[t].stack :
        threads[t].stack[i].who = c

Goes(t, s) ==
  /\ thread' = [thread EXCEPT ![t] = s]
  /\ overlapped' = overlapped \cup
       {c \in Clients : thread'[Reader(c)] # Idle /\ TakenOut(c, thread')}

GoesTo(t, at) == Goes(t, [thread[t] EXCEPT !.at = at])

\* The call on top goes on as `call`; it calls another; it returns.
Continues(t, call) ==
  Goes(t, [thread[t] EXCEPT !.stack = [@ EXCEPT ![Len(@)] = call]])
ContinuesAt(t, at) == Continues(t, [Top(t) EXCEPT !.at = at])
CallsWith(t, rest, call) ==
  Goes(t, [thread[t] EXCEPT !.stack = Append([@ EXCEPT ![Len(@)] = rest], call)])
Returns(t) ==
  LET rest == SubSeq(thread[t].stack, 1, Len(thread[t].stack) - 1)
  IN  Goes(t, [thread[t] EXCEPT !.stack = rest,
                                !.at = IF rest = <<>> THEN thread[t].then ELSE @])

Closed(c) == [conn EXCEPT ![c] = IF @ = "open" THEN "closed" ELSE @]

\* GoRecover saves the process from the panic of a reader, whose connection is then
\* closed; the goroutine of an OnUserOut has no such thing.
Panics(t) ==
  IF t[1] = "reader" THEN /\ Goes(t, Idle) /\ conn' = Closed(t[2])
                          /\ UNCHANGED crashed
  ELSE /\ crashed' = TRUE
       /\ UNCHANGED <<thread, overlapped, conn>>

-----------------------------------------------------------------------------
\* ExitClient

\* A client whose room is already nil: the room is removed, whoever is in it.
Check(t) ==
  /\ CallAt(t, "check")
  /\ ContinuesAt(t, IF Top(t).who \in inRoom THEN "same" ELSE "remove")
  /\ UNCHANGED <<room, inRoom, conn, crashed>>

\* client.room.id, of a room that may be nil by now.
SameRoom(t) ==
  /\ CallAt(t, "same")
  /\ IF Top(t).who \notin inRoom THEN Panics(t)
     ELSE ContinuesAt(t, "drop") /\ UNCHANGED <<conn, crashed>>
  /\ UNCHANGED <<room, inRoom>>

Drop(t) ==
  /\ CallAt(t, "drop")
  /\ room' = [room EXCEPT !.users = Keep(@, Clients \ {Top(t).who})]
  /\ ContinuesAt(t, "leave")
  /\ UNCHANGED <<inRoom, conn, crashed>>

SlipStays(c) == inRoom
Gone(c) == inRoom \ {c}

Leave(t) ==
  /\ CallAt(t, "leave")
  /\ inRoom' = Gone(Top(t).who)
  /\ CallsWith(t, [Top(t) EXCEPT !.at = "count"], Call("sweep", NoClient))
  /\ UNCHANGED <<room, conn, crashed>>

SlipCountsOne(n) == n = 1
NobodyLeft(n) == n = 0

Count(t) ==
  /\ CallAt(t, "count")
  /\ ContinuesAt(t, IF NobodyLeft(Len(room.users)) THEN "remove" ELSE "heir")
  /\ UNCHANGED <<room, inRoom, conn, crashed>>

\* The first of the list, which others may have emptied since it was counted.
ChooseHeir(t) ==
  /\ CallAt(t, "heir")
  /\ IF room.master # Top(t).who THEN Returns(t) /\ UNCHANGED <<conn, crashed>>
     ELSE IF room.users = <<>> THEN Panics(t)
     ELSE /\ Continues(t, [Top(t) EXCEPT !.at = "crown", !.todo = <<room.users[1]>>])
          /\ UNCHANGED <<conn, crashed>>
  /\ UNCHANGED <<room, inRoom>>

Crown(t) ==
  /\ CallAt(t, "crown")
  /\ room' = [room EXCEPT !.master = Top(t).todo[1]]
  /\ Returns(t)
  /\ UNCHANGED <<inRoom, conn, crashed>>

-----------------------------------------------------------------------------
\* cleanZombieClients

OnlineMembers == Keep(room.users, online)
Offline == Keep(room.users, Clients \ online)

Sweep(t) ==
  /\ CallAt(t, "sweep")
  /\ Continues(t, [Top(t) EXCEPT !.at = "next", !.todo = Offline])
  /\ UNCHANGED <<room, inRoom, conn, crashed>>

NextZombie(t) ==
  /\ CallAt(t, "next")
  /\ IF Top(t).todo = <<>> THEN Returns(t)
     ELSE CallsWith(t, [Top(t) EXCEPT !.todo = Tail(@)], Call("check", Top(t).todo[1]))
  /\ UNCHANGED <<room, inRoom, conn, crashed>>

-----------------------------------------------------------------------------
\* removeRoom

SlipForgetsFlag(r) == r
Flagged(r) == [r EXCEPT !.removed = TRUE]

\* Under removeMu.
TestRemoved(t) ==
  /\ CallAt(t, "remove")
  /\ IF room.removed THEN Returns(t) ELSE ContinuesAt(t, "delist")
  /\ room' = Flagged(room)
  /\ UNCHANGED <<inRoom, conn, crashed>>

Delist(t) ==
  /\ CallAt(t, "delist")
  /\ room' = [room EXCEPT !.listed = FALSE]
  /\ ContinuesAt(t, "recycle")
  /\ UNCHANGED <<inRoom, conn, crashed>>

RecycleId(t) ==
  /\ CallAt(t, "recycle")
  /\ room' = [room EXCEPT !.freed = @ + 1]
  /\ Returns(t)
  /\ UNCHANGED <<inRoom, conn, crashed>>

CallStep(t) ==
  /\ UNCHANGED <<online, loggedIn, events, late>>
  /\ \/ Check(t) \/ SameRoom(t) \/ Drop(t) \/ Leave(t) \/ Count(t) \/ ChooseHeir(t)
     \/ Crown(t) \/ Sweep(t) \/ NextZombie(t)
     \/ TestRemoved(t) \/ Delist(t) \/ RecycleId(t)

-----------------------------------------------------------------------------
\* The handlers, each run by the reader of its client c, which may still have frames
\* in its buffer when the connection has ended.

Begins(c) ==
  /\ IsAt(Reader(c), "idle")
  /\ events < MaxEvents /\ events' = events + 1
  /\ late' = late \cup ({c} \ online)
  /\ UNCHANGED <<inRoom, online, conn, crashed>>

Handles(c) == Begins(c) /\ c \in loggedIn /\ UNCHANGED loggedIn

ReaderCalls(c, call, then) == Goes(Reader(c), Calls(Idle, call, then))

JoinRoom(c) ==
  /\ Handles(c) /\ c \notin inRoom
  /\ room.listed /\ ~room.lock /\ Len(room.users) < MaxCounts
  /\ GoesTo(Reader(c), "push")
  /\ UNCHANGED room

ExitRoom(c) ==
  /\ Handles(c) /\ c \in inRoom
  /\ ReaderCalls(c, Call("check", c), "idle")
  /\ UNCHANGED room

MasterHandles(c) == Handles(c) /\ c \in inRoom /\ room.master = c

KickOut(c) ==
  /\ MasterHandles(c)
  /\ \E d \in Elems(room.users) \ {c} : ReaderCalls(c, Call("check", d), "idle")
  /\ UNCHANGED room

LockRoom(c) ==
  /\ MasterHandles(c)
  /\ room' = [room EXCEPT !.lock = TRUE]
  /\ UNCHANGED <<thread, overlapped>>

UnlockRoom(c) ==
  /\ MasterHandles(c)
  /\ room' = [room EXCEPT !.lock = FALSE]
  /\ GoesTo(Reader(c), "unlocked")

\* c.room is read again after the lobby has been told.
SweepUnlocked(c) ==
  /\ IsAt(Reader(c), "unlocked")
  /\ IF c \notin inRoom THEN Panics(Reader(c))
     ELSE /\ ReaderCalls(c, Call("sweep", NoClient), "idle")
          /\ UNCHANGED <<conn, crashed>>
  /\ UNCHANGED <<room, inRoom, online, loggedIn, events, late>>

\* A login with the account of d: it takes d's place in the room.
Login(c) ==
  /\ Begins(c) /\ c \notin loggedIn
  /\ loggedIn' = loggedIn \cup {c}
  /\ \E d \in loggedIn :
       LET s == [Idle EXCEPT !.old = d]
       IN  Goes(Reader(c), IF d \in inRoom THEN Calls(s, Call("check", d), "push")
                           ELSE [s EXCEPT !.at = "close"])
  /\ UNCHANGED room

\* JoinClient, in two steps.
PushMember(c) ==
  /\ IsAt(Reader(c), "push")
  /\ room' = [room EXCEPT !.users = Append(@, c)]
  /\ GoesTo(Reader(c), "enter")
  /\ UNCHANGED <<inRoom, online, loggedIn, conn, events, crashed, late>>

EnterRoom(c) ==
  /\ IsAt(Reader(c), "enter")
  /\ inRoom' = inRoom \cup {c}
  /\ IF thread[Reader(c)].old = NoClient THEN Goes(Reader(c), Idle)
     ELSE GoesTo(Reader(c), "close")
  /\ UNCHANGED <<room, online, loggedIn, conn, events, crashed, late>>

CloseOld(c) ==
  /\ IsAt(Reader(c), "close")
  /\ conn' = Closed(thread[Reader(c)].old)
  /\ Goes(Reader(c), Idle)
  /\ UNCHANGED <<room, inRoom, online, loggedIn, events, crashed, late>>

ReaderStep(c) ==
  \/ JoinRoom(c) \/ ExitRoom(c) \/ KickOut(c) \/ LockRoom(c) \/ UnlockRoom(c)
  \/ SweepUnlocked(c) \/ Login(c) \/ PushMember(c) \/ EnterRoom(c) \/ CloseOld(c)

-----------------------------------------------------------------------------
\* The end of a connection, and OnUserOut.

\* The socket breaks, whatever the reader is doing.
Disconnect(c) ==
  /\ conn[c] = "open"
  /\ events < MaxEvents /\ events' = events + 1
  /\ conn' = Closed(c)
  /\ UNCHANGED <<room, inRoom, online, loggedIn, thread, crashed, overlapped, late>>

OutAt(c, at) ==
  /\ IsAt(Outgoing(c), at)
  /\ UNCHANGED <<room, inRoom, loggedIn, events, late>>

GoOffline(c) ==
  /\ OutAt(c, "idle") /\ conn[c] = "closed"
  /\ online' = online \ {c}
  /\ GoesTo(Outgoing(c), "room")
  /\ UNCHANGED <<conn, crashed>>

\* Leads to the end of what OnUserOut does to rooms.
Finishes(c) ==
  /\ Goes(Outgoing(c), Idle)
  /\ conn' = [conn EXCEPT ![c] = "out"]

\* Goes on at the label when c.room is not nil.
WithRoom(c, at) ==
  IF c \in inRoom THEN GoesTo(Outgoing(c), at) /\ UNCHANGED conn ELSE Finishes(c)

HasRoom(c) == OutAt(c, "room") /\ WithRoom(c, "invalid") /\ UNCHANGED <<online, crashed>>

\* isInvalidRoom is asked of c.room, which may be nil by now: then it is.
IsInvalidRoom(c) ==
  /\ OutAt(c, "invalid")
  /\ GoesTo(Outgoing(c), IF c \notin inRoom \/ OnlineMembers = <<>> THEN "try" ELSE "lock")
  /\ UNCHANGED <<online, conn, crashed>>

\* c.room.lock
IsLocked(c) ==
  /\ OutAt(c, "lock")
  /\ IF c \notin inRoom THEN Panics(Outgoing(c))
     ELSE /\ GoesTo(Outgoing(c), IF room.lock THEN "tell" ELSE "exit")
          /\ UNCHANGED <<conn, crashed>>
  /\ UNCHANGED online

\* c.room.SendToAllUserOp
TellOthers(c) ==
  /\ OutAt(c, "tell")
  /\ IF c \notin inRoom THEN Panics(Outgoing(c))
     ELSE GoesTo(Outgoing(c), "try") /\ UNCHANGED <<conn, crashed>>
  /\ UNCHANGED online

\* App.ExitRoom
OutExitRoom(c) ==
  /\ OutAt(c, "exit")
  /\ IF c \notin inRoom THEN Finishes(c)
     ELSE /\ Goes(Outgoing(c), Calls(Idle, Call("check", c), "emptied"))
          /\ UNCHANGED conn
  /\ UNCHANGED <<online, crashed>>

RemoveEmptied(c) ==
  /\ OutAt(c, "emptied")
  /\ IF room.users # <<>> THEN Finishes(c)
     ELSE /\ Goes(Outgoing(c), Calls(Idle, Call("remove", NoClient), "done"))
          /\ UNCHANGED conn
  /\ UNCHANGED <<online, crashed>>

\* TryExitRoom: unless somebody else is connected, everybody leaves.
TryExitRoom(c) ==
  /\ OutAt(c, "try")
  /\ IF c \in inRoom /\ Keep(OnlineMembers, Clients \ {c}) = <<>>
     THEN /\ Goes(Outgoing(c), [Idle EXCEPT !.at = "all", !.list = room.users])
          /\ UNCHANGED conn
     ELSE Finishes(c)
  /\ UNCHANGED <<online, crashed>>

ExitAll(c) ==
  LET s == thread[Outgoing(c)]
  IN  /\ OutAt(c, "all")
      /\ Goes(Outgoing(c),
              IF s.list # <<>>
              THEN Calls([s EXCEPT !.list = Tail(@)], Call("check", s.list[1]), "all")
              ELSE Calls(s, Call("remove", NoClient), "done"))
      /\ UNCHANGED <<online, conn, crashed>>

OutDone(c) == OutAt(c, "done") /\ Finishes(c) /\ UNCHANGED <<online, crashed>>

OutStep(c) ==
  \/ GoOffline(c) \/ HasRoom(c) \/ IsInvalidRoom(c) \/ IsLocked(c) \/ TellOthers(c)
  \/ OutExitRoom(c) \/ RemoveEmptied(c) \/ TryExitRoom(c) \/ ExitAll(c) \/ OutDone(c)

-----------------------------------------------------------------------------
(***************************************************************************)
(* A room as whole handlers leave it: the longest standing member is its   *)
(* master, somebody is connected, and offline members are there only in a  *)
(* locked room.  At most one client has not logged in.                     *)
(***************************************************************************)
StepsInit ==
  /\ inRoom \in SUBSET Clients \ {{}}
  /\ \E users \in [1..Cardinality(inRoom) -> inRoom], lock \in BOOLEAN :
       /\ Elems(users) = inRoom /\ Len(users) <= MaxCounts
       /\ room = [users |-> users, master |-> users[1], lock |-> lock,
                  removed |-> FALSE, listed |-> TRUE, freed |-> 0]
  /\ \E off \in SUBSET inRoom, guests \in SUBSET (Clients \ inRoom) :
       /\ off = {} \/ (room.lock /\ off # inRoom)
       /\ Cardinality(guests) <= 1
       /\ online = Clients \ off
       /\ loggedIn = Clients \ guests
       /\ conn = [c \in Clients |-> IF c \in off THEN "out" ELSE "open"]
  /\ thread = [t \in Threads |-> Idle]
  /\ events = 0 /\ crashed = FALSE /\ overlapped = {} /\ late = {}

StepsNext ==
  /\ ~crashed
  /\ \/ \E t \in Threads : CallStep(t)
     \/ \E c \in Clients : ReaderStep(c) \/ Disconnect(c) \/ OutStep(c)

StepsSpec == StepsInit /\ [][StepsNext]_stepVars

-----------------------------------------------------------------------------
ReaderLabels == {"push", "enter", "close", "unlocked"}
OutLabels == {"room", "invalid", "lock", "tell", "exit", "emptied", "try", "all", "done"}
Labels == {"idle"} \cup ReaderLabels \cup OutLabels

CallLabels ==
  {"check", "same", "drop", "leave", "count", "heir", "crown", "sweep", "next", "remove",
   "delist", "recycle"}

CallState ==
  {call \in [at : CallLabels, who : Clients \cup {NoClient}, todo : Seq(Clients)] :
     call.at = "crown" => call.todo # <<>>}

ThreadState ==
  {s \in [at : Labels \cup {"call"}, stack : Seq(CallState), then : Labels,
          old : Clients \cup {NoClient}, list : Seq(Clients)] :
     s.at = "call" <=> s.stack # <<>>}

RoomState ==
  [users : Seq(Clients), master : Clients, lock : BOOLEAN, removed : BOOLEAN,
   listed : BOOLEAN, freed : Nat]

\* Types; and a goroutine has calls on its stack exactly when it is at "call".
StepsTypeOK ==
  /\ room \in RoomState
  /\ inRoom \subseteq Clients /\ online \subseteq Clients /\ loggedIn \subseteq Clients
  /\ overlapped \subseteq Clients /\ late \subseteq Clients
  /\ conn \in [Clients -> {"open", "closed", "out"}]
  /\ thread \in [Threads -> ThreadState]
  /\ events \in 0..MaxEvents /\ crashed \in BOOLEAN

\* However many goroutines find the room empty at once, its id is given back once,
\* and only when the room can no longer be found.
IdOnce == room.freed <= 1 /\ (room.freed = 1 => room.removed /\ ~room.listed)

\* Nobody works on the room, and every OnUserOut has run.
AtRest ==
  /\ \A t \in Threads : thread[t] = Idle
  /\ \A c \in Clients : conn[c] # "closed"

\* The members know that they are in the room and nobody else believes it, as soon
\* as nobody works on them, whatever others do at that time; but for clients that
\* were taken out of the room in the middle of a handler of theirs.
MembershipSettles ==
  \A c \in Clients \ overlapped :
     thread[Reader(c)] = Idle /\ ~TakenOut(c, thread) =>
       /\ c \in inRoom <=> c \in Elems(room.users)
       /\ Cardinality({i \in DOMAIN room.users : room.users[i] = c}) <= 1

\* Of several that leave at once, one removes the room: it is not left behind with
\* nobody in it, nor with nobody connected; but for members of which a handler ran
\* beside their OnUserOut, or after it.
NoGhostAtRest ==
  AtRest /\ ~crashed /\ room.listed =>
    /\ room.users # <<>>
    /\ Elems(room.users) \cap (online \cup overlapped \cup late) # {}

-----------------------------------------------------------------------------
\* What a comment says and the code does not do.

\* runtime/recover.go:8: an error in a goroutine is handled, so that it does not
\* bring down the process.
ServerSurvives == ~crashed
=============================================================================
