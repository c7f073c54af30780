----------------------------- MODULE UserStates -----------------------------
(***************************************************************************)
(* The states of the users of a room, and the lock userStateLock of their  *)
(* map (room.go, client_op_message.go): members set their state, ask for   *)
(* everybody's and reset the room while others join, leave, are kicked and *)
(* go offline.                                                             *)
(*                                                                         *)
(* One step is one look of a handler at c.room: every statement reads it   *)
(* anew, another goroutine sets it to nil at any time, and using nil is a  *)
(* panic that ends the reader.  GetRoomData and ExitClient keep the room   *)
(* in a variable of their own.  Users are their clients here; the members  *)
(* that a sweep takes out besides go the same way one by one.              *)
(***************************************************************************)
EXTENDS Lists

CONSTANTS
  Clients, NoClient,
  MaxEvents    \* handlers and ends of connections (bound)

ASSUME UserStatesAssumption == NoClient \notin Clients /\ MaxEvents \in Nat

VARIABLES
  users, master,  \* of the Room
  removed,        \* Room.removed: nobody finds it any more
  inRoom,         \* clients whose Client.room is the room; nil for the others
  userState,      \* Room.userState: the updates in each user's state; none is nil
  holder,         \* the goroutine that has locked userStateLock
  thread,         \* the goroutines: of each client the reader and OnUserOut
  out,            \* clients whose OnUserOut has begun
  events,         \* handlers and ends of connections so far
  stored,         \* updates stored since a user came in and since the last reset
  overtaken       \* clients that came back before their leaving was over

stateVars == <<users, master, removed, inRoom, userState, holder, thread, out, events,
               stored, overtaken>>
roomVars == <<users, master, removed, inRoom, overtaken>>

Threads == {"reader", "OnUserOut"} \X Clients
NoThread == <<"none", NoClient>>
Reader(c) == <<"reader", c>>
Outgoing(c) == <<"OnUserOut", c>>

\* A thread is at a label of a handler; ExitClient takes out `who`; SetClientState
\* has the state `update` to store, a request the users `todo` to look up.
Idle == [at |-> "idle", op |-> "none", who |-> NoClient, update |-> {}, todo |-> {}]

IsAt(t, at, op) == thread[t].at = at /\ thread[t].op = op
Goes(t, s) == thread' = [thread EXCEPT ![t] = s]
GoesTo(t, at) == Goes(t, [thread[t] EXCEPT !.at = at])
Begins(t, at, op) == Goes(t, [Idle EXCEPT !.at = at, !.op = op])

Ended(c) == Goes(Reader(c), [Idle EXCEPT !.at = "ended"])

-----------------------------------------------------------------------------
\* The lock.

SlipHeld == holder
Freed == NoThread

Acquire(t) ==
  /\ thread[t].at = "waits" /\ holder = NoThread
  /\ holder' = t
  /\ GoesTo(t, "holds")
  /\ UNCHANGED <<roomVars, userState, stored>>

\* A statement of c's reader that uses c.room: at the next label when there is one,
\* the end of the reader when there is none.
Uses(c, next) == IF c \in inRoom THEN GoesTo(Reader(c), next) ELSE Ended(c)

\* Lock() is called on the lock of the room that c.room was.
AsksForLock(c) ==
  /\ thread[Reader(c)].at = "asks" /\ thread[Reader(c)].op \in {"set", "request"}
  /\ Uses(c, "waits")
  /\ UNCHANGED <<roomVars, userState, holder, stored>>

-----------------------------------------------------------------------------
\* SetClientState, once it has the lock.

\* A panic before the deferred unlock is registered leaves the lock held.
DefersUnlock(c) ==
  /\ IsAt(Reader(c), "holds", "set")
  /\ Uses(c, "read")
  /\ UNCHANGED <<roomVars, userState, holder, stored>>

\* What the user has already is changed in place, before it is stored again.
ReadState(c) ==
  LET update == thread[Reader(c)].update \cup userState[c]
  IN  /\ IsAt(Reader(c), "read", "set")
      /\ IF c \in inRoom
         THEN /\ userState' = IF userState[c] = {} THEN userState
                              ELSE [userState EXCEPT ![c] = update]
              /\ Goes(Reader(c), [thread[Reader(c)] EXCEPT !.at = "store",
                                                           !.update = update])
              /\ UNCHANGED holder
         ELSE Ended(c) /\ holder' = Freed /\ UNCHANGED userState
      /\ UNCHANGED <<roomVars, stored>>

StoreState(c) ==
  /\ IsAt(Reader(c), "store", "set")
  /\ IF c \in inRoom
     THEN /\ userState' = [userState EXCEPT ![c] = thread[Reader(c)].update]
          /\ stored' = [stored EXCEPT ![c] = thread[Reader(c)].update]
          /\ GoesTo(Reader(c), "tell")
          /\ UNCHANGED holder
     ELSE Ended(c) /\ holder' = Freed /\ UNCHANGED <<userState, stored>>
  /\ UNCHANGED roomVars

\* The others are told, and the handler returns.
TellState(c) ==
  /\ IsAt(Reader(c), "tell", "set")
  /\ holder' = Freed
  /\ IF c \in inRoom THEN Goes(Reader(c), Idle) ELSE Ended(c)
  /\ UNCHANGED <<roomVars, userState, stored>>

-----------------------------------------------------------------------------
\* RoomMessage that asks for the roles selected, once it has the lock: no unlock is
\* deferred, and c.room is read for every user that has a state.

RangesOverStates(c) ==
  /\ IsAt(Reader(c), "holds", "request")
  /\ IF c \in inRoom
     THEN Goes(Reader(c), [thread[Reader(c)] EXCEPT !.at = "range",
                             !.todo = {d \in Clients : userState[d] # {}}])
     ELSE Ended(c)
  /\ UNCHANGED <<roomVars, userState, holder, stored>>

FindsPlace(c) ==
  /\ IsAt(Reader(c), "range", "request")
  /\ \E d \in thread[Reader(c)].todo :
       IF c \in inRoom
       THEN Goes(Reader(c), [thread[Reader(c)] EXCEPT !.todo = @ \ {d}])
       ELSE Ended(c)
  /\ UNCHANGED <<roomVars, userState, holder, stored>>

AnswersRequest(c) ==
  /\ IsAt(Reader(c), "range", "request") /\ thread[Reader(c)].todo = {}
  /\ IF c \in inRoom THEN Goes(Reader(c), Idle) /\ holder' = Freed
     ELSE Ended(c) /\ UNCHANGED holder
  /\ UNCHANGED <<roomVars, userState, stored>>

\* GetRoomData, which JoinClient sends to the new member.
GetRoomData(c) ==
  /\ IsAt(Reader(c), "holds", "join")
  /\ Goes(Reader(c), Idle)
  /\ holder' = Freed
  /\ UNCHANGED <<roomVars, userState, stored>>

-----------------------------------------------------------------------------
\* ExitClient, run by the reader of the client itself or of the master, or by the
\* client's OnUserOut.

\* The room is taken for empty when the client has left already.
Leave(t) ==
  LET c == thread[t].who
  IN  /\ IsAt(t, "check", "exit")
      /\ IF c \in inRoom
         THEN /\ users' = Keep(users, Clients \ {c}) /\ inRoom' = inRoom \ {c}
              /\ GoesTo(t, "count")
              /\ UNCHANGED removed
         ELSE /\ removed' = TRUE
              /\ Goes(t, Idle)
              /\ UNCHANGED <<users, inRoom>>
      /\ UNCHANGED <<master, userState, holder, stored, overtaken>>

Count(t) ==
  /\ IsAt(t, "count", "exit")
  /\ IF users = <<>>
     THEN removed' = TRUE /\ Goes(t, Idle) /\ UNCHANGED master
     ELSE /\ master' = IF master = thread[t].who THEN users[1] ELSE master
          /\ GoesTo(t, "waits")
          /\ UNCHANGED removed
  /\ UNCHANGED <<users, inRoom, userState, holder, stored, overtaken>>

SlipKeepsState(c) == userState
Forgotten(c) == [userState EXCEPT ![c] = {}]

ClearState(t) ==
  /\ IsAt(t, "holds", "exit")
  /\ userState' = Forgotten(thread[t].who)
  /\ holder' = Freed
  /\ Goes(t, Idle)
  /\ UNCHANGED <<roomVars, stored>>

ThreadStep(t) ==
  /\ UNCHANGED <<out, events>>
  /\ \/ Acquire(t) \/ Leave(t) \/ Count(t) \/ ClearState(t)
     \/ \E c \in Clients :
          /\ t = Reader(c)
          /\ \/ AsksForLock(c) \/ DefersUnlock(c) \/ ReadState(c) \/ StoreState(c)
             \/ TellState(c) \/ RangesOverStates(c) \/ FindsPlace(c)
             \/ AnswersRequest(c) \/ GetRoomData(c)

-----------------------------------------------------------------------------
\* The handlers begin.

Happens == events < MaxEvents /\ events' = events + 1

\* Frames that the reader had buffered are handled after OnUserOut as well.
Handles(c) ==
  /\ thread[Reader(c)] = Idle
  /\ Happens
  /\ UNCHANGED <<holder, out>>

MemberHandles(c) == Handles(c) /\ c \in inRoom

SetClientState(c) ==
  /\ MemberHandles(c)
  /\ Goes(Reader(c), [Idle EXCEPT !.at = "asks", !.op = "set", !.update = {events + 1}])
  /\ UNCHANGED <<roomVars, userState, stored>>

RequestRoleSelectState(c) ==
  /\ MemberHandles(c)
  /\ Begins(Reader(c), "asks", "request")
  /\ UNCHANGED <<roomVars, userState, stored>>

\* The map is replaced without the lock.
ResetRoom(c) ==
  /\ MemberHandles(c)
  /\ userState' = [d \in Clients |-> {}] /\ stored' = [d \in Clients |-> {}]
  /\ UNCHANGED <<roomVars, thread>>

ExitRoom(c) ==
  /\ MemberHandles(c)
  /\ Goes(Reader(c), [Idle EXCEPT !.at = "check", !.op = "exit", !.who = c])
  /\ UNCHANGED <<roomVars, userState, stored>>

KickOut(c) ==
  /\ MemberHandles(c) /\ master = c
  /\ \E d \in Elems(users) \ {c} :
       Goes(Reader(c), [Idle EXCEPT !.at = "check", !.op = "exit", !.who = d])
  /\ UNCHANGED <<roomVars, userState, stored>>

\* Somebody is taking c out.
TakenOut(c) == \E t \in Threads : thread[t].who = c

JoinRoom(c) ==
  /\ Handles(c) /\ c \notin inRoom /\ ~removed
  /\ users' = Append(users, c) /\ inRoom' = inRoom \cup {c}
  /\ stored' = [stored EXCEPT ![c] = {}]
  /\ overtaken' = IF TakenOut(c) THEN overtaken \cup {c} ELSE overtaken
  /\ Begins(Reader(c), "waits", "join")
  /\ UNCHANGED <<master, removed, userState>>

\* The connection ends, whatever its reader is doing; the room is not locked.
OnUserOut(c) ==
  /\ c \notin out /\ out' = out \cup {c}
  /\ Happens
  /\ IF c \in inRoom
     THEN Goes(Outgoing(c), [Idle EXCEPT !.at = "check", !.op = "exit", !.who = c])
     ELSE UNCHANGED thread
  /\ UNCHANGED <<roomVars, userState, holder, stored>>

-----------------------------------------------------------------------------
\* A room whose members have not set their states yet.
StatesInit ==
  /\ \E n \in 1..Cardinality(Clients) : users \in [1..n -> Clients]
  /\ NoDuplicates(users)
  /\ master = users[1] /\ inRoom = Elems(users) /\ removed = FALSE
  /\ userState = [c \in Clients |-> {}] /\ stored = [c \in Clients |-> {}]
  /\ holder = NoThread /\ thread = [t \in Threads |-> Idle]
  /\ out = {} /\ overtaken = {} /\ events = 0

StatesNext ==
  \/ \E t \in Threads : ThreadStep(t)
  \/ \E c \in Clients :
       \/ SetClientState(c) \/ RequestRoleSelectState(c) \/ ResetRoom(c)
       \/ ExitRoom(c) \/ KickOut(c) \/ JoinRoom(c) \/ OnUserOut(c)

StatesSpec == StatesInit /\ [][StatesNext]_stateVars

\* A goroutine that can go on does; a lock that comes free is had by one that waits.
StatesFairness == \A t \in Threads : WF_stateVars(ThreadStep(t))

FairStatesSpec == StatesSpec /\ StatesFairness

-----------------------------------------------------------------------------
Labels == {"idle", "ended", "asks", "waits", "holds", "read", "store", "tell", "range",
           "check", "count"}

StatesTypeOK ==
  /\ users \in Seq(Clients) /\ master \in Clients /\ removed \in BOOLEAN
  /\ inRoom \subseteq Clients /\ out \subseteq Clients /\ overtaken \subseteq Clients
  /\ userState \in [Clients -> SUBSET (1..MaxEvents)]
  /\ stored \in [Clients -> SUBSET (1..MaxEvents)]
  /\ holder \in Threads \cup {NoThread} /\ events \in 0..MaxEvents
  /\ thread \in [Threads ->
       [at : Labels, op : {"none", "set", "request", "join", "exit"},
        who : Clients \cup {NoClient}, update : SUBSET (1..MaxEvents),
        todo : SUBSET Clients]]

\* Types; and while the room can be found, who has left it has no state in it, so that
\* nobody who comes with his uid inherits one; and what a member has stored is there
\* until a reset, whoever leaves, resets or is kicked meanwhile, unless he came back
\* before the handler that took him out had cleared his state.
StatesOfMembers ==
  /\ StatesTypeOK
  /\ removed \/ \A c \in Clients :
       /\ c \notin inRoom /\ ~TakenOut(c) => userState[c] = {}
       /\ c \in inRoom \ overtaken => stored[c] \subseteq userState[c]

\* The goroutine that has locked has ended.
Abandoned == holder # NoThread /\ thread[holder].at = "ended"

\* Who waits for the lock gets it, or waits for a goroutine that has ended.
LockComesFree ==
  \A t \in Threads : thread[t].at = "waits" ~> thread[t].at # "waits" \/ Abandoned

-----------------------------------------------------------------------------
\* What a comment says and the code does not do.

\* room.go:318: the lock is held for writes to the map only, so that there is no
\* deadlock; so nobody ends with it, which would be one of all who leave.
LockReleased == ~Abandoned
=============================================================================
