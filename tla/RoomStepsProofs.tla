-------------------------- MODULE RoomStepsProofs --------------------------
(***************************************************************************)
(* For any number of clients and of handlers that run at the same time:    *)
(* the goroutines of a room keep its types, its id is given back once,     *)
(* Client.room agrees with Room.users once nobody works on the client, and *)
(* no room is left behind empty or with nobody connected.                  *)
(***************************************************************************)
EXTENDS RoomSteps, ListsProofs

\* The goroutines that are to take the room from the list, or to give its id back.
RemovingLabels == {"delist", "recycle"}

Removing(g, i) ==
  i \in DOMAIN thread[g].stack /\ thread[g].stack[i].at \in RemovingLabels

\* The types of the threads are kept, and nobody has begun to remove the room.
Orderly ==
  /\ thread' \in [Threads -> ThreadState] /\ overlapped' \subseteq Clients
  /\ \A g \in Threads : \A i \in DOMAIN thread'[g].stack :
       thread'[g].stack[i].at \in RemovingLabels =>
         Removing(g, i) /\ thread[g].stack[i].at = thread'[g].stack[i].at

RecordState ==
  [at : Labels \cup {"call"}, stack : Seq(CallState), then : Labels,
   old : Clients \cup {NoClient}, list : Seq(Clients)]

LEMMA IdleTyped ==
  Idle \in ThreadState /\ Idle \in RecordState /\ Idle.stack = <<>> /\ Idle.at # "call"
BY DEF Idle, ThreadState, RecordState, Labels

LEMMA CallTyped ==
  ASSUME NEW at \in CallLabels \ {"crown"}, NEW who \in Clients \cup {NoClient}
  PROVE  Call(at, who) \in CallState /\ Call(at, who).at = at
BY DEF Call, CallState

LEMMA TopTyped ==
  ASSUME StepsTypeOK, NEW t \in Threads, IsAt(t, "call")
  PROVE  /\ thread[t] \in RecordState /\ thread[t].stack # <<>>
         /\ Len(thread[t].stack) \in Nat \ {0}
         /\ Top(t) \in CallState
BY DEF StepsTypeOK, IsAt, ThreadState, RecordState, Top

LEMMA GoesOrderly ==
  ASSUME StepsTypeOK, NEW t \in Threads, NEW s \in ThreadState, Goes(t, s),
         \A i \in DOMAIN s.stack :
           s.stack[i].at \in RemovingLabels =>
             Removing(t, i) /\ thread[t].stack[i].at = s.stack[i].at
  PROVE  Orderly
<1>1. thread' = [thread EXCEPT ![t] = s] /\ thread \in [Threads -> ThreadState]
  BY DEF Goes, StepsTypeOK
<1>2. thread' \in [Threads -> ThreadState] /\ overlapped' \subseteq Clients
  BY <1>1 DEF Goes, StepsTypeOK
<1>3. ASSUME NEW g \in Threads, NEW i \in DOMAIN thread'[g].stack,
             thread'[g].stack[i].at \in RemovingLabels
      PROVE  Removing(g, i) /\ thread[g].stack[i].at = thread'[g].stack[i].at
  <2>1. CASE g = t
    BY <1>1, <1>3, <2>1
  <2>2. CASE g # t
    BY <1>1, <1>3, <2>2 DEF Removing
  <2> QED BY <2>1, <2>2
<1> QED BY <1>2, <1>3 DEF Orderly

LEMMA GoesToOrderly ==
  ASSUME StepsTypeOK, NEW t \in Threads, NEW at \in Labels, ~IsAt(t, "call"),
         GoesTo(t, at)
  PROVE  Orderly
<1> DEFINE s == [thread[t] EXCEPT !.at = at]
<1>1. thread[t] \in ThreadState /\ thread[t].stack = <<>>
  BY DEF StepsTypeOK, ThreadState, IsAt
<1>2. s \in ThreadState /\ s.stack = <<>>
  BY <1>1 DEF ThreadState, Labels, ReaderLabels, OutLabels
<1>3. Goes(t, s)
  BY DEF GoesTo
<1>4. DOMAIN s.stack = {}
  BY <1>2
<1> HIDE DEF s
<1> QED BY <1>2, <1>3, <1>4, GoesOrderly

LEMMA CallsOrderly ==
  ASSUME StepsTypeOK, NEW t \in Threads, NEW s \in RecordState, NEW call \in CallState,
         NEW then \in Labels, call.at \notin RemovingLabels, Goes(t, Calls(s, call, then))
  PROVE  Orderly
<1>1. <<call>> \in Seq(CallState) /\ <<call>> # <<>> /\ DOMAIN <<call>> = {1}
  OBVIOUS
<1>2. /\ Calls(s, call, then) \in RecordState
      /\ Calls(s, call, then).stack = <<call>>
      /\ Calls(s, call, then).at = "call"
  BY <1>1 DEF Calls, RecordState
<1>3. Calls(s, call, then) \in ThreadState
  BY <1>1, <1>2 DEF RecordState, ThreadState
<1> QED BY <1>1, <1>2, <1>3, GoesOrderly

\* The call on top is replaced, and everything below it and beside it stays.
LEMMA ContinuesTo ==
  ASSUME StepsTypeOK, NEW t \in Threads, IsAt(t, "call"), NEW call \in CallState,
         Continues(t, call)
  PROVE  LET old == thread[t].stack
             stack == thread'[t].stack
         IN  /\ thread' \in [Threads -> ThreadState] /\ overlapped' \subseteq Clients
             /\ Len(old) \in Nat \ {0} /\ old \in Seq(CallState)
             /\ DOMAIN stack = 1..Len(old)
             /\ stack[Len(old)] = call
             /\ \A i \in 1..Len(old) : i # Len(old) => stack[i] = old[i]
             /\ \A g \in Threads : g # t => thread'[g] = thread[g]
<1> DEFINE old == thread[t].stack
           stack == [old EXCEPT ![Len(old)] = call]
           s == [thread[t] EXCEPT !.stack = stack]
<1>1. thread[t] \in RecordState /\ old # <<>> /\ Len(old) \in Nat \ {0}
  BY TopTyped
<1>2. /\ stack \in Seq(CallState) /\ stack # <<>> /\ DOMAIN stack = 1..Len(old)
      /\ stack[Len(old)] = call
      /\ \A i \in DOMAIN stack : i # Len(old) => stack[i] = old[i]
  BY <1>1 DEF RecordState
<1>3. s \in ThreadState /\ s.stack = stack
  BY <1>1, <1>2 DEF ThreadState, RecordState, IsAt
<1>4. thread' = [thread EXCEPT ![t] = s] /\ thread \in [Threads -> ThreadState]
  BY DEF Continues, Goes, StepsTypeOK
<1>5. overlapped' \subseteq Clients
  BY DEF Continues, Goes, StepsTypeOK
<1>6. old \in Seq(CallState)
  BY <1>1 DEF RecordState
<1> HIDE DEF stack, s
<1>7. thread'[t].stack = stack
  BY <1>3, <1>4
<1>8. thread' \in [Threads -> ThreadState] /\ \A g \in Threads : g # t => thread'[g] = thread[g]
  BY <1>3, <1>4
<1> QED BY <1>1, <1>2, <1>5, <1>6, <1>7, <1>8

LEMMA ContinuesOrderly ==
  ASSUME StepsTypeOK, NEW t \in Threads, IsAt(t, "call"), NEW call \in CallState,
         call.at \notin RemovingLabels, Continues(t, call)
  PROVE  Orderly
<1>1. ASSUME NEW g \in Threads, NEW i \in DOMAIN thread'[g].stack,
             thread'[g].stack[i].at \in RemovingLabels
      PROVE  Removing(g, i) /\ thread[g].stack[i].at = thread'[g].stack[i].at
  <2>1. CASE g = t
    BY <1>1, <2>1, ContinuesTo DEF Removing
  <2>2. CASE g # t
    BY <1>1, <2>2, ContinuesTo DEF Removing
  <2> QED BY <2>1, <2>2
<1>2. thread' \in [Threads -> ThreadState] /\ overlapped' \subseteq Clients
  BY ContinuesTo
<1> QED BY <1>1, <1>2 DEF Orderly

LEMMA ContinuesAtOrderly ==
  ASSUME StepsTypeOK, NEW t \in Threads, IsAt(t, "call"),
         NEW at \in CallLabels \ ({"crown"} \cup RemovingLabels), ContinuesAt(t, at)
  PROVE  Orderly
<1>1. [Top(t) EXCEPT !.at = at] \in CallState /\ [Top(t) EXCEPT !.at = at].at = at
  BY TopTyped DEF CallState
<1> QED BY <1>1, ContinuesOrderly DEF ContinuesAt

LEMMA CallsWithOrderly ==
  ASSUME StepsTypeOK, NEW t \in Threads, IsAt(t, "call"), NEW rest \in CallState,
         NEW call \in CallState, rest.at \notin RemovingLabels,
         call.at \notin RemovingLabels, CallsWith(t, rest, call)
  PROVE  Orderly
<1> DEFINE old == thread[t].stack
           stack == Append([old EXCEPT ![Len(old)] = rest], call)
           s == [thread[t] EXCEPT !.stack = stack]
<1>1. thread[t] \in RecordState /\ old # <<>> /\ Len(old) \in Nat \ {0}
  BY TopTyped
<1>2. /\ stack \in Seq(CallState) /\ stack # <<>> /\ DOMAIN stack = 1..(Len(old) + 1)
      /\ stack[Len(old)] = rest /\ stack[Len(old) + 1] = call
      /\ \A i \in 1..(Len(old) - 1) : stack[i] = old[i]
  BY <1>1 DEF RecordState
<1>3. s \in ThreadState /\ s.stack = stack
  BY <1>1, <1>2 DEF ThreadState, RecordState, IsAt
<1>4. \A i \in DOMAIN stack : stack[i].at \in RemovingLabels =>
        Removing(t, i) /\ old[i].at = stack[i].at
  BY <1>1, <1>2 DEF Removing, RecordState
<1>5. Goes(t, s)
  BY DEF CallsWith
<1> HIDE DEF stack, s, old
<1> QED BY <1>3, <1>4, <1>5, GoesOrderly DEF old

LEMMA ReturnsOrderly ==
  ASSUME StepsTypeOK, NEW t \in Threads, IsAt(t, "call"), Returns(t)
  PROVE  Orderly
<1> DEFINE old == thread[t].stack
           rest == SubSeq(old, 1, Len(old) - 1)
           s == [thread[t] EXCEPT !.stack = rest,
                                  !.at = IF rest = <<>> THEN thread[t].then ELSE @]
<1>1. thread[t] \in RecordState /\ old # <<>> /\ Len(old) \in Nat \ {0}
  BY TopTyped
<1>2. /\ rest \in Seq(CallState) /\ DOMAIN rest = 1..(Len(old) - 1)
      /\ \A i \in DOMAIN rest : rest[i] = old[i]
  BY <1>1 DEF RecordState
<1>3. s \in ThreadState /\ s.stack = rest
  BY <1>1, <1>2 DEF ThreadState, RecordState, IsAt, Labels, ReaderLabels, OutLabels
<1>4. \A i \in DOMAIN rest : rest[i].at \in RemovingLabels =>
        Removing(t, i) /\ old[i].at = rest[i].at
  BY <1>1, <1>2 DEF Removing, RecordState
<1>5. Goes(t, s)
  BY DEF Returns
<1> HIDE DEF rest, s, old
<1> QED BY <1>3, <1>4, <1>5, GoesOrderly DEF old

LEMMA PanicsOrderly ==
  ASSUME StepsTypeOK, NEW t \in Threads, Panics(t)
  PROVE  /\ Orderly
         /\ conn' \in [Clients -> {"open", "closed", "out"}] /\ crashed' \in BOOLEAN
<1>1. CASE t[1] = "reader"
  <2>1. Goes(t, Idle) /\ conn' = Closed(t[2]) /\ crashed' = crashed
    BY <1>1 DEF Panics
  <2>2. Idle.stack = <<>>
    BY DEF Idle
  <2>3. Orderly
    BY <2>1, <2>2, IdleTyped, GoesOrderly
  <2> QED BY <2>1, <2>3 DEF StepsTypeOK, Closed
<1>2. CASE t[1] # "reader"
  <2>1. crashed' = TRUE /\ UNCHANGED <<thread, overlapped, conn>>
    BY <1>2 DEF Panics
  <2>2. Orderly
    BY <2>1 DEF Orderly, StepsTypeOK, Removing
  <2> QED BY <2>1, <2>2 DEF StepsTypeOK
<1> QED BY <1>1, <1>2

\* What a step leaves of the room, when it neither removes it nor gives back its id.
SameId ==
  /\ room'.removed = room.removed /\ room'.listed = room.listed
  /\ room'.freed = room.freed

-----------------------------------------------------------------------------
\* The steps of calls.

LEMMA CallStepOrderly ==
  ASSUME StepsTypeOK, NEW t \in Threads, UNCHANGED <<online, loggedIn, events, late>>,
         \/ Check(t) \/ SameRoom(t) \/ Drop(t) \/ Leave(t) \/ Count(t) \/ ChooseHeir(t)
         \/ Crown(t) \/ Sweep(t) \/ NextZombie(t)
  PROVE  StepsTypeOK' /\ Orderly /\ SameId
<1> USE DEF RemovingLabels
<1>1. /\ room \in RoomState /\ inRoom \subseteq Clients /\ online \subseteq Clients
      /\ conn \in [Clients -> {"open", "closed", "out"}]
      /\ events \in 0..MaxEvents /\ crashed \in BOOLEAN
      /\ online' \subseteq Clients /\ events' \in 0..MaxEvents
  BY DEF StepsTypeOK
<1>2. SUFFICES ASSUME IsAt(t, "call"), Top(t) \in CallState
               PROVE  /\ Orderly /\ SameId
                      /\ room' \in RoomState /\ inRoom' \subseteq Clients
                      /\ conn' \in [Clients -> {"open", "closed", "out"}]
                      /\ crashed' \in BOOLEAN
  <2>1. IsAt(t, "call")
    BY DEF Check, SameRoom, Drop, Leave, Count, ChooseHeir, Crown, Sweep, NextZombie, CallAt
  <2> QED BY <1>1, <2>1, TopTyped DEF StepsTypeOK, Orderly
<1>3. \A S : Keep(room.users, S) \in Seq(Clients)
  BY <1>1, KeepProperties DEF RoomState
<1>4. CASE Check(t)
  <2>1. ContinuesAt(t, "same") \/ ContinuesAt(t, "remove")
    BY <1>4 DEF Check
  <2>2. Orderly
    BY <1>2, <2>1, ContinuesAtOrderly DEF CallLabels
  <2> QED BY <1>1, <1>4, <2>2 DEF Check, SameId
<1>12. CASE SameRoom(t)
  <2>1. Panics(t) \/ (ContinuesAt(t, "drop") /\ UNCHANGED <<conn, crashed>>)
    BY <1>12 DEF SameRoom
  <2>2. /\ Orderly /\ conn' \in [Clients -> {"open", "closed", "out"}]
        /\ crashed' \in BOOLEAN
    BY <1>1, <1>2, <2>1, PanicsOrderly, ContinuesAtOrderly DEF CallLabels
  <2> QED BY <1>1, <1>12, <2>2 DEF SameRoom, SameId
<1>5. CASE Drop(t)
  <2>1. Orderly
    BY <1>2, <1>5, ContinuesAtOrderly DEF CallLabels, Drop
  <2> QED BY <1>1, <1>3, <1>5, <2>1 DEF Drop, SameId, RoomState
<1>6. CASE Leave(t)
  <2>1. /\ [Top(t) EXCEPT !.at = "count"] \in CallState
        /\ [Top(t) EXCEPT !.at = "count"].at = "count"
    BY <1>2 DEF CallState, CallLabels
  <2>2. Call("sweep", NoClient) \in CallState /\ Call("sweep", NoClient).at = "sweep"
    BY CallTyped DEF CallLabels
  <2>3. CallsWith(t, [Top(t) EXCEPT !.at = "count"], Call("sweep", NoClient))
    BY <1>6 DEF Leave
  <2>4. Orderly
    BY <1>2, <2>1, <2>2, <2>3, CallsWithOrderly
  <2> QED BY <1>1, <1>6, <2>4 DEF Leave, Gone, SameId
<1>7. CASE Count(t)
  <2>1. ContinuesAt(t, "heir") \/ ContinuesAt(t, "remove")
    BY <1>7 DEF Count
  <2>2. Orderly
    BY <1>2, <2>1, ContinuesAtOrderly DEF CallLabels
  <2> QED BY <1>1, <1>7, <2>2 DEF Count, SameId
<1>8. CASE ChooseHeir(t)
  <2>1. CASE room.master # Top(t).who
    <3>1. Orderly
      BY <1>2, <1>8, <2>1, ReturnsOrderly DEF ChooseHeir
    <3> QED BY <1>1, <1>8, <2>1, <3>1 DEF ChooseHeir, SameId
  <2>2. CASE room.master = Top(t).who /\ room.users = <<>>
    <3>1. Panics(t)
      BY <1>8, <2>2 DEF ChooseHeir
    <3> QED BY <1>1, <1>8, <3>1, PanicsOrderly DEF ChooseHeir, SameId
  <2>3. CASE room.master = Top(t).who /\ room.users # <<>>
    <3> DEFINE call == [Top(t) EXCEPT !.at = "crown", !.todo = <<room.users[1]>>]
    <3>1. room.users[1] \in Clients
      BY <1>1, <2>3 DEF RoomState
    <3>2. call \in CallState /\ call.at = "crown"
      <4>1. <<room.users[1]>> \in Seq(Clients) /\ <<room.users[1]>> # <<>>
        BY <3>1
      <4>2. Top(t) \in [at : CallLabels, who : Clients \cup {NoClient}, todo : Seq(Clients)]
        BY <1>2 DEF CallState
      <4>3. /\ call \in [at : CallLabels, who : Clients \cup {NoClient}, todo : Seq(Clients)]
            /\ call.at = "crown" /\ call.todo = <<room.users[1]>>
        BY <4>1, <4>2 DEF CallLabels
      <4> QED BY <4>1, <4>3 DEF CallState
    <3>3. Continues(t, call)
      BY <1>8, <2>3 DEF ChooseHeir
    <3>4. Orderly
      BY <1>2, <3>2, <3>3, ContinuesOrderly
    <3> QED BY <1>1, <1>8, <2>3, <3>4 DEF ChooseHeir, SameId
  <2> QED BY <2>1, <2>2, <2>3
<1>9. CASE Crown(t)
  <2>1. Orderly
    BY <1>2, <1>9, ReturnsOrderly DEF Crown
  <2>2. Top(t).todo[1] \in Clients
    BY <1>2, <1>9 DEF Crown, CallAt, CallState
  <2> QED BY <1>1, <1>9, <2>1, <2>2 DEF Crown, SameId, RoomState
<1>10. CASE Sweep(t)
  <2> DEFINE call == [Top(t) EXCEPT !.at = "next", !.todo = Offline]
  <2>1. call \in CallState /\ call.at = "next"
    BY <1>2, <1>3 DEF CallState, CallLabels, Offline
  <2>2. Orderly
    BY <1>2, <1>10, <2>1, ContinuesOrderly DEF Sweep
  <2> QED BY <1>1, <1>10, <2>2 DEF Sweep, SameId
<1>11. CASE NextZombie(t)
  <2>1. CASE Top(t).todo = <<>>
    <3>1. Orderly
      BY <1>2, <1>11, <2>1, ReturnsOrderly DEF NextZombie
    <3> QED BY <1>1, <1>11, <3>1 DEF NextZombie, SameId
  <2>2. CASE Top(t).todo # <<>>
    <3> DEFINE rest == [Top(t) EXCEPT !.todo = Tail(@)]
               call == Call("check", Top(t).todo[1])
    <3>1. Top(t).at = "next"
      BY <1>11 DEF NextZombie, CallAt
    <3>2. /\ Tail(Top(t).todo) \in Seq(Clients) /\ Top(t).todo[1] \in Clients
      BY <1>2, <2>2 DEF CallState
    <3>3. rest \in CallState /\ rest.at = "next"
      BY <1>2, <3>1, <3>2 DEF CallState
    <3>4. call \in CallState /\ call.at = "check"
      BY <3>2, CallTyped DEF CallLabels
    <3>5. CallsWith(t, rest, call)
      BY <1>11, <2>2 DEF NextZombie
    <3> HIDE DEF rest, call
    <3>6. Orderly
      BY <1>2, <3>3, <3>4, <3>5, CallsWithOrderly
    <3> QED BY <1>1, <1>11, <3>6 DEF NextZombie, SameId
  <2> QED BY <2>1, <2>2
<1> QED BY <1>4, <1>5, <1>6, <1>7, <1>8, <1>9, <1>10, <1>11, <1>12

-----------------------------------------------------------------------------
\* The handlers.

LEMMA ReaderOf ==
  ASSUME NEW c \in Clients
  PROVE  Reader(c) \in Threads /\ Outgoing(c) \in Threads
BY DEF Reader, Outgoing, Threads

LEMMA ReaderCallsOrderly ==
  ASSUME StepsTypeOK, NEW c \in Clients, NEW call \in CallState, NEW then \in Labels,
         call.at \notin RemovingLabels, ReaderCalls(c, call, then)
  PROVE  Orderly
BY IdleTyped, ReaderOf, CallsOrderly DEF ReaderCalls

LEMMA ReaderStepOrderly ==
  ASSUME StepsTypeOK, NEW c \in Clients, ReaderStep(c)
  PROVE  StepsTypeOK' /\ Orderly /\ SameId
<1> USE DEF RemovingLabels
<1> USE ReaderOf
<1> DEFINE Conns == [Clients -> {"open", "closed", "out"}]
           Rest == /\ Orderly /\ SameId
                   /\ room' \in RoomState /\ inRoom' \subseteq Clients
                   /\ online' \subseteq Clients /\ conn' \in Conns
                   /\ events' \in 0..MaxEvents /\ crashed' \in BOOLEAN
                   /\ loggedIn' \subseteq Clients /\ late' \subseteq Clients
<1>1. /\ room \in RoomState /\ inRoom \subseteq Clients /\ online \subseteq Clients
      /\ conn \in Conns /\ events \in 0..MaxEvents /\ crashed \in BOOLEAN
      /\ loggedIn \subseteq Clients /\ late \subseteq Clients
  BY DEF StepsTypeOK
<1>2. Rest => StepsTypeOK' /\ Orderly /\ SameId
  BY DEF StepsTypeOK, Orderly
<1>16. Begins(c) => /\ inRoom' \subseteq Clients /\ online' \subseteq Clients
                    /\ conn' \in Conns /\ events' \in 0..MaxEvents /\ crashed' \in BOOLEAN
                    /\ late' \subseteq Clients /\ IsAt(Reader(c), "idle")
  BY <1>1, StepsAssumption DEF Begins
<1>3. Handles(c) => /\ inRoom' \subseteq Clients /\ online' \subseteq Clients
                    /\ conn' \in Conns /\ events' \in 0..MaxEvents /\ crashed' \in BOOLEAN
                    /\ loggedIn' \subseteq Clients /\ late' \subseteq Clients
                    /\ IsAt(Reader(c), "idle")
  BY <1>1, <1>16 DEF Handles
<1>4. \A d \in Clients : Call("check", d) \in CallState /\ Call("check", d).at = "check"
  BY CallTyped DEF CallLabels
<1>5. CASE JoinRoom(c)
  <2>1. Orderly
    BY <1>3, <1>5, GoesToOrderly DEF JoinRoom, Labels, ReaderLabels, IsAt
  <2> QED BY <1>1, <1>2, <1>3, <1>5, <2>1 DEF JoinRoom, SameId
<1>6. CASE ExitRoom(c)
  <2>1. Orderly
    BY <1>4, <1>6, ReaderCallsOrderly DEF ExitRoom, Labels
  <2> QED BY <1>1, <1>2, <1>3, <1>6, <2>1 DEF ExitRoom, SameId
<1>7. CASE KickOut(c)
  <2>1. PICK d \in Elems(room.users) \ {c} : ReaderCalls(c, Call("check", d), "idle")
    BY <1>7 DEF KickOut
  <2>2. d \in Clients
    BY <1>1 DEF RoomState, Elems
  <2>3. Orderly
    BY <1>4, <2>1, <2>2, ReaderCallsOrderly DEF Labels
  <2> QED BY <1>1, <1>2, <1>3, <1>7, <2>3 DEF KickOut, MasterHandles, SameId
<1>8. CASE LockRoom(c)
  <2>1. thread' = thread /\ overlapped' = overlapped
    BY <1>8 DEF LockRoom
  <2>2. Orderly
    BY <2>1 DEF Orderly, StepsTypeOK, Removing
  <2> QED BY <1>1, <1>2, <1>3, <1>8, <2>2 DEF LockRoom, MasterHandles, SameId, RoomState
<1>9. CASE UnlockRoom(c)
  <2>1. Orderly
    BY <1>3, <1>9, GoesToOrderly
       DEF UnlockRoom, MasterHandles, Labels, ReaderLabels, IsAt
  <2> QED BY <1>1, <1>2, <1>3, <1>9, <2>1 DEF UnlockRoom, MasterHandles, SameId, RoomState
<1>10. CASE SweepUnlocked(c)
  <2>1. CASE c \notin inRoom
    <3>1. Panics(Reader(c))
      BY <1>10, <2>1 DEF SweepUnlocked
    <3> QED BY <1>1, <1>2, <1>10, <3>1, PanicsOrderly DEF SweepUnlocked, SameId
  <2>2. CASE c \in inRoom
    <3>1. Call("sweep", NoClient) \in CallState /\ Call("sweep", NoClient).at = "sweep"
      BY CallTyped DEF CallLabels
    <3>2. Orderly
      BY <1>10, <2>2, <3>1, ReaderCallsOrderly DEF SweepUnlocked, Labels
    <3> QED BY <1>1, <1>2, <1>10, <2>2, <3>2 DEF SweepUnlocked, SameId
  <2> QED BY <2>1, <2>2
<1>11. CASE Login(c)
  <2>1. PICK d \in loggedIn :
          Goes(Reader(c), IF d \in inRoom
                          THEN Calls([Idle EXCEPT !.old = d], Call("check", d), "push")
                          ELSE [[Idle EXCEPT !.old = d] EXCEPT !.at = "close"])
    BY <1>11 DEF Login
  <2>7. d \in Clients
    BY <1>1, <2>1
  <2> DEFINE s == [Idle EXCEPT !.old = d]
             closing == [s EXCEPT !.at = "close"]
  <2>2. s \in RecordState /\ closing \in ThreadState /\ closing.stack = <<>>
    <3>1. s \in RecordState /\ s.stack = <<>>
      BY <2>7, IdleTyped DEF RecordState
    <3> HIDE DEF s
    <3>2. closing \in RecordState /\ closing.stack = <<>> /\ closing.at = "close"
      BY <3>1 DEF RecordState, Labels, ReaderLabels
    <3> QED BY <3>1, <3>2 DEF RecordState, ThreadState
  <2>3. ASSUME d \in inRoom PROVE Orderly
    <3>1. Goes(Reader(c), Calls(s, Call("check", d), "push"))
      BY <2>1, <2>3
    <3> HIDE DEF s
    <3> QED BY <1>4, <2>2, <2>7, <3>1, CallsOrderly DEF Labels, ReaderLabels
  <2>4. ASSUME d \notin inRoom PROVE Orderly
    <3>1. Goes(Reader(c), closing)
      BY <2>1, <2>4
    <3>2. DOMAIN closing.stack = {}
      BY <2>2
    <3> HIDE DEF closing
    <3> QED BY <2>2, <3>1, <3>2, GoesOrderly
  <2>5. Orderly
    BY <2>3, <2>4
  <2>6. Begins(c) /\ loggedIn' \subseteq Clients /\ room' = room
    BY <1>1, <1>11 DEF Login
  <2> QED BY <1>1, <1>2, <1>16, <2>5, <2>6 DEF SameId
<1>12. CASE PushMember(c)
  <2>1. Orderly
    BY <1>12, GoesToOrderly DEF PushMember, Labels, ReaderLabels, IsAt
  <2>2. room' \in RoomState /\ SameId
    BY <1>1, <1>12 DEF PushMember, SameId, RoomState
  <2> QED BY <1>1, <1>2, <1>12, <2>1, <2>2 DEF PushMember
<1>13. CASE EnterRoom(c)
  <2>1. ASSUME thread[Reader(c)].old = NoClient PROVE Orderly
    <3>1. Idle.stack = <<>> /\ Goes(Reader(c), Idle)
      BY <1>13, <2>1 DEF Idle, EnterRoom
    <3> QED BY <3>1, IdleTyped, GoesOrderly
  <2>2. ASSUME thread[Reader(c)].old # NoClient PROVE Orderly
    BY <1>13, <2>2, GoesToOrderly DEF EnterRoom, Labels, ReaderLabels, IsAt
  <2> QED BY <1>1, <1>2, <1>13, <2>1, <2>2 DEF EnterRoom, SameId
<1>14. CASE CloseOld(c)
  <2>1. Idle.stack = <<>> /\ Goes(Reader(c), Idle)
    BY <1>14 DEF Idle, CloseOld
  <2>2. Orderly
    BY <2>1, IdleTyped, GoesOrderly
  <2> QED BY <1>1, <1>2, <1>14, <2>2 DEF CloseOld, Closed, SameId
<1> QED BY <1>5, <1>6, <1>7, <1>8, <1>9, <1>10, <1>11, <1>12, <1>13, <1>14 DEF ReaderStep

-----------------------------------------------------------------------------
\* OnUserOut.

LEMMA OutStepOrderly ==
  ASSUME StepsTypeOK, NEW c \in Clients, OutStep(c) \/ Disconnect(c)
  PROVE  StepsTypeOK' /\ Orderly /\ SameId
<1> USE DEF RemovingLabels
<1> USE ReaderOf
<1> DEFINE Conns == [Clients -> {"open", "closed", "out"}]
           Rest == /\ Orderly /\ online' \subseteq Clients
                   /\ conn' \in Conns /\ crashed' \in BOOLEAN
           t == Outgoing(c)
<1>1. /\ room \in RoomState /\ inRoom \subseteq Clients /\ online \subseteq Clients
      /\ conn \in Conns /\ events \in 0..MaxEvents /\ crashed \in BOOLEAN
      /\ thread[t] \in ThreadState
  BY DEF StepsTypeOK
<1>2. Rest /\ UNCHANGED <<room, inRoom, loggedIn, events, late>> =>
        StepsTypeOK' /\ Orderly /\ SameId
  BY <1>1 DEF StepsTypeOK, Orderly, SameId
<1>3. ASSUME Finishes(c) PROVE Orderly /\ conn' \in Conns
  <2>1. Idle.stack = <<>> /\ Goes(t, Idle) /\ conn' \in Conns
    BY <1>1, <1>3 DEF Finishes, Idle
  <2> QED BY <2>1, IdleTyped, GoesOrderly
<1>4. ASSUME NEW at \in Labels, ~IsAt(t, "call"), GoesTo(t, at) PROVE Orderly
  BY <1>4, GoesToOrderly
<1>5. ASSUME Panics(t) PROVE Orderly /\ conn' \in Conns /\ crashed' \in BOOLEAN
  BY <1>5, PanicsOrderly
<1>6. ASSUME NEW s \in RecordState, NEW at \in {"check", "remove"}, NEW then \in Labels,
             NEW d \in Clients \cup {NoClient}, Goes(t, Calls(s, Call(at, d), then))
      PROVE  Orderly
  <2>1. Call(at, d) \in CallState /\ Call(at, d).at \notin RemovingLabels
    BY CallTyped DEF CallLabels
  <2> QED BY <1>6, <2>1, CallsOrderly
<1>7. Idle \in RecordState
  BY IdleTyped
<1> USE DEF OutAt
<1>8. CASE GoOffline(c)
  <2>1. ~IsAt(t, "call") /\ GoesTo(t, "room")
    BY <1>8 DEF GoOffline, IsAt
  <2>2. Orderly
    BY <1>4, <2>1 DEF Labels, OutLabels
  <2> QED BY <1>1, <1>2, <1>8, <2>2 DEF GoOffline
<1>9. CASE HasRoom(c)
  <2>1. Finishes(c) \/ (~IsAt(t, "call") /\ GoesTo(t, "invalid") /\ conn' = conn)
    BY <1>9 DEF HasRoom, WithRoom, IsAt
  <2>2. Orderly /\ conn' \in Conns
    BY <1>1, <1>3, <1>4, <2>1 DEF Labels, OutLabels
  <2> QED BY <1>1, <1>2, <1>9, <2>2 DEF HasRoom
<1>10. CASE IsInvalidRoom(c)
  <2>1. ~IsAt(t, "call") /\ (GoesTo(t, "try") \/ GoesTo(t, "lock"))
    BY <1>10 DEF IsInvalidRoom, IsAt
  <2>2. Orderly
    BY <1>4, <2>1 DEF Labels, OutLabels
  <2> QED BY <1>1, <1>2, <1>10, <2>2 DEF IsInvalidRoom
<1>11. CASE IsLocked(c)
  <2>1. \/ Panics(t)
        \/ /\ ~IsAt(t, "call") /\ (GoesTo(t, "tell") \/ GoesTo(t, "exit"))
           /\ UNCHANGED <<conn, crashed>>
    BY <1>11 DEF IsLocked, IsAt
  <2>2. Orderly /\ conn' \in Conns /\ crashed' \in BOOLEAN
    BY <1>1, <1>4, <1>5, <2>1 DEF Labels, OutLabels
  <2> QED BY <1>1, <1>2, <1>11, <2>2 DEF IsLocked
<1>12. CASE TellOthers(c)
  <2>1. \/ Panics(t)
        \/ ~IsAt(t, "call") /\ GoesTo(t, "try") /\ UNCHANGED <<conn, crashed>>
    BY <1>12 DEF TellOthers, IsAt
  <2>2. Orderly /\ conn' \in Conns /\ crashed' \in BOOLEAN
    BY <1>1, <1>4, <1>5, <2>1 DEF Labels, OutLabels
  <2> QED BY <1>1, <1>2, <1>12, <2>2 DEF TellOthers
<1>13. CASE OutExitRoom(c)
  <2>1. \/ Finishes(c)
        \/ Goes(t, Calls(Idle, Call("check", c), "emptied")) /\ conn' = conn
    BY <1>13 DEF OutExitRoom
  <2>2. Orderly /\ conn' \in Conns
    BY <1>1, <1>3, <1>6, <1>7, <2>1 DEF Labels, OutLabels
  <2> QED BY <1>1, <1>2, <1>13, <2>2 DEF OutExitRoom
<1>14. CASE RemoveEmptied(c)
  <2>1. \/ Finishes(c)
        \/ Goes(t, Calls(Idle, Call("remove", NoClient), "done")) /\ conn' = conn
    BY <1>14 DEF RemoveEmptied
  <2>2. Orderly /\ conn' \in Conns
    BY <1>1, <1>3, <1>6, <1>7, <2>1 DEF Labels, OutLabels
  <2> QED BY <1>1, <1>2, <1>14, <2>2 DEF RemoveEmptied
<1>15. CASE TryExitRoom(c)
  <2> DEFINE s == [Idle EXCEPT !.at = "all", !.list = room.users]
  <2>1. s \in ThreadState /\ s.stack = <<>>
    <3>1. s \in RecordState /\ s.stack = <<>> /\ s.at = "all"
      BY <1>1, IdleTyped DEF RecordState, RoomState, Labels, OutLabels
    <3> QED BY <3>1 DEF ThreadState, RecordState
  <2>2. Finishes(c) \/ (Goes(t, s) /\ conn' = conn)
    BY <1>15 DEF TryExitRoom
  <2>3. DOMAIN s.stack = {}
    BY <2>1
  <2> HIDE DEF s
  <2>4. Orderly /\ conn' \in Conns
    BY <1>1, <1>3, <2>1, <2>2, <2>3, GoesOrderly
  <2> QED BY <1>1, <1>2, <1>15, <2>4 DEF TryExitRoom
<1>16. CASE ExitAll(c)
  <2> DEFINE s == thread[t]
             rest == [s EXCEPT !.list = Tail(@)]
  <2>1. s \in RecordState
    BY <1>1 DEF ThreadState, RecordState
  <2>2. ASSUME s.list # <<>> PROVE Orderly
    <3>1. s.list[1] \in Clients /\ rest \in RecordState
      <4>1. s.list[1] \in Clients /\ Tail(s.list) \in Seq(Clients)
        BY <2>1, <2>2 DEF RecordState
      <4> HIDE DEF s
      <4> QED BY <2>1, <4>1 DEF RecordState
    <3>2. Goes(t, Calls(rest, Call("check", s.list[1]), "all"))
      BY <1>16, <2>2 DEF ExitAll
    <3> HIDE DEF s, rest
    <3> QED BY <1>6, <3>1, <3>2 DEF Labels, OutLabels
  <2>3. ASSUME s.list = <<>> PROVE Orderly
    <3>1. Goes(t, Calls(s, Call("remove", NoClient), "done"))
      BY <1>16, <2>3 DEF ExitAll
    <3> HIDE DEF s
    <3> QED BY <1>6, <2>1, <3>1 DEF Labels, OutLabels
  <2> QED BY <1>1, <1>2, <1>16, <2>2, <2>3 DEF ExitAll
<1>17. CASE OutDone(c)
  BY <1>1, <1>2, <1>3, <1>17 DEF OutDone
<1>18. CASE Disconnect(c)
  <2>1. Orderly
    BY <1>18 DEF Disconnect, Orderly, StepsTypeOK, Removing
  <2> QED BY <1>1, <1>18, <2>1, StepsAssumption
          DEF Disconnect, Closed, Orderly, StepsTypeOK, SameId
<1> QED BY <1>8, <1>9, <1>10, <1>11, <1>12, <1>13, <1>14, <1>15, <1>16, <1>17, <1>18
        DEF OutStep

-----------------------------------------------------------------------------
\* removeRoom.

LEMMA RemoveStepTyped ==
  ASSUME StepsTypeOK, NEW t \in Threads, UNCHANGED <<online, loggedIn, events, late>>,
         TestRemoved(t) \/ Delist(t) \/ RecycleId(t)
  PROVE  StepsTypeOK'
<1>1. IsAt(t, "call") /\ Top(t) \in CallState
  <2>1. IsAt(t, "call")
    BY DEF TestRemoved, Delist, RecycleId, CallAt
  <2> QED BY <2>1, TopTyped
<1>2. \A at \in CallLabels \ {"crown"} : [Top(t) EXCEPT !.at = at] \in CallState
  BY <1>1 DEF CallState
<1>3. thread' \in [Threads -> ThreadState] /\ overlapped' \subseteq Clients
  <2>1. \/ Returns(t)
        \/ Continues(t, [Top(t) EXCEPT !.at = "delist"])
        \/ Continues(t, [Top(t) EXCEPT !.at = "recycle"])
    BY DEF TestRemoved, Delist, RecycleId, ContinuesAt
  <2>2. \A at \in {"delist", "recycle"} : [Top(t) EXCEPT !.at = at] \in CallState
    BY <1>2 DEF CallLabels
  <2>3. CASE Returns(t)
    BY <1>1, <2>3, ReturnsOrderly DEF Orderly
  <2>4. CASE Continues(t, [Top(t) EXCEPT !.at = "delist"])
    BY <1>1, <2>2, <2>4, ContinuesTo
  <2>5. CASE Continues(t, [Top(t) EXCEPT !.at = "recycle"])
    BY <1>1, <2>2, <2>5, ContinuesTo
  <2> QED BY <2>1, <2>3, <2>4, <2>5
<1>4. room' \in RoomState
  <2>1. room \in RoomState
    BY DEF StepsTypeOK
  <2>2. CASE TestRemoved(t)
    BY <2>1, <2>2 DEF TestRemoved, Flagged, RoomState
  <2>3. CASE Delist(t)
    BY <2>1, <2>3 DEF Delist, RoomState
  <2>4. CASE RecycleId(t)
    <3>1. room' = [room EXCEPT !.freed = @ + 1] /\ room.freed + 1 \in Nat
      BY <2>1, <2>4 DEF RecycleId, RoomState
    <3> QED BY <2>1, <3>1 DEF RoomState
  <2> QED BY <2>2, <2>3, <2>4
<1> QED BY <1>3, <1>4 DEF TestRemoved, Delist, RecycleId, StepsTypeOK

(***************************************************************************)
(* What makes the id be given back once: whoever removes the room is alone *)
(* with it, since the flag is set when he begins; he has not given the id  *)
(* back yet; and the room is out of the list before he does.               *)
(***************************************************************************)
Alone ==
  /\ room.freed <= 1
  /\ ~room.removed => room.freed = 0 /\ \A g \in Threads, i \in Nat : ~Removing(g, i)
  /\ room.freed = 1 => ~room.listed /\ \A g \in Threads, i \in Nat : ~Removing(g, i)
  /\ \A g, h \in Threads, i, j \in Nat :
       Removing(g, i) /\ Removing(h, j) => g = h /\ i = j
  /\ \A g \in Threads, i \in Nat :
       Removing(g, i) /\ thread[g].stack[i].at = "recycle" => ~room.listed

StepsInv == StepsTypeOK /\ Alone

LEMMA OrderlyKeepsAlone ==
  ASSUME StepsTypeOK, Alone, Orderly, SameId
  PROVE  Alone'
<1>1. \A g \in Threads, i \in Nat :
        Removing(g, i)' => Removing(g, i) /\ thread[g].stack[i].at = thread'[g].stack[i].at
  BY DEF Orderly, Removing
<1> QED BY <1>1 DEF Alone, SameId

LEMMA RemoveStepKeepsAlone ==
  ASSUME StepsTypeOK, Alone, NEW t \in Threads,
         TestRemoved(t) \/ Delist(t) \/ RecycleId(t)
  PROVE  Alone'
<1> DEFINE n == Len(thread[t].stack)
<1>1. IsAt(t, "call") /\ Top(t) \in CallState
  <2>1. IsAt(t, "call")
    BY DEF TestRemoved, Delist, RecycleId, CallAt
  <2> QED BY <2>1, TopTyped
<1>2. n \in Nat \ {0} /\ thread[t].stack \in Seq(CallState) /\ n \in DOMAIN thread[t].stack
  BY <1>1, TopTyped DEF RecordState
<1>3. room \in RoomState
  BY DEF StepsTypeOK
<1>4. ASSUME NEW at \in RemovingLabels, ContinuesAt(t, at)
      PROVE  /\ \A g \in Threads, i \in Nat :
                  Removing(g, i)' => \/ g = t /\ i = n /\ thread'[g].stack[i].at = at
                                     \/ /\ Removing(g, i) /\ ~(g = t /\ i = n)
                                        /\ thread[g].stack[i].at = thread'[g].stack[i].at
  <2>1. [Top(t) EXCEPT !.at = at] \in CallState /\ [Top(t) EXCEPT !.at = at].at = at
    BY <1>1 DEF CallState, RemovingLabels, CallLabels
  <2>2. Continues(t, [Top(t) EXCEPT !.at = at])
    BY <1>4 DEF ContinuesAt
  <2> DEFINE call == [Top(t) EXCEPT !.at = at]
  <2> HIDE DEF call
  <2>3. /\ DOMAIN thread'[t].stack = 1..n
        /\ thread'[t].stack[n] = call
        /\ \A i \in 1..n : i # n => thread'[t].stack[i] = thread[t].stack[i]
        /\ \A g \in Threads : g # t => thread'[g] = thread[g]
    BY <1>1, <2>1, <2>2, ContinuesTo DEF call
  <2>4. DOMAIN thread[t].stack = 1..n /\ call.at = at
    BY <1>2, <2>1 DEF call
  <2> HIDE DEF n
  <2> QED BY <2>3, <2>4 DEF Removing
<1>5. CASE TestRemoved(t)
  <2>1. CASE room.removed
    <3>1. Orderly
      BY <1>1, <1>5, <2>1, ReturnsOrderly DEF TestRemoved
    <3>2. SameId
      BY <1>3, <1>5, <2>1 DEF TestRemoved, Flagged, SameId, RoomState
    <3> QED BY <3>1, <3>2, OrderlyKeepsAlone
  <2>2. CASE ~room.removed
    <3>1. ContinuesAt(t, "delist") /\ room' = Flagged(room)
      BY <1>5, <2>2 DEF TestRemoved
    <3>2. room'.removed = TRUE /\ room'.freed = 0 /\ room'.listed = room.listed
      BY <1>3, <2>2, <3>1 DEF Alone, Flagged, RoomState
    <3>3. \A g \in Threads, i \in Nat :
            Removing(g, i)' => g = t /\ i = n /\ thread'[g].stack[i].at = "delist"
      BY <1>4, <2>2, <3>1 DEF Alone, RemovingLabels
    <3> HIDE DEF n
    <3> QED BY <3>2, <3>3 DEF Alone
  <2> QED BY <2>1, <2>2
<1>6. CASE Delist(t)
  <2>1. Removing(t, n)
    BY <1>2, <1>6 DEF Delist, CallAt, Top, Removing, RemovingLabels
  <2>2. room.removed /\ room.freed = 0 /\ \A g \in Threads, i \in Nat :
          Removing(g, i) => g = t /\ i = n
    BY <1>2, <1>3, <2>1 DEF Alone, RoomState
  <2>3. ContinuesAt(t, "recycle") /\ room' = [room EXCEPT !.listed = FALSE]
    BY <1>6 DEF Delist
  <2>4. room'.removed = room.removed /\ room'.freed = 0 /\ ~room'.listed
    BY <1>3, <2>2, <2>3 DEF RoomState
  <2>5. \A g \in Threads, i \in Nat : Removing(g, i)' => g = t /\ i = n
    BY <1>4, <2>2, <2>3 DEF RemovingLabels
  <2> HIDE DEF n
  <2> QED BY <2>2, <2>4, <2>5 DEF Alone
<1>7. CASE RecycleId(t)
  <2>1. Removing(t, n) /\ thread[t].stack[n].at = "recycle"
    BY <1>2, <1>7 DEF RecycleId, CallAt, Top, Removing, RemovingLabels
  <2>2. /\ room.removed /\ room.freed = 0 /\ ~room.listed
        /\ \A g \in Threads, i \in Nat : Removing(g, i) => g = t /\ i = n
    BY <1>2, <1>3, <2>1 DEF Alone, RoomState
  <2>3. Returns(t) /\ room' = [room EXCEPT !.freed = @ + 1]
    BY <1>7 DEF RecycleId
  <2>4. room'.removed = room.removed /\ room'.freed = 1 /\ room'.listed = room.listed
    <3>1. /\ room'.removed = room.removed /\ room'.listed = room.listed
          /\ room'.freed = room.freed + 1
      BY <1>3, <2>3 DEF RoomState
    <3> QED BY <2>2, <3>1
  <2>5. Orderly /\ n \notin DOMAIN thread'[t].stack
    <3> DEFINE rest == SubSeq(thread[t].stack, 1, n - 1)
    <3>1. DOMAIN rest = 1..(n - 1)
      BY <1>2
    <3>2. thread'[t].stack = rest
      BY <1>1, <2>3 DEF Returns, Goes, StepsTypeOK, ThreadState
    <3> HIDE DEF rest
    <3>3. n \notin DOMAIN thread'[t].stack
      BY <1>2, <3>1, <3>2
    <3> QED BY <1>1, <2>3, <3>3, ReturnsOrderly
  <2>6. \A g \in Threads, i \in Nat : ~Removing(g, i)'
    BY <2>2, <2>5 DEF Orderly, Removing
  <2> HIDE DEF n
  <2> QED BY <2>2, <2>4, <2>6 DEF Alone
<1> QED BY <1>5, <1>6, <1>7

-----------------------------------------------------------------------------
LEMMA StepsInitInv == StepsInit => StepsInv
<1> SUFFICES ASSUME StepsInit PROVE StepsInv
  OBVIOUS
<1>1. inRoom \subseteq Clients /\ inRoom # {} /\ IsFiniteSet(inRoom)
  BY StepsAssumption, FS_Subset DEF StepsInit
<1>2. Cardinality(inRoom) \in Nat \ {0}
  BY <1>1, FS_CardinalityType, FS_EmptySet
<1>3. room \in RoomState /\ room.freed = 0 /\ room.removed = FALSE
  <2>1. PICK users \in [1..Cardinality(inRoom) -> inRoom], lock \in BOOLEAN :
          room = [users |-> users, master |-> users[1], lock |-> lock,
                  removed |-> FALSE, listed |-> TRUE, freed |-> 0]
    BY DEF StepsInit
  <2>2. users \in Seq(Clients) /\ users[1] \in Clients
    BY <1>1, <1>2
  <2> QED BY <2>1, <2>2 DEF RoomState
<1>4. /\ online \subseteq Clients /\ conn \in [Clients -> {"open", "closed", "out"}]
  BY DEF StepsInit
<1>10. loggedIn \subseteq Clients /\ late \subseteq Clients
  BY DEF StepsInit
<1>5. thread = [t \in Threads |-> Idle]
  BY DEF StepsInit
<1>6. thread \in [Threads -> ThreadState] /\ \A t \in Threads : thread[t].stack = <<>>
  BY <1>5, IdleTyped
<1>7. events \in 0..MaxEvents /\ crashed \in BOOLEAN /\ overlapped \subseteq Clients
  <2>1. events = 0 /\ crashed = FALSE /\ overlapped = {}
    BY DEF StepsInit
  <2>2. 0 \in 0..MaxEvents
    BY StepsAssumption
  <2>3. crashed \in BOOLEAN
    BY <2>1
  <2> QED BY <2>1, <2>2, <2>3
<1>8. StepsTypeOK
  BY <1>1, <1>3, <1>4, <1>6, <1>7, <1>10 DEF StepsTypeOK
<1>9. \A g \in Threads, i \in Nat : ~Removing(g, i)
  BY <1>6 DEF Removing
<1> QED BY <1>3, <1>8, <1>9 DEF StepsInv, Alone

LEMMA StepsStep == StepsInv /\ [StepsNext]_stepVars => StepsInv'
<1> SUFFICES ASSUME StepsInv, [StepsNext]_stepVars PROVE StepsInv'
  OBVIOUS
<1>1. StepsTypeOK /\ Alone
  BY DEF StepsInv
<1>2. ASSUME NEW t \in Threads, CallStep(t) PROVE StepsInv'
  <2>1. UNCHANGED <<online, loggedIn, events, late>>
    BY <1>2 DEF CallStep
  <2>2. CASE TestRemoved(t) \/ Delist(t) \/ RecycleId(t)
    BY <1>1, <2>1, <2>2, RemoveStepTyped, RemoveStepKeepsAlone DEF StepsInv
  <2>3. CASE \/ Check(t) \/ SameRoom(t) \/ Drop(t) \/ Leave(t) \/ Count(t) \/ ChooseHeir(t)
             \/ Crown(t) \/ Sweep(t) \/ NextZombie(t)
    BY <1>1, <2>1, <2>3, CallStepOrderly, OrderlyKeepsAlone DEF StepsInv
  <2> QED BY <1>2, <2>2, <2>3 DEF CallStep
<1>3. ASSUME NEW c \in Clients, ReaderStep(c) PROVE StepsInv'
  BY <1>1, <1>3, ReaderStepOrderly, OrderlyKeepsAlone DEF StepsInv
<1>4. ASSUME NEW c \in Clients, OutStep(c) \/ Disconnect(c) PROVE StepsInv'
  BY <1>1, <1>4, OutStepOrderly, OrderlyKeepsAlone DEF StepsInv
<1>5. CASE UNCHANGED stepVars
  BY <1>1, <1>5 DEF stepVars, StepsInv, StepsTypeOK, Alone, Removing
<1> QED BY <1>2, <1>3, <1>4, <1>5 DEF StepsNext

\* The goroutines of a room keep its types, whatever they do between each other's
\* steps: no heir is taken from nowhere, and nobody returns from a call he is not in.
THEOREM StepsTypeCorrect == StepsSpec => []StepsTypeOK
<1>1. StepsInv => StepsTypeOK
  BY DEF StepsInv
<1> QED BY <1>1, StepsInitInv, StepsStep, PTL DEF StepsSpec

\* However many goroutines call removeRoom for a room at the same time, its id is
\* given back once, after the room has left the list: no two rooms get the same id.
THEOREM IdGivenBackOnce == StepsSpec => []IdOnce
<1>1. StepsInv => IdOnce
  BY DEF StepsInv, StepsTypeOK, RoomState, Alone, IdOnce
<1> QED BY <1>1, StepsInitInv, StepsStep, PTL DEF StepsSpec

-----------------------------------------------------------------------------
(***************************************************************************)
(* What makes membership settle.  Of a client whose reader is in no handler*)
(* while others work on him, it is known at every step how Client.room and *)
(* Room.users differ: he is on the list and his room is nil only when his  *)
(* reader is between the two steps of JoinClient, and he is off the list   *)
(* with a room only when a goroutine is between the two of ExitClient.     *)
(***************************************************************************)
AtMostOnce(list, c) == \A i, j \in DOMAIN list : list[i] = c /\ list[j] = c => i = j

\* What the goroutine in the state s does next with a client.
LeavingIn(s, c) ==
  s.at = "call" /\ s.stack[Len(s.stack)].at = "leave" /\ s.stack[Len(s.stack)].who = c
ArrivingIn(s) == s.at = "push" \/ (s.at = "call" /\ s.then = "push")
EnteringIn(s) == s.at = "enter"

Settles(c) ==
  /\ AtMostOnce(room.users, c)
  /\ c \in Elems(room.users) /\ c \notin inRoom => EnteringIn(thread[Reader(c)])
  /\ c \in inRoom /\ c \notin Elems(room.users) =>
       \E g \in Threads : LeavingIn(thread[g], c)
  /\ \A g \in Threads : LeavingIn(thread[g], c) => c \notin Elems(room.users)
  /\ ArrivingIn(thread[Reader(c)]) \/ c \notin loggedIn =>
       c \notin inRoom /\ c \notin Elems(room.users)
  /\ c \notin loggedIn => IsAt(Reader(c), "idle")
  /\ EnteringIn(thread[Reader(c)]) => c \notin inRoom /\ c \in Elems(room.users)
  /\ thread[Reader(c)] = Idle \/ ~TakenOut(c, thread)

\* A call that has called another counts the members or goes on with a sweep
\* afterwards; and a reader goes on with nothing or with JoinClient.
OrderIn(g, s) ==
  /\ \A i \in DOMAIN s.stack : i < Len(s.stack) => s.stack[i].at \in {"count", "next"}
  /\ g[1] = "reader" /\ s.at = "call" => s.then \in {"idle", "push"}

Settling ==
  /\ \A g \in Threads : OrderIn(g, thread[g])
  /\ \A c \in Clients \ overlapped : Settles(c)

\* Only the goroutine t moves.
Moved(t) ==
  /\ \A g \in Threads \ {t} : thread'[g] = thread[g]
  /\ overlapped' = overlapped \cup
       {c \in Clients : thread'[Reader(c)] # Idle /\ TakenOut(c, thread')}
  /\ OrderIn(t, thread'[t])

\* It does not begin or end to put its client into the room.
Steady(t) ==
  /\ Moved(t)
  /\ ArrivingIn(thread'[t]) => ArrivingIn(thread[t])
  /\ EnteringIn(thread'[t]) <=> EnteringIn(thread[t])

LEMMA KeepOnce ==
  ASSUME NEW T, NEW list \in Seq(T), NEW S, NEW c, AtMostOnce(list, c)
  PROVE  AtMostOnce(Keep(list, S), c)
<1> PICK rest : rest = Keep(list, S)
  OBVIOUS
<1>1. PICK pos \in [1..Len(rest) -> DOMAIN list] :
             /\ \A j \in 1..Len(rest) : rest[j] = list[pos[j]] /\ list[pos[j]] \in S
             /\ \A i, j \in 1..Len(rest) : i < j => pos[i] < pos[j]
  BY KeepPositions
<1>2. DOMAIN rest = 1..Len(rest) /\ Len(rest) \in Nat /\ DOMAIN list \subseteq Nat
  <2>1. rest \in Seq(T)
    BY KeepProperties
  <2> QED BY <2>1
<1> SUFFICES ASSUME NEW i \in DOMAIN rest, NEW j \in DOMAIN rest, rest[i] = c, rest[j] = c
             PROVE  i = j
  BY DEF AtMostOnce
<1>3. pos[i] = pos[j]
  BY <1>1, <1>2 DEF AtMostOnce
<1>4. i < j \/ j < i \/ i = j
  BY <1>2
<1>5. pos[i] \in Nat /\ pos[j] \in Nat
  BY <1>1, <1>2
<1> QED BY <1>1, <1>2, <1>3, <1>4, <1>5

LEMMA AppendOnce ==
  ASSUME NEW T, NEW list \in Seq(T), NEW e \in T, NEW c, AtMostOnce(list, c),
         e # c \/ c \notin Elems(list)
  PROVE  AtMostOnce(Append(list, e), c)
<1> PICK longer : longer = Append(list, e)
  OBVIOUS
<1> PICK n : n = Len(list)
  OBVIOUS
<1>1. /\ DOMAIN longer = 1..(n + 1) /\ longer[n + 1] = e /\ n \in Nat
      /\ DOMAIN list = 1..n /\ \A i \in 1..n : longer[i] = list[i]
  OBVIOUS
<1>2. \A i \in 1..(n + 1) : i = n + 1 \/ i \in 1..n
  BY <1>1
<1> QED BY <1>1, <1>2 DEF AtMostOnce, Elems

LEMMA OnceIsCardinality ==
  ASSUME NEW list, NEW c, AtMostOnce(list, c)
  PROVE  Cardinality({i \in DOMAIN list : list[i] = c}) <= 1
<1> PICK found : found = {i \in DOMAIN list : list[i] = c}
  OBVIOUS
<1>1. CASE found = {}
  BY <1>1, FS_EmptySet
<1>2. CASE found # {}
  <2>1. PICK i : i \in found
    BY <1>2
  <2>2. found = {i}
    BY <2>1 DEF AtMostOnce
  <2> QED BY <2>2, FS_Singleton
<1> QED BY <1>1, <1>2

LEMMA LeavingTakesOut ==
  ASSUME StepsTypeOK, NEW c \in Clients, NEW g \in Threads, g # Reader(c),
         LeavingIn(thread[g], c)
  PROVE  TakenOut(c, thread)
<1>1. thread[g] \in RecordState /\ Len(thread[g].stack) \in DOMAIN thread[g].stack
  BY TopTyped DEF LeavingIn, IsAt, RecordState
<1> QED BY <1>1 DEF TakenOut, LeavingIn

\* What a step does that is nothing to the client c.
LEMMA SettlesKept ==
  ASSUME StepsTypeOK, Settling, NEW t \in Threads, Moved(t),
         NEW c \in Clients, c \notin overlapped', AtMostOnce(room'.users, c),
         c \in Elems(room'.users) <=> c \in Elems(room.users),
         c \in inRoom' <=> c \in inRoom,
         loggedIn \subseteq loggedIn',
         t = Reader(c) /\ IsAt(t, "idle") => c \in loggedIn',
         LeavingIn(thread'[t], c) <=> LeavingIn(thread[t], c),
         t = Reader(c) => Steady(t)
  PROVE  Settles(c)'
<1>1. c \notin overlapped /\ Settles(c)
  BY DEF Moved, Settling
<1>2. \A g \in Threads : LeavingIn(thread'[g], c) <=> LeavingIn(thread[g], c)
  BY DEF Moved
<1>3. Reader(c) \in Threads
  BY ReaderOf
<1>4. /\ ArrivingIn(thread'[Reader(c)]) => ArrivingIn(thread[Reader(c)])
      /\ EnteringIn(thread'[Reader(c)]) <=> EnteringIn(thread[Reader(c)])
  BY <1>3 DEF Moved, Steady
<1>5. c \notin loggedIn' => IsAt(Reader(c), "idle")'
  BY <1>1, <1>3 DEF Settles, IsAt, Moved
<1>6. thread'[Reader(c)] = Idle \/ ~TakenOut(c, thread')
  BY DEF Moved
<1>7. c \in inRoom' /\ c \notin Elems(room'.users) =>
        \E g \in Threads : LeavingIn(thread'[g], c)
  BY <1>1, <1>2 DEF Settles
<1> QED BY <1>1, <1>2, <1>4, <1>5, <1>6, <1>7 DEF Settles

LEMMA OrderKept ==
  ASSUME Settling, NEW t \in Threads, Moved(t)
  PROVE  \A g \in Threads : OrderIn(g, thread'[g])
BY DEF Settling, Moved

\* What a step does that is nothing to membership.
LEMMA SettlingKept ==
  ASSUME StepsTypeOK, Settling, NEW t \in Threads, Moved(t), t[1] = "reader" => Steady(t),
         room'.users = room.users, inRoom' = inRoom,
         loggedIn \subseteq loggedIn',
         \A c \in Clients : t = Reader(c) /\ IsAt(t, "idle") => c \in loggedIn',
         \A c \in Clients : LeavingIn(thread'[t], c) <=> LeavingIn(thread[t], c)
  PROVE  Settling'
<1>1. ASSUME NEW c \in Clients \ overlapped' PROVE Settles(c)'
  <2>1. AtMostOnce(room'.users, c)
    BY DEF Moved, Settling, Settles
  <2>2. t = Reader(c) => Steady(t)
    BY DEF Reader
  <2> QED BY <2>1, <2>2, SettlesKept
<1> QED BY <1>1, OrderKept DEF Settling

LEMMA SettlingStays ==
  ASSUME Settling, UNCHANGED <<thread, overlapped, inRoom>>, room'.users = room.users,
         loggedIn \subseteq loggedIn'
  PROVE  Settling'
<1>1. ASSUME NEW c \in Clients \ overlapped' PROVE Settles(c)'
  <2>1. Settles(c)
    BY DEF Settling
  <2> QED BY <2>1 DEF Settles, IsAt
<1> QED BY <1>1 DEF Settling

-----------------------------------------------------------------------------
\* Steps of a goroutine, seen from membership.

LEMMA RestSteady ==
  ASSUME StepsTypeOK, NEW t \in Threads, ~IsAt(t, "call"), NEW s \in ThreadState,
         s.at # "call", Goes(t, s)
  PROVE  /\ Moved(t) /\ thread'[t] = s
         /\ \A c \in Clients : ~LeavingIn(thread'[t], c) /\ ~LeavingIn(thread[t], c)
         /\ s.at \notin {"push", "enter"} /\ ~IsAt(t, "enter") => Steady(t)
<1>1. thread'[t] = s /\ \A g \in Threads \ {t} : thread'[g] = thread[g]
  BY DEF Goes, StepsTypeOK
<1>2. s.stack = <<>>
  BY DEF ThreadState
<1>3. OrderIn(t, s)
  BY <1>2 DEF OrderIn
<1>4. Moved(t)
  BY <1>1, <1>3 DEF Moved, Goes
<1>5. \A c \in Clients : ~LeavingIn(thread'[t], c) /\ ~LeavingIn(thread[t], c)
  BY <1>1 DEF LeavingIn, IsAt
<1> QED BY <1>1, <1>4, <1>5 DEF Steady, ArrivingIn, EnteringIn, IsAt

LEMMA CallsSteady ==
  ASSUME StepsTypeOK, NEW t \in Threads, ~IsAt(t, "call"), NEW s \in RecordState,
         NEW call, call.at # "leave", NEW then, t[1] = "reader" => then \in {"idle", "push"},
         Goes(t, Calls(s, call, then))
  PROVE  /\ Moved(t) /\ thread'[t].at = "call" /\ thread'[t].then = then
         /\ \A c \in Clients : ~LeavingIn(thread'[t], c) /\ ~LeavingIn(thread[t], c)
         /\ then # "push" /\ ~IsAt(t, "enter") => Steady(t)
<1> PICK new : new = Calls(s, call, then)
  OBVIOUS
<1>1. thread'[t] = new /\ \A g \in Threads \ {t} : thread'[g] = thread[g]
  BY DEF Goes, StepsTypeOK
<1>2. new.at = "call" /\ new.stack = <<call>> /\ new.then = then
  BY DEF Calls, RecordState
<1>3. OrderIn(t, new)
  BY <1>2 DEF OrderIn
<1>4. Moved(t)
  BY <1>1, <1>3 DEF Moved, Goes
<1>5. \A c \in Clients : ~LeavingIn(thread'[t], c) /\ ~LeavingIn(thread[t], c)
  BY <1>1, <1>2 DEF LeavingIn, IsAt
<1> QED BY <1>1, <1>2, <1>4, <1>5 DEF Steady, ArrivingIn, EnteringIn, IsAt

LEMMA ContinuesSteady ==
  ASSUME StepsTypeOK, Settling, NEW t \in Threads, IsAt(t, "call"), NEW call \in CallState,
         Continues(t, call)
  PROVE  /\ Steady(t)
         /\ \A c \in Clients :
              LeavingIn(thread'[t], c) <=> call.at = "leave" /\ call.who = c
<1> PICK old : old = thread[t].stack
  OBVIOUS
<1> PICK n : n = Len(old)
  OBVIOUS
<1> PICK stack : stack = [old EXCEPT ![n] = call]
  OBVIOUS
<1> PICK new : new = [thread[t] EXCEPT !.stack = stack]
  OBVIOUS
<1>1. thread[t] \in RecordState /\ n \in Nat \ {0} /\ old \in Seq(CallState)
  BY TopTyped DEF RecordState
<1>2. /\ DOMAIN stack = 1..n /\ Len(stack) = n /\ stack[n] = call
      /\ \A i \in 1..n : i < n => stack[i] = old[i]
  BY <1>1
<1>3. new.at = "call" /\ new.then = thread[t].then /\ new.stack = stack
  BY <1>1 DEF RecordState, IsAt
<1>4. Goes(t, new)
  BY DEF Continues
<1>5. thread'[t] = new /\ \A g \in Threads \ {t} : thread'[g] = thread[g]
  BY <1>4 DEF Goes, StepsTypeOK
<1>6. OrderIn(t, thread[t]) /\ DOMAIN old = 1..n
  BY <1>1 DEF Settling
<1>7. OrderIn(t, new)
  BY <1>2, <1>3, <1>6 DEF OrderIn, IsAt
<1>8. Moved(t)
  BY <1>4, <1>5, <1>7 DEF Moved, Goes
<1>9. \A c \in Clients : LeavingIn(new, c) <=> call.at = "leave" /\ call.who = c
  BY <1>2, <1>3 DEF LeavingIn
<1> QED BY <1>3, <1>5, <1>8, <1>9 DEF Steady, ArrivingIn, EnteringIn, IsAt

LEMMA CallsWithSteady ==
  ASSUME StepsTypeOK, Settling, NEW t \in Threads, IsAt(t, "call"), NEW rest \in CallState,
         rest.at \in {"count", "next"}, NEW call \in CallState, CallsWith(t, rest, call)
  PROVE  /\ Steady(t)
         /\ \A c \in Clients :
              LeavingIn(thread'[t], c) <=> call.at = "leave" /\ call.who = c
<1> PICK old : old = thread[t].stack
  OBVIOUS
<1> PICK n : n = Len(old)
  OBVIOUS
<1> PICK stack : stack = Append([old EXCEPT ![n] = rest], call)
  OBVIOUS
<1> PICK new : new = [thread[t] EXCEPT !.stack = stack]
  OBVIOUS
<1>1. thread[t] \in RecordState /\ n \in Nat \ {0} /\ old \in Seq(CallState)
  BY TopTyped DEF RecordState
<1>2. /\ DOMAIN stack = 1..(n + 1) /\ Len(stack) = n + 1
      /\ stack[n] = rest /\ stack[n + 1] = call
      /\ \A i \in 1..n : i < n => stack[i] = old[i]
  BY <1>1
<1>3. new.at = "call" /\ new.then = thread[t].then /\ new.stack = stack
  BY <1>1 DEF RecordState, IsAt
<1>4. Goes(t, new)
  BY DEF CallsWith
<1>5. thread'[t] = new /\ \A g \in Threads \ {t} : thread'[g] = thread[g]
  BY <1>4 DEF Goes, StepsTypeOK
<1>6. OrderIn(t, thread[t]) /\ DOMAIN old = 1..n
  BY <1>1 DEF Settling
<1>7. OrderIn(t, new)
  <2>1. \A i \in 1..(n + 1) : i < n + 1 => stack[i].at \in {"count", "next"}
    <3> SUFFICES ASSUME NEW i \in 1..(n + 1), i < n + 1
                 PROVE  stack[i].at \in {"count", "next"}
      OBVIOUS
    <3>1. i \in 1..n /\ (i = n \/ i < n)
      BY <1>1
    <3> QED BY <1>2, <1>6, <3>1 DEF OrderIn
  <2> QED BY <1>2, <1>3, <1>6, <2>1 DEF OrderIn, IsAt
<1>8. Moved(t)
  BY <1>4, <1>5, <1>7 DEF Moved, Goes
<1>9. \A c \in Clients : LeavingIn(new, c) <=> call.at = "leave" /\ call.who = c
  BY <1>2, <1>3 DEF LeavingIn
<1> QED BY <1>3, <1>5, <1>8, <1>9 DEF Steady, ArrivingIn, EnteringIn, IsAt

LEMMA ReturnsSteady ==
  ASSUME StepsTypeOK, Settling, NEW t \in Threads, IsAt(t, "call"), Returns(t)
  PROVE  /\ Moved(t) /\ (t[1] = "reader" => Steady(t))
         /\ \A c \in Clients : ~LeavingIn(thread'[t], c)
<1> PICK old : old = thread[t].stack
  OBVIOUS
<1> PICK n : n = Len(old)
  OBVIOUS
<1> PICK rest : rest = SubSeq(old, 1, n - 1)
  OBVIOUS
<1> PICK new : new = [thread[t] EXCEPT !.stack = rest,
                                       !.at = IF rest = <<>> THEN thread[t].then ELSE @]
  OBVIOUS
<1>1. thread[t] \in RecordState /\ n \in Nat \ {0} /\ old \in Seq(CallState)
  BY TopTyped DEF RecordState
<1>2. /\ DOMAIN rest = 1..(n - 1) /\ Len(rest) = n - 1
      /\ \A i \in 1..(n - 1) : rest[i] = old[i]
  BY <1>1
<1>3. /\ new.then = thread[t].then /\ new.stack = rest
      /\ new.at = IF rest = <<>> THEN thread[t].then ELSE "call"
  BY <1>1 DEF RecordState, IsAt
<1>4. Goes(t, new)
  BY DEF Returns
<1>5. thread'[t] = new /\ \A g \in Threads \ {t} : thread'[g] = thread[g]
  BY <1>4 DEF Goes, StepsTypeOK
<1>6. OrderIn(t, thread[t]) /\ DOMAIN old = 1..n /\ thread[t].then \in Labels
  BY <1>1 DEF Settling, RecordState
<1>7. \A i \in 1..(n - 1) : rest[i].at \in {"count", "next"}
  BY <1>1, <1>2, <1>6 DEF OrderIn
<1>8. OrderIn(t, new)
  BY <1>2, <1>3, <1>6, <1>7 DEF OrderIn, IsAt
<1>9. Moved(t)
  BY <1>4, <1>5, <1>8 DEF Moved, Goes
<1>10. \A c \in Clients : ~LeavingIn(new, c)
  <2>1. CASE rest = <<>>
    BY <1>3, <1>6, <2>1 DEF LeavingIn, Labels, ReaderLabels, OutLabels
  <2>2. CASE rest # <<>>
    <3>1. n - 1 \in 1..(n - 1)
      BY <1>1, <1>2, <2>2
    <3>2. rest[n - 1].at # "leave"
      BY <1>7, <3>1
    <3> QED BY <1>2, <1>3, <3>2 DEF LeavingIn
  <2> QED BY <2>1, <2>2
<1>11. t[1] = "reader" => Steady(t)
  BY <1>3, <1>5, <1>6, <1>9 DEF Steady, OrderIn, ArrivingIn, EnteringIn, IsAt
<1> QED BY <1>5, <1>9, <1>10, <1>11

LEMMA PanicsSteady ==
  ASSUME StepsTypeOK, NEW t \in Threads, t[1] = "reader", ~IsAt(t, "enter"), Goes(t, Idle)
  PROVE  Steady(t) /\ \A c \in Clients : ~LeavingIn(thread'[t], c)
<1>1. thread'[t] = Idle /\ \A g \in Threads \ {t} : thread'[g] = thread[g]
  BY IdleTyped DEF Goes, StepsTypeOK
<1>2. Idle.at = "idle" /\ Idle.stack = <<>>
  BY DEF Idle
<1>3. Moved(t)
  BY <1>1, <1>2 DEF Moved, Goes, OrderIn
<1> QED BY <1>1, <1>2, <1>3 DEF Steady, ArrivingIn, EnteringIn, LeavingIn, IsAt

-----------------------------------------------------------------------------
\* The steps of calls.

\* A step of a call that neither takes anybody off the list nor sets a room to nil.
LEMMA QuietCallSettles ==
  ASSUME StepsTypeOK, Settling, NEW t \in Threads, UNCHANGED <<online, loggedIn, events, late>>,
         \/ Check(t) \/ SameRoom(t) \/ Count(t) \/ ChooseHeir(t) \/ Crown(t) \/ Sweep(t)
         \/ NextZombie(t) \/ TestRemoved(t) \/ Delist(t) \/ RecycleId(t)
  PROVE  Settling'
<1>1. IsAt(t, "call") /\ Top(t).at # "leave"
  BY DEF Check, SameRoom, Count, ChooseHeir, Crown, Sweep, NextZombie, TestRemoved, Delist,
         RecycleId, CallAt
<1>2. /\ Top(t) \in CallState /\ room \in RoomState
      /\ \A c \in Clients : ~LeavingIn(thread[t], c)
  BY <1>1, TopTyped DEF StepsTypeOK, LeavingIn, Top
<1>3. room'.users = room.users /\ inRoom' = inRoom
  BY <1>2 DEF RoomState, Check, SameRoom, Count, ChooseHeir, Crown, Sweep, NextZombie, TestRemoved,
              Flagged, Delist, RecycleId
<1>4. ASSUME Moved(t), t[1] = "reader" => Steady(t),
             \A c \in Clients : ~LeavingIn(thread'[t], c)
      PROVE  Settling'
  <2>1. ~IsAt(t, "idle")
    BY <1>1 DEF IsAt
  <2> QED BY <1>2, <1>3, <1>4, <2>1, SettlingKept
<1>5. ASSUME NEW call \in CallState, call.at # "leave", Continues(t, call)
      PROVE  Settling'
  BY <1>1, <1>4, <1>5, ContinuesSteady DEF Steady
<1>6. ASSUME NEW at \in CallLabels \ {"crown", "leave"}, ContinuesAt(t, at)
      PROVE  Settling'
  <2>1. [Top(t) EXCEPT !.at = at] \in CallState /\ [Top(t) EXCEPT !.at = at].at = at
    BY <1>2 DEF CallState
  <2> QED BY <1>5, <1>6, <2>1 DEF ContinuesAt
<1>7. ASSUME Returns(t) PROVE Settling'
  BY <1>1, <1>4, <1>7, ReturnsSteady
<1>8. ASSUME Panics(t) PROVE Settling'
  <2>1. CASE t[1] = "reader"
    <3>1. Goes(t, Idle) /\ ~IsAt(t, "enter")
      BY <1>1, <1>8, <2>1 DEF Panics, IsAt
    <3>2. Steady(t) /\ \A c \in Clients : ~LeavingIn(thread'[t], c)
      BY <2>1, <3>1, PanicsSteady
    <3> QED BY <1>4, <3>1, <3>2 DEF Steady
  <2>2. CASE t[1] # "reader"
    BY <1>3, <1>8, <2>2, SettlingStays DEF Panics
  <2> QED BY <2>1, <2>2
<1>9. CASE Check(t) \/ SameRoom(t) \/ Count(t)
  <2>1. \/ Panics(t)
        \/ \E at \in {"same", "drop", "remove", "heir"} : ContinuesAt(t, at)
    BY <1>9 DEF Check, SameRoom, Count
  <2> QED BY <1>6, <1>8, <2>1 DEF CallLabels
<1>10. CASE ChooseHeir(t)
  <2>1. CASE room.master = Top(t).who /\ room.users # <<>>
    <3> PICK call : call = [Top(t) EXCEPT !.at = "crown", !.todo = <<room.users[1]>>]
      OBVIOUS
    <3>1. Continues(t, call)
      BY <1>10, <2>1 DEF ChooseHeir
    <3>2. <<room.users[1]>> \in Seq(Clients) /\ <<room.users[1]>> # <<>>
      BY <1>2, <2>1 DEF RoomState
    <3>3. call \in CallState /\ call.at = "crown"
      <4>1. Top(t) \in [at : CallLabels, who : Clients \cup {NoClient}, todo : Seq(Clients)]
        BY <1>2 DEF CallState
      <4>2. /\ call \in [at : CallLabels, who : Clients \cup {NoClient}, todo : Seq(Clients)]
            /\ call.at = "crown" /\ call.todo = <<room.users[1]>>
        BY <3>2, <4>1 DEF CallLabels
      <4> QED BY <3>2, <4>2 DEF CallState
    <3> QED BY <1>5, <3>1, <3>3
  <2>2. CASE ~(room.master = Top(t).who /\ room.users # <<>>)
    <3>1. Returns(t) \/ Panics(t)
      BY <1>10, <2>2 DEF ChooseHeir
    <3> QED BY <1>7, <1>8, <3>1
  <2> QED BY <2>1, <2>2
<1>11. CASE Crown(t) \/ RecycleId(t)
  BY <1>7, <1>11 DEF Crown, RecycleId
<1>12. CASE Sweep(t)
  <2> PICK call : call = [Top(t) EXCEPT !.at = "next", !.todo = Offline]
    OBVIOUS
  <2>1. Offline \in Seq(Clients)
    BY <1>2, KeepProperties DEF RoomState, Offline
  <2>2. call \in CallState /\ call.at = "next"
    BY <1>2, <2>1 DEF CallState, CallLabels
  <2> QED BY <1>5, <1>12, <2>2 DEF Sweep
<1>13. CASE NextZombie(t)
  <2>1. CASE Top(t).todo = <<>>
    BY <1>7, <1>13, <2>1 DEF NextZombie
  <2>2. CASE Top(t).todo # <<>>
    <3> PICK rest : rest = [Top(t) EXCEPT !.todo = Tail(@)]
      OBVIOUS
    <3> PICK call : call = Call("check", Top(t).todo[1])
      OBVIOUS
    <3>1. Top(t).at = "next" /\ CallsWith(t, rest, call)
      BY <1>13, <2>2 DEF NextZombie, CallAt
    <3>2. Tail(Top(t).todo) \in Seq(Clients) /\ Top(t).todo[1] \in Clients
      BY <1>2, <2>2 DEF CallState
    <3>3. rest \in CallState /\ rest.at = "next"
      BY <1>2, <3>1, <3>2 DEF CallState
    <3>4. call \in CallState /\ call.at = "check"
      BY <3>2, CallTyped DEF CallLabels
    <3>5. Steady(t) /\ \A c \in Clients : ~LeavingIn(thread'[t], c)
      BY <1>1, <3>1, <3>3, <3>4, CallsWithSteady
    <3> QED BY <1>4, <3>1, <3>5 DEF Steady
  <2> QED BY <2>1, <2>2
<1>14. CASE TestRemoved(t) \/ Delist(t)
  <2>1. Returns(t) \/ ContinuesAt(t, "delist") \/ ContinuesAt(t, "recycle")
    BY <1>14 DEF TestRemoved, Delist
  <2> QED BY <1>6, <1>7, <2>1 DEF CallLabels
<1> QED BY <1>9, <1>10, <1>11, <1>12, <1>13, <1>14

\* No reader is about to enter a room with a client that others take out of it.
LEMMA NoneEnters ==
  ASSUME StepsTypeOK, Settling, NEW t \in Threads, IsAt(t, "call"),
         NEW c \in Clients \ overlapped, Top(t).who = c
  PROVE  ~EnteringIn(thread[Reader(c)])
<1> SUFFICES ASSUME EnteringIn(thread[Reader(c)]) PROVE FALSE
  OBVIOUS
<1>1. t # Reader(c) /\ thread[Reader(c)] # Idle
  BY DEF EnteringIn, IsAt, Idle
<1>2. Len(thread[t].stack) \in DOMAIN thread[t].stack
  BY TopTyped DEF RecordState
<1>3. TakenOut(c, thread)
  BY <1>1, <1>2 DEF TakenOut, Top
<1> QED BY <1>1, <1>3 DEF Settling, Settles

LEMMA DropSettles ==
  ASSUME StepsTypeOK, Settling, NEW t \in Threads, loggedIn' = loggedIn, Drop(t)
  PROVE  Settling'
<1> PICK who : who = Top(t).who
  OBVIOUS
<1>1. /\ IsAt(t, "call") /\ Top(t).at = "drop" /\ ContinuesAt(t, "leave")
      /\ room' = [room EXCEPT !.users = Keep(@, Clients \ {who})]
      /\ inRoom' = inRoom /\ loggedIn' = loggedIn
  BY DEF Drop, CallAt
<1>2. Top(t) \in CallState /\ room \in RoomState
  BY <1>1, TopTyped DEF StepsTypeOK
<1>3. Steady(t) /\ \A c \in Clients : LeavingIn(thread'[t], c) <=> who = c
  <2>1. /\ [Top(t) EXCEPT !.at = "leave"] \in CallState
        /\ [Top(t) EXCEPT !.at = "leave"].at = "leave"
        /\ [Top(t) EXCEPT !.at = "leave"].who = who
    BY <1>2 DEF CallState, CallLabels
  <2>2. Continues(t, [Top(t) EXCEPT !.at = "leave"])
    BY <1>1 DEF ContinuesAt
  <2> QED BY <1>1, <2>1, <2>2, ContinuesSteady
<1>4. \A c \in Clients : ~LeavingIn(thread[t], c)
  BY <1>1 DEF LeavingIn, Top
<1>5. /\ room.users \in Seq(Clients) /\ room'.users = Keep(room.users, Clients \ {who})
      /\ Elems(room'.users) = Elems(room.users) \ {who}
  <2>1. room.users \in Seq(Clients) /\ room'.users = Keep(room.users, Clients \ {who})
    BY <1>1, <1>2 DEF RoomState
  <2>2. Elems(room.users) \subseteq Clients
    BY <2>1 DEF Elems
  <2> QED BY <2>1, <2>2, KeepProperties
<1>6. ASSUME NEW c \in Clients \ overlapped' PROVE Settles(c)'
  <2>1. c \notin overlapped /\ Settles(c) /\ Moved(t)
    BY <1>3 DEF Moved, Steady, Settling
  <2>2. AtMostOnce(room'.users, c)
    BY <1>5, <2>1, KeepOnce DEF Settles
  <2>3. CASE c # who
    <3>1. c \in Elems(room'.users) <=> c \in Elems(room.users)
      BY <1>5, <2>3
    <3>2. ~IsAt(t, "idle")
      BY <1>1 DEF IsAt
    <3> QED BY <1>1, <1>3, <1>4, <2>1, <2>2, <2>3, <3>1, <3>2, SettlesKept
  <2>4. CASE c = who
    <3>1. c \notin Elems(room'.users) /\ LeavingIn(thread'[t], c)
      BY <1>3, <1>5, <2>4
    <3>2. ~EnteringIn(thread[Reader(c)])
      BY <1>1, <2>1, <2>4, NoneEnters
    <3>3. /\ ~EnteringIn(thread'[Reader(c)])
          /\ ArrivingIn(thread'[Reader(c)]) => ArrivingIn(thread[Reader(c)])
      BY <1>3, <3>2, ReaderOf DEF Steady, Moved
    <3>4. c \notin loggedIn' => IsAt(Reader(c), "idle")' /\ c \notin inRoom
      BY <1>1, <2>1, ReaderOf DEF Settles, IsAt, Moved
    <3>5. thread'[Reader(c)] = Idle \/ ~TakenOut(c, thread')
      BY <2>1 DEF Moved
    <3>6. ArrivingIn(thread'[Reader(c)]) => c \notin inRoom
      BY <2>1, <3>3 DEF Settles
    <3> QED BY <1>1, <2>2, <3>1, <3>3, <3>4, <3>5, <3>6 DEF Settles
  <2> QED BY <2>3, <2>4
<1> QED BY <1>3, <1>6, OrderKept DEF Settling, Steady

LEMMA LeaveSettles ==
  ASSUME StepsTypeOK, Settling, NEW t \in Threads, loggedIn' = loggedIn, Leave(t)
  PROVE  Settling'
<1> PICK who : who = Top(t).who
  OBVIOUS
<1> PICK rest : rest = [Top(t) EXCEPT !.at = "count"]
  OBVIOUS
<1>1. /\ IsAt(t, "call") /\ Top(t).at = "leave"
      /\ CallsWith(t, rest, Call("sweep", NoClient))
      /\ room' = room /\ inRoom' = inRoom \ {who} /\ loggedIn' = loggedIn
  BY DEF Leave, CallAt, Gone
<1>2. Steady(t) /\ \A c \in Clients : ~LeavingIn(thread'[t], c)
  <2>1. rest \in CallState /\ rest.at = "count"
    BY <1>1, TopTyped DEF CallState, CallLabels
  <2>2. Call("sweep", NoClient) \in CallState /\ Call("sweep", NoClient).at = "sweep"
    BY CallTyped DEF CallLabels
  <2> QED BY <1>1, <2>1, <2>2, CallsWithSteady
<1>3. \A c \in Clients : LeavingIn(thread[t], c) <=> c = who
  BY <1>1 DEF LeavingIn, Top, IsAt
<1>4. ASSUME NEW c \in Clients \ overlapped' PROVE Settles(c)'
  <2>1. c \notin overlapped /\ Settles(c) /\ Moved(t)
    BY <1>2 DEF Moved, Steady, Settling
  <2>2. AtMostOnce(room'.users, c)
    BY <1>1, <2>1 DEF Settles
  <2>3. CASE c # who
    <3>1. ~IsAt(t, "idle") /\ ~LeavingIn(thread[t], c)
      BY <1>1, <1>3, <2>3 DEF IsAt
    <3> QED BY <1>1, <1>2, <2>1, <2>2, <2>3, <3>1, SettlesKept
  <2>4. CASE c = who
    <3>1. c \notin Elems(room'.users) /\ c \notin inRoom'
      BY <1>1, <1>3, <2>1, <2>4 DEF Settles
    <3>2. ~EnteringIn(thread'[Reader(c)])
      <4>1. ~EnteringIn(thread[Reader(c)])
        BY <1>1, <2>1, <2>4, NoneEnters
      <4> QED BY <1>2, <4>1, ReaderOf DEF Steady, Moved
    <3>3. c \notin loggedIn' => IsAt(Reader(c), "idle")'
      BY <1>1, <2>1, ReaderOf DEF Settles, IsAt, Moved
    <3>4. thread'[Reader(c)] = Idle \/ ~TakenOut(c, thread')
      BY <2>1 DEF Moved
    <3> QED BY <2>2, <3>1, <3>2, <3>3, <3>4 DEF Settles
  <2> QED BY <2>3, <2>4
<1> QED BY <1>2, <1>4, OrderKept DEF Settling, Steady

LEMMA CallStepSettles ==
  ASSUME StepsTypeOK, Settling, NEW t \in Threads, CallStep(t)
  PROVE  Settling'
BY QuietCallSettles, DropSettles, LeaveSettles DEF CallStep

-----------------------------------------------------------------------------
\* The handlers.

LEMMA ReadersDiffer ==
  ASSUME NEW c \in Clients, NEW d \in Clients, Reader(c) = Reader(d)
  PROVE  c = d
BY DEF Reader

\* A step of the reader of c that is nothing to the other clients.
LEMMA OthersSettled ==
  ASSUME StepsTypeOK, Settling, NEW c \in Clients, Moved(Reader(c)),
         ~IsAt(Reader(c), "call"), NEW d \in Clients \ {c}, d \notin overlapped',
         ~LeavingIn(thread'[Reader(c)], d), AtMostOnce(room'.users, d),
         d \in Elems(room'.users) <=> d \in Elems(room.users),
         d \in inRoom' <=> d \in inRoom, loggedIn \subseteq loggedIn'
  PROVE  Settles(d)'
<1>1. Reader(c) \in Threads /\ Reader(c) # Reader(d)
  BY ReaderOf, ReadersDiffer
<1>2. ~LeavingIn(thread[Reader(c)], d)
  BY DEF LeavingIn, IsAt
<1> QED BY <1>1, <1>2, SettlesKept

\* The reader of c begins to put c into the room.
LEMMA BeginsSettles ==
  ASSUME StepsTypeOK, Settling, NEW c \in Clients, Moved(Reader(c)),
         IsAt(Reader(c), "idle"), thread'[Reader(c)].at # "enter",
         c \notin overlapped => c \notin inRoom /\ c \notin Elems(room.users),
         \A d \in Clients : ~LeavingIn(thread'[Reader(c)], d),
         room' = room, inRoom' = inRoom, c \in loggedIn', loggedIn \subseteq loggedIn'
  PROVE  Settling'
<1>1. Reader(c) \in Threads /\ ~IsAt(Reader(c), "call")
  BY ReaderOf DEF IsAt
<1>2. ASSUME NEW d \in Clients \ overlapped' PROVE Settles(d)'
  <2>1. d \notin overlapped /\ Settles(d)
    BY DEF Moved, Settling
  <2>2. CASE d # c
    BY <1>1, <2>1, <2>2, OthersSettled DEF Settles
  <2>3. CASE d = c
    <3>1. thread'[Reader(c)] = Idle \/ ~TakenOut(c, thread')
      BY <2>3 DEF Moved
    <3>2. AtMostOnce(room'.users, c)
      BY <2>1, <2>3 DEF Settles
    <3> QED BY <2>1, <2>3, <3>1, <3>2 DEF Settles, EnteringIn
  <2> QED BY <2>2, <2>3
<1> QED BY <1>1, <1>2, OrderKept DEF Settling

LEMMA JoinRoomSettles ==
  ASSUME StepsTypeOK, Settling, NEW c \in Clients, JoinRoom(c)
  PROVE  Settling'
<1> PICK s : s = [thread[Reader(c)] EXCEPT !.at = "push"]
  OBVIOUS
<1>1. /\ IsAt(Reader(c), "idle") /\ c \in loggedIn /\ loggedIn' = loggedIn
      /\ c \notin inRoom /\ room' = room /\ inRoom' = inRoom /\ Goes(Reader(c), s)
  BY DEF JoinRoom, Handles, Begins, GoesTo
<1>2. s \in ThreadState /\ s.at = "push"
  <2>1. thread[Reader(c)] \in ThreadState /\ thread[Reader(c)].stack = <<>>
    BY <1>1, ReaderOf DEF StepsTypeOK, ThreadState, IsAt
  <2> QED BY <2>1 DEF ThreadState, Labels, ReaderLabels
<1>3. /\ Moved(Reader(c)) /\ thread'[Reader(c)] = s
      /\ \A d \in Clients : ~LeavingIn(thread'[Reader(c)], d)
  BY <1>1, <1>2, ReaderOf, RestSteady DEF IsAt
<1>4. c \notin overlapped => c \notin Elems(room.users)
  BY <1>1 DEF Settling, Settles, EnteringIn, IsAt
<1> QED BY <1>1, <1>2, <1>3, <1>4, BeginsSettles

LEMMA LoginSettles ==
  ASSUME StepsTypeOK, Settling, NEW c \in Clients, Login(c)
  PROVE  Settling'
<1>1. /\ IsAt(Reader(c), "idle") /\ c \notin loggedIn /\ loggedIn' = loggedIn \cup {c}
      /\ room' = room /\ inRoom' = inRoom
  BY DEF Login, Begins
<1>2. PICK d \in loggedIn :
        Goes(Reader(c), IF d \in inRoom
                        THEN Calls([Idle EXCEPT !.old = d], Call("check", d), "push")
                        ELSE [[Idle EXCEPT !.old = d] EXCEPT !.at = "close"])
  BY DEF Login
<1>3. /\ Moved(Reader(c)) /\ thread'[Reader(c)].at # "enter"
      /\ \A e \in Clients : ~LeavingIn(thread'[Reader(c)], e)
  <2> PICK s : s = [Idle EXCEPT !.old = d]
    OBVIOUS
  <2> PICK closing : closing = [s EXCEPT !.at = "close"]
    OBVIOUS
  <2>1. s \in RecordState /\ s.stack = <<>>
    BY IdleTyped DEF RecordState, StepsTypeOK
  <2>2. closing \in ThreadState /\ closing.at = "close"
    BY <2>1 DEF RecordState, ThreadState, Labels, ReaderLabels
  <2>3. Reader(c) \in Threads /\ ~IsAt(Reader(c), "call")
    BY <1>1, ReaderOf DEF IsAt
  <2>4. CASE d \in inRoom
    <3>1. Goes(Reader(c), Calls(s, Call("check", d), "push"))
      BY <1>2, <2>4
    <3>2. Call("check", d).at # "leave"
      BY DEF Call
    <3> QED BY <2>1, <2>3, <3>1, <3>2, CallsSteady
  <2>5. CASE d \notin inRoom
    <3>1. Goes(Reader(c), closing)
      BY <1>2, <2>5
    <3> QED BY <2>2, <2>3, <3>1, RestSteady
  <2> QED BY <2>4, <2>5
<1>4. c \in loggedIn' /\ loggedIn \subseteq loggedIn'
  BY <1>1
<1>5. c \notin overlapped => c \notin inRoom /\ c \notin Elems(room.users)
  BY <1>1 DEF Settling, Settles
<1> QED BY <1>1, <1>3, <1>4, <1>5, BeginsSettles

LEMMA PushSettles ==
  ASSUME StepsTypeOK, Settling, NEW c \in Clients, PushMember(c)
  PROVE  Settling'
<1> PICK t : t = Reader(c)
  OBVIOUS
<1> PICK s : s = [thread[t] EXCEPT !.at = "enter"]
  OBVIOUS
<1>1. /\ IsAt(t, "push") /\ inRoom' = inRoom /\ loggedIn' = loggedIn /\ Goes(t, s)
      /\ room' = [room EXCEPT !.users = Append(@, c)]
  BY DEF PushMember, GoesTo
<1>2. t \in Threads /\ ~IsAt(t, "call") /\ s \in ThreadState /\ s.at = "enter"
  <2>1. t \in Threads /\ thread[t] \in ThreadState /\ thread[t].stack = <<>>
    BY <1>1, ReaderOf DEF StepsTypeOK, ThreadState, IsAt
  <2> QED BY <1>1, <2>1 DEF ThreadState, Labels, ReaderLabels, IsAt
<1>3. /\ Moved(t) /\ thread'[t] = s
      /\ \A d \in Clients : ~LeavingIn(thread'[t], d)
  BY <1>1, <1>2, RestSteady
<1>4. /\ room.users \in Seq(Clients) /\ room'.users = Append(room.users, c)
      /\ Elems(room'.users) = Elems(room.users) \cup {c}
  <2>1. room.users \in Seq(Clients) /\ room'.users = Append(room.users, c)
    BY <1>1 DEF StepsTypeOK, RoomState
  <2> QED BY <2>1, AppendElems
<1>5. ASSUME NEW d \in Clients \ overlapped' PROVE Settles(d)'
  <2>1. d \notin overlapped /\ Settles(d)
    BY <1>3 DEF Moved, Settling
  <2>2. CASE d # c
    <3>1. AtMostOnce(room'.users, d)
      BY <1>4, <2>1, <2>2, AppendOnce DEF Settles
    <3> QED BY <1>1, <1>2, <1>3, <1>4, <2>2, <3>1, OthersSettled
  <2>3. CASE d = c
    <3>1. c \notin inRoom /\ c \notin Elems(room.users)
      BY <1>1, <2>1, <2>3 DEF Settles, ArrivingIn, IsAt
    <3>2. AtMostOnce(room'.users, c)
      BY <1>4, <2>1, <2>3, <3>1, AppendOnce DEF Settles
    <3>3. ~TakenOut(c, thread')
      <4>1. Idle.at = "idle"
        BY DEF Idle
      <4> QED BY <1>2, <1>3, <2>3, <4>1 DEF Moved
    <3>4. ~TakenOut(c, thread)
      <4>1. Idle.at = "idle"
        BY DEF Idle
      <4> QED BY <1>1, <2>1, <2>3, <4>1 DEF Settles, IsAt
    <3>5. \A g \in Threads : ~LeavingIn(thread'[g], c)
      <4>1. \A g \in Threads \ {t} : thread'[g] = thread[g] /\ ~LeavingIn(thread[g], c)
        BY <1>3, <3>4, LeavingTakesOut DEF Moved
      <4> QED BY <1>3, <4>1
    <3>6. c \in loggedIn'
      BY <1>1, <2>1, <2>3 DEF Settles, IsAt
    <3>7. ~ArrivingIn(thread'[Reader(c)]) /\ EnteringIn(thread'[Reader(c)])
      BY <1>2, <1>3 DEF ArrivingIn, EnteringIn
    <3> QED BY <1>1, <1>4, <2>3, <3>1, <3>2, <3>3, <3>5, <3>6, <3>7 DEF Settles
  <2> QED BY <2>2, <2>3
<1> QED BY <1>2, <1>3, <1>5, OrderKept DEF Settling

LEMMA EnterSettles ==
  ASSUME StepsTypeOK, Settling, NEW c \in Clients, EnterRoom(c)
  PROVE  Settling'
<1> PICK t : t = Reader(c)
  OBVIOUS
<1>1. IsAt(t, "enter") /\ inRoom' = inRoom \cup {c} /\ loggedIn' = loggedIn /\ room' = room
  BY DEF EnterRoom
<1>2. t \in Threads /\ ~IsAt(t, "call")
  BY <1>1, ReaderOf DEF IsAt
<1>3. PICK s \in ThreadState : Goes(t, s) /\ s.at \in {"idle", "close"}
  <2> PICK closing : closing = [thread[t] EXCEPT !.at = "close"]
    OBVIOUS
  <2>1. thread[t] \in ThreadState /\ thread[t].stack = <<>>
    BY <1>1, <1>2 DEF StepsTypeOK, ThreadState, IsAt
  <2>2. closing \in ThreadState /\ closing.at = "close"
    BY <2>1 DEF ThreadState, Labels, ReaderLabels
  <2>3. Idle \in ThreadState /\ Idle.at = "idle"
    BY IdleTyped DEF Idle
  <2>4. Goes(t, Idle) \/ Goes(t, closing)
    BY DEF EnterRoom, GoesTo
  <2> QED BY <2>2, <2>3, <2>4
<1>4. /\ Moved(t) /\ thread'[t] = s
      /\ \A d \in Clients : ~LeavingIn(thread'[t], d)
  BY <1>2, <1>3, RestSteady
<1>5. ASSUME NEW d \in Clients \ overlapped' PROVE Settles(d)'
  <2>1. d \notin overlapped /\ Settles(d)
    BY <1>4 DEF Moved, Settling
  <2>2. CASE d # c
    <3>1. AtMostOnce(room'.users, d)
      BY <1>1, <2>1 DEF Settles
    <3> QED BY <1>1, <1>2, <1>4, <2>2, <3>1, OthersSettled
  <2>3. CASE d = c
    <3>1. c \in Elems(room.users)
      BY <1>1, <2>1, <2>3 DEF Settles, EnteringIn, IsAt
    <3>2. \A g \in Threads : ~LeavingIn(thread'[g], c)
      <4>1. \A g \in Threads : ~LeavingIn(thread[g], c)
        BY <2>1, <2>3, <3>1 DEF Settles
      <4>2. \A g \in Threads \ {t} : thread'[g] = thread[g]
        BY <1>4 DEF Moved
      <4> QED BY <1>4, <4>1, <4>2
    <3>3. c \in loggedIn'
      BY <1>1, <2>1, <2>3 DEF Settles, IsAt
    <3>4. ~ArrivingIn(thread'[Reader(c)]) /\ ~EnteringIn(thread'[Reader(c)])
      BY <1>3, <1>4 DEF ArrivingIn, EnteringIn
    <3>5. thread'[Reader(c)] = Idle \/ ~TakenOut(c, thread')
      BY <1>4, <2>3 DEF Moved
    <3> QED BY <1>1, <2>1, <2>3, <3>1, <3>2, <3>3, <3>4, <3>5 DEF Settles
  <2> QED BY <2>2, <2>3
<1> QED BY <1>2, <1>4, <1>5, OrderKept DEF Settling

\* A handler of c that leaves the lists alone, and CloseOld.
LEMMA QuietReaderSettles ==
  ASSUME StepsTypeOK, Settling, NEW c \in Clients,
         \/ ExitRoom(c) \/ KickOut(c) \/ LockRoom(c) \/ UnlockRoom(c)
         \/ SweepUnlocked(c) \/ CloseOld(c)
  PROVE  Settling'
<1> PICK t : t = Reader(c)
  OBVIOUS
<1>1. t \in Threads /\ t[1] = "reader" /\ ~IsAt(t, "call") /\ ~IsAt(t, "enter")
  BY ReaderOf
     DEF Reader, ExitRoom, KickOut, LockRoom, UnlockRoom, SweepUnlocked, CloseOld,
         MasterHandles, Handles, Begins, IsAt
<1>2. room'.users = room.users /\ inRoom' = inRoom
  BY DEF StepsTypeOK, RoomState, ExitRoom, KickOut, LockRoom, UnlockRoom, SweepUnlocked,
         CloseOld, MasterHandles, Handles, Begins
<1>4. loggedIn' = loggedIn
  BY DEF ExitRoom, KickOut, LockRoom, UnlockRoom, SweepUnlocked, CloseOld, MasterHandles,
         Handles
<1>5. \A d \in Clients : t = Reader(d) /\ IsAt(t, "idle") => d \in loggedIn'
  <2> SUFFICES ASSUME IsAt(t, "idle") PROVE c \in loggedIn'
    BY ReadersDiffer
  <2> QED BY <1>4 DEF ExitRoom, KickOut, LockRoom, UnlockRoom, SweepUnlocked, CloseOld,
                      MasterHandles, Handles, IsAt
<1>6. ASSUME NEW s \in ThreadState, s.at \notin {"call", "push", "enter"}, Goes(t, s)
      PROVE  Settling'
  <2>1. Steady(t) /\ Moved(t)
        /\ \A d \in Clients : ~LeavingIn(thread'[t], d) /\ ~LeavingIn(thread[t], d)
    BY <1>1, <1>6, RestSteady
  <2> QED BY <1>1, <1>2, <1>4, <1>5, <2>1, SettlingKept
<1>7. ASSUME NEW call, call.at # "leave", ReaderCalls(c, call, "idle")
      PROVE  Settling'
  <2>1. Idle \in RecordState /\ Goes(t, Calls(Idle, call, "idle"))
    BY <1>7, IdleTyped DEF ReaderCalls
  <2>2. Steady(t) /\ Moved(t)
        /\ \A d \in Clients : ~LeavingIn(thread'[t], d) /\ ~LeavingIn(thread[t], d)
    BY <1>1, <1>7, <2>1, CallsSteady
  <2> QED BY <1>1, <1>2, <1>4, <1>5, <2>2, SettlingKept
<1>8. \A d : Call("check", d).at # "leave" /\ Call("sweep", d).at # "leave"
  BY DEF Call
<1>9. Idle \in ThreadState /\ Idle.at = "idle"
  BY IdleTyped DEF Idle
<1>10. CASE ExitRoom(c) \/ KickOut(c)
  BY <1>7, <1>8, <1>10 DEF ExitRoom, KickOut
<1>11. CASE LockRoom(c)
  BY <1>2, <1>4, <1>11, SettlingStays DEF LockRoom
<1>12. CASE UnlockRoom(c)
  <2>1. thread[t] \in ThreadState /\ GoesTo(t, "unlocked")
    BY <1>1, <1>12 DEF StepsTypeOK, UnlockRoom
  <2>2. /\ [thread[t] EXCEPT !.at = "unlocked"] \in ThreadState
        /\ [thread[t] EXCEPT !.at = "unlocked"].at = "unlocked"
    BY <1>1, <2>1 DEF ThreadState, IsAt, Labels, ReaderLabels
  <2> QED BY <1>6, <2>1, <2>2 DEF GoesTo
<1>13. CASE SweepUnlocked(c)
  <2>1. Goes(t, Idle) \/ ReaderCalls(c, Call("sweep", NoClient), "idle")
    BY <1>1, <1>13 DEF SweepUnlocked, Panics
  <2> QED BY <1>6, <1>7, <1>8, <1>9, <2>1
<1>14. CASE CloseOld(c)
  BY <1>6, <1>9, <1>14 DEF CloseOld
<1> QED BY <1>10, <1>11, <1>12, <1>13, <1>14

LEMMA ReaderStepSettles ==
  ASSUME StepsTypeOK, Settling, NEW c \in Clients, ReaderStep(c)
  PROVE  Settling'
BY JoinRoomSettles, LoginSettles, PushSettles, EnterSettles, QuietReaderSettles
   DEF ReaderStep

-----------------------------------------------------------------------------
\* OnUserOut, and the end of a connection.

LEMMA OutStepSettles ==
  ASSUME StepsTypeOK, Settling, NEW c \in Clients, OutStep(c)
  PROVE  Settling'
<1> PICK t : t = Outgoing(c)
  OBVIOUS
<1>1. t \in Threads /\ t[1] # "reader" /\ \A d \in Clients : t # Reader(d)
  BY DEF Outgoing, Reader, Threads
<1>2. /\ ~IsAt(t, "call") /\ room' = room /\ inRoom' = inRoom
      /\ thread[t] \in ThreadState /\ thread[t] \in RecordState
  BY <1>1 DEF OutStep, GoOffline, HasRoom, IsInvalidRoom, IsLocked, TellOthers, OutExitRoom,
              RemoveEmptied, TryExitRoom, ExitAll, OutDone, OutAt, IsAt, StepsTypeOK,
              ThreadState, RecordState
<1>4. loggedIn' = loggedIn
  BY DEF OutStep, GoOffline, HasRoom, IsInvalidRoom, IsLocked, TellOthers, OutExitRoom,
         RemoveEmptied, TryExitRoom, ExitAll, OutDone, OutAt
<1>5. ASSUME NEW s \in ThreadState, s.at # "call", Goes(t, s) PROVE Settling'
  <2>1. /\ Moved(t)
        /\ \A d \in Clients : ~LeavingIn(thread'[t], d) /\ ~LeavingIn(thread[t], d)
    BY <1>1, <1>2, <1>5, RestSteady
  <2> QED BY <1>1, <1>2, <1>4, <2>1, SettlingKept
<1>6. ASSUME NEW s \in RecordState, NEW call, call.at # "leave", NEW then,
             Goes(t, Calls(s, call, then))
      PROVE  Settling'
  <2>1. /\ Moved(t)
        /\ \A d \in Clients : ~LeavingIn(thread'[t], d) /\ ~LeavingIn(thread[t], d)
    BY <1>1, <1>2, <1>6, CallsSteady
  <2> QED BY <1>1, <1>2, <1>4, <2>1, SettlingKept
<1>7. \A d : Call("check", d).at # "leave" /\ Call("remove", d).at # "leave"
  BY DEF Call
<1>8. Idle \in ThreadState /\ Idle \in RecordState /\ Idle.at # "call"
  BY IdleTyped
<1>9. ASSUME Finishes(c) PROVE Settling'
  BY <1>5, <1>8, <1>9 DEF Finishes
<1>10. ASSUME NEW at \in OutLabels, GoesTo(t, at) PROVE Settling'
  <2> PICK s : s = [thread[t] EXCEPT !.at = at]
    OBVIOUS
  <2>1. at \in Labels /\ at # "call" /\ at # "idle"
    BY <1>10 DEF Labels, OutLabels
  <2>2. thread[t].stack = <<>>
    BY <1>2 DEF ThreadState, IsAt
  <2>3. s \in ThreadState /\ s.at # "call"
    BY <1>2, <2>1, <2>2 DEF ThreadState
  <2> QED BY <1>5, <1>10, <2>3 DEF GoesTo
<1>11. ASSUME Panics(t) PROVE Settling'
  BY <1>1, <1>2, <1>4, <1>11, SettlingStays DEF Panics
<1>12. CASE GoOffline(c) \/ HasRoom(c) \/ IsInvalidRoom(c) \/ OutDone(c)
  <2>1. Finishes(c) \/ \E at \in OutLabels : GoesTo(t, at)
    BY <1>12 DEF GoOffline, HasRoom, WithRoom, IsInvalidRoom, OutDone, OutLabels
  <2> QED BY <1>9, <1>10, <2>1
<1>13. CASE IsLocked(c) \/ TellOthers(c)
  <2>1. Panics(t) \/ \E at \in OutLabels : GoesTo(t, at)
    BY <1>13 DEF IsLocked, TellOthers, OutLabels
  <2> QED BY <1>10, <1>11, <2>1
<1>14. CASE OutExitRoom(c) \/ RemoveEmptied(c)
  <2>1. \/ Finishes(c) \/ Goes(t, Calls(Idle, Call("check", c), "emptied"))
        \/ Goes(t, Calls(Idle, Call("remove", NoClient), "done"))
    BY <1>14 DEF OutExitRoom, RemoveEmptied
  <2> QED BY <1>6, <1>7, <1>8, <1>9, <2>1
<1>15. CASE TryExitRoom(c)
  <2> PICK s : s = [Idle EXCEPT !.at = "all", !.list = room.users]
    OBVIOUS
  <2>1. s \in RecordState /\ s.stack = <<>> /\ s.at = "all"
    BY <1>8, IdleTyped DEF RecordState, StepsTypeOK, RoomState, Labels, OutLabels
  <2>2. s \in ThreadState /\ s.at # "call"
    BY <2>1 DEF ThreadState, RecordState
  <2>3. Finishes(c) \/ Goes(t, s)
    BY <1>15 DEF TryExitRoom
  <2> QED BY <1>5, <1>9, <2>2, <2>3
<1>16. CASE ExitAll(c)
  <2>1. CASE thread[t].list # <<>>
    <3> PICK s : s = [thread[t] EXCEPT !.list = Tail(@)]
      OBVIOUS
    <3>1. s \in RecordState
      <4> PICK rest : rest = Tail(thread[t].list)
        OBVIOUS
      <4>1. rest \in Seq(Clients)
        BY <1>2, <2>1 DEF RecordState
      <4> QED BY <1>2, <4>1 DEF RecordState
    <3>2. Goes(t, Calls(s, Call("check", thread[t].list[1]), "all"))
      BY <1>16, <2>1 DEF ExitAll
    <3> QED BY <1>6, <1>7, <3>1, <3>2
  <2>2. CASE thread[t].list = <<>>
    <3>1. Goes(t, Calls(thread[t], Call("remove", NoClient), "done"))
      BY <1>16, <2>2 DEF ExitAll
    <3> QED BY <1>2, <1>6, <1>7, <3>1
  <2> QED BY <2>1, <2>2
<1> QED BY <1>12, <1>13, <1>14, <1>15, <1>16 DEF OutStep

LEMMA SettlingInit == StepsInit => Settling
<1> SUFFICES ASSUME StepsInit PROVE Settling
  OBVIOUS
<1> PICK n : n = Cardinality(inRoom)
  OBVIOUS
<1>1. inRoom \subseteq Clients /\ inRoom # {} /\ IsFiniteSet(inRoom) /\ n \in Nat
  BY StepsAssumption, FS_Subset, FS_CardinalityType DEF StepsInit
<1>2. PICK users \in [1..n -> inRoom] :
        room.users = users /\ Elems(users) = inRoom
  BY DEF StepsInit
<1>3. ASSUME NEW c PROVE AtMostOnce(users, c)
  <2>1. IsFiniteSet(1..n) /\ Cardinality(1..n) = n
    <3>1. 1 \in Int /\ n \in Int
      BY <1>1
    <3>2. IsFiniteSet(1..n) /\ Cardinality(1..n) = IF 1 > n THEN 0 ELSE n - 1 + 1
      BY <3>1, FS_Interval, Zenon
    <3> QED BY <1>1, <3>2
  <2>2. users \in Surjection(1..n, inRoom)
    BY <1>2 DEF Surjection, Elems
  <2>3. users \in Injection(1..n, inRoom)
    BY <2>1, <2>2, FS_Surjection
  <2> QED BY <1>2, <2>3 DEF Injection, IsInjective, AtMostOnce
<1>4. \A g \in Threads : thread[g] = Idle /\ thread[g].stack = <<>> /\ thread[g].at = "idle"
  BY DEF StepsInit, Idle
<1>5. \A c \in Clients : c \notin loggedIn => c \notin inRoom
  BY DEF StepsInit
<1>6. \A g \in Threads : OrderIn(g, thread[g])
  BY <1>4 DEF OrderIn
<1>7. ASSUME NEW c \in Clients PROVE Settles(c)
  <2>1. Reader(c) \in Threads
    BY ReaderOf
  <2> QED BY <1>2, <1>3, <1>4, <1>5, <2>1
          DEF Settles, ArrivingIn, EnteringIn, LeavingIn, IsAt
<1> QED BY <1>6, <1>7 DEF Settling

LEMMA SettlingStep == StepsTypeOK /\ Settling /\ [StepsNext]_stepVars => Settling'
<1> SUFFICES ASSUME StepsTypeOK, Settling, [StepsNext]_stepVars PROVE Settling'
  OBVIOUS
<1>1. ASSUME NEW t \in Threads, CallStep(t) PROVE Settling'
  BY <1>1, CallStepSettles
<1>2. ASSUME NEW c \in Clients, ReaderStep(c) PROVE Settling'
  BY <1>2, ReaderStepSettles
<1>3. ASSUME NEW c \in Clients, OutStep(c) PROVE Settling'
  BY <1>3, OutStepSettles
<1>4. ASSUME NEW c \in Clients, Disconnect(c) PROVE Settling'
  <2>1. room'.users = room.users /\ UNCHANGED <<thread, overlapped, inRoom, loggedIn>>
    BY <1>4 DEF Disconnect
  <2> QED BY <2>1, SettlingStays
<1>5. CASE UNCHANGED stepVars
  BY <1>5, SettlingStays DEF stepVars
<1> QED BY <1>1, <1>2, <1>3, <1>4, <1>5 DEF StepsNext

\* Whatever the goroutines of a room do between each other's steps, Client.room and
\* Room.users agree about a client as soon as nobody works on him: he is on the list,
\* once, exactly if his room is not nil.  It fails only for those who are taken out of
\* the room, or whose socket ends, in the middle of a handler of theirs.
THEOREM MembershipAlwaysSettles == StepsSpec => []MembershipSettles
<1>1. StepsTypeOK /\ Settling => MembershipSettles
  <2> SUFFICES ASSUME StepsTypeOK, Settling, NEW c \in Clients \ overlapped,
                      thread[Reader(c)] = Idle, ~TakenOut(c, thread)
               PROVE  /\ c \in inRoom <=> c \in Elems(room.users)
                      /\ Cardinality({i \in DOMAIN room.users : room.users[i] = c}) <= 1
    BY DEF MembershipSettles
  <2>1. Settles(c) /\ Idle.at = "idle"
    BY DEF Settling, Idle
  <2>2. \A g \in Threads : ~LeavingIn(thread[g], c)
    BY <2>1, LeavingTakesOut DEF LeavingIn
  <2>3. AtMostOnce(room.users, c)
    BY <2>1 DEF Settles
  <2>4. c \in inRoom <=> c \in Elems(room.users)
    BY <2>1, <2>2 DEF Settles, EnteringIn
  <2> QED BY <2>3, <2>4, OnceIsCardinality
<1>2. StepsInv => StepsTypeOK
  BY DEF StepsInv
<1> QED BY <1>1, <1>2, StepsInitInv, StepsStep, SettlingInit, SettlingStep, PTL
        DEF StepsSpec

-----------------------------------------------------------------------------
(***************************************************************************)
(* Why no room is left behind.  While the room is empty, a goroutine has   *)
(* yet to count its members; while it is flagged and on the list of rooms, *)
(* one has yet to take it off; and while all its members are offline, some *)
(* goroutine will take each of them out: it is going to sweep the room, or *)
(* is in an OnUserOut that leads to an exit, or has the member on the list *)
(* of those it takes out one after the other.                              *)
(***************************************************************************)
TopOf(s) == s.stack[Len(s.stack)]

CountsIn(s) ==
  /\ s.at = "call" /\ TopOf(s).at \notin {"heir", "crown"}
  /\ \E i \in DOMAIN s.stack : s.stack[i].at \in {"leave", "count", "remove"}

SweepsIn(s) ==
  /\ s.at = "call"
  /\ \/ TopOf(s).at \in {"drop", "leave", "sweep"}
     \/ TopOf(s).at \in {"check", "same"} /\ TopOf(s).who \in inRoom

ExitLabels == {"room", "invalid", "lock", "tell", "exit", "try"}
ExitsIn(g, s) == g[1] = "OnUserOut" /\ g[2] \in inRoom /\ s.at \in ExitLabels

AwaitsIn(s, c) ==
  \/ /\ s.at = "call"
     /\ \E i \in DOMAIN s.stack : s.stack[i].at = "next" /\ c \in Elems(s.stack[i].todo)
  \/ (s.at = "all" \/ (s.at = "call" /\ s.then = "all")) /\ c \in Elems(s.list)

\* Another goroutine has set the room of the client to nil that it is looking at: it
\* panics, and what it had yet to do is left to the other.
Falters(g) == CallAt(g, "same") /\ Top(g).who \notin inRoom

Reaps(g, c) ==
  \/ SweepsIn(thread[g]) \/ ExitsIn(g, thread[g])
  \/ AwaitsIn(thread[g], c) /\ ~Falters(g)

Deserted ==
  ~room.removed /\ Elems(room.users) \cap (online \cup overlapped \cup late) = {}

Counted ==
  ~room.removed /\ room.users = <<>> =>
    \E g \in Threads : CountsIn(thread[g]) /\ ~Falters(g)
Delisted == room.removed /\ room.listed => \E g \in Threads : CallAt(g, "delist")
Reaped ==
  ~crashed /\ Deserted => \A c \in Elems(room.users) : \E g \in Threads : Reaps(g, c)

\* Nobody is offline unnoticed in a handler of his.
Present ==
  \A c \in Clients :
    thread[Reader(c)] # Idle /\ c \notin online => c \in overlapped \cup late

NoGhostInv == Counted /\ Delisted /\ Reaped /\ Present

-----------------------------------------------------------------------------
\* What a step of a call does to the stack below it.

Below(t, n) == \A i \in 1..n : thread'[t].stack[i] = thread[t].stack[i]
Alike(t) ==
  /\ \A g \in Threads \ {t} : thread'[g] = thread[g]
  /\ thread'[t].then = thread[t].then /\ thread'[t].list = thread[t].list

LEMMA ContinuesStack ==
  ASSUME StepsTypeOK, NEW t \in Threads, IsAt(t, "call"), NEW call \in CallState,
         Continues(t, call)
  PROVE  LET n == Len(thread[t].stack)
         IN  /\ Alike(t) /\ IsAt(t, "call")' /\ Below(t, n - 1)
             /\ n \in Nat \ {0} /\ DOMAIN thread[t].stack = 1..n
             /\ DOMAIN thread'[t].stack = 1..n /\ Len(thread'[t].stack) = n
             /\ thread'[t].stack[n] = call
<1> PICK old : old = thread[t].stack
  OBVIOUS
<1> PICK n : n = Len(old)
  OBVIOUS
<1> PICK stack : stack = [old EXCEPT ![n] = call]
  OBVIOUS
<1> PICK new : new = [thread[t] EXCEPT !.stack = stack]
  OBVIOUS
<1>1. thread[t] \in RecordState /\ n \in Nat \ {0} /\ old \in Seq(CallState)
  BY TopTyped DEF RecordState
<1>2. /\ DOMAIN stack = 1..n /\ Len(stack) = n /\ stack[n] = call
      /\ \A i \in 1..(n - 1) : stack[i] = old[i]
      /\ DOMAIN old = 1..n
  BY <1>1
<1>3. /\ new.at = "call" /\ new.then = thread[t].then /\ new.stack = stack
      /\ new.list = thread[t].list
  BY <1>1 DEF RecordState, IsAt
<1>4. thread'[t] = new /\ \A g \in Threads \ {t} : thread'[g] = thread[g]
  BY DEF Continues, Goes, StepsTypeOK
<1> QED BY <1>1, <1>2, <1>3, <1>4 DEF Alike, Below, IsAt

LEMMA CallsWithStack ==
  ASSUME StepsTypeOK, NEW t \in Threads, IsAt(t, "call"), NEW rest \in CallState,
         NEW call \in CallState, CallsWith(t, rest, call)
  PROVE  LET n == Len(thread[t].stack)
         IN  /\ Alike(t) /\ IsAt(t, "call")' /\ Below(t, n - 1)
             /\ n \in Nat \ {0} /\ DOMAIN thread[t].stack = 1..n
             /\ DOMAIN thread'[t].stack = 1..(n + 1) /\ Len(thread'[t].stack) = n + 1
             /\ thread'[t].stack[n] = rest /\ thread'[t].stack[n + 1] = call
<1> PICK old : old = thread[t].stack
  OBVIOUS
<1> PICK n : n = Len(old)
  OBVIOUS
<1> PICK stack : stack = Append([old EXCEPT ![n] = rest], call)
  OBVIOUS
<1> PICK new : new = [thread[t] EXCEPT !.stack = stack]
  OBVIOUS
<1>1. thread[t] \in RecordState /\ n \in Nat \ {0} /\ old \in Seq(CallState)
  BY TopTyped DEF RecordState
<1>2. /\ DOMAIN stack = 1..(n + 1) /\ Len(stack) = n + 1
      /\ stack[n] = rest /\ stack[n + 1] = call
      /\ \A i \in 1..(n - 1) : stack[i] = old[i]
      /\ DOMAIN old = 1..n
  BY <1>1
<1>3. /\ new.at = "call" /\ new.then = thread[t].then /\ new.stack = stack
      /\ new.list = thread[t].list
  BY <1>1 DEF RecordState, IsAt
<1>4. thread'[t] = new /\ \A g \in Threads \ {t} : thread'[g] = thread[g]
  BY DEF CallsWith, Goes, StepsTypeOK
<1> QED BY <1>1, <1>2, <1>3, <1>4 DEF Alike, Below, IsAt

LEMMA ReturnsStack ==
  ASSUME StepsTypeOK, NEW t \in Threads, IsAt(t, "call"), Returns(t)
  PROVE  LET n == Len(thread[t].stack)
         IN  /\ Alike(t) /\ Below(t, n - 1)
             /\ n \in Nat \ {0} /\ DOMAIN thread[t].stack = 1..n
             /\ DOMAIN thread'[t].stack = 1..(n - 1) /\ Len(thread'[t].stack) = n - 1
             /\ thread'[t].at = IF n = 1 THEN thread[t].then ELSE "call"
<1> PICK old : old = thread[t].stack
  OBVIOUS
<1> PICK n : n = Len(old)
  OBVIOUS
<1> PICK rest : rest = SubSeq(old, 1, n - 1)
  OBVIOUS
<1> PICK new : new = [thread[t] EXCEPT !.stack = rest,
                                       !.at = IF rest = <<>> THEN thread[t].then ELSE @]
  OBVIOUS
<1>1. thread[t] \in RecordState /\ n \in Nat \ {0} /\ old \in Seq(CallState)
  BY TopTyped DEF RecordState
<1>2. /\ DOMAIN rest = 1..(n - 1) /\ Len(rest) = n - 1 /\ DOMAIN old = 1..n
      /\ \A i \in 1..(n - 1) : rest[i] = old[i]
      /\ rest = <<>> <=> n = 1
  <2>1. /\ DOMAIN rest = 1..(n - 1) /\ Len(rest) = n - 1 /\ DOMAIN old = 1..n
        /\ \A i \in 1..(n - 1) : rest[i] = old[i]
        /\ rest \in Seq(CallState)
    BY <1>1
  <2>2. rest = <<>> <=> Len(rest) = 0
    <3>1. rest \in Seq(CallState)
      BY <2>1
    <3> QED BY ONLY <3>1
  <2>3. Len(rest) = 0 <=> n = 1
    <3>1. n \in Nat \ {0} /\ Len(rest) = n - 1
      BY <1>1, <2>1
    <3> QED BY ONLY <3>1
  <2> QED BY <2>1, <2>2, <2>3
<1>3. /\ new.then = thread[t].then /\ new.stack = rest /\ new.list = thread[t].list
      /\ new.at = IF n = 1 THEN thread[t].then ELSE "call"
  BY <1>1, <1>2 DEF RecordState, IsAt
<1>4. thread'[t] = new /\ \A g \in Threads \ {t} : thread'[g] = thread[g]
  BY DEF Returns, Goes, StepsTypeOK
<1> QED BY <1>1, <1>2, <1>3, <1>4 DEF Alike, Below, IsAt

\* A goroutine that is to count the members is so until it counts them.
LEMMA CountsStays ==
  ASSUME StepsTypeOK, Settling, NEW t \in Threads, CountsIn(thread[t]),
         Top(t).at \notin {"leave", "count", "remove"},
         \/ Returns(t)
         \/ \E call \in CallState : Continues(t, call) /\ call.at \notin {"heir", "crown"}
         \/ \E rest \in CallState, call \in CallState :
              CallsWith(t, rest, call) /\ call.at \notin {"heir", "crown"}
  PROVE  CountsIn(thread'[t])
<1> PICK n : n = Len(thread[t].stack)
  OBVIOUS
<1>1. IsAt(t, "call") /\ OrderIn(t, thread[t])
  BY DEF CountsIn, IsAt, Settling
<1>2. PICK i \in DOMAIN thread[t].stack :
        thread[t].stack[i].at \in {"leave", "count", "remove"}
  BY DEF CountsIn
<1>3. i # n
  BY <1>2 DEF Top
<1>4. CASE Returns(t)
  <2>1. /\ Below(t, n - 1) /\ n \in Nat \ {0} /\ DOMAIN thread[t].stack = 1..n
        /\ DOMAIN thread'[t].stack = 1..(n - 1) /\ Len(thread'[t].stack) = n - 1
        /\ thread'[t].at = IF n = 1 THEN thread[t].then ELSE "call"
    BY <1>1, <1>4, ReturnsStack
  <2>2. i \in 1..(n - 1) /\ n - 1 \in 1..(n - 1) /\ n # 1 /\ n - 1 < n /\ n - 1 \in 1..n
    <3>1. i \in 1..n /\ n \in Nat \ {0}
      BY <1>2, <2>1
    <3> QED BY ONLY <1>3, <3>1
  <2>3. thread'[t].stack[i] = thread[t].stack[i]
        /\ thread'[t].stack[n - 1] = thread[t].stack[n - 1]
    BY <2>1, <2>2 DEF Below
  <2>4. thread[t].stack[n - 1].at \in {"count", "next"}
    BY <1>1, <2>1, <2>2 DEF OrderIn
  <2> QED BY <1>2, <2>1, <2>2, <2>3, <2>4 DEF CountsIn, TopOf
<1>5. CASE \E call \in CallState : Continues(t, call) /\ call.at \notin {"heir", "crown"}
  <2>1. PICK call \in CallState : Continues(t, call) /\ call.at \notin {"heir", "crown"}
    BY <1>5
  <2>2. /\ Below(t, n - 1) /\ n \in Nat \ {0} /\ DOMAIN thread[t].stack = 1..n
        /\ DOMAIN thread'[t].stack = 1..n /\ Len(thread'[t].stack) = n
        /\ thread'[t].stack[n] = call /\ thread'[t].at = "call"
    BY <1>1, <2>1, ContinuesStack DEF IsAt
  <2>3. i \in 1..(n - 1)
    <3>1. i \in 1..n /\ n \in Nat \ {0}
      BY <1>2, <2>2
    <3> QED BY ONLY <1>3, <3>1
  <2>4. thread'[t].stack[i] = thread[t].stack[i]
    BY <2>2, <2>3 DEF Below
  <2> QED BY <1>2, <2>1, <2>2, <2>4 DEF CountsIn, TopOf
<1>6. CASE \E rest \in CallState, call \in CallState :
             CallsWith(t, rest, call) /\ call.at \notin {"heir", "crown"}
  <2>1. PICK rest \in CallState, call \in CallState :
          CallsWith(t, rest, call) /\ call.at \notin {"heir", "crown"}
    BY <1>6
  <2>2. /\ Below(t, n - 1) /\ n \in Nat \ {0} /\ DOMAIN thread[t].stack = 1..n
        /\ DOMAIN thread'[t].stack = 1..(n + 1) /\ Len(thread'[t].stack) = n + 1
        /\ thread'[t].stack[n + 1] = call /\ thread'[t].at = "call"
    BY <1>1, <2>1, CallsWithStack DEF IsAt
  <2>3. i \in 1..(n - 1) /\ i \in 1..(n + 1)
    <3>1. i \in 1..n /\ n \in Nat \ {0}
      BY <1>2, <2>2
    <3> QED BY ONLY <1>3, <3>1
  <2>4. thread'[t].stack[i] = thread[t].stack[i]
    BY <2>2, <2>3 DEF Below
  <2> QED BY <1>2, <2>1, <2>2, <2>3, <2>4 DEF CountsIn, TopOf
<1> QED BY <1>4, <1>5, <1>6

\* Whom a goroutine has on its list stays there until his turn comes.
LEMMA AwaitsStays ==
  ASSUME StepsTypeOK, NEW t \in Threads, IsAt(t, "call"), NEW c, AwaitsIn(thread[t], c),
         Top(t).at = "next" => c \notin Elems(Top(t).todo),
         \/ Returns(t)
         \/ \E call \in CallState : Continues(t, call)
         \/ \E rest \in CallState, call \in CallState : CallsWith(t, rest, call)
  PROVE  AwaitsIn(thread'[t], c)
<1> PICK n : n = Len(thread[t].stack)
  OBVIOUS
<1>1. /\ Below(t, n - 1) /\ Alike(t) /\ n \in Nat \ {0} /\ DOMAIN thread[t].stack = 1..n
      /\ 1..(n - 1) \subseteq DOMAIN thread'[t].stack
      /\ n # 1 => thread'[t].at = "call"
      /\ thread'[t].at \in {"call", thread[t].then}
  <2>1. CASE Returns(t)
    BY <2>1, ReturnsStack
  <2>2. CASE \E call \in CallState : Continues(t, call)
    BY <2>2, ContinuesStack DEF IsAt
  <2>3. CASE \E rest \in CallState, call \in CallState : CallsWith(t, rest, call)
    <3>1. PICK rest \in CallState, call \in CallState : CallsWith(t, rest, call)
      BY <2>3
    <3>2. /\ Below(t, n - 1) /\ Alike(t) /\ n \in Nat \ {0} /\ DOMAIN thread[t].stack = 1..n
          /\ DOMAIN thread'[t].stack = 1..(n + 1) /\ thread'[t].at = "call"
      BY <3>1, CallsWithStack DEF IsAt
    <3>3. 1..(n - 1) \subseteq 1..(n + 1)
      BY <3>2
    <3> QED BY <3>2, <3>3
  <2> QED BY <2>1, <2>2, <2>3
<1>2. CASE \E i \in DOMAIN thread[t].stack :
             thread[t].stack[i].at = "next" /\ c \in Elems(thread[t].stack[i].todo)
  <2>1. PICK i \in DOMAIN thread[t].stack :
          thread[t].stack[i].at = "next" /\ c \in Elems(thread[t].stack[i].todo)
    BY <1>2
  <2>2. i # n
    BY <2>1 DEF Top
  <2>3. i \in 1..(n - 1) /\ n # 1
    <3>1. i \in 1..n /\ n \in Nat \ {0}
      BY <1>1, <2>1
    <3> QED BY ONLY <2>2, <3>1
  <2>4. thread'[t].stack[i] = thread[t].stack[i]
    BY <1>1, <2>3 DEF Below
  <2> QED BY <1>1, <2>1, <2>3, <2>4 DEF AwaitsIn
<1>3. CASE thread[t].then = "all" /\ c \in Elems(thread[t].list)
  BY <1>1, <1>3 DEF AwaitsIn, Alike
<1> QED BY <1>2, <1>3 DEF AwaitsIn, IsAt

LEMMA AtTyped ==
  ASSUME StepsTypeOK, NEW t \in Threads, IsAt(t, "call"), NEW at \in CallLabels \ {"crown"}
  PROVE  /\ [Top(t) EXCEPT !.at = at] \in CallState
         /\ [Top(t) EXCEPT !.at = at].at = at
         /\ [Top(t) EXCEPT !.at = at].who = Top(t).who
BY TopTyped DEF CallState

\* What the steps of a call are made of.
LEMMA CallStepMoves ==
  ASSUME StepsTypeOK, NEW t \in Threads, CallStep(t)
  PROVE  /\ IsAt(t, "call") /\ Top(t) \in CallState
         /\ \A g \in Threads \ {t} : thread'[g] = thread[g]
         /\ overlapped \subseteq overlapped' /\ late' = late /\ online' = online
         /\ room.removed => room'.removed
         /\ room'.listed => room.listed
         /\ ~Drop(t) => room'.users = room.users
         /\ ~Leave(t) => inRoom' = inRoom
<1>1. IsAt(t, "call")
  BY DEF CallStep, CallAt, Check, SameRoom, Drop, Leave, Count, ChooseHeir, Crown, Sweep, NextZombie,
         TestRemoved, Delist, RecycleId
<1>2. Top(t) \in CallState
  BY <1>1, TopTyped
<1>3. (\E s : Goes(t, s)) \/ UNCHANGED <<thread, overlapped>>
  BY DEF CallStep, Check, SameRoom, Drop, Leave, Count, ChooseHeir, Crown, Sweep, NextZombie,
         TestRemoved, Delist, RecycleId, Panics, Continues, ContinuesAt, CallsWith, Returns
<1>4. /\ \A g \in Threads \ {t} : thread'[g] = thread[g]
      /\ overlapped \subseteq overlapped'
  BY <1>3 DEF Goes, StepsTypeOK
<1>5. /\ room.removed => room'.removed
      /\ room'.listed => room.listed
      /\ ~Drop(t) => room'.users = room.users
  BY DEF CallStep, Check, SameRoom, Drop, Leave, Count, ChooseHeir, Crown, Sweep, NextZombie,
         TestRemoved, Delist, RecycleId, StepsTypeOK, RoomState, Flagged
<1>6. /\ ~Leave(t) => inRoom' = inRoom
      /\ online' = online /\ late' = late
  BY DEF CallStep, Check, SameRoom, Drop, Leave, Count, ChooseHeir, Crown, Sweep, NextZombie,
         TestRemoved, Delist, RecycleId
<1> QED BY <1>1, <1>2, <1>4, <1>5, <1>6

LEMMA FaltersStays ==
  ASSUME NEW g \in Threads, Falters(g)', thread'[g] = thread[g], inRoom' = inRoom
  PROVE  Falters(g)
BY DEF Falters, CallAt, IsAt, Top

\* A goroutine falters by what others do, never by a step of its own.
LEMMA NobodyFalters ==
  ASSUME StepsTypeOK, Settling, NEW t \in Threads, CallStep(t), ~Falters(t)
  PROVE  ~Falters(t)'
<1> SUFFICES ASSUME Falters(t)' PROVE FALSE
  OBVIOUS
<1>1. IsAt(t, "call") /\ Top(t) \in CallState
  BY CallStepMoves
<1>2. /\ thread'[t].at = "call" /\ TopOf(thread'[t]).at = "same"
      /\ TopOf(thread'[t]).who \notin inRoom'
  BY DEF Falters, CallAt, IsAt, Top, TopOf
<1>3. ASSUME NEW call \in CallState, Continues(t, call), call.at # "same" PROVE FALSE
  <2>1. thread'[t].stack[Len(thread'[t].stack)] = call
    BY <1>1, <1>3, ContinuesStack
  <2> QED BY <1>2, <1>3, <2>1 DEF TopOf
<1>4. ASSUME NEW at \in CallLabels \ {"crown", "same"}, ContinuesAt(t, at) PROVE FALSE
  BY <1>1, <1>3, <1>4, AtTyped DEF ContinuesAt
<1>5. ASSUME NEW rest \in CallState, NEW call \in CallState, CallsWith(t, rest, call),
             call.at # "same"
      PROVE  FALSE
  <2>1. thread'[t].stack[Len(thread'[t].stack)] = call
    BY <1>1, <1>5, CallsWithStack
  <2> QED BY <1>2, <1>5, <2>1 DEF TopOf
<1>6. ASSUME Returns(t) PROVE FALSE
  <2> PICK n : n = Len(thread[t].stack)
    OBVIOUS
  <2>1. /\ Below(t, n - 1) /\ n \in Nat \ {0} /\ DOMAIN thread[t].stack = 1..n
        /\ Len(thread'[t].stack) = n - 1
        /\ thread'[t].at = IF n = 1 THEN thread[t].then ELSE "call"
    BY <1>1, <1>6, ReturnsStack
  <2>2. thread[t].then # "call"
    BY <1>1, TopTyped DEF RecordState, Labels, ReaderLabels, OutLabels
  <2>3. n # 1
    BY <1>2, <2>1, <2>2
  <2>4. n - 1 \in 1..(n - 1) /\ n - 1 < n /\ n - 1 \in 1..n
    <3>1. n \in Nat \ {0}
      BY <2>1
    <3> QED BY ONLY <2>3, <3>1
  <2>5. thread'[t].stack[n - 1] = thread[t].stack[n - 1]
    BY <2>1, <2>4 DEF Below
  <2>6. thread[t].stack[n - 1].at \in {"count", "next"}
    BY <2>1, <2>4 DEF Settling, OrderIn
  <2> QED BY <1>2, <2>1, <2>5, <2>6 DEF TopOf
<1>7. ASSUME Panics(t), Top(t).at # "same" PROVE FALSE
  <2>1. CASE Goes(t, Idle)
    <3>1. thread'[t] = Idle
      BY <2>1 DEF Goes, StepsTypeOK
    <3> QED BY <1>2, <3>1 DEF Idle
  <2>2. CASE thread' = thread
    BY <1>2, <1>7, <2>2 DEF Top, TopOf
  <2> QED BY <1>7, <2>1, <2>2 DEF Panics
<1>8. CASE Check(t)
  <2>1. CASE Top(t).who \in inRoom
    <3> PICK call : call = [Top(t) EXCEPT !.at = "same"]
      OBVIOUS
    <3>1. Continues(t, call) /\ inRoom' = inRoom
      BY <1>8, <2>1 DEF Check, ContinuesAt
    <3>2. call \in CallState /\ call.who = Top(t).who
      BY <1>1, AtTyped DEF CallLabels
    <3>3. thread'[t].stack[Len(thread'[t].stack)] = call
      BY <1>1, <3>1, <3>2, ContinuesStack
    <3> QED BY <1>2, <2>1, <3>1, <3>2, <3>3 DEF TopOf
  <2>2. CASE Top(t).who \notin inRoom
    BY <1>4, <1>8, <2>2 DEF Check, CallLabels
  <2> QED BY <2>1, <2>2
<1>9. CASE SameRoom(t)
  <2>1. ContinuesAt(t, "drop")
    BY <1>9 DEF SameRoom, Falters
  <2> QED BY <1>4, <2>1 DEF CallLabels
<1>10. CASE Drop(t) \/ Count(t) \/ TestRemoved(t) \/ Delist(t)
  <2>1. \/ Returns(t)
        \/ \E at \in {"leave", "remove", "heir", "delist", "recycle"} : ContinuesAt(t, at)
    BY <1>10 DEF Drop, Count, TestRemoved, Delist
  <2> QED BY <1>4, <1>6, <2>1 DEF CallLabels
<1>11. CASE Leave(t)
  <2> PICK rest : rest = [Top(t) EXCEPT !.at = "count"]
    OBVIOUS
  <2>1. CallsWith(t, rest, Call("sweep", NoClient))
    BY <1>11 DEF Leave
  <2>2. /\ rest \in CallState
        /\ Call("sweep", NoClient) \in CallState /\ Call("sweep", NoClient).at = "sweep"
    BY <1>1, AtTyped, CallTyped DEF CallLabels
  <2> QED BY <1>5, <2>1, <2>2
<1>12. CASE ChooseHeir(t)
  <2>1. CASE room.master = Top(t).who /\ room.users # <<>>
    <3> PICK call : call = [Top(t) EXCEPT !.at = "crown", !.todo = <<room.users[1]>>]
      OBVIOUS
    <3>1. Continues(t, call)
      BY <1>12, <2>1 DEF ChooseHeir
    <3>2. <<room.users[1]>> \in Seq(Clients) /\ <<room.users[1]>> # <<>>
      BY <2>1 DEF StepsTypeOK, RoomState
    <3>3. call \in CallState /\ call.at = "crown"
      <4>1. Top(t) \in [at : CallLabels, who : Clients \cup {NoClient}, todo : Seq(Clients)]
        BY <1>1 DEF CallState
      <4>2. /\ call \in [at : CallLabels, who : Clients \cup {NoClient}, todo : Seq(Clients)]
            /\ call.at = "crown" /\ call.todo = <<room.users[1]>>
        BY <3>2, <4>1 DEF CallLabels
      <4> QED BY <3>2, <4>2 DEF CallState
    <3> QED BY <1>3, <3>1, <3>3
  <2>2. CASE ~(room.master = Top(t).who /\ room.users # <<>>)
    <3>1. Top(t).at = "heir" /\ (Returns(t) \/ Panics(t))
      BY <1>12, <2>2 DEF ChooseHeir, CallAt
    <3> QED BY <1>6, <1>7, <3>1
  <2> QED BY <2>1, <2>2
<1>13. CASE Crown(t) \/ RecycleId(t)
  BY <1>6, <1>13 DEF Crown, RecycleId
<1>14. CASE Sweep(t)
  <2> PICK call : call = [Top(t) EXCEPT !.at = "next", !.todo = Offline]
    OBVIOUS
  <2>1. Offline \in Seq(Clients)
    BY KeepProperties DEF StepsTypeOK, RoomState, Offline
  <2>2. call \in CallState /\ call.at = "next"
    BY <1>1, <2>1 DEF CallState, CallLabels
  <2> QED BY <1>3, <1>14, <2>2 DEF Sweep
<1>15. CASE NextZombie(t)
  <2>1. CASE Top(t).todo # <<>>
    <3> PICK rest : rest = [Top(t) EXCEPT !.todo = Tail(@)]
      OBVIOUS
    <3> PICK call : call = Call("check", Top(t).todo[1])
      OBVIOUS
    <3>1. Top(t).at = "next" /\ CallsWith(t, rest, call)
      BY <1>15, <2>1 DEF NextZombie, CallAt
    <3>2. Tail(Top(t).todo) \in Seq(Clients) /\ Top(t).todo[1] \in Clients
      BY <1>1, <2>1 DEF CallState
    <3>3. rest \in CallState
      BY <1>1, <3>1, <3>2 DEF CallState
    <3>4. call \in CallState /\ call.at = "check"
      BY <3>2, CallTyped DEF CallLabels
    <3> QED BY <1>5, <3>1, <3>3, <3>4
  <2>2. CASE Top(t).todo = <<>>
    BY <1>6, <1>15, <2>2 DEF NextZombie
  <2> QED BY <2>1, <2>2
<1> QED BY <1>8, <1>9, <1>10, <1>11, <1>12, <1>13, <1>14, <1>15 DEF CallStep

-----------------------------------------------------------------------------
\* An empty room is noticed.

LEMMA CountedCall ==
  ASSUME StepsTypeOK, Settling, Counted, NEW t \in Threads, CallStep(t)
  PROVE  Counted'
<1> SUFFICES ASSUME ~room'.removed, room'.users = <<>>
             PROVE  \E g \in Threads : CountsIn(thread'[g]) /\ ~Falters(g)'
  BY DEF Counted
<1>1. /\ IsAt(t, "call") /\ Top(t) \in CallState /\ ~room.removed
      /\ \A g \in Threads \ {t} : thread'[g] = thread[g]
  BY CallStepMoves
<1>2. ASSUME NEW call \in CallState, Continues(t, call), call.at \in {"leave", "remove"}
      PROVE  CountsIn(thread'[t]) /\ ~Falters(t)'
  <2> PICK n : n = Len(thread[t].stack)
    OBVIOUS
  <2>1. /\ thread'[t].at = "call" /\ DOMAIN thread'[t].stack = 1..n
        /\ Len(thread'[t].stack) = n /\ thread'[t].stack[n] = call /\ n \in 1..n
    BY <1>1, <1>2, ContinuesStack DEF IsAt
  <2> QED BY <1>2, <2>1 DEF CountsIn, TopOf, Falters, CallAt, Top
<1>3. CASE Drop(t)
  <2>1. Continues(t, [Top(t) EXCEPT !.at = "leave"])
    BY <1>3 DEF Drop, ContinuesAt
  <2> QED BY <1>1, <1>2, <2>1, AtTyped DEF CallLabels
<1>5. CASE Leave(t)
  <2> PICK n : n = Len(thread[t].stack)
    OBVIOUS
  <2> PICK rest : rest = [Top(t) EXCEPT !.at = "count"]
    OBVIOUS
  <2>1. CallsWith(t, rest, Call("sweep", NoClient))
    BY <1>5 DEF Leave
  <2>2. /\ rest \in CallState /\ rest.at = "count"
        /\ Call("sweep", NoClient) \in CallState /\ Call("sweep", NoClient).at = "sweep"
    BY <1>1, AtTyped, CallTyped DEF CallLabels
  <2>3. /\ thread'[t].at = "call" /\ n \in 1..(n + 1)
        /\ DOMAIN thread'[t].stack = 1..(n + 1) /\ Len(thread'[t].stack) = n + 1
        /\ thread'[t].stack[n] = rest
        /\ thread'[t].stack[n + 1] = Call("sweep", NoClient)
    BY <1>1, <2>1, <2>2, CallsWithStack DEF IsAt
  <2>4. TopOf(thread'[t]) = Call("sweep", NoClient)
    BY <2>3 DEF TopOf
  <2>5. n \in DOMAIN thread'[t].stack /\ thread'[t].stack[n].at = "count"
    BY <2>2, <2>3
  <2>6. CountsIn(thread'[t]) /\ ~Falters(t)'
    BY <2>2, <2>3, <2>4, <2>5 DEF CountsIn, Falters, CallAt, Top, TopOf
  <2> QED BY <2>6
<1>4. CASE ~Drop(t) /\ ~Leave(t)
  <2>1. room.users = <<>> /\ inRoom' = inRoom
    BY <1>4, CallStepMoves
  <2>2. PICK w \in Threads : CountsIn(thread[w]) /\ ~Falters(w)
    BY <1>1, <2>1 DEF Counted
  <2>3. CASE w # t
    BY <1>1, <2>1, <2>2, <2>3, FaltersStays
  <2>4. CASE w = t
    <3>1. CountsIn(thread[t]) /\ Top(t).at \notin {"heir", "crown"}
      BY <2>2, <2>4 DEF CountsIn, TopOf, Top
    <3>11. ~Falters(t)'
      BY <2>2, <2>4, NobodyFalters
    <3>12. SUFFICES CountsIn(thread'[t])
      BY <3>11
    <3>3. CASE SameRoom(t)
      <4>1. Continues(t, [Top(t) EXCEPT !.at = "drop"]) /\ Top(t).at = "same"
        BY <2>2, <2>4, <3>3 DEF SameRoom, ContinuesAt, Falters, CallAt
      <4>2. "drop" \in CallLabels \ {"crown"}
        BY DEF CallLabels
      <4> QED BY <1>1, <3>1, <4>1, <4>2, AtTyped, CountsStays
    <3>2. CASE Check(t)
      <4>1. PICK at \in {"same", "remove"} : Continues(t, [Top(t) EXCEPT !.at = at])
        BY <3>2 DEF Check, ContinuesAt
      <4>2. at \in CallLabels \ {"crown"} /\ Top(t).at = "check"
        BY <3>2 DEF CallLabels, Check, CallAt
      <4> QED BY <1>1, <3>1, <4>1, <4>2, AtTyped, CountsStays
    <3>4. CASE Count(t)
      <4>1. Continues(t, [Top(t) EXCEPT !.at = "remove"])
        BY <2>1, <3>4 DEF Count, ContinuesAt, NobodyLeft
      <4> QED BY <1>1, <1>2, <4>1, AtTyped DEF CallLabels
    <3>5. CASE Sweep(t)
      <4> PICK call : call = [Top(t) EXCEPT !.at = "next", !.todo = Offline]
        OBVIOUS
      <4>1. Offline \in Seq(Clients)
        BY KeepProperties DEF Offline, StepsTypeOK, RoomState
      <4>2. call \in CallState /\ call.at = "next" /\ Continues(t, call)
            /\ Top(t).at = "sweep"
        BY <1>1, <3>5, <4>1 DEF CallState, CallLabels, Sweep, CallAt
      <4> QED BY <3>1, <4>2, CountsStays
    <3>6. CASE NextZombie(t)
      <4>1. Top(t).at = "next"
        BY <3>6 DEF NextZombie, CallAt
      <4>2. \/ Returns(t)
            \/ \E rest \in CallState, call \in CallState :
                 CallsWith(t, rest, call) /\ call.at \notin {"heir", "crown"}
        <5>1. CASE Top(t).todo # <<>>
          <6>1. /\ [Top(t) EXCEPT !.todo = Tail(@)] \in CallState
                /\ Call("check", Top(t).todo[1]) \in CallState
                /\ Call("check", Top(t).todo[1]).at = "check"
            BY <1>1, <4>1, <5>1 DEF CallState, CallLabels, Call
          <6> QED BY <3>6, <5>1, <6>1 DEF NextZombie
        <5> QED BY <3>6, <5>1 DEF NextZombie
      <4> QED BY <3>1, <4>1, <4>2, CountsStays
    <3>7. CASE TestRemoved(t)
      BY <3>7 DEF TestRemoved, Flagged, StepsTypeOK, RoomState
    <3>8. CASE Delist(t)
      <4>1. Continues(t, [Top(t) EXCEPT !.at = "recycle"]) /\ Top(t).at = "delist"
        BY <3>8 DEF Delist, ContinuesAt, CallAt
      <4>2. "recycle" \in CallLabels \ {"crown"}
        BY DEF CallLabels
      <4>3. CountsIn(thread'[t])
        BY <1>1, <3>1, <4>1, <4>2, AtTyped, CountsStays
      <4> QED BY <4>3
    <3>9. CASE RecycleId(t)
      BY <3>1, <3>9, CountsStays DEF RecycleId, CallAt
    <3>10. CASE ChooseHeir(t) \/ Crown(t)
      BY <3>1, <3>10 DEF ChooseHeir, Crown, CallAt
    <3> QED BY <1>4, <3>2, <3>3, <3>4, <3>5, <3>6, <3>7, <3>8, <3>9, <3>10 DEF CallStep
  <2> QED BY <2>3, <2>4
<1> QED BY <1>3, <1>4, <1>5

\* A room that is flagged leaves the list.
LEMMA DelistedCall ==
  ASSUME StepsTypeOK, Delisted, NEW t \in Threads, CallStep(t)
  PROVE  Delisted'
<1> SUFFICES ASSUME room'.removed, room'.listed
             PROVE  \E g \in Threads : CallAt(g, "delist")'
  BY DEF Delisted
<1>1. /\ IsAt(t, "call") /\ Top(t) \in CallState /\ room.listed
      /\ \A g \in Threads \ {t} : thread'[g] = thread[g]
  BY CallStepMoves
<1>2. CASE room.removed
  <2>1. PICK w \in Threads : CallAt(w, "delist")
    BY <1>1, <1>2 DEF Delisted
  <2>2. CASE w = t
    <3>1. Delist(t)
      BY <2>1, <2>2 DEF CallStep, CallAt, Check, SameRoom, Drop, Leave, Count, ChooseHeir, Crown, Sweep,
                        NextZombie, TestRemoved, RecycleId
    <3> QED BY <3>1 DEF Delist, StepsTypeOK, RoomState
  <2>3. CASE w # t
    <3>1. thread'[w] = thread[w]
      BY <1>1, <2>3
    <3> QED BY <2>1, <3>1 DEF CallAt, IsAt, Top
  <2> QED BY <2>2, <2>3
<1>3. CASE ~room.removed
  <2>1. TestRemoved(t)
    BY <1>3 DEF CallStep, Check, SameRoom, Drop, Leave, Count, ChooseHeir, Crown, Sweep, NextZombie,
                Delist, RecycleId, StepsTypeOK, RoomState
  <2> PICK call : call = [Top(t) EXCEPT !.at = "delist"]
    OBVIOUS
  <2>2. Continues(t, call) /\ call \in CallState /\ call.at = "delist"
    BY <1>1, <1>3, <2>1, AtTyped DEF TestRemoved, ContinuesAt, CallLabels
  <2> PICK n : n = Len(thread[t].stack)
    OBVIOUS
  <2>3. thread'[t].at = "call" /\ Len(thread'[t].stack) = n /\ thread'[t].stack[n] = call
    BY <1>1, <2>2, ContinuesStack DEF IsAt
  <2> QED BY <2>2, <2>3 DEF CallAt, IsAt, Top
<1> QED BY <1>2, <1>3

\* The same for a step of a goroutine that executes no call.
LEMMA CountedRest ==
  ASSUME Counted, inRoom \subseteq inRoom', NEW t \in Threads, ~IsAt(t, "call"),
         \A g \in Threads \ {t} : thread'[g] = thread[g],
         room'.removed = room.removed, room'.users = <<>> => room.users = <<>>
  PROVE  Counted'
BY DEF Counted, CountsIn, Falters, CallAt, Top, IsAt

LEMMA DelistedRest ==
  ASSUME Delisted, NEW t \in Threads, ~IsAt(t, "call"),
         \A g \in Threads \ {t} : thread'[g] = thread[g],
         room'.removed = room.removed, room'.listed = room.listed
  PROVE  Delisted'
BY DEF Delisted, CallAt, IsAt, Top

-----------------------------------------------------------------------------
\* Members who are offline are taken out.

LEMMA ReapsStays ==
  ASSUME NEW g \in Threads, NEW c, Reaps(g, c), thread'[g] = thread[g], inRoom \subseteq inRoom'
  PROVE  Reaps(g, c)'
BY DEF Reaps, SweepsIn, ExitsIn, AwaitsIn, Falters, CallAt, IsAt, Top

LEMMA OfflineElems ==
  ASSUME StepsTypeOK
  PROVE  /\ Offline \in Seq(Clients) /\ Elems(Offline) = Elems(room.users) \ online
         /\ Elems(OnlineMembers) = Elems(room.users) \cap online
         /\ \A c \in Clients : Elems(Keep(OnlineMembers, Clients \ {c})) =
                                 (Elems(room.users) \cap online) \ {c}
<1>1. room.users \in Seq(Clients) /\ Elems(room.users) \subseteq Clients
  BY DEF StepsTypeOK, RoomState, Elems
<1>2. OnlineMembers \in Seq(Clients) /\ Elems(OnlineMembers) = Elems(room.users) \cap online
  BY <1>1, KeepProperties DEF OnlineMembers
<1>3. Offline \in Seq(Clients) /\ Elems(Offline) = Elems(room.users) \cap (Clients \ online)
  BY <1>1, KeepProperties DEF Offline
<1>4. ASSUME NEW c \in Clients
      PROVE  Elems(Keep(OnlineMembers, Clients \ {c})) = (Elems(room.users) \cap online) \ {c}
  <2>1. Elems(Keep(OnlineMembers, Clients \ {c})) = Elems(OnlineMembers) \cap (Clients \ {c})
    BY <1>2, KeepProperties
  <2> QED BY <1>1, <1>2, <2>1
<1> QED BY <1>1, <1>2, <1>3, <1>4

\* A member whom a goroutine begins to take out has a room.
LEMMA TakenHasRoom ==
  ASSUME StepsTypeOK, Settling, NEW t \in Threads, ~EnteringIn(thread[t]),
         \A g \in Threads \ {t} : thread'[g] = thread[g],
         overlapped' = overlapped \cup
           {d \in Clients : thread'[Reader(d)] # Idle /\ TakenOut(d, thread')},
         NEW c \in Elems(room.users), c \notin overlapped',
         NEW i \in DOMAIN thread'[t].stack, thread'[t].stack[i].who = c
  PROVE  c \in inRoom
<1> SUFFICES ASSUME c \notin inRoom PROVE FALSE
  OBVIOUS
<1>1. c \in Clients
  BY DEF StepsTypeOK, RoomState, Elems
<1>2. c \notin overlapped /\ EnteringIn(thread[Reader(c)])
  BY <1>1 DEF Settling, Settles
<1>3. t # Reader(c)
  BY <1>2
<1>4. thread'[Reader(c)] = thread[Reader(c)] /\ thread[Reader(c)] # Idle
  BY <1>1, <1>2, <1>3, ReaderOf DEF EnteringIn, Idle
<1>5. TakenOut(c, thread')
  BY <1>3 DEF TakenOut
<1> QED BY <1>1, <1>4, <1>5

LEMMA ReapedCall ==
  ASSUME StepsTypeOK, Settling, Reaped, ~crashed, NEW t \in Threads, CallStep(t)
  PROVE  Reaped'
<1> SUFFICES ASSUME ~crashed', Deserted', NEW c \in Elems(room'.users)
             PROVE  \E g \in Threads : Reaps(g, c)'
  BY DEF Reaped
<1> PICK n : n = Len(thread[t].stack)
  OBVIOUS
<1>1. /\ IsAt(t, "call") /\ Top(t) \in CallState /\ ~room.removed
      /\ \A g \in Threads \ {t} : thread'[g] = thread[g]
      /\ overlapped \subseteq overlapped' /\ online' = online /\ late' = late
  BY CallStepMoves DEF Deserted
<1>2. ASSUME NEW call \in CallState, Continues(t, call),
             call.at \in {"drop", "leave"} \/ (call.at = "same" /\ call.who \in inRoom')
      PROVE  SweepsIn(thread[t])'
  <2>1. thread'[t].at = "call" /\ thread'[t].stack[Len(thread'[t].stack)] = call
    BY <1>1, <1>2, ContinuesStack DEF IsAt
  <2> QED BY <1>2, <2>1 DEF SweepsIn, TopOf
<1>3. ASSUME NEW rest \in CallState, NEW call \in CallState, CallsWith(t, rest, call),
             call.at = "sweep" \/ (call.at = "check" /\ call.who \in inRoom')
      PROVE  SweepsIn(thread[t])'
  <2>1. thread'[t].at = "call" /\ thread'[t].stack[Len(thread'[t].stack)] = call
    BY <1>1, <1>3, CallsWithStack DEF IsAt
  <2> QED BY <1>3, <2>1 DEF SweepsIn, TopOf
<1>4. CASE Drop(t)
  <2>1. Continues(t, [Top(t) EXCEPT !.at = "leave"]) /\ "leave" \in CallLabels \ {"crown"}
    BY <1>4 DEF Drop, ContinuesAt, CallLabels
  <2> QED BY <1>1, <1>2, <2>1, AtTyped DEF Reaps
<1>5. CASE Leave(t)
  <2> PICK rest : rest = [Top(t) EXCEPT !.at = "count"]
    OBVIOUS
  <2>1. CallsWith(t, rest, Call("sweep", NoClient))
    BY <1>5 DEF Leave
  <2>2. /\ rest \in CallState
        /\ Call("sweep", NoClient) \in CallState /\ Call("sweep", NoClient).at = "sweep"
    BY <1>1, AtTyped, CallTyped DEF CallLabels
  <2> QED BY <1>3, <2>1, <2>2 DEF Reaps
<1>6. CASE ~Drop(t) /\ ~Leave(t)
  <2>1. room'.users = room.users /\ inRoom' = inRoom
    BY <1>6, CallStepMoves
  <2>2. Deserted /\ c \in Elems(room.users)
    BY <1>1, <2>1 DEF Deserted
  <2>3. PICK w \in Threads : Reaps(w, c)
    BY <2>2 DEF Reaped
  <2>4. CASE w # t
    BY <1>1, <2>1, <2>3, <2>4, ReapsStays
  <2>5. CASE w = t
    <3>1. SweepsIn(thread[t]) \/ (AwaitsIn(thread[t], c) /\ ~Falters(t))
      BY <1>1, <2>3, <2>5 DEF Reaps, ExitsIn, IsAt, ExitLabels
    <3>2. CASE SweepsIn(thread[t])
      <4>1. \/ (Check(t) \/ SameRoom(t)) /\ Top(t).who \in inRoom
            \/ Sweep(t)
        BY <1>6, <3>2 DEF SweepsIn, TopOf, Top, CallStep, CallAt, Check, SameRoom, Drop, Leave, Count,
                          ChooseHeir, Crown, Sweep, NextZombie, TestRemoved, Delist, RecycleId
      <4>2. CASE (Check(t) \/ SameRoom(t)) /\ Top(t).who \in inRoom
        <5>1. PICK at \in {"same", "drop"} : Continues(t, [Top(t) EXCEPT !.at = at])
          BY <4>2 DEF Check, SameRoom, ContinuesAt
        <5>2. at \in CallLabels \ {"crown"}
          BY DEF CallLabels
        <5> PICK call : call = [Top(t) EXCEPT !.at = at]
          OBVIOUS
        <5>3. call \in CallState /\ call.at = at /\ call.who = Top(t).who
          BY <1>1, <5>2, AtTyped
        <5>5. Continues(t, call) /\ call.who \in inRoom'
          BY <2>1, <4>2, <5>1, <5>3
        <5>6. call.at \in {"drop", "leave"} \/ (call.at = "same" /\ call.who \in inRoom')
          BY <5>3, <5>5
        <5>4. SweepsIn(thread[t])'
          BY <1>2, <5>3, <5>5, <5>6
        <5> QED BY <5>4 DEF Reaps
      <4>3. CASE Sweep(t)
        <5> PICK call : call = [Top(t) EXCEPT !.at = "next", !.todo = Offline]
          OBVIOUS
        <5>1. call \in CallState /\ call.at = "next" /\ call.todo = Offline
          BY <1>1, OfflineElems DEF CallState, CallLabels
        <5>2. Continues(t, call)
          BY <4>3 DEF Sweep
        <5>3. /\ thread'[t].at = "call" /\ thread'[t].stack[n] = call
              /\ n \in DOMAIN thread'[t].stack
          BY <1>1, <5>1, <5>2, ContinuesStack DEF IsAt
        <5>4. c \in Elems(call.todo)
          BY <2>2, <5>1, OfflineElems DEF Deserted
        <5>5. AwaitsIn(thread'[t], c)
          BY <5>1, <5>3, <5>4 DEF AwaitsIn
        <5>6. ~Falters(t)'
          <6>1. ~Falters(t)
            BY <4>3 DEF Sweep, Falters, CallAt
          <6> QED BY <6>1, NobodyFalters
        <5> QED BY <5>5, <5>6 DEF Reaps
      <4> QED BY <4>1, <4>2, <4>3
    <3>3. CASE /\ AwaitsIn(thread[t], c) /\ ~Falters(t)
               /\ Top(t).at = "next" => c \notin Elems(Top(t).todo)
      <4>1. \/ Returns(t)
            \/ \E call \in CallState : Continues(t, call)
            \/ \E rest \in CallState, call \in CallState : CallsWith(t, rest, call)
        <5>1. CASE Check(t) \/ SameRoom(t) \/ Count(t) \/ TestRemoved(t) \/ Delist(t)
          <6>1. \/ Returns(t)
                \/ \E at \in {"same", "drop", "remove", "heir", "delist", "recycle"} :
                     ContinuesAt(t, at)
            BY <3>3, <5>1 DEF Check, SameRoom, Count, TestRemoved, Delist, Falters
          <6>2. Returns(t) \/ \E at \in CallLabels \ {"crown"} : ContinuesAt(t, at)
            BY <6>1 DEF CallLabels
          <6> QED BY <1>1, <6>2, AtTyped DEF ContinuesAt
        <5>2. CASE Crown(t) \/ RecycleId(t)
          BY <5>2 DEF Crown, RecycleId
        <5>3. CASE Sweep(t)
          <6>1. [Top(t) EXCEPT !.at = "next", !.todo = Offline] \in CallState
            BY <1>1, OfflineElems DEF CallState, CallLabels
          <6> QED BY <5>3, <6>1 DEF Sweep
        <5>4. CASE NextZombie(t)
          <6>1. CASE Top(t).todo # <<>>
            <7>1. Top(t).at = "next"
              BY <5>4 DEF NextZombie, CallAt
            <7>2. /\ [Top(t) EXCEPT !.todo = Tail(@)] \in CallState
                  /\ Call("check", Top(t).todo[1]) \in CallState
              BY <1>1, <6>1, <7>1 DEF CallState, CallLabels, Call
            <7> QED BY <5>4, <6>1, <7>2 DEF NextZombie
          <6> QED BY <5>4, <6>1 DEF NextZombie
        <5>5. CASE ChooseHeir(t)
          <6>1. room.users # <<>> /\ room.users \in Seq(Clients)
            BY <2>2 DEF Elems, StepsTypeOK, RoomState
          <6>2. [Top(t) EXCEPT !.at = "crown", !.todo = <<room.users[1]>>] \in CallState
            <7>1. <<room.users[1]>> \in Seq(Clients) \ {<<>>}
              BY <6>1
            <7> QED BY <1>1, <7>1 DEF CallState, CallLabels
          <6> QED BY <5>5, <6>1, <6>2 DEF ChooseHeir
        <5> QED BY <1>6, <5>1, <5>2, <5>3, <5>4, <5>5 DEF CallStep
      <4>2. AwaitsIn(thread'[t], c)
        BY <1>1, <3>3, <4>1, AwaitsStays
      <4> QED BY <3>3, <4>2, NobodyFalters DEF Reaps
    <3>4. CASE Top(t).at = "next" /\ c \in Elems(Top(t).todo)
      <4>1. NextZombie(t)
        BY <1>6, <3>4 DEF CallStep, CallAt, Check, SameRoom, Drop, Leave, Count, ChooseHeir, Crown,
                          Sweep, TestRemoved, Delist, RecycleId
      <4> PICK todo : todo = Top(t).todo
        OBVIOUS
      <4>2. todo \in Seq(Clients) /\ todo # <<>>
        BY <1>1, <3>4 DEF CallState, Elems
      <4> PICK rest : rest = [Top(t) EXCEPT !.todo = Tail(@)]
        OBVIOUS
      <4> PICK call : call = Call("check", todo[1])
        OBVIOUS
      <4>3. /\ rest \in CallState /\ rest.at = "next" /\ rest.todo = Tail(todo)
            /\ call \in CallState /\ call.at = "check" /\ call.who = todo[1]
        BY <1>1, <3>4, <4>2 DEF CallState, CallLabels, Call
      <4>4. CallsWith(t, rest, call)
        BY <4>1, <4>2 DEF NextZombie
      <4>5. /\ thread'[t].at = "call" /\ n \in Nat \ {0}
            /\ DOMAIN thread'[t].stack = 1..(n + 1)
            /\ thread'[t].stack[n] = rest /\ thread'[t].stack[n + 1] = call
        BY <1>1, <4>3, <4>4, CallsWithStack DEF IsAt
      <4>6. c = todo[1] \/ c \in Elems(Tail(todo))
        BY <3>4, <4>2, TailElems
      <4>7. CASE c = todo[1]
        <5>1. n + 1 \in DOMAIN thread'[t].stack
          BY <4>5
        <5>2. c \notin overlapped' /\ ~EnteringIn(thread[t])
          BY <1>1 DEF Deserted, EnteringIn, IsAt
        <5>3. overlapped' = overlapped \cup
                {d \in Clients : thread'[Reader(d)] # Idle /\ TakenOut(d, thread')}
          BY <4>4 DEF CallsWith, Goes
        <5>4. c \in inRoom
          BY <1>1, <2>2, <4>3, <4>5, <4>7, <5>1, <5>2, <5>3, TakenHasRoom
        <5> QED BY <1>3, <2>1, <4>3, <4>4, <4>7, <5>4 DEF Reaps
      <4>8. CASE c \in Elems(Tail(todo))
        <5>1. n \in DOMAIN thread'[t].stack
          BY <4>5
        <5>2. AwaitsIn(thread'[t], c)
          BY <4>3, <4>5, <4>8, <5>1 DEF AwaitsIn
        <5>3. ~Falters(t)'
          <6>1. ~Falters(t)
            BY <3>4 DEF Falters, CallAt
          <6> QED BY <6>1, NobodyFalters
        <5> QED BY <5>2, <5>3 DEF Reaps
      <4> QED BY <4>6, <4>7, <4>8
    <3> QED BY <3>1, <3>2, <3>3, <3>4
  <2> QED BY <2>4, <2>5
<1> QED BY <1>4, <1>5, <1>6

-----------------------------------------------------------------------------
\* The handlers, which leave the calls of the other goroutines alone.

LEMMA ReaderStepMoves ==
  ASSUME StepsTypeOK, NEW c \in Clients, ReaderStep(c)
  PROVE  /\ thread[Reader(c)].at \in {"idle", "push", "enter", "close", "unlocked"}
         /\ IsAt(Reader(c), "idle") => c \in online \cup late'
         /\ \A g \in Threads \ {Reader(c)} : thread'[g] = thread[g]
         /\ overlapped \subseteq overlapped' /\ late \subseteq late' /\ online' = online
         /\ room'.removed = room.removed /\ room'.listed = room.listed
         /\ inRoom \subseteq inRoom'
         /\ PushMember(c) \/ room'.users = room.users
<1>1. /\ thread[Reader(c)].at \in {"idle", "push", "enter", "close", "unlocked"}
      /\ IsAt(Reader(c), "idle") => c \in online \cup late'
  BY DEF ReaderStep, JoinRoom, ExitRoom, KickOut, LockRoom, UnlockRoom, SweepUnlocked, Login,
         PushMember, EnterRoom, CloseOld, MasterHandles, Handles, Begins, IsAt
<1>2. (\E s : Goes(Reader(c), s)) \/ UNCHANGED <<thread, overlapped>>
  BY DEF ReaderStep, JoinRoom, ExitRoom, KickOut, LockRoom, UnlockRoom, SweepUnlocked, Login,
         PushMember, EnterRoom, CloseOld, ReaderCalls, GoesTo, Panics, Reader
<1>3. /\ \A g \in Threads \ {Reader(c)} : thread'[g] = thread[g]
      /\ overlapped \subseteq overlapped'
  BY <1>2 DEF Goes, StepsTypeOK
<1>4. /\ room'.removed = room.removed /\ room'.listed = room.listed
      /\ PushMember(c) \/ room'.users = room.users
  BY DEF ReaderStep, JoinRoom, ExitRoom, KickOut, LockRoom, UnlockRoom, SweepUnlocked, Login,
         PushMember, EnterRoom, CloseOld, MasterHandles, Handles, Begins, StepsTypeOK,
         RoomState
<1>5. inRoom \subseteq inRoom' /\ online' = online /\ late \subseteq late'
  BY DEF ReaderStep, JoinRoom, ExitRoom, KickOut, LockRoom, UnlockRoom, SweepUnlocked, Login,
         PushMember, EnterRoom, CloseOld, MasterHandles, Handles, Begins
<1> QED BY <1>1, <1>3, <1>4, <1>5

LEMMA ReapedReader ==
  ASSUME StepsTypeOK, Reaped, Present, ~crashed, NEW c \in Clients, ReaderStep(c)
  PROVE  Reaped'
<1> SUFFICES ASSUME Deserted', NEW d \in Elems(room'.users)
             PROVE  \E g \in Threads : Reaps(g, d)'
  BY DEF Reaped
<1> PICK t : t = Reader(c)
  OBVIOUS
<1>1. /\ t \in Threads /\ thread[t].at \in {"idle", "push", "enter", "close", "unlocked"}
      /\ \A g \in Threads \ {t} : thread'[g] = thread[g]
      /\ overlapped \subseteq overlapped' /\ late \subseteq late' /\ online' = online
      /\ room'.removed = room.removed /\ inRoom \subseteq inRoom'
      /\ PushMember(c) \/ room'.users = room.users
  BY ReaderOf, ReaderStepMoves
<1>2. ~PushMember(c)
  <2> SUFFICES ASSUME PushMember(c) PROVE FALSE
    OBVIOUS
  <2>1. thread[t] # Idle
    BY DEF PushMember, IsAt, Idle
  <2>2. c \in online \cup overlapped \cup late
    BY <2>1 DEF Present
  <2>3. c \in Elems(room'.users)
    <3>1. room.users \in Seq(Clients) /\ room'.users = Append(room.users, c)
      BY DEF PushMember, StepsTypeOK, RoomState
    <3> QED BY <3>1, AppendElems
  <2> QED BY <1>1, <2>2, <2>3 DEF Deserted
<1>3. Deserted /\ d \in Elems(room.users)
  BY <1>1, <1>2 DEF Deserted
<1>4. PICK w \in Threads : Reaps(w, d)
  BY <1>3 DEF Reaped
<1>5. w # t
  <2>1. t[1] = "reader" /\ thread[t].at \notin {"call", "all"}
    BY <1>1 DEF Reader
  <2> QED BY <1>4, <2>1 DEF Reaps, SweepsIn, ExitsIn, AwaitsIn
<1> QED BY <1>1, <1>4, <1>5, ReapsStays

LEMMA PresentReader ==
  ASSUME StepsTypeOK, Present, NEW c \in Clients, ReaderStep(c)
  PROVE  Present'
<1>1. ASSUME NEW d \in Clients
      PROVE  thread'[Reader(d)] # Idle /\ d \notin online' => d \in overlapped' \cup late'
  <2>1. online' = online /\ overlapped \subseteq overlapped' /\ late \subseteq late'
    BY ReaderStepMoves
  <2>2. CASE thread[Reader(d)] # Idle \/ d # c
    <3>1. d # c => thread'[Reader(d)] = thread[Reader(d)]
      BY ReaderOf, ReadersDiffer, ReaderStepMoves
    <3> QED BY <2>1, <2>2, <3>1 DEF Present
  <2>3. CASE thread[Reader(d)] = Idle /\ d = c
    <3>1. IsAt(Reader(c), "idle")
      BY <2>3 DEF IsAt, Idle
    <3> QED BY <2>1, <2>3, <3>1, ReaderStepMoves
  <2> QED BY <2>2, <2>3
<1> QED BY <1>1 DEF Present

\* Calls take nobody offline, and begin no handler.
LEMMA PresentCall ==
  ASSUME StepsTypeOK, Settling, Present, NEW t \in Threads, CallStep(t)
  PROVE  Present'
<1>1. /\ IsAt(t, "call") /\ \A g \in Threads \ {t} : thread'[g] = thread[g]
      /\ overlapped \subseteq overlapped' /\ late' = late /\ online' = online
  BY CallStepMoves
<1>3. thread[t] # Idle
  BY <1>1 DEF IsAt, Idle
<1>4. ASSUME NEW d \in Clients
      PROVE  thread'[Reader(d)] # Idle => thread[Reader(d)] # Idle
  BY <1>1, <1>3, ReaderOf
<1> QED BY <1>1, <1>4 DEF Present

-----------------------------------------------------------------------------
\* OnUserOut leads its client out of the room.

LEMMA OutStepMoves ==
  ASSUME StepsTypeOK, NEW c \in Clients, OutStep(c)
  PROVE  /\ thread[Outgoing(c)].at \in {"idle"} \cup OutLabels
         /\ \A g \in Threads \ {Outgoing(c)} : thread'[g] = thread[g]
         /\ overlapped \subseteq overlapped' /\ room' = room /\ inRoom' = inRoom
         /\ late' = late /\ (~GoOffline(c) => online' = online)
<1>1. /\ thread[Outgoing(c)].at \in {"idle"} \cup OutLabels
      /\ room' = room /\ inRoom' = inRoom /\ late' = late
      /\ ~GoOffline(c) => online' = online
  BY DEF OutStep, GoOffline, HasRoom, IsInvalidRoom, IsLocked, TellOthers, OutExitRoom,
         RemoveEmptied, TryExitRoom, ExitAll, OutDone, OutAt, IsAt, OutLabels
<1>2. (\E s : Goes(Outgoing(c), s)) \/ UNCHANGED <<thread, overlapped>>
  BY DEF OutStep, GoOffline, HasRoom, WithRoom, IsInvalidRoom, IsLocked, TellOthers,
         OutExitRoom, RemoveEmptied, TryExitRoom, ExitAll, OutDone, Finishes, GoesTo, Panics,
         Outgoing
<1>4. /\ \A g \in Threads \ {Outgoing(c)} : thread'[g] = thread[g]
      /\ overlapped \subseteq overlapped'
  BY <1>2 DEF Goes, StepsTypeOK
<1> QED BY <1>1, <1>4

LEMMA OutgoingOf ==
  ASSUME NEW c \in Clients
  PROVE  /\ Outgoing(c) \in Threads /\ Outgoing(c)[1] = "OnUserOut" /\ Outgoing(c)[2] = c
         /\ \A d : Outgoing(c) # Reader(d)
BY DEF Outgoing, Reader, Threads

LEMMA GoesAt ==
  ASSUME StepsTypeOK, NEW t \in Threads, NEW at, GoesTo(t, at)
  PROVE  thread'[t].at = at
<1>1. thread[t] \in ThreadState /\ thread' = [thread EXCEPT ![t] = [thread[t] EXCEPT !.at = at]]
      /\ thread \in [Threads -> ThreadState]
  BY DEF GoesTo, Goes, StepsTypeOK
<1> QED BY <1>1 DEF ThreadState

\* A client goes offline: his OnUserOut will take him and the others out.
LEMMA ReapedOffline ==
  ASSUME StepsTypeOK, Settling, Reaped, ~crashed, NEW c \in Clients, GoOffline(c)
  PROVE  Reaped'
<1> SUFFICES ASSUME Deserted', NEW d \in Elems(room'.users)
             PROVE  \E g \in Threads : Reaps(g, d)'
  BY DEF Reaped
<1> PICK t : t = Outgoing(c)
  OBVIOUS
<1>1. /\ t \in Threads /\ t[1] = "OnUserOut" /\ t[2] = c /\ t # Reader(c)
      /\ IsAt(t, "idle") /\ room' = room /\ inRoom' = inRoom /\ online' = online \ {c}
      /\ GoesTo(t, "room") /\ thread'[t].at = "room"
      /\ \A g \in Threads \ {t} : thread'[g] = thread[g]
      /\ overlapped \subseteq overlapped' /\ late' = late
  BY OutgoingOf, OutStepMoves, GoesAt DEF GoOffline, OutAt, OutStep
<1>2. CASE c \in Elems(room.users)
  <2>1. c \notin overlapped' /\ c \notin overlapped
    BY <1>1, <1>2 DEF Deserted
  <2>2. c \in inRoom
    <3> SUFFICES ASSUME c \notin inRoom PROVE FALSE
      OBVIOUS
    <3>1. EnteringIn(thread[Reader(c)])
      BY <1>2, <2>1 DEF Settling, Settles
    <3>2. thread'[Reader(c)] # Idle
      BY <1>1, <3>1, ReaderOf DEF EnteringIn, Idle
    <3>3. TakenOut(c, thread')
      BY <1>1 DEF TakenOut, Idle
    <3> QED BY <1>1, <2>1, <3>2, <3>3 DEF GoesTo, Goes
  <2> QED BY <1>1, <2>2 DEF Reaps, ExitsIn, ExitLabels
<1>3. CASE c \notin Elems(room.users)
  <2>1. Deserted /\ d \in Elems(room.users)
    BY <1>1, <1>3 DEF Deserted
  <2>2. PICK w \in Threads : Reaps(w, d)
    BY <2>1 DEF Reaped
  <2>3. w # t
    BY <1>1, <2>2 DEF Reaps, SweepsIn, ExitsIn, AwaitsIn, IsAt, ExitLabels
  <2> QED BY <1>1, <2>2, <2>3, ReapsStays
<1> QED BY <1>2, <1>3

LEMMA ReapedOut ==
  ASSUME StepsTypeOK, Settling, Reaped, ~crashed, NEW c \in Clients, OutStep(c), ~GoOffline(c)
  PROVE  Reaped'
<1> SUFFICES ASSUME ~crashed', Deserted', NEW d \in Elems(room'.users)
             PROVE  \E g \in Threads : Reaps(g, d)'
  BY DEF Reaped
<1> PICK t : t = Outgoing(c)
  OBVIOUS
<1>1. /\ t \in Threads /\ t[1] = "OnUserOut" /\ t[2] = c /\ ~IsAt(t, "call")
      /\ room' = room /\ inRoom' = inRoom /\ online' = online
      /\ \A g \in Threads \ {t} : thread'[g] = thread[g]
      /\ overlapped \subseteq overlapped' /\ late' = late
  BY OutgoingOf, OutStepMoves DEF IsAt, OutLabels
<1>2. Deserted /\ d \in Elems(room.users)
  BY <1>1 DEF Deserted
<1>3. PICK w \in Threads : Reaps(w, d)
  BY <1>2 DEF Reaped
<1>4. CASE w # t
  BY <1>1, <1>3, <1>4, ReapsStays
<1>5. CASE w = t
  <2>1. \/ c \in inRoom /\ thread[t].at \in ExitLabels
        \/ IsAt(t, "all") /\ d \in Elems(thread[t].list)
    BY <1>1, <1>3, <1>5 DEF Reaps, SweepsIn, ExitsIn, AwaitsIn, IsAt
  <2>2. ASSUME NEW at \in ExitLabels, GoesTo(t, at), c \in inRoom
        PROVE  Reaps(t, d)'
    <3>1. thread'[t].at = at
      BY <1>1, <2>2, GoesAt
    <3> QED BY <1>1, <2>2, <3>1 DEF Reaps, ExitsIn
  <2>3. ASSUME NEW s \in RecordState, NEW e \in Clients, e \in inRoom, NEW then,
               Goes(t, Calls(s, Call("check", e), then))
        PROVE  Reaps(t, d)'
    <3> PICK call : call = Call("check", e)
      OBVIOUS
    <3>1. call.at = "check" /\ call.who = e
      BY DEF Call
    <3>2. /\ Calls(s, call, then).at = "call" /\ Calls(s, call, then).stack = <<call>>
      BY DEF Calls, RecordState
    <3>3. thread'[t] = Calls(s, call, then)
      BY <1>1, <2>3 DEF Goes, StepsTypeOK
    <3>4. thread'[t].at = "call" /\ thread'[t].stack = <<call>>
      BY <3>2, <3>3
    <3>5. TopOf(thread'[t]) = call
      BY <3>4 DEF TopOf
    <3> QED BY <1>1, <2>3, <3>1, <3>4, <3>5 DEF Reaps, SweepsIn
  <2>4. CASE c \in inRoom /\ thread[t].at \in ExitLabels
    <3>1. CASE HasRoom(c) \/ IsInvalidRoom(c)
      <4>1. \E at \in ExitLabels : GoesTo(t, at)
        BY <2>4, <3>1 DEF HasRoom, WithRoom, IsInvalidRoom, ExitLabels
      <4> QED BY <1>1, <2>2, <2>4, <4>1
    <3>2. CASE IsLocked(c) \/ TellOthers(c)
      <4>1. \E at \in ExitLabels : GoesTo(t, at)
        BY <2>4, <3>2 DEF IsLocked, TellOthers, ExitLabels
      <4> QED BY <1>1, <2>2, <2>4, <4>1
    <3>3. CASE OutExitRoom(c)
      <4>1. Goes(t, Calls(Idle, Call("check", c), "emptied")) /\ Idle \in RecordState
        BY <2>4, <3>3, IdleTyped DEF OutExitRoom
      <4> QED BY <1>1, <2>3, <2>4, <4>1
    <3>4. CASE TryExitRoom(c)
      <4>1. Keep(OnlineMembers, Clients \ {c}) = <<>>
        <5> PICK others : others = Keep(OnlineMembers, Clients \ {c})
          OBVIOUS
        <5>1. Elems(others) = {}
          BY <1>2, OfflineElems DEF Deserted
        <5>2. others \in Seq(Clients)
          <6>1. OnlineMembers \in Seq(Clients)
            BY KeepProperties DEF OnlineMembers, StepsTypeOK, RoomState
          <6> QED BY <6>1, KeepProperties
        <5> QED BY <5>1, <5>2, FirstIsElem
      <4> PICK s : s = [Idle EXCEPT !.at = "all", !.list = room.users]
        OBVIOUS
      <4>2. s.at = "all" /\ s.list = room.users
        BY DEF Idle
      <4>3. Goes(t, s)
        BY <2>4, <3>4, <4>1 DEF TryExitRoom
      <4>4. thread'[t] = s
        BY <1>1, <4>3 DEF Goes, StepsTypeOK
      <4>5. AwaitsIn(thread'[t], d)
        BY <1>2, <4>2, <4>4 DEF AwaitsIn
      <4> QED BY <1>1, <4>2, <4>4, <4>5 DEF Reaps, Falters, CallAt, IsAt
    <3> QED BY <2>4, <3>1, <3>2, <3>3, <3>4
            DEF OutStep, RemoveEmptied, ExitAll, OutDone, OutAt, IsAt, ExitLabels
  <2>5. CASE IsAt(t, "all") /\ d \in Elems(thread[t].list)
    <3>1. ExitAll(c)
      BY <2>5 DEF OutStep, GoOffline, HasRoom, IsInvalidRoom, IsLocked, TellOthers,
                  OutExitRoom, RemoveEmptied, TryExitRoom, OutDone, OutAt, IsAt
    <3> PICK list : list = thread[t].list
      OBVIOUS
    <3> PICK rest : rest = Tail(list)
      OBVIOUS
    <3> PICK s : s = [thread[t] EXCEPT !.list = Tail(@)]
      OBVIOUS
    <3>2. thread[t] \in RecordState
      BY <1>1 DEF StepsTypeOK, ThreadState, RecordState
    <3>3. list \in Seq(Clients) /\ list # <<>>
      BY <2>5, <3>2 DEF RecordState, Elems
    <3>4. list[1] \in Clients /\ rest \in Seq(Clients) /\ (d = list[1] \/ d \in Elems(rest))
      BY <2>5, <3>3, TailElems
    <3>5. s \in RecordState /\ s.list = rest
      BY <3>2, <3>4 DEF RecordState
    <3> PICK call : call = Call("check", list[1])
      OBVIOUS
    <3>6. call.who = list[1]
      BY DEF Call
    <3>12. call.at # "same"
      BY DEF Call
    <3>7. Goes(t, Calls(s, call, "all"))
      BY <3>1, <3>3 DEF ExitAll
    <3>8. /\ thread'[t].at = "call" /\ thread'[t].stack = <<call>>
          /\ thread'[t].then = "all" /\ thread'[t].list = rest
      <4>1. thread'[t] = Calls(s, call, "all")
        BY <1>1, <3>7 DEF Goes, StepsTypeOK
      <4> QED BY <3>5, <4>1 DEF Calls, RecordState
    <3>9. CASE d = list[1]
      <4>1. d \notin overlapped' /\ ~EnteringIn(thread[t])
        BY <1>2, <2>5 DEF Deserted, EnteringIn, IsAt
      <4>2. 1 \in DOMAIN thread'[t].stack /\ thread'[t].stack[1].who = d
        BY <3>6, <3>8, <3>9
      <4>3. overlapped' = overlapped \cup
              {e \in Clients : thread'[Reader(e)] # Idle /\ TakenOut(e, thread')}
        BY <3>7 DEF Goes
      <4>4. d \in inRoom
        BY <1>1, <1>2, <4>1, <4>2, <4>3, TakenHasRoom
      <4> QED BY <1>1, <2>3, <3>4, <3>5, <3>7, <3>9, <4>4
    <3>10. CASE d \in Elems(rest)
      <4>1. AwaitsIn(thread'[t], d)
        BY <3>8, <3>10 DEF AwaitsIn
      <4>2. ~Falters(t)'
        BY <3>8, <3>12 DEF Falters, CallAt, Top
      <4> QED BY <1>1, <4>1, <4>2 DEF Reaps
    <3> QED BY <3>4, <3>9, <3>10
  <2> QED BY <2>1, <2>4, <2>5
<1> QED BY <1>4, <1>5

LEMMA PresentOut ==
  ASSUME StepsTypeOK, Present, NEW c \in Clients, OutStep(c)
  PROVE  Present'
<1>1. /\ \A g \in Threads \ {Outgoing(c)} : thread'[g] = thread[g]
      /\ overlapped \subseteq overlapped' /\ late' = late
      /\ ~GoOffline(c) => online' = online
  BY OutStepMoves
<1>2. \A d \in Clients : thread'[Reader(d)] = thread[Reader(d)]
  BY <1>1, ReaderOf, OutgoingOf
<1>3. CASE GoOffline(c)
  <2>1. online' = online \ {c} /\ GoesTo(Outgoing(c), "room")
    BY <1>3 DEF GoOffline
  <2>2. thread'[Outgoing(c)] # Idle
    <3>1. thread'[Outgoing(c)].at = "room"
      BY <2>1, GoesAt, OutgoingOf
    <3> QED BY <3>1 DEF Idle
  <2>3. thread'[Reader(c)] # Idle => c \in overlapped'
    BY <2>1, <2>2 DEF GoesTo, Goes, TakenOut
  <2> QED BY <1>1, <1>2, <2>1, <2>3 DEF Present
<1>4. CASE ~GoOffline(c)
  BY <1>1, <1>2, <1>4 DEF Present
<1> QED BY <1>3, <1>4

-----------------------------------------------------------------------------
LEMMA NoGhostInit == StepsInit => NoGhostInv
<1> SUFFICES ASSUME StepsInit PROVE NoGhostInv
  OBVIOUS
<1>1. \A g \in Threads : thread[g] = Idle
  BY DEF StepsInit
<1>2. /\ ~room.removed /\ inRoom \subseteq Clients /\ inRoom # {}
      /\ Elems(room.users) = inRoom
  <2>1. PICK users \in [1..Cardinality(inRoom) -> inRoom], lock \in BOOLEAN :
          /\ Elems(users) = inRoom
          /\ room = [users |-> users, master |-> users[1], lock |-> lock,
                     removed |-> FALSE, listed |-> TRUE, freed |-> 0]
    BY DEF StepsInit
  <2>2. ~room.removed /\ room.users = users
    BY <2>1
  <2>3. inRoom \subseteq Clients /\ inRoom # {}
    BY DEF StepsInit
  <2>4. Elems(room.users) = inRoom
    BY <2>1, <2>2
  <2> QED BY <2>2, <2>3, <2>4
<1>3. room.users # <<>>
  BY <1>2 DEF Elems
<1>4. PICK off \in SUBSET inRoom :
        off # inRoom /\ online = Clients \ off
  <2>1. PICK off \in SUBSET inRoom, guests \in SUBSET (Clients \ inRoom) :
          /\ off = {} \/ (room.lock /\ off # inRoom)
          /\ online = Clients \ off
    BY DEF StepsInit
  <2>2. off # inRoom
    BY <1>2, <2>1
  <2> QED BY <2>1, <2>2
<1>5. ~Deserted
  BY <1>2, <1>4 DEF Deserted
<1>6. Present
  BY <1>1, ReaderOf DEF Present
<1> QED BY <1>2, <1>3, <1>5, <1>6 DEF NoGhostInv, Counted, Delisted, Reaped

LEMMA NoGhostStep ==
  StepsTypeOK /\ Settling /\ NoGhostInv /\ [StepsNext]_stepVars => NoGhostInv'
<1> SUFFICES ASSUME StepsTypeOK, Settling, NoGhostInv, [StepsNext]_stepVars
             PROVE  NoGhostInv'
  OBVIOUS
<1>1. Counted /\ Delisted /\ Reaped /\ Present
  BY DEF NoGhostInv
<1>2. ASSUME NEW t \in Threads, CallStep(t), ~crashed PROVE NoGhostInv'
  BY <1>1, <1>2, CountedCall, DelistedCall, ReapedCall, PresentCall DEF NoGhostInv
<1>3. ASSUME NEW c \in Clients, ReaderStep(c), ~crashed PROVE NoGhostInv'
  <2>1. Reaped' /\ Present'
    BY <1>1, <1>3, ReapedReader, PresentReader
  <2>2. /\ Reader(c) \in Threads /\ ~IsAt(Reader(c), "call")
        /\ \A g \in Threads \ {Reader(c)} : thread'[g] = thread[g]
        /\ room'.removed = room.removed /\ room'.listed = room.listed
        /\ PushMember(c) \/ room'.users = room.users
        /\ inRoom \subseteq inRoom'
    BY <1>3, ReaderOf, ReaderStepMoves DEF IsAt
  <2>3. room'.users = <<>> => room.users = <<>>
    <3>1. CASE PushMember(c)
      <4>1. room.users \in Seq(Clients) /\ room'.users = Append(room.users, c)
        BY <3>1 DEF PushMember, StepsTypeOK, RoomState
      <4>2. c \in Elems(room'.users)
        BY <4>1, AppendElems
      <4>3. room'.users # <<>>
        BY <4>2 DEF Elems
      <4> QED BY <4>3
    <3> QED BY <2>2, <3>1
  <2>4. Counted' /\ Delisted'
    BY <1>1, <2>2, <2>3, CountedRest, DelistedRest
  <2> QED BY <2>1, <2>4 DEF NoGhostInv
<1>4. ASSUME NEW c \in Clients, OutStep(c), ~crashed PROVE NoGhostInv'
  <2>1. Reaped' /\ Present'
    BY <1>1, <1>4, ReapedOffline, ReapedOut, PresentOut
  <2>2. /\ Outgoing(c) \in Threads /\ ~IsAt(Outgoing(c), "call") /\ room' = room /\ inRoom' = inRoom
        /\ \A g \in Threads \ {Outgoing(c)} : thread'[g] = thread[g]
    BY <1>4, OutgoingOf, OutStepMoves DEF IsAt, OutLabels
  <2>3. Counted' /\ Delisted'
    BY <1>1, <2>2, CountedRest, DelistedRest
  <2> QED BY <2>1, <2>3 DEF NoGhostInv
<1>5. ASSUME NEW c \in Clients, Disconnect(c) PROVE NoGhostInv'
  <2>1. UNCHANGED <<room, inRoom, online, thread, crashed, overlapped, late>>
    BY <1>5 DEF Disconnect
  <2> QED BY <1>1, <2>1
          DEF NoGhostInv, Counted, Delisted, Reaped, Deserted, Present, Reaps, SweepsIn,
              ExitsIn, Falters, CallAt, IsAt, Top
<1>6. CASE UNCHANGED stepVars
  BY <1>1, <1>6
     DEF stepVars, NoGhostInv, Counted, Delisted, Reaped, Deserted, Present, Reaps, SweepsIn,
         ExitsIn, Falters, CallAt, IsAt, Top
<1> QED BY <1>2, <1>3, <1>4, <1>5, <1>6 DEF StepsNext

\* However the goroutines of several that leave, are kicked, take over or disconnect are
\* interleaved, once all have ended no room is left on the list with nobody in it, nor
\* with nobody connected but those of whom a handler ran beside their
\* OnUserOut or after it, or beside somebody who took them out.
THEOREM NoGhostIsLeft == StepsSpec => []NoGhostAtRest
<1>1. StepsTypeOK /\ NoGhostInv => NoGhostAtRest
  <2> SUFFICES ASSUME StepsTypeOK, NoGhostInv, AtRest, ~crashed, room.listed
               PROVE  /\ room.users # <<>>
                      /\ Elems(room.users) \cap (online \cup overlapped \cup late) # {}
    BY DEF NoGhostAtRest
  <2>1. \A g \in Threads : thread[g].at = "idle" /\ thread[g].list = <<>>
    BY DEF AtRest, Idle
  <2>2. ~room.removed
    BY <2>1 DEF NoGhostInv, Delisted, CallAt, IsAt
  <2>3. room.users # <<>>
    BY <2>1, <2>2 DEF NoGhostInv, Counted, CountsIn
  <2>4. Elems(room.users) # {}
    <3>1. room.users \in Seq(Clients)
      BY DEF StepsTypeOK, RoomState
    <3> QED BY <2>3, <3>1, FirstIsElem
  <2>5. ~Deserted
    BY <2>1, <2>4 DEF NoGhostInv, Reaped, Reaps, SweepsIn, ExitsIn, AwaitsIn, ExitLabels
  <2> QED BY <2>2, <2>3, <2>5 DEF Deserted
<1>2. StepsInv => StepsTypeOK
  BY DEF StepsInv
<1> QED BY <1>1, <1>2, StepsInitInv, StepsStep, SettlingInit, SettlingStep, NoGhostInit,
           NoGhostStep, PTL DEF StepsSpec
=============================================================================
