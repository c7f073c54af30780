-------------------------- MODULE UserStatesProofs --------------------------
(***************************************************************************)
(* For any number of members, whatever they do at the same time: who has   *)
(* left a room has no state in it, and what a member has stored stays.     *)
(***************************************************************************)
EXTENDS UserStates, ListsProofs

ThreadState ==
  [at : Labels, op : {"none", "set", "request", "join", "exit"},
   who : Clients \cup {NoClient}, update : SUBSET (1..MaxEvents),
   todo : SUBSET Clients]

\* Only ExitClient takes somebody out; once it has, he is out of the room or was let
\* in again meanwhile; and OnUserOut runs once.
Orderly ==
  /\ \A t \in Threads :
       /\ thread[t].op # "exit" => thread[t].who = NoClient
       /\ thread[t].op = "exit" /\ thread[t].at # "check" =>
            thread[t].who \notin inRoom \/ thread[t].who \in overtaken
  /\ \A c \in Clients \ out : thread[Outgoing(c)] = Idle

StatesInv == StatesOfMembers /\ Orderly /\ \A c \in inRoom \ overtaken : stored[c] \subseteq userState[c]

LEMMA IdleTyped ==
  /\ Idle \in ThreadState /\ Idle.at = "idle" /\ Idle.op = "none" /\ Idle.who = NoClient
  /\ [Idle EXCEPT !.at = "ended"] \in ThreadState
  /\ [Idle EXCEPT !.at = "ended"].op = "none" /\ [Idle EXCEPT !.at = "ended"].who = NoClient
BY DEF Idle, ThreadState, Labels

LEMMA StatesTypes ==
  StatesTypeOK <=>
    /\ users \in Seq(Clients) /\ master \in Clients /\ removed \in BOOLEAN
    /\ inRoom \subseteq Clients /\ out \subseteq Clients /\ overtaken \subseteq Clients
    /\ userState \in [Clients -> SUBSET (1..MaxEvents)]
    /\ stored \in [Clients -> SUBSET (1..MaxEvents)]
    /\ holder \in Threads \cup {NoThread} /\ events \in 0..MaxEvents
    /\ thread \in [Threads -> ThreadState]
BY DEF StatesTypeOK, ThreadState

\* One goroutine goes on as s: what has to be looked at.
LEMMA Moves ==
  ASSUME StatesInv, StatesTypeOK', NEW t \in Threads, NEW s \in ThreadState,
         thread' = [thread EXCEPT ![t] = s],
         s.op # "exit" => s.who = NoClient,
         s.op = "exit" /\ s.at # "check" => s.who \notin inRoom' \/ s.who \in overtaken',
         \A c \in Clients \ out' : t # Outgoing(c),
         out \subseteq out', overtaken \subseteq overtaken', removed => removed',
         \A c \in inRoom' \ inRoom : TakenOut(c) => c \in overtaken',
         \A c \in inRoom \ inRoom' : s.who = c,
         \/ thread[t].who \notin Clients \/ s.who = thread[t].who \/ removed'
         \/ userState'[thread[t].who] = {},
         \A c \in Clients : userState'[c] \subseteq userState[c] \/ c \in inRoom',
         \A c \in inRoom' \ overtaken' : stored'[c] \subseteq userState'[c]
  PROVE  StatesInv'
<1>1. StatesOfMembers /\ Orderly /\ StatesTypeOK
  BY DEF StatesInv, StatesOfMembers
<1>2. /\ thread \in [Threads -> ThreadState] /\ thread'[t] = s
      /\ \A k \in Threads : k # t => thread'[k] = thread[k]
  BY <1>1, StatesTypes
<1>3. Orderly'
  <2>1. ASSUME NEW k \in Threads
        PROVE  /\ thread'[k].op # "exit" => thread'[k].who = NoClient
               /\ thread'[k].op = "exit" /\ thread'[k].at # "check" =>
                    thread'[k].who \notin inRoom' \/ thread'[k].who \in overtaken'
    <3>1. CASE k = t
      BY <1>2, <3>1
    <3>2. CASE k # t
      <4>1. thread'[k] = thread[k]
        BY <1>2, <3>2
      <4>2. ASSUME thread[k].op = "exit", thread[k].at # "check", thread[k].who \in inRoom'
            PROVE  thread[k].who \in overtaken'
        <5>1. thread[k].who \in Clients
          BY <4>2 DEF StatesTypeOK
        <5>2. TakenOut(thread[k].who)
          BY <5>1 DEF TakenOut
        <5>3. CASE thread[k].who \in inRoom
          BY <1>1, <4>2, <5>3 DEF Orderly
        <5>4. CASE thread[k].who \notin inRoom
          BY <4>2, <5>2, <5>4
        <5> QED BY <5>3, <5>4
      <4> QED BY <1>1, <4>1, <4>2 DEF Orderly
    <3> QED BY <3>1, <3>2
  <2>2. ASSUME NEW c \in Clients \ out' PROVE thread'[Outgoing(c)] = Idle
    <3>1. Outgoing(c) \in Threads
      BY DEF Outgoing, Threads
    <3> QED BY <1>1, <1>2, <3>1 DEF Orderly
  <2> QED BY <2>1, <2>2 DEF Orderly
<1>4. ASSUME ~removed', NEW c \in Clients, c \notin inRoom', ~TakenOut(c)'
      PROVE  userState'[c] = {}
  <2>1. s.who # c
    BY <1>2, <1>4 DEF TakenOut
  <2>2. c \notin inRoom
    BY <1>4, <2>1
  <2>3. CASE TakenOut(c)
    <3>1. PICK k \in Threads : thread[k].who = c
      BY <2>3 DEF TakenOut
    <3>2. k = t
      BY <1>2, <1>4, <3>1 DEF TakenOut
    <3> QED BY <1>4, <2>1, <3>1, <3>2
  <2>4. CASE ~TakenOut(c)
    <3>1. userState[c] = {}
      BY <1>1, <1>4, <2>2, <2>4 DEF StatesOfMembers
    <3> QED BY <1>4, <3>1
  <2> QED BY <2>3, <2>4
<1>5. StatesOfMembers'
  BY <1>4 DEF StatesOfMembers
<1> QED BY <1>3, <1>5 DEF StatesInv

\* A goroutine goes on, and neither the room nor a state changes.
LEMMA Quiet ==
  ASSUME StatesInv, NEW t \in Threads, NEW s \in ThreadState,
         thread' = [thread EXCEPT ![t] = s],
         s.op # "exit" => s.who = NoClient,
         s.op = "exit" /\ s.at # "check" => thread[t].op = "exit" /\ thread[t].at # "check",
         thread[t].op = "exit" => s.who = thread[t].who,
         \A c \in Clients \ out' : t # Outgoing(c),
         out \subseteq out', out' \subseteq Clients, events' \in 0..MaxEvents,
         holder' \in Threads \cup {NoThread},
         UNCHANGED <<roomVars, userState, stored>>
  PROVE  StatesInv'
<1>1. StatesTypeOK /\ Orderly
  BY DEF StatesInv, StatesOfMembers
<1>2. /\ inRoom' = inRoom /\ overtaken' = overtaken /\ removed' = removed
      /\ users' = users /\ master' = master /\ userState' = userState /\ stored' = stored
  BY DEF roomVars
<1>3. thread \in [Threads -> ThreadState]
  BY <1>1, StatesTypes
<1>4. thread' \in [Threads -> ThreadState]
  BY <1>3
<1>5. StatesTypeOK'
  BY <1>1, <1>2, <1>4 DEF StatesTypeOK, ThreadState
<1>6. s.op = "exit" /\ s.at # "check" => s.who \notin inRoom' \/ s.who \in overtaken'
  BY <1>1, <1>2 DEF Orderly
<1>7. thread[t].who \notin Clients \/ s.who = thread[t].who
  BY <1>1, UserStatesAssumption DEF Orderly
<1>8. \A c \in inRoom' \ overtaken' : stored'[c] \subseteq userState'[c]
  BY <1>2 DEF StatesInv
<1> QED BY <1>2, <1>5, <1>6, <1>7, <1>8, Moves

LEMMA Busy ==
  ASSUME StatesInv, NEW t \in Threads, thread[t].at # "idle"
  PROVE  \A c \in Clients \ out : t # Outgoing(c)
BY IdleTyped DEF StatesInv, Orderly

LEMMA ReaderIsThread ==
  ASSUME NEW c \in Clients
  PROVE  /\ Reader(c) \in Threads
         /\ Outgoing(c) \in Threads
         /\ \A d \in Clients : Reader(c) # Outgoing(d) /\ (Outgoing(c) = Outgoing(d) => c = d)
BY DEF Reader, Outgoing, Threads

\* Typed parts of the state a step finds.
LEMMA Found ==
  ASSUME StatesInv
  PROVE  /\ StatesTypeOK /\ Orderly
         /\ thread \in [Threads -> ThreadState]
         /\ out \subseteq Clients /\ events \in 0..MaxEvents /\ MaxEvents \in Nat
         /\ holder \in Threads \cup {NoThread}
BY StatesTypes, UserStatesAssumption DEF StatesInv, StatesOfMembers, StatesTypeOK

\* Steps of a goroutine that change nobody's state.
LEMMA QuietSteps ==
  ASSUME StatesInv, NEW t \in Threads, UNCHANGED <<out, events>>,
         \/ Acquire(t)
         \/ \E c \in Clients :
              /\ t = Reader(c)
              /\ \/ AsksForLock(c) \/ DefersUnlock(c) \/ TellState(c)
                 \/ RangesOverStates(c) \/ FindsPlace(c) \/ AnswersRequest(c)
                 \/ GetRoomData(c)
  PROVE  StatesInv'
<1>1. /\ StatesTypeOK /\ Orderly /\ thread \in [Threads -> ThreadState]
      /\ out' \subseteq Clients /\ out \subseteq out' /\ events' \in 0..MaxEvents
      /\ out' = out /\ holder \in Threads \cup {NoThread}
  BY Found
<1>2. thread[t] \in ThreadState /\ (thread[t].op # "exit" => thread[t].who = NoClient)
  BY <1>1 DEF Orderly
<1>3. CASE Acquire(t)
  <2> DEFINE s == [thread[t] EXCEPT !.at = "holds"]
  <2>1. /\ s \in ThreadState /\ s.op = thread[t].op /\ s.who = thread[t].who
        /\ thread[t].at # "check" /\ thread[t].at # "idle"
    BY <1>2, <1>3 DEF Acquire, ThreadState, Labels
  <2>2. thread' = [thread EXCEPT ![t] = s] /\ holder' \in Threads \cup {NoThread}
        /\ UNCHANGED <<roomVars, userState, stored>>
    BY <1>3 DEF Acquire, GoesTo, Goes
  <2>3. \A c \in Clients \ out' : t # Outgoing(c)
    BY <1>1, <2>1, Busy
  <2> HIDE DEF s
  <2> QED BY <1>1, <1>2, <2>1, <2>2, <2>3, Quiet
<1>4. ASSUME NEW c \in Clients, t = Reader(c),
             \/ AsksForLock(c) \/ DefersUnlock(c) \/ TellState(c)
             \/ RangesOverStates(c) \/ FindsPlace(c) \/ AnswersRequest(c)
             \/ GetRoomData(c)
      PROVE  StatesInv'
  <2>1. \A d \in Clients \ out' : t # Outgoing(d)
    BY <1>4, ReaderIsThread
  <2>2. /\ UNCHANGED <<roomVars, userState, stored>>
        /\ holder' \in Threads \cup {NoThread}
    BY <1>1, <1>4 DEF AsksForLock, DefersUnlock, TellState, RangesOverStates,
       FindsPlace, AnswersRequest, GetRoomData, Uses, Freed
  <2>3. thread[t].at # "check"
    BY <1>4 DEF AsksForLock, DefersUnlock, TellState, RangesOverStates,
       FindsPlace, AnswersRequest, GetRoomData, IsAt
  <2>4. \E s \in ThreadState :
          /\ thread' = [thread EXCEPT ![t] = s]
          /\ \/ s.op = "none" /\ s.who = NoClient /\ thread[t].op # "exit"
             \/ s.op = thread[t].op /\ s.who = thread[t].who
    <3> DEFINE s(next) == [thread[t] EXCEPT !.at = next]
    <3>1. /\ Idle \in ThreadState /\ Idle.op = "none" /\ Idle.who = NoClient
          /\ [Idle EXCEPT !.at = "ended"] \in ThreadState
          /\ [Idle EXCEPT !.at = "ended"].op = "none"
          /\ [Idle EXCEPT !.at = "ended"].who = NoClient
      BY IdleTyped
    <3>2. \A next \in Labels : s(next) \in ThreadState /\ s(next).op = thread[t].op
                               /\ s(next).who = thread[t].who
      BY <1>2 DEF ThreadState
    <3>3. /\ thread[t].op # "exit"
          /\ \/ thread' = [thread EXCEPT ![t] = Idle]
             \/ thread' = [thread EXCEPT ![t] = [Idle EXCEPT !.at = "ended"]]
             \/ \E next \in Labels : thread' = [thread EXCEPT ![t] = s(next)]
             \/ RangesOverStates(c) /\ c \in inRoom
             \/ FindsPlace(c) /\ c \in inRoom
      <4>1. CASE AsksForLock(c)
        BY <1>4, <4>1 DEF AsksForLock, Uses, Ended, GoesTo, Goes, Labels
      <4>2. CASE DefersUnlock(c)
        BY <1>4, <4>2 DEF DefersUnlock, Uses, Ended, GoesTo, Goes, IsAt, Labels
      <4>3. CASE RangesOverStates(c) \/ FindsPlace(c)
        BY <1>4, <4>3 DEF RangesOverStates, FindsPlace, Ended, Goes, IsAt
      <4>4. CASE TellState(c) \/ AnswersRequest(c) \/ GetRoomData(c)
        BY <1>4, <4>4 DEF TellState, AnswersRequest, GetRoomData, Ended, Goes, IsAt
      <4> QED BY <1>4, <4>1, <4>2, <4>3, <4>4
    <3>4. CASE RangesOverStates(c) /\ c \in inRoom
      <4> DEFINE r == [thread[t] EXCEPT !.at = "range",
                                        !.todo = {d \in Clients : userState[d] # {}}]
      <4>1. thread' = [thread EXCEPT ![t] = r]
        BY <1>4, <3>4 DEF RangesOverStates, Goes
      <4>2. r \in ThreadState /\ r.op = thread[t].op /\ r.who = thread[t].who
        BY <1>2 DEF ThreadState, Labels
      <4> QED BY <4>1, <4>2
    <3>5. CASE FindsPlace(c) /\ c \in inRoom
      <4>1. PICK d : thread' = [thread EXCEPT ![t] =
                                  [thread[t] EXCEPT !.todo = thread[t].todo \ {d}]]
        BY <1>4, <3>5 DEF FindsPlace, Goes
      <4> DEFINE r == [thread[t] EXCEPT !.todo = thread[t].todo \ {d}]
      <4>2. r \in ThreadState /\ r.op = thread[t].op /\ r.who = thread[t].who
        BY <1>2 DEF ThreadState
      <4> QED BY <4>1, <4>2
    <3> HIDE DEF s
    <3>6. CASE \/ thread' = [thread EXCEPT ![t] = Idle]
               \/ thread' = [thread EXCEPT ![t] = [Idle EXCEPT !.at = "ended"]]
      BY <3>1, <3>3, <3>6
    <3>7. CASE \E next \in Labels : thread' = [thread EXCEPT ![t] = s(next)]
      BY <3>2, <3>7
    <3> QED BY <3>3, <3>4, <3>5, <3>6, <3>7
  <2> QED BY <1>1, <1>2, <2>1, <2>2, <2>3, <2>4, Quiet
<1> QED BY <1>3, <1>4

LEMMA ReadKeeps ==
  ASSUME StatesInv, NEW c \in Clients, ReadState(c), UNCHANGED <<out, events>>
  PROVE  StatesInv'
<1> DEFINE t == Reader(c)
<1>1. /\ StatesTypeOK /\ Orderly /\ thread \in [Threads -> ThreadState] /\ t \in Threads
      /\ out' \subseteq Clients /\ out \subseteq out' /\ events' \in 0..MaxEvents
      /\ \A d \in Clients \ out' : t # Outgoing(d)
      /\ holder' \in Threads \cup {NoThread}
  BY Found, ReaderIsThread DEF ReadState, Freed
<1>2. /\ thread[t] \in ThreadState /\ thread[t].op = "set" /\ thread[t].who = NoClient
      /\ UNCHANGED roomVars
  BY <1>1 DEF ReadState, IsAt, Orderly
<1> HIDE DEF t
<1>3. CASE c \notin inRoom
  <2>1. /\ thread' = [thread EXCEPT ![t] = [Idle EXCEPT !.at = "ended"]]
        /\ UNCHANGED <<userState, stored>>
    BY <1>3 DEF ReadState, Ended, Goes, t
  <2> QED BY <1>1, <1>2, <2>1, IdleTyped, Quiet
<1>4. CASE c \in inRoom
  <2> DEFINE update == thread[t].update \cup userState[c]
             s == [thread[t] EXCEPT !.at = "store", !.update = update]
  <2>1. /\ thread' = [thread EXCEPT ![t] = s]
        /\ \/ userState' = userState
           \/ userState' = [userState EXCEPT ![c] = update]
        /\ UNCHANGED <<stored, holder>>
    BY <1>4 DEF ReadState, Goes, t
  <2>2. s \in ThreadState /\ s.op = "set" /\ s.who = NoClient /\ update \subseteq 1..MaxEvents
    <3>1. userState[c] \subseteq 1..MaxEvents
      BY <1>1 DEF StatesTypeOK
    <3> QED BY <1>2, <3>1 DEF ThreadState, Labels
  <2>3. /\ users' = users /\ master' = master /\ removed' = removed /\ inRoom' = inRoom
        /\ overtaken' = overtaken
    BY <1>2 DEF roomVars
  <2>4. userState[c] \subseteq update
    OBVIOUS
  <2> HIDE DEF s, update
  <2>5. StatesTypeOK'
    <3>1. /\ userState' \in [Clients -> SUBSET (1..MaxEvents)]
          /\ stored' \in [Clients -> SUBSET (1..MaxEvents)]
      BY <1>1, <2>1, <2>2, StatesTypes
    <3>2. thread' \in [Threads -> ThreadState]
      BY <1>1, <2>1, <2>2
    <3> QED BY <1>1, <2>1, <2>3, <3>1, <3>2 DEF StatesTypeOK, ThreadState
  <2>6. \A d \in Clients : userState'[d] \subseteq userState[d] \/ d \in inRoom'
    BY <1>1, <1>4, <2>1, <2>3 DEF StatesTypeOK
  <2>7. \A d \in inRoom' \ overtaken' : stored'[d] \subseteq userState'[d]
    BY <1>1, <2>1, <2>3, <2>4 DEF StatesTypeOK, StatesInv
  <2> QED BY <1>1, <1>2, <2>1, <2>2, <2>3, <2>5, <2>6, <2>7, UserStatesAssumption, Moves
<1> QED BY <1>3, <1>4

LEMMA StoreKeeps ==
  ASSUME StatesInv, NEW c \in Clients, StoreState(c), UNCHANGED <<out, events>>
  PROVE  StatesInv'
<1> DEFINE t == Reader(c)
<1>1. /\ StatesTypeOK /\ Orderly /\ thread \in [Threads -> ThreadState] /\ t \in Threads
      /\ out' \subseteq Clients /\ out \subseteq out' /\ events' \in 0..MaxEvents
      /\ \A d \in Clients \ out' : t # Outgoing(d)
      /\ holder' \in Threads \cup {NoThread}
  BY Found, ReaderIsThread DEF StoreState, Freed
<1>2. /\ thread[t] \in ThreadState /\ thread[t].op = "set" /\ thread[t].who = NoClient
      /\ UNCHANGED roomVars
  BY <1>1 DEF StoreState, IsAt, Orderly
<1> HIDE DEF t
<1>3. CASE c \notin inRoom
  <2>1. /\ thread' = [thread EXCEPT ![t] = [Idle EXCEPT !.at = "ended"]]
        /\ UNCHANGED <<userState, stored>>
    BY <1>3 DEF StoreState, Ended, Goes, t
  <2> QED BY <1>1, <1>2, <2>1, IdleTyped, Quiet
<1>4. CASE c \in inRoom
  <2> DEFINE s == [thread[t] EXCEPT !.at = "tell"]
             update == thread[t].update
  <2>1. /\ thread' = [thread EXCEPT ![t] = s]
        /\ userState' = [userState EXCEPT ![c] = update]
        /\ stored' = [stored EXCEPT ![c] = update]
        /\ UNCHANGED holder
    BY <1>4 DEF StoreState, GoesTo, Goes, t
  <2>2. s \in ThreadState /\ s.op = "set" /\ s.who = NoClient /\ update \subseteq 1..MaxEvents
    BY <1>2 DEF ThreadState, Labels
  <2>3. /\ users' = users /\ master' = master /\ removed' = removed /\ inRoom' = inRoom
        /\ overtaken' = overtaken
    BY <1>2 DEF roomVars
  <2> HIDE DEF s, update
  <2>4. StatesTypeOK'
    <3>1. /\ userState' \in [Clients -> SUBSET (1..MaxEvents)]
          /\ stored' \in [Clients -> SUBSET (1..MaxEvents)]
      BY <1>1, <2>1, <2>2, StatesTypes
    <3>2. thread' \in [Threads -> ThreadState]
      BY <1>1, <2>1, <2>2
    <3> QED BY <1>1, <2>1, <2>3, <3>1, <3>2 DEF StatesTypeOK, ThreadState
  <2>5. \A d \in Clients : userState'[d] \subseteq userState[d] \/ d \in inRoom'
    BY <1>1, <1>4, <2>1, <2>3 DEF StatesTypeOK
  <2>6. \A d \in inRoom' \ overtaken' : stored'[d] \subseteq userState'[d]
    BY <1>1, <2>1, <2>3 DEF StatesTypeOK, StatesInv
  <2> QED BY <1>1, <1>2, <2>1, <2>2, <2>3, <2>4, <2>5, <2>6, UserStatesAssumption, Moves
<1> QED BY <1>3, <1>4

LEMMA LeaveKeeps ==
  ASSUME StatesInv, NEW t \in Threads, Leave(t), UNCHANGED <<out, events>>
  PROVE  StatesInv'
<1> DEFINE c == thread[t].who
<1>1. /\ StatesTypeOK /\ Orderly /\ thread \in [Threads -> ThreadState]
      /\ out' = out /\ events' = events
      /\ thread[t].op = "exit" /\ thread[t].at = "check" /\ thread[t] \in ThreadState
      /\ UNCHANGED <<master, userState, holder, stored, overtaken>>
  BY Found DEF Leave, IsAt
<1>2. \A d \in Clients \ out' : t # Outgoing(d)
  BY <1>1, Busy
<1>3. CASE c \in inRoom
  <2> DEFINE s == [thread[t] EXCEPT !.at = "count"]
  <2>1. /\ thread' = [thread EXCEPT ![t] = s]
        /\ users' = Keep(users, Clients \ {c}) /\ inRoom' = inRoom \ {c}
        /\ removed' = removed
    BY <1>3 DEF Leave, GoesTo, Goes
  <2>2. s \in ThreadState /\ s.op = "exit" /\ s.who = c
    BY <1>1 DEF ThreadState, Labels
  <2> HIDE DEF s, c
  <2>3. StatesTypeOK'
    <3>1. users' \in Seq(Clients)
      BY <1>1, <2>1, KeepProperties DEF StatesTypeOK
    <3>2. thread' \in [Threads -> ThreadState]
      BY <1>1, <2>1, <2>2
    <3> QED BY <1>1, <2>1, <3>1, <3>2 DEF StatesTypeOK, ThreadState
  <2>4. \A d \in inRoom' \ overtaken' : stored'[d] \subseteq userState'[d]
    BY <1>1, <2>1 DEF StatesInv
  <2> QED BY <1>1, <1>2, <2>1, <2>2, <2>3, <2>4, Moves DEF c
<1>4. CASE c \notin inRoom
  <2>1. /\ thread' = [thread EXCEPT ![t] = Idle]
        /\ users' = users /\ inRoom' = inRoom /\ removed' = TRUE
    BY <1>4 DEF Leave, Goes
  <2>2. Idle \in ThreadState /\ Idle.op = "none" /\ Idle.who = NoClient
    BY IdleTyped
  <2>3. StatesTypeOK'
    <3>1. thread' \in [Threads -> ThreadState]
      BY <1>1, <2>1, <2>2
    <3> QED BY <1>1, <2>1, <3>1 DEF StatesTypeOK, ThreadState
  <2>4. \A d \in inRoom' \ overtaken' : stored'[d] \subseteq userState'[d]
    BY <1>1, <2>1 DEF StatesInv
  <2> QED BY <1>1, <1>2, <2>1, <2>2, <2>3, <2>4, Moves
<1> QED BY <1>3, <1>4

LEMMA CountKeeps ==
  ASSUME StatesInv, NEW t \in Threads, Count(t), UNCHANGED <<out, events>>
  PROVE  StatesInv'
<1>1. /\ StatesTypeOK /\ Orderly /\ thread \in [Threads -> ThreadState]
      /\ out' = out /\ events' = events
      /\ thread[t].op = "exit" /\ thread[t].at = "count" /\ thread[t] \in ThreadState
      /\ UNCHANGED <<users, inRoom, userState, holder, stored, overtaken>>
  BY Found DEF Count, IsAt
<1>2. \A d \in Clients \ out' : t # Outgoing(d)
  BY <1>1, Busy
<1>3. \A d \in inRoom' \ overtaken' : stored'[d] \subseteq userState'[d]
  BY <1>1 DEF StatesInv
<1>4. CASE users = <<>>
  <2>1. /\ thread' = [thread EXCEPT ![t] = Idle] /\ removed' = TRUE /\ master' = master
    BY <1>4 DEF Count, Goes
  <2>2. Idle \in ThreadState /\ Idle.op = "none" /\ Idle.who = NoClient
    BY IdleTyped
  <2>3. StatesTypeOK'
    <3>1. thread' \in [Threads -> ThreadState]
      BY <1>1, <2>1, <2>2
    <3> QED BY <1>1, <2>1, <3>1 DEF StatesTypeOK, ThreadState
  <2> QED BY <1>1, <1>2, <1>3, <2>1, <2>2, <2>3, Moves
<1>5. CASE users # <<>>
  <2> DEFINE s == [thread[t] EXCEPT !.at = "waits"]
  <2>1. /\ thread' = [thread EXCEPT ![t] = s] /\ removed' = removed
        /\ master' \in {users[1], master}
    BY <1>5 DEF Count, GoesTo, Goes
  <2>2. s \in ThreadState /\ s.op = "exit" /\ s.who = thread[t].who
    BY <1>1 DEF ThreadState, Labels
  <2>3. s.who \notin inRoom' \/ s.who \in overtaken'
    BY <1>1, <2>2 DEF Orderly
  <2> HIDE DEF s
  <2>4. StatesTypeOK'
    <3>1. users \in Seq(Clients) /\ master \in Clients
      BY <1>1 DEF StatesTypeOK
    <3>2. users[1] \in Clients
      BY <1>5, <3>1
    <3>3. thread' \in [Threads -> ThreadState]
      BY <1>1, <2>1, <2>2
    <3> QED BY <1>1, <2>1, <3>1, <3>2, <3>3 DEF StatesTypeOK, ThreadState
  <2> QED BY <1>1, <1>2, <1>3, <2>1, <2>2, <2>3, <2>4, Moves
<1> QED BY <1>4, <1>5

\* Who is forgotten has left, or was let in again while he was being taken out.
LEMMA ClearKeeps ==
  ASSUME StatesInv, NEW t \in Threads, ClearState(t), UNCHANGED <<out, events>>
  PROVE  StatesInv'
<1> DEFINE c == thread[t].who
<1>1. /\ StatesTypeOK /\ Orderly /\ thread \in [Threads -> ThreadState]
      /\ out' = out /\ events' = events
      /\ thread[t].op = "exit" /\ thread[t].at = "holds" /\ thread[t] \in ThreadState
      /\ thread' = [thread EXCEPT ![t] = Idle]
      /\ userState' = [userState EXCEPT ![c] = {}] /\ stored' = stored
      /\ holder' \in Threads \cup {NoThread} /\ UNCHANGED roomVars
  BY Found DEF ClearState, IsAt, Goes, Forgotten, Freed
<1>2. \A d \in Clients \ out' : t # Outgoing(d)
  BY <1>1, Busy
<1>3. /\ users' = users /\ master' = master /\ removed' = removed /\ inRoom' = inRoom
      /\ overtaken' = overtaken
  BY <1>1 DEF roomVars
<1>4. Idle \in ThreadState /\ Idle.op = "none" /\ Idle.who = NoClient
  BY IdleTyped
<1>5. c \notin inRoom \/ c \in overtaken
  BY <1>1 DEF Orderly
<1> HIDE DEF c
<1>6. userState \in [Clients -> SUBSET (1..MaxEvents)]
  BY <1>1 DEF StatesTypeOK
<1>7. StatesTypeOK'
  <2>1. thread' \in [Threads -> ThreadState]
    BY <1>1, <1>4
  <2>2. userState' \in [Clients -> SUBSET (1..MaxEvents)]
    BY <1>1, <1>6
  <2> QED BY <1>1, <1>3, <2>1, <2>2 DEF StatesTypeOK, ThreadState
<1>8. \A d \in inRoom' \ overtaken' : stored'[d] \subseteq userState'[d]
  BY <1>1, <1>3, <1>5, <1>6 DEF StatesInv
<1>9. c \notin Clients \/ userState'[c] = {}
  BY <1>1, <1>6
<1>10. \A d \in Clients : userState'[d] \subseteq userState[d]
  BY <1>1, <1>6
<1> QED BY <1>1, <1>2, <1>3, <1>4, <1>7, <1>8, <1>9, <1>10, Moves DEF c

\* Handlers that begin without touching the room, and the end of a connection.
LEMMA BeginningsKeep ==
  ASSUME StatesInv, NEW c \in Clients,
         \/ SetClientState(c) \/ RequestRoleSelectState(c) \/ ExitRoom(c) \/ KickOut(c)
         \/ OnUserOut(c)
  PROVE  StatesInv'
<1>1. /\ StatesTypeOK /\ Orderly /\ thread \in [Threads -> ThreadState]
      /\ out \subseteq Clients /\ events \in 0..MaxEvents /\ MaxEvents \in Nat
      /\ holder \in Threads \cup {NoThread}
      /\ Reader(c) \in Threads /\ Outgoing(c) \in Threads
      /\ \A d \in Clients : Reader(c) # Outgoing(d) /\ (Outgoing(c) = Outgoing(d) => c = d)
  BY Found, ReaderIsThread
<1>2. /\ UNCHANGED <<roomVars, userState, stored, holder>>
      /\ events < MaxEvents /\ events' = events + 1
  BY DEF SetClientState, RequestRoleSelectState, ExitRoom, KickOut, OnUserOut,
     MemberHandles, Handles, Happens
<1>3. events' \in 0..MaxEvents /\ events + 1 \in 1..MaxEvents
  BY <1>1, <1>2
<1>4. /\ Idle \in ThreadState /\ Idle.op = "none" /\ Idle.who = NoClient
  BY IdleTyped
<1> DEFINE Leaves(d) == [Idle EXCEPT !.at = "check", !.op = "exit", !.who = d]
<1>5. \A d \in Clients : /\ Leaves(d) \in ThreadState /\ Leaves(d).op = "exit"
                         /\ Leaves(d).at = "check"
  BY DEF Idle, ThreadState, Labels
<1> HIDE DEF Leaves
<1>6. ASSUME NEW s \in ThreadState, thread[Reader(c)] = Idle, UNCHANGED out,
             thread' = [thread EXCEPT ![Reader(c)] = s],
             s.op # "exit" => s.who = NoClient, s.op = "exit" => s.at = "check"
      PROVE  StatesInv'
  BY <1>1, <1>2, <1>3, <1>4, <1>6, Quiet
<1>7. CASE SetClientState(c)
  <2> DEFINE s == [Idle EXCEPT !.at = "asks", !.op = "set", !.update = {events + 1}]
  <2>1. s \in ThreadState /\ s.op = "set" /\ s.who = NoClient
    BY <1>3 DEF Idle, ThreadState, Labels
  <2>2. /\ thread[Reader(c)] = Idle /\ UNCHANGED out
        /\ thread' = [thread EXCEPT ![Reader(c)] = s]
    BY <1>7 DEF SetClientState, MemberHandles, Handles, Goes
  <2> HIDE DEF s
  <2> QED BY <1>6, <2>1, <2>2
<1>8. CASE RequestRoleSelectState(c)
  <2> DEFINE s == [Idle EXCEPT !.at = "asks", !.op = "request"]
  <2>1. s \in ThreadState /\ s.op = "request" /\ s.who = NoClient
    BY DEF Idle, ThreadState, Labels
  <2>2. /\ thread[Reader(c)] = Idle /\ UNCHANGED out
        /\ thread' = [thread EXCEPT ![Reader(c)] = s]
    BY <1>8 DEF RequestRoleSelectState, MemberHandles, Handles, Begins, Goes
  <2> HIDE DEF s
  <2> QED BY <1>6, <2>1, <2>2
<1>9. CASE ExitRoom(c) \/ KickOut(c)
  <2>1. Elems(users) \subseteq Clients
    BY <1>1 DEF StatesTypeOK, Elems
  <2>2. \E d \in Clients : thread' = [thread EXCEPT ![Reader(c)] = Leaves(d)]
    BY <1>9, <2>1 DEF ExitRoom, KickOut, Goes, Leaves
  <2>3. thread[Reader(c)] = Idle /\ UNCHANGED out
    BY <1>9 DEF ExitRoom, KickOut, MemberHandles, Handles
  <2> QED BY <1>5, <1>6, <2>2, <2>3
<1>10. CASE OnUserOut(c)
  <2>1. c \notin out /\ out' = out \cup {c} /\ out' \subseteq Clients
    BY <1>1, <1>10 DEF OnUserOut
  <2>2. thread[Outgoing(c)] = Idle
    BY <1>1, <2>1 DEF Orderly
  <2>3. \E s \in {Idle, Leaves(c)} : thread' = [thread EXCEPT ![Outgoing(c)] = s]
    <3>1. CASE c \in inRoom
      BY <1>10, <3>1 DEF OnUserOut, Goes, Leaves
    <3>2. CASE c \notin inRoom
      BY <1>1, <1>10, <2>2, <3>2 DEF OnUserOut
    <3> QED BY <3>1, <3>2
  <2>4. \A d \in Clients \ out' : Outgoing(c) # Outgoing(d)
    BY <1>1, <2>1
  <2> QED BY <1>1, <1>2, <1>3, <1>4, <1>5, <2>1, <2>2, <2>3, <2>4, Quiet
<1> QED BY <1>7, <1>8, <1>9, <1>10

LEMMA ResetKeeps ==
  ASSUME StatesInv, NEW c \in Clients, ResetRoom(c)
  PROVE  StatesInv'
<1>1. PICK t \in Threads : t = Reader(c)
  BY ReaderIsThread
<1>2. PICK s \in ThreadState : s = Idle /\ s.op = "none" /\ s.who = NoClient
  BY IdleTyped
<1>3. /\ StatesTypeOK /\ Orderly /\ thread \in [Threads -> ThreadState]
      /\ \A d \in Clients : t # Outgoing(d)
      /\ events \in 0..MaxEvents /\ MaxEvents \in Nat
  BY <1>1, Found, ReaderIsThread
<1>4. /\ thread[t] = s /\ events < MaxEvents /\ events' = events + 1
      /\ UNCHANGED <<holder, out, roomVars, thread>>
      /\ userState' = [d \in Clients |-> {}] /\ stored' = [d \in Clients |-> {}]
  BY <1>1, <1>2 DEF ResetRoom, MemberHandles, Handles, Happens
<1>5. /\ users' = users /\ master' = master /\ removed' = removed /\ inRoom' = inRoom
      /\ overtaken' = overtaken
  BY <1>4 DEF roomVars
<1>6. thread' = [thread EXCEPT ![t] = s]
  BY <1>3, <1>4
<1>7. StatesTypeOK'
  <2>1. events' \in 0..MaxEvents
    BY <1>3, <1>4
  <2> QED BY <1>3, <1>4, <1>5, <2>1 DEF StatesTypeOK
<1>8. \A d \in Clients : userState'[d] = {} /\ stored'[d] = {}
  BY <1>4
<1>9. \A d \in inRoom' \ overtaken' : stored'[d] \subseteq userState'[d]
  BY <1>3, <1>5, <1>8 DEF StatesTypeOK
<1>10. thread[t].who \notin Clients
  BY <1>2, <1>4, UserStatesAssumption
<1>11. out \subseteq out' /\ overtaken \subseteq overtaken' /\ (removed => removed')
  BY <1>4, <1>5
<1>12. /\ s.op # "exit" => s.who = NoClient
       /\ s.op = "exit" /\ s.at # "check" => s.who \notin inRoom' \/ s.who \in overtaken'
       /\ \A d \in Clients \ out' : t # Outgoing(d)
  BY <1>2, <1>3
<1>13. /\ \A d \in inRoom' \ inRoom : TakenOut(d) => d \in overtaken'
       /\ \A d \in inRoom \ inRoom' : s.who = d
  BY <1>5
<1>14. \A d \in Clients : userState'[d] \subseteq userState[d] \/ d \in inRoom'
  BY <1>8
<1> QED BY <1>6, <1>7, <1>9, <1>10, <1>11, <1>12, <1>13, <1>14, Moves

LEMMA JoinKeeps ==
  ASSUME StatesInv, NEW c \in Clients, JoinRoom(c)
  PROVE  StatesInv'
<1> DEFINE t == Reader(c)
           s == [Idle EXCEPT !.at = "waits", !.op = "join"]
<1>1. /\ StatesTypeOK /\ Orderly /\ thread \in [Threads -> ThreadState] /\ t \in Threads
      /\ \A d \in Clients : t # Outgoing(d)
      /\ events \in 0..MaxEvents /\ MaxEvents \in Nat
  BY Found, ReaderIsThread
<1>2. /\ thread[t] = Idle /\ events < MaxEvents /\ events' = events + 1
      /\ c \notin inRoom /\ inRoom' = inRoom \cup {c} /\ users' = Append(users, c)
      /\ stored' = [stored EXCEPT ![c] = {}]
      /\ thread' = [thread EXCEPT ![t] = s]
      /\ UNCHANGED <<holder, out, master, removed, userState>>
      /\ overtaken \subseteq overtaken' /\ overtaken' \subseteq overtaken \cup {c}
      /\ TakenOut(c) => c \in overtaken'
  BY DEF JoinRoom, Handles, Happens, Begins, Goes
<1>3. s \in ThreadState /\ s.op = "join" /\ s.who = NoClient
  BY DEF Idle, ThreadState, Labels
<1> HIDE DEF t, s
<1>4. StatesTypeOK'
  <2>1. events' \in 0..MaxEvents
    BY <1>1, <1>2
  <2>2. users' \in Seq(Clients)
    BY <1>1, <1>2, AppendElems DEF StatesTypeOK
  <2>3. thread' \in [Threads -> ThreadState]
    BY <1>1, <1>2, <1>3
  <2>4. stored' \in [Clients -> SUBSET (1..MaxEvents)]
    BY <1>1, <1>2 DEF StatesTypeOK
  <2> QED BY <1>1, <1>2, <2>1, <2>2, <2>3, <2>4 DEF StatesTypeOK, ThreadState
<1>5. \A d \in inRoom' \ overtaken' : stored'[d] \subseteq userState'[d]
  <2>1. stored \in [Clients -> SUBSET (1..MaxEvents)]
    BY <1>1 DEF StatesTypeOK
  <2>2. \A d \in inRoom \ overtaken : stored[d] \subseteq userState[d]
    BY DEF StatesInv
  <2>3. inRoom \subseteq Clients
    BY <1>1 DEF StatesTypeOK
  <2> QED BY <1>2, <2>1, <2>2, <2>3
<1>6. thread[t].who \notin Clients
  BY <1>2, IdleTyped, UserStatesAssumption
<1> QED BY <1>1, <1>2, <1>3, <1>4, <1>5, <1>6, Moves

LEMMA StatesInvInit ==
  ASSUME StatesInit
  PROVE  StatesInv
<1> USE DEF StatesInit
<1>1. /\ Idle \in ThreadState /\ Idle.op = "none" /\ Idle.who = NoClient
      /\ Idle.at = "idle"
  BY IdleTyped
<1>2. PICK n \in 1..Cardinality(Clients) : users \in [1..n -> Clients]
  OBVIOUS
<1>3. n \in Nat /\ 1 \in 1..n
  BY <1>2
<1>4. users \in Seq(Clients) /\ master \in Clients /\ inRoom \subseteq Clients
  BY <1>2, <1>3 DEF Elems
<1>5. thread \in [Threads -> ThreadState]
  BY <1>1
<1>6. StatesTypeOK
  <2>1. /\ userState \in [Clients -> SUBSET (1..MaxEvents)]
        /\ stored \in [Clients -> SUBSET (1..MaxEvents)]
    OBVIOUS
  <2>2. /\ events = 0 /\ 0 \in 0..MaxEvents /\ removed = FALSE /\ holder = NoThread
        /\ out = {} /\ overtaken = {}
    BY UserStatesAssumption
  <2> QED BY <1>4, <1>5, <2>1, <2>2, StatesTypes
<1>7. Orderly
  <2>1. \A c \in Clients : thread[Outgoing(c)] = Idle
    BY ReaderIsThread
  <2> QED BY <1>1, <2>1 DEF Orderly
<1>8. \A c \in Clients : userState[c] = {} /\ stored[c] = {}
  OBVIOUS
<1> QED BY <1>4, <1>6, <1>7, <1>8 DEF StatesInv, StatesOfMembers

LEMMA StatesInvNext ==
  ASSUME StatesInv, [StatesNext]_stateVars
  PROVE  StatesInv'
<1>1. CASE UNCHANGED stateVars
  BY <1>1 DEF stateVars, StatesInv, StatesOfMembers, StatesTypeOK, Orderly, TakenOut
<1>2. ASSUME NEW t \in Threads, ThreadStep(t) PROVE StatesInv'
  BY <1>2, QuietSteps, ReadKeeps, StoreKeeps, LeaveKeeps, CountKeeps, ClearKeeps DEF ThreadStep
<1>3. ASSUME NEW c \in Clients,
             \/ SetClientState(c) \/ RequestRoleSelectState(c) \/ ResetRoom(c)
             \/ ExitRoom(c) \/ KickOut(c) \/ JoinRoom(c) \/ OnUserOut(c)
      PROVE  StatesInv'
  BY <1>3, BeginningsKeep, ResetKeeps, JoinKeeps
<1> QED BY <1>1, <1>2, <1>3 DEF StatesNext

\* Whoever sets his state, leaves, is kicked, goes offline, comes back or resets the
\* room at the same time, and however far each of their handlers is: who is out of a
\* room that can be found and is not being taken out has no state in it, and a member's
\* state holds what he stored since he came and since the last reset, but for one who
\* came back before he had been taken out altogether.
THEOREM StatesStayWithMembers == StatesSpec => []StatesOfMembers
<1>1. StatesInv => StatesOfMembers
  BY DEF StatesInv
<1> QED BY <1>1, StatesInvInit, StatesInvNext, PTL DEF StatesSpec
=============================================================================
