----------------------------- MODULE MatchLoops -----------------------------
(***************************************************************************)
(* The two loops of mathMatch over the users of a complete group, step by  *)
(* step, against the closed forms that Rooms and Matchmaking use.          *)
(***************************************************************************)
EXTENDS Matchmaking

\* The last one takes the place of the one that goes.
SlipSwapsLast(a, value) ==
  LET hits == {i \in 1..a.len : a.array[i] = value}
      p    == Least(hits)
  IN  IF hits = {} THEN a
      ELSE [array |-> [a.array EXCEPT ![p] = a.array[a.len]], len |-> a.len - 1]

\* Array.Remove in place: what follows the value moves up, in an array that is
\* not cut; `len` is the length of the list in it.
RemoveInPlace(a, value) ==
  LET hits == {i \in 1..a.len : a.array[i] = value}
      p    == Least(hits)
  IN  IF hits = {} THEN a
      ELSE [array |-> [i \in DOMAIN a.array |->
                         IF i \in p..(a.len - 1) THEN a.array[i + 1] ELSE a.array[i]],
            len   |-> a.len - 1]

\* match.go:89: the loop reads place i of the array when it gets there, as often
\* as the list was long at its start.
RemoveWhileRanging(users) ==
  LET places == DOMAIN users
      memory == [array : [places -> Elems(users)], len : 0..Len(users)]
      turn   == [at \in memory \X places |-> RemoveInPlace(at[1], at[1].array[at[2]])]
      end    == Looped(turn, [array |-> users, len |-> Len(users)], [i \in places |-> i])
  IN  SubSeq(end.array, 1, end.len)

\* match.go:73: the room of the first user, which the others join.
JoinedInTurn(s, r, users, number) ==
  LET join == [call \in AppState \X Clients |-> JoinClient(call[1], r, call[2])]
  IN  Looped(join, CreateRoom(s, r, users[1], Capacity(number)), Tail(users))

LoopLeavesBehind ==
  \A i \in DOMAIN matchUsersGroup, c \in Clients :
     LET users == Append(matchUsersGroup[i].users, c)
     IN  c \notin Elems(matchUsersGroup[i].users) =>
           RemoveWhileRanging(users) = LeftBehind(users)

JoinedIsCreateMatched ==
  \A i \in DOMAIN matchUsersGroup, c \in Clients, r \in Rooms :
     LET g     == matchUsersGroup[i]
         users == Append(g.users, c)
     IN  app.object[r] = NilRoom /\ c \notin Elems(g.users) /\ ~InRoom(users[1]) =>
           \A away \in SUBSET (Elems(users) \ {users[1]}) :
              LET s == [app EXCEPT !.room =
                          [d \in Clients |-> IF d \in away THEN r ELSE @[d]]]
              IN  JoinedInTurn(s, r, users, g.option.number)
                    = CreateMatched(s, r, Roomless(s, users), g.option.number)

\* In every reachable state: what a complete group does to the rooms, whoever
\* completes it and whichever of its users but the first are away in other rooms
\* (these stay there, the others take the seats from the first on); and whom the
\* loop at the end leaves in the group.  (That is not what match.go:88 says of
\* it, which is that all of them leave.)
LoopsAsClosed == JoinedIsCreateMatched /\ LoopLeavesBehind
=============================================================================
