--------------------------- MODULE ExitRecursion ---------------------------
(***************************************************************************)
(* The mutual recursion of Room.ExitClient and Room.cleanZombieClients,    *)
(* statement by statement, and the callers in App and Client that add      *)
(* checks of their own, against the closed forms in Rooms.                 *)
(***************************************************************************)
EXTENDS Rooms

(***************************************************************************)
(* An App between two statements of a method that are calls: ids, types    *)
(* and both records of membership are in order, but the master of a room   *)
(* may be the one who is leaving.                                          *)
(***************************************************************************)
Typed(s) == s \in AppState /\ \A r \in s.rooms : s.object[r].id # 0

Coherent(s) == Typed(s) /\ MembershipIn(s) /\ RoomIdsConservedIn(s)

\* The calls r.ExitClient(c) that there are, each with the App that it finds:
\* c is in r, or has left it in an inner call.
Calls(r) ==
  {call \in AppState \X Clients :
     Coherent(call[1]) /\ call[1].room[call[2]] \in {r, NoRoom}}

\* The zombies are collected first, then each of them exits.
cleanZombies(exit, s, r, connected) ==
  Looped(exit, s, Keep(s.object[r].users, Clients \ connected))

\* The first statements of an exit; the master is left as it is.
goneFrom(s, r, c) ==
  [s EXCEPT !.object[r].users = Keep(@, Clients \ {c}),
            !.room[c] = NoRoom, !.seat[c] = 0]

\* room.go:308-317, once the client is known to be in the room.
exitMember(exit, s, r, c, connected) ==
  LET swept == cleanZombies(exit, goneFrom(s, r, c), r, connected)
      users == swept.object[r].users
  IN  IF users = <<>> THEN removeRoom(swept, r)
      ELSE [swept EXCEPT !.object[r].master = IF @ = c THEN users[1] ELSE @]

\* One call of ExitClient; `exit` is what a call of it inside does.
exitCall(exit, s, r, c, connected) ==
  IF s.room[c] = NoRoom THEN removeRoom(s, r)
  ELSE IF s.object[s.room[c]].id = s.object[r].id
       THEN exitMember(exit, s, r, c, connected)
       ELSE s

exitClient(r, connected) ==
  LET exit[call \in Calls(r)] == exitCall(exit, call[1], r, call[2], connected)
  IN  exit

exitRoom(s, c, connected) ==
  LET r == s.room[c]
      t == exitClient(r, connected)[<<s, c>>]
  IN  IF t.object[r].users = <<>> THEN removeRoom(t, r) ELSE t

tryExitRoom(s, c, connected) ==
  LET r     == s.room[c]
      users == s.object[r].users
  IN  IF (Elems(users) \cap connected) \ {c} # {} THEN s
      ELSE removeRoom(Looped(exitClient(r, connected), s, users), r)

userOut(s, c, connected) ==
  LET r == s.room[c]
  IN  IF r = NoRoom THEN s
      ELSE IF Members(s, r) \cap connected = {} \/ s.object[r].lock
      THEN tryExitRoom(s, c, connected)
      ELSE exitRoom(s, c, connected)

-----------------------------------------------------------------------------
\* An exit of any member, whoever asks for it, ends as Sweep says: the order
\* in which the recursion visits the zombies makes no difference.
ExitIsSweep ==
  \A c \in Clients : InRoom(c) =>
     LET r    == app.room[c]
         exit == exitClient(r, Connected)
     IN  /\ exit[<<app, c>>] = ExitClient(app, r, c, Connected)
         /\ exitRoom(app, c, Connected) = ExitClient(app, r, c, Connected)
         /\ cleanZombies(exit, app, r, Connected) = cleanZombieClients(app, r, Connected)

\* OnUserOut with its three branches changes the rooms as Rooms!OnUserOut does.
UserOutIsExit ==
  [][\A c \in Clients : phase[c] = "offline" /\ phase'[c] = "out" =>
       app' = Collect(userOut(app, c, Connected))]_vars
=============================================================================
