----------------------------- MODULE FrameSync -----------------------------
(***************************************************************************)
(* The frame synchronisation of rooms: the goroutine onRoomFrame (room.go) *)
(* step by step, beside the handlers of Rooms, each of which is one step.  *)
(*                                                                         *)
(* A loop wakes up, looks whether the room is still synchronised, collects *)
(* the frames of its members one after the other, counts the time on, puts *)
(* what it has collected into the cache, announces it to one member after  *)
(* the other, and sleeps.  Handlers upload frames, start and stop the      *)
(* synchronisation and reset the cache between any two of these steps;     *)
(* nothing is locked.                                                      *)
(***************************************************************************)
EXTENDS Rooms, FiniteSets

CONSTANTS
  Loops,      \* goroutines onRoomFrame that run at a time (bound)
  MaxFrames,  \* uploads (bound)
  MaxTicks    \* highest time, and frames in the cache, at which a loop still
              \* collects (bound)

ASSUME FrameBoundsAssumption ==
  MaxFrames \in Nat /\ MaxTicks \in Nat /\ IsFiniteSet(Loops)

VARIABLES
  loop,      \* of each goroutine: the label it is at, the room, the members it
             \* has not collected from yet, the frames it has, the time it read
  frames,    \* Client.frames: the uploaded frames of each client
  time,      \* Room.cacheId, and the length of Room.frameDatas
  uploaded,  \* number of frames uploaded and acknowledged so far
  history    \* what became of them: `cached` have been in a cache; `exposed` were
             \* uploaded while a loop stood between copying and clearing;
             \* `reset` are the rooms whose last reset came while a loop was counting
             \* on, `revived` those that somebody entered when nobody in them was
             \* connected, and that were not stopped or started since

frameVars == <<vars, loop, frames, time, uploaded, history>>

Labels == {"none", "wake", "copy", "clear", "store", "cache", "send"}

NoLoop == [at |-> "none", room |-> NoRoom, todo |-> <<>>, got |-> {}, read |-> 0]

Running(r) == {l \in Loops : loop[l].room = r}
\* Loops that have seen the room synchronised and have not sent its frame yet.
AtWork(r) == {l \in Running(r) : loop[l].at # "wake"}

\* Loops that have read the counter and not written it yet.
Counting(r) == {l \in Running(r) : loop[l].at = "store"}

NewTime == [cacheId |-> 0, cached |-> 0]

\* Nothing can be read from a room that nobody refers to.
TimeOf(r, t) == IF app'.object[r] = NilRoom THEN NewTime ELSE t

-----------------------------------------------------------------------------
\* The loop.

\* The flag of a room that was given up, and that a loop still refers to, is
\* what it was.
Synchronised(r) == app.object[r] = NilRoom \/ app.object[r].frameSync

SlipOnlyStopped(r) == ~Synchronised(r)
SlipSomeoneOffline(r) == ~Synchronised(r) \/ ~(Members(app, r) \subseteq Connected)
\* The synchronisation was stopped, or isInvalidRoom.
NothingToDo(r) == ~Synchronised(r) \/ Members(app, r) \cap Connected = {}

LoopEnds(l) ==
  /\ loop[l].at = "wake" /\ NothingToDo(loop[l].room)
  /\ loop' = [loop EXCEPT ![l] = NoLoop]
  /\ UNCHANGED <<frames, time, history>>

\* The list of members is what it is now, whoever comes or goes meanwhile.
LoopBegins(l) ==
  LET r == loop[l].room
  IN  /\ loop[l].at = "wake" /\ ~NothingToDo(r)
      /\ time[r].cacheId < MaxTicks /\ time[r].cached < MaxTicks
      /\ \A k \in AtWork(r) : loop[k].read < MaxTicks
      /\ loop' = [loop EXCEPT ![l].at = "copy", ![l].todo = app.object[r].users]
      /\ UNCHANGED <<frames, time, history>>

Copy(l) ==
  /\ loop[l].at = "copy" /\ loop[l].todo # <<>>
  /\ loop' = [loop EXCEPT ![l].at = "clear",
                          ![l].got = @ \cup frames[loop[l].todo[1]]]
  /\ UNCHANGED <<frames, time, history>>

Cleared(l) == [loop EXCEPT ![l].at = "copy", ![l].todo = Tail(@)]

SlipClearsAll(l) == [c \in Clients |-> {}]
Emptied(l) == [frames EXCEPT ![loop[l].todo[1]] = {}]

Clear(l) ==
  /\ loop[l].at = "clear"
  /\ frames' = Emptied(l)
  /\ loop' = Cleared(l)
  /\ UNCHANGED <<time, history>>

\* r.cacheId++ reads and writes; another loop, or a stop, may come between.
Load(l) ==
  /\ loop[l].at = "copy" /\ loop[l].todo = <<>>
  /\ loop' = [loop EXCEPT ![l].at = "store", ![l].read = time[loop[l].room].cacheId]
  /\ UNCHANGED <<frames, time, history>>

Store(l) ==
  LET r == loop[l].room
  IN  /\ loop[l].at = "store"
      /\ time' = [time EXCEPT ![r] =
                    TimeOf(r, [time[r] EXCEPT !.cacheId = loop[l].read + 1])]
      /\ loop' = [loop EXCEPT ![l].at = "cache", ![l].read = 0]
      /\ UNCHANGED <<frames, history>>

\* What was collected goes into the cache.
Cache(l) ==
  LET r == loop[l].room
  IN  /\ loop[l].at = "cache"
      /\ time' = [time EXCEPT ![r] = TimeOf(r, [time[r] EXCEPT !.cached = @ + 1])]
      /\ history' = [history EXCEPT !.cached = @ \cup loop[l].got]
      /\ loop' = [loop EXCEPT ![l].at = "send", ![l].got = {},
                              ![l].todo = app.object[r].users]
      /\ UNCHANGED frames

\* One member is told the time that it is by now, whoever has counted it on; after
\* the last one the loop sleeps.
Announces(l) == loop[l].at = "send" /\ loop[l].todo # <<>>

Send(l) ==
  /\ loop[l].at = "send"
  /\ loop' = IF Announces(l) THEN [loop EXCEPT ![l].todo = Tail(@)]
             ELSE [loop EXCEPT ![l].at = "wake"]
  /\ UNCHANGED <<frames, time, history>>

LoopStep(l) ==
  /\ UNCHANGED <<vars, uploaded>>
  /\ \/ LoopEnds(l) \/ LoopBegins(l) \/ Copy(l) \/ Clear(l)
     \/ Load(l) \/ Store(l) \/ Cache(l) \/ Send(l)

-----------------------------------------------------------------------------
\* The handlers.

\* A room object that a loop still refers to is not used for another room.
Fresh ==
  \A r \in Rooms :
     app.object[r] = NilRoom /\ app'.object[r] # NilRoom => Running(r) = {}

SlipTimeGoesOn(t, stopped, reset) ==
  [cacheId |-> IF stopped /\ ~reset THEN 0 ELSE t.cacheId,
   cached  |-> IF reset THEN 0 ELSE t.cached]
\* StopFrameSync sets the time back, ResetRoom does that and empties the cache,
\* and another game begins.
TimeAfter(t, stopped, reset) ==
  [cacheId |-> IF stopped THEN 0 ELSE t.cacheId,
   cached  |-> IF reset THEN 0 ELSE t.cached]

\* Somebody comes into a room of the list in which nobody was connected.
Revives(r) ==
  /\ r \in app.rooms /\ app.object[r].frameSync
  /\ Members(app, r) \cap Connected = {} /\ \E c \in Clients : Enters(c, r)

KeepTime(q, stopped, reset) ==
  /\ time' = [r \in Rooms |->
                TimeOf(r, TimeAfter(time[r], stopped /\ r = q, reset /\ r = q))]
  /\ history' = [history EXCEPT
       !.reset = {r \in Rooms : /\ app'.object[r] # NilRoom
                                /\ IF reset /\ r = q THEN Counting(r) # {} ELSE r \in @},
       !.revived = {r \in Rooms : /\ app'.object[r] # NilRoom
                                  /\ (r \in @ /\ ~(stopped /\ r = q)) \/ Revives(r)}]

StartFrameSync(c) ==
  /\ HandleStartFrameSync(c)
  /\ \E l \in Loops :
       /\ loop[l] = NoLoop
       /\ loop' = [loop EXCEPT ![l].at = "wake", ![l].room = app.room[c]]
  /\ history' = [history EXCEPT !.revived = @ \ {app.room[c]}]
  /\ UNCHANGED <<frames, time, uploaded>>

StopSync(c) ==
  /\ \E keepLock \in BOOLEAN : HandleStopFrameSync(c, keepLock)
  /\ KeepTime(app.room[c], TRUE, FALSE)
  /\ UNCHANGED <<loop, frames, uploaded>>

ResetRoom(c) ==
  /\ HandleStopFrameSync(c, FALSE)
  /\ KeepTime(app.room[c], TRUE, TRUE)
  /\ UNCHANGED <<loop, frames, uploaded>>

MayUpload(c) ==
  /\ Handles(c) /\ InRoom(c) /\ app.object[app.room[c]].frameSync
  /\ uploaded < MaxFrames
  /\ uploaded' = uploaded + 1
  /\ UNCHANGED <<app, time>>

Clearing(c) == {l \in Loops : loop[l].at = "clear" /\ loop[l].todo[1] = c}

Exposed(c) == IF Clearing(c) = {} THEN {} ELSE {uploaded + 1}

UploadFrame(c) ==
  /\ MayUpload(c)
  /\ frames' = [frames EXCEPT ![c] = @ \cup {uploaded + 1}]
  /\ history' = [history EXCEPT !.exposed = @ \cup Exposed(c)]
  /\ UNCHANGED loop

\* Array.Push locks and the loop's assignment of an empty list does not: a Push
\* that has read the list before it is emptied, and writes it afterwards, brings
\* back what the loop has copied.
UploadOverClear(c) ==
  /\ MayUpload(c)
  /\ frames' = [frames EXCEPT ![c] = @ \cup {uploaded + 1}]
  /\ \E l \in Clearing(c) : loop' = Cleared(l)
  /\ history' = [history EXCEPT !.exposed = @ \cup Exposed(c)]

\* All the other handlers but those of seats and options.
OtherHandler(c) ==
  \/ JoinHandler(c) \/ HandleMatchRoom(c) \/ HandleMatched(c)
  \/ HandleExitRoom(c) \/ HandleKickOut(c)
  \/ HandleLockRoom(c) \/ HandleUnlockRoom(c)

\* What happens to the rooms besides frames.
Beside ==
  /\ Fresh
  /\ KeepTime(NoRoom, FALSE, FALSE)
  /\ UNCHANGED <<loop, frames, uploaded>>

GoesOut(c) == UserOut(c) /\ Beside

RoomStep(c) == (ConnectionEvent(c) \/ OtherHandler(c)) /\ Beside

FrameInit ==
  /\ Init
  /\ loop = [l \in Loops |-> NoLoop]
  /\ frames = [c \in Clients |-> {}]
  /\ time = [r \in Rooms |-> NewTime]
  /\ uploaded = 0
  /\ history = [cached |-> {}, exposed |-> {}, reset |-> {}, revived |-> {}]

FrameNext ==
  \/ \E l \in Loops : LoopStep(l)
  \/ \E c \in Clients :
       \/ RoomStep(c) \/ GoesOut(c) \/ StartFrameSync(c) \/ StopSync(c) \/ ResetRoom(c)
       \/ UploadFrame(c) \/ UploadOverClear(c)

FrameSpec == FrameInit /\ [][FrameNext]_frameVars

\* A goroutine that can run does, a sleep ends, and the hub has OnUserOut run.
FrameFairness ==
  /\ \A l \in Loops : WF_frameVars(LoopStep(l))
  /\ \A c \in Clients : WF_frameVars(GoesOut(c))

FairFrameSpec == FrameSpec /\ FrameFairness

-----------------------------------------------------------------------------
LoopState == [at : Labels, room : Rooms \cup {NoRoom}, todo : Seq(Clients),
              got : SUBSET (1..MaxFrames), read : Nat]

\* Types; and a goroutine works for a room until it has ended.
FrameTypeOK ==
  /\ loop \in [Loops -> LoopState]
  /\ \A l \in Loops : loop[l].room = NoRoom <=> loop[l].at = "none"
  /\ frames \in [Clients -> SUBSET (1..MaxFrames)]
  /\ time \in [Rooms -> [cacheId : Nat, cached : Nat]]
  /\ uploaded \in 0..MaxFrames
  /\ history \in [cached : SUBSET (1..MaxFrames), exposed : SUBSET (1..MaxFrames),
                  reset : SUBSET Rooms, revived : SUBSET Rooms]

Waiting == UNION ({frames[c] : c \in Clients} \cup {loop[l].got : l \in Loops})

\* Every acknowledged frame waits to be collected, is on its way or has been put
\* into a cache, whoever joins, leaves, stops, resets or runs a second loop
\* meanwhile; but for those uploaded between a loop's copying and clearing.
FramesKept == 1..uploaded \subseteq Waiting \cup history.cached \cup history.exposed

\* The time that a member is told can be asked for (GetFrameAt), whatever stops and
\* restarts do to the unlocked counter: unless the last reset has come between a
\* loop's reading and its writing of the counter, the time announced is beyond the
\* cache by no more than what other loops have counted on without having cached it.
\* With one loop that is nothing; with two, one can announce the other's time
\* before it is cached.
CacheReaches ==
  \A r \in Rooms \ history.reset :
     (\E l \in Running(r) : Announces(l)) =>
        time[r].cacheId <= time[r].cached
                             + Cardinality({l \in Running(r) : loop[l].at = "cache"})

\* A room of the list that is synchronised and has somebody connected has a loop
\* that drives it (since StartFrameSync does nothing when the flag is set, it
\* could not be started again), unless it was entered when nobody in it was
\* connected: between the two steps of their OnUserOut its loop may have ended.
Driven ==
  \A r \in app.rooms \ history.revived :
     app.object[r].frameSync /\ Members(app, r) \cap Connected # {} => Running(r) # {}

\* The goroutine of a room that was stopped, given up or left by all its open
\* connections comes to its end from wherever it is, unless the room is
\* synchronised, or somebody open is in it, once more.
LoopsEnd ==
  \A l \in Loops :
     LET r == loop[l].room
         idle == /\ loop[l].at # "none"
                 /\ \/ app.object[r].users = <<>> \/ ~app.object[r].frameSync
                    \/ \A c \in Members(app, r) : phase[c] # "open"
     IN  idle ~> ~idle
=============================================================================
