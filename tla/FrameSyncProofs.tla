-------------------------- MODULE FrameSyncProofs --------------------------
(***************************************************************************)
(* For any number of clients, rooms and loops: the frame synchronisation   *)
(* changes rooms only as the handlers of Rooms do, and a frame that was    *)
(* acknowledged is not lost on its way into the cache, but for those that  *)
(* are uploaded while a loop stands between copying and clearing.          *)
(***************************************************************************)
EXTENDS FrameSync, RoomsProofs

\* A step beside the loops is one of a handler, a connection or OnUserOut.
LEMMA FrameStepIsStep == [FrameNext]_frameVars => [Next]_vars
<1> SUFFICES ASSUME [FrameNext]_frameVars PROVE [Next]_vars
  OBVIOUS
<1>1. ASSUME NEW l \in Loops, LoopStep(l) PROVE UNCHANGED vars
  BY <1>1 DEF LoopStep
<1>2. ASSUME NEW c \in Clients,
             \/ RoomStep(c) \/ GoesOut(c) \/ StartFrameSync(c) \/ StopSync(c) \/ ResetRoom(c)
      PROVE  Next
  <2>1. CASE RoomStep(c)
    BY <1>2, <2>1 DEF RoomStep, OtherHandler, Next, RoomHandler, MemberHandler
  <2>2. CASE GoesOut(c)
    BY <2>2 DEF GoesOut, Next
  <2>3. CASE StartFrameSync(c) \/ StopSync(c) \/ ResetRoom(c)
    <3>1. HandleStartFrameSync(c) \/ \E keepLock \in BOOLEAN : HandleStopFrameSync(c, keepLock)
      BY <2>3 DEF StartFrameSync, StopSync, ResetRoom
    <3> QED BY <3>1 DEF Next, RoomHandler, MemberHandler
  <2> QED BY <1>2, <2>1, <2>2, <2>3
<1>3. ASSUME NEW c \in Clients, UploadFrame(c) \/ UploadOverClear(c) PROVE UNCHANGED vars
  BY <1>3 DEF UploadFrame, UploadOverClear, MayUpload, Handles, vars
<1>4. CASE UNCHANGED frameVars
  BY <1>4 DEF frameVars
<1> QED BY <1>1, <1>2, <1>3, <1>4 DEF FrameNext

\* What is proved of Rooms holds of the rooms whose frames are synchronised.
LEMMA FrameSpecIsSpec == FrameSpec => Spec
<1>1. FrameInit => Init
  BY DEF FrameInit
<1> QED BY <1>1, FrameStepIsStep, PTL DEF FrameSpec, Spec

-----------------------------------------------------------------------------
(***************************************************************************)
(* A loop that sleeps has put all it had into the cache; one that is about *)
(* to clear a client's list has everything that is in it, but for what was *)
(* uploaded since it copied the list.                                      *)
(***************************************************************************)
CarriesWhatItClears ==
  \A l \in Loops :
     /\ loop[l].at \in {"none", "wake", "send"} => loop[l].got = {}
     /\ loop[l].at = "clear" =>
          /\ loop[l].todo # <<>>
          /\ frames[loop[l].todo[1]] \subseteq loop[l].got \cup history.exposed

FrameInv == FrameTypeOK /\ CarriesWhatItClears /\ FramesKept

LEMMA KeptIn ==
  FramesKept <=>
    \A n \in 1..uploaded :
       \/ \E c \in Clients : n \in frames[c]
       \/ \E l \in Loops : n \in loop[l].got
       \/ n \in history.cached \/ n \in history.exposed
BY DEF FramesKept, Waiting

LEMMA TimeTyped ==
  ASSUME NEW r \in Rooms, NEW t \in [cacheId : Nat, cached : Nat]
  PROVE  TimeOf(r, t) \in [cacheId : Nat, cached : Nat]
BY DEF TimeOf, NewTime

LEMMA FrameInitInv == FrameInit => FrameInv
<1> SUFFICES ASSUME FrameInit PROVE FrameInv
  OBVIOUS
<1>1. /\ loop = [l \in Loops |-> NoLoop] /\ frames = [c \in Clients |-> {}]
      /\ time = [r \in Rooms |-> NewTime] /\ uploaded = 0
      /\ history = [cached |-> {}, exposed |-> {}, reset |-> {}, revived |-> {}]
  BY DEF FrameInit
<1>2. NoLoop \in LoopState
  BY DEF NoLoop, LoopState, Labels
<1>3. FrameTypeOK
  <2>1. loop \in [Loops -> LoopState]
    BY <1>1, <1>2
  <2>2. \A l \in Loops : loop[l].room = NoRoom <=> loop[l].at = "none"
    BY <1>1 DEF NoLoop
  <2>3. 0 \in 0..MaxFrames
    BY FrameBoundsAssumption
  <2>4. time \in [Rooms -> [cacheId : Nat, cached : Nat]]
    BY <1>1 DEF NewTime
  <2> QED BY <1>1, <2>1, <2>2, <2>3, <2>4 DEF FrameTypeOK
<1>4. CarriesWhatItClears
  BY <1>1 DEF CarriesWhatItClears, NoLoop
<1>5. FramesKept
  BY <1>1 DEF FramesKept
<1> QED BY <1>3, <1>4, <1>5 DEF FrameInv

\* A loop goes on for its room, and the frames of the members stay as they are.
LEMMA LoopGoesOn ==
  ASSUME FrameInv, NEW l \in Loops, NEW L \in LoopState,
         loop' = [loop EXCEPT ![l] = L],
         L.room = NoRoom <=> L.at = "none",
         time' \in [Rooms -> [cacheId : Nat, cached : Nat]],
         uploaded' = uploaded, history'.exposed = history.exposed,
         history' \in [cached : SUBSET (1..MaxFrames), exposed : SUBSET (1..MaxFrames),
                       reset : SUBSET Rooms, revived : SUBSET Rooms],
         frames' \in [Clients -> SUBSET (1..MaxFrames)],
         \A c \in Clients : frames'[c] \subseteq frames[c],
         L.at \in {"none", "wake", "send"} => L.got = {},
         L.at = "clear" =>
           /\ L.todo # <<>>
           /\ frames'[L.todo[1]] \subseteq L.got \cup history.exposed,
         history.cached \subseteq history'.cached,
         loop[l].got \subseteq L.got \cup history'.cached,
         \A c \in Clients : frames[c] \subseteq frames'[c] \cup L.got \cup history.exposed
  PROVE  FrameInv'
<1>1. FrameTypeOK /\ CarriesWhatItClears /\ FramesKept /\ loop \in [Loops -> LoopState]
  BY DEF FrameInv, FrameTypeOK
<1>2. loop'[l] = L /\ \A k \in Loops : k # l => loop'[k] = loop[k]
  BY <1>1
<1>3. FrameTypeOK'
  BY <1>1, <1>2 DEF FrameTypeOK
<1>4. CarriesWhatItClears'
  <2> SUFFICES ASSUME NEW k \in Loops
               PROVE  /\ loop'[k].at \in {"none", "wake", "send"} => loop'[k].got = {}
                      /\ loop'[k].at = "clear" =>
                           /\ loop'[k].todo # <<>>
                           /\ frames'[loop'[k].todo[1]]
                                \subseteq loop'[k].got \cup history'.exposed
    BY DEF CarriesWhatItClears
  <2>1. CASE k = l
    BY <1>2, <2>1
  <2>2. CASE k # l
    <3>1. loop'[k] = loop[k] /\ loop[k] \in LoopState
      BY <1>1, <1>2, <2>2
    <3>2. loop[k].at = "clear" => loop[k].todo[1] \in Clients
      BY <1>1, <3>1 DEF CarriesWhatItClears, LoopState
    <3> QED BY <1>1, <3>1, <3>2 DEF CarriesWhatItClears
  <2> QED BY <2>1, <2>2
<1>5. FramesKept'
  <2> SUFFICES ASSUME NEW n \in 1..uploaded
               PROVE  \/ \E c \in Clients : n \in frames'[c]
                      \/ \E k \in Loops : n \in loop'[k].got
                      \/ n \in history'.cached \/ n \in history'.exposed
    BY DEF FramesKept, Waiting
  <2>1. CASE \E c \in Clients : n \in frames[c]
    BY <1>2, <2>1
  <2>2. CASE \E k \in Loops : n \in loop[k].got
    <3>1. PICK k \in Loops : n \in loop[k].got
      BY <2>2
    <3> QED BY <1>2, <3>1
  <2> QED BY <1>1, <2>1, <2>2, KeptIn
<1> QED BY <1>3, <1>4, <1>5 DEF FrameInv

LEMMA LoopStepInv ==
  ASSUME TypeOK, FrameInv, NEW l \in Loops, LoopStep(l)
  PROVE  FrameInv'
<1> DEFINE Times == [Rooms -> [cacheId : Nat, cached : Nat]]
           Histories == [cached : SUBSET (1..MaxFrames), exposed : SUBSET (1..MaxFrames),
                         reset : SUBSET Rooms, revived : SUBSET Rooms]
<1>1. /\ FrameTypeOK /\ CarriesWhatItClears /\ FramesKept
      /\ loop \in [Loops -> LoopState] /\ loop[l] \in LoopState
      /\ frames \in [Clients -> SUBSET (1..MaxFrames)]
      /\ time \in Times /\ history \in Histories
      /\ loop[l].room = NoRoom <=> loop[l].at = "none"
      /\ uploaded' = uploaded
  BY DEF FrameInv, FrameTypeOK, LoopStep
<1>2. /\ loop[l].at \in {"none", "wake", "send"} => loop[l].got = {}
      /\ loop[l].at = "clear" =>
           /\ loop[l].todo # <<>>
           /\ frames[loop[l].todo[1]] \subseteq loop[l].got \cup history.exposed
  BY <1>1 DEF CarriesWhatItClears
<1>3. CASE LoopEnds(l)
  <2>1. loop' = [loop EXCEPT ![l] = NoLoop] /\ UNCHANGED <<frames, time, history>>
    BY <1>3 DEF LoopEnds
  <2>2. NoLoop \in LoopState /\ NoLoop.at = "none" /\ NoLoop.room = NoRoom /\ NoLoop.got = {}
    BY DEF NoLoop, LoopState, Labels
  <2>3. loop[l].got = {}
    BY <1>2, <1>3 DEF LoopEnds
  <2> HIDE DEF Times, Histories
  <2> QED BY <1>1, <2>1, <2>2, <2>3, LoopGoesOn DEF Times, Histories
<1>4. CASE LoopBegins(l)
  <2> DEFINE r == loop[l].room
             L == [loop[l] EXCEPT !.at = "copy", !.todo = app.object[r].users]
  <2>1. loop' = [loop EXCEPT ![l] = L] /\ UNCHANGED <<frames, time, history>>
    BY <1>1, <1>4 DEF LoopBegins
  <2>2. r \in Rooms
    BY <1>1, <1>4 DEF LoopBegins, LoopState
  <2>3. app.object[r].users \in Seq(Clients)
    BY <2>2 DEF TypeOK, AppState, RoomObject
  <2>4. /\ L \in LoopState /\ L.at = "copy" /\ L.room = loop[l].room /\ L.got = loop[l].got
    BY <1>1, <2>3 DEF LoopState, Labels
  <2>5. L.room # NoRoom
    BY <2>2, <2>4, SentinelsAssumption
  <2> HIDE DEF L
  <2> QED BY <1>1, <2>1, <2>4, <2>5, LoopGoesOn
<1>5. CASE Copy(l)
  <2> DEFINE c == loop[l].todo[1]
             L == [loop[l] EXCEPT !.at = "clear", !.got = @ \cup frames[c]]
  <2>1. /\ loop' = [loop EXCEPT ![l] = L] /\ UNCHANGED <<frames, time, history>>
        /\ loop[l].at = "copy" /\ loop[l].todo # <<>>
    BY <1>1, <1>5 DEF Copy
  <2>2. c \in Clients
    BY <1>1, <2>1 DEF LoopState
  <2>3. /\ L \in LoopState /\ L.at = "clear" /\ L.room = loop[l].room
        /\ L.todo = loop[l].todo /\ L.got = loop[l].got \cup frames[c]
    BY <1>1, <2>2 DEF LoopState, Labels
  <2> HIDE DEF L
  <2> QED BY <1>1, <2>1, <2>2, <2>3, LoopGoesOn
<1>6. CASE Clear(l)
  <2> DEFINE c == loop[l].todo[1]
             L == [loop[l] EXCEPT !.at = "copy", !.todo = Tail(@)]
  <2>1. /\ loop' = [loop EXCEPT ![l] = L] /\ UNCHANGED <<time, history>>
        /\ frames' = [frames EXCEPT ![c] = {}] /\ loop[l].at = "clear"
    BY <1>1, <1>6 DEF Clear, Cleared, Emptied
  <2>2. loop[l].todo # <<>> /\ c \in Clients /\ Tail(loop[l].todo) \in Seq(Clients)
    BY <1>1, <1>2, <2>1 DEF LoopState
  <2>3. /\ L \in LoopState /\ L.at = "copy" /\ L.room = loop[l].room
        /\ L.got = loop[l].got
    BY <1>1, <2>2 DEF LoopState, Labels
  <2>4. /\ \A d \in Clients : d # c => frames'[d] = frames[d]
        /\ frames'[c] = {} /\ frames[c] \subseteq L.got \cup history.exposed
        /\ frames' \in [Clients -> SUBSET (1..MaxFrames)]
    BY <1>1, <1>2, <2>1, <2>2, <2>3
  <2>5. \A d \in Clients : /\ frames'[d] \subseteq frames[d]
                           /\ frames[d] \subseteq frames'[d] \cup L.got \cup history.exposed
    BY <2>4
  <2> HIDE DEF L
  <2> QED BY <1>1, <2>1, <2>3, <2>4, <2>5, LoopGoesOn
<1>7. CASE Load(l)
  <2> DEFINE n == time[loop[l].room].cacheId
             L == [loop[l] EXCEPT !.at = "store", !.read = n]
  <2>1. /\ loop' = [loop EXCEPT ![l] = L] /\ UNCHANGED <<frames, time, history>>
        /\ loop[l].at = "copy"
    BY <1>1, <1>7 DEF Load
  <2>2. n \in Nat
    BY <1>1, <2>1 DEF LoopState
  <2>3. /\ L \in LoopState /\ L.at = "store" /\ L.room = loop[l].room
        /\ L.got = loop[l].got
    BY <1>1, <2>2 DEF LoopState, Labels
  <2> HIDE DEF L
  <2> QED BY <1>1, <2>1, <2>3, LoopGoesOn
<1>8. CASE Store(l)
  <2> DEFINE r == loop[l].room
             L == [loop[l] EXCEPT !.at = "cache", !.read = 0]
             t == [time[r] EXCEPT !.cacheId = loop[l].read + 1]
  <2>1. /\ loop' = [loop EXCEPT ![l] = L] /\ UNCHANGED <<frames, history>>
        /\ loop[l].at = "store" /\ time' = [time EXCEPT ![r] = TimeOf(r, t)]
    BY <1>1, <1>8 DEF Store
  <2>2. /\ L \in LoopState /\ L.at = "cache" /\ L.room = loop[l].room
        /\ L.got = loop[l].got
    BY <1>1 DEF LoopState, Labels
  <2>3. r \in Rooms
    BY <1>1, <2>1 DEF LoopState
  <2>4. loop[l].read + 1 \in Nat
    BY <1>1 DEF LoopState
  <2>5. t \in [cacheId : Nat, cached : Nat]
    BY <1>1, <2>3, <2>4
  <2> HIDE DEF L, t
  <2>6. time' \in Times
    BY <1>1, <2>1, <2>3, <2>5, TimeTyped
  <2> QED BY <1>1, <2>1, <2>2, <2>6, LoopGoesOn
<1>9. CASE Cache(l)
  <2> DEFINE r == loop[l].room
             L == [loop[l] EXCEPT !.at = "send", !.got = {}, !.todo = app.object[r].users]
             t == [time[r] EXCEPT !.cached = @ + 1]
             h == [history EXCEPT !.cached = @ \cup loop[l].got]
  <2>1. /\ loop' = [loop EXCEPT ![l] = L] /\ frames' = frames /\ history' = h
        /\ loop[l].at = "cache" /\ time' = [time EXCEPT ![r] = TimeOf(r, t)]
    <3>1. loop' = [loop EXCEPT ![l] = L]
      BY <1>1, <1>9 DEF Cache
    <3>2. history' = h
      BY <1>1, <1>9 DEF Cache
    <3>3. time' = [time EXCEPT ![r] = TimeOf(r, t)]
      BY <1>9 DEF Cache
    <3> QED BY <1>9, <3>1, <3>2, <3>3 DEF Cache
  <2>3. r \in Rooms
    BY <1>1, <2>1 DEF LoopState
  <2>2. L \in LoopState /\ L.at = "send" /\ L.room = loop[l].room /\ L.got = {}
    <3>1. app.object[r].users \in Seq(Clients)
      BY <2>3 DEF TypeOK, AppState, RoomObject
    <3> QED BY <1>1, <3>1 DEF LoopState, Labels
  <2>6. t \in [cacheId : Nat, cached : Nat]
    <3>1. time[r] \in [cacheId : Nat, cached : Nat]
      BY <1>1, <2>3
    <3>2. time[r].cached + 1 \in Nat
      BY <3>1
    <3> QED BY <3>1, <3>2
  <2>4. /\ h \in Histories /\ h.exposed = history.exposed
        /\ h.cached = history.cached \cup loop[l].got
    BY <1>1 DEF LoopState
  <2> HIDE DEF L, t, h
  <2>5. time' \in Times
    BY <1>1, <2>1, <2>3, <2>6, TimeTyped
  <2> QED BY <1>1, <2>1, <2>2, <2>4, <2>5, LoopGoesOn
<1>10. CASE Send(l)
  <2> PICK L : L = IF Announces(l) THEN [loop[l] EXCEPT !.todo = Tail(@)]
                   ELSE [loop[l] EXCEPT !.at = "wake"]
    OBVIOUS
  <2>1. /\ loop' = [loop EXCEPT ![l] = L] /\ UNCHANGED <<frames, time, history>>
        /\ loop[l].at = "send"
    BY <1>1, <1>10 DEF Send
  <2>2. loop[l].todo # <<>> => Tail(loop[l].todo) \in Seq(Clients)
    BY <1>1 DEF LoopState
  <2>3. /\ L \in LoopState /\ L.at \in {"wake", "send"} /\ L.room = loop[l].room
        /\ L.got = loop[l].got
    <3>1. CASE Announces(l)
      BY <1>1, <2>1, <2>2, <3>1 DEF LoopState, Announces
    <3>2. CASE ~Announces(l)
      BY <1>1, <3>2 DEF LoopState, Labels
    <3> QED BY <3>1, <3>2
  <2>4. loop[l].got = {}
    BY <1>2, <2>1
  <2> QED BY <1>1, <2>1, <2>3, <2>4, LoopGoesOn
<1> QED BY <1>3, <1>4, <1>5, <1>6, <1>7, <1>8, <1>9, <1>10 DEF LoopStep

-----------------------------------------------------------------------------
\* What handlers do to the time, and what of the frames they leave alone.

LEMMA KeepTimeTyped ==
  ASSUME FrameInv, NEW q, NEW stopped \in BOOLEAN, NEW reset \in BOOLEAN,
         KeepTime(q, stopped, reset), UNCHANGED <<loop, frames, uploaded>>
  PROVE  FrameInv'
<1>1. FrameTypeOK /\ CarriesWhatItClears /\ FramesKept
  BY DEF FrameInv
<1>2. /\ history'.cached = history.cached /\ history'.exposed = history.exposed
      /\ history' \in [cached : SUBSET (1..MaxFrames), exposed : SUBSET (1..MaxFrames),
                       reset : SUBSET Rooms, revived : SUBSET Rooms]
  BY <1>1 DEF FrameTypeOK, KeepTime
<1>3. time' \in [Rooms -> [cacheId : Nat, cached : Nat]]
  <2>1. \A r \in Rooms :
          TimeAfter(time[r], stopped /\ r = q, reset /\ r = q)
            \in [cacheId : Nat, cached : Nat]
    BY <1>1 DEF FrameTypeOK, TimeAfter
  <2> QED BY <2>1, TimeTyped DEF KeepTime
<1>4. FrameTypeOK'
  BY <1>1, <1>2, <1>3 DEF FrameTypeOK
<1>5. CarriesWhatItClears'
  BY <1>1, <1>2 DEF CarriesWhatItClears
<1>6. FramesKept'
  BY <1>1, <1>2 DEF FramesKept, Waiting
<1> QED BY <1>4, <1>5, <1>6 DEF FrameInv

LEMMA UploadInv ==
  ASSUME FrameInv, NEW c \in Clients, UploadFrame(c) \/ UploadOverClear(c)
  PROVE  FrameInv'
<1> DEFINE n == uploaded + 1
<1>1. /\ FrameTypeOK /\ CarriesWhatItClears /\ FramesKept
      /\ loop \in [Loops -> LoopState]
      /\ frames \in [Clients -> SUBSET (1..MaxFrames)]
      /\ uploaded \in 0..MaxFrames
  BY DEF FrameInv, FrameTypeOK
<1>2. /\ uploaded' = n /\ n \in 1..MaxFrames /\ time' = time
      /\ frames' = [frames EXCEPT ![c] = @ \cup {n}]
      /\ history' = [history EXCEPT !.exposed = @ \cup Exposed(c)]
  BY <1>1, FrameBoundsAssumption DEF UploadFrame, UploadOverClear, MayUpload
<1>3. Exposed(c) \subseteq 1..MaxFrames /\ (Clearing(c) # {} => n \in Exposed(c))
  BY <1>2 DEF Exposed
<1>4. /\ history'.cached = history.cached
      /\ history'.exposed = history.exposed \cup Exposed(c)
      /\ history' \in [cached : SUBSET (1..MaxFrames), exposed : SUBSET (1..MaxFrames),
                       reset : SUBSET Rooms, revived : SUBSET Rooms]
  BY <1>1, <1>2, <1>3 DEF FrameTypeOK
<1>5. /\ loop' \in [Loops -> LoopState]
      /\ \A l \in Loops :
           /\ loop'[l].got = loop[l].got /\ loop'[l].room = loop[l].room
           /\ loop'[l] = loop[l] \/ (loop[l].at = "clear" /\ loop'[l].at = "copy")
  <2>1. CASE UploadFrame(c)
    BY <1>1, <2>1 DEF UploadFrame
  <2>2. CASE UploadOverClear(c)
    <3>1. PICK l \in Clearing(c) : loop' = Cleared(l)
      BY <2>2 DEF UploadOverClear
    <3> DEFINE L == [loop[l] EXCEPT !.at = "copy", !.todo = Tail(@)]
    <3>2. l \in Loops /\ loop[l].at = "clear" /\ loop' = [loop EXCEPT ![l] = L]
      BY <1>1, <3>1 DEF Clearing, Cleared
    <3>3. Tail(loop[l].todo) \in Seq(Clients)
      BY <1>1, <3>2 DEF CarriesWhatItClears, LoopState
    <3>4. /\ L \in LoopState /\ L.at = "copy" /\ L.got = loop[l].got
          /\ L.room = loop[l].room
      BY <1>1, <3>2, <3>3 DEF LoopState, Labels
    <3> HIDE DEF L
    <3> QED BY <1>1, <3>2, <3>4
  <2> QED BY <2>1, <2>2
<1>6. FrameTypeOK'
  <2>1. frames' \in [Clients -> SUBSET (1..MaxFrames)] /\ uploaded' \in 0..MaxFrames
    BY <1>1, <1>2
  <2>2. \A l \in Loops : loop'[l].room = NoRoom <=> loop'[l].at = "none"
    BY <1>1, <1>5 DEF FrameTypeOK
  <2> QED BY <1>1, <1>2, <1>4, <1>5, <2>1, <2>2 DEF FrameTypeOK
<1>7. CarriesWhatItClears'
  <2> SUFFICES ASSUME NEW l \in Loops
               PROVE  /\ loop'[l].at \in {"none", "wake", "send"} => loop'[l].got = {}
                      /\ loop'[l].at = "clear" =>
                           /\ loop'[l].todo # <<>>
                           /\ frames'[loop'[l].todo[1]]
                                \subseteq loop'[l].got \cup history'.exposed
    BY DEF CarriesWhatItClears
  <2>1. loop'[l].at \in {"none", "wake", "send"} => loop'[l].got = {}
    BY <1>1, <1>5 DEF CarriesWhatItClears
  <2>2. ASSUME loop'[l].at = "clear"
        PROVE  /\ loop'[l].todo # <<>>
               /\ frames'[loop'[l].todo[1]] \subseteq loop'[l].got \cup history'.exposed
    <3>1. loop'[l] = loop[l] /\ loop[l].at = "clear"
      BY <1>5, <2>2
    <3>2. /\ loop[l].todo # <<>>
          /\ frames[loop[l].todo[1]] \subseteq loop[l].got \cup history.exposed
      BY <1>1, <3>1 DEF CarriesWhatItClears
    <3>3. CASE loop[l].todo[1] = c
      <4>1. n \in Exposed(c)
        BY <1>3, <3>1, <3>3 DEF Clearing
      <4> QED BY <1>1, <1>2, <1>4, <3>1, <3>2, <3>3, <4>1
    <3>4. CASE loop[l].todo[1] # c
      <4>1. frames'[loop[l].todo[1]] = frames[loop[l].todo[1]]
        <5>1. loop[l].todo[1] \in Clients
          BY <1>1, <3>2 DEF LoopState
        <5> QED BY <1>1, <1>2, <3>4, <5>1
      <4> QED BY <1>4, <3>1, <3>2, <4>1
    <3> QED BY <3>3, <3>4
  <2> QED BY <2>1, <2>2
<1>8. FramesKept'
  <2> SUFFICES ASSUME NEW m \in 1..n
               PROVE  \/ \E d \in Clients : m \in frames'[d]
                      \/ \E l \in Loops : m \in loop'[l].got
                      \/ m \in history'.cached \/ m \in history'.exposed
    BY <1>2 DEF FramesKept, Waiting
  <2>1. \A d \in Clients : frames[d] \subseteq frames'[d]
    BY <1>1, <1>2
  <2>2. CASE m = n
    BY <1>1, <1>2, <2>2
  <2>3. CASE m # n
    <3>1. m \in 1..uploaded
      BY <1>1, <2>3
    <3> QED BY <1>1, <1>4, <1>5, <2>1, <3>1, KeptIn
  <2> QED BY <2>2, <2>3
<1> QED BY <1>6, <1>7, <1>8 DEF FrameInv

LEMMA StartInv ==
  ASSUME TypeOK, FrameInv, NEW c \in Clients, StartFrameSync(c)
  PROVE  FrameInv'
<1>1. PICK l \in Loops : /\ loop[l] = NoLoop
                         /\ loop' = [loop EXCEPT ![l].at = "wake", ![l].room = app.room[c]]
  BY DEF StartFrameSync
<1> DEFINE L == [loop[l] EXCEPT !.at = "wake", !.room = app.room[c]]
<1>2. /\ loop \in [Loops -> LoopState] /\ loop[l] \in LoopState
      /\ frames \in [Clients -> SUBSET (1..MaxFrames)]
      /\ time \in [Rooms -> [cacheId : Nat, cached : Nat]]
      /\ history \in [cached : SUBSET (1..MaxFrames), exposed : SUBSET (1..MaxFrames),
                      reset : SUBSET Rooms, revived : SUBSET Rooms]
  BY DEF FrameInv, FrameTypeOK
<1>3. app.room[c] \in Rooms
  BY DEF StartFrameSync, HandleStartFrameSync, IsMaster, InRoom, TypeOK, AppState
<1>4. /\ loop' = [loop EXCEPT ![l] = L] /\ UNCHANGED <<frames, time, uploaded>>
      /\ history' = [history EXCEPT !.revived = @ \ {app.room[c]}]
  BY <1>1, <1>2 DEF StartFrameSync
<1>6. /\ history'.cached = history.cached /\ history'.exposed = history.exposed
      /\ history' \in [cached : SUBSET (1..MaxFrames), exposed : SUBSET (1..MaxFrames),
                       reset : SUBSET Rooms, revived : SUBSET Rooms]
  BY <1>2, <1>4
<1>5. /\ L \in LoopState /\ L.at = "wake" /\ L.room \in Rooms
      /\ L.got = {} /\ loop[l].got = {}
  <2>1. L.at = "wake" /\ L.room = app.room[c]
    BY <1>2 DEF LoopState
  <2>2. L \in LoopState
    BY <1>2, <1>3 DEF LoopState, Labels
  <2>3. L.got = loop[l].got
    BY <1>2 DEF LoopState
  <2>4. loop[l].got = {}
    BY <1>1 DEF NoLoop
  <2> QED BY <1>3, <2>1, <2>2, <2>3, <2>4
<1> HIDE DEF L
<1> QED BY <1>2, <1>4, <1>5, <1>6, SentinelsAssumption, LoopGoesOn

-----------------------------------------------------------------------------
LEMMA FrameStepInv == TypeOK /\ FrameInv /\ [FrameNext]_frameVars => FrameInv'
<1> SUFFICES ASSUME TypeOK, FrameInv, [FrameNext]_frameVars PROVE FrameInv'
  OBVIOUS
<1>1. ASSUME NEW l \in Loops, LoopStep(l) PROVE FrameInv'
  BY <1>1, LoopStepInv
<1>2. ASSUME NEW c \in Clients, RoomStep(c) \/ GoesOut(c) PROVE FrameInv'
  BY <1>2, KeepTimeTyped DEF RoomStep, GoesOut, Beside
<1>3. ASSUME NEW c \in Clients, StopSync(c) \/ ResetRoom(c) PROVE FrameInv'
  BY <1>3, KeepTimeTyped DEF StopSync, ResetRoom
<1>4. ASSUME NEW c \in Clients, StartFrameSync(c) PROVE FrameInv'
  BY <1>4, StartInv
<1>5. ASSUME NEW c \in Clients, UploadFrame(c) \/ UploadOverClear(c) PROVE FrameInv'
  BY <1>5, UploadInv
<1>6. CASE UNCHANGED frameVars
  BY <1>6 DEF frameVars, FrameInv, FrameTypeOK, CarriesWhatItClears, FramesKept, Waiting
<1> QED BY <1>1, <1>2, <1>3, <1>4, <1>5, <1>6 DEF FrameNext

LEMMA FrameInvariance == FrameSpec => []FrameInv
<1>1. FrameSpec => []TypeOK
  BY FrameSpecIsSpec, TypeCorrect
<1> QED BY <1>1, FrameInitInv, FrameStepInv, PTL DEF FrameSpec

\* However many loops run, and whatever handlers do between their steps: the loops
\* keep their types, and one that runs has a room to run for.
THEOREM FrameTypesCorrect == FrameSpec => []FrameTypeOK
<1>1. FrameInv => FrameTypeOK
  BY DEF FrameInv
<1> QED BY <1>1, FrameInvariance, PTL

\* An acknowledged frame waits with its client, is on its way with a loop, or has
\* been in a cache, unless it came between a loop's copying and its clearing.
THEOREM NoFrameLost == FrameSpec => []FramesKept
<1>1. FrameInv => FramesKept
  BY DEF FrameInv
<1> QED BY <1>1, FrameInvariance, PTL

\* The frame synchronisation keeps what is proved of rooms and logins: members and
\* rooms agree, ids are not shared, the master is a member.
THEOREM FramesKeepRooms ==
  FrameSpec => [](Membership /\ RoomIdsConserved /\ MasterIsMember)
BY FrameSpecIsSpec, MembershipAgrees, RoomIdsNeverShared, MasterAmongMembers, PTL

-----------------------------------------------------------------------------
(***************************************************************************)
(* The time of a room and its cache.  What loops have announced and not    *)
(* cached yet counts as cached; a loop that is about to write the time     *)
(* writes at most one more than that.  A room nobody refers to has no      *)
(* time, and keeps none for the next one.                                  *)
(***************************************************************************)
Caching(r) == {l \in Running(r) : loop[l].at = "cache"}

Ready(r) == time[r].cached + Cardinality(Caching(r))

InTime(r) ==
  /\ time[r].cacheId <= Ready(r)
  /\ \A l \in Running(r) : loop[l].at = "store" => loop[l].read <= Ready(r)

TimeInv ==
  \A r \in Rooms :
     /\ app.object[r] = NilRoom => time[r] = NewTime
     /\ r \notin history.reset /\ app.object[r] # NilRoom => InTime(r)

LEMMA ReadyType ==
  ASSUME FrameTypeOK, NEW r \in Rooms
  PROVE  /\ time[r] \in [cacheId : Nat, cached : Nat]
         /\ IsFiniteSet(Caching(r)) /\ Cardinality(Caching(r)) \in Nat /\ Ready(r) \in Nat
<1>1. Caching(r) \in SUBSET Loops
  BY DEF Caching, Running
<1>2. IsFiniteSet(Caching(r)) /\ Cardinality(Caching(r)) \in Nat
  BY <1>1, FrameBoundsAssumption, FS_Subset, FS_CardinalityType
<1>3. time[r] \in [cacheId : Nat, cached : Nat]
  BY DEF FrameTypeOK
<1> QED BY <1>2, <1>3 DEF Ready

\* A step that leaves the time of the room alone, and all loops at "store" and at
\* "cache" where they are.
LEMMA InTimeKept ==
  ASSUME NEW r \in Rooms, InTime(r), time'[r] = time[r], Caching(r)' = Caching(r),
         \A l \in Running(r)' : loop'[l].at = "store" =>
             l \in Running(r) /\ loop[l].at = "store" /\ loop'[l].read = loop[l].read
  PROVE  InTime(r)'
<1>1. Ready(r)' = Ready(r)
  BY DEF Ready
<1> QED BY <1>1 DEF InTime

LEMMA LoopStepTime ==
  ASSUME FrameTypeOK, TimeInv, NEW l \in Loops, LoopStep(l)
  PROVE  TimeInv'
<1>1. /\ loop \in [Loops -> LoopState] /\ loop[l] \in LoopState /\ app' = app
      /\ loop[l].room = NoRoom <=> loop[l].at = "none"
      /\ time \in [Rooms -> [cacheId : Nat, cached : Nat]]
      /\ history \in [cached : SUBSET (1..MaxFrames), exposed : SUBSET (1..MaxFrames),
                       reset : SUBSET Rooms, revived : SUBSET Rooms]
  BY DEF FrameTypeOK, LoopStep, vars
<1>2. ASSUME UNCHANGED <<time, history>>,
             \A r \in Rooms : InTime(r) => InTime(r)'
      PROVE  TimeInv'
  BY <1>1, <1>2 DEF TimeInv
<1>3. CASE LoopEnds(l)
  <2>1. loop'[l] = NoLoop /\ \A k \in Loops \ {l} : loop'[k] = loop[k]
    BY <1>1, <1>3 DEF LoopEnds
  <2>2. \A r \in Rooms : Caching(r)' = Caching(r)
    BY <1>3, <2>1, SentinelsAssumption DEF LoopEnds, Caching, Running, NoLoop
  <2>3. \A r \in Rooms : \A k \in Running(r)' : k \in Running(r) /\ loop'[k] = loop[k]
    BY <2>1, SentinelsAssumption DEF Running, NoLoop
  <2> QED BY <1>2, <1>3, <2>2, <2>3, InTimeKept DEF LoopEnds
<1>4. ASSUME loop[l].at \in {"wake", "copy", "clear"},
             loop'[l].at \in {"copy", "clear"}, loop'[l].room = loop[l].room,
             \A k \in Loops \ {l} : loop'[k] = loop[k], UNCHANGED <<time, history>>
      PROVE  TimeInv'
  <2>1. \A r \in Rooms : Caching(r)' = Caching(r)
    BY <1>4 DEF Caching, Running
  <2>2. ASSUME NEW r \in Rooms, NEW k \in Running(r)', loop'[k].at = "store"
        PROVE  k \in Running(r) /\ loop'[k] = loop[k]
    BY <1>4, <2>2 DEF Running
  <2> QED BY <1>2, <1>4, <2>1, <2>2, InTimeKept
<1>5. CASE LoopBegins(l)
  BY <1>1, <1>4, <1>5 DEF LoopBegins, LoopState
<1>6. CASE Copy(l)
  BY <1>1, <1>4, <1>6 DEF Copy, LoopState
<1>7. CASE Clear(l)
  BY <1>1, <1>4, <1>7 DEF Clear, Cleared, LoopState
<1>8. CASE Load(l)
  <2>1. /\ loop[l].at = "copy" /\ loop'[l].at = "store" /\ loop'[l].room = loop[l].room
        /\ loop'[l].read = time[loop[l].room].cacheId
        /\ \A k \in Loops \ {l} : loop'[k] = loop[k]
    BY <1>1, <1>8 DEF Load, LoopState
  <2>2. ASSUME NEW r \in Rooms, InTime(r)
        PROVE  InTime(r)'
    <3>1. Caching(r)' = Caching(r) /\ time' = time
      BY <1>8, <2>1 DEF Load, Caching, Running
    <3>2. Ready(r)' = Ready(r)
      BY <3>1 DEF Ready
    <3>3. ASSUME NEW k \in Running(r)', loop'[k].at = "store"
          PROVE  loop'[k].read <= Ready(r)
      <4>1. CASE k = l
        BY <2>1, <2>2, <3>3, <4>1 DEF InTime, Running
      <4>2. CASE k # l
        BY <2>1, <2>2, <3>3, <4>2 DEF InTime, Running
      <4> QED BY <4>1, <4>2
    <3> QED BY <2>2, <3>1, <3>2, <3>3 DEF InTime
  <2> QED BY <1>2, <1>8, <2>2 DEF Load
<1>9. CASE Store(l)
  <2> PICK r : r = loop[l].room
    OBVIOUS
  <2>1. /\ r \in Rooms /\ loop[l].at = "store" /\ loop[l].read \in Nat /\ history' = history
        /\ loop'[l].at = "cache" /\ loop'[l].room = r
        /\ \A k \in Loops \ {l} : loop'[k] = loop[k]
        /\ time' = [time EXCEPT ![r] = TimeOf(r, [time[r] EXCEPT !.cacheId = loop[l].read + 1])]
    BY <1>1, <1>9 DEF Store, LoopState
  <2>2. ASSUME NEW q \in Rooms, q # r PROVE Caching(q)' = Caching(q) /\ time'[q] = time[q]
    BY <1>1, <2>1, <2>2 DEF Caching, Running
  <2>3. ASSUME NEW q \in Rooms, q # r, InTime(q) PROVE InTime(q)'
    <3>1. \A k \in Running(q)' : k \in Running(q) /\ loop'[k] = loop[k]
      BY <2>1, <2>3 DEF Running
    <3> QED BY <2>2, <2>3, <3>1, InTimeKept
  <2>4. app.object[r] = NilRoom => time'[r] = NewTime
    BY <1>1, <2>1 DEF TimeOf
  <2>5. ASSUME app.object[r] # NilRoom, InTime(r) PROVE InTime(r)'
    <3>1. time'[r].cacheId = loop[l].read + 1 /\ time'[r].cached = time[r].cached
      BY <1>1, <2>1, <2>5 DEF TimeOf
    <3>2. l \notin Caching(r) /\ Caching(r)' = Caching(r) \cup {l} /\ l \in Running(r)
      BY <2>1 DEF Caching, Running
    <3>3. Cardinality(Caching(r)') = Cardinality(Caching(r)) + 1
      BY <2>1, <3>2, ReadyType, FS_AddElement
    <3>4. Ready(r)' = Ready(r) + 1 /\ Ready(r) \in Nat
      BY <2>1, <3>1, <3>3, ReadyType DEF Ready
    <3>5. loop[l].read <= Ready(r)
      BY <2>1, <2>5, <3>2 DEF InTime
    <3>6. ASSUME NEW k \in Running(r)', loop'[k].at = "store"
          PROVE  loop'[k].read <= Ready(r) /\ loop'[k].read \in Nat
      <4>1. k \in Running(r) /\ loop'[k] = loop[k]
        BY <2>1, <3>6 DEF Running
      <4> QED BY <1>1, <2>5, <3>6, <4>1 DEF InTime, Running, LoopState
    <3> QED BY <2>1, <3>1, <3>4, <3>5, <3>6 DEF InTime
  <2> QED BY <1>1, <2>1, <2>2, <2>3, <2>4, <2>5 DEF TimeInv
<1>10. CASE Cache(l)
  <2> PICK r : r = loop[l].room
    OBVIOUS
  <2>1. /\ r \in Rooms /\ loop[l].at = "cache" /\ history'.reset = history.reset
        /\ loop'[l].at = "send" /\ loop'[l].room = r
        /\ \A k \in Loops \ {l} : loop'[k] = loop[k]
        /\ time' = [time EXCEPT ![r] = TimeOf(r, [time[r] EXCEPT !.cached = @ + 1])]
    BY <1>1, <1>10 DEF Cache, LoopState
  <2>2. ASSUME NEW q \in Rooms, q # r PROVE Caching(q)' = Caching(q) /\ time'[q] = time[q]
    BY <1>1, <2>1, <2>2 DEF Caching, Running
  <2>3. ASSUME NEW q \in Rooms, q # r, InTime(q) PROVE InTime(q)'
    <3>1. \A k \in Running(q)' : k \in Running(q) /\ loop'[k] = loop[k]
      BY <2>1, <2>3 DEF Running
    <3> QED BY <2>2, <2>3, <3>1, InTimeKept
  <2>4. app.object[r] = NilRoom => time'[r] = NewTime
    BY <1>1, <2>1 DEF TimeOf
  <2>5. ASSUME app.object[r] # NilRoom, InTime(r) PROVE InTime(r)'
    <3>1. time'[r].cacheId = time[r].cacheId /\ time'[r].cached = time[r].cached + 1
      BY <1>1, <2>1, <2>5 DEF TimeOf
    <3>2. l \in Caching(r) /\ Caching(r)' = Caching(r) \ {l}
      BY <2>1 DEF Caching, Running
    <3>3. Cardinality(Caching(r)') = Cardinality(Caching(r)) - 1
      BY <2>1, <3>2, ReadyType, FS_RemoveElement
    <3>4. Ready(r)' = Ready(r)
      <4>1. time[r].cached \in Nat /\ Cardinality(Caching(r)) \in Nat
        BY <2>1, ReadyType
      <4> QED BY <3>1, <3>3, <4>1 DEF Ready
    <3>5. ASSUME NEW k \in Running(r)', loop'[k].at = "store"
          PROVE  loop'[k].read <= Ready(r)
      <4>1. k \in Running(r) /\ loop'[k] = loop[k]
        BY <2>1, <3>5 DEF Running
      <4> QED BY <2>5, <3>5, <4>1 DEF InTime
    <3> QED BY <2>5, <3>1, <3>4, <3>5 DEF InTime
  <2> QED BY <1>1, <2>1, <2>2, <2>3, <2>4, <2>5 DEF TimeInv
<1>11. CASE Send(l)
  <2>1. /\ loop[l].at = "send" /\ loop'[l].at \in {"send", "wake"}
        /\ loop'[l].room = loop[l].room /\ \A k \in Loops \ {l} : loop'[k] = loop[k]
        /\ UNCHANGED <<time, history>>
    BY <1>1, <1>11 DEF Send, Announces, LoopState
  <2>2. \A r \in Rooms : Caching(r)' = Caching(r)
    BY <2>1 DEF Caching, Running
  <2>3. ASSUME NEW r \in Rooms, NEW k \in Running(r)', loop'[k].at = "store"
        PROVE  k \in Running(r) /\ loop'[k] = loop[k]
    BY <2>1, <2>3 DEF Running
  <2> QED BY <1>2, <2>1, <2>2, <2>3, InTimeKept
<1> QED BY <1>3, <1>5, <1>6, <1>7, <1>8, <1>9, <1>10, <1>11 DEF LoopStep


\* Stopping the synchronisation puts no unused room object to use.
LEMMA StopKeepsNil ==
  ASSUME IInv, NEW c \in Clients, NEW keepLock, keepLock \in BOOLEAN,
         HandleStopFrameSync(c, keepLock), NEW r \in Rooms, app.object[r] = NilRoom
  PROVE  app'.object[r] = NilRoom
<1> PICK q : q = app.room[c]
  OBVIOUS
<1> PICK o : o = [app.object[q] EXCEPT !.frameSync = FALSE, !.lock = keepLock /\ @]
  OBVIOUS
<1> PICK s : s = [app EXCEPT !.object[q] = o]
  OBVIOUS
<1>1. /\ AppInv(app) /\ app \in AppState /\ app.object \in [Rooms -> RoomObject]
      /\ q \in Rooms /\ c \in Members(app, q)
  BY RoomOfMember DEF IInv, AppInv, Coherent, Typed, AppState, HandleStopFrameSync
<1>2. q # r
  BY <1>1 DEF Members, Elems, NilRoom
<1>3. o \in RoomObject /\ SameMembers(o, app.object[q])
  BY <1>1 DEF RoomObject, SameMembers
<1>4. AppInv(s) /\ s.object[r] = NilRoom
  <2>1. AppInv(s)
    BY <1>1, <1>3, SettingsInv DEF SameMembers
  <2> QED BY <1>1, <1>2, <2>1 DEF AppState
<1>5. app' = Collect(cleanZombieClients(s, q, Connected))
  <2>1. s = [app EXCEPT !.object[q].frameSync = FALSE, !.object[q].lock = keepLock /\ @]
    BY <1>1 DEF AppState, RoomObject
  <2> QED BY <2>1 DEF HandleStopFrameSync, StopFrameSync
<1> PICK m : m = cleanZombieClients(s, q, Connected)
  OBVIOUS
<1>6. AppInv(m) /\ m.object[r] = NilRoom
  <2>1. /\ AppInv(m)
        /\ \/ m = s
           \/ \E gone : Swept(s, m, q, gone, gone)
    <3>1. PICK gone : gone = Members(s, q) \ Connected
      OBVIOUS
    <3>2. AppInv(m) /\ (m = s \/ Swept(s, m, q, gone, gone))
      BY <1>1, <1>4, <3>1, CleanEffect
    <3> QED BY <3>2
  <2>2. ASSUME NEW gone, Swept(s, m, q, gone, gone) PROVE m.object[r] = s.object[r]
    BY <1>2, <2>2 DEF Swept
  <2> QED BY <1>4, <2>1, <2>2
<1> QED BY <1>5, <1>6, CollectEffect

LEMMA KeepTimeInTime ==
  ASSUME FrameTypeOK, TimeInv, NEW q, NEW stopped \in BOOLEAN, NEW reset \in BOOLEAN,
         KeepTime(q, stopped, reset), UNCHANGED loop, reset => stopped,
         \A r \in Rooms : app.object[r] = NilRoom /\ app'.object[r] # NilRoom
                            => Running(r) = {}
  PROVE  TimeInv'
<1> SUFFICES ASSUME NEW r \in Rooms
             PROVE  /\ app'.object[r] = NilRoom => time'[r] = NewTime
                    /\ r \notin history'.reset /\ app'.object[r] # NilRoom => InTime(r)'
  BY DEF TimeInv
<1>1. /\ time'[r] = TimeOf(r, TimeAfter(time[r], stopped /\ r = q, reset /\ r = q))
      /\ history'.reset = {p \in Rooms : /\ app'.object[p] # NilRoom
                                         /\ IF reset /\ p = q THEN Counting(p) # {}
                                            ELSE p \in history.reset}
  <2>1. \E h : h = history.reset
    OBVIOUS
  <2> QED BY DEF KeepTime, FrameTypeOK
<1>2. app'.object[r] = NilRoom => time'[r] = NewTime
  BY <1>1 DEF TimeOf
<1>3. ASSUME app'.object[r] # NilRoom, r \notin history'.reset
      PROVE  InTime(r)'
  <2> PICK s : s = (stopped /\ r = q)
    OBVIOUS
  <2> PICK e : e = (reset /\ r = q)
    OBVIOUS
  <2>1. /\ time'[r].cacheId = IF s THEN 0 ELSE time[r].cacheId
        /\ time'[r].cached = IF e THEN 0 ELSE time[r].cached
    <3>1. time'[r] = TimeAfter(time[r], s, e)
      BY <1>1, <1>3 DEF TimeOf
    <3> QED BY <3>1 DEF TimeAfter
  <2>2. IF e THEN Counting(r) = {} ELSE r \notin history.reset
    BY <1>1, <1>3
  <2>3. Running(r)' = Running(r) /\ Caching(r)' = Caching(r)
    BY DEF Running, Caching
  <2>4. /\ time[r] \in [cacheId : Nat, cached : Nat]
        /\ Cardinality(Caching(r)) \in Nat /\ Ready(r) \in Nat
    BY ReadyType
  <2>5. CASE app.object[r] = NilRoom
    <3>1. Running(r) = {} /\ time[r].cacheId = 0
      <4>1. time[r] = NewTime
        BY <2>5 DEF TimeInv
      <4> QED BY <1>3, <2>5, <4>1 DEF NewTime
    <3>2. time'[r].cacheId = 0 /\ time'[r].cached \in Nat
      BY <2>1, <2>4, <3>1
    <3>3. Ready(r)' = time'[r].cached + Cardinality(Caching(r))
      BY <2>3 DEF Ready
    <3>4. 0 <= Ready(r)'
      BY <2>4, <3>2, <3>3
    <3> QED BY <2>3, <3>1, <3>2, <3>4 DEF InTime
  <2>6. CASE app.object[r] # NilRoom /\ e
    <3>1. s /\ Counting(r) = {}
      BY <2>2, <2>6
    <3>2. time'[r].cacheId = 0 /\ time'[r].cached = 0
      BY <2>1, <2>6, <3>1
    <3>3. Ready(r)' = 0 + Cardinality(Caching(r))
      BY <2>3, <3>2 DEF Ready
    <3>4. 0 <= Ready(r)'
      BY <2>4, <3>3
    <3>5. \A l \in Running(r)' : loop'[l].at # "store"
      BY <2>3, <3>1 DEF Counting
    <3> QED BY <3>2, <3>4, <3>5 DEF InTime
  <2>7. CASE app.object[r] # NilRoom /\ ~e
    <3>1. InTime(r)
      BY <2>2, <2>7 DEF TimeInv
    <3>2. Ready(r)' = Ready(r) /\ time'[r].cacheId <= Ready(r)
      BY <2>1, <2>3, <2>4, <2>7, <3>1 DEF Ready, InTime
    <3> QED BY <2>3, <3>1, <3>2 DEF InTime
  <2> QED BY <2>5, <2>6, <2>7
<1> QED BY <1>2, <1>3

LEMMA StartTime ==
  ASSUME IInv, FrameTypeOK, TimeInv, NEW c \in Clients, StartFrameSync(c)
  PROVE  TimeInv'
<1> PICK q : q = app.room[c]
  OBVIOUS
<1>1. /\ AppInv(app) /\ app \in AppState /\ app.object \in [Rooms -> RoomObject]
      /\ q \in Rooms /\ c \in Members(app, q)
  BY RoomOfMember
     DEF IInv, AppInv, Coherent, Typed, AppState, StartFrameSync, HandleStartFrameSync
<1>2. app.object[q] # NilRoom
  BY <1>1 DEF Members, Elems, NilRoom
<1>3. \A r \in Rooms \ {q} : app'.object[r] = app.object[r]
  BY <1>1 DEF StartFrameSync, HandleStartFrameSync, AppState
<1>4. app'.object[q] # NilRoom
  <2>1. app'.object[q].users = app.object[q].users
    BY <1>1 DEF StartFrameSync, HandleStartFrameSync, AppState, RoomObject
  <2> QED BY <1>1, <2>1 DEF Members, Elems, NilRoom
<1>5. PICK l \in Loops : /\ loop[l] = NoLoop /\ loop'[l].at = "wake"
                         /\ \A k \in Loops \ {l} : loop'[k] = loop[k]
  BY DEF StartFrameSync, FrameTypeOK, LoopState
<1>6. time' = time /\ history'.reset = history.reset
  BY DEF StartFrameSync, FrameTypeOK
<1>7. ASSUME NEW r \in Rooms, InTime(r) PROVE InTime(r)'
  <2>1. Caching(r)' = Caching(r)
    BY <1>5 DEF Caching, Running, NoLoop
  <2>2. ASSUME NEW k \in Running(r)', loop'[k].at = "store"
        PROVE  k \in Running(r) /\ loop'[k] = loop[k]
    BY <1>5, <2>2 DEF Running
  <2> QED BY <1>6, <1>7, <2>1, <2>2, InTimeKept
<1> QED BY <1>2, <1>3, <1>4, <1>6, <1>7 DEF TimeInv

LEMMA UploadTime ==
  ASSUME FrameTypeOK, TimeInv, NEW c \in Clients, UploadFrame(c) \/ UploadOverClear(c)
  PROVE  TimeInv'
<1>1. app' = app /\ time' = time /\ history'.reset = history.reset
  BY DEF UploadFrame, UploadOverClear, MayUpload, FrameTypeOK
<1>2. ASSUME NEW r \in Rooms, InTime(r) PROVE InTime(r)'
  <2>1. ASSUME NEW k \in Loops
        PROVE  /\ loop'[k].room = loop[k].room
               /\ loop'[k] = loop[k] \/ (loop[k].at = "clear" /\ loop'[k].at = "copy")
    <3>1. CASE loop' = loop
      BY <3>1
    <3>2. ASSUME NEW l \in Clearing(c), loop' = Cleared(l)
          PROVE  /\ loop'[k].room = loop[k].room
                 /\ loop'[k] = loop[k] \/ (loop[k].at = "clear" /\ loop'[k].at = "copy")
      <4>1. loop[l].at = "clear" /\ l \in Loops
        BY DEF Clearing
      <4>2. loop \in [Loops -> LoopState] /\ loop[l] \in LoopState
        BY <4>1 DEF FrameTypeOK
      <4>3. loop' = [loop EXCEPT ![l] = [loop[l] EXCEPT !.at = "copy", !.todo = Tail(@)]]
        BY <3>2, <4>1, <4>2 DEF Cleared
      <4> QED BY <4>1, <4>2, <4>3 DEF LoopState
    <3> QED BY <3>1, <3>2 DEF UploadFrame, UploadOverClear
  <2>2. Caching(r)' = Caching(r)
    BY <2>1 DEF Caching, Running
  <2>3. ASSUME NEW k \in Running(r)', loop'[k].at = "store"
        PROVE  k \in Running(r) /\ loop'[k] = loop[k]
    BY <2>1, <2>3 DEF Running
  <2> QED BY <1>1, <1>2, <2>2, <2>3, InTimeKept
<1> QED BY <1>1, <1>2 DEF TimeInv

LEMMA FrameStepTime ==
  ASSUME IInv, FrameTypeOK, TimeInv, [FrameNext]_frameVars
  PROVE  TimeInv'
<1>1. ASSUME NEW l \in Loops, LoopStep(l) PROVE TimeInv'
  BY <1>1, LoopStepTime
<1>2. ASSUME NEW c \in Clients, RoomStep(c) \/ GoesOut(c) PROVE TimeInv'
  <2>1. Fresh /\ KeepTime(NoRoom, FALSE, FALSE) /\ UNCHANGED loop
    BY <1>2 DEF RoomStep, GoesOut, Beside
  <2> QED BY <2>1, KeepTimeInTime DEF Fresh
<1>3. ASSUME NEW c \in Clients, StopSync(c) \/ ResetRoom(c) PROVE TimeInv'
  <2>1. PICK keepLock \in BOOLEAN : HandleStopFrameSync(c, keepLock)
    BY <1>3 DEF StopSync, ResetRoom
  <2>2. \A r \in Rooms : app.object[r] = NilRoom => app'.object[r] = NilRoom
    BY <2>1, StopKeepsNil
  <2>3. UNCHANGED loop /\ \E reset \in BOOLEAN : KeepTime(app.room[c], TRUE, reset)
    BY <1>3 DEF StopSync, ResetRoom
  <2> QED BY <2>2, <2>3, KeepTimeInTime
<1>4. ASSUME NEW c \in Clients, StartFrameSync(c) PROVE TimeInv'
  BY <1>4, StartTime
<1>5. ASSUME NEW c \in Clients, UploadFrame(c) \/ UploadOverClear(c) PROVE TimeInv'
  BY <1>5, UploadTime
<1>6. CASE UNCHANGED frameVars
  BY <1>6 DEF frameVars, vars, TimeInv, InTime, Ready, Caching, Running
<1> QED BY <1>1, <1>2, <1>3, <1>4, <1>5, <1>6 DEF FrameNext

\* The time that a loop announces is not ahead of the cache by more than the frames
\* that other loops have counted and are about to put into it, however many loops
\* drive the room and whenever it is stopped, unless it was last reset between a
\* loop's reading and its writing of the counter.  Where one loop drives a room,
\* GetFrameAt finds what has been announced.
THEOREM AnnouncedIsCached == FrameSpec => []CacheReaches
<1>1. FrameInit => TimeInv
  <2> SUFFICES ASSUME FrameInit PROVE TimeInv
    OBVIOUS
  <2>1. /\ \A r \in Rooms : app.object[r] = NilRoom /\ time[r] = NewTime
    BY DEF FrameInit, Init
  <2> QED BY <2>1 DEF TimeInv
<1>2. IInv /\ FrameTypeOK /\ TimeInv /\ [FrameNext]_frameVars => TimeInv'
  BY FrameStepTime
<1>3. FrameTypeOK /\ TimeInv => CacheReaches
  <2> SUFFICES ASSUME FrameTypeOK, TimeInv, NEW r \in Rooms \ history.reset
               PROVE  time[r].cacheId <= time[r].cached + Cardinality(Caching(r))
    BY DEF CacheReaches, Caching
  <2>1. CASE app.object[r] = NilRoom
    <3>1. time[r] = NewTime /\ Cardinality(Caching(r)) \in Nat
      BY <2>1, ReadyType DEF TimeInv
    <3> QED BY <3>1 DEF NewTime
  <2>2. CASE app.object[r] # NilRoom
    BY <2>2 DEF TimeInv, InTime, Ready
  <2> QED BY <2>1, <2>2
<1>4. FrameSpec => []IInv
  BY FrameSpecIsSpec, Invariance, PTL
<1> QED BY <1>1, <1>2, <1>3, <1>4, FrameTypesCorrect, PTL DEF FrameSpec

-----------------------------------------------------------------------------
(***************************************************************************)
(* Which room is synchronised: only StartFrameSync sets the flag of a      *)
(* room, in the step that starts a loop for it.                            *)
(***************************************************************************)
FlagsKept(s, t) ==
  \A r \in t.rooms :
     t.object[r].frameSync => r \in s.rooms /\ s.object[r].frameSync

LEMMA SweptFlags ==
  ASSUME NEW s, AppInv(s), NEW t, NEW r \in Rooms, NEW gone, NEW zombies,
         Swept(s, t, r, gone, zombies)
  PROVE  FlagsKept(s, t)
<1>1. t.rooms \subseteq s.rooms /\ s.rooms \subseteq Rooms
  BY DEF Swept, AppInv, Coherent, Typed, AppState
<1>2. \A q \in Rooms : t.object[q].frameSync = s.object[q].frameSync
  BY DEF Swept
<1> QED BY <1>1, <1>2 DEF FlagsKept

LEMMA CollectFlags ==
  ASSUME NEW s, AppInv(s), NEW t, t = Collect(s)
  PROVE  FlagsKept(s, t)
<1>1. t.rooms = s.rooms /\ s.rooms \subseteq Rooms
  BY CollectEffect DEF AppInv, Coherent, Typed, AppState
<1>2. \A q \in s.rooms : t.object[q] = s.object[q]
  BY <1>1, CollectEffect
<1> QED BY <1>1, <1>2 DEF FlagsKept

LEMMA ExitFlags ==
  ASSUME NEW s, AppInv(s), NEW r \in Rooms, NEW c \in Members(s, r), NEW connected,
         NEW t, t = Collect(ExitClient(s, r, c, connected))
  PROVE  FlagsKept(s, t)
<1> PICK m : m = ExitClient(s, r, c, connected)
  OBVIOUS
<1>1. AppInv(m) /\ FlagsKept(s, m)
  BY ExitEffect, SweptFlags
<1>2. FlagsKept(m, t)
  BY <1>1, CollectFlags
<1> QED BY <1>1, <1>2 DEF FlagsKept

LEMMA CleanFlags ==
  ASSUME NEW s, AppInv(s), NEW r \in Rooms, NEW connected,
         NEW t, t = Collect(cleanZombieClients(s, r, connected))
  PROVE  FlagsKept(s, t)
<1> PICK m : m = cleanZombieClients(s, r, connected)
  OBVIOUS
<1> PICK gone : gone = Members(s, r) \ connected
  OBVIOUS
<1>1. AppInv(m) /\ (m = s \/ Swept(s, m, r, gone, gone))
  BY CleanEffect
<1>2. FlagsKept(s, m)
  BY <1>1, SweptFlags DEF FlagsKept
<1>3. FlagsKept(m, t)
  BY <1>1, CollectFlags
<1> QED BY <1>2, <1>3 DEF FlagsKept

LEMMA JoinedFlags ==
  ASSUME NEW s, AppInv(s), NEW t, NEW r \in Rooms, NEW c \in Clients, Joined(s, t, r, c)
  PROVE  FlagsKept(s, t)
<1>1. t.rooms = s.rooms /\ s.rooms \subseteq Rooms
  BY DEF Joined, AppInv, Coherent, Typed, AppState
<1>2. \A q \in Rooms : t.object[q].frameSync = s.object[q].frameSync
  BY DEF Joined
<1> QED BY <1>1, <1>2 DEF FlagsKept

LEMMA CreatedFlags ==
  ASSUME NEW s, AppInv(s), NEW t, NEW r \in Rooms, NEW users, NEW max,
         Created(s, t, r, users, max)
  PROVE  FlagsKept(s, t)
<1>1. t.rooms = s.rooms \cup {r} /\ s.rooms \subseteq Rooms
  BY DEF Created, AppInv, Coherent, Typed, AppState
<1>2. /\ ~t.object[r].frameSync
      /\ \A q \in Rooms \ {r} : t.object[q] = s.object[q]
  BY DEF Created
<1> QED BY <1>1, <1>2 DEF FlagsKept

LEMMA OutOfRoomFlags ==
  ASSUME AppInv(app), NEW c \in Clients
  PROVE  FlagsKept(app, OutOfRoom(c))
<1>1. CASE ~InRoom(c)
  BY <1>1 DEF OutOfRoom, FlagsKept
<1>2. CASE InRoom(c)
  <2>1. app.room[c] \in Rooms /\ c \in Members(app, app.room[c])
    BY <1>2, RoomOfMember
  <2>2. OutOfRoom(c) = Collect(ExitClient(app, app.room[c], c, Connected))
    BY <1>2 DEF OutOfRoom
  <2> QED BY <2>1, <2>2, ExitFlags
<1> QED BY <1>1, <1>2

LEMMA TakeOverFlags ==
  ASSUME AppInv(app), NEW c \in Clients, ~InRoom(c), NEW old \in Clients \cup {NoClient},
         NEW connected, NEW t, t = Collect(TakeOver(app, old, c, connected))
  PROVE  FlagsKept(app, t)
<1>1. CASE old = NoClient \/ ~InRoom(old)
  <2>1. t = Collect(app)
    BY <1>1 DEF TakeOver, InRoom
  <2> QED BY <2>1, CollectFlags
<1>2. CASE old # NoClient /\ InRoom(old)
  <2> PICK r : r = app.room[old]
    OBVIOUS
  <2> PICK m : m = ExitClient(app, r, old, connected)
    OBVIOUS
  <2> PICK j : j = JoinClient(m, r, c)
    OBVIOUS
  <2>1. r \in Rooms /\ old \in Members(app, r)
    BY <1>2, RoomOfMember
  <2>2. \E gone, zombies : AppInv(m) /\ Swept(app, m, r, gone, zombies)
    BY <2>1, ExitEffect
  <2>3. AppInv(m) /\ FlagsKept(app, m)
    BY <2>1, <2>2, SweptFlags
  <2>4. m.room[c] = NoRoom
    BY <2>2 DEF Swept, InRoom
  <2>5. AppInv(j) /\ Joined(m, j, r, c)
    <3>1. j = JoinClient(m, r, c) /\ old \in Members(app, r)
      BY <2>1
    <3> QED BY <2>1, <2>3, <2>4, <3>1, JoinEffect, JoinClientInv DEF AppInv
  <2>6. FlagsKept(m, j)
    BY <2>1, <2>3, <2>5, JoinedFlags
  <2>7. t = Collect(j)
    BY <1>2 DEF TakeOver, InRoom
  <2>8. FlagsKept(j, t)
    BY <2>5, <2>7, CollectFlags
  <2> QED BY <2>3, <2>6, <2>8 DEF FlagsKept
<1> QED BY <1>1, <1>2

\* What happens beside the loops starts no synchronisation but StartFrameSync.
LEMMA FlagsStep ==
  ASSUME IInv, SessionInv, NEW c \in Clients,
         \/ RoomStep(c) \/ GoesOut(c)
         \/ \E keepLock \in BOOLEAN : HandleStopFrameSync(c, keepLock)
  PROVE  FlagsKept(app, app')
<1>1. /\ AppInv(app) /\ ConnsOK /\ app \in AppState
      /\ app.object \in [Rooms -> RoomObject] /\ app.rooms \subseteq Rooms
  BY DEF IInv, AppInv, Coherent, Typed, AppState
<1>2. CASE app' = app
  BY <1>2 DEF FlagsKept
<1>3. ASSUME NEW u \in Users, Login(c, u) PROVE FlagsKept(app, app')
  <2>1. account[u] \in Clients \cup {NoClient} /\ ~InRoom(c)
    BY <1>1, <1>3 DEF ConnsOK, Login, SessionInv
  <2> QED BY <1>1, <1>3, <2>1, TakeOverFlags DEF Login
<1>4. CASE Exit(c)
  <2>1. PICK r \in Rooms : \E d \in Members(app, r) :
               app' = Collect(ExitClient(app, r, d, Connected'))
    BY <1>4 DEF Exit
  <2> QED BY <1>1, <2>1, ExitFlags
<1>5. CASE SweepOut(c)
  <2>1. PICK r \in Rooms, o \in RoomObject :
          /\ SameMembers(o, app.object[r])
          /\ o.frameSync => app.object[r].frameSync
          /\ app' = Collect(cleanZombieClients([app EXCEPT !.object[r] = o], r, Connected))
    BY <1>5 DEF SweepOut
  <2> PICK s : s = [app EXCEPT !.object[r] = o]
    OBVIOUS
  <2>2. AppInv(s)
    BY <1>1, <2>1, SettingsInv DEF SameMembers
  <2>3. /\ s.rooms = app.rooms /\ s.object[r] = o
        /\ \A q \in Rooms \ {r} : s.object[q] = app.object[q]
    BY <1>1 DEF AppState
  <2>4. FlagsKept(app, s)
    BY <1>1, <2>1, <2>3 DEF FlagsKept
  <2>5. FlagsKept(s, app')
    BY <2>1, <2>2, CleanFlags
  <2> QED BY <2>4, <2>5 DEF FlagsKept
<1>6. CASE Join(c)
  <2> PICK s : s = OutOfRoom(c)
    OBVIOUS
  <2>1. PICK r \in s.rooms : app' = JoinClient(s, r, c)
    BY <1>6 DEF Join
  <2>2. AppInv(s) /\ s.room[c] = NoRoom /\ r \in Rooms
    BY <1>1, OutOfRoomInv DEF AppInv, Coherent, Typed, AppState
  <2>3. Joined(s, app', r, c)
    BY <2>1, <2>2, JoinEffect DEF AppInv
  <2>4. FlagsKept(s, app')
    BY <2>2, <2>3, JoinedFlags
  <2>5. FlagsKept(app, s)
    BY <1>1, OutOfRoomFlags
  <2> QED BY <2>4, <2>5 DEF FlagsKept
<1>7. CASE Create(c)
  <2> PICK s : s = OutOfRoom(c)
    OBVIOUS
  <2>1. PICK r \in Rooms, asked \in MatchNumbers \cup {0} :
               s.object[r] = NilRoom /\ app' = CreateRoom(s, r, c, Capacity(asked))
    BY <1>7 DEF Create
  <2>2. Capacity(asked) \in Int
    BY CountsAssumption, CapacityType
  <2>3. AppInv(s) /\ s.room[c] = NoRoom
    BY <1>1, OutOfRoomInv
  <2>4. Created(s, app', r, <<c>>, Capacity(asked))
    BY <2>1, <2>2, <2>3, CreateEffect
  <2>5. FlagsKept(s, app')
    BY <2>3, <2>4, CreatedFlags
  <2>6. FlagsKept(app, s)
    BY <1>1, OutOfRoomFlags
  <2> QED BY <2>5, <2>6 DEF FlagsKept
<1>8. CASE \/ JoinHandler(c) \/ HandleExitRoom(c) \/ HandleUnlockRoom(c) \/ HandleKickOut(c)
           \/ \E keepLock \in BOOLEAN : HandleStopFrameSync(c, keepLock)
           \/ HandleMatchRoom(c)
  BY <1>4, <1>5, <1>6, <1>7, <1>8, MoverWays
<1>9. CASE HandleLockRoom(c)
  <2> PICK r : r = app.room[c]
    OBVIOUS
  <2>1. app' = [app EXCEPT !.object[r].lock = TRUE]
    BY <1>9 DEF HandleLockRoom
  <2>2. app'.rooms = app.rooms
        /\ \A q \in Rooms : app'.object[q].frameSync = app.object[q].frameSync
    BY <1>1, <2>1 DEF AppState, RoomObject
  <2> QED BY <1>1, <2>2 DEF FlagsKept
<1>10. CASE HandleMatched(c)
  <2>1. PICK number \in MatchNumbers, r \in Rooms, joiners \in Seq(Clients) :
              /\ app.object[r] = NilRoom
              /\ joiners # <<>> /\ NoDuplicates(joiners)
              /\ \A d \in Elems(joiners) : d \in Clients /\ Matchable(d)
              /\ app' = CreateMatched(app, r, joiners, number)
    BY <1>10, MatchedGroup
  <2>2. number \in Int /\ \A d \in Elems(joiners) : app.room[d] = NoRoom
    BY <2>1, CountsAssumption DEF Matchable, InRoom
  <2>3. Created(app, app', r, joiners, Capacity(number))
    BY <1>1, <2>1, <2>2, MatchedEffect
  <2> QED BY <1>1, <2>3, CreatedFlags
<1>11. CASE OnUserOut(c)
  BY <1>1, <1>2, <1>4, <1>11, OutWays
<1>12. CASE GoOffline(c)
  BY <1>2, <1>12 DEF GoOffline
<1>13. CASE ConnectionEvent(c)
  BY <1>2, <1>3, <1>13 DEF ConnectionEvent, Accept, Disconnect, Dropped
<1> QED BY <1>8, <1>9, <1>10, <1>11, <1>12, <1>13
        DEF RoomStep, GoesOut, OtherHandler, UserOut

\* Who stops the synchronisation of a room leaves it off.
LEMMA StopClearsFlag ==
  ASSUME IInv, NEW c \in Clients, NEW keepLock \in BOOLEAN,
         HandleStopFrameSync(c, keepLock), app.room[c] \in app'.rooms
  PROVE  ~app'.object[app.room[c]].frameSync
<1> PICK q : q = app.room[c]
  OBVIOUS
<1> PICK o : o = [app.object[q] EXCEPT !.frameSync = FALSE, !.lock = keepLock /\ @]
  OBVIOUS
<1> PICK s : s = [app EXCEPT !.object[q] = o]
  OBVIOUS
<1>1. /\ AppInv(app) /\ app \in AppState /\ app.object \in [Rooms -> RoomObject]
      /\ q \in Rooms
  BY RoomOfMember DEF IInv, AppInv, Coherent, Typed, AppState, HandleStopFrameSync
<1>2. o \in RoomObject /\ SameMembers(o, app.object[q])
  BY <1>1 DEF RoomObject, SameMembers
<1>3. AppInv(s)
  BY <1>1, <1>2, SettingsInv DEF SameMembers
<1>4. app' = Collect(cleanZombieClients(s, q, Connected))
  <2>1. s = [app EXCEPT !.object[q].frameSync = FALSE, !.object[q].lock = keepLock /\ @]
    BY <1>1 DEF AppState, RoomObject
  <2> QED BY <2>1 DEF HandleStopFrameSync, StopFrameSync
<1>5. FlagsKept(s, app')
  BY <1>1, <1>3, <1>4, CleanFlags
<1>6. s.object[q] = o /\ ~o.frameSync
  BY <1>1 DEF AppState, RoomObject
<1> QED BY <1>5, <1>6 DEF FlagsKept

\* Nobody is connected who was not: a connection that is gone does not come back.
LEMMA NobodyReconnects ==
  ASSUME IInv, [FrameNext]_frameVars
  PROVE  Connected' \subseteq Connected
<1>1. phase \in [Clients -> Phases]
  BY DEF IInv, ConnsOK
<1>2. CASE phase' = phase
  BY <1>2 DEF Connected
<1>3. ASSUME NEW c \in Clients, ConnectionEvent(c) \/ UserOut(c)
      PROVE  Connected' \subseteq Connected
  <2>1. CASE Accept(c)
    BY <1>1, <2>1 DEF Accept, Connected
  <2>2. CASE Disconnect(c)
    BY <1>1, <2>2 DEF Disconnect, Connected
  <2>3. ASSUME NEW C, ServerCloses(C) PROVE Connected' \subseteq Connected
    BY <1>1, <2>3 DEF ServerCloses, Connected
  <2>4. CASE Dropped(c) \/ \E u \in Users : Login(c, u)
    BY <2>3, <2>4 DEF Dropped, Login
  <2>5. CASE GoOffline(c) \/ OnUserOut(c)
    BY <1>1, <2>5 DEF GoOffline, OnUserOut, Connected
  <2> QED BY <1>3, <2>1, <2>2, <2>4, <2>5 DEF ConnectionEvent, UserOut
<1>4. ASSUME NEW c \in Clients, RoomHandler(c) PROVE phase' = phase
  BY <1>4 DEF conns, RoomHandler, JoinHandler, MemberHandler, HandleCreateRoom, HandleJoinRoom,
         HandleExitRoom, HandleStartFrameSync, HandleStopFrameSync, HandleSwitchSeat,
         HandleLockRoom, HandleUnlockRoom, HandleUpdateRoomOption, HandleKickOut,
         HandleMatchRoom, HandleMatched, Handles
<1>5. CASE UNCHANGED vars
  BY <1>2, <1>5 DEF vars, conns
<1> QED
  <2>1. [Next]_vars
    BY FrameStepIsStep
  <2> QED BY <1>2, <1>3, <1>4, <1>5, <2>1 DEF Next

\* A step beside the loops after which a synchronised room has somebody connected
\* finds somebody connected in it, or revives it.
LEMMA DrivenBeside ==
  ASSUME IInv, IInv', Driven, Connected' \subseteq Connected, FlagsKept(app, app'),
         UNCHANGED loop, NEW q, NEW stopped \in BOOLEAN, NEW reset \in BOOLEAN,
         KeepTime(q, stopped, reset),
         stopped /\ q \in app'.rooms => ~app'.object[q].frameSync, FrameTypeOK
  PROVE  Driven'
<1> SUFFICES ASSUME NEW r \in app'.rooms \ history'.revived, app'.object[r].frameSync,
                    Members(app', r) \cap Connected' # {}
             PROVE  Running(r)' # {}
  BY DEF Driven
<1>1. /\ r \in Rooms /\ r \in app.rooms /\ app.object[r].frameSync
      /\ ~(stopped /\ r = q)
  BY DEF FlagsKept, IInv, AppInv, Coherent, Typed, AppState
<1>2. /\ Members(app, r) = {c \in Clients : app.room[c] = r}
      /\ Members(app', r) = {c \in Clients : app'.room[c] = r}
  BY <1>1 DEF IInv, AppInv, Coherent, MembershipIn
<1>3. app'.object[r] # NilRoom
  BY DEF NilRoom
<1>4. r \notin history.revived /\ ~Revives(r)
  BY <1>1, <1>3 DEF KeepTime, FrameTypeOK
<1>5. Members(app, r) \cap Connected # {}
  <2> SUFFICES ASSUME Members(app, r) \cap Connected = {} PROVE FALSE
    OBVIOUS
  <2>1. PICK d \in Clients : app'.room[d] = r /\ d \in Connected
    BY <1>2
  <2>2. app.room[d] # r
    BY <1>2, <2>1
  <2> QED BY <1>1, <1>4, <2>1, <2>2 DEF Revives, Enters
<1>6. Running(r) # {}
  BY <1>1, <1>4, <1>5 DEF Driven
<1> QED BY <1>6 DEF Running

LEMMA DrivenStep ==
  ASSUME IInv, IInv', SessionInv, FrameTypeOK, Driven, [FrameNext]_frameVars
  PROVE  Driven'
<1>1. /\ loop \in [Loops -> LoopState] /\ app.rooms \subseteq Rooms
      /\ \A l \in Loops : loop[l].room = NoRoom <=> loop[l].at = "none"
      /\ history \in [cached : SUBSET (1..MaxFrames), exposed : SUBSET (1..MaxFrames),
                      reset : SUBSET Rooms, revived : SUBSET Rooms]
  BY DEF FrameTypeOK, IInv, AppInv, Coherent, Typed, AppState
<1>2. ASSUME UNCHANGED vars, history'.revived = history.revived,
             \A l \in Loops : loop'[l].room = loop[l].room
      PROVE  Driven'
  <2>1. \A r \in Rooms : Running(r)' = Running(r)
    BY <1>2 DEF Running
  <2>2. app' = app /\ Connected' = Connected
    BY <1>2 DEF vars, conns, Connected
  <2> QED BY <1>1, <1>2, <2>1, <2>2 DEF Driven
<1>3. ASSUME NEW l \in Loops, LoopStep(l) PROVE Driven'
  <2>1. loop[l] \in LoopState /\ UNCHANGED vars
    BY <1>1, <1>3 DEF LoopStep
  <2>2. CASE LoopEnds(l)
    <3>1. /\ loop' = [loop EXCEPT ![l] = NoLoop] /\ NothingToDo(loop[l].room)
          /\ history' = history
      BY <2>2 DEF LoopEnds
    <3>2. app' = app /\ Connected' = Connected
      BY <2>1 DEF vars, conns, Connected
    <3> SUFFICES ASSUME NEW r \in app.rooms \ history.revived, app.object[r].frameSync,
                        Members(app, r) \cap Connected # {}
                 PROVE  Running(r)' # {}
      BY <3>1, <3>2 DEF Driven
    <3>3. Running(r) # {}
      BY DEF Driven
    <3>4. loop[l].room # r
      BY <3>1 DEF NothingToDo, Synchronised
    <3>5. PICK k \in Loops : loop[k].room = r
      BY <3>3 DEF Running
    <3>6. loop'[k] = loop[k]
      BY <1>1, <3>1, <3>4, <3>5
    <3> QED BY <3>5, <3>6 DEF Running
  <2>3. CASE LoopBegins(l)
    BY <1>1, <1>2, <2>1, <2>3 DEF LoopBegins, LoopState
  <2>4. CASE Copy(l)
    BY <1>1, <1>2, <2>1, <2>4 DEF Copy, LoopState
  <2>5. CASE Clear(l)
    BY <1>1, <1>2, <2>1, <2>5 DEF Clear, Cleared, LoopState
  <2>6. CASE Load(l)
    BY <1>1, <1>2, <2>1, <2>6 DEF Load, LoopState
  <2>7. CASE Store(l)
    BY <1>1, <1>2, <2>1, <2>7 DEF Store, LoopState
  <2>8. CASE Cache(l)
    BY <1>1, <1>2, <2>1, <2>8 DEF Cache, LoopState
  <2>9. CASE Send(l)
    BY <1>1, <1>2, <2>1, <2>9 DEF Send, LoopState
  <2> QED BY <1>3, <2>2, <2>3, <2>4, <2>5, <2>6, <2>7, <2>8, <2>9 DEF LoopStep
<1>4. Connected' \subseteq Connected
  BY NobodyReconnects
<1>5. ASSUME NEW c \in Clients, RoomStep(c) \/ GoesOut(c) PROVE Driven'
  <2>1. UNCHANGED loop /\ KeepTime(NoRoom, FALSE, FALSE)
    BY <1>5 DEF RoomStep, GoesOut, Beside
  <2>2. FlagsKept(app, app')
    BY <1>5, FlagsStep
  <2> QED BY <1>4, <2>1, <2>2, DrivenBeside
<1>6. ASSUME NEW c \in Clients, StopSync(c) \/ ResetRoom(c) PROVE Driven'
  <2>1. PICK keepLock \in BOOLEAN : HandleStopFrameSync(c, keepLock)
    BY <1>6 DEF StopSync, ResetRoom
  <2>2. FlagsKept(app, app')
    BY <2>1, FlagsStep
  <2>3. app.room[c] \in app'.rooms => ~app'.object[app.room[c]].frameSync
    BY <2>1, StopClearsFlag
  <2>4. UNCHANGED loop /\ \E reset \in BOOLEAN : KeepTime(app.room[c], TRUE, reset)
    BY <1>6 DEF StopSync, ResetRoom
  <2> QED BY <1>4, <2>2, <2>3, <2>4, DrivenBeside
<1>7. ASSUME NEW c \in Clients, StartFrameSync(c) PROVE Driven'
  <2> PICK q : q = app.room[c]
    OBVIOUS
  <2>1. /\ q \in Rooms
        /\ app' = [app EXCEPT !.object[q].frameSync = TRUE, !.object[q].lock = TRUE]
    BY <1>7, RoomOfMember DEF StartFrameSync, HandleStartFrameSync, IInv
  <2>2. PICK l \in Loops : /\ loop[l] = NoLoop /\ loop'[l].room = q
                           /\ \A k \in Loops \ {l} : loop'[k] = loop[k]
    BY <1>1, <1>7 DEF StartFrameSync, LoopState
  <2>3. app'.rooms = app.rooms /\ \A r \in Rooms \ {q} : app'.object[r] = app.object[r]
    BY <2>1 DEF IInv, AppInv, Coherent, Typed, AppState
  <2>4. \A r \in Rooms : Running(r) \subseteq Running(r)'
    BY <2>2, SentinelsAssumption DEF Running, NoLoop
  <2>5. l \in Running(q)'
    BY <2>2 DEF Running
  <2>6. \A r \in Rooms \ {q} : r \in history.revived => r \in history'.revived
    BY <1>1, <1>7 DEF StartFrameSync
  <2>7. ASSUME NEW r \in app'.rooms \ history'.revived, app'.object[r].frameSync,
               Members(app', r) \cap Connected' # {}
        PROVE  Running(r)' # {}
    <3>1. CASE r = q
      BY <2>5, <3>1
    <3>2. CASE r # q
      <4>1. /\ r \in app.rooms \ history.revived /\ app.object[r] = app'.object[r]
            /\ r \in Rooms
        BY <1>1, <2>3, <2>6, <2>7, <3>2
      <4>2. Members(app, r) \cap Connected # {}
        BY <1>4, <2>7, <4>1 DEF Members
      <4> QED BY <2>4, <2>7, <4>1, <4>2 DEF Driven
    <3> QED BY <3>1, <3>2
  <2> QED BY <2>7 DEF Driven
<1>8. ASSUME NEW c \in Clients, UploadFrame(c) \/ UploadOverClear(c) PROVE Driven'
  <2>1. UNCHANGED vars /\ history'.revived = history.revived
    BY <1>1, <1>8 DEF UploadFrame, UploadOverClear, MayUpload, Handles, vars
  <2>2. \A l \in Loops : loop'[l].room = loop[l].room
    <3>1. CASE loop' = loop
      BY <3>1
    <3>2. ASSUME NEW l \in Loops, loop' = Cleared(l)
          PROVE  \A k \in Loops : loop'[k].room = loop[k].room
      BY <1>1, <3>2 DEF Cleared, LoopState
    <3> QED BY <1>8, <3>1, <3>2 DEF UploadFrame, UploadOverClear, Clearing
  <2> QED BY <1>2, <2>1, <2>2
<1>9. CASE UNCHANGED frameVars
  BY <1>2, <1>9 DEF frameVars
<1> QED BY <1>3, <1>5, <1>6, <1>7, <1>8, <1>9 DEF FrameNext

\* Every room of the list that is synchronised and has somebody connected has a loop
\* that drives it, whoever reads on after a close and whatever the queue matches,
\* unless somebody came in when nobody was connected: a loop ends only when the room
\* is stopped or nobody in it is connected, and whoever starts it again starts a
\* loop.
THEOREM SynchronisedIsDriven == FrameSpec => []Driven
<1>1. FrameInit => Driven
  BY DEF FrameInit, Init, Driven
<1>2. IInv /\ IInv' /\ SessionInv /\ FrameTypeOK /\ Driven /\ [FrameNext]_frameVars
        => Driven'
  BY DrivenStep
<1>3. FrameSpec => [](IInv /\ SessionInv)
  BY FrameSpecIsSpec, SessionInvariance, PTL
<1> QED BY <1>1, <1>2, <1>3, FrameTypesCorrect, PTL DEF FrameSpec
=============================================================================
