-------------------------- MODULE ConnectionProofs --------------------------
(***************************************************************************)
(* For any number of connections: every connection is cleaned up by one    *)
(* goroutine, none is dropped without OnUserOut once a handler has run for *)
(* it, and the goroutines implement the connection of Sessions.            *)
(***************************************************************************)
EXTENDS Connection, TLAPS

Cleaning == {"enter", "send", "shut"}

\* A writer, and a goroutine that has ended, clean up in their deferred call,
\* and that call is for their own connection.
ThreadsOK ==
  \A g \in Threads :
     /\ thread[g].last => thread[g].closes = g[2] /\ thread[g].at \in Cleaning \cup {"done"}
     /\ thread[g].at = "done" => thread[g].last
     /\ g[1] = "writer" => /\ thread[g].at \notin {"read", "work", "tail"}
                           /\ thread[g].at \in Cleaning => thread[g].last
     /\ g[1] = "reader" => thread[g].at # "select"

\* Nothing has happened to a connection that has not been accepted.
Unborn ==
  \A c \in Clients :
     /\ socket[c] = "none" =>
          ~isClosed[c] /\ out[c] = "none" /\ bound[c] = {} /\ c \notin worked
     /\ thread[Reader(c)].at = "none" <=> socket[c] = "none"
     /\ thread[Writer(c)].at = "none" <=> socket[c] = "none"

\* isClosed is set before the hub is told, and the hub before the socket is shut.
CleanupOK ==
  /\ \A g \in Threads :
       LET c == thread[g].closes
       IN  /\ thread[g].at = "send" => isClosed[c] /\ out[c] = "none"
           /\ thread[g].at = "shut" => isClosed[c] /\ out[c] # "none"
  /\ \A c \in Clients : out[c] # "none" => isClosed[c]

\* A handler runs only for a connection whose callbacks are bound; before they
\* are, nobody but its own reader closes it.
BoundOK ==
  /\ \A c \in Clients :
       /\ bound[c] \in {{}, {"OnUserOut"}, Callbacks}
       /\ c \in worked => bound[c] = Callbacks
       /\ thread[Reader(c)].at \in {"work", "tail"} => c \in worked
       /\ thread[Reader(c)].at \in Cleaning /\ ~thread[Reader(c)].last => c \in worked
       /\ thread[Writer(c)].at \in Cleaning \cup {"done"} => bound[c] = Callbacks
  /\ \A g \in Threads :
       thread[g].at \in Cleaning /\ ~thread[g].last => thread[g].closes \in worked

\* The reader of c is in, or past, its deferred cleanup.
ReaderOver(c) ==
  thread[Reader(c)].at \in {"send", "shut", "done"} /\ thread[Reader(c)].last

SkipOK ==
  \A c \in Clients :
     /\ isClosed[c] /\ bound[c] # Callbacks => ReaderOver(c)
     /\ out[c] = "skipped" => ReaderOver(c) /\ c \notin worked

IInv == TypeOK /\ ThreadsOK /\ Unborn /\ CleanupOK /\ OneCleaner /\ BoundOK /\ SkipOK

-----------------------------------------------------------------------------
LEMMA ThreadNames ==
  /\ \A c \in Clients : Reader(c) \in Threads /\ Writer(c) \in Threads
  /\ \A c \in Clients : Reader(c)[1] = "reader" /\ Writer(c)[1] = "writer"
  /\ \A c \in Clients : Reader(c)[2] = c /\ Writer(c)[2] = c
  /\ \A g \in Threads : g[2] \in Clients /\ (g = Reader(g[2]) \/ g = Writer(g[2]))
  /\ \A c, d \in Clients : Reader(c) # Writer(d)
  /\ \A c, d \in Clients : c # d => Reader(c) # Reader(d) /\ Writer(c) # Writer(d)
BY DEF Reader, Writer, Threads

ThreadType == [at : Labels, closes : Clients, last : BOOLEAN]

LEMMA GoesFacts ==
  ASSUME TypeOK, NEW g \in Threads, NEW label \in Labels, Goes(g, label)
  PROVE  /\ thread' \in [Threads -> ThreadType]
         /\ thread'[g].at = label
         /\ thread'[g].closes = thread[g].closes /\ thread'[g].last = thread[g].last
         /\ \A h \in Threads : h # g => thread'[h] = thread[h]
BY DEF Goes, TypeOK, ThreadType

LEMMA ClosesFacts ==
  ASSUME TypeOK, NEW g \in Threads, NEW c \in Clients, NEW last \in BOOLEAN,
         Closes(g, c, last)
  PROVE  /\ thread' \in [Threads -> ThreadType]
         /\ thread'[g].at = "enter" /\ thread'[g].closes = c /\ thread'[g].last = last
         /\ \A h \in Threads : h # g => thread'[h] = thread[h]
BY DEF Closes, TypeOK, ThreadType, Labels

LEMMA EndsFacts ==
  ASSUME TypeOK, NEW g \in Threads, Ends(g)
  PROVE  /\ thread' \in [Threads -> ThreadType]
         /\ thread'[g].at = "enter" /\ thread'[g].closes = g[2] /\ thread'[g].last
         /\ \A h \in Threads : h # g => thread'[h] = thread[h]
BY ThreadNames, ClosesFacts DEF Ends

LEMMA InitInv == Init => IInv
<1> SUFFICES ASSUME Init PROVE IInv
  OBVIOUS
<1>1. \A g \in Threads : thread[g].at = "none" /\ ~thread[g].last /\ thread[g].closes = g[2]
  BY DEF Init
<1>2. TypeOK
  BY <1>1, ThreadNames DEF Init, TypeOK, Labels, Callbacks
<1>3. ThreadsOK /\ Unborn /\ CleanupOK /\ OneCleaner /\ BoundOK /\ SkipOK
  BY <1>1, ThreadNames DEF Init, ThreadsOK, Unborn, CleanupOK, OneCleaner, BoundOK,
     SkipOK, Cleaning
<1> QED BY <1>2, <1>3 DEF IInv

LEMMA AcceptInv ==
  ASSUME IInv, NEW c \in Clients, Accept(c)
  PROVE  IInv'
<1> DEFINE born == {Reader(c), Writer(c)}
<1>a. Reader(c) \in Threads /\ Writer(c) \in Threads /\ Reader(c) # Writer(c)
  BY ThreadNames
<1>b. thread \in [Threads -> ThreadType]
  BY DEF IInv, TypeOK, ThreadType
<1>c. \A g \in born : thread[g].at = "none" /\ ~thread[g].last
  BY <1>a DEF Accept, IInv, Unborn, ThreadsOK, Cleaning
<1>1. /\ thread' \in [Threads -> ThreadType]
      /\ thread'[Reader(c)].at = "read" /\ thread'[Writer(c)].at = "select"
      /\ \A g \in born : /\ thread'[g].closes = thread[g].closes
                         /\ thread'[g].last = thread[g].last
                         /\ thread[g].at = "none" /\ ~thread[g].last
      /\ \A g \in Threads \ born : thread'[g] = thread[g]
  BY <1>a, <1>b, <1>c DEF Accept, ThreadType, Labels
<1>2. TypeOK'
  BY <1>1 DEF Accept, IInv, TypeOK, ThreadType
<1>3. ThreadsOK' /\ CleanupOK' /\ OneCleaner'
  BY <1>1, ThreadNames DEF Accept, IInv, ThreadsOK, CleanupOK, OneCleaner, Cleaning
<1>4. Unborn'
  BY <1>1, ThreadNames DEF Accept, IInv, TypeOK, Unborn
<1>5. BoundOK'
  BY <1>1, ThreadNames DEF Accept, IInv, BoundOK, Cleaning
<1>6. SkipOK'
  BY <1>1, ThreadNames DEF Accept, IInv, SkipOK, ReaderOver, Unborn
<1> QED BY <1>2, <1>3, <1>4, <1>5, <1>6 DEF IInv

LEMMA UnchangedInv == ASSUME IInv, UNCHANGED vars PROVE IInv'
BY DEF vars, IInv, TypeOK, ThreadsOK, Unborn, CleanupOK, OneCleaner, BoundOK, SkipOK,
   ReaderOver, Reader, Writer

LEMMA HubInitInv == ASSUME IInv, HubInit PROVE IInv'
BY DEF HubInit, IInv, TypeOK, ThreadsOK, Unborn, CleanupOK, OneCleaner, BoundOK, SkipOK,
   ReaderOver, Reader, Writer

LEMMA BindInv == ASSUME IInv, NEW c \in Clients, Bind(c) PROVE IInv'
<1>1. /\ bound' \in [Clients -> SUBSET Callbacks]
      /\ bound[c] # Callbacks /\ bound'[c] \in {{"OnUserOut"}, Callbacks}
      /\ \A d \in Clients : d # c => bound'[d] = bound[d]
  BY DEF Bind, Bound, IInv, TypeOK, Callbacks
<1>2. TypeOK' /\ ThreadsOK' /\ CleanupOK' /\ OneCleaner'
  BY <1>1 DEF Bind, IInv, TypeOK, ThreadsOK, CleanupOK, OneCleaner
<1>3. Unborn'
  BY <1>1 DEF Bind, IInv, Unborn, Reader, Writer
<1>4. BoundOK'
  BY <1>1 DEF Bind, IInv, BoundOK, Reader, Writer
<1>5. SkipOK'
  BY <1>1 DEF Bind, IInv, SkipOK, ReaderOver, Reader, Writer
<1> QED BY <1>2, <1>3, <1>4, <1>5 DEF IInv

LEMMA PeerGoneInv == ASSUME IInv, NEW c \in Clients, PeerGone(c) PROVE IInv'
<1>1. /\ socket' \in [Clients -> {"none", "open", "cut", "shut"}]
      /\ \A d \in Clients : socket'[d] = "none" <=> socket[d] = "none"
  BY DEF PeerGone, IInv, TypeOK
<1> QED BY <1>1 DEF PeerGone, IInv, TypeOK, ThreadsOK, Unborn, CleanupOK, OneCleaner,
           BoundOK, SkipOK, ReaderOver, Reader, Writer

\* The reader goes from reading into a handler, or back.
LEMMA ReaderGoesInv ==
  ASSUME IInv, NEW c \in Clients, NEW label \in {"read", "work"},
         thread[Reader(c)].at \in {"read", "work", "tail"},
         Goes(Reader(c), label),
         worked' \in {worked, worked \cup {c}}, bound[c] = Callbacks \/ worked' = worked,
         label = "work" => c \in worked', leftover' \in SUBSET LateReaders,
         UNCHANGED <<hubUp, socket, bound, isClosed, out>>
  PROVE  IInv'
<1> DEFINE g == Reader(c)
<1>a. g \in Threads /\ label \in Labels
  BY ThreadNames DEF Labels
<1>1. /\ thread' \in [Threads -> ThreadType]
      /\ thread'[g].at = label
      /\ thread'[g].closes = thread[g].closes /\ thread'[g].last = thread[g].last
      /\ \A h \in Threads : h # g => thread'[h] = thread[h]
  BY <1>a, GoesFacts DEF IInv
<1>2. ~thread[g].last
  BY <1>a DEF IInv, ThreadsOK, Cleaning
<1>3. TypeOK'
  BY <1>1 DEF IInv, TypeOK, ThreadType
<1>4. ThreadsOK' /\ CleanupOK' /\ OneCleaner'
  BY <1>1, <1>2, ThreadNames DEF IInv, ThreadsOK, CleanupOK, OneCleaner, Cleaning
<1>5. Unborn'
  BY <1>1, ThreadNames DEF IInv, Unborn, Callbacks
<1>6. BoundOK'
  BY <1>1, <1>2, ThreadNames DEF IInv, BoundOK, Cleaning
<1>7. SkipOK'
  BY <1>1, ThreadNames DEF IInv, SkipOK, ReaderOver
<1> QED BY <1>3, <1>4, <1>5, <1>6, <1>7 DEF IInv

\* A goroutine turns to the cleanup of a connection.
LEMMA TurnsToCleanupInv ==
  ASSUME IInv, NEW g \in Threads, NEW d \in Clients, NEW last \in BOOLEAN,
         thread[g].at \in {"read", "work", "select"} \/ (thread[g].at = "send" /\ ~hubUp /\ ~thread[g].last),
         thread' \in [Threads -> ThreadType],
         thread'[g].at = "enter", thread'[g].closes = d, thread'[g].last = last,
         \A h \in Threads : h # g => thread'[h] = thread[h],
         last => d = g[2],
         ~last => g[1] = "reader" /\ d \in worked /\ g[2] \in worked,
         g[1] = "writer" => bound[g[2]] = Callbacks,
         leftover' \in SUBSET LateReaders,
         out' \in [Clients -> {"none", "lost", "taken", "skipped", "spawned", "ran"}],
         \A c \in Clients : \/ out'[c] = out[c]
                            \/ /\ thread[g].at = "send" /\ c = thread[g].closes
                               /\ out'[c] = "lost",
         UNCHANGED <<hubUp, socket, bound, isClosed, worked>>
  PROVE  IInv'
<1>1. TypeOK'
  BY DEF IInv, TypeOK, ThreadType
<1>2. ThreadsOK'
  BY DEF IInv, ThreadsOK, Cleaning
<1>3. OneCleaner'
  BY DEF IInv, OneCleaner
<1>4. CleanupOK'
  BY DEF IInv, CleanupOK, OneCleaner, TypeOK
<1>5. Unborn'
  <2>1. \A h \in Threads : thread'[h].at = "none" <=> thread[h].at = "none"
    OBVIOUS
  <2>2. \A c \in Clients : out'[c] # out[c] => isClosed[c]
    BY DEF IInv, CleanupOK
  <2> QED BY <2>1, <2>2, ThreadNames DEF IInv, Unborn
<1>6. BoundOK'
  <2>1. \A c \in Clients :
          /\ thread'[Reader(c)].at \in {"work", "tail"} => c \in worked
          /\ thread'[Reader(c)].at \in Cleaning /\ ~thread'[Reader(c)].last => c \in worked
    <3> SUFFICES ASSUME NEW c \in Clients
                 PROVE  /\ thread'[Reader(c)].at \in {"work", "tail"} => c \in worked
                        /\ thread'[Reader(c)].at \in Cleaning /\ ~thread'[Reader(c)].last
                             => c \in worked
      OBVIOUS
    <3>1. CASE g = Reader(c)
      BY <3>1, ThreadNames
    <3>2. CASE g # Reader(c)
      BY <3>2, ThreadNames DEF IInv, BoundOK
    <3> QED BY <3>1, <3>2
  <2>2. \A c \in Clients :
          thread'[Writer(c)].at \in Cleaning \cup {"done"} => bound[c] = Callbacks
    <3> SUFFICES ASSUME NEW c \in Clients, thread'[Writer(c)].at \in Cleaning \cup {"done"}
                 PROVE  bound[c] = Callbacks
      OBVIOUS
    <3>1. CASE g = Writer(c)
      BY <3>1, ThreadNames
    <3>2. CASE g # Writer(c)
      BY <3>2, ThreadNames DEF IInv, BoundOK
    <3> QED BY <3>1, <3>2
  <2>3. \A h \in Threads :
          thread'[h].at \in Cleaning /\ ~thread'[h].last => thread'[h].closes \in worked
    BY DEF IInv, BoundOK
  <2> QED BY <2>1, <2>2, <2>3 DEF IInv, BoundOK
<1>7. SkipOK'
  BY ThreadNames DEF IInv, SkipOK, ReaderOver, ThreadsOK
<1> QED BY <1>1, <1>2, <1>3, <1>4, <1>5, <1>6, <1>7 DEF IInv

LEMMA EndsInv ==
  ASSUME IInv, NEW g \in Threads, thread[g].at \in {"read", "work", "select"}, Ends(g),
         g[1] = "writer" => bound[g[2]] = Callbacks,
         leftover' \in SUBSET LateReaders,
         UNCHANGED <<hubUp, socket, bound, isClosed, out, worked>>
  PROVE  IInv'
<1>1. /\ thread' \in [Threads -> ThreadType]
      /\ thread'[g].at = "enter" /\ thread'[g].closes = g[2] /\ thread'[g].last = TRUE
      /\ \A h \in Threads : h # g => thread'[h] = thread[h]
  BY EndsFacts DEF IInv, TypeOK, ThreadType
<1>2. g[2] \in Clients /\ out \in [Clients -> {"none", "lost", "taken", "skipped", "spawned", "ran"}]
  BY ThreadNames DEF IInv, TypeOK
<1> QED BY <1>1, <1>2, TurnsToCleanupInv

LEMMA ReaderInv ==
  ASSUME IInv, NEW c \in Clients,
         ReadFrame(c) \/ ReadFails(c) \/ HandlerPanics(c) \/ HandlerReturns(c)
  PROVE  IInv'
<1>a. Reader(c) \in Threads /\ Reader(c)[1] = "reader" /\ leftover \in SUBSET LateReaders
  BY ThreadNames DEF IInv, TypeOK
<1>1. CASE ReadFrame(c)
  <2>1. /\ leftover' \in SUBSET LateReaders
        /\ thread[Reader(c)].at = "read"
        /\ UNCHANGED <<hubUp, socket, bound, isClosed, out>>
    BY <1>1, <1>a DEF ReadFrame, At
  <2>2. CASE Ends(Reader(c)) /\ UNCHANGED worked
    BY <1>a, <2>1, <2>2, EndsInv
  <2>3. CASE /\ "OnWorkData" \in bound[c]
             /\ Goes(Reader(c), "work") /\ worked' = worked \cup {c}
    <3>1. bound[c] = Callbacks
      BY <2>3 DEF IInv, BoundOK
    <3> QED BY <2>1, <2>3, <3>1, ReaderGoesInv
  <2> QED BY <1>1, <2>2, <2>3 DEF ReadFrame
<1>2. CASE ReadFails(c)
  BY <1>2, <1>a, EndsInv DEF ReadFails, At
<1>3. CASE HandlerPanics(c)
  BY <1>3, <1>a, EndsInv DEF HandlerPanics, At
<1>4. CASE HandlerReturns(c)
  BY <1>4, <1>a, ReaderGoesInv DEF HandlerReturns, InHandler, At
<1> QED BY <1>1, <1>2, <1>3, <1>4

LEMMA WriterStopsInv == ASSUME IInv, NEW c \in Clients, WriterStops(c) PROVE IInv'
<1>a. /\ Writer(c) \in Threads /\ Writer(c)[2] = c
      /\ leftover \in SUBSET LateReaders
  BY ThreadNames DEF IInv, TypeOK
<1> QED BY <1>a, EndsInv DEF WriterStops, At

LEMMA HandlerClosesInv ==
  ASSUME IInv, NEW c \in Clients, NEW d \in Clients, HandlerCloses(c, d)
  PROVE  IInv'
<1> DEFINE g == Reader(c)
<1>a. g \in Threads /\ g[1] = "reader" /\ g[2] = c
  BY ThreadNames
<1>1. /\ thread' \in [Threads -> ThreadType]
      /\ thread'[g].at = "enter" /\ thread'[g].closes = d /\ thread'[g].last = FALSE
      /\ \A h \in Threads : h # g => thread'[h] = thread[h]
  BY <1>a, ClosesFacts DEF HandlerCloses, IInv
<1>2. c \in worked /\ d \in worked /\ thread[g].at = "work"
  BY DEF HandlerCloses, At, IInv, BoundOK
<1>3. /\ leftover' \in SUBSET LateReaders
      /\ out' \in [Clients -> {"none", "lost", "taken", "skipped", "spawned", "ran"}]
      /\ UNCHANGED <<hubUp, socket, bound, isClosed, out, worked>>
  BY DEF HandlerCloses, IInv, TypeOK
<1> HIDE DEF g
<1> QED BY <1>a, <1>1, <1>2, <1>3, TurnsToCleanupInv

LEMMA ReturnsInv ==
  ASSUME IInv, NEW g \in Threads, thread[g].at \in {"enter", "shut"}, Returns(g),
         socket' \in [Clients -> {"none", "open", "cut", "shut"}],
         \A c \in Clients : socket'[c] = "none" <=> socket[c] = "none",
         UNCHANGED <<hubUp, bound, leftover, isClosed, out, worked>>
  PROVE  IInv'
<1> DEFINE label == IF thread[g].last THEN "done" ELSE "tail"
<1>1. /\ thread' \in [Threads -> ThreadType]
      /\ thread'[g].at = label
      /\ thread'[g].closes = thread[g].closes /\ thread'[g].last = thread[g].last
      /\ \A h \in Threads : h # g => thread'[h] = thread[h]
  <2>1. label \in Labels /\ Goes(g, label)
    BY DEF Labels, Returns
  <2> HIDE DEF label
  <2> QED BY <2>1, GoesFacts DEF IInv
<1>2. TypeOK'
  BY <1>1 DEF IInv, TypeOK, ThreadType
<1>3. ThreadsOK'
  BY <1>1 DEF IInv, ThreadsOK, Cleaning, TypeOK, ThreadType
<1>4. OneCleaner' /\ CleanupOK'
  BY <1>1 DEF IInv, OneCleaner, CleanupOK
<1>5. Unborn'
  <2>1. \A h \in Threads : thread'[h].at = "none" <=> thread[h].at = "none"
    BY <1>1
  <2> QED BY <2>1, ThreadNames DEF IInv, Unborn
<1>6. BoundOK'
  <2>1. \A h \in Threads :
          /\ thread'[h].at \in Cleaning => thread'[h] = thread[h]
          /\ thread'[h].at \in {"work", "tail"} =>
               \/ thread'[h] = thread[h]
               \/ thread[h].at \in Cleaning /\ ~thread[h].last
          /\ thread'[h].at = "done" => thread[h].at \in Cleaning \cup {"done"}
    BY <1>1 DEF Cleaning
  <2> QED BY <2>1, ThreadNames DEF IInv, BoundOK
<1>7. SkipOK'
  <2>1. \A h \in Threads :
          thread[h].at \in {"send", "shut", "done"} /\ thread[h].last =>
            thread'[h].at \in {"send", "shut", "done"} /\ thread'[h].last
    BY <1>1
  <2> QED BY <2>1, ThreadNames DEF IInv, SkipOK, ReaderOver
<1> QED BY <1>2, <1>3, <1>4, <1>5, <1>6, <1>7 DEF IInv

\* The only goroutine that finds isClosed false sets it.
LEMMA EnterInv == ASSUME IInv, NEW g \in Threads, Enter(g) PROVE IInv'
<1> PICK c \in Clients : c = thread[g].closes
  BY DEF IInv, TypeOK
<1>a. c \in Clients /\ c = thread[g].closes /\ thread[g].at = "enter"
  BY DEF Enter, At
<1>1. CASE isClosed[c]
  BY <1>1, <1>a, ReturnsInv DEF Enter, Marked, IInv, TypeOK
<1>2. CASE ~isClosed[c]
  <2>1. /\ thread' \in [Threads -> ThreadType]
        /\ thread'[g].at = "send"
        /\ thread'[g].closes = c /\ thread'[g].last = thread[g].last
        /\ \A h \in Threads : h # g => thread'[h] = thread[h]
    BY <1>2, GoesFacts DEF Enter, Marked, IInv, Labels
  <2>2. /\ isClosed' \in [Clients -> BOOLEAN] /\ isClosed'[c]
        /\ \A d \in Clients : d # c => isClosed'[d] = isClosed[d]
        /\ UNCHANGED <<hubUp, socket, bound, leftover, out, worked>>
    BY <1>2, <1>a DEF Enter, Marked, IInv, TypeOK
  <2>3. TypeOK'
    BY <2>1, <2>2 DEF IInv, TypeOK, ThreadType
  <2>4. ThreadsOK'
    BY <1>a, <2>1 DEF IInv, ThreadsOK, Cleaning
  <2>5. OneCleaner' /\ CleanupOK'
    BY <1>a, <1>2, <2>1, <2>2 DEF IInv, OneCleaner, CleanupOK, TypeOK
  <2>6. socket[c] # "none"
    <3>1. CASE thread[g].last
      BY <1>a, <3>1, ThreadNames DEF IInv, ThreadsOK, Unborn
    <3>2. CASE ~thread[g].last
      BY <1>a, <3>2, ThreadNames DEF IInv, BoundOK, Unborn, Cleaning
    <3> QED BY <3>1, <3>2
  <2>7. Unborn'
    <3>1. \A h \in Threads : thread'[h].at = "none" <=> thread[h].at = "none"
      BY <1>a, <2>1
    <3> QED BY <2>2, <2>6, <3>1, ThreadNames DEF IInv, Unborn
  <2>8. BoundOK'
    <3>1. \A h \in Threads :
            /\ thread'[h].at \in Cleaning => thread[h].at \in Cleaning
            /\ thread'[h].at \in {"work", "tail", "done"} => thread'[h] = thread[h]
            /\ thread'[h].last = thread[h].last /\ thread'[h].closes = thread[h].closes
      BY <1>a, <2>1 DEF Cleaning
    <3> QED BY <2>2, <3>1, ThreadNames DEF IInv, BoundOK
  <2>9. SkipOK'
    <3>1. \A h \in Threads :
            thread[h].at \in {"send", "shut", "done"} /\ thread[h].last =>
              thread'[h].at \in {"send", "shut", "done"} /\ thread'[h].last
      BY <1>a, <2>1
    <3>2. bound[c] # Callbacks => ReaderOver(c)'
      <4> SUFFICES ASSUME bound[c] # Callbacks PROVE ReaderOver(c)'
        OBVIOUS
      <4>1. c \notin worked
        BY <1>a DEF IInv, BoundOK
      <4>2. thread[g].last /\ g[2] = c
        BY <1>a, <4>1 DEF IInv, BoundOK, ThreadsOK, Cleaning
      <4>3. g = Reader(c)
        BY <1>a, <4>2, ThreadNames DEF IInv, BoundOK, Cleaning
      <4> QED BY <2>1, <4>2, <4>3 DEF ReaderOver
    <3>3. \A d \in Clients : ReaderOver(d) => ReaderOver(d)'
      BY <3>1, ThreadNames DEF ReaderOver
    <3> QED BY <1>a, <2>2, <3>2, <3>3 DEF IInv, SkipOK
  <2> QED BY <2>3, <2>4, <2>5, <2>7, <2>8, <2>9 DEF IInv
<1> QED BY <1>1, <1>2

LEMMA ShutInv == ASSUME IInv, NEW g \in Threads, Shut(g) PROVE IInv'
<1> DEFINE c == thread[g].closes
<1>1. thread[g].at = "shut" /\ c \in Clients
  BY DEF Shut, At, IInv, TypeOK
<1>2. socket[c] # "none"
  BY <1>1 DEF IInv, CleanupOK, Unborn
<1>3. /\ socket' \in [Clients -> {"none", "open", "cut", "shut"}]
      /\ \A d \in Clients : socket'[d] = "none" <=> socket[d] = "none"
  BY <1>1, <1>2 DEF Shut, ShutSocket, IInv, TypeOK
<1> QED BY <1>1, <1>3, ReturnsInv DEF Shut

LEMMA HubMissingInv == ASSUME IInv, NEW g \in Threads, HubMissing(g) PROVE IInv'
<1> PICK c \in Clients : c = thread[g].closes
  BY DEF IInv, TypeOK
<1>a. /\ c = thread[g].closes /\ thread[g].at = "send" /\ ~hubUp
      /\ isClosed[c] /\ out[c] = "none"
  BY DEF HubMissing, At, IInv, CleanupOK
<1>1. /\ out' \in [Clients -> {"none", "lost", "taken", "skipped", "spawned", "ran"}]
      /\ out'[c] = "lost"
      /\ \A d \in Clients : d # c => out'[d] = out[d]
      /\ leftover' \in SUBSET LateReaders
      /\ UNCHANGED <<hubUp, socket, bound, leftover, isClosed, worked>>
  BY <1>a DEF HubMissing, IInv, TypeOK
<1>2. CASE thread[g].last
  <2>1. /\ thread' \in [Threads -> ThreadType]
        /\ thread'[g].at = "done" /\ thread'[g].closes = c /\ thread'[g].last
        /\ \A h \in Threads : h # g => thread'[h] = thread[h]
    BY <1>2, <1>a, GoesFacts DEF HubMissing, IInv, Labels
  <2>2. TypeOK'
    BY <1>1, <2>1 DEF IInv, TypeOK, ThreadType
  <2>3. ThreadsOK'
    BY <1>2, <1>a, <2>1 DEF IInv, ThreadsOK, Cleaning
  <2>4. OneCleaner'
    BY <2>1 DEF IInv, OneCleaner
  <2>5. CleanupOK'
    BY <1>a, <1>1, <2>1 DEF IInv, CleanupOK, OneCleaner, TypeOK
  <2>6. Unborn'
    <3>1. \A h \in Threads : thread'[h].at = "none" <=> thread[h].at = "none"
      BY <1>a, <2>1
    <3> QED BY <1>a, <1>1, <3>1, ThreadNames DEF IInv, Unborn
  <2>7. BoundOK'
    <3>1. \A h \in Threads :
            /\ thread'[h].at \in Cleaning => thread'[h] = thread[h]
            /\ thread'[h].at \in {"work", "tail"} => thread'[h] = thread[h]
            /\ thread'[h].at = "done" => thread[h].at \in Cleaning \cup {"done"}
      BY <1>a, <2>1 DEF Cleaning
    <3> QED BY <1>1, <3>1, ThreadNames DEF IInv, BoundOK
  <2>8. SkipOK'
    <3>1. \A h \in Threads :
            thread[h].at \in {"send", "shut", "done"} /\ thread[h].last =>
              thread'[h].at \in {"send", "shut", "done"} /\ thread'[h].last
      BY <2>1
    <3> QED BY <1>1, <3>1, ThreadNames DEF IInv, SkipOK, ReaderOver
  <2> QED BY <2>2, <2>3, <2>4, <2>5, <2>6, <2>7, <2>8 DEF IInv
<1>3. CASE ~thread[g].last
  <2>1. /\ thread' \in [Threads -> ThreadType]
        /\ thread'[g].at = "enter" /\ thread'[g].closes = g[2] /\ thread'[g].last = TRUE
        /\ \A h \in Threads : h # g => thread'[h] = thread[h]
    BY <1>3, EndsFacts DEF HubMissing, IInv, TypeOK, ThreadType
  <2>2. g[1] # "writer" /\ g[2] \in Clients
    BY <1>3, <1>a, ThreadNames DEF IInv, ThreadsOK, Cleaning
  <2> QED BY <1>3, <1>a, <1>1, <2>1, <2>2, TurnsToCleanupInv
<1> QED BY <1>2, <1>3

LEMMA HubTakesInv == ASSUME IInv, NEW g \in Threads, HubTakes(g) PROVE IInv'
<1> PICK c \in Clients : c = thread[g].closes
  BY DEF IInv, TypeOK
<1>a. /\ c = thread[g].closes /\ thread[g].at = "send"
      /\ isClosed[c] /\ out[c] = "none"
  BY DEF HubTakes, At, IInv, CleanupOK
<1>1. /\ out' \in [Clients -> {"none", "lost", "taken", "skipped", "spawned", "ran"}]
      /\ out'[c] = "taken"
      /\ \A d \in Clients : d # c => out'[d] = out[d]
      /\ UNCHANGED <<hubUp, socket, bound, leftover, isClosed, worked>>
  BY <1>a DEF HubTakes, IInv, TypeOK
<1>2. /\ thread' \in [Threads -> ThreadType]
      /\ thread'[g].at = "shut"
      /\ thread'[g].closes = c /\ thread'[g].last = thread[g].last
      /\ \A h \in Threads : h # g => thread'[h] = thread[h]
  BY <1>a, GoesFacts DEF HubTakes, IInv, Labels
<1>3. TypeOK'
  BY <1>1, <1>2 DEF IInv, TypeOK, ThreadType
<1>4. ThreadsOK'
  BY <1>a, <1>2 DEF IInv, ThreadsOK, Cleaning
<1>5. OneCleaner'
  BY <1>a, <1>2 DEF IInv, OneCleaner
<1>6. CleanupOK'
  BY <1>a, <1>1, <1>2 DEF IInv, CleanupOK, OneCleaner, TypeOK
<1>7. Unborn'
  <2>1. \A h \in Threads : thread'[h].at = "none" <=> thread[h].at = "none"
    BY <1>a, <1>2
  <2> QED BY <1>a, <1>1, <2>1, ThreadNames DEF IInv, Unborn
<1>8. BoundOK'
  <2>1. \A h \in Threads :
          /\ thread'[h].at \in Cleaning => thread[h].at \in Cleaning
          /\ thread'[h].at \in {"work", "tail", "done"} => thread'[h] = thread[h]
          /\ thread'[h].last = thread[h].last /\ thread'[h].closes = thread[h].closes
    BY <1>a, <1>2 DEF Cleaning
  <2> QED BY <1>1, <2>1, ThreadNames DEF IInv, BoundOK
<1>9. SkipOK'
  <2>1. \A h \in Threads :
          thread[h].at \in {"send", "shut", "done"} /\ thread[h].last =>
            thread'[h].at \in {"send", "shut", "done"} /\ thread'[h].last
    BY <1>2
  <2> QED BY <1>1, <2>1, ThreadNames DEF IInv, SkipOK, ReaderOver
<1> QED BY <1>3, <1>4, <1>5, <1>6, <1>7, <1>8, <1>9 DEF IInv

\* A connection that the hub finds without callback is one whose reader was the
\* first to close it, before it had handled a message.
LEMMA HubOutInv ==
  ASSUME IInv, NEW c \in Clients, HubDispatch(c) \/ OnUserOut(c)
  PROVE  IInv'
<1>1. /\ out[c] \in {"taken", "spawned"} /\ isClosed[c]
      /\ out' \in [Clients -> {"none", "lost", "taken", "skipped", "spawned", "ran"}]
      /\ out'[c] \in {"skipped", "spawned", "ran"}
      /\ \A d \in Clients : d # c => out'[d] = out[d]
      /\ out'[c] = "skipped" => bound[c] # Callbacks
      /\ UNCHANGED <<hubUp, socket, bound, leftover, isClosed, worked, thread>>
  BY DEF HubDispatch, Dispatched, OnUserOut, IInv, TypeOK, CleanupOK, Callbacks
<1>2. TypeOK'
  BY <1>1 DEF IInv, TypeOK
<1>3. ThreadsOK' /\ OneCleaner' /\ BoundOK'
  BY <1>1 DEF IInv, ThreadsOK, OneCleaner, BoundOK, Reader, Writer
<1>4. CleanupOK'
  BY <1>1 DEF IInv, CleanupOK, TypeOK
<1>5. Unborn'
  BY <1>1 DEF IInv, Unborn, Reader, Writer
<1>6. SkipOK'
  BY <1>1 DEF IInv, SkipOK, ReaderOver, BoundOK, Reader
<1> QED BY <1>2, <1>3, <1>4, <1>5, <1>6 DEF IInv

LEMMA StepInv == IInv /\ [Next]_vars => IInv'
<1> SUFFICES ASSUME IInv, [Next]_vars PROVE IInv'
  OBVIOUS
<1>1. CASE UNCHANGED vars
  BY <1>1, UnchangedInv
<1>2. ASSUME NEW c \in Clients, ConnectionStep(c) PROVE IInv'
  BY <1>2, AcceptInv, BindInv, PeerGoneInv, ReaderInv, HandlerClosesInv, WriterStopsInv,
     HubOutInv DEF ConnectionStep
<1>3. ASSUME NEW g \in Threads, CleanupStep(g) PROVE IInv'
  BY <1>3, EnterInv, HubMissingInv, HubTakesInv, ShutInv DEF CleanupStep
<1> QED BY <1>1, <1>2, <1>3, HubInitInv DEF Next

LEMMA Invariance == Spec => []IInv
  BY InitInv, StepInv, PTL DEF Spec

-----------------------------------------------------------------------------
\* Every state of the goroutines has the types of TypeOK.
THEOREM TypeCorrect == Spec => []TypeOK
<1>1. IInv => TypeOK
  BY DEF IInv
<1> QED BY <1>1, Invariance, PTL

\* cleanup is done once: of all goroutines that close a connection, only one
\* gets past isClosed.
THEOREM CleanedOnce == Spec => []OneCleaner
<1>1. IInv => OneCleaner
  BY DEF IInv
<1> QED BY <1>1, Invariance, PTL

\* A connection for which a handler has run gets its OnUserOut, although its
\* goroutines are started before its callbacks are bound.
THEOREM SessionsKept == Spec => []NoSessionSkipped
<1>1. IInv => NoSessionSkipped
  BY DEF IInv, SkipOK, NoSessionSkipped
<1> QED BY <1>1, Invariance, PTL

-----------------------------------------------------------------------------
(***************************************************************************)
(* The goroutines implement the connection of Sessions: each of their      *)
(* steps is one of its steps, or changes nothing it knows of.              *)
(***************************************************************************)
\* The steps of Sessions, told connection by connection.
Same(d) == Phase(d)' = Phase(d) /\ (Reads(d)' <=> Reads(d))

LEMMA StutterStep ==
  ASSUME \A d \in Clients : Same(d)
  PROVE  UNCHANGED Session!vars
BY DEF Same, Session!vars

LEMMA OpenStep ==
  ASSUME NEW c \in Clients, Phase(c) = "none", Phase(c)' = "open", Reads(c)',
         \A d \in Clients \ {c} : Same(d)
  PROVE  Session!Open(c)
BY DEF Same, Session!Open

LEMMA QuitStep ==
  ASSUME NEW c \in Clients, Reads(c), ~Reads(c)',
         Phase(c)' = IF Phase(c) = "open" THEN "closed" ELSE Phase(c),
         \A d \in Clients \ {c} : Same(d)
  PROVE  Session!Quit(c)
BY DEF Same, Session!Quit, Session!Closed

LEMMA CloseStep ==
  ASSUME NEW c \in Clients, Phase(c) = "open", Phase(c)' = "closed",
         Reads(c)' <=> Reads(c),
         \A d \in Clients \ {c} : Same(d)
  PROVE  Session!Close({c})
<1>1. [d \in Clients |-> Phase(d)]' = Session!Closed({c})
  BY DEF Same, Session!Closed
<1>2. {d \in Clients : Reads(d)}' = {d \in Clients : Reads(d)} \ {}
  BY DEF Same
<1> QED BY <1>1, <1>2 DEF Session!Close

LEMMA OutStep ==
  ASSUME NEW c \in Clients, Phase(c) = "closed", Phase(c)' = "out",
         Reads(c)' <=> Reads(c),
         \A d \in Clients \ {c} : Same(d)
  PROVE  Session!Out(c)
BY DEF Same, Session!Out

LEMMA QuitIsStep == ASSUME NEW c \in Clients, Session!Quit(c) PROVE Session!Next
BY DEF Session!Next
LEMMA CloseIsStep == ASSUME NEW c \in Clients, Session!Close({c}) PROVE Session!Next
BY DEF Session!Next

-----------------------------------------------------------------------------
\* Whether c reads is a matter of where its reader is.
LEMMA ReadsFacts ==
  ASSUME NEW c \in Clients
  PROVE  Reads(c) <=> \/ thread[Reader(c)].at \in {"read", "work", "tail", "enter"}
                      \/ thread[Reader(c)].at \in {"send", "shut"} /\ ~thread[Reader(c)].last
BY DEF Reads

LEMMA ReadsOfOthers ==
  ASSUME NEW g \in Threads, NEW d \in Clients, g # Reader(d),
         \A h \in Threads : h # g => thread'[h] = thread[h]
  PROVE  Reads(d)' <=> Reads(d)
<1>1. thread'[Reader(d)] = thread[Reader(d)]
  BY ThreadNames
<1> QED BY <1>1 DEF Reads, Reader

LEMMA AcceptImplements ==
  ASSUME IInv, NEW c \in Clients, Accept(c) PROVE Session!Open(c)
<1>1. Phase(c) = "none" /\ Phase(c)' = "open"
  BY DEF Accept, Phase, IInv, TypeOK, Unborn
<1>2. /\ thread'[Reader(c)].at = "read"
      /\ \A d \in Clients \ {c} : thread'[Reader(d)] = thread[Reader(d)]
  BY ThreadNames DEF Accept, IInv, TypeOK
<1>3. Reads(c)'
  BY <1>2 DEF Reads, Reader
<1>4. \A d \in Clients \ {c} : Same(d)
  BY <1>2 DEF Accept, Same, Phase, Reads, Reader, IInv, TypeOK
<1> QED BY <1>1, <1>3, <1>4, OpenStep

\* The binding of callbacks and the peer are not seen.
LEMMA UnseenImplements ==
  ASSUME IInv, NEW c \in Clients, Bind(c) \/ PeerGone(c)
  PROVE  UNCHANGED Session!vars
<1>1. /\ \A d \in Clients : socket'[d] = "none" <=> socket[d] = "none"
      /\ UNCHANGED <<isClosed, out, thread>>
  BY DEF Bind, PeerGone, IInv, TypeOK
<1>2. \A d \in Clients : Same(d)
  BY <1>1 DEF Same, Phase, Reads, Reader
<1> QED BY <1>2, StutterStep

\* A reader outside cleanup, or about to enter it, reads.
LEMMA ReaderImplements ==
  ASSUME IInv, NEW c \in Clients,
         \/ ReadFrame(c) \/ ReadFails(c) \/ HandlerPanics(c) \/ HandlerReturns(c)
         \/ \E d \in Clients : HandlerCloses(c, d)
  PROVE  UNCHANGED Session!vars
<1>a. Reader(c) \in Threads /\ TypeOK
  BY ThreadNames DEF IInv
<1>1. /\ thread[Reader(c)].at \in {"read", "work", "tail"}
      /\ UNCHANGED <<socket, isClosed, out>>
      /\ \/ Goes(Reader(c), "work") \/ Goes(Reader(c), "read") \/ Ends(Reader(c))
         \/ \E d \in Clients : Closes(Reader(c), d, FALSE)
  BY DEF ReadFrame, ReadFails, HandlerPanics, HandlerReturns, HandlerCloses, InHandler, At
<1>2. /\ thread'[Reader(c)].at \in {"read", "work", "enter"}
      /\ \A h \in Threads : h # Reader(c) => thread'[h] = thread[h]
  <2>1. CASE Goes(Reader(c), "work") \/ Goes(Reader(c), "read")
    BY <1>a, <2>1, GoesFacts DEF Labels
  <2>2. CASE Ends(Reader(c))
    BY <1>a, <2>2, EndsFacts
  <2>3. CASE \E d \in Clients : Closes(Reader(c), d, FALSE)
    BY <1>a, <2>3, ClosesFacts
  <2> QED BY <1>1, <2>1, <2>2, <2>3
<1>3. Reads(c) /\ Reads(c)'
  BY <1>1, <1>2 DEF Reads, Reader
<1>4. \A d \in Clients : Reads(d)' <=> Reads(d)
  BY <1>a, <1>2, <1>3, ThreadNames, ReadsOfOthers
<1>5. \A d \in Clients : Same(d)
  BY <1>1, <1>4 DEF Same, Phase
<1> QED BY <1>5, StutterStep

LEMMA WriterImplements ==
  ASSUME IInv, NEW c \in Clients, WriterStops(c) PROVE UNCHANGED Session!vars
<1>1. Writer(c) \in Threads /\ \A d \in Clients : Writer(c) # Reader(d)
  BY ThreadNames
<1>2. \A d \in Clients : Reads(d)' <=> Reads(d)
  BY <1>1, EndsFacts, ReadsOfOthers DEF WriterStops, IInv
<1>3. \A d \in Clients : Same(d)
  BY <1>2 DEF WriterStops, Same, Phase
<1> QED BY <1>3, StutterStep

-----------------------------------------------------------------------------
\* cleanup.

\* The connection that a goroutine cleans up has been accepted.
LEMMA ClosesBorn ==
  ASSUME IInv, NEW g \in Threads, thread[g].at \in Cleaning
  PROVE  thread[g].closes \in Clients /\ socket[thread[g].closes] # "none"
<1>1. thread[g].closes \in Clients
  BY DEF IInv, TypeOK
<1>2. CASE thread[g].last
  BY <1>1, <1>2, ThreadNames DEF IInv, ThreadsOK, Unborn, Cleaning
<1>3. CASE ~thread[g].last
  BY <1>1, <1>3 DEF IInv, BoundOK, Unborn
<1> QED BY <1>2, <1>3, <1>1

LEMMA ReturnsFacts ==
  ASSUME TypeOK, NEW g \in Threads, Returns(g)
  PROVE  /\ thread'[g].at = IF thread[g].last THEN "done" ELSE "tail"
         /\ thread'[g].last = thread[g].last
         /\ \A h \in Threads : h # g => thread'[h] = thread[h]
BY GoesFacts DEF Returns, Labels

\* The first to enter closes the connection.  A reader in its deferred call
\* stops reading by it, and closes its own connection.
LEMMA EnterFirstImplements ==
  ASSUME IInv, NEW g \in Threads, Enter(g), ~isClosed[thread[g].closes]
  PROVE  Session!Next
<1> PICK c \in Clients : c = thread[g].closes
  BY DEF IInv, TypeOK
<1>a. thread[g].at = "enter" /\ socket[c] # "none"
  BY ClosesBorn DEF Enter, At, Cleaning
<1>b. /\ thread'[g].at = "send" /\ thread'[g].last = thread[g].last
      /\ \A h \in Threads : h # g => thread'[h] = thread[h]
  BY GoesFacts DEF Enter, Marked, IInv, Labels
<1>c. /\ isClosed'[c] /\ \A d \in Clients : d # c => isClosed'[d] = isClosed[d]
      /\ UNCHANGED <<socket, out>>
  BY DEF Enter, Marked, IInv, TypeOK
<1>1. Phase(c) = "open" /\ Phase(c)' = "closed"
  BY <1>a, <1>c DEF Phase, IInv, CleanupOK
<1>2. \A d \in Clients \ {c} : Phase(d)' = Phase(d)
  BY <1>c DEF Phase
<1>3. CASE g = Reader(g[2]) /\ thread[g].last
  <2>1. c = g[2]
    BY <1>3 DEF IInv, ThreadsOK
  <2>2. Reads(c) /\ ~Reads(c)'
    BY <1>3, <1>a, <1>b, <2>1 DEF Reads, Reader
  <2>3. \A d \in Clients \ {c} : Reads(d)' <=> Reads(d)
    BY <1>3, <1>b, <2>1, ThreadNames, ReadsOfOthers
  <2>4. \A d \in Clients \ {c} : Same(d)
    BY <1>2, <2>3 DEF Same
  <2> QED BY <1>1, <2>2, <2>4, QuitStep, QuitIsStep
<1>4. CASE ~(g = Reader(g[2]) /\ thread[g].last)
  <2>1. \A d \in Clients : Reads(d)' <=> Reads(d)
    <3> TAKE d \in Clients
    <3>1. CASE g = Reader(d)
      <4>1. g = Reader(g[2]) /\ ~thread[g].last
        BY <1>4, <3>1, ThreadNames
      <4> QED BY <1>a, <1>b, <3>1, <4>1 DEF Reads, Reader
    <3>2. CASE g # Reader(d)
      BY <1>b, <3>2, ReadsOfOthers
    <3> QED BY <3>1, <3>2
  <2>2. \A d \in Clients \ {c} : Same(d)
    BY <1>2, <2>1 DEF Same
  <2> QED BY <1>1, <2>1, <2>2, CloseStep, CloseIsStep
<1> QED BY <1>3, <1>4

\* Who finds the connection closed returns; the reader at its end with that.
LEMMA EnterAgainImplements ==
  ASSUME IInv, NEW g \in Threads, Enter(g), isClosed[thread[g].closes]
  PROVE  [Session!Next]_(Session!vars)
<1>a. /\ thread[g].at = "enter" /\ Returns(g) /\ UNCHANGED <<isClosed, socket, out>>
  BY DEF Enter, Marked, At
<1>b. /\ thread'[g].at = IF thread[g].last THEN "done" ELSE "tail"
      /\ thread'[g].last = thread[g].last
      /\ \A h \in Threads : h # g => thread'[h] = thread[h]
  BY <1>a, ReturnsFacts DEF IInv
<1>1. \A d \in Clients : Phase(d)' = Phase(d)
  BY <1>a DEF Phase
<1>2. CASE g = Reader(g[2]) /\ thread[g].last
  <2> PICK c \in Clients : c = g[2]
    BY ThreadNames
  <2>1. isClosed[c]
    BY <1>2 DEF IInv, ThreadsOK
  <2>2. Reads(c) /\ ~Reads(c)' /\ Phase(c) # "open"
    BY <1>2, <1>a, <1>b, <2>1 DEF Reads, Reader, Phase
  <2>3. \A d \in Clients \ {c} : Reads(d)' <=> Reads(d)
    BY <1>2, <1>b, ThreadNames, ReadsOfOthers
  <2>4. \A d \in Clients \ {c} : Same(d)
    BY <1>1, <2>3 DEF Same
  <2> QED BY <1>1, <2>2, <2>4, QuitStep, QuitIsStep
<1>3. CASE ~(g = Reader(g[2]) /\ thread[g].last)
  <2>1. \A d \in Clients : Reads(d)' <=> Reads(d)
    <3> TAKE d \in Clients
    <3>1. CASE g = Reader(d)
      <4>1. g = Reader(g[2]) /\ ~thread[g].last
        BY <1>3, <3>1, ThreadNames
      <4> QED BY <1>a, <1>b, <3>1, <4>1 DEF Reads, Reader
    <3>2. CASE g # Reader(d)
      BY <1>b, <3>2, ReadsOfOthers
    <3> QED BY <3>1, <3>2
  <2>2. \A d \in Clients : Same(d)
    BY <1>1, <2>1 DEF Same
  <2> QED BY <2>2, StutterStep
<1> QED BY <1>2, <1>3

\* Telling the hub and shutting the socket is done by a goroutine that is past
\* the point where the connection counts as closed.
LEMMA PastEnterImplements ==
  ASSUME IInv, NEW g \in Threads, HubMissing(g) \/ HubTakes(g) \/ Shut(g)
  PROVE  UNCHANGED Session!vars
<1> PICK c \in Clients : c = thread[g].closes
  BY DEF IInv, TypeOK
<1>a. thread[g].at \in {"send", "shut"} /\ socket[c] # "none" /\ isClosed[c]
  BY ClosesBorn DEF HubMissing, HubTakes, Shut, At, Cleaning, IInv, CleanupOK
<1>b. /\ \A h \in Threads : h # g => thread'[h] = thread[h]
      /\ IF thread[g].last
         THEN thread'[g].at \in {"shut", "done"} /\ thread'[g].last
         ELSE \/ thread'[g].at = "shut" /\ ~thread'[g].last
              \/ thread'[g].at \in {"tail", "enter"}
  <2>1. CASE HubMissing(g)
    BY <2>1, GoesFacts, EndsFacts DEF HubMissing, IInv, Labels
  <2>2. CASE HubTakes(g)
    BY <2>2, GoesFacts DEF HubTakes, IInv, Labels
  <2>3. CASE Shut(g)
    BY <2>3, ReturnsFacts DEF Shut, IInv
  <2> QED BY <2>1, <2>2, <2>3
<1>c. /\ UNCHANGED isClosed
      /\ \A d \in Clients : socket'[d] = "none" <=> socket[d] = "none"
      /\ \A d \in Clients : out'[d] = out[d] \/
           (isClosed[d] /\ out[d] = "none" /\ out'[d] \in {"lost", "taken"})
  BY <1>a DEF HubMissing, HubTakes, Shut, ShutSocket, At, IInv, TypeOK, CleanupOK
<1>1. \A d \in Clients : Phase(d)' = Phase(d)
  BY <1>c DEF Phase
<1>2. \A d \in Clients : Reads(d)' <=> Reads(d)
  <2> TAKE d \in Clients
  <2>1. CASE g = Reader(d)
    BY <1>a, <1>b, <2>1 DEF Reads, Reader
  <2>2. CASE g # Reader(d)
    BY <1>b, <2>2, ReadsOfOthers
  <2> QED BY <2>1, <2>2
<1>3. \A d \in Clients : Same(d)
  BY <1>1, <1>2 DEF Same
<1> QED BY <1>3, StutterStep

\* A connection is out when OnUserOut has run, or when the hub has skipped it.
LEMMA HubOutImplements ==
  ASSUME IInv, NEW c \in Clients, HubDispatch(c) \/ OnUserOut(c)
  PROVE  [Session!Next]_(Session!vars)
<1>1. /\ out[c] \in {"taken", "spawned"} /\ isClosed[c] /\ socket[c] # "none"
      /\ out'[c] \in {"skipped", "spawned", "ran"}
      /\ \A d \in Clients \ {c} : out'[d] = out[d]
      /\ UNCHANGED <<socket, isClosed, thread>>
  BY DEF HubDispatch, Dispatched, OnUserOut, IInv, TypeOK, CleanupOK, Unborn
<1>2. \A d \in Clients : Reads(d)' <=> Reads(d)
  BY <1>1 DEF Reads, Reader
<1>3. \A d \in Clients \ {c} : Same(d)
  BY <1>1, <1>2 DEF Same, Phase
<1>4. CASE out'[c] = "spawned"
  <2>1. \A d \in Clients : Same(d)
    BY <1>1, <1>2, <1>3, <1>4 DEF Same, Phase
  <2> QED BY <2>1, StutterStep
<1>5. CASE out'[c] \in {"skipped", "ran"}
  <2>1. Phase(c) = "closed" /\ Phase(c)' = "out"
    BY <1>1, <1>5 DEF Phase
  <2>2. Session!Out(c)
    BY <1>2, <1>3, <2>1, OutStep
  <2> QED BY <2>2 DEF Session!Next
<1> QED BY <1>1, <1>4, <1>5

-----------------------------------------------------------------------------
LEMMA StepImplements ==
  ASSUME IInv, [Next]_vars
  PROVE  [Session!Next]_(Session!vars)
<1>1. ASSUME NEW c \in Clients, ConnectionStep(c)
      PROVE  [Session!Next]_(Session!vars)
  <2>1. CASE Accept(c)
    BY <2>1, AcceptImplements DEF Session!Next
  <2>2. CASE Bind(c) \/ PeerGone(c)
    BY <2>2, UnseenImplements
  <2> QED BY <1>1, <2>1, <2>2, ReaderImplements, WriterImplements, HubOutImplements
          DEF ConnectionStep
<1>2. ASSUME NEW g \in Threads, CleanupStep(g)
      PROVE  [Session!Next]_(Session!vars)
  BY <1>2, EnterFirstImplements, EnterAgainImplements, PastEnterImplements
     DEF CleanupStep
<1>3. ASSUME HubInit \/ UNCHANGED vars
      PROVE  UNCHANGED Session!vars
  <2>1. UNCHANGED <<socket, isClosed, out, thread>>
    BY <1>3 DEF HubInit, vars
  <2>2. \A d \in Clients : Same(d)
    BY <2>1 DEF Same, Phase, Reads, Reader
  <2> QED BY <2>2, StutterStep
<1> QED BY <1>1, <1>2, <1>3 DEF Next

\* Every behaviour of the goroutines is one of the abstract connection, the one
\* that Rooms relies on: a connection is closed once, by whomever, and goes out
\* once.
THEOREM GoroutinesImplementSession == Spec => ImplementsSession
<1>1. Init => Session!Init
  <2> SUFFICES ASSUME Init PROVE Session!Init
    OBVIOUS
  <2>1. \A d \in Clients : Phase(d) = "none" /\ ~Reads(d)
    BY ThreadNames DEF Init, Phase, Reads
  <2> QED BY <2>1 DEF Session!Init
<1>2. IInv /\ [Next]_vars => [Session!Next]_(Session!vars)
  BY StepImplements
<1> QED BY <1>1, <1>2, Invariance, PTL DEF Spec, ImplementsSession, Session!Spec
=============================================================================
