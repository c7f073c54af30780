----------------------------- MODULE Connection -----------------------------
(***************************************************************************)
(* The goroutines of a connection and the hub (src/websocketv2): a reader  *)
(* and a writer per connection, the goroutine that accepted it and binds   *)
(* its callbacks afterwards, the handlers, which run in the readers and    *)
(* may close their own or another connection, the hub that receives closed *)
(* connections over an unbuffered channel, and a goroutine for each        *)
(* OnUserOut.                                                              *)
(*                                                                         *)
(* One action is one step between two points where goroutines can be       *)
(* interleaved: an access to shared fields, a channel operation, a system  *)
(* call.  What a message says is left out; what a handler can do to        *)
(* connections is kept.                                                    *)
(***************************************************************************)

CONSTANTS
  Clients,
  LateReaders     \* connections that have a frame left in their read buffer
                  \* when the socket is no longer open (one each: bound)

ASSUME LateReadersAssumption == LateReaders \subseteq Clients

VARIABLES
  hubUp,      \* SERVER_HUB has been created and Init ranges over unregister
  socket,     \* "none", "open", "cut" (peer gone), "shut" (conn.Close called)
  bound,      \* callbacks bound, of OnUserOutCallback and OnWorkData
  leftover,   \* connections with a frame that can still be read when the
              \* socket is not open
  isClosed,
  out,        \* what has become of the OnUserOut of a connection
  worked,     \* connections that have had a message handled
  thread      \* where each goroutine is

vars == <<hubUp, socket, bound, leftover, isClosed, out, worked, thread>>

Reader(c) == <<"reader", c>>
Writer(c) == <<"writer", c>>
Threads == {"reader", "writer"} \X Clients

(***************************************************************************)
(* A goroutine is at a label; while it runs cleanup (labels enter, send,   *)
(* shut) it closes connection `closes`, and `last` tells the deferred call *)
(* at its end from a Close() by a handler.                                 *)
(***************************************************************************)
Labels == {"none", "read", "work", "tail", "select", "enter", "send", "shut", "done"}

At(g, label) == thread[g].at = label
Goes(g, label) == thread' = [thread EXCEPT ![g].at = label]
Closes(g, c, last) ==
  thread' = [thread EXCEPT ![g] = [at |-> "enter", closes |-> c, last |-> last]]

\* The deferred cleanup of a goroutine that ends or panics.
Ends(g) == Closes(g, g[2], TRUE)

\* Return from cleanup.  A handler that has called Close does not do it again.
Returns(g) == Goes(g, IF thread[g].last THEN "done" ELSE "tail")

\* The hub is between receiving a connection and going on with its loop.
HubBusy == \E c \in Clients : out[c] = "taken"

-----------------------------------------------------------------------------
\* `go websocketv2.Init()` is on its way when the server starts to listen.
HubInit ==
  /\ ~hubUp
  /\ hubUp' = TRUE
  /\ UNCHANGED <<socket, bound, leftover, isClosed, out, worked, thread>>

\* CreateWebSocketClient: both goroutines start before it returns.
Accept(c) ==
  /\ socket[c] = "none"
  /\ socket' = [socket EXCEPT ![c] = "open"]
  /\ thread' = [thread EXCEPT ![Reader(c)].at = "read", ![Writer(c)].at = "select"]
  /\ UNCHANGED <<hubUp, bound, leftover, isClosed, out, worked>>

\* Slips (operators named Slip...) are mistakes the code could make at that
\* place; no specification uses them.
Callbacks == {"OnUserOut", "OnWorkData"}

SlipBound(now) == IF now = {} THEN {"OnWorkData"} ELSE Callbacks
Bound(now) == IF now = {} THEN {"OnUserOut"} ELSE Callbacks

\* CreateClient: OnUserOutCallback first, then OnWorkData.
Bind(c) ==
  /\ socket[c] # "none" /\ bound[c] # Callbacks
  /\ bound' = [bound EXCEPT ![c] = Bound(@)]
  /\ UNCHANGED <<hubUp, socket, leftover, isClosed, out, worked, thread>>

\* The peer goes away, misses its pongs or breaks the protocol.
PeerGone(c) ==
  /\ socket[c] = "open"
  /\ socket' = [socket EXCEPT ![c] = "cut"]
  /\ UNCHANGED <<hubUp, bound, leftover, isClosed, out, worked, thread>>

-----------------------------------------------------------------------------
\* The reader and the handlers it runs.

\* The peer of an open socket may always send a frame; a frame that is buffered
\* is read even from a socket that has been closed.  Calling a callback that is
\* not bound yet is a panic.
ReadFrame(c) ==
  /\ At(Reader(c), "read")
  /\ \/ socket[c] = "open" /\ UNCHANGED leftover
     \/ socket[c] # "open" /\ c \in leftover /\ leftover' = leftover \ {c}
  /\ \/ "OnWorkData" \notin bound[c] /\ Ends(Reader(c)) /\ UNCHANGED worked
     \/ /\ "OnWorkData" \in bound[c]
        /\ Goes(Reader(c), "work") /\ worked' = worked \cup {c}
  /\ UNCHANGED <<hubUp, socket, bound, isClosed, out>>

ReadFails(c) ==
  /\ At(Reader(c), "read") /\ socket[c] # "open"
  /\ Ends(Reader(c))
  /\ UNCHANGED <<hubUp, socket, bound, leftover, isClosed, out, worked>>

InHandler(c) == At(Reader(c), "work") \/ At(Reader(c), "tail")

\* Close() of the own connection (login refused or too late) or of the one on
\* which the account was logged in.
HandlerCloses(c, d) ==
  /\ At(Reader(c), "work")
  /\ d \in worked
  /\ Closes(Reader(c), d, FALSE)
  /\ UNCHANGED <<hubUp, socket, bound, leftover, isClosed, out, worked>>

HandlerPanics(c) ==
  /\ At(Reader(c), "work")
  /\ Ends(Reader(c))
  /\ UNCHANGED <<hubUp, socket, bound, leftover, isClosed, out, worked>>

HandlerReturns(c) ==
  /\ InHandler(c)
  /\ Goes(Reader(c), "read")
  /\ UNCHANGED <<hubUp, socket, bound, leftover, isClosed, out, worked>>

-----------------------------------------------------------------------------
\* The writer.

PingStops(c) == socket[c] # "open" \/ isClosed[c]

\* A write or a ping fails, or the writer sees at a tick that the connection has
\* been closed.  The first of them is long after the goroutine that accepted the
\* connection has bound the callbacks: the first ping is due after 54 seconds,
\* and before, messages are sent only to clients whose handlers have run.
WriterStops(c) ==
  /\ At(Writer(c), "select") /\ bound[c] = Callbacks
  /\ PingStops(c)
  /\ Ends(Writer(c))
  /\ UNCHANGED <<hubUp, socket, bound, leftover, isClosed, out, worked>>

-----------------------------------------------------------------------------
\* cleanup, by any goroutine.

SlipMarked(c) == FALSE
Marked(c) == isClosed[c]

Enter(g) ==
  /\ At(g, "enter")
  /\ IF Marked(thread[g].closes)
     THEN Returns(g) /\ UNCHANGED isClosed
     ELSE Goes(g, "send") /\ isClosed' = [isClosed EXCEPT ![thread[g].closes] = TRUE]
  /\ UNCHANGED <<hubUp, socket, bound, leftover, out, worked>>

\* SERVER_HUB is still nil: a panic, which in a handler leads to the deferred
\* cleanup of its own connection.
HubMissing(g) ==
  /\ At(g, "send") /\ ~hubUp
  /\ out' = [out EXCEPT ![thread[g].closes] = "lost"]
  /\ IF thread[g].last THEN Goes(g, "done") ELSE Ends(g)
  /\ UNCHANGED <<hubUp, socket, bound, leftover, isClosed, worked>>

\* The rendezvous on the channel unregister.
HubTakes(g) ==
  /\ At(g, "send") /\ hubUp /\ ~HubBusy
  /\ out' = [out EXCEPT ![thread[g].closes] = "taken"]
  /\ Goes(g, "shut")
  /\ UNCHANGED <<hubUp, socket, bound, leftover, isClosed, worked>>

SlipShutSocket(c) == socket
ShutSocket(c) == [socket EXCEPT ![c] = "shut"]

Shut(g) ==
  /\ At(g, "shut")
  /\ socket' = ShutSocket(thread[g].closes)
  /\ Returns(g)
  /\ UNCHANGED <<hubUp, bound, leftover, isClosed, out, worked>>

-----------------------------------------------------------------------------
Dispatched(c) == IF "OnUserOut" \in bound[c] THEN "spawned" ELSE "skipped"

\* The body of the hub's loop.
HubDispatch(c) ==
  /\ out[c] = "taken"
  /\ out' = [out EXCEPT ![c] = Dispatched(c)]
  /\ UNCHANGED <<hubUp, socket, bound, leftover, isClosed, worked, thread>>

OnUserOut(c) ==
  /\ out[c] = "spawned"
  /\ out' = [out EXCEPT ![c] = "ran"]
  /\ UNCHANGED <<hubUp, socket, bound, leftover, isClosed, worked, thread>>

-----------------------------------------------------------------------------
Init ==
  /\ hubUp = FALSE
  /\ socket = [c \in Clients |-> "none"]
  /\ bound = [c \in Clients |-> {}]
  /\ leftover = LateReaders
  /\ isClosed = [c \in Clients |-> FALSE]
  /\ out = [c \in Clients |-> "none"]
  /\ worked = {}
  /\ thread = [g \in Threads |-> [at |-> "none", closes |-> g[2], last |-> FALSE]]

ConnectionStep(c) ==
  \/ Accept(c) \/ Bind(c) \/ PeerGone(c)
  \/ ReadFrame(c) \/ ReadFails(c)
  \/ \E d \in Clients : HandlerCloses(c, d)
  \/ HandlerPanics(c) \/ HandlerReturns(c)
  \/ WriterStops(c)
  \/ HubDispatch(c) \/ OnUserOut(c)

CleanupStep(g) == Enter(g) \/ HubMissing(g) \/ HubTakes(g) \/ Shut(g)

Next ==
  \/ HubInit
  \/ \E c \in Clients : ConnectionStep(c)
  \/ \E g \in Threads : CleanupStep(g)

Spec == Init /\ [][Next]_vars

(***************************************************************************)
(* The Go scheduler runs every goroutine that can run; handlers return; a  *)
(* socket that is not open fails its reader; the ticker ticks.  Nothing is *)
(* assumed of the peers, nor that the hub is ever started.                 *)
(***************************************************************************)
Fairness ==
  \A c \in Clients :
     /\ WF_vars(Bind(c))
     /\ WF_vars(ReadFails(c) \/ HandlerReturns(c) \/ CleanupStep(Reader(c)))
     /\ WF_vars(WriterStops(c) \/ CleanupStep(Writer(c)))
     /\ WF_vars(HubDispatch(c) \/ OnUserOut(c))

FairSpec == Spec /\ Fairness

-----------------------------------------------------------------------------
TypeOK ==
  /\ hubUp \in BOOLEAN
  /\ socket \in [Clients -> {"none", "open", "cut", "shut"}]
  /\ bound \in [Clients -> SUBSET Callbacks]
  /\ leftover \in SUBSET LateReaders
  /\ isClosed \in [Clients -> BOOLEAN]
  /\ out \in [Clients -> {"none", "lost", "taken", "skipped", "spawned", "ran"}]
  /\ worked \in SUBSET Clients
  /\ thread \in [Threads -> [at : Labels, closes : Clients, last : BOOLEAN]]

\* The hub finds no OnUserOutCallback only for a connection that no handler
\* has ever run for: a client that could be in a room is never dropped without
\* OnUserOut, although the callbacks are bound while the reader runs already.
NoSessionSkipped == \A c \in Clients : out[c] = "skipped" => c \notin worked

\* However many goroutines call cleanup for a connection, one of them does it.
OneCleaner ==
  \A g, h \in Threads :
     /\ thread[g].at \in {"send", "shut"} /\ thread[h].at \in {"send", "shut"}
     /\ thread[g].closes = thread[h].closes
     => g = h

(***************************************************************************)
(* The abstract connection.  A connection that was closed while there was  *)
(* no hub stays "closed" for ever, and one that the hub skipped counts as  *)
(* out: nothing has been done for it that OnUserOut could undo.            *)
(***************************************************************************)
Phase(c) ==
  IF socket[c] = "none" THEN "none"
  ELSE IF ~isClosed[c] THEN "open"
  ELSE IF out[c] \in {"ran", "skipped"} THEN "out" ELSE "closed"

\* A reader in its deferred cleanup will not read again, but has not closed
\* the connection before it has entered.
Reads(c) ==
  LET t == thread[Reader(c)]
  IN  \/ t.at \in {"read", "work", "tail"}
      \/ t.at \in {"enter", "send", "shut"} /\ ~t.last
      \/ t.at = "enter" /\ t.last

Session == INSTANCE Sessions WITH
  phase <- [c \in Clients |-> Phase(c)],
  reading <- {c \in Clients : Reads(c)}

\* The goroutines implement the connection that Rooms relies on.
ImplementsSession == Session!Spec

-----------------------------------------------------------------------------
\* A closed connection gives back its two goroutines and its socket, whoever
\* closed it, and its OnUserOut runs, unless there was no hub to take it.
ClosedIsReleased ==
  \A c \in Clients :
     isClosed[c] ~> \/ out[c] = "lost"
                    \/ /\ socket[c] = "shut"
                       /\ At(Reader(c), "done") /\ At(Writer(c), "done")
                       /\ out[c] \in {"skipped", "ran"}
=============================================================================
