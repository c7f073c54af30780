----------------------------- MODULE Listeners -----------------------------
(***************************************************************************)
(* Messages to everybody and those who listen to them (server.go): the     *)
(* list of the latest messages, the history handed out of it, and for one  *)
(* notice (EVENT_GetServerMsg) the array of its listeners, over which a    *)
(* sender ranges while others listen, cancel and go offline.               *)
(*                                                                         *)
(* Push, Remove, Length and IndexOf of an Array are each under its lock;   *)
(* what a goroutine does between two such calls is one step.               *)
(***************************************************************************)
EXTENDS Lists

CONSTANTS
  Clients, NoClient,
  MaxMessages,   \* messages kept (100 in the code)
  MaxEvents      \* handlers and ends of connections after the first state (bound)

ASSUME ListenersAssumption ==
  /\ IsFiniteSet(Clients) /\ NoClient \notin Clients
  /\ MaxMessages \in Nat \ {0} /\ MaxEvents \in Nat

VARIABLES
  msglist,    \* App.msglist; a message is its number in the order of pushing
  sent,       \* messages pushed so far
  events,     \* handlers and ends of connections so far
  arrayOf,    \* App.listeners[op]: the client that created the Array, NoClient if
              \* there is none yet
  size,       \* of every Array: length and capacity of its List
  slots,      \* of every Array, the memory behind its List at each capacity it had
  reader,     \* what the goroutine of each client's reader is doing
  out,        \* clients whose OnUserOut has removed them from the listeners
  subscribed, \* clients that were told they listen, and have not cancelled or gone
              \* out since
  excused     \* clients whose OnUserOut ran in the middle of a handler of theirs, or
              \* whose Array another client has replaced by its own

listenVars ==
  <<msglist, sent, events, arrayOf, size, slots, reader, out, subscribed, excused>>
messages == <<msglist, sent>>
arrays == <<arrayOf, size, slots>>

\* append doubles the capacity of a slice of up to 256 elements, as these are.
Caps == 0..2 * Cardinality(Clients)
Grown(cap) == IF cap = 0 THEN 1 ELSE 2 * cap

\* The capacity of a slice to which n elements have been appended.
IsCapacity(cap, n) ==
  /\ cap = 0 \/ \E k \in 0..cap : cap = 2^k
  /\ n <= cap /\ (cap = 0 \/ cap < 2 * n)

(***************************************************************************)
(* `arr` is the Array a handler has got from the map.  A range over its    *)
(* List keeps the memory and the length it has found: it is at place i of  *)
(* `end` in the memory of capacity `cap`.  Of a notice, `told` counts how  *)
(* often each client was told, and `due` are the listeners it was begun    *)
(* with, but for those that have been removed since, or that a removal has *)
(* moved down when they were next.  A history request reads at i, has last *)
(* handed out the message `last`, and wanted `counts`.                     *)
(***************************************************************************)
Idle == [at |-> "idle", arr |-> NoClient, cap |-> 0, i |-> 0, end |-> 0,
         told |-> [c \in Clients |-> 0], due |-> {}, head |-> 0, last |-> 0,
         counts |-> 0]

List(a) == SubSeq(slots[a][size[a].cap], 1, size[a].len)
Listed == IF arrayOf = NoClient THEN {} ELSE Elems(List(arrayOf))

Goes(c, r) == reader' = [reader EXCEPT ![c] = r]
IsAt(c, at) == reader[c].at = at

-----------------------------------------------------------------------------
\* Array

\* In place when there is room, else in new memory.
Push(a, c) ==
  LET s == size[a]
      cap == IF s.len < s.cap THEN s.cap ELSE Grown(s.cap)
      old == IF cap = s.cap THEN slots[a][cap]
             ELSE [i \in 1..cap |-> IF i <= s.len THEN slots[a][s.cap][i] ELSE NoClient]
  IN  /\ size' = [size EXCEPT ![a] = [len |-> s.len + 1, cap |-> cap]]
      /\ slots' = [slots EXCEPT ![a][cap] = [old EXCEPT ![s.len + 1] = c]]

SlipMovesLast(mem, p, len) == [mem EXCEPT ![p] = mem[len]]
\* What is behind the removed element moves down; the last place keeps what it had.
Shifted(mem, p, len) ==
  [i \in DOMAIN mem |-> IF i \in p..(len - 1) THEN mem[i + 1] ELSE mem[i]]

PlaceOf(a, c) == Least({i \in DOMAIN List(a) : List(a)[i] = c})

\* The readers `rs` after c has been removed from the Array a: a range over that memory
\* has passed the place to which the next listener, if it is behind c, moves down.
Ranging(rs, a, c) ==
  LET passed(r) == {List(a)[i] : i \in {i \in {r.i} \cap DOMAIN List(a) : PlaceOf(a, c) < i}}
  IN  [d \in Clients |->
         IF rs[d].at = "range" /\ rs[d].arr = a /\ rs[d].cap = size[a].cap
         THEN [rs[d] EXCEPT !.due = @ \ (passed(rs[d]) \cup {c})] ELSE rs[d]]

Remove(a, c, rs) ==
  IF a = NoClient \/ c \notin Elems(List(a)) THEN reader' = rs /\ UNCHANGED <<size, slots>>
  ELSE /\ slots' = [slots EXCEPT ![a][size[a].cap] =
                      Shifted(@, PlaceOf(a, c), size[a].len)]
       /\ size' = [size EXCEPT ![a].len = @ - 1]
       /\ reader' = Ranging(rs, a, c)

-----------------------------------------------------------------------------
\* The handlers of listeners.

Happens == events < MaxEvents /\ events' = events + 1

\* OnMessage does not ask whether the connection is gone: frames that were buffered
\* are handled after its OnUserOut.
Handles(c) == IsAt(c, "idle") /\ Happens

\* The map is looked up; when it has no Array, one is put in, whoever has put one in
\* meanwhile.
ListenerServer(c) ==
  /\ Handles(c)
  /\ Goes(c, IF arrayOf = NoClient THEN [Idle EXCEPT !.at = "create"]
             ELSE [Idle EXCEPT !.at = "look", !.arr = arrayOf])
  /\ UNCHANGED <<arrayOf, size, slots, messages, out, subscribed, excused>>

CreateArray(c) ==
  /\ IsAt(c, "create")
  /\ arrayOf' = c
  /\ excused' = excused \cup Listed
       \cup {d \in Clients : arrayOf # NoClient /\ reader[d].arr = arrayOf}
  /\ Goes(c, [Idle EXCEPT !.at = "look", !.arr = c])
  /\ UNCHANGED <<events, size, slots, messages, out, subscribed>>

SlipNeverLooks(c) == TRUE
IsNew(c) == c \notin Elems(List(reader[c].arr))

LookUp(c) ==
  /\ IsAt(c, "look")
  /\ Goes(c, [reader[c] EXCEPT !.at = IF IsNew(c) THEN "push" ELSE "tell"])
  /\ UNCHANGED <<events, arrays, messages, out, subscribed, excused>>

PushListener(c) ==
  /\ IsAt(c, "push")
  /\ Push(reader[c].arr, c)
  /\ Goes(c, [reader[c] EXCEPT !.at = "tell"])
  /\ UNCHANGED <<events, arrayOf, messages, out, subscribed, excused>>

TellListener(c) ==
  /\ IsAt(c, "tell")
  /\ subscribed' = subscribed \cup {c}
  /\ Goes(c, Idle)
  /\ UNCHANGED <<events, arrays, messages, out, excused>>

CannelListenerServer(c) ==
  /\ Handles(c)
  /\ Remove(arrayOf, c, reader)
  /\ subscribed' = subscribed \ {c}
  /\ UNCHANGED <<arrayOf, messages, out, excused>>

\* OnUserOut, whatever the reader is doing.
RemoveAllListeners(c) ==
  /\ c \notin out /\ out' = out \cup {c} /\ Happens
  /\ Remove(arrayOf, c, reader)
  /\ subscribed' = subscribed \ {c}
  /\ excused' = IF IsAt(c, "idle") THEN excused ELSE excused \cup {c}
  /\ UNCHANGED <<arrayOf, messages>>

-----------------------------------------------------------------------------
\* A message to everybody.

SlipNewestFirst(list, m) == <<m>> \o list
Pushed(list, m) == Append(list, m)

SendServerMsg(c) ==
  /\ Handles(c)
  /\ sent' = sent + 1
  /\ msglist' = Pushed(msglist, sent + 1)
  /\ Goes(c, [Idle EXCEPT !.at = "count"])
  /\ UNCHANGED <<arrays, out, subscribed, excused>>

TooMany(list) == Len(list) > MaxMessages

CountMessages(c) ==
  /\ IsAt(c, "count")
  /\ Goes(c, [reader[c] EXCEPT !.at = IF TooMany(msglist) THEN "first" ELSE "notify"])
  /\ UNCHANGED <<events, arrays, messages, out, subscribed, excused>>

\* The first of the list, which others may have made shorter since it was counted.
TakeFirst(c) ==
  /\ IsAt(c, "first")
  /\ Goes(c, IF msglist = <<>> THEN [Idle EXCEPT !.at = "ended"]
             ELSE [reader[c] EXCEPT !.at = "drop", !.head = msglist[1]])
  /\ UNCHANGED <<events, arrays, messages, out, subscribed, excused>>

SlipDropsNewest(list, m) == Keep(list, Elems(list) \ {list[Len(list)]})
\* The element that was first, wherever it is now.
Dropped(list, m) == Keep(list, Elems(list) \ {m})

DropMessage(c) ==
  /\ IsAt(c, "drop")
  /\ msglist' = Dropped(msglist, reader[c].head)
  /\ Goes(c, [reader[c] EXCEPT !.at = "notify", !.head = 0])
  /\ UNCHANGED <<events, arrays, sent, out, subscribed, excused>>

Notify(c) ==
  /\ IsAt(c, "notify")
  /\ Goes(c, IF arrayOf = NoClient THEN Idle
             ELSE [Idle EXCEPT !.at = "range", !.arr = arrayOf,
                               !.cap = size[arrayOf].cap, !.i = 1,
                               !.end = size[arrayOf].len, !.due = Listed \ {c}])
  /\ UNCHANGED <<events, arrays, messages, out, subscribed, excused>>

Ranges(c) == IsAt(c, "range") /\ UNCHANGED <<events, arrays, messages, out, subscribed, excused>>

TellNext(c) ==
  LET r == reader[c]
      d == slots[r.arr][r.cap][r.i]
  IN  /\ Ranges(c) /\ r.i <= r.end
      /\ Goes(c, [r EXCEPT !.i = @ + 1, !.told[d] = IF d = c THEN @ ELSE @ + 1])

EndOfRange(c) == Ranges(c) /\ reader[c].i > reader[c].end /\ Goes(c, Idle)

-----------------------------------------------------------------------------
\* The history: the last `counts` messages, one by one.  The list may get shorter
\* between any two looks at its length.

Asks(c) == UNCHANGED <<arrays, messages, out, subscribed, excused>>

GetServerOldMsg(c) ==
  /\ Handles(c) /\ Asks(c)
  /\ \E n \in 1..(MaxMessages + 1) :
       Goes(c, IF n > Len(msglist) THEN [Idle EXCEPT !.at = "clip"]
               ELSE [Idle EXCEPT !.at = "start", !.counts = n])

ClipCounts(c) ==
  /\ IsAt(c, "clip") /\ Asks(c) /\ UNCHANGED events
  /\ Goes(c, IF msglist = <<>> THEN Idle
             ELSE [Idle EXCEPT !.at = "start", !.counts = Len(msglist)])

FirstPlace(c) ==
  /\ IsAt(c, "start") /\ Asks(c) /\ UNCHANGED events
  /\ Goes(c, [reader[c] EXCEPT !.at = "length", !.i = Len(msglist) - reader[c].counts + 1])

LookAtLength(c) ==
  /\ IsAt(c, "length") /\ Asks(c) /\ UNCHANGED events
  /\ Goes(c, IF reader[c].i <= Len(msglist) THEN [reader[c] EXCEPT !.at = "read"]
             ELSE Idle)

\* A place that is not, or no longer, in the list is a panic that ends the reader.
HandOut(c) ==
  LET i == reader[c].i
  IN  /\ IsAt(c, "read") /\ Asks(c) /\ UNCHANGED events
      /\ Goes(c, IF i \in DOMAIN msglist
                 THEN [reader[c] EXCEPT !.at = "length", !.i = @ + 1, !.last = msglist[i]]
                 ELSE [Idle EXCEPT !.at = "ended"])

-----------------------------------------------------------------------------
\* Clients that have begun to listen one after the other, and messages sent one after
\* the other.
ListenInit ==
  /\ \E n \in 0..MaxMessages : msglist = [i \in 1..n |-> i] /\ sent = n
  /\ \E n \in 0..Cardinality(Clients) : \E list \in [1..n -> Clients], cap \in Caps :
       LET a == IF n = 0 THEN NoClient ELSE list[1]
       IN  /\ NoDuplicates(list) /\ IsCapacity(cap, n)
           /\ arrayOf = a /\ subscribed = Elems(list)
           /\ size = [b \in Clients |-> IF b = a THEN [len |-> n, cap |-> cap]
                                        ELSE [len |-> 0, cap |-> 0]]
           /\ slots = [b \in Clients |-> [m \in Caps |-> [i \in 1..m |->
                         IF b = a /\ m = cap /\ i <= n THEN list[i] ELSE NoClient]]]
  /\ reader = [c \in Clients |-> Idle]
  /\ events = 0 /\ out = {} /\ excused = {}

ListenNext ==
  \E c \in Clients :
    \/ ListenerServer(c) \/ CreateArray(c) \/ LookUp(c) \/ PushListener(c)
    \/ TellListener(c) \/ CannelListenerServer(c) \/ RemoveAllListeners(c)
    \/ SendServerMsg(c) \/ CountMessages(c) \/ TakeFirst(c) \/ DropMessage(c)
    \/ Notify(c) \/ TellNext(c) \/ EndOfRange(c)
    \/ GetServerOldMsg(c) \/ ClipCounts(c) \/ FirstPlace(c) \/ LookAtLength(c)
    \/ HandOut(c)

ListenSpec == ListenInit /\ [][ListenNext]_listenVars

-----------------------------------------------------------------------------
Labels == {"idle", "create", "look", "push", "tell", "count", "first", "drop", "notify",
           "range", "clip", "start", "length", "read", "ended"}

ListenTypeOK ==
  /\ msglist \in Seq(1..sent) /\ sent \in Nat /\ events \in 0..MaxEvents
  /\ arrayOf \in Clients \cup {NoClient}
  /\ \A a \in Clients : size[a].cap \in Caps /\ size[a].len \in 0..size[a].cap
  /\ \A a \in Clients : Elems(List(a)) \subseteq Clients
  /\ \A c \in Clients : reader[c].at \in Labels /\ reader[c].due \subseteq Clients
  /\ out \subseteq Clients /\ subscribed \subseteq Clients /\ excused \subseteq Clients

\* Types, and the places of an Array up to its length are filled; and the list is a
\* run of the messages in the order they were sent, up to the latest, whoever pushes
\* while others trim; each that trims takes at most one message too many.
LatestKept ==
  /\ ListenTypeOK
  /\ msglist = [i \in 1..Len(msglist) |-> sent - Len(msglist) + i]
  /\ \/ Len(msglist) = sent
     \/ Len(msglist) > MaxMessages - Cardinality(Clients)

\* No message is handed out twice, nor after a later one, in one answer, whatever is
\* sent and trimmed meanwhile.
HistoryInOrder ==
  [][\A c \in Clients :
       IsAt(c, "read") /\ reader'[c].at = "length" =>
         reader'[c].last > reader[c].last]_listenVars

\* A listener that is there when a notice begins to go round is told, whoever comes
\* and goes meanwhile, unless he is removed himself, or one who has been told already
\* is removed just before he would be told.
NoticeReaches ==
  \A c \in Clients :
     IsAt(c, "range") /\ reader[c].i > reader[c].end =>
       \A d \in reader[c].due : reader[c].told[d] >= 1

\* Who was told that he listens is in the list, once, until he cancels or goes out,
\* and nobody else is; but for the excused.  (A connection that is gone gets back
\* into the list by a request that its reader handles late, and then stays for ever.)
SubscribersListed ==
  \A c \in Clients \ excused :
     IsAt(c, "idle") =>
       /\ c \in subscribed <=> c \in Listed
       /\ arrayOf # NoClient =>
            Cardinality({i \in DOMAIN List(arrayOf) : List(arrayOf)[i] = c}) <= 1
=============================================================================
