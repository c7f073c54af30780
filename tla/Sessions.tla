------------------------------ MODULE Sessions ------------------------------
(***************************************************************************)
(* What the rest of the server may rely on about a connection: the life of *)
(* a connection as a few steps, whatever goroutines make them.             *)
(*                                                                         *)
(* Connection shows that the goroutines of src/websocketv2 implement it;   *)
(* Rooms, whose actions are whole message handlers, uses connections in    *)
(* no other way.                                                           *)
(***************************************************************************)
CONSTANT Clients

VARIABLES
  phase,    \* "none", "open", "closed", and "out" once OnUserOut is done with
  reading   \* connections whose reader may still hand over a message

vars == <<phase, reading>>

Phases == {"none", "open", "closed", "out"}

Closed(S) == [c \in Clients |-> IF c \in S /\ phase[c] = "open"
                                THEN "closed" ELSE phase[c]]

Init ==
  /\ phase = [c \in Clients |-> "none"]
  /\ reading = {}

Open(c) ==
  /\ phase[c] = "none"
  /\ phase' = [phase EXCEPT ![c] = "open"]
  /\ reading' = reading \cup {c}

\* The reader gives up, and closes the connection if nobody has.
Quit(c) ==
  /\ c \in reading
  /\ phase' = Closed({c})
  /\ reading' = reading \ {c}

\* Somebody else closes connections; some of their readers may read on.
Close(S) ==
  /\ phase' = Closed(S)
  /\ \E stopped \in SUBSET S : reading' = reading \ stopped

\* The last words of a closed connection, spoken once.
Out(c) ==
  /\ phase[c] = "closed"
  /\ phase' = [phase EXCEPT ![c] = "out"]
  /\ UNCHANGED reading

Next ==
  \/ \E c \in Clients : Open(c) \/ Quit(c) \/ Out(c)
  \/ \E S \in SUBSET Clients : Close(S)

Spec == Init /\ [][Next]_vars

-----------------------------------------------------------------------------
TypeOK ==
  /\ phase \in [Clients -> Phases]
  /\ reading \in SUBSET Clients
=============================================================================
