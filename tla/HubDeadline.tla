----------------------------- MODULE HubDeadline -----------------------------
(***************************************************************************)
(* The read deadline of the sockets of the hub (internal/server/ws.go), and*)
(* what its comment says it is for.                                        *)
(*                                                                         *)
(* The handler sets the deadline once, ninety seconds ahead, and again for *)
(* each pong.  A pong is the answer to a ping of the server, and nothing in*)
(* the repository sends one: no step here renews a deadline.  What the page*)
(* does with a socket that is closed (it opens another) is outside.        *)
(***************************************************************************)
EXTENDS Hub, Integers

VARIABLES
  waited,   \* socket -> thirds of the deadline since it was set
  gone      \* the sockets whose client has closed them or lost its connection

deadlineVars == <<hubVars, waited, gone>>

ReadDeadline == 3

DeadlineInit ==
  /\ HubInit
  /\ waited = [c \in Sockets |-> 0]
  /\ gone = {}

\* ReadMessage returns an error for one of two reasons.
ReadMayFail(c) == c \in gone \/ waited[c] = ReadDeadline

\* A step of the hub.  The deadline is set after Add; a slot is used again for
\* another connection after Remove.
HubMoves ==
  /\ HubNext
  /\ \A c \in Sockets : ReadFails(c) => ReadMayFail(c)
  /\ waited' = [c \in Sockets |-> IF ws'[c] = "open" /\ ws[c] # "open" THEN 0 ELSE waited[c]]
  /\ gone' = {c \in gone : ws'[c] # "off"}

ClientLeaves(c) ==
  /\ ws[c] = "open" /\ c \notin gone
  /\ gone' = gone \cup {c}
  /\ UNCHANGED <<hubVars, waited>>

TimePasses ==
  /\ \E c \in Sockets : ws[c] = "open" /\ waited[c] < ReadDeadline
  /\ waited' = [c \in Sockets |->
       IF ws[c] = "open" /\ waited[c] < ReadDeadline THEN waited[c] + 1 ELSE waited[c]]
  /\ UNCHANGED <<hubVars, gone>>

DeadlineNext ==
  \/ HubMoves
  \/ \E c \in Sockets : ClientLeaves(c)
  \/ TimePasses

DeadlineSpec == DeadlineInit /\ [][DeadlineNext]_deadlineVars
-----------------------------------------------------------------------------
\* ws.go:37-38: "solo mantenemos la conexión viva con pings del protocolo
\* WebSocket".  The server gives up the sockets whose client has gone, and no other.
KeptAlive == \A c \in Sockets : ws[c] = "remove" => c \in gone
=============================================================================
