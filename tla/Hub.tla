--------------------------------- MODULE Hub ---------------------------------
(***************************************************************************)
(* The events in real time (internal/server/hub.go, internal/server/ws.go):*)
(* a map of the open WebSockets under a sync.RWMutex, and a mutex per      *)
(* socket for writing.                                                     *)
(*                                                                         *)
(* The RWMutex is Go's: a Lock announces itself and then waits for the     *)
(* readers that were there; an RLock waits for an announced Lock; an       *)
(* Unlock lets in the readers that wait before the next Lock.              *)
(*                                                                         *)
(* A client may stop reading, and a write to it then blocks with both      *)
(* locks held: the code sets no write deadline.                            *)
(***************************************************************************)
CONSTANTS
  Sockets,     \* WebSockets open at once: a bound of the model
  UserOf,      \* socket -> its user
  Publishers,  \* goroutines that publish at once: a bound of the model
  None

ASSUME HubAssumption == None \notin Sockets \cup Publishers

VARIABLES
  clients,  \* the sockets in the map
  ws,       \* handleWS per socket: "off", "add", "open", "remove"
  pending,  \* the socket whose handler has announced its Lock, or None
  pub,      \* the publishers
  writer,   \* the mutex of each socket: the publisher that holds it, or None
  stalled   \* the sockets whose client does not read

hubVars == <<clients, ws, pending, pub, writer, stalled>>

Silent == [stage |-> "idle", left |-> {}, at |-> None]
PubStates ==
  [stage : {"idle", "rlock", "iterate", "lock", "write"},
   left : SUBSET Sockets, at : Sockets \cup {None}]

\* Who holds the read lock.
Reading(p) == pub[p].stage \in {"iterate", "lock", "write"}

HubInit ==
  /\ clients = {}
  /\ ws = [c \in Sockets |-> "off"]
  /\ pending = None
  /\ pub = [p \in Publishers |-> Silent]
  /\ writer = [c \in Sockets |-> None]
  /\ stalled = {}
-----------------------------------------------------------------------------
\* handleWS after the upgrade.
Upgrade(c) ==
  /\ ws[c] = "off"
  /\ ws' = [ws EXCEPT ![c] = "add"]
  /\ UNCHANGED <<clients, pending, pub, writer, stalled>>

\* ReadMessage returns an error: the client is gone, or ninety seconds have
\* passed.  Only pongs renew the deadline, and nothing sends pings.
ReadFails(c) ==
  /\ ws[c] = "open"
  /\ ws' = [ws EXCEPT ![c] = "remove"]
  /\ UNCHANGED <<clients, pending, pub, writer, stalled>>

\* Lock, first half.
Announce(c) ==
  /\ ws[c] \in {"add", "remove"}
  /\ pending = None
  /\ pending' = c
  /\ UNCHANGED <<clients, ws, pub, writer, stalled>>

\* Mutant: Add and Remove do not wait for the readers.
ExclusiveAlways(c) == pending = c

\* Lock, second half.
Exclusive(c) == pending = c /\ \A p \in Publishers : ~Reading(p)

\* What a publisher iterates over: the sockets of the users in the map.
Targets(users) == {c \in clients' : UserOf[c] \in users}

\* Unlock.  The publishers that wait get the read lock.
Unlock ==
  /\ pending' = None
  /\ \E users \in [Publishers -> SUBSET {UserOf[c] : c \in Sockets}] :
       pub' = [p \in Publishers |->
                 IF pub[p].stage = "rlock"
                 THEN [stage |-> "iterate", left |-> Targets(users[p]), at |-> None]
                 ELSE pub[p]]

Add(c) ==
  /\ ws[c] = "add" /\ Exclusive(c)
  /\ clients' = clients \cup {c}
  /\ ws' = [ws EXCEPT ![c] = "open"]
  /\ Unlock
  /\ UNCHANGED <<writer, stalled>>

\* Mutant: handleWS returns without its deferred Remove.
WithoutNone(c) == clients

Without(c) == clients \ {c}

Remove(c) ==
  /\ ws[c] = "remove" /\ Exclusive(c)
  /\ clients' = Without(c)
  /\ ws' = [ws EXCEPT ![c] = "off"]
  /\ Unlock
  /\ stalled' = stalled \ {c}
  /\ UNCHANGED writer
-----------------------------------------------------------------------------
\* Publish up to RLock, with any users.
Publish(p) ==
  /\ pub[p].stage = "idle"
  /\ IF pending # None
     THEN pub' = [pub EXCEPT ![p].stage = "rlock"]
     ELSE \E users \in SUBSET {UserOf[c] : c \in Sockets} :
            pub' = [pub EXCEPT ![p] = [stage |-> "iterate", at |-> None,
                                       left |-> {c \in clients : UserOf[c] \in users}]]
  /\ UNCHANGED <<clients, ws, pending, writer, stalled>>

\* The next socket, in the order of a Go map: any.
NextSocket(p) ==
  /\ pub[p].stage = "iterate"
  /\ IF pub[p].left = {}
     THEN pub' = [pub EXCEPT ![p] = Silent]     \* RUnlock
     ELSE \E c \in pub[p].left :
            pub' = [pub EXCEPT ![p] = [stage |-> "lock", at |-> c, left |-> @.left \ {c}]]
  /\ UNCHANGED <<clients, ws, pending, writer, stalled>>

\* Mutant: the mutex of the socket is not taken into account.
FreeAlways(c) == TRUE

Free(c) == writer[c] = None

LockSocket(p) ==
  /\ pub[p].stage = "lock" /\ Free(pub[p].at)
  /\ writer' = [writer EXCEPT ![pub[p].at] = p]
  /\ pub' = [pub EXCEPT ![p].stage = "write"]
  /\ UNCHANGED <<clients, ws, pending, stalled>>

\* Mutant: a write that fails is tried again.
AfterWriteRetry(p) ==
  IF ws[pub[p].at] = "open" THEN [pub[p] EXCEPT !.stage = "iterate", !.at = None]
  ELSE [pub[p] EXCEPT !.stage = "lock"]

\* Mutant: the loop ends with a write that fails.
AfterWriteGivesUp(p) ==
  IF ws[pub[p].at] = "open" THEN [pub[p] EXCEPT !.stage = "iterate", !.at = None]
  ELSE [pub[p] EXCEPT !.stage = "iterate", !.at = None, !.left = {}]

\* If it fails, the connection is left to its own handler.
AfterWrite(p) == [pub[p] EXCEPT !.stage = "iterate", !.at = None]

\* Mutant: a write that fails returns before the Unlock.
WriteEndsLocked(p) ==
  /\ pub[p].stage = "write" /\ pub[p].at \notin stalled
  /\ writer' = IF ws[pub[p].at] = "open" THEN [writer EXCEPT ![pub[p].at] = None] ELSE writer
  /\ pub' = [pub EXCEPT ![p] = AfterWrite(p)]
  /\ UNCHANGED <<clients, ws, pending, stalled>>

\* WriteMessage returns, with or without an error.
WriteEnds(p) ==
  /\ pub[p].stage = "write" /\ pub[p].at \notin stalled
  /\ writer' = [writer EXCEPT ![pub[p].at] = None]
  /\ pub' = [pub EXCEPT ![p] = AfterWrite(p)]
  /\ UNCHANGED <<clients, ws, pending, stalled>>

\* A client stops reading with its buffers full; it reads again, or the system
\* gives the connection up and the write fails.
Stall(c) ==
  /\ ws[c] = "open" /\ c \notin stalled
  /\ stalled' = stalled \cup {c}
  /\ UNCHANGED <<clients, ws, pending, pub, writer>>

Unstall(c) ==
  /\ c \in stalled
  /\ stalled' = stalled \ {c}
  /\ UNCHANGED <<clients, ws, pending, pub, writer>>

HubNext ==
  \/ \E c \in Sockets : \/ Upgrade(c) \/ ReadFails(c) \/ Announce(c) \/ Add(c) \/ Remove(c)
                        \/ Stall(c) \/ Unstall(c)
  \/ \E p \in Publishers : Publish(p) \/ NextSocket(p) \/ LockSocket(p) \/ WriteEnds(p)

\* Goroutines run; a free mutex is given in turn to those that wait for it
\* (Go's mutexes do not starve); and a client stalls for a finite time, which TCP
\* and the client grant, not the code.
HubFairness ==
  /\ \A c \in Sockets : WF_hubVars(Add(c)) /\ WF_hubVars(Remove(c)) /\ WF_hubVars(Unstall(c))
  /\ \A p \in Publishers : /\ WF_hubVars(NextSocket(p)) /\ SF_hubVars(LockSocket(p))
                           /\ SF_hubVars(WriteEnds(p))

HubSpec == HubInit /\ [][HubNext]_hubVars /\ HubFairness
-----------------------------------------------------------------------------
\* Types; the map holds the sockets whose handler is between Add and Remove.
HubTypeOK ==
  /\ clients = {c \in Sockets : ws[c] \in {"open", "remove"}}
  /\ ws \in [Sockets -> {"off", "add", "open", "remove"}]
  /\ pending \in Sockets \cup {None}
  /\ pub \in [Publishers -> PubStates]
  /\ writer \in [Sockets -> Publishers \cup {None}]
  /\ stalled \subseteq Sockets

\* Whoever writes to a socket is the only one (gorilla/websocket allows one
\* concurrent writer), and the map does not lose a socket that a publisher has
\* still to reach: no write to a connection whose handler has returned.
WritesAreSafe ==
  \A p \in Publishers :
    /\ pub[p].stage = "write" =>
         \A q \in Publishers : pub[q].stage = "write" /\ pub[q].at = pub[p].at => q = p
    /\ Reading(p) => pub[p].left \cup ({pub[p].at} \ {None}) \subseteq clients

\* The hub keeps the promise of Broadcast: an event is written once, and once only,
\* to every socket its users have open when Publish gets the read lock, and a write
\* that fails costs the others nothing.
Busy    == {p \in Publishers : Reading(p)}
Due     == [p \in Publishers |->
              IF Reading(p) THEN pub[p].left \cup ({pub[p].at} \ {None}) ELSE {}]
Writing == [p \in Publishers |-> IF pub[p].stage = "write" THEN {pub[p].at} ELSE {}]
Promise == INSTANCE Broadcast WITH
  members <- clients, busy <- Busy, due <- Due, writing <- Writing
ImplementsBroadcast == Promise!Spec

\* The read lock, an announced Lock and the mutexes of the sockets never wait for
\* each other in a circle, and no waiter is forgotten: while a publication is
\* under way or a Lock announced, one of those can take its next step (a write,
\* as soon as its client or TCP lets it).
CanGo(p) ==
  \/ pub[p].stage \in {"iterate", "write"}
  \/ pub[p].stage = "lock" /\ Free(pub[p].at)
SomebodyGoesOn ==
  pending # None \/ (\E p \in Publishers : pub[p].stage # "idle") =>
    \/ \E p \in Publishers : CanGo(p)
    \/ pending # None /\ ws[pending] \in {"add", "remove"} /\ Exclusive(pending)

\* Every publication ends, whatever the others, the new connections and the
\* lost ones do meanwhile: the run of the scheduler that publishes goes on.
PublishEnds == \A p \in Publishers : []<>(pub[p].stage = "idle")
=============================================================================
