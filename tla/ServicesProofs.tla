---------------------------- MODULE ServicesProofs ----------------------------
(***************************************************************************)
(* Proofs about the hub, the ping tool and the opening of the database.    *)
(* They share no variable; each has its own invariant.                     *)
(***************************************************************************)
EXTENDS Hub, PingSession, Migration, TLAPS

-----------------------------------------------------------------------------
(***************************************************************************)
(* Writes to the sockets are safe, for any number of sockets, users and    *)
(* publishers.                                                             *)
(*                                                                         *)
(* WritesAreSafe is not inductive: it does not say that whoever writes     *)
(* holds the mutex of the socket, nor that a socket to be locked exists.   *)
(* PublisherInv does.                                                      *)
(***************************************************************************)
\* Of publisher p in state x, with these sockets in the map and these mutexes held.
PublisherInv(p, x, map, held) ==
  /\ x.stage \in {"lock", "write"} => x.at \in Sockets
  /\ x.stage = "write" => held[x.at] = p
  /\ x.stage \in {"iterate", "lock", "write"} => x.left \cup ({x.at} \ {None}) \subseteq map
  /\ x.stage \in {"lock", "write"} => x.at \notin x.left
  /\ x.stage = "iterate" => x.at = None

HubInv ==
  /\ HubTypeOK
  /\ \A p \in Publishers : PublisherInv(p, pub[p], clients, writer)
-----------------------------------------------------------------------------
LEMMA HubStart == HubInit => HubInv
<1> SUFFICES ASSUME HubInit PROVE HubInv
  OBVIOUS
<1>1. Silent \in PubStates /\ Silent.stage = "idle"
  BY DEF Silent, PubStates
<1>2. pub = [p \in Publishers |-> Silent]
  BY DEF HubInit
<1>3. HubTypeOK
  BY <1>1, <1>2 DEF HubInit, HubTypeOK
<1>4. \A p \in Publishers : PublisherInv(p, pub[p], clients, writer)
  BY <1>1, <1>2 DEF PublisherInv
<1> QED BY <1>3, <1>4 DEF HubInv

\* A step of the sockets that leaves the map, the publishers and the mutexes alone.
LEMMA SocketMoves ==
  ASSUME HubInv, UNCHANGED <<clients, pub, writer>>,
         ws' \in [Sockets -> {"off", "add", "open", "remove"}],
         \A c \in Sockets : ws'[c] \in {"open", "remove"} <=> ws[c] \in {"open", "remove"},
         pending' \in Sockets \cup {None}, stalled' \subseteq Sockets
  PROVE  HubInv'
  BY DEF HubInv, HubTypeOK, PublisherInv

\* An Unlock: publishers that wait begin with sockets of the map as it is then.
LEMMA UnlockPreserves ==
  ASSUME HubInv, Unlock, UNCHANGED writer,
         ws' \in [Sockets -> {"off", "add", "open", "remove"}],
         clients' = {c \in Sockets : ws'[c] \in {"open", "remove"}},
         stalled' \subseteq Sockets,
         \A p \in Publishers : ~Reading(p)
  PROVE  HubInv'
<1>1. PICK users \in [Publishers -> SUBSET {UserOf[c] : c \in Sockets}] :
        pub' = [p \in Publishers |->
                  IF pub[p].stage = "rlock"
                  THEN [stage |-> "iterate", left |-> Targets(users[p]), at |-> None]
                  ELSE pub[p]]
  BY DEF Unlock
<1>2. ASSUME NEW p \in Publishers
      PROVE  pub'[p] \in PubStates /\ PublisherInv(p, pub'[p], clients', writer')
  <2> DEFINE t == Targets(users[p])
             x == [stage |-> "iterate", left |-> t, at |-> None]
  <2>1. CASE pub[p].stage = "rlock"
    <3>1. pub'[p] = x
      BY <1>1, <2>1
    <3>2. t \subseteq clients' /\ t \subseteq Sockets
      BY DEF Targets
    <3> HIDE DEF t
    <3>3. x \in PubStates /\ x.stage = "iterate" /\ x.left = t /\ x.at = None
      BY <3>2 DEF PubStates
    <3> HIDE DEF x
    <3> QED BY <3>1, <3>2, <3>3 DEF PublisherInv
  <2>2. CASE pub[p].stage # "rlock"
    <3>1. pub'[p] = pub[p]
      BY <1>1, <2>2
    <3> QED BY <3>1 DEF HubInv, HubTypeOK, PublisherInv, Reading
  <2> QED BY <2>1, <2>2
<1>3. pub' \in [Publishers -> PubStates]
  BY <1>1, <1>2
<1>4. pending' \in Sockets \cup {None}
  BY DEF Unlock
<1>5. HubTypeOK'
  BY <1>3, <1>4 DEF HubInv, HubTypeOK
<1> QED BY <1>2, <1>5 DEF HubInv

\* A publisher goes on, with the map as it is and no mutex of another touched.
LEMMA PublisherMoves ==
  ASSUME HubInv, NEW p \in Publishers, NEW x \in PubStates,
         UNCHANGED <<clients, ws, pending, stalled>>,
         pub' = [pub EXCEPT ![p] = x],
         writer' \in [Sockets -> Publishers \cup {None}],
         PublisherInv(p, x, clients, writer'),
         \A q \in Publishers : q # p =>
           \A c \in Sockets : writer[c] = q => writer'[c] = q
  PROVE  HubInv'
<1>1. /\ pub' \in [Publishers -> PubStates] /\ pub'[p] = x
      /\ \A q \in Publishers : q # p => pub'[q] = pub[q]
  BY DEF HubInv, HubTypeOK
<1>2. HubTypeOK'
  BY <1>1 DEF HubInv, HubTypeOK
<1>3. \A q \in Publishers : PublisherInv(q, pub'[q], clients', writer')
  BY <1>1 DEF HubInv, PublisherInv
<1> QED BY <1>2, <1>3 DEF HubInv
-----------------------------------------------------------------------------
LEMMA SocketStepPreserves ==
  ASSUME HubInv, NEW c \in Sockets,
         \/ Upgrade(c) \/ ReadFails(c) \/ Announce(c) \/ Add(c) \/ Remove(c)
         \/ Stall(c) \/ Unstall(c)
  PROVE  HubInv'
<1>1. CASE Upgrade(c)
  BY <1>1, SocketMoves DEF Upgrade, HubInv, HubTypeOK
<1>2. CASE ReadFails(c)
  BY <1>2, SocketMoves DEF ReadFails, HubInv, HubTypeOK
<1>3. CASE Announce(c)
  BY <1>3, SocketMoves DEF Announce, HubInv, HubTypeOK
<1>4. CASE Add(c)
  <2>1. /\ ws' \in [Sockets -> {"off", "add", "open", "remove"}]
        /\ clients' = {d \in Sockets : ws'[d] \in {"open", "remove"}}
        /\ stalled' \subseteq Sockets
    BY <1>4 DEF Add, HubInv, HubTypeOK
  <2> QED BY <1>4, <2>1, UnlockPreserves DEF Add, Exclusive
<1>5. CASE Remove(c)
  <2>1. /\ ws' \in [Sockets -> {"off", "add", "open", "remove"}]
        /\ clients' = {d \in Sockets : ws'[d] \in {"open", "remove"}}
        /\ stalled' \subseteq Sockets
    BY <1>5 DEF Remove, Without, HubInv, HubTypeOK
  <2> QED BY <1>5, <2>1, UnlockPreserves DEF Remove, Exclusive
<1>6. CASE Stall(c)
  BY <1>6, SocketMoves DEF Stall, HubInv, HubTypeOK
<1>7. CASE Unstall(c)
  BY <1>7, SocketMoves DEF Unstall, HubInv, HubTypeOK
<1> QED BY <1>1, <1>2, <1>3, <1>4, <1>5, <1>6, <1>7

LEMMA PublishPreserves ==
  ASSUME HubInv, NEW p \in Publishers, Publish(p)
  PROVE  HubInv'
<1>1. pub[p] \in PubStates /\ pub[p].stage = "idle"
  BY DEF Publish, HubInv, HubTypeOK
<1>2. UNCHANGED <<clients, ws, pending, stalled, writer>>
  BY DEF Publish
<1>3. writer' \in [Sockets -> Publishers \cup {None}]
  BY <1>2 DEF HubInv, HubTypeOK
<1>4. CASE pending # None
  <2> DEFINE x == [pub[p] EXCEPT !.stage = "rlock"]
  <2>1. pub' = [pub EXCEPT ![p] = x]
    BY <1>4 DEF Publish, HubInv, HubTypeOK
  <2>2. x \in PubStates /\ x.stage = "rlock"
    BY <1>1 DEF PubStates
  <2> HIDE DEF x
  <2>3. PublisherInv(p, x, clients, writer')
    BY <2>2 DEF PublisherInv
  <2> QED BY <1>2, <1>3, <2>1, <2>2, <2>3, PublisherMoves
<1>5. CASE pending = None
  <2>1. PICK users \in SUBSET {UserOf[c] : c \in Sockets} :
          pub' = [pub EXCEPT ![p] = [stage |-> "iterate", at |-> None,
                                     left |-> {c \in clients : UserOf[c] \in users}]]
    BY <1>5 DEF Publish
  <2> DEFINE t == {c \in clients : UserOf[c] \in users}
             x == [stage |-> "iterate", at |-> None, left |-> t]
  <2>2. t \subseteq clients /\ t \subseteq Sockets
    BY DEF HubInv, HubTypeOK
  <2>3. pub' = [pub EXCEPT ![p] = x]
    BY <2>1
  <2> HIDE DEF t
  <2>4. x \in PubStates /\ x.stage = "iterate" /\ x.left = t /\ x.at = None
    BY <2>2 DEF PubStates
  <2> HIDE DEF x
  <2>5. PublisherInv(p, x, clients, writer')
    BY <2>2, <2>4 DEF PublisherInv
  <2> QED BY <1>2, <1>3, <2>3, <2>4, <2>5, PublisherMoves
<1> QED BY <1>4, <1>5

LEMMA NextSocketPreserves ==
  ASSUME HubInv, NEW p \in Publishers, NextSocket(p)
  PROVE  HubInv'
<1>1. /\ pub[p] \in PubStates /\ pub[p].stage = "iterate"
      /\ PublisherInv(p, pub[p], clients, writer)
  BY DEF NextSocket, HubInv, HubTypeOK
<1>2. UNCHANGED <<clients, ws, pending, stalled, writer>>
  BY DEF NextSocket
<1>3. writer' \in [Sockets -> Publishers \cup {None}]
  BY <1>2 DEF HubInv, HubTypeOK
<1>4. CASE pub[p].left = {}
  <2>1. Silent \in PubStates /\ Silent.stage = "idle"
    BY DEF Silent, PubStates
  <2>2. PublisherInv(p, Silent, clients, writer')
    BY <2>1 DEF PublisherInv
  <2>3. pub' = [pub EXCEPT ![p] = Silent]
    BY <1>4 DEF NextSocket
  <2> QED BY <1>2, <1>3, <2>1, <2>2, <2>3, PublisherMoves
<1>5. CASE pub[p].left # {}
  <2>1. PICK c \in pub[p].left :
          pub' = [pub EXCEPT ![p] = [stage |-> "lock", at |-> c, left |-> @.left \ {c}]]
    BY <1>5 DEF NextSocket
  <2> DEFINE t == pub[p].left \ {c}
             x == [stage |-> "lock", at |-> c, left |-> t]
  <2>2. pub' = [pub EXCEPT ![p] = x]
    BY <2>1 DEF HubInv, HubTypeOK
  <2>3. pub[p].left \subseteq clients /\ pub[p].left \subseteq Sockets
    BY <1>1 DEF PublisherInv, PubStates
  <2>4. t \subseteq clients /\ t \subseteq Sockets /\ c \in clients /\ c \in Sockets /\ c \notin t
    BY <2>1, <2>3
  <2> HIDE DEF t
  <2>5. x \in PubStates /\ x.stage = "lock" /\ x.at = c /\ x.left = t
    BY <2>4 DEF PubStates
  <2> HIDE DEF x
  <2>6. PublisherInv(p, x, clients, writer')
    BY <2>4, <2>5 DEF PublisherInv
  <2> QED BY <1>2, <1>3, <2>2, <2>5, <2>6, PublisherMoves
<1> QED BY <1>4, <1>5

LEMMA LockSocketPreserves ==
  ASSUME HubInv, NEW p \in Publishers, LockSocket(p)
  PROVE  HubInv'
<1> DEFINE c == pub[p].at
           x == [pub[p] EXCEPT !.stage = "write"]
<1>1. /\ pub[p] \in PubStates /\ pub[p].stage = "lock"
      /\ PublisherInv(p, pub[p], clients, writer)
  BY DEF LockSocket, HubInv, HubTypeOK
<1>2. c \in Sockets /\ writer[c] = None
  BY <1>1 DEF PublisherInv, LockSocket, Free
<1>3. /\ writer' = [writer EXCEPT ![c] = p] /\ pub' = [pub EXCEPT ![p] = x]
      /\ UNCHANGED <<clients, ws, pending, stalled>>
  BY DEF LockSocket, HubInv, HubTypeOK
<1>4. x \in PubStates /\ x.stage = "write" /\ x.at = c /\ x.left = pub[p].left
  BY <1>1 DEF PubStates
<1> HIDE DEF x
<1>5. writer' \in [Sockets -> Publishers \cup {None}] /\ writer'[c] = p
  BY <1>2, <1>3 DEF HubInv, HubTypeOK
<1>6. PublisherInv(p, x, clients, writer')
  BY <1>1, <1>2, <1>4, <1>5 DEF PublisherInv
<1>7. \A q \in Publishers : q # p => \A d \in Sockets : writer[d] = q => writer'[d] = q
  BY <1>2, <1>3, HubAssumption DEF HubInv, HubTypeOK
<1> QED BY <1>3, <1>4, <1>5, <1>6, <1>7, PublisherMoves

LEMMA WriteEndsPreserves ==
  ASSUME HubInv, NEW p \in Publishers, WriteEnds(p)
  PROVE  HubInv'
<1> DEFINE c == pub[p].at
           x == AfterWrite(p)
<1>1. /\ pub[p] \in PubStates /\ pub[p].stage = "write"
      /\ PublisherInv(p, pub[p], clients, writer)
  BY DEF WriteEnds, HubInv, HubTypeOK
<1>2. c \in Sockets /\ writer[c] = p
  BY <1>1 DEF PublisherInv
<1>3. /\ writer' = [writer EXCEPT ![c] = None] /\ pub' = [pub EXCEPT ![p] = x]
      /\ UNCHANGED <<clients, ws, pending, stalled>>
  BY DEF WriteEnds
<1>4. x \in PubStates /\ x.stage = "iterate" /\ x.at = None /\ x.left = pub[p].left
  BY <1>1 DEF AfterWrite, PubStates
<1> HIDE DEF x
<1>5. writer' \in [Sockets -> Publishers \cup {None}]
  BY <1>2, <1>3 DEF HubInv, HubTypeOK
<1>6. PublisherInv(p, x, clients, writer')
  BY <1>1, <1>4 DEF PublisherInv
<1>7. \A q \in Publishers : q # p => \A d \in Sockets : writer[d] = q => writer'[d] = q
  BY <1>2, <1>3 DEF HubInv, HubTypeOK
<1> QED BY <1>3, <1>4, <1>5, <1>6, <1>7, PublisherMoves
-----------------------------------------------------------------------------
LEMMA HubStep == HubInv /\ [HubNext]_hubVars => HubInv'
<1> SUFFICES ASSUME HubInv, [HubNext]_hubVars PROVE HubInv'
  OBVIOUS
<1>1. CASE UNCHANGED hubVars
  BY <1>1 DEF hubVars, HubInv, HubTypeOK, PublisherInv
<1> QED BY <1>1, SocketStepPreserves, PublishPreserves, NextSocketPreserves,
           LockSocketPreserves, WriteEndsPreserves DEF HubNext

LEMMA HubInvariant == HubSpec => []HubInv
  BY HubStart, HubStep, PTL DEF HubSpec

\* The types; the map holds exactly the sockets between Add and Remove.
THEOREM HubTypes == HubSpec => []HubTypeOK
<1>1. HubInv => HubTypeOK
  BY DEF HubInv
<1> QED BY <1>1, HubInvariant, PTL

\* One writer per socket, and no write to a socket that has left the map.
THEOREM SafeWrites == HubSpec => []WritesAreSafe
<1>1. HubInv => WritesAreSafe
  <2> SUFFICES ASSUME HubInv, NEW p \in Publishers
               PROVE  /\ pub[p].stage = "write" =>
                           \A q \in Publishers :
                             pub[q].stage = "write" /\ pub[q].at = pub[p].at => q = p
                      /\ Reading(p) => pub[p].left \cup ({pub[p].at} \ {None}) \subseteq clients
    BY DEF WritesAreSafe
  <2> QED BY DEF HubInv, PublisherInv, Reading
<1> QED BY <1>1, HubInvariant, PTL
-----------------------------------------------------------------------------
\* Nobody waits for somebody who has gone: a Lock was announced for every reader
\* that waits, by a handler that takes it, and a mutex is held by its writer.
WaitInv ==
  /\ pending # None => ws[pending] \in {"add", "remove"}
  /\ \A p \in Publishers : pub[p].stage = "rlock" => pending # None
  /\ \A c \in Sockets : writer[c] # None =>
       pub[writer[c]].stage = "write" /\ pub[writer[c]].at = c

LEMMA WaitStart == HubInit => WaitInv
  BY DEF HubInit, WaitInv, Silent

LEMMA WaitSocketStep ==
  ASSUME HubInv, WaitInv, NEW c \in Sockets,
         \/ Upgrade(c) \/ ReadFails(c) \/ Announce(c) \/ Stall(c) \/ Unstall(c)
  PROVE  WaitInv'
<1>1. ws \in [Sockets -> {"off", "add", "open", "remove"}]
  BY DEF HubInv, HubTypeOK
<1>2. UNCHANGED <<pub, writer>>
  BY DEF Upgrade, ReadFails, Announce, Stall, Unstall
<1>3. CASE Upgrade(c)
  BY <1>1, <1>2, <1>3 DEF Upgrade, WaitInv
<1>4. CASE ReadFails(c)
  BY <1>1, <1>2, <1>4 DEF ReadFails, WaitInv
<1>5. CASE Announce(c)
  BY <1>1, <1>2, <1>5, HubAssumption DEF Announce, WaitInv
<1>6. CASE Stall(c) \/ Unstall(c)
  BY <1>2, <1>6 DEF Stall, Unstall, WaitInv
<1> QED BY <1>3, <1>4, <1>5, <1>6

\* An Unlock lets in everybody who waits, and touches no writer.
LEMMA WaitUnlock ==
  ASSUME HubInv, WaitInv, Unlock, UNCHANGED writer
  PROVE  WaitInv'
<1>1. PICK users \in [Publishers -> SUBSET {UserOf[c] : c \in Sockets}] :
        pub' = [p \in Publishers |->
                  IF pub[p].stage = "rlock"
                  THEN [stage |-> "iterate", left |-> Targets(users[p]), at |-> None]
                  ELSE pub[p]]
  BY DEF Unlock
<1>2. pending' = None
  BY DEF Unlock
<1>3. \A p \in Publishers : pub'[p].stage # "rlock"
  BY <1>1
<1>4. ASSUME NEW c \in Sockets, writer[c] # None
      PROVE  pub'[writer[c]].stage = "write" /\ pub'[writer[c]].at = c
  <2>1. /\ writer[c] \in Publishers
        /\ pub[writer[c]].stage = "write" /\ pub[writer[c]].at = c
    BY <1>4 DEF HubInv, HubTypeOK, WaitInv
  <2>2. pub'[writer[c]] = pub[writer[c]]
    BY <1>1, <2>1
  <2> QED BY <2>1, <2>2
<1> QED BY <1>2, <1>3, <1>4 DEF WaitInv

LEMMA WaitPublisherStep ==
  ASSUME HubInv, WaitInv, NEW p \in Publishers,
         Publish(p) \/ NextSocket(p) \/ LockSocket(p) \/ WriteEnds(p)
  PROVE  WaitInv'
<1>1. /\ pub \in [Publishers -> PubStates] /\ pub[p] \in PubStates
      /\ writer \in [Sockets -> Publishers \cup {None}]
      /\ PublisherInv(p, pub[p], clients, writer)
  BY DEF HubInv, HubTypeOK
<1>2. UNCHANGED <<ws, pending>>
  BY DEF Publish, NextSocket, LockSocket, WriteEnds
<1>3. \A q \in Publishers : q # p => pub'[q] = pub[q]
  BY <1>1 DEF Publish, NextSocket, LockSocket, WriteEnds
<1>4. CASE Publish(p)
  <2>1. UNCHANGED writer /\ pub[p].stage = "idle"
    BY <1>4 DEF Publish
  <2>2. \A c \in Sockets : writer[c] # p
    BY <1>1, <2>1, HubAssumption DEF WaitInv
  <2>3. pub'[p].stage = "rlock" => pending # None
    BY <1>1, <1>4 DEF Publish
  <2> QED BY <1>1, <1>2, <1>3, <2>1, <2>2, <2>3 DEF WaitInv
<1>5. CASE NextSocket(p)
  <2>1. UNCHANGED writer /\ pub[p].stage = "iterate"
    BY <1>5 DEF NextSocket
  <2>2. \A c \in Sockets : writer[c] # p
    BY <1>1, <2>1, HubAssumption DEF WaitInv
  <2>3. pub'[p].stage # "rlock"
    BY <1>1, <1>5 DEF NextSocket, Silent
  <2> QED BY <1>1, <1>2, <1>3, <2>1, <2>2, <2>3 DEF WaitInv
<1>6. CASE LockSocket(p)
  <2> DEFINE d == pub[p].at
  <2>1. /\ pub[p].stage = "lock" /\ d \in Sockets /\ writer' = [writer EXCEPT ![d] = p]
        /\ pub' = [pub EXCEPT ![p].stage = "write"]
    BY <1>1, <1>6 DEF LockSocket, PublisherInv
  <2>2. \A c \in Sockets : writer[c] # p
    BY <1>1, <2>1, HubAssumption DEF WaitInv
  <2>3. pub'[p].stage = "write" /\ pub'[p].at = d
    BY <1>1, <2>1 DEF PubStates
  <2>4. writer'[d] = p /\ \A c \in Sockets : c # d => writer'[c] = writer[c]
    BY <1>1, <2>1
  <2> HIDE DEF d
  <2> QED BY <1>1, <1>2, <1>3, <2>2, <2>3, <2>4 DEF WaitInv
<1>7. CASE WriteEnds(p)
  <2> DEFINE d == pub[p].at
  <2>1. /\ pub[p].stage = "write" /\ d \in Sockets /\ writer' = [writer EXCEPT ![d] = None]
        /\ pub'[p].stage = "iterate"
    BY <1>1, <1>7 DEF WriteEnds, AfterWrite, PublisherInv, PubStates
  <2>2. \A c \in Sockets : c # d => writer[c] # p
    BY <1>1, <2>1, HubAssumption DEF WaitInv
  <2>3. writer'[d] = None /\ \A c \in Sockets : c # d => writer'[c] = writer[c]
    BY <1>1, <2>1
  <2> HIDE DEF d
  <2> QED BY <1>1, <1>2, <1>3, <2>1, <2>2, <2>3 DEF WaitInv
<1> QED BY <1>4, <1>5, <1>6, <1>7

LEMMA WaitStep == HubInv /\ WaitInv /\ [HubNext]_hubVars => WaitInv'
<1> SUFFICES ASSUME HubInv, WaitInv, [HubNext]_hubVars PROVE WaitInv'
  OBVIOUS
<1>1. CASE UNCHANGED hubVars
  BY <1>1 DEF hubVars, WaitInv
<1>2. ASSUME NEW c \in Sockets, Add(c) \/ Remove(c) PROVE WaitInv'
  BY <1>2, WaitUnlock DEF Add, Remove
<1> QED BY <1>1, <1>2, WaitSocketStep, WaitPublisherStep DEF HubNext

\* The read lock, the announced Locks and the mutexes of the sockets never wait for
\* each other in a circle, for any number of sockets and publishers: follow who is
\* waited for, and it ends at somebody who can go on.
THEOREM NoCircle == HubSpec => []SomebodyGoesOn
<1>1. HubInv /\ WaitInv => SomebodyGoesOn
  <2> SUFFICES ASSUME HubInv, WaitInv, \A p \in Publishers : ~CanGo(p),
                      pending # None \/ \E p \in Publishers : pub[p].stage # "idle"
               PROVE  pending # None /\ ws[pending] \in {"add", "remove"} /\ Exclusive(pending)
    BY DEF SomebodyGoesOn
  <2>1. \A p \in Publishers : pub[p].stage # "lock"
    <3> SUFFICES ASSUME NEW p \in Publishers, pub[p].stage = "lock" PROVE FALSE
      OBVIOUS
    <3> DEFINE c == pub[p].at
    <3>1. c \in Sockets /\ writer[c] # None /\ writer[c] \in Publishers
      BY DEF HubInv, HubTypeOK, PublisherInv, CanGo, Free
    <3>2. pub[writer[c]].stage = "write"
      BY <3>1 DEF WaitInv
    <3> QED BY <3>1, <3>2 DEF CanGo
  <2>2. \A p \in Publishers : ~Reading(p)
    BY <2>1 DEF Reading, CanGo
  <2>3. pending # None
    <3>1. CASE pending # None
      BY <3>1
    <3>2. CASE \E p \in Publishers : pub[p].stage # "idle"
      <4>1. PICK p \in Publishers : pub[p].stage # "idle"
        BY <3>2
      <4>2. pub[p].stage = "rlock"
        BY <2>2, <4>1 DEF HubInv, HubTypeOK, PubStates, Reading
      <4> QED BY <4>2 DEF WaitInv
    <3> QED BY <3>1, <3>2
  <2> QED BY <2>2, <2>3 DEF WaitInv, Exclusive
<1> QED BY <1>1, HubInvariant, WaitStart, WaitStep, PTL DEF HubSpec
-----------------------------------------------------------------------------
\* What a publisher in state x has still to do, and what it is doing, as Broadcast
\* sees it.
Reads(x)  == x.stage \in {"iterate", "lock", "write"}
Owes(x)   == IF Reads(x) THEN x.left \cup ({x.at} \ {None}) ELSE {}
Writes(x) == IF x.stage = "write" THEN {x.at} ELSE {}
Audience(map, us) == {c \in map : UserOf[c] \in us}

\* The refinement mapping, by publisher, before and after a step.
LEMMA Mapping ==
  /\ Busy = {p \in Publishers : Reads(pub[p])}
  /\ Due = [p \in Publishers |-> Owes(pub[p])]
  /\ Writing = [p \in Publishers |-> Writes(pub[p])]
  /\ Busy' = {p \in Publishers : Reads(pub'[p])}
  /\ Due' = [p \in Publishers |-> Owes(pub'[p])]
  /\ Writing' = [p \in Publishers |-> Writes(pub'[p])]
  BY DEF Reading, Busy, Due, Writing, Reads, Owes, Writes

LEMMA PromiseStart == HubInit => Promise!Init
<1> SUFFICES ASSUME HubInit PROVE Promise!Init
  OBVIOUS
<1>1. \A p \in Publishers : pub[p].stage = "idle"
  BY DEF HubInit, Silent
<1>2. Busy = {} /\ Due = [p \in Publishers |-> {}]
      /\ Writing = [p \in Publishers |-> {}]
  BY <1>1, Mapping DEF Reads, Owes, Writes
<1> QED BY <1>2 DEF HubInit, Promise!Init

\* A step that Broadcast does not see.
LEMMA Unseen ==
  ASSUME clients' = clients,
         \A p \in Publishers : /\ Reads(pub'[p]) = Reads(pub[p]) /\ Owes(pub'[p]) = Owes(pub[p])
                              /\ Writes(pub'[p]) = Writes(pub[p])
  PROVE  UNCHANGED Promise!broadcastVars
<1>1. Busy' = Busy /\ Due' = Due /\ Writing' = Writing
  BY Mapping
<1> QED BY <1>1 DEF Promise!broadcastVars

\* Publishers that did not read begin with sockets of the map.
LEMMA Beginning ==
  ASSUME NEW P \in SUBSET Publishers, NEW map,
         NEW users \in [Publishers -> SUBSET {UserOf[c] : c \in Sockets}],
         \A p \in P : ~Reads(pub[p]),
         \A p \in P : /\ pub'[p].stage = "iterate" /\ pub'[p].at = None
                      /\ pub'[p].left = Audience(map, users[p]),
         \A p \in Publishers \ P : pub'[p] = pub[p]
  PROVE  Promise!Begin(P, map)
<1>1. ASSUME NEW p \in P
      PROVE  /\ Reads(pub'[p]) /\ Owes(pub'[p]) = Audience(map, users[p])
             /\ Writes(pub'[p]) = {} /\ Writes(pub[p]) = {}
  BY <1>1 DEF Reads, Owes, Writes
<1>2. ASSUME NEW p \in Publishers \ P
      PROVE  /\ Reads(pub'[p]) = Reads(pub[p]) /\ Owes(pub'[p]) = Owes(pub[p])
             /\ Writes(pub'[p]) = Writes(pub[p])
  BY <1>2 DEF Reads, Owes, Writes
<1>3. P \subseteq Publishers \ Busy
  BY Mapping
<1>4. Busy' = Busy \cup P
  BY <1>1, <1>2, Mapping
<1>5. Writing' = Writing
  BY <1>1, <1>2, Mapping
<1> DEFINE us == [p \in P |-> users[p]]
<1>6. us \in [P -> SUBSET {UserOf[c] : c \in Sockets}]
  OBVIOUS
<1>7. Due' = [p \in Publishers |-> IF p \in P THEN Audience(map, us[p]) ELSE Due[p]]
  BY <1>1, <1>2, Mapping
<1> HIDE DEF us
<1> QED BY <1>3, <1>4, <1>5, <1>6, <1>7 DEF Promise!Begin, Audience

\* Publisher p alone moves.
LEMMA OnlyOne ==
  ASSUME HubInv, NEW p \in Publishers,
         Publish(p) \/ NextSocket(p) \/ LockSocket(p) \/ WriteEnds(p)
  PROVE  /\ clients' = clients /\ pub[p] \in PubStates /\ PublisherInv(p, pub[p], clients, writer)
         /\ \A q \in Publishers : q # p => pub'[q] = pub[q]
  BY DEF HubInv, HubTypeOK, Publish, NextSocket, LockSocket, WriteEnds

LEMMA PublishKept ==
  ASSUME HubInv, NEW p \in Publishers, Publish(p)
  PROVE  Promise!Next \/ UNCHANGED Promise!broadcastVars
<1>1. /\ clients' = clients /\ pub[p] \in PubStates /\ pub[p].stage = "idle"
      /\ \A q \in Publishers : q # p => pub'[q] = pub[q]
      /\ pub \in [Publishers -> PubStates]
  BY OnlyOne DEF Publish, HubInv, HubTypeOK
<1>2. CASE pending # None
  <2>1. pub'[p].stage = "rlock"
    BY <1>1, <1>2 DEF Publish, PubStates
  <2> QED BY <1>1, <2>1, Unseen DEF Reads, Owes, Writes
<1>3. CASE pending = None
  <2>1. PICK us \in SUBSET {UserOf[c] : c \in Sockets} :
          pub' = [pub EXCEPT ![p] = [stage |-> "iterate", at |-> None,
                                     left |-> {c \in clients : UserOf[c] \in us}]]
    BY <1>3 DEF Publish
  <2> DEFINE users == [q \in Publishers |-> us]
  <2>2. users \in [Publishers -> SUBSET {UserOf[c] : c \in Sockets}] /\ users[p] = us
    OBVIOUS
  <2>3. /\ pub'[p].stage = "iterate" /\ pub'[p].at = None
        /\ pub'[p].left = Audience(clients, users[p])
    BY <1>1, <2>1 DEF Audience
  <2> HIDE DEF users
  <2>4. ~Reads(pub[p])
    BY <1>1 DEF Reads
  <2>5. \A q \in Publishers \ {p} : pub'[q] = pub[q]
    BY <1>1
  <2>6. Promise!Begin({p}, clients)
    BY <2>2, <2>3, <2>4, <2>5, Beginning
  <2> QED BY <1>1, <2>6 DEF Promise!Next, Promise!Publish
<1> QED BY <1>2, <1>3

LEMMA NextSocketKept ==
  ASSUME HubInv, NEW p \in Publishers, NextSocket(p)
  PROVE  Promise!Next \/ UNCHANGED Promise!broadcastVars
<1>1. /\ clients' = clients /\ pub[p] \in PubStates /\ pub[p].stage = "iterate"
      /\ pub[p].at = None /\ pub[p].left \subseteq clients
      /\ \A q \in Publishers : q # p => pub'[q] = pub[q]
      /\ pub \in [Publishers -> PubStates] /\ None \notin Sockets /\ clients \subseteq Sockets
  BY OnlyOne, HubAssumption DEF NextSocket, HubInv, HubTypeOK, PublisherInv
<1>2. CASE pub[p].left = {}
  <2>1. pub'[p].stage = "idle"
    BY <1>1, <1>2 DEF NextSocket, Silent
  <2>2. Busy' = Busy \ {p} /\ p \in Busy
    BY <1>1, <2>1, Mapping DEF Reads
  <2>3. Owes(pub[p]) = {} /\ Owes(pub'[p]) = {} /\ Writes(pub[p]) = {} /\ Writes(pub'[p]) = {}
    BY <1>1, <1>2, <2>1 DEF Owes, Writes, Reads
  <2>4. Due' = Due /\ Writing' = Writing /\ Due[p] = {}
    BY <1>1, <2>3, Mapping
  <2>5. Promise!Finish(p)
    BY <1>1, <2>2, <2>4 DEF Promise!Finish
  <2> QED BY <2>5 DEF Promise!Next
<1>3. CASE pub[p].left # {}
  <2>1. PICK c \in pub[p].left :
          pub' = [pub EXCEPT ![p] = [stage |-> "lock", at |-> c, left |-> @.left \ {c}]]
    BY <1>3 DEF NextSocket
  <2>2. pub'[p].stage = "lock" /\ pub'[p].at = c /\ pub'[p].left = pub[p].left \ {c} /\ c # None
    BY <1>1, <2>1
  <2>3. /\ Reads(pub'[p]) = Reads(pub[p]) /\ Owes(pub'[p]) = Owes(pub[p])
        /\ Writes(pub'[p]) = Writes(pub[p])
    BY <1>1, <2>2 DEF Reads, Owes, Writes
  <2> QED BY <1>1, <2>3, Unseen
<1> QED BY <1>2, <1>3

LEMMA LockSocketKept ==
  ASSUME HubInv, NEW p \in Publishers, LockSocket(p)
  PROVE  Promise!Next \/ UNCHANGED Promise!broadcastVars
<1> DEFINE c == pub[p].at
<1>1. /\ clients' = clients /\ pub[p] \in PubStates /\ pub[p].stage = "lock"
      /\ c \in Sockets /\ c # None /\ writer[c] = None
      /\ \A q \in Publishers : q # p => pub'[q] = pub[q]
      /\ pub \in [Publishers -> PubStates]
  BY OnlyOne, HubAssumption DEF LockSocket, Free, HubInv, HubTypeOK, PublisherInv
<1>2. pub' = [pub EXCEPT ![p].stage = "write"]
  BY DEF LockSocket
<1>3. pub'[p].stage = "write" /\ pub'[p].at = c /\ pub'[p].left = pub[p].left
  BY <1>1, <1>2 DEF PubStates
<1>4. /\ Reads(pub[p]) /\ Reads(pub'[p]) /\ Owes(pub'[p]) = Owes(pub[p]) /\ c \in Owes(pub[p])
      /\ Writes(pub[p]) = {} /\ Writes(pub'[p]) = {c}
  BY <1>1, <1>3 DEF Reads, Owes, Writes
<1>5. \A q \in Publishers : c \notin Writes(pub[q])
  <2> SUFFICES ASSUME NEW q \in Publishers, pub[q].stage = "write", pub[q].at = c PROVE FALSE
    BY DEF Writes
  <2>1. writer[c] = q
    BY DEF HubInv, PublisherInv
  <2> QED BY <1>1, <2>1, HubAssumption
<1> HIDE DEF c
<1>6. Busy' = Busy /\ p \in Busy /\ Due' = Due /\ c \in Due[p]
  BY <1>1, <1>4, Mapping
<1>7. /\ Writing[p] = {} /\ \A q \in Publishers : c \notin Writing[q]
      /\ Writing' = [Writing EXCEPT ![p] = {c}]
  BY <1>1, <1>4, <1>5, Mapping
<1>8. Promise!StartWrite(p, c)
  BY <1>1, <1>6, <1>7 DEF Promise!StartWrite
<1>9. \E d \in Sockets : Promise!StartWrite(p, d)
  BY <1>1, <1>8
<1> QED BY <1>9 DEF Promise!Next

LEMMA WriteEndsKept ==
  ASSUME HubInv, NEW p \in Publishers, WriteEnds(p)
  PROVE  Promise!Next \/ UNCHANGED Promise!broadcastVars
<1> DEFINE c == pub[p].at
<1>1. /\ clients' = clients /\ pub[p] \in PubStates /\ pub[p].stage = "write"
      /\ c \in Sockets /\ c # None /\ c \notin pub[p].left
      /\ \A q \in Publishers : q # p => pub'[q] = pub[q]
      /\ pub \in [Publishers -> PubStates]
  BY OnlyOne, HubAssumption DEF WriteEnds, HubInv, HubTypeOK, PublisherInv
<1>2. pub'[p].stage = "iterate" /\ pub'[p].at = None /\ pub'[p].left = pub[p].left
  BY <1>1 DEF WriteEnds, AfterWrite, PubStates
<1>3. /\ Reads(pub[p]) /\ Reads(pub'[p]) /\ Owes(pub'[p]) = Owes(pub[p]) \ {c}
      /\ Writes(pub[p]) = {c} /\ Writes(pub'[p]) = {}
  BY <1>1, <1>2 DEF Reads, Owes, Writes
<1> HIDE DEF c
<1>4. Busy' = Busy
  BY <1>1, <1>3, Mapping
<1>5. Writing[p] = {c} /\ Writing' = [Writing EXCEPT ![p] = {}]
  BY <1>1, <1>3, Mapping
<1>6. Due' = [Due EXCEPT ![p] = @ \ {c}]
  BY <1>1, <1>3, Mapping
<1>7. Promise!EndWrite(p)
  BY <1>1, <1>4, <1>5, <1>6 DEF Promise!EndWrite
<1> QED BY <1>7 DEF Promise!Next

\* The map changes only while nobody reads, and whoever waited begins then.
LEMMA ChangeKept ==
  ASSUME HubInv, NEW c \in Sockets, Add(c) \/ Remove(c)
  PROVE  Promise!Next
<1>1. /\ clients' \in {clients \cup {c}, clients \ {c}}
      /\ Unlock /\ \A p \in Publishers : ~Reading(p)
  BY DEF Add, Remove, Without, Exclusive
<1>2. PICK users \in [Publishers -> SUBSET {UserOf[d] : d \in Sockets}] :
        pub' = [p \in Publishers |->
                  IF pub[p].stage = "rlock"
                  THEN [stage |-> "iterate", left |-> Targets(users[p]), at |-> None]
                  ELSE pub[p]]
  BY <1>1 DEF Unlock
<1> DEFINE P == {p \in Publishers : pub[p].stage = "rlock"}
<1>3. \A p \in P : /\ pub'[p].stage = "iterate" /\ pub'[p].at = None
                   /\ pub'[p].left = Audience(clients', users[p])
  BY <1>2 DEF Targets, Audience
<1>4. \A p \in Publishers : ~Reads(pub[p])
  BY <1>1 DEF Reading, Reads
<1>5. P \in SUBSET Publishers /\ \A p \in Publishers \ P : pub'[p] = pub[p]
  BY <1>2
<1> HIDE DEF P
<1>6. Promise!Begin(P, clients')
  BY <1>3, <1>4, <1>5, Beginning
<1>7. Busy = {}
  BY <1>4, Mapping
<1>8. Promise!Change(c)
  BY <1>1, <1>5, <1>6, <1>7 DEF Promise!Change
<1> QED BY <1>8 DEF Promise!Next

LEMMA PromiseStep == HubInv /\ [HubNext]_hubVars => [Promise!Next]_(Promise!broadcastVars)
<1> SUFFICES ASSUME HubInv, [HubNext]_hubVars
             PROVE  Promise!Next \/ UNCHANGED Promise!broadcastVars
  OBVIOUS
<1>1. ASSUME UNCHANGED <<clients, pub>> PROVE UNCHANGED Promise!broadcastVars
  BY <1>1, Unseen
<1>2. ASSUME NEW c \in Sockets,
             Upgrade(c) \/ ReadFails(c) \/ Announce(c) \/ Stall(c) \/ Unstall(c)
      PROVE  UNCHANGED <<clients, pub>>
  BY <1>2 DEF Upgrade, ReadFails, Announce, Stall, Unstall
<1>3. CASE UNCHANGED hubVars
  BY <1>1, <1>3 DEF hubVars
<1> QED BY <1>1, <1>2, <1>3, ChangeKept, PublishKept, NextSocketKept, LockSocketKept,
           WriteEndsKept DEF HubNext

\* Every event is written once, and once only, to each socket its users have open
\* when the read lock is granted, for any number of sockets, users and publishers.
THEOREM EventsReachTheirSockets == HubSpec => ImplementsBroadcast
  BY HubInvariant, PromiseStart, PromiseStep, PTL DEF HubSpec, ImplementsBroadcast, Promise!Spec
-----------------------------------------------------------------------------
(***************************************************************************)
(* The safety of the ping tool, for any number of sessions of any length.  *)
(*                                                                         *)
(* The property of the summaries is not inductive: SessionInv adds that    *)
(* only an older session has been overtaken, which is why it cannot pass   *)
(* the check.                                                              *)
(***************************************************************************)
\* Of session i with state x, when the newest one is session newest.
SessionInv(i, x, newest) ==
  /\ newest < i => x = NoRun
  /\ x.overtaken => i < newest /\ x.stage # "summing"
  /\ x.stage \in {"ping", "send"} => x.left # 0

PingInv == PingTypeOK /\ \A i \in Runs : SessionInv(i, run[i], sessID)
-----------------------------------------------------------------------------
LEMMA NoRunType == NoRun \in RunStates /\ NoRun.stage = "none" /\ NoRun.overtaken = FALSE
  BY PingAssumption DEF NoRun, RunStates, Endless

LEMMA PingStart == PingInit => PingInv
<1> SUFFICES ASSUME PingInit PROVE PingInv
  OBVIOUS
<1>1. run = [i \in Runs |-> NoRun] /\ sessID = 0 /\ cancel = 0 /\ reader = "open"
  BY DEF PingInit
<1>2. PingTypeOK
  BY <1>1, NoRunType, PingAssumption DEF PingTypeOK
<1>3. \A i \in Runs : SessionInv(i, run[i], sessID)
  BY <1>1, NoRunType DEF SessionInv
<1> QED BY <1>2, <1>3 DEF PingInv

\* One session goes on: nothing but its own record changes.
LEMMA OneGoesOn ==
  ASSUME PingInv, NEW i \in Runs, NEW x \in RunStates,
         UNCHANGED <<reader, sessID, cancel>>,
         run' = [run EXCEPT ![i] = x],
         SessionInv(i, x, sessID), x.cancelled = run[i].cancelled
  PROVE  PingInv'
<1>1. run' \in [Runs -> RunStates] /\ run'[i] = x /\ \A j \in Runs : j # i => run'[j] = run[j]
  BY DEF PingInv, PingTypeOK
<1>2. 1 .. sessID \subseteq Runs
  BY PingAssumption DEF PingInv, PingTypeOK, Runs
<1>3. PingTypeOK'
  BY <1>1, <1>2 DEF PingInv, PingTypeOK
<1>4. \A j \in Runs : SessionInv(j, run'[j], sessID)
  BY <1>1 DEF PingInv
<1>5. \A j \in Runs : SessionInv(j, run'[j], sessID')
  BY <1>4 DEF SessionInv
<1> QED BY <1>3, <1>5 DEF PingInv

\* A session moves to another stage.
LEMMA GoesPreserves ==
  ASSUME PingInv, NEW i \in Runs,
         NEW from \in {"top", "ping", "send", "wait", "ended", "summing"},
         NEW to \in {"top", "ping", "send", "wait", "ended", "summing", "over"},
         Goes(i, from, to),
         to \in {"ping", "send"} => run[i].left # 0,
         to = "summing" => i = sessID
  PROVE  PingInv'
<1> DEFINE x == [run[i] EXCEPT !.stage = to]
<1>1. run[i] \in RunStates /\ SessionInv(i, run[i], sessID) /\ run[i].stage = from
  BY DEF Goes, PingInv, PingTypeOK
<1>2. run' = [run EXCEPT ![i] = x] /\ UNCHANGED <<reader, sessID, cancel>>
  BY <1>1 DEF Goes, PingInv, PingTypeOK, RunStates
<1>3. /\ x \in RunStates /\ x.stage = to /\ x.left = run[i].left
      /\ x.cancelled = run[i].cancelled /\ x.overtaken = run[i].overtaken
  BY <1>1 DEF RunStates
<1> HIDE DEF x
<1>4. sessID \in Nat /\ i \in Nat
  BY PingAssumption DEF PingInv, PingTypeOK, Runs
<1>5. i <= sessID
  BY <1>1, <1>4, NoRunType DEF SessionInv
<1>6. SessionInv(i, x, sessID)
  BY <1>1, <1>3, <1>4, <1>5 DEF SessionInv
<1> QED BY <1>2, <1>3, <1>6, OneGoesOn

LEMMA RunStepPreserves ==
  ASSUME PingInv, NEW i \in Runs, RunStep(i)
  PROVE  PingInv'
<1>1. CASE NextPacket(i)
  BY <1>1, GoesPreserves DEF NextPacket
<1>2. CASE PingEnds(i)
  <2>1. run[i].left # 0
    BY <1>2 DEF PingEnds, Goes, PingInv, SessionInv
  <2> QED BY <1>2, <2>1, GoesPreserves DEF PingEnds
<1>3. CASE SendResult(i)
  <2>1. PICK next \in {"ended", "wait"} :
          run' = [run EXCEPT ![i].stage = next,
                    ![i].left = IF @ = Endless THEN @ ELSE @ - 1]
    BY <1>3 DEF SendResult
  <2> DEFINE left == IF run[i].left = Endless THEN run[i].left ELSE run[i].left - 1
             x == [run[i] EXCEPT !.stage = next, !.left = left]
  <2>2. run[i] \in RunStates /\ SessionInv(i, run[i], sessID) /\ run[i].stage = "send"
    BY <1>3 DEF SendResult, PingInv, PingTypeOK
  <2>3. run' = [run EXCEPT ![i] = x]
    BY <2>1, <2>2 DEF PingInv, PingTypeOK, RunStates
  <2>4. UNCHANGED <<reader, sessID, cancel>>
    BY <1>3 DEF SendResult
  <2>5. run[i].left # 0 /\ run[i].left \in Endless .. MaxCount
    BY <2>2 DEF SessionInv, RunStates
  <2>6. left \in Endless .. MaxCount
    BY <2>5, PingAssumption DEF Endless
  <2> HIDE DEF left
  <2>7. /\ x \in RunStates /\ x.stage = next
        /\ x.cancelled = run[i].cancelled /\ x.overtaken = run[i].overtaken
    BY <2>2, <2>6 DEF RunStates
  <2> HIDE DEF x
  <2>8. sessID \in Nat /\ i \in Nat /\ ~(sessID < i)
    BY <2>2, NoRunType, PingAssumption DEF PingInv, PingTypeOK, Runs, SessionInv
  <2>9. SessionInv(i, x, sessID)
    BY <2>2, <2>7, <2>8 DEF SessionInv
  <2> QED BY <2>3, <2>4, <2>7, <2>9, OneGoesOn
<1>4. CASE WaitCancelled(i) \/ WaitElapsed(i)
  BY <1>4, GoesPreserves DEF WaitCancelled, WaitElapsed
<1>5. CASE CheckCurrent(i)
  BY <1>5, GoesPreserves DEF CheckCurrent, Current
<1>6. CASE SendSummary(i)
  BY <1>6, GoesPreserves DEF SendSummary
<1> QED BY <1>1, <1>2, <1>3, <1>4, <1>5, <1>6 DEF RunStep

\* A start cancels the session the function belongs to; the others were cancelled.
LEMMA StartPreserves ==
  ASSUME PingInv, Start
  PROVE  PingInv'
<1> DEFINE new == sessID + 1
<1>1. PICK count \in {Endless} \cup 1 .. MaxCount :
        run' = [i \in Runs |->
                 IF i = new THEN [NoRun EXCEPT !.stage = "top", !.left = count]
                 ELSE [run[i] EXCEPT !.cancelled = @ \/ Cancelled(i),
                         !.overtaken = @ \/ run[i].stage \notin {"none", "summing", "over"}]]
  BY DEF Start
<1>2. sessID' = new /\ cancel' = new /\ reader' = reader /\ new \in Runs /\ sessID \in Nat
  <2>1. sessID' = new /\ cancel' = new /\ reader' = reader /\ sessID < MaxRuns
    BY DEF Start
  <2>2. sessID \in Nat
    BY PingAssumption DEF PingInv, PingTypeOK
  <2> QED BY <2>1, <2>2, PingAssumption DEF Runs
<1>3. run'[new] \in RunStates /\ SessionInv(new, run'[new], sessID')
  <2> DEFINE x == [NoRun EXCEPT !.stage = "top", !.left = count]
  <2>1. run'[new] = x
    BY <1>1, <1>2
  <2>2. count \in Endless .. MaxCount
    BY PingAssumption DEF Endless
  <2>3. x \in RunStates /\ x.stage = "top" /\ ~x.overtaken
    BY <2>2, NoRunType DEF NoRun, RunStates
  <2> HIDE DEF x
  <2> QED BY <1>2, <2>1, <2>3 DEF SessionInv
<1>4. ASSUME NEW i \in Runs, i # new
      PROVE  /\ run'[i] \in RunStates
             /\ SessionInv(i, run'[i], sessID')
             /\ i \in 1 .. sessID => run'[i].cancelled
  <2> DEFINE c == run[i].cancelled \/ Cancelled(i)
             o == run[i].overtaken \/ run[i].stage \notin {"none", "summing", "over"}
             x == [run[i] EXCEPT !.cancelled = c, !.overtaken = o]
  <2>1. run'[i] = x
    BY <1>1, <1>4, Zenon
  <2>2. run[i] \in RunStates /\ SessionInv(i, run[i], sessID) /\ i \in Nat
    BY DEF PingInv, PingTypeOK, Runs
  <2>3. /\ c \in BOOLEAN /\ o \in BOOLEAN
        /\ run[i].cancelled => c
        /\ o => run[i].overtaken \/ run[i].stage \notin {"none", "summing", "over"}
    BY <2>2 DEF RunStates
  <2>4. i \in 1 .. sessID => c
    BY DEF PingInv, PingTypeOK, Cancelled
  <2> HIDE DEF c, o
  <2>5. /\ x \in RunStates /\ x.stage = run[i].stage /\ x.left = run[i].left
        /\ x.cancelled = c /\ x.overtaken = o
    BY <2>2, <2>3 DEF RunStates
  <2> HIDE DEF x
  <2>6. new < i => x = NoRun
    <3> SUFFICES ASSUME new < i PROVE x = NoRun
      OBVIOUS
    <3>1. run[i] = NoRun
      BY <1>2, <2>2 DEF SessionInv
    <3>2. ~Cancelled(i)
      BY <1>2, <2>2 DEF Cancelled, PingInv, PingTypeOK
    <3>3. x = [NoRun EXCEPT !.cancelled = c, !.overtaken = o] /\ c = FALSE /\ o = FALSE
      BY <3>1, <3>2 DEF x, c, o, NoRun
    <3> QED BY <3>3 DEF NoRun
  <2>7. o => i < new /\ run[i].stage # "summing"
    BY <1>2, <1>4, <2>2, <2>3, NoRunType DEF SessionInv
  <2>8. SessionInv(i, x, sessID')
    BY <1>2, <2>1, <2>2, <2>3, <2>5, <2>6, <2>7 DEF SessionInv
  <2> QED BY <2>1, <2>4, <2>5, <2>8
<1>5. run' \in [Runs -> RunStates]
  BY <1>1, <1>3, <1>4
<1>6. ASSUME NEW i \in 1 .. new, new # i PROVE run'[i].cancelled
  <2>1. i \in 1 .. sessID /\ i \in Runs
    BY <1>2, <1>6, PingAssumption DEF Runs
  <2> QED BY <1>4, <1>6, <2>1
<1>7. PingTypeOK'
  BY <1>2, <1>5, <1>6 DEF PingInv, PingTypeOK, Runs
<1>8. \A i \in Runs : SessionInv(i, run'[i], sessID')
  BY <1>3, <1>4
<1> QED BY <1>7, <1>8 DEF PingInv

LEMMA StopPreserves ==
  ASSUME PingInv, Stop
  PROVE  PingInv'
<1> DEFINE x == [run[cancel] EXCEPT !.cancelled = TRUE]
<1>1. cancel = sessID /\ cancel \in Runs
  BY PingAssumption DEF Stop, PingInv, PingTypeOK, Runs
<1>2. run[cancel] \in RunStates /\ SessionInv(cancel, run[cancel], sessID)
  BY <1>1 DEF PingInv, PingTypeOK
<1>3. run' = [run EXCEPT ![cancel] = x] /\ cancel' = 0 /\ UNCHANGED <<reader, sessID>>
  BY <1>2 DEF Stop, PingInv, PingTypeOK, RunStates
<1>4. /\ x \in RunStates /\ x.stage = run[cancel].stage /\ x.left = run[cancel].left
      /\ x.cancelled = TRUE
      /\ x.overtaken = run[cancel].overtaken
  BY <1>2 DEF RunStates
<1> HIDE DEF x
<1>5. /\ run' \in [Runs -> RunStates] /\ run'[cancel] = x
      /\ \A j \in Runs : j # cancel => run'[j] = run[j]
  BY <1>1, <1>3, <1>4 DEF PingInv, PingTypeOK
<1>6. PingTypeOK'
  BY <1>1, <1>3, <1>4, <1>5, PingAssumption DEF PingInv, PingTypeOK, Runs
<1>7. SessionInv(cancel, x, sessID)
  BY <1>1, <1>2, <1>4, PingAssumption DEF SessionInv, PingInv, PingTypeOK
<1>8. \A j \in Runs : SessionInv(j, run'[j], sessID)
  BY <1>5, <1>7 DEF PingInv
<1>9. \A j \in Runs : SessionInv(j, run'[j], sessID')
  BY <1>3, <1>8 DEF SessionInv
<1> QED BY <1>6, <1>9 DEF PingInv

LEMMA PingStep == PingInv /\ [PingNext]_pingVars => PingInv'
<1> SUFFICES ASSUME PingInv, [PingNext]_pingVars PROVE PingInv'
  OBVIOUS
<1>1. CASE Disconnect
  BY <1>1 DEF Disconnect, PingInv, PingTypeOK, SessionInv
<1>2. CASE UNCHANGED pingVars
  BY <1>2 DEF pingVars, PingInv, PingTypeOK, SessionInv
<1> QED BY <1>1, <1>2, StartPreserves, StopPreserves, RunStepPreserves DEF PingNext

LEMMA PingInvariant == PingSpec => []PingInv
  BY PingStart, PingStep, PTL DEF PingSpec

\* The types, and no goroutine is out of reach: the cancel function is the newest
\* session's and every older one has been cancelled.
THEOREM PingTypes == PingSpec => []PingTypeOK
<1>1. PingInv => PingTypeOK
  BY DEF PingInv
<1> QED BY <1>1, PingInvariant, PTL

\* A session that was still going when a newer one was started sends no summary.
THEOREM SilentWhenOvertaken == PingSpec => []OvertakenAreSilent
<1>1. PingInv => OvertakenAreSilent
  BY DEF PingInv, SessionInv, OvertakenAreSilent
<1> QED BY <1>1, PingInvariant, PTL
-----------------------------------------------------------------------------
(***************************************************************************)
(* An open store is complete, for any number of processes that open the    *)
(* file, any columns it was found with and any number of deaths.           *)
(*                                                                         *)
(* OpenIsComplete speaks of the end of Open only; Progress says what each  *)
(* process has established on its way there.  Nothing is ever removed from *)
(* the file, so what one process has established the others cannot undo.   *)
(***************************************************************************)
AllTables == {"users", "monitors", "others"}

\* What a process has seen to, by where it is in Open, of a file with these
\* tables, these columns and perhaps the index.
Progress(x, ts, cs, indexed) ==
  /\ x.stage = "schema" => x.at <= 3 /\ \A k \in 1 .. 3 : k < x.at => Tables[k] \in ts
  /\ x.stage \in {"look", "rows", "add", "index", "open"} => ts = AllTables
  /\ x.stage \in {"look", "rows", "add"} =>
       /\ \A i \in Positions : i < x.at => i \in cs
       /\ Email < x.at => indexed
  /\ x.stage = "rows" /\ x.found => x.at \in cs
  /\ x.stage = "index" => {1, Email} \subseteq cs
  /\ x.stage = "open" => cs = Positions /\ indexed

MigrationInv ==
  /\ MigrationTypeOK
  /\ \A p \in Processes : Progress(proc[p], tables, columns, index)
-----------------------------------------------------------------------------
LEMMA Lengths == Len(Tables) = 3 /\ Len(Columns) = 15
  BY DEF Tables, Columns

LEMMA TableNames ==
  /\ \A k \in 1 .. 3 : Tables[k] \in AllTables
  /\ \A t \in AllTables : \E k \in 1 .. 3 : t = Tables[k]
<1>1. Tables[1] = "users" /\ Tables[2] = "monitors" /\ Tables[3] = "others"
  BY DEF Tables
<1> QED BY <1>1 DEF AllTables

LEMMA AtType ==
  ASSUME NEW stage \in {"off", "schema", "look", "index", "open", "dead"}, NEW n \in Positions
  PROVE  /\ At(stage, n) \in ProcStates
         /\ At(stage, n).stage = stage /\ At(stage, n).at = n
         /\ At(stage, n).rows = FALSE /\ At(stage, n).found = FALSE
  BY DEF At, ProcStates

LEMMA MigrationStart == MigrationInit => MigrationInv
<1> SUFFICES ASSUME MigrationInit PROVE MigrationInv
  OBVIOUS
<1> DEFINE off == At("off", 1)
<1>1. off \in ProcStates /\ off.stage = "off" /\ off.rows = FALSE /\ 1 \in Positions
  BY DEF At, ProcStates, Positions
<1>2. proc = [p \in Processes |-> off]
  BY DEF MigrationInit
<1> HIDE DEF off
<1>3. tables \subseteq AllTables /\ columns \subseteq Positions /\ index \in BOOLEAN
  BY MigrationAssumption DEF MigrationInit, AllTables
<1>4. deaths \in 0 .. MaxDeaths
  BY MigrationAssumption DEF MigrationInit
<1>5. MigrationTypeOK
  BY <1>1, <1>2, <1>3, <1>4 DEF MigrationTypeOK, AllTables
<1>6. \A p \in Processes : Progress(proc[p], tables, columns, index)
  BY <1>1, <1>2 DEF Progress
<1> QED BY <1>5, <1>6 DEF MigrationInv

\* One process moves, and the file only grows: the others keep what they have.
LEMMA OneMoves ==
  ASSUME MigrationInv, NEW p \in Processes, NEW x \in ProcStates,
         proc' = [proc EXCEPT ![p] = x],
         tables \subseteq tables', tables' \subseteq AllTables,
         columns \subseteq columns', columns' \subseteq Positions,
         index' \in BOOLEAN, index => index',
         deaths' \in 0 .. MaxDeaths,
         x.rows <=> x.stage = "rows",
         Progress(x, tables', columns', index')
  PROVE  MigrationInv'
<1>1. MigrationTypeOK'
  BY DEF MigrationInv, MigrationTypeOK, AllTables
<1>2. ASSUME NEW q \in Processes PROVE Progress(proc'[q], tables', columns', index')
  <2>1. CASE q = p BY <2>1 DEF Progress, MigrationInv, MigrationTypeOK
  <2>2. CASE q # p
    <3>1. proc'[q] = proc[q] /\ Progress(proc[q], tables, columns, index)
      BY <2>2 DEF MigrationInv, MigrationTypeOK
    <3> QED BY <3>1 DEF Progress
  <2> QED BY <2>1, <2>2
<1> QED BY <1>1, <1>2 DEF MigrationInv

\* The statement that follows a column that is in the file.
LEMMA FollowingIsReached ==
  ASSUME MigrationInv, NEW i \in Positions,
         tables' = AllTables, columns' \subseteq Positions, columns \subseteq columns',
         \A k \in Positions : k <= i => k \in columns',
         Email < i => index'
  PROVE  /\ Following(i) \in ProcStates
         /\ Following(i).rows = FALSE /\ Following(i).stage # "rows"
         /\ Progress(Following(i), tables', columns', index')
<1>1. CASE i = Email
  <2> DEFINE v == At("index", i)
  <2>1. Following(i) = v
    BY <1>1 DEF Following
  <2>2. v \in ProcStates /\ v.stage = "index" /\ v.rows = FALSE
    BY AtType
  <2> HIDE DEF v
  <2>3. 1 \in columns' /\ Email \in columns'
    BY <1>1 DEF Email, Positions
  <2> QED BY <2>1, <2>2, <2>3 DEF Progress
<1>2. CASE i = 15
  <2> DEFINE v == At("open", i)
  <2>1. Following(i) = v
    BY <1>2, Lengths DEF Following, Email
  <2>2. v \in ProcStates /\ v.stage = "open" /\ v.rows = FALSE
    BY AtType
  <2> HIDE DEF v
  <2>3. columns' = Positions
    <3>1. \A k \in Positions : k <= i
      BY <1>2 DEF Positions
    <3> QED BY <3>1
  <2>4. index'
    BY <1>2 DEF Email
  <2> QED BY <2>1, <2>2, <2>3, <2>4 DEF Progress
<1>3. CASE i # Email /\ i # 15
  <2> DEFINE v == At("look", i + 1)
  <2>1. Following(i) = v
    BY <1>3, Lengths DEF Following
  <2>2. v \in ProcStates /\ v.stage = "look" /\ v.rows = FALSE /\ v.at = i + 1
    BY <1>3 DEF At, ProcStates, Positions, Email
  <2> HIDE DEF v
  <2>3. /\ \A k \in Positions : k < i + 1 => k \in columns'
        /\ Email < i + 1 => index'
    BY <1>3 DEF Positions, Email
  <2> QED BY <2>1, <2>2, <2>3 DEF Progress
<1> QED BY <1>1, <1>2, <1>3
-----------------------------------------------------------------------------
\* A process that starts or dies knows nothing.
LEMMA FreshPreserves ==
  ASSUME MigrationInv, NEW p \in Processes, NEW stage \in {"schema", "dead"},
         proc' = [proc EXCEPT ![p] = At(stage, 1)],
         UNCHANGED <<tables, columns, index>>, deaths' \in 0 .. MaxDeaths
  PROVE  MigrationInv'
<1> DEFINE v == At(stage, 1)
<1>1. v \in ProcStates /\ v.stage = stage /\ v.at = 1 /\ v.rows = FALSE
  BY DEF At, ProcStates, Positions
<1>2. proc' = [proc EXCEPT ![p] = v]
  OBVIOUS
<1> HIDE DEF v
<1>3. Progress(v, tables', columns', index')
  BY <1>1 DEF Progress
<1>4. /\ tables \subseteq tables' /\ tables' \subseteq AllTables
      /\ columns \subseteq columns' /\ columns' \subseteq Positions
      /\ index' \in BOOLEAN /\ (index => index')
  BY DEF MigrationInv, MigrationTypeOK, AllTables
<1> QED BY <1>1, <1>2, <1>3, <1>4, OneMoves

LEMMA CreateTablePreserves ==
  ASSUME MigrationInv, NEW p \in Processes, CreateTable(p)
  PROVE  MigrationInv'
<1> DEFINE n == proc[p].at
<1>1. /\ proc[p].stage = "schema" /\ n \in Positions /\ n <= 3 /\ n \in 1 .. 3
      /\ \A k \in 1 .. 3 : k < n => Tables[k] \in tables
  BY DEF CreateTable, MigrationInv, MigrationTypeOK, Progress, ProcStates, Positions
<1>2. /\ tables' = tables \cup {Tables[n]}
      /\ columns \subseteq columns' /\ columns' \subseteq Positions
      /\ index' = index /\ deaths' = deaths
  BY DEF CreateTable, MigrationInv, MigrationTypeOK
<1>3. tables \subseteq tables' /\ tables' \subseteq AllTables
  BY <1>1, <1>2, TableNames DEF MigrationInv, MigrationTypeOK, AllTables
<1>4. index' \in BOOLEAN /\ (index => index') /\ deaths' \in 0 .. MaxDeaths
  BY <1>2 DEF MigrationInv, MigrationTypeOK
<1>5. CASE n = 3
  <2> DEFINE v == At("look", 1)
  <2>1. proc' = [proc EXCEPT ![p] = v]
    BY <1>5, Lengths DEF CreateTable
  <2>2. v \in ProcStates /\ v.stage = "look" /\ v.at = 1 /\ v.rows = FALSE
    BY DEF At, ProcStates, Positions
  <2> HIDE DEF v
  <2>3. tables' = AllTables
    BY <1>1, <1>2, <1>3, <1>5, TableNames
  <2>4. \A i \in Positions : ~(i < 1)
    BY DEF Positions
  <2>5. Progress(v, tables', columns', index')
    BY <2>2, <2>3, <2>4 DEF Progress, Email
  <2> QED BY <1>2, <1>3, <1>4, <2>1, <2>2, <2>5, OneMoves
<1>6. CASE n # 3
  <2> DEFINE v == At("schema", n + 1)
  <2>1. proc' = [proc EXCEPT ![p] = v]
    BY <1>6, Lengths DEF CreateTable
  <2>2. v \in ProcStates /\ v.stage = "schema" /\ v.at = n + 1 /\ v.rows = FALSE
    BY <1>1, <1>6 DEF At, ProcStates, Positions
  <2> HIDE DEF v
  <2>3. \A k \in 1 .. 3 : k < n + 1 => Tables[k] \in tables'
    BY <1>1, <1>2
  <2>4. Progress(v, tables', columns', index')
    BY <1>1, <1>6, <2>2, <2>3 DEF Progress
  <2> QED BY <1>2, <1>3, <1>4, <2>1, <2>2, <2>4, OneMoves
<1> QED BY <1>5, <1>6

LEMMA LookUpPreserves ==
  ASSUME MigrationInv, NEW p \in Processes, LookUp(p)
  PROVE  MigrationInv'
<1> DEFINE v == [proc[p] EXCEPT !.stage = "rows", !.rows = TRUE,
                                !.found = proc[p].at \in columns]
<1>1. proc[p] \in ProcStates /\ proc[p].stage = "look" /\ Progress(proc[p], tables, columns, index)
  BY DEF LookUp, MigrationInv, MigrationTypeOK
<1>2. proc' = [proc EXCEPT ![p] = v]
  BY <1>1 DEF LookUp, ProcStates, MigrationInv, MigrationTypeOK
<1>3. /\ v \in ProcStates /\ v.stage = "rows" /\ v.rows = TRUE /\ v.at = proc[p].at
      /\ v.found => proc[p].at \in columns
  <2> DEFINE b == proc[p].at \in columns
  <2>1. b \in BOOLEAN
    OBVIOUS
  <2>2. v = [proc[p] EXCEPT !.stage = "rows", !.rows = TRUE, !.found = b]
    OBVIOUS
  <2>3. b => proc[p].at \in columns
    OBVIOUS
  <2> HIDE DEF b, v
  <2> QED BY <1>1, <2>1, <2>2, <2>3 DEF ProcStates
<1> HIDE DEF v
<1>4. UNCHANGED <<tables, columns, index, deaths>>
  BY DEF LookUp
<1>5. Progress(v, tables', columns', index')
  BY <1>1, <1>3, <1>4 DEF Progress
<1>6. /\ tables \subseteq tables' /\ tables' \subseteq AllTables
      /\ columns \subseteq columns' /\ columns' \subseteq Positions
      /\ index' \in BOOLEAN /\ (index => index') /\ deaths' \in 0 .. MaxDeaths
  BY <1>4 DEF MigrationInv, MigrationTypeOK, AllTables
<1> QED BY <1>2, <1>3, <1>5, <1>6, OneMoves

LEMMA CloseRowsPreserves ==
  ASSUME MigrationInv, NEW p \in Processes, CloseRows(p)
  PROVE  MigrationInv'
<1> DEFINE i == proc[p].at
<1>1. proc[p] \in ProcStates /\ proc[p].stage = "rows" /\ Progress(proc[p], tables, columns, index) /\ i \in Positions
  BY DEF CloseRows, MigrationInv, MigrationTypeOK, ProcStates
<1>2. UNCHANGED <<tables, columns, index, deaths>>
  BY DEF CloseRows
<1>3. /\ tables \subseteq tables' /\ tables' \subseteq AllTables
      /\ columns \subseteq columns' /\ columns' \subseteq Positions
      /\ index' \in BOOLEAN /\ (index => index') /\ deaths' \in 0 .. MaxDeaths
  BY <1>2 DEF MigrationInv, MigrationTypeOK, AllTables
<1>4. /\ tables = AllTables /\ (Email < i => index)
      /\ \A k \in Positions : k < i => k \in columns
  BY <1>1 DEF Progress
<1>5. CASE proc[p].found
  <2>1. i \in columns
    BY <1>1, <1>5 DEF Progress
  <2>2. \A k \in Positions : k <= i => k \in columns'
    BY <1>1, <1>2, <1>4, <2>1 DEF Positions
  <2>3. proc' = [proc EXCEPT ![p] = Following(i)]
    BY <1>5 DEF CloseRows, AfterFound
  <2> QED BY <1>1, <1>2, <1>3, <1>4, <2>2, <2>3, FollowingIsReached, OneMoves
<1>6. CASE ~proc[p].found
  <2> DEFINE v == Closed(p)
  <2>1. proc' = [proc EXCEPT ![p] = v]
    BY <1>6 DEF CloseRows
  <2>2. v \in ProcStates /\ v.stage = "add" /\ v.rows = FALSE /\ v.at = i
    BY <1>1 DEF Closed, ProcStates
  <2> HIDE DEF v
  <2>3. Progress(v, tables', columns', index')
    BY <1>2, <1>4, <2>2 DEF Progress
  <2> QED BY <1>3, <2>1, <2>2, <2>3, OneMoves
<1> QED BY <1>5, <1>6

LEMMA AddColumnPreserves ==
  ASSUME MigrationInv, NEW p \in Processes, AddColumn(p)
  PROVE  MigrationInv'
<1> DEFINE i == proc[p].at
<1>1. proc[p] \in ProcStates /\ proc[p].stage = "add" /\ Progress(proc[p], tables, columns, index) /\ i \in Positions
  BY DEF AddColumn, MigrationInv, MigrationTypeOK, ProcStates
<1>2. columns' = columns \cup {i} /\ UNCHANGED <<tables, index, deaths>>
  BY DEF AddColumn
<1>3. /\ tables \subseteq tables' /\ tables' \subseteq AllTables
      /\ columns \subseteq columns' /\ columns' \subseteq Positions
      /\ index' \in BOOLEAN /\ (index => index') /\ deaths' \in 0 .. MaxDeaths
  BY <1>1, <1>2 DEF MigrationInv, MigrationTypeOK, AllTables
<1>4. CASE i \in columns
  <2>1. columns' = columns
    BY <1>2, <1>4
  <2> QED BY <1>2, <1>3, <1>4, <2>1, FreshPreserves DEF AddColumn
<1>5. CASE i \notin columns
  <2>1. /\ tables' = AllTables /\ (Email < i => index')
        /\ \A k \in Positions : k <= i => k \in columns'
    BY <1>1, <1>2 DEF Progress, Positions
  <2>2. proc' = [proc EXCEPT ![p] = Following(i)]
    BY <1>5 DEF AddColumn
  <2> QED BY <1>1, <1>3, <2>1, <2>2, FollowingIsReached, OneMoves
<1> QED BY <1>4, <1>5

LEMMA CreateIndexPreserves ==
  ASSUME MigrationInv, NEW p \in Processes, CreateIndex(p)
  PROVE  MigrationInv'
<1> DEFINE v == At("look", Email + 1)
<1>1. proc[p].stage = "index" /\ Progress(proc[p], tables, columns, index)
  BY DEF CreateIndex, MigrationInv
<1>2. proc' = [proc EXCEPT ![p] = v] /\ index' = TRUE /\ UNCHANGED <<tables, columns, deaths>>
  BY DEF CreateIndex
<1>3. v \in ProcStates /\ v.stage = "look" /\ v.rows = FALSE /\ v.at = 3
  BY DEF At, ProcStates, Positions, Email
<1> HIDE DEF v
<1>4. tables = AllTables /\ 1 \in columns /\ 2 \in columns
  BY <1>1 DEF Progress, Email
<1>5. \A k \in Positions : k < 3 => k \in columns
  BY <1>4 DEF Positions
<1>6. Progress(v, tables', columns', index')
  BY <1>2, <1>3, <1>4, <1>5 DEF Progress
<1>7. /\ tables \subseteq tables' /\ tables' \subseteq AllTables
      /\ columns \subseteq columns' /\ columns' \subseteq Positions
      /\ index' \in BOOLEAN /\ (index => index') /\ deaths' \in 0 .. MaxDeaths
  BY <1>2 DEF MigrationInv, MigrationTypeOK, AllTables
<1> QED BY <1>2, <1>3, <1>6, <1>7, OneMoves
-----------------------------------------------------------------------------
LEMMA MigrationStep == MigrationInv /\ [MigrationNext]_migrationVars => MigrationInv'
<1> SUFFICES ASSUME MigrationInv, [MigrationNext]_migrationVars PROVE MigrationInv'
  OBVIOUS
<1>1. deaths \in 0 .. MaxDeaths
  BY DEF MigrationInv, MigrationTypeOK
<1>2. ASSUME NEW p \in Processes, Boot(p) PROVE MigrationInv'
  BY <1>1, <1>2, FreshPreserves DEF Boot
<1>3. ASSUME NEW p \in Processes, Restart(p) PROVE MigrationInv'
  BY <1>1, <1>3, FreshPreserves DEF Restart
<1>4. ASSUME NEW p \in Processes, Die(p) PROVE MigrationInv'
  <2>1. deaths' \in 0 .. MaxDeaths
    BY <1>1, <1>4, MigrationAssumption DEF Die
  <2> QED BY <1>4, <2>1, FreshPreserves DEF Die
<1>5. ASSUME NEW p \in Processes, OpenStep(p) PROVE MigrationInv'
  BY <1>3, <1>5, CreateTablePreserves, LookUpPreserves, CloseRowsPreserves,
     AddColumnPreserves, CreateIndexPreserves DEF OpenStep
<1>6. CASE UNCHANGED migrationVars
  BY <1>6 DEF migrationVars, MigrationInv, MigrationTypeOK, Progress
<1> QED BY <1>2, <1>4, <1>5, <1>6 DEF MigrationNext

LEMMA MigrationInvariant == MigrationSpec => []MigrationInv
  BY MigrationStart, MigrationStep, PTL DEF MigrationSpec

\* The types, and a look-up alone holds the connection.
THEOREM MigrationTypes == MigrationSpec => []MigrationTypeOK
<1>1. MigrationInv => MigrationTypeOK
  BY DEF MigrationInv
<1> QED BY <1>1, MigrationInvariant, PTL

\* A store that is open has every table, every column and the index, whatever
\* release left the file and wherever earlier attempts, any number of them and at
\* the same time, died.
THEOREM OpenStoreIsComplete == MigrationSpec => []OpenIsComplete
<1>1. MigrationInv => OpenIsComplete
  BY DEF MigrationInv, Progress, OpenIsComplete, AllTables
<1> QED BY <1>1, MigrationInvariant, PTL
-----------------------------------------------------------------------------
\* What a process that is alone has found is still so when it acts on it.
AloneInv ==
  \A p \in Processes : Alone(p) =>
    /\ proc[p].stage = "add" => proc[p].at \notin columns
    /\ proc[p].stage = "rows" => proc[p].found = (proc[p].at \in columns)

LEMMA FollowingStage ==
  ASSUME NEW i \in Positions
  PROVE  Following(i).stage \in {"index", "open", "look"}
  BY DEF Following, At

LEMMA AloneStep == MigrationInv /\ AloneInv /\ [MigrationNext]_migrationVars => AloneInv'
<1> SUFFICES ASSUME MigrationInv, AloneInv, [MigrationNext]_migrationVars PROVE AloneInv'
  OBVIOUS
<1>1. CASE UNCHANGED migrationVars
  BY <1>1 DEF migrationVars, AloneInv, Alone
<1>2. ASSUME NEW q \in Processes, Boot(q) \/ Die(q) \/ OpenStep(q)
      PROVE  AloneInv'
  <2>1. /\ proc \in [Processes -> ProcStates] /\ proc[q] \in ProcStates
        /\ \A r \in Processes : r # q => proc'[r] = proc[r]
    BY <1>2 DEF MigrationInv, MigrationTypeOK, Boot, Die, OpenStep, Restart, CreateTable,
                LookUp, CloseRows, AddColumn, CreateIndex
  <2>2. proc'[q].stage # "off"
    <3>1. ASSUME NEW i \in Positions PROVE Following(i).stage # "off"
      BY FollowingStage
    <3>2. proc[q].at \in Positions
      BY <2>1 DEF ProcStates
    <3>3. CASE Boot(q) \/ Die(q) \/ Restart(q) \/ CreateTable(q) \/ CreateIndex(q)
      BY <2>1, <3>3 DEF Boot, Die, Restart, CreateTable, CreateIndex, At, MigrationInv, MigrationTypeOK
    <3>4. CASE CloseRows(q)
      BY <2>1, <3>1, <3>2, <3>4 DEF CloseRows, AfterFound, Closed, MigrationInv, MigrationTypeOK, ProcStates
    <3>5. CASE AddColumn(q)
      BY <2>1, <3>1, <3>2, <3>5 DEF AddColumn, At, MigrationInv, MigrationTypeOK
    <3>6. CASE LookUp(q)
      BY <2>1, <3>6 DEF LookUp, ProcStates, MigrationInv, MigrationTypeOK
    <3> QED BY <1>2, <3>3, <3>4, <3>5, <3>6 DEF OpenStep
  <2>3. SUFFICES ASSUME Alone(q)'
                 PROVE  /\ proc'[q].stage = "add" => proc'[q].at \notin columns'
                        /\ proc'[q].stage = "rows" => proc'[q].found = (proc'[q].at \in columns')
    BY <2>2 DEF AloneInv, Alone
  <2>4. Alone(q)
    BY <2>1, <2>3 DEF Alone
  <2>5. /\ proc[q].stage = "add" => proc[q].at \notin columns
        /\ proc[q].stage = "rows" => proc[q].found = (proc[q].at \in columns)
    BY <2>4 DEF AloneInv
  <2>6. CASE Boot(q) \/ Die(q) \/ Restart(q) \/ CreateTable(q) \/ CreateIndex(q)
    BY <2>1, <2>6 DEF Boot, Die, Restart, CreateTable, CreateIndex, At, MigrationInv, MigrationTypeOK
  <2>7. CASE LookUp(q)
    BY <2>1, <2>7 DEF LookUp, ProcStates, MigrationInv, MigrationTypeOK
  <2>8. CASE CloseRows(q)
    <3>1. proc[q].stage = "rows" /\ columns' = columns /\ proc[q].at \in Positions
      BY <2>1, <2>8 DEF CloseRows, ProcStates
    <3>2. CASE proc[q].found
      <4>1. proc'[q] = Following(proc[q].at)
        BY <2>1, <2>8, <3>2 DEF CloseRows, AfterFound
      <4> QED BY <3>1, <4>1, FollowingStage
    <3>3. CASE ~proc[q].found
      <4>1. proc'[q].stage = "add" /\ proc'[q].at = proc[q].at
        BY <2>1, <2>8, <3>3 DEF CloseRows, Closed, ProcStates
      <4> QED BY <2>5, <3>1, <3>3, <4>1
    <3> QED BY <3>2, <3>3
  <2>9. CASE AddColumn(q)
    <3>1. proc[q].at \in Positions
      BY <2>1 DEF ProcStates
    <3> QED BY <2>1, <2>9, <3>1, FollowingStage DEF AddColumn, At
  <2> QED BY <1>2, <2>6, <2>7, <2>8, <2>9 DEF OpenStep
<1> QED BY <1>1, <1>2 DEF MigrationNext

\* A service that opens the file alone adds no column that is there, whatever file
\* it found and however often it has died on the way: what it leaves behind is what
\* it looks up when it comes back.
THEOREM ColumnsAddedOnce == MigrationSpec => []NeverAddedTwice
<1>1. MigrationInit => AloneInv
  BY DEF MigrationInit, AloneInv, At
<1>2. AloneInv => NeverAddedTwice
  BY DEF AloneInv, NeverAddedTwice
<1> QED BY <1>1, <1>2, AloneStep, MigrationInvariant, PTL DEF MigrationSpec
=============================================================================
