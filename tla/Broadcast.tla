------------------------------ MODULE Broadcast ------------------------------
(***************************************************************************)
(* What the hub promises, with no locks: an event is written once to every *)
(* socket that its users have open when the publication begins, one write  *)
(* at a time per socket, whatever becomes of the other writes; and no      *)
(* socket comes or goes while a publication is under way.                  *)
(***************************************************************************)
CONSTANTS Sockets, UserOf, Publishers

VARIABLES
  members,  \* the open sockets
  busy,     \* the publishers whose event is under way
  due,      \* publisher -> the sockets its event has still to reach
  writing   \* publisher -> the socket it writes to, as a set of at most one

broadcastVars == <<members, busy, due, writing>>

Init ==
  /\ members = {}
  /\ busy = {}
  /\ due = [p \in Publishers |-> {}]
  /\ writing = [p \in Publishers |-> {}]

\* Publications of P begin, each to the sockets of its users among these.
Begin(P, open) ==
  /\ P \subseteq Publishers \ busy
  /\ busy' = busy \cup P
  /\ \E users \in [P -> SUBSET {UserOf[c] : c \in Sockets}] :
       due' = [p \in Publishers |->
                 IF p \in P THEN {c \in open : UserOf[c] \in users[p]} ELSE due[p]]
  /\ UNCHANGED writing

Publish == \E P \in SUBSET Publishers : Begin(P, members) /\ UNCHANGED members

\* A socket opens or closes between publications; those that waited for that
\* begin with the sockets there are then.
Change(c) ==
  /\ busy = {}
  /\ members' \in {members \cup {c}, members \ {c}}
  /\ \E P \in SUBSET Publishers : Begin(P, members')

StartWrite(p, c) ==
  /\ p \in busy /\ writing[p] = {}
  /\ c \in due[p] /\ \A q \in Publishers : c \notin writing[q]
  /\ writing' = [writing EXCEPT ![p] = {c}]
  /\ UNCHANGED <<members, busy, due>>

\* With or without an error.
EndWrite(p) ==
  /\ writing[p] # {}
  /\ due' = [due EXCEPT ![p] = @ \ writing[p]]
  /\ writing' = [writing EXCEPT ![p] = {}]
  /\ UNCHANGED <<members, busy>>

Finish(p) ==
  /\ p \in busy /\ due[p] = {}
  /\ busy' = busy \ {p}
  /\ UNCHANGED <<members, due, writing>>

Next ==
  \/ Publish
  \/ \E c \in Sockets : Change(c)
  \/ \E p \in Publishers : (\E c \in Sockets : StartWrite(p, c)) \/ EndWrite(p) \/ Finish(p)

Spec == Init /\ [][Next]_broadcastVars
=============================================================================
