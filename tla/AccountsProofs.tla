--------------------------- MODULE AccountsProofs ---------------------------
(***************************************************************************)
(* Proofs about Accounts: the inductive invariant AccountsInv, and from it *)
(* the invariants and the action property that the run data checks.        *)
(***************************************************************************)
EXTENDS Accounts, TLAPS

\* Rows are only below nextId, and a missing row has no trace of its user.
RowsBelow ==
  /\ \A u \in UserIds : nextId <= u => users[u].role = "none"
  /\ \A u \in UserIds : users[u].role = "none" => ~users[u].founder

\* What a request has at each stage.
RequestsKnown ==
  \A r \in Requests :
    /\ req[r].me < nextId
    /\ req[r].stage = "session" => req[r].me # 0
    /\ req[r].stage \in {"count", "write"} => req[r].target # 0 /\ req[r].role \in Roles

\* What the checks of a request still say at its write.
CheckStands(x) ==
  /\ x.stage = "target" => x.op \in {"update", "delete"} /\ x.counted = "no"
  /\ x.stage = "write" /\ ~x.overtaken =>
       /\ x.counted = "many" => Several(Admins)
       /\ x.counted = "no" => ~IsAdmin(x.target) \/ (x.op = "update" /\ x.role = "admin")

ChecksHold == \A r \in Requests : CheckStands(req[r])

AccountsInv ==
  /\ AccountsTypeOK /\ RowsBelow /\ RequestsKnown
  /\ OneFounder /\ SessionsHaveUsers /\ RequestKeepsItsUser
-----------------------------------------------------------------------------
\* Overtakes leaves a request as it is but for the flag.
LEMMA OvertakesShape ==
  ASSUME AccountsTypeOK, NEW r \in Requests, NEW q \in Requests
  PROVE  /\ Overtakes(r)[q] \in RequestStates
         /\ \E b \in BOOLEAN : Overtakes(r)[q] = [req[q] EXCEPT !.overtaken = b]
<1>1. req[q] \in RequestStates
  BY DEF AccountsTypeOK
<1>2. CASE q # r /\ req[q].stage \in {"count", "write"}
  <2> DEFINE b == \/ req[q].overtaken
                  \/ \E u \in UserIds : IsAdmin(u) /\ users'[u].role # "admin"
                  \/ ~IsAdmin(req[q].target) /\ users'[req[q].target].role = "admin"
  <2>1. Overtakes(r)[q] = [req[q] EXCEPT !.overtaken = b]
    BY <1>2, Zenon DEF Overtakes
  <2>2. b \in BOOLEAN
    BY Zenon
  <2> QED BY <1>1, <2>1, <2>2 DEF RequestStates
<1>3. CASE ~(q # r /\ req[q].stage \in {"count", "write"})
  <2>1. Overtakes(r)[q] = req[q]
    BY <1>3, Zenon DEF Overtakes
  <2>2. req[q] = [req[q] EXCEPT !.overtaken = req[q].overtaken]
    BY <1>1 DEF RequestStates
  <2>3. req[q].overtaken \in BOOLEAN
    BY <1>1 DEF RequestStates
  <2> QED BY <1>1, <2>1, <2>2, <2>3
<1> QED BY <1>2, <1>3

\* The request that writes ends as v, the others keep all but the flag.
LEMMA AfterWrite ==
  ASSUME AccountsTypeOK, NEW r \in Requests, NEW v \in RequestStates,
         req' = [Overtakes(r) EXCEPT ![r] = v]
  PROVE  /\ req' \in [Requests -> RequestStates]
         /\ req'[r] = v
         /\ \A q \in Requests : q # r =>
              /\ req'[q].me = req[q].me /\ req'[q].who = req[q].who
              /\ req'[q].stage = req[q].stage /\ req'[q].op = req[q].op
              /\ req'[q].target = req[q].target /\ req'[q].role = req[q].role
              /\ req'[q].counted = req[q].counted
<1>1. /\ \A q \in Requests : Overtakes(r)[q] \in RequestStates
      /\ DOMAIN Overtakes(r) = Requests
  BY OvertakesShape DEF Overtakes
<1>2. req' \in [Requests -> RequestStates] /\ req'[r] = v
  BY <1>1 DEF Overtakes
<1>3. ASSUME NEW q \in Requests, q # r
      PROVE  /\ req'[q].me = req[q].me /\ req'[q].who = req[q].who
             /\ req'[q].stage = req[q].stage /\ req'[q].op = req[q].op
             /\ req'[q].target = req[q].target /\ req'[q].role = req[q].role
             /\ req'[q].counted = req[q].counted
  <2>1. req'[q] = Overtakes(r)[q]
    BY <1>1, <1>3 DEF Overtakes
  <2>2. PICK b \in BOOLEAN : Overtakes(r)[q] = [req[q] EXCEPT !.overtaken = b]
    BY OvertakesShape
  <2>3. req[q] \in RequestStates
    BY DEF AccountsTypeOK
  <2> QED BY <2>1, <2>2, <2>3 DEF RequestStates
<1> QED BY <1>2, <1>3
-----------------------------------------------------------------------------
\* What a request may become in a step that leaves the users alone.
MayBecome(v) ==
  /\ v \in RequestStates
  /\ v.me < nextId
  /\ v.stage = "session" => v.me # 0
  /\ v.stage \in {"count", "write"} => v.target # 0 /\ v.role \in Roles
  /\ v.me # 0 /\ HasRow(v.me) => users[v.me].name = v.who

LEMMA IdleIsFree ==
  ASSUME AccountsInv
  PROVE  MayBecome(Idle)
BY DEF AccountsInv, AccountsTypeOK, MayBecome, Idle, RequestStates, UserIds

LEMMA ReadsPreserve ==
  ASSUME AccountsInv, UNCHANGED <<users, nextId>>,
         req' \in [Requests -> RequestStates],
         \A r \in Requests : req'[r] = req[r] \/ MayBecome(req'[r]),
         session' \in [Tokens -> SessionRows], issued' \subseteq Tokens,
         \A t \in Tokens : session'[t].user # 0 => HasRow(session'[t].user)
  PROVE  AccountsInv'
<1>1. AccountsTypeOK'
  BY DEF AccountsInv, AccountsTypeOK
<1>2. RowsBelow' /\ OneFounder' /\ SessionsHaveUsers'
  BY DEF AccountsInv, RowsBelow, OneFounder, SessionsHaveUsers, HasRow
<1>3. RequestsKnown' /\ RequestKeepsItsUser'
  BY DEF AccountsInv, RequestsKnown, RequestKeepsItsUser, MayBecome, HasRow
<1> QED BY <1>1, <1>2, <1>3 DEF AccountsInv

\* One request moves on and nothing is written.
LEMMA MovePreserves ==
  ASSUME AccountsInv, UNCHANGED <<users, nextId, session, issued>>,
         NEW r \in Requests, NEW v, MayBecome(v), req' = [req EXCEPT ![r] = v]
  PROVE  AccountsInv'
<1>1. req' \in [Requests -> RequestStates]
  BY DEF AccountsInv, AccountsTypeOK, MayBecome
<1>2. \A q \in Requests : req'[q] = req[q] \/ MayBecome(req'[q])
  BY DEF AccountsInv, AccountsTypeOK
<1>3. /\ session' \in [Tokens -> SessionRows] /\ issued' \subseteq Tokens
      /\ \A t \in Tokens : session'[t].user # 0 => HasRow(session'[t].user)
  BY DEF AccountsInv, AccountsTypeOK, SessionsHaveUsers
<1> QED BY <1>1, <1>2, <1>3, ReadsPreserve

LEMMA StartSetupPreserves ==
  ASSUME AccountsInv, NEW r \in Requests, StartSetup(r)
  PROVE  AccountsInv'
<1> DEFINE v == [Idle EXCEPT !.stage = "insert", !.op = "setup"]
<1>2. v \in RequestStates /\ v.me = 0 /\ v.stage = "insert"
  BY DEF Idle, RequestStates
<1>3. 0 < nextId
  BY AccountsAssumption DEF AccountsInv, AccountsTypeOK
<1>1. MayBecome(v)
  BY <1>2, <1>3 DEF MayBecome
<1> QED BY <1>1, MovePreserves DEF StartSetup

LEMMA LoginPreserves ==
  ASSUME AccountsInv, NEW r \in Requests, Login(r)
  PROVE  AccountsInv'
<1>1. PICK u \in Existing :
        req' = [req EXCEPT ![r] = [Idle EXCEPT !.stage = "session", !.op = "login",
                                               !.me = u, !.who = users[u].name]]
  BY DEF Login
<1>2. u \in UserIds /\ u < nextId /\ users[u].name \in Names \cup {NoName}
  BY AccountsAssumption DEF Existing, HasRow, AccountsInv, AccountsTypeOK, RowsBelow, UserRows, UserIds
<1> DEFINE v == [Idle EXCEPT !.stage = "session", !.op = "login",
                             !.me = u, !.who = users[u].name]
<1>4. /\ v \in RequestStates /\ v.stage = "session"
      /\ v.me = u /\ v.who = users[u].name
  BY <1>2 DEF Idle, RequestStates
<1>5. u # 0
  BY <1>2, AccountsAssumption DEF UserIds
<1> HIDE DEF v
<1>3. MayBecome(v)
  BY <1>2, <1>4, <1>5 DEF MayBecome
<1> QED BY <1>1, <1>3, MovePreserves DEF Login, v

LEMMA ReadTargetPreserves ==
  ASSUME AccountsInv, NEW r \in Requests, ReadTarget(r)
  PROVE  AccountsInv'
<1>1. PICK u \in Existing, role \in Roles :
        req' = [req EXCEPT ![r].target = u, ![r].role = role,
                  ![r].stage = IF IsAdmin(u) /\ Losing(req[r].op, role)
                               THEN "count" ELSE "write"]
  BY DEF ReadTarget
<1>2. u \in UserIds
  BY DEF Existing
<1>3. PICK stage \in {"count", "write"} :
        req' = [req EXCEPT ![r].target = u, ![r].role = role, ![r].stage = stage]
  BY <1>1
<1> DEFINE v == [req[r] EXCEPT !.target = u, !.role = role, !.stage = stage]
<1>4. req[r] \in RequestStates /\ req[r].me < nextId
      /\ (req[r].me # 0 /\ HasRow(req[r].me) => users[req[r].me].name = req[r].who)
  BY DEF AccountsInv, AccountsTypeOK, RequestsKnown, RequestKeepsItsUser
<1>5. /\ v \in RequestStates /\ v.me = req[r].me /\ v.who = req[r].who
      /\ v.stage \in {"count", "write"} /\ v.target = u /\ v.role = role
  BY <1>2, <1>4 DEF RequestStates
<1>6. u # 0
  BY <1>2, AccountsAssumption DEF UserIds
<1>7. req' = [req EXCEPT ![r] = v]
  BY <1>3 DEF AccountsInv, AccountsTypeOK
<1> HIDE DEF v
<1>8. MayBecome(v)
  BY <1>4, <1>5, <1>6 DEF MayBecome
<1> QED BY <1>7, <1>8, MovePreserves DEF ReadTarget

LEMMA CountAdminsPreserves ==
  ASSUME AccountsInv, NEW r \in Requests, CountAdmins(r)
  PROVE  AccountsInv'
<1>1. CASE req' = [req EXCEPT ![r] = Idle]
  BY <1>1, IdleIsFree, MovePreserves DEF CountAdmins
<1>2. ASSUME NEW counted \in {"many", "failed"},
             req' = [req EXCEPT ![r].stage = "write", ![r].counted = counted]
      PROVE  AccountsInv'
  <2> DEFINE v == [req[r] EXCEPT !.stage = "write", !.counted = counted]
  <2>1. /\ req[r] \in RequestStates /\ req[r].me < nextId
        /\ req[r].target # 0 /\ req[r].role \in Roles
        /\ (req[r].me # 0 /\ HasRow(req[r].me) => users[req[r].me].name = req[r].who)
    BY DEF AccountsInv, AccountsTypeOK, RequestsKnown, RequestKeepsItsUser, CountAdmins
  <2>2. MayBecome(v)
    BY <2>1 DEF MayBecome, RequestStates
  <2>3. req' = [req EXCEPT ![r] = v]
    BY <1>2 DEF AccountsInv, AccountsTypeOK
  <2> QED BY <2>2, <2>3, MovePreserves DEF CountAdmins
<1> QED BY <1>1, <1>2 DEF CountAdmins, Done

LEMMA AbandonPreserves ==
  ASSUME AccountsInv, NEW r \in Requests, Abandon(r)
  PROVE  AccountsInv'
BY IdleIsFree, MovePreserves DEF Abandon, Done
-----------------------------------------------------------------------------
\* The steps that write sessions only.
LEMMA StartSessionPreserves ==
  ASSUME AccountsInv, NEW r \in Requests, StartSession(r)
  PROVE  AccountsInv'
<1>1. PICK t \in Tokens :
        /\ issued' = issued \cup {t}
        /\ session' = IF Accepted(req[r].me)
                      THEN [session EXCEPT ![t] = [user |-> req[r].me, left |-> TTL]]
                      ELSE session
  BY DEF StartSession
<1>2. req' = [req EXCEPT ![r] = Idle]
  BY DEF StartSession, Done
<1>3. /\ req' \in [Requests -> RequestStates]
      /\ \A q \in Requests : req'[q] = req[q] \/ MayBecome(req'[q])
  BY <1>2, IdleIsFree DEF AccountsInv, AccountsTypeOK, MayBecome
<1>4. [user |-> req[r].me, left |-> TTL] \in SessionRows
  BY AccountsAssumption DEF AccountsInv, AccountsTypeOK, RequestStates, SessionRows
<1>5. session' \in [Tokens -> SessionRows] /\ issued' \subseteq Tokens
  BY <1>1, <1>4 DEF AccountsInv, AccountsTypeOK
<1>6. \A s \in Tokens : session'[s].user # 0 => HasRow(session'[s].user)
  BY <1>1 DEF AccountsInv, AccountsTypeOK, SessionsHaveUsers, Accepted
<1> QED BY <1>3, <1>5, <1>6, ReadsPreserve DEF StartSession

LEMMA SessionRowsLeft ==
  ASSUME AccountsInv, UNCHANGED <<users, nextId, issued>>,
         NEW r \in Requests, req' = req \/ \E v : MayBecome(v) /\ req' = [req EXCEPT ![r] = v],
         session' \in [Tokens -> SessionRows],
         \A t \in Tokens : session'[t].user \in {session[t].user, 0}
  PROVE  AccountsInv'
<1>1. /\ req' \in [Requests -> RequestStates]
      /\ \A q \in Requests : req'[q] = req[q] \/ MayBecome(req'[q])
  BY DEF AccountsInv, AccountsTypeOK, MayBecome
<1>2. \A t \in Tokens : session'[t].user # 0 => HasRow(session'[t].user)
  BY DEF AccountsInv, SessionsHaveUsers
<1>3. issued' \subseteq Tokens
  BY DEF AccountsInv, AccountsTypeOK
<1> QED BY <1>1, <1>2, <1>3, ReadsPreserve

LEMMA AuthenticatePreserves ==
  ASSUME AccountsInv, NEW r \in Requests, NEW t \in Tokens, Authenticate(r, t)
  PROVE  AccountsInv'
<1>1. NoSession \in SessionRows
  BY AccountsAssumption DEF NoSession, SessionRows
<1>2. session' = [s \in Tokens |-> IF session[s].left = 0 THEN NoSession ELSE session[s]]
  BY DEF Authenticate
<1>3. /\ session' \in [Tokens -> SessionRows]
      /\ \A s \in Tokens : session'[s].user \in {session[s].user, 0}
  BY <1>1, <1>2 DEF AccountsInv, AccountsTypeOK, NoSession
<1> DEFINE u == session[t].user
<1>4. u \in UserIds /\ u # 0 /\ HasRow(u) /\ u < nextId
  BY DEF Authenticate, Live, HasRow, AccountsInv, AccountsTypeOK, SessionRows, RowsBelow, UserIds
<1>5. users[u].name \in Names \cup {NoName}
  BY <1>4 DEF AccountsInv, AccountsTypeOK, UserRows
<1>6. CASE UNCHANGED req
  BY <1>3, <1>6, SessionRowsLeft DEF Authenticate
<1>7. ASSUME NEW op \in {"create", "update", "delete"}, NEW stage \in {"insert", "target"},
             req' = [req EXCEPT ![r] = [Idle EXCEPT !.me = u, !.who = users[u].name,
                                                    !.op = op, !.stage = stage]]
      PROVE  AccountsInv'
  <2> DEFINE v == [Idle EXCEPT !.me = u, !.who = users[u].name, !.op = op, !.stage = stage]
  <2>1. /\ v \in RequestStates /\ v.stage \in {"insert", "target"}
        /\ v.me = u /\ v.who = users[u].name
    BY <1>4, <1>5 DEF Idle, RequestStates
  <2>2. req' = [req EXCEPT ![r] = v]
    BY <1>7
  <2> HIDE DEF v
  <2>3. MayBecome(v)
    BY <1>4, <2>1 DEF MayBecome
  <2> QED BY <1>3, <2>2, <2>3, SessionRowsLeft DEF Authenticate
<1>8. ASSUME NEW op \in {"create", "update", "delete"},
             req' = [req EXCEPT ![r] =
                       [[Idle EXCEPT !.me = u, !.who = users[u].name] EXCEPT
                          !.op = op, !.stage = IF op = "create" THEN "insert" ELSE "target"]]
      PROVE  AccountsInv'
  <2>1. PICK stage \in {"insert", "target"} :
          stage = IF op = "create" THEN "insert" ELSE "target"
    OBVIOUS
  <2>2. req' = [req EXCEPT ![r] = [Idle EXCEPT !.me = u, !.who = users[u].name,
                                               !.op = op, !.stage = stage]]
    BY <1>8, <2>1 DEF Idle
  <2> QED BY <1>7, <2>2
<1> QED BY <1>6, <1>8 DEF Authenticate

LEMMA SessionsOnlyPreserve ==
  ASSUME AccountsInv, SessionsAge \/ \E t \in Tokens : Logout(t)
  PROVE  AccountsInv'
<1>1. NoSession \in SessionRows
  BY AccountsAssumption DEF NoSession, SessionRows
<1>2. UNCHANGED <<users, nextId, issued, req>>
  BY DEF SessionsAge, Logout
<1>3. \A t \in Tokens : session[t] \in SessionRows
  BY DEF AccountsInv, AccountsTypeOK
<1>4. CASE SessionsAge
  <2>1. \A t \in Tokens :
          [session[t] EXCEPT !.left = IF @ = 0 THEN 0 ELSE @ - 1] \in SessionRows
    BY <1>3, AccountsAssumption DEF SessionRows
  <2>2. /\ session' \in [Tokens -> SessionRows]
        /\ \A t \in Tokens : session'[t].user = session[t].user
    BY <1>3, <1>4, <2>1 DEF SessionsAge, SessionRows
  <2> QED BY <1>2, <2>2, ReadsPreserve DEF AccountsInv, AccountsTypeOK, SessionsHaveUsers
<1>5. CASE \E t \in Tokens : Logout(t)
  <2>1. /\ session' \in [Tokens -> SessionRows]
        /\ \A t \in Tokens : session'[t].user \in {session[t].user, 0}
    BY <1>1, <1>5 DEF Logout, NoSession, AccountsInv, AccountsTypeOK
  <2> QED BY <1>2, <2>1, ReadsPreserve DEF AccountsInv, AccountsTypeOK, SessionsHaveUsers
<1> QED BY <1>4, <1>5

LEMMA CrashPreserves ==
  ASSUME AccountsInv, AccountsCrash
  PROVE  AccountsInv'
<1>1. /\ req' \in [Requests -> RequestStates]
      /\ \A r \in Requests : req'[r] = req[r] \/ MayBecome(req'[r])
  BY IdleIsFree DEF AccountsCrash, MayBecome
<1> QED BY <1>1, ReadsPreserve DEF AccountsCrash, AccountsInv, AccountsTypeOK, SessionsHaveUsers
-----------------------------------------------------------------------------
\* A new row takes an id that no request, session or row has had.
LEMMA InsertPreserves ==
  ASSUME AccountsInv, UNCHANGED <<session, issued>>,
         NewId \in UserIds, nextId' = NewId + 1,
         NEW row \in UserRows, row.role # "none", row.founder => Existing = {},
         users' = [users EXCEPT ![NewId] = row],
         NEW r \in Requests, NEW v \in RequestStates, req' = [Overtakes(r) EXCEPT ![r] = v],
         v = Idle \/ (v.stage = "session" /\ v.me = NewId /\ v.who = row.name)
  PROVE  AccountsInv'
<1>1. /\ nextId \in UserIds /\ nextId' = nextId + 1
      /\ users' = [users EXCEPT ![nextId] = row]
  BY DEF NewId
<1>2. AccountsTypeOK /\ nextId \in Nat /\ nextId # 0
  BY <1>1, AccountsAssumption DEF AccountsInv, UserIds
<1>3. /\ users' \in [UserIds -> UserRows] /\ users'[nextId] = row
      /\ \A u \in UserIds : u # nextId => users'[u] = users[u]
  BY <1>1, <1>2 DEF AccountsTypeOK
<1>4. /\ req' \in [Requests -> RequestStates] /\ req'[r] = v
      /\ \A q \in Requests : q # r =>
           /\ req'[q].me = req[q].me /\ req'[q].who = req[q].who
           /\ req'[q].stage = req[q].stage
           /\ req'[q].target = req[q].target /\ req'[q].role = req[q].role
  BY <1>2, AfterWrite
<1>5. AccountsTypeOK'
  BY <1>1, <1>2, <1>3, <1>4, AccountsAssumption DEF AccountsTypeOK, UserIds
<1>6. RowsBelow'
  BY <1>1, <1>2, <1>3 DEF AccountsInv, RowsBelow, UserIds, Roles
<1>7. OneFounder'
  BY <1>3 DEF AccountsInv, RowsBelow, OneFounder, Existing, HasRow
<1>8. SessionsHaveUsers'
  <2>1. \A u \in UserIds : HasRow(u) => HasRow(u)'
    BY <1>3 DEF HasRow, Roles
  <2> QED BY <2>1 DEF AccountsInv, AccountsTypeOK, SessionsHaveUsers, SessionRows
<1>9. \A q \in Requests : q # r => req[q] \in RequestStates /\ req[q].me < nextId
  BY <1>2 DEF AccountsInv, AccountsTypeOK, RequestsKnown
<1>10. RequestsKnown'
  BY <1>1, <1>2, <1>4, <1>9
     DEF AccountsInv, RequestsKnown, Idle, NewId, RequestStates, UserIds
<1>11. RequestKeepsItsUser'
  <2>1. ASSUME NEW q \in Requests, q # r, req[q].me # 0, users'[req[q].me].role # "none"
        PROVE  users'[req[q].me].name = req[q].who
    <3>1. req[q].me \in UserIds /\ req[q].me # nextId
      BY <1>2, <1>9, <2>1 DEF RequestStates, UserIds
    <3> QED BY <1>3, <2>1, <3>1 DEF AccountsInv, RequestKeepsItsUser, HasRow
  <2>2. req'[r].me # 0 => users'[req'[r].me].name = req'[r].who
    BY <1>3, <1>4 DEF Idle, NewId
  <2> QED BY <1>4, <2>1, <2>2 DEF RequestKeepsItsUser, HasRow
<1> QED BY <1>5, <1>6, <1>7, <1>8, <1>10, <1>11 DEF AccountsInv

LEMMA CreateFirstUserPreserves ==
  ASSUME AccountsInv, NEW r \in Requests, CreateFirstUser(r)
  PROVE  AccountsInv'
<1>1. CASE Existing = {}
  <2>1. PICK n \in Names :
          /\ InsertRow(n, "admin", TRUE)
          /\ req' = [Overtakes(r) EXCEPT ![r] =
                       [Idle EXCEPT !.stage = "session", !.op = "setup",
                                    !.me = NewId, !.who = n]]
    BY <1>1 DEF CreateFirstUser
  <2> DEFINE v == [Idle EXCEPT !.stage = "session", !.op = "setup", !.me = NewId, !.who = n]
             row == [role |-> "admin", name |-> n, founder |-> TRUE]
  <2>2. v \in RequestStates /\ v.stage = "session" /\ v.me = NewId /\ v.who = row.name
    BY <2>1 DEF InsertRow, Idle, RequestStates
  <2>3. req' = [Overtakes(r) EXCEPT ![r] = v]
    BY <2>1
  <2>4. row \in UserRows /\ row.role # "none"
    BY DEF UserRows, Roles
  <2>5. /\ NewId \in UserIds /\ nextId' = NewId + 1
        /\ users' = [users EXCEPT ![NewId] = row] /\ UNCHANGED <<session, issued>>
    BY <2>1 DEF InsertRow, CreateFirstUser
  <2> HIDE DEF v, row
  <2> QED BY <1>1, <2>2, <2>3, <2>4, <2>5, InsertPreserves
<1>2. CASE Existing # {}
  BY <1>2, IdleIsFree, MovePreserves DEF CreateFirstUser, Done
<1> QED BY <1>1, <1>2

LEMMA CreateUserPreserves ==
  ASSUME AccountsInv, NEW r \in Requests, CreateUser(r)
  PROVE  AccountsInv'
<1>1. PICK n \in Names, role \in Roles : InsertRow(n, role, FALSE)
  BY DEF CreateUser
<1> DEFINE row == [role |-> role, name |-> n, founder |-> FALSE]
<1>2. row \in UserRows /\ row.role # "none" /\ ~row.founder
  BY DEF UserRows, Roles
<1>3. /\ NewId \in UserIds /\ nextId' = NewId + 1
      /\ users' = [users EXCEPT ![NewId] = row]
  BY <1>1 DEF InsertRow
<1>4. Idle \in RequestStates
  BY IdleIsFree DEF MayBecome
<1> HIDE DEF row
<1> QED BY <1>2, <1>3, <1>4, InsertPreserves DEF CreateUser
-----------------------------------------------------------------------------
\* A row is changed, or goes with its sessions.
LEMMA RowChangePreserves ==
  ASSUME AccountsInv, UNCHANGED <<nextId, issued>>,
         NEW r \in Requests, req' = [Overtakes(r) EXCEPT ![r] = Idle],
         users' \in [UserIds -> UserRows], session' \in [Tokens -> SessionRows],
         \A u \in UserIds :
           \/ users'[u] = NoUser
           \/ /\ HasRow(u) <=> HasRow(u)'
              /\ users'[u].name = users[u].name /\ users'[u].founder = users[u].founder,
         \A t \in Tokens :
           \/ session'[t].user = 0
           \/ session'[t].user = session[t].user /\ users'[session[t].user].role # "none"
  PROVE  AccountsInv'
<1>1. AccountsTypeOK /\ Idle \in RequestStates
  BY IdleIsFree DEF AccountsInv, MayBecome
<1>2. /\ req' \in [Requests -> RequestStates] /\ req'[r] = Idle
      /\ \A q \in Requests : q # r =>
           /\ req'[q].me = req[q].me /\ req'[q].who = req[q].who
           /\ req'[q].stage = req[q].stage
           /\ req'[q].target = req[q].target /\ req'[q].role = req[q].role
  BY <1>1, AfterWrite
<1>3. AccountsTypeOK'
  BY <1>1, <1>2 DEF AccountsTypeOK
<1>4. RowsBelow'
  BY DEF AccountsInv, RowsBelow, HasRow, NoUser
<1>5. OneFounder'
  <2>1. \A u \in UserIds : users'[u].founder => users[u].founder
    BY DEF NoUser
  <2> QED BY <2>1 DEF AccountsInv, OneFounder
<1>6. SessionsHaveUsers'
  BY DEF SessionsHaveUsers, HasRow
<1>7. RequestsKnown'
  <2>1. 0 < nextId /\ Idle.me = 0 /\ Idle.stage = "idle"
    BY <1>1, AccountsAssumption DEF AccountsTypeOK, Idle
  <2> QED BY <1>2, <2>1 DEF AccountsInv, RequestsKnown
<1>8. RequestKeepsItsUser'
  <2>1. ASSUME NEW q \in Requests, q # r, req[q].me # 0, users'[req[q].me].role # "none"
        PROVE  users'[req[q].me].name = req[q].who
    <3>1. req[q].me \in UserIds
      BY <1>1, <2>1 DEF AccountsTypeOK, RequestStates
    <3> QED BY <2>1, <3>1 DEF AccountsInv, RequestKeepsItsUser, HasRow, NoUser
  <2> QED BY <1>2, <2>1 DEF RequestKeepsItsUser, HasRow, Idle
<1> QED BY <1>3, <1>4, <1>5, <1>6, <1>7, <1>8 DEF AccountsInv

LEMMA UpdateUserPreserves ==
  ASSUME AccountsInv, NEW r \in Requests, UpdateUser(r)
  PROVE  AccountsInv'
<1>1. /\ AccountsTypeOK /\ req[r].target \in UserIds /\ req[r].role \in Roles
  BY DEF UpdateUser, AccountsInv, AccountsTypeOK, RequestsKnown, RequestStates
<1>2. \A u \in UserIds : users[u] \in UserRows
  BY <1>1 DEF AccountsTypeOK
<1>3. /\ users' \in [UserIds -> UserRows]
      /\ \A u \in UserIds :
           /\ HasRow(u) <=> HasRow(u)'
           /\ users'[u].name = users[u].name /\ users'[u].founder = users[u].founder
  BY <1>1, <1>2 DEF UpdateUser, AccountsTypeOK, UserRows, HasRow, Roles
<1>4. \A t \in Tokens : session[t].user \in UserIds \cup {0}
  BY <1>1 DEF AccountsTypeOK, SessionRows
<1>5. \A t \in Tokens : session[t].user # 0 => users'[session[t].user].role # "none"
  BY <1>3, <1>4 DEF AccountsInv, SessionsHaveUsers, HasRow
<1> QED BY <1>1, <1>3, <1>5, RowChangePreserves DEF UpdateUser, AccountsTypeOK

LEMMA DeleteUserPreserves ==
  ASSUME AccountsInv, NEW r \in Requests, DeleteUser(r)
  PROVE  AccountsInv'
<1>1. AccountsTypeOK /\ req[r].target \in UserIds
  BY DEF DeleteUser, AccountsInv, AccountsTypeOK, RequestsKnown, RequestStates
<1>2. NoUser \in UserRows /\ NoSession \in SessionRows
  BY AccountsAssumption DEF NoUser, UserRows, NoSession, SessionRows
<1>3. /\ users' \in [UserIds -> UserRows] /\ users'[req[r].target] = NoUser
      /\ \A u \in UserIds : u # req[r].target => users'[u] = users[u]
  BY <1>1, <1>2 DEF DeleteUser, AccountsTypeOK
<1>4. /\ session' \in [Tokens -> SessionRows]
      /\ \A t \in Tokens :
           \/ session'[t].user = 0
           \/ session'[t].user = session[t].user /\ session[t].user # req[r].target
  BY <1>1, <1>2 DEF DeleteUser, AccountsTypeOK, NoSession
<1>5. \A t \in Tokens :
        \/ session'[t].user = 0
        \/ session'[t].user = session[t].user /\ users'[session[t].user].role # "none"
  <2> SUFFICES ASSUME NEW t \in Tokens, session'[t].user # 0
               PROVE  session'[t].user = session[t].user /\ users'[session[t].user].role # "none"
    OBVIOUS
  <2>1. session'[t].user = session[t].user /\ session[t].user \in UserIds
    BY <1>1, <1>4 DEF AccountsTypeOK, SessionRows
  <2> QED BY <1>3, <1>4, <2>1 DEF AccountsInv, SessionsHaveUsers, HasRow
<1> QED BY <1>3, <1>4, <1>5, RowChangePreserves DEF DeleteUser, HasRow
-----------------------------------------------------------------------------
LEMMA AccountsInvInit ==
  ASSUME AccountsInit
  PROVE  AccountsInv
<1>1. /\ NoUser \in UserRows /\ NoSession \in SessionRows /\ Idle \in RequestStates
      /\ NoUser.role = "none" /\ ~NoUser.founder /\ NoSession.user = 0
      /\ Idle.me = 0 /\ Idle.stage = "idle"
  BY AccountsAssumption DEF NoUser, UserRows, NoSession, SessionRows, Idle, RequestStates
<1>2. AccountsTypeOK
  BY <1>1, AccountsAssumption DEF AccountsInit, AccountsTypeOK
<1>3. /\ RowsBelow /\ RequestsKnown /\ OneFounder
      /\ SessionsHaveUsers /\ RequestKeepsItsUser
  BY <1>1 DEF AccountsInit, RowsBelow, RequestsKnown, OneFounder, SessionsHaveUsers,
              RequestKeepsItsUser
<1> QED BY <1>2, <1>3 DEF AccountsInv

LEMMA AccountsInvStep ==
  ASSUME AccountsInv, [AccountsNext]_accountsVars
  PROVE  AccountsInv'
<1>1. CASE UNCHANGED accountsVars
  BY <1>1 DEF accountsVars, AccountsInv, AccountsTypeOK, RowsBelow, RequestsKnown,
              OneFounder, SessionsHaveUsers, RequestKeepsItsUser, HasRow
<1>2. ASSUME NEW r \in Requests,
             \/ StartSetup(r) \/ CreateFirstUser(r) \/ Login(r) \/ StartSession(r)
             \/ \E t \in Tokens : Authenticate(r, t)
             \/ CreateUser(r) \/ ReadTarget(r) \/ CountAdmins(r)
             \/ UpdateUser(r) \/ DeleteUser(r) \/ Abandon(r)
      PROVE  AccountsInv'
  BY <1>2, StartSetupPreserves, CreateFirstUserPreserves, LoginPreserves,
     StartSessionPreserves, AuthenticatePreserves, CreateUserPreserves,
     ReadTargetPreserves, CountAdminsPreserves, UpdateUserPreserves,
     DeleteUserPreserves, AbandonPreserves
<1>3. CASE \E t \in Tokens : Logout(t)
  BY <1>3, SessionsOnlyPreserve
<1>4. CASE AccountsCrash
  BY <1>4, CrashPreserves
<1>5. CASE SessionsAge
  BY <1>5, SessionsOnlyPreserve
<1> QED BY <1>1, <1>2, <1>3, <1>4, <1>5 DEF AccountsNext

\* The invariant of the accounts, for any numbers of requests, tokens and users.
THEOREM AccountsInvariant == AccountsSpec => []AccountsInv
BY AccountsInvInit, AccountsInvStep, PTL DEF AccountsSpec

\* Rows, requests and sessions are always well formed.
THEOREM AccountsTypes == AccountsSpec => []AccountsTypeOK
<1>1. AccountsInv => AccountsTypeOK
  BY DEF AccountsInv
<1> QED BY <1>1, AccountsInvariant, PTL

\* However many installations race, one of them makes the first administrator:
\* a row is inserted as the founder's only into an empty table.
THEOREM OneInstallation == AccountsSpec => []OneFounder
<1>1. AccountsInv => OneFounder
  BY DEF AccountsInv
<1> QED BY <1>1, AccountsInvariant, PTL

\* A session always names a user who exists: a login that loses the race with the
\* deletion of its user is refused by the foreign key.
THEOREM NoOrphanSession == AccountsSpec => []SessionsHaveUsers
<1>1. AccountsInv => SessionsHaveUsers
  BY DEF AccountsInv
<1> QED BY <1>1, AccountsInvariant, PTL

\* The user a request acts for is the one it authenticated, or is gone: ids are
\* never used again (RowsBelow).
THEOREM NoBorrowedIdentity == AccountsSpec => []RequestKeepsItsUser
<1>1. AccountsInv => RequestKeepsItsUser
  BY DEF AccountsInv
<1> QED BY <1>1, AccountsInvariant, PTL
-----------------------------------------------------------------------------
\* A write leaves the checks of the requests it does not overtake true.
LEMMA WritesKeepChecks ==
  ASSUME AccountsInv, ChecksHold, NEW r \in Requests, NEW v \in RequestStates,
         v.stage \notin {"target", "write"}, req' = [Overtakes(r) EXCEPT ![r] = v]
  PROVE  ChecksHold'
<1>1. /\ AccountsTypeOK /\ req'[r] = v
      /\ \A q \in Requests : q # r =>
           /\ req'[q].stage = req[q].stage /\ req'[q].op = req[q].op
           /\ req'[q].target = req[q].target /\ req'[q].role = req[q].role
           /\ req'[q].counted = req[q].counted
  BY AfterWrite DEF AccountsInv
<1>2. ASSUME NEW q \in Requests, q # r, req[q].stage = "write", ~req'[q].overtaken
      PROVE  /\ ~req[q].overtaken
             /\ \A u \in UserIds : IsAdmin(u) => users'[u].role = "admin"
             /\ ~IsAdmin(req[q].target) => users'[req[q].target].role # "admin"
  <2> DEFINE b == \/ req[q].overtaken
                  \/ \E u \in UserIds : IsAdmin(u) /\ users'[u].role # "admin"
                  \/ ~IsAdmin(req[q].target) /\ users'[req[q].target].role = "admin"
  <2>1. req'[q] = Overtakes(r)[q]
    BY <1>2 DEF Overtakes
  <2>2. Overtakes(r)[q] = [req[q] EXCEPT !.overtaken = b]
    BY <1>2, Zenon DEF Overtakes
  <2>3. req[q] \in RequestStates
    BY <1>1 DEF AccountsTypeOK
  <2>4. b \in BOOLEAN
    BY Zenon
  <2>5. ~b
    <3> HIDE DEF b
    <3> QED BY <1>2, <2>1, <2>2, <2>3, <2>4 DEF RequestStates
  <2> QED BY <2>5, Zenon
<1>3. ASSUME NEW q \in Requests, q # r
      PROVE  CheckStands(req[q])'
  <2>1. CheckStands(req[q])
    BY DEF ChecksHold
  <2>2. req[q].stage = "write" /\ ~req'[q].overtaken /\ Several(Admins) =>
          Several(Admins)'
    BY <1>2, <1>3 DEF Several, Admins, IsAdmin
  <2>3. req[q].stage = "write" /\ ~req'[q].overtaken /\ ~IsAdmin(req[q].target) =>
          users'[req'[q].target].role # "admin"
    BY <1>1, <1>2, <1>3
  <2>4. req[q].stage = "write" /\ ~req'[q].overtaken => ~req[q].overtaken
    BY <1>2, <1>3
  <2> QED BY <1>1, <1>3, <2>1, <2>2, <2>3, <2>4 DEF CheckStands, IsAdmin
<1>4. CheckStands(req[r])'
  BY <1>1 DEF CheckStands
<1> QED BY <1>3, <1>4 DEF ChecksHold

\* A step that leaves the users alone.
LEMMA ReadsKeepChecks ==
  ASSUME ChecksHold, UNCHANGED users,
         \A r \in Requests : req'[r] = req[r] \/ CheckStands(req'[r])
  PROVE  ChecksHold'
BY DEF ChecksHold, CheckStands, Several, Admins, IsAdmin

LEMMA TargetChecks ==
  ASSUME AccountsInv, ChecksHold, NEW r \in Requests, ReadTarget(r)
  PROVE  ChecksHold'
<1>1. PICK u \in Existing, role \in Roles :
        req' = [req EXCEPT ![r].target = u, ![r].role = role,
                  ![r].stage = IF IsAdmin(u) /\ Losing(req[r].op, role)
                               THEN "count" ELSE "write"]
  BY DEF ReadTarget
<1>2. /\ req \in [Requests -> RequestStates] /\ req[r] \in RequestStates
      /\ req[r].op \in {"update", "delete"} /\ req[r].counted = "no"
  BY DEF AccountsInv, AccountsTypeOK, ChecksHold, CheckStands, ReadTarget
<1>3. /\ req'[r].op = req[r].op /\ req'[r].counted = "no"
      /\ req'[r].target = u /\ req'[r].role = role
      /\ req'[r].stage = IF IsAdmin(u) /\ Losing(req[r].op, role) THEN "count" ELSE "write"
  BY <1>1, <1>2 DEF RequestStates
<1>4. CheckStands(req'[r])
  BY <1>2, <1>3 DEF CheckStands, Losing
<1>5. \A q \in Requests : q # r => req'[q] = req[q]
  BY <1>1, <1>2
<1> QED BY <1>4, <1>5, ReadsKeepChecks DEF ReadTarget

LEMMA CountChecks ==
  ASSUME AccountsInv, ChecksHold, NEW r \in Requests, CountAdmins(r)
  PROVE  ChecksHold'
<1>1. req \in [Requests -> RequestStates] /\ req[r] \in RequestStates
  BY DEF AccountsInv, AccountsTypeOK
<1>2. \A q \in Requests : q # r => req'[q] = req[q]
  BY <1>1 DEF CountAdmins, Done
<1>3. CASE Several(Admins) /\ req' = [req EXCEPT ![r].stage = "write", ![r].counted = "many"]
  <2>1. req'[r].stage = "write" /\ req'[r].counted = "many"
    BY <1>1, <1>3 DEF RequestStates
  <2> QED BY <1>2, <1>3, <2>1, ReadsKeepChecks DEF CheckStands, CountAdmins
<1>4. CASE req' = [req EXCEPT ![r] = Idle]
  <2>1. req'[r].stage = "idle"
    BY <1>1, <1>4 DEF Idle
  <2> QED BY <1>2, <2>1, ReadsKeepChecks DEF CheckStands, CountAdmins
<1>5. CASE req' = [req EXCEPT ![r].stage = "write", ![r].counted = "failed"]
  <2>1. req'[r].stage = "write" /\ req'[r].counted = "failed"
    BY <1>1, <1>5 DEF RequestStates
  <2> QED BY <1>2, <2>1, ReadsKeepChecks DEF CheckStands, CountAdmins
<1> QED BY <1>3, <1>4, <1>5 DEF CountAdmins, Done

LEMMA ChecksStep ==
  ASSUME AccountsInv, ChecksHold, [AccountsNext]_accountsVars
  PROVE  ChecksHold'
<1>1. /\ req \in [Requests -> RequestStates] /\ Idle \in RequestStates
      /\ Idle.stage = "idle" /\ CheckStands(Idle)
  BY IdleIsFree DEF AccountsInv, AccountsTypeOK, MayBecome, CheckStands, Idle
<1>2. CASE UNCHANGED accountsVars
  BY <1>2, ReadsKeepChecks DEF accountsVars
<1>3. ASSUME NEW r \in Requests, StartSetup(r) \/ Login(r)
      PROVE  ChecksHold'
  <2>1. req'[r].stage \in {"insert", "session"} /\ \A q \in Requests : q # r => req'[q] = req[q]
    BY <1>1, <1>3 DEF StartSetup, Login, Idle
  <2> QED BY <1>3, <2>1, ReadsKeepChecks DEF CheckStands, StartSetup, Login
<1>4. ASSUME NEW r \in Requests, StartSession(r) \/ Abandon(r)
      PROVE  ChecksHold'
  BY <1>1, <1>4, ReadsKeepChecks DEF StartSession, Abandon, Done
<1>5. ASSUME NEW r \in Requests, NEW t \in Tokens, Authenticate(r, t)
      PROVE  ChecksHold'
  <2>1. CASE UNCHANGED req
    BY <1>5, <2>1, ReadsKeepChecks DEF Authenticate
  <2>2. CASE ~UNCHANGED req
    <3>1. PICK op \in {"create", "update", "delete"} :
            req' = [req EXCEPT ![r] =
                      [[Idle EXCEPT !.me = session[t].user, !.who = users[session[t].user].name]
                         EXCEPT !.op = op,
                                !.stage = IF op = "create" THEN "insert" ELSE "target"]]
      BY <1>5, <2>2 DEF Authenticate
    <3>2. /\ req'[r].op = op /\ req'[r].counted = "no"
          /\ req'[r].stage = IF op = "create" THEN "insert" ELSE "target"
          /\ \A q \in Requests : q # r => req'[q] = req[q]
      BY <1>1, <3>1 DEF Idle
    <3>3. CheckStands(req'[r])
      BY <3>2 DEF CheckStands
    <3> QED BY <1>5, <3>2, <3>3, ReadsKeepChecks DEF Authenticate
  <2> QED BY <2>1, <2>2
<1>6. ASSUME NEW r \in Requests, CreateFirstUser(r)
      PROVE  ChecksHold'
  <2>1. CASE Existing # {}
    BY <1>1, <1>6, <2>1, ReadsKeepChecks DEF CreateFirstUser, Done
  <2>2. CASE Existing = {}
    <3>1. PICK n \in Names :
            /\ InsertRow(n, "admin", TRUE)
            /\ req' = [Overtakes(r) EXCEPT ![r] =
                         [Idle EXCEPT !.stage = "session", !.op = "setup",
                                      !.me = NewId, !.who = n]]
      BY <1>6, <2>2 DEF CreateFirstUser
    <3> DEFINE v == [Idle EXCEPT !.stage = "session", !.op = "setup", !.me = NewId, !.who = n]
    <3>2. v \in RequestStates /\ v.stage = "session"
      BY <3>1 DEF InsertRow, Idle, RequestStates
    <3>3. req' = [Overtakes(r) EXCEPT ![r] = v]
      BY <3>1
    <3> HIDE DEF v
    <3> QED BY <3>2, <3>3, WritesKeepChecks
  <2> QED BY <2>1, <2>2
<1>7. ASSUME NEW r \in Requests, CreateUser(r) \/ UpdateUser(r) \/ DeleteUser(r)
      PROVE  ChecksHold'
  BY <1>1, <1>7, WritesKeepChecks DEF CreateUser, UpdateUser, DeleteUser
<1>8. CASE SessionsAge \/ \E t \in Tokens : Logout(t)
  BY <1>8, ReadsKeepChecks DEF SessionsAge, Logout
<1>9. CASE AccountsCrash
  BY <1>1, <1>9, ReadsKeepChecks DEF AccountsCrash
<1> QED BY <1>2, <1>3, <1>4, <1>5, <1>6, <1>7, <1>8, <1>9, TargetChecks, CountChecks
       DEF AccountsNext
-----------------------------------------------------------------------------
\* Who takes the last administrator away.
Race ==
  \E r \in Requests : /\ req[r].stage = "write" /\ req'[r].stage = "idle"
                      /\ req[r].overtaken \/ req[r].counted = "failed"

LEMMA LossIsARace ==
  ASSUME AccountsInv, ChecksHold, [AccountsNext]_accountsVars
  PROVE  Admins # {} /\ Admins' = {} => Race
<1> SUFFICES ASSUME Admins # {}, Admins' = {}
             PROVE  Race
  OBVIOUS
<1>1. PICK a \in UserIds : IsAdmin(a) /\ users'[a].role # "admin"
  BY DEF Admins, IsAdmin
<1>2. /\ users \in [UserIds -> UserRows] /\ req \in [Requests -> RequestStates]
      /\ a < nextId /\ nextId \in Nat
  BY <1>1, AccountsAssumption
     DEF AccountsInv, AccountsTypeOK, RowsBelow, IsAdmin, UserIds
<1>3. PICK r \in Requests : UpdateUser(r) \/ DeleteUser(r)
  <2>1. ASSUME NEW n, NEW role, NEW founder, InsertRow(n, role, founder)
        PROVE  FALSE
    BY <1>1, <1>2, <2>1 DEF InsertRow, NewId, IsAdmin
  <2>2. users' # users
    BY <1>1 DEF IsAdmin
  <2> QED BY <2>1, <2>2 DEF AccountsNext, accountsVars, StartSetup, CreateFirstUser, Login,
               StartSession, Authenticate, CreateUser, ReadTarget, CountAdmins, Abandon,
               Logout, AccountsCrash, SessionsAge
<1>4. req[r].stage = "write" /\ req'[r].stage = "idle"
  <2>1. req'[r] = Idle
    BY <1>3 DEF UpdateUser, DeleteUser, Overtakes
  <2> QED BY <1>3, <2>1 DEF UpdateUser, DeleteUser, Idle
<1> DEFINE x == req[r].target
<1>5. /\ x \in UserIds
      /\ \A u \in UserIds : u # x => users'[u] = users[u]
  BY <1>2, <1>3 DEF UpdateUser, DeleteUser, AccountsInv, RequestsKnown, RequestStates
<1>6. IsAdmin(x) /\ ~(req[r].op = "update" /\ req[r].role = "admin")
  <2>1. a = x
    BY <1>1, <1>5 DEF IsAdmin
  <2>2. ASSUME req[r].op = "update", req[r].role = "admin"
        PROVE  users'[x].role = "admin"
    BY <1>1, <1>2, <1>3, <1>5, <2>1, <2>2
       DEF UpdateUser, DeleteUser, UserRows, IsAdmin
  <2> QED BY <1>1, <2>1, <2>2
<1>7. ~Several(Admins)
  <2> SUFFICES ASSUME NEW u \in Admins, u # x
               PROVE  FALSE
    BY DEF Several
  <2>1. users'[u].role = "admin" /\ u \in UserIds
    BY <1>5 DEF Admins, IsAdmin
  <2> QED BY <2>1 DEF Admins, IsAdmin
<1>8. req[r].counted \in {"no", "many", "failed"}
  BY <1>2 DEF RequestStates
<1> QED BY <1>4, <1>6, <1>7, <1>8 DEF ChecksHold, CheckStands, Race

\* The last administrator is lost only to a request that another one overtook, or
\* whose count failed: one request after the other, the API keeps its promise.
THEOREM LastAdminNeedsARace == AccountsSpec => AdminLossIsARace
<1>1. AccountsInit => ChecksHold
  <2>1. CheckStands(Idle)
    BY DEF CheckStands, Idle
  <2> QED BY <2>1 DEF AccountsInit, ChecksHold
<1>2. AccountsInv /\ ChecksHold /\ [AccountsNext]_accountsVars => ChecksHold'
  BY ChecksStep
<1>3. AccountsInv /\ ChecksHold /\ [AccountsNext]_accountsVars =>
        [Admins # {} /\ Admins' = {} => Race]_accountsVars
  BY LossIsARace
<1> QED BY <1>1, <1>2, <1>3, AccountsInvariant, PTL DEF AccountsSpec, AdminLossIsARace, Race
=============================================================================
