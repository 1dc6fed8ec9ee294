------------------------------ MODULE Accounts ------------------------------
(***************************************************************************)
(* The accounts and sessions of internal/server/auth.go,                   *)
(* internal/server/handlers_users.go and internal/store/users.go.          *)
(*                                                                         *)
(* SQLite runs one statement at a time (one connection), so a statement,   *)
(* or a transaction, is one step; a handler is a request that takes        *)
(* several of them, and requests interleave between any two.  The user and *)
(* the role a request acts with are those its session had when it began.   *)
(*                                                                         *)
(* Passwords, emails and the layout of the input are left out: a refused   *)
(* input, a wrong password, a taken name or email and a failed statement   *)
(* all end a request with nothing written (Abandon).                       *)
(***************************************************************************)
EXTENDS Integers

CONSTANTS
  Requests,   \* requests in flight at once: a bound of the model
  Tokens,     \* the session tokens handed out: a bound of the model
  Names,      \* user names, equal when they differ only in case
  MaxUsers,   \* accounts ever created: a bound of the model
  TTL,        \* life of a session, in time units
  NoName

ASSUME AccountsAssumption ==
  /\ MaxUsers \in Nat /\ TTL \in Nat /\ NoName \notin Names

VARIABLES
  users,    \* the users table: id -> its row, role "none" where there is none
  nextId,   \* AUTOINCREMENT: the id of the next row, never one of the past
  session,  \* the sessions table: token -> its row, user 0 where there is none
  issued,   \* the tokens drawn so far: 32 random bytes never repeat
  req       \* the requests in flight

accountsVars == <<users, nextId, session, issued, req>>

UserIds == 1 .. MaxUsers
Roles   == {"admin", "collaborator"}
\* founder is auxiliary: the row was inserted by the installation.
NoUser    == [role |-> "none", name |-> NoName, founder |-> FALSE]
NoSession == [user |-> 0, left |-> 0]
UserRows    == [role : Roles \cup {"none"}, name : Names \cup {NoName}, founder : BOOLEAN]
SessionRows == [user : UserIds \cup {0}, left : 0 .. TTL]

\* me and who: the User copied into the context; target and role: the input;
\* counted: what CountAdmins said; overtaken is auxiliary: since the target
\* was read, another request has taken an administrator away or made one of
\* the target.
Idle == [stage |-> "idle", op |-> "none", me |-> 0, who |-> NoName, target |-> 0,
         role |-> "none", counted |-> "no", overtaken |-> FALSE]
RequestStates ==
  [stage : {"idle", "insert", "session", "target", "count", "write"},
   op : {"none", "setup", "login", "create", "update", "delete"},
   me : UserIds \cup {0}, who : Names \cup {NoName}, target : UserIds \cup {0},
   role : Roles \cup {"none"}, counted : {"no", "many", "failed"}, overtaken : BOOLEAN]

HasRow(u)  == users[u].role # "none"
Existing   == {u \in UserIds : HasRow(u)}
IsAdmin(u) == users[u].role = "admin"
Admins     == {u \in UserIds : IsAdmin(u)}
Several(S) == \E a, b \in S : a # b
Live(t)    == session[t].user # 0 /\ session[t].left > 0

AccountsInit ==
  /\ users = [u \in UserIds |-> NoUser]
  /\ nextId = 1
  /\ session = [t \in Tokens |-> NoSession]
  /\ issued = {}
  /\ req = [r \in Requests |-> Idle]

Done(r) == req' = [req EXCEPT ![r] = Idle]
-----------------------------------------------------------------------------
\* What a write of r leaves of the others' reads.
Overtakes(r) ==
  [q \in Requests |->
     IF q # r /\ req[q].stage \in {"count", "write"}
     THEN [req[q] EXCEPT !.overtaken =
             \/ @
             \/ \E u \in UserIds : IsAdmin(u) /\ users'[u].role # "admin"
             \/ ~IsAdmin(req[q].target) /\ users'[req[q].target].role = "admin"]
     ELSE req[q]]

\* Installation: CountUsers first, only a hint.
StartSetup(r) ==
  /\ req[r].stage = "idle"
  /\ Existing = {}
  /\ req' = [req EXCEPT ![r] = [Idle EXCEPT !.stage = "insert", !.op = "setup"]]
  /\ UNCHANGED <<users, nextId, session, issued>>

\* Mutant: without AUTOINCREMENT, the highest id in use plus one.
NewIdReused == IF Existing = {} THEN 1 ELSE (CHOOSE u \in Existing : \A v \in Existing : v <= u) + 1

NewId == nextId

InsertRow(n, role, founder) ==
  /\ NewId \in UserIds
  /\ users' = [users EXCEPT ![NewId] = [role |-> role, name |-> n, founder |-> founder]]
  /\ nextId' = NewId + 1

\* Mutant: the hint is trusted.
CreateFirstUserOnHint(r) ==
  /\ req[r].stage = "insert" /\ req[r].op = "setup"
  /\ \E n \in Names :
       /\ \A u \in Existing : users[u].name # n
       /\ InsertRow(n, "admin", TRUE)
       /\ req' = [Overtakes(r) EXCEPT ![r] =
                    [Idle EXCEPT !.stage = "session", !.op = "setup",
                                 !.me = NewId, !.who = n]]
  /\ UNCHANGED <<session, issued>>

CreateFirstUser(r) ==
  /\ req[r].stage = "insert" /\ req[r].op = "setup"
  /\ \/ /\ Existing = {}
        /\ \E n \in Names :
             /\ InsertRow(n, "admin", TRUE)
             /\ req' = [Overtakes(r) EXCEPT ![r] =
                          [Idle EXCEPT !.stage = "session", !.op = "setup",
                                       !.me = NewId, !.who = n]]
     \/ /\ Existing # {}     \* ErrAlreadyInstalled
        /\ Done(r)
        /\ UNCHANGED <<users, nextId>>
  /\ UNCHANGED <<session, issued>>

\* GetUserByUsername and the password comparison.
Login(r) ==
  /\ req[r].stage = "idle"
  /\ \E u \in Existing :
       req' = [req EXCEPT ![r] = [Idle EXCEPT !.stage = "session", !.op = "login",
                                              !.me = u, !.who = users[u].name]]
  /\ UNCHANGED <<users, nextId, session, issued>>

\* Mutant: the sessions table without its foreign key.
AcceptedAnyway(u) == u \in UserIds

\* startSession.  The row's foreign key refuses a user deleted meanwhile.
Accepted(u) == HasRow(u)

StartSession(r) ==
  /\ req[r].stage = "session"
  /\ \E t \in Tokens \ issued :
       /\ issued' = issued \cup {t}
       /\ session' = IF Accepted(req[r].me)
                     THEN [session EXCEPT ![t] = [user |-> req[r].me, left |-> TTL]]
                     ELSE session
  /\ Done(r)
  /\ UNCHANGED <<users, nextId>>

\* handleLogout, with whatever token the cookie holds.
Logout(t) ==
  /\ session' = [session EXCEPT ![t] = NoSession]
  /\ UNCHANGED <<users, nextId, issued, req>>

\* authJSON and adminJSON: UserForSession, which drops the expired sessions too.
\* A collaborator's request goes no further here.
Authenticate(r, t) ==
  /\ req[r].stage = "idle"
  /\ Live(t) /\ HasRow(session[t].user)
  /\ session' = [s \in Tokens |-> IF session[s].left = 0 THEN NoSession ELSE session[s]]
  /\ LET me == [Idle EXCEPT !.me = session[t].user, !.who = users[session[t].user].name]
     IN  \/ /\ IsAdmin(session[t].user)
            /\ \E op \in {"create", "update", "delete"} :
                 req' = [req EXCEPT ![r] =
                           [me EXCEPT !.op = op,
                              !.stage = IF op = "create" THEN "insert" ELSE "target"]]
         \/ ~IsAdmin(session[t].user) /\ UNCHANGED req
  /\ UNCHANGED <<users, nextId, issued>>

\* handleCreateUser after bcrypt.
CreateUser(r) ==
  /\ req[r].stage = "insert" /\ req[r].op = "create"
  /\ \E n \in Names, role \in Roles :
       /\ \A u \in Existing : users[u].name # n
       /\ InsertRow(n, role, FALSE)
  /\ req' = [Overtakes(r) EXCEPT ![r] = Idle]
  /\ UNCHANGED <<session, issued>>
-----------------------------------------------------------------------------
\* handleUpdateUser and handleDeleteUser: GetUserByID, and nobody demotes or
\* deletes himself.  An administrator's loss is counted first.
Losing(op, role) == op = "delete" \/ role # "admin"

ReadTarget(r) ==
  /\ req[r].stage = "target"
  /\ \E u \in Existing, role \in Roles :
       /\ req[r].op = "delete" => role = "collaborator"     \* no input
       /\ u = req[r].me => req[r].op = "update" /\ (IsAdmin(u) => role = "admin")
       /\ req' = [req EXCEPT ![r].target = u, ![r].role = role,
                    ![r].stage = IF IsAdmin(u) /\ Losing(req[r].op, role)
                                 THEN "count" ELSE "write"]
  /\ UNCHANGED <<users, nextId, session, issued>>

\* Mutant: one administrator is enough to take one away.
CountAdminsOffByOne(r) ==
  /\ req[r].stage = "count"
  /\ \/ /\ Admins # {}
        /\ req' = [req EXCEPT ![r].stage = "write", ![r].counted = "many"]
     \/ Admins = {} /\ Done(r)
     \/ req' = [req EXCEPT ![r].stage = "write", ![r].counted = "failed"]
  /\ UNCHANGED <<users, nextId, session, issued>>

\* CountAdmins; when it fails the request goes on.
CountAdmins(r) ==
  /\ req[r].stage = "count"
  /\ \/ /\ Several(Admins)
        /\ req' = [req EXCEPT ![r].stage = "write", ![r].counted = "many"]
     \/ ~Several(Admins) /\ Done(r)
     \/ req' = [req EXCEPT ![r].stage = "write", ![r].counted = "failed"]
  /\ UNCHANGED <<users, nextId, session, issued>>

\* UpdateUser, without effect on a row that is gone.
UpdateUser(r) ==
  /\ req[r].stage = "write" /\ req[r].op = "update"
  /\ users' = IF HasRow(req[r].target)
              THEN [users EXCEPT ![req[r].target].role = req[r].role] ELSE users
  /\ req' = [Overtakes(r) EXCEPT ![r] = Idle]
  /\ UNCHANGED <<nextId, session, issued>>

\* DeleteUser, one transaction: the row and the sessions of the user.
DeleteUser(r) ==
  /\ req[r].stage = "write" /\ req[r].op = "delete"
  /\ users' = [users EXCEPT ![req[r].target] = NoUser]
  /\ session' = [t \in Tokens |-> IF session[t].user = req[r].target
                                  THEN NoSession ELSE session[t]]
  /\ req' = [Overtakes(r) EXCEPT ![r] = Idle]
  /\ UNCHANGED <<nextId, issued>>

\* A refusal or a failed statement ends a request, a crash ends them all.
Abandon(r) ==
  /\ req[r].stage # "idle"
  /\ Done(r)
  /\ UNCHANGED <<users, nextId, session, issued>>

AccountsCrash ==
  /\ req' = [r \in Requests |-> Idle]
  /\ UNCHANGED <<users, nextId, session, issued>>

SessionsAge ==
  /\ session' = [t \in Tokens |-> [session[t] EXCEPT !.left = IF @ = 0 THEN 0 ELSE @ - 1]]
  /\ UNCHANGED <<users, nextId, issued, req>>

AccountsNext ==
  \/ \E r \in Requests :
       \/ StartSetup(r) \/ CreateFirstUser(r)
       \/ Login(r) \/ StartSession(r)
       \/ \E t \in Tokens : Authenticate(r, t)
       \/ CreateUser(r) \/ ReadTarget(r) \/ CountAdmins(r)
       \/ UpdateUser(r) \/ DeleteUser(r) \/ Abandon(r)
  \/ \E t \in Tokens : Logout(t)
  \/ AccountsCrash
  \/ SessionsAge

AccountsSpec == AccountsInit /\ [][AccountsNext]_accountsVars
-----------------------------------------------------------------------------
AccountsTypeOK ==
  /\ users \in [UserIds -> UserRows]
  /\ nextId \in 1 .. MaxUsers + 1
  /\ session \in [Tokens -> SessionRows]
  /\ issued \subseteq Tokens
  /\ req \in [Requests -> RequestStates]

\* Two installations at the same time never leave two administrators made by
\* the wizard (the comment of CreateFirstUser).
OneFounder ==
  \A u, v \in UserIds : users[u].founder /\ users[v].founder => u = v

\* However a login and the deletion of its user interleave, no session is left
\* that names a user who is gone: a later account cannot inherit it.
SessionsHaveUsers ==
  \A t \in Tokens : session[t].user # 0 => HasRow(session[t].user)

\* A request may outlive its user, never change hands: the id it authenticated
\* is that of the same account, or of none.
RequestKeepsItsUser ==
  \A r \in Requests :
    req[r].me # 0 /\ HasRow(req[r].me) => users[req[r].me].name = req[r].who

\* The last administrator is lost only to a request that another one overtook
\* after its checks, or whose count of the administrators failed.
AdminLossIsARace ==
  [][Admins # {} /\ Admins' = {} =>
       \E r \in Requests : /\ req[r].stage = "write" /\ req'[r].stage = "idle"
                           /\ req[r].overtaken \/ req[r].counted = "failed"]_accountsVars

\* README.md:220 says that there must always be an administrator, protected by
\* the API.  The code does not keep it: see the run last_admin.
AlwaysAnAdmin == [][Admins # {} => Admins' # {}]_accountsVars
=============================================================================
