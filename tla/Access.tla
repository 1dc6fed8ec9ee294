------------------------------- MODULE Access -------------------------------
(***************************************************************************)
(* Who may see and edit a monitor: owners, shares, groups and manual       *)
(* accesses (internal/store/monitors.go, internal/store/groups.go and the  *)
(* handlers that call them).                                               *)
(*                                                                         *)
(* A handler is two steps, the reads that decide whether it goes on and    *)
(* the statement or transaction it ends with; accounts and monitors may be *)
(* deleted, and roles change, between the two.  Rows it has read can only  *)
(* disappear meanwhile: the owner of a monitor never changes and no id is  *)
(* used twice, so its reads are one step.                                  *)
(***************************************************************************)


CONSTANTS
  People,    \* user ids
  Monitored, \* monitor ids
  Groups,    \* names of groups
  NoGroup,   \* the empty name of the monitors without group
  NoOne,
  Calls      \* requests in flight at once: a bound of the model

ASSUME AccessAssumption == NoOne \notin People /\ NoGroup \notin Groups

VARIABLES
  role,      \* user id -> role, "none" when there is no such user
  owner,     \* monitor id -> owner_id, NoOne when there is no such monitor
  group,     \* monitor id -> group_name
  made,      \* the monitor ids used so far
  share,     \* monitor_shares: monitor id -> user id -> "none", "view", "edit"
  groupsOf,  \* user_groups: user id -> names
  call       \* the requests that have passed their checks

accessVars == <<role, owner, group, made, share, groupsOf, call>>

GroupNames == Groups \cup {NoGroup}
Shares     == {"none", "view", "edit"}
NoCall     == [op |-> "none"]
CallStates ==
  {NoCall} \cup [op : {"create"}, me : People, group : GroupNames]
  \cup [op : {"update"}, monitor : Monitored, group : GroupNames]
  \cup [op : {"delete"}, monitor : Monitored]
  \cup [op : {"share"}, monitor : Monitored, user : People, as : Shares]
  \cup [op : {"groups"}, user : People, groups : SUBSET GroupNames]
  \cup [op : {"access"}, user : People, monitors : SUBSET Monitored]

IsUser(u)    == role[u] # "none"
IsMonitor(m) == owner[m] # NoOne
Admin(u)     == role[u] = "admin"

AccessInit ==
  /\ role \in [People -> {"admin", "collaborator"}]
  /\ owner = [m \in Monitored |-> NoOne]
  /\ group = [m \in Monitored |-> NoGroup]
  /\ made = {}
  /\ share = [m \in Monitored |-> [u \in People |-> "none"]]
  /\ groupsOf = [u \in People |-> {}]
  /\ call = [c \in Calls |-> NoCall]
-----------------------------------------------------------------------------
\* The three queries that decide who sees a monitor.  Their joins on group_name
\* take the empty name as any other.
SharedWith(u, m)  == share[m][u] # "none"
GroupOpens(u, m)  == group[m] \in groupsOf[u]

ListMonitorsForUser(u) ==
  {m \in Monitored : /\ IsMonitor(m) /\ owner[m] \in People /\ IsUser(owner[m])
                     /\ Admin(u) \/ owner[m] = u \/ SharedWith(u, m) \/ GroupOpens(u, m)}

CanViewMonitor(u, m) ==
  \/ Admin(u)
  \/ IsMonitor(m) /\ (owner[m] = u \/ SharedWith(u, m) \/ GroupOpens(u, m))

ListMonitorViewerIDs(m) ==
  {u \in People : /\ IsUser(u)
                  /\ \/ owner[m] = u \/ SharedWith(u, m) \/ Admin(u)
                     \/ IsMonitor(m) /\ GroupOpens(u, m)}

CanEditMonitor(u, m) ==
  \/ Admin(u)
  \/ IsMonitor(m) /\ (owner[m] = u \/ share[m][u] = "edit")

\* handleDeleteMonitor and canManageShares.
Manages(u, m) == IsMonitor(m) /\ (Admin(u) \/ owner[m] = u)
-----------------------------------------------------------------------------
Accept(c, x) ==
  /\ call[c] = NoCall
  /\ call' = [call EXCEPT ![c] = x]
  /\ UNCHANGED <<role, owner, group, made, share, groupsOf>>

\* Also handleDuplicateMonitor, by whoever may edit the original: the copy is that
\* of its owner, me, and in the same group.
CreateRequest(c, me) ==
  /\ IsUser(me)
  /\ \E g \in GroupNames : Accept(c, [op |-> "create", me |-> me, group |-> g])

UpdateRequest(c, me) ==
  /\ IsUser(me)
  /\ \E m \in Monitored, g \in GroupNames :
       /\ CanEditMonitor(me, m) /\ IsMonitor(m)
       /\ Accept(c, [op |-> "update", monitor |-> m, group |-> g])

DeleteRequest(c, me) ==
  /\ IsUser(me)
  /\ \E m \in Monitored : /\ Manages(me, m)
                          /\ Accept(c, [op |-> "delete", monitor |-> m])

\* handleSetShare and handleDeleteShare.
ShareRequest(c, me) ==
  /\ IsUser(me)
  /\ \E m \in Monitored, u \in People, s \in Shares :
       /\ Manages(me, m)
       /\ s # "none" => u # owner[m] /\ IsUser(u)
       /\ Accept(c, [op |-> "share", monitor |-> m, user |-> u, as |-> s])

\* handleSetUserGroups and handleSetUserAccess, of administrators.
GroupsRequest(c, me) ==
  /\ Admin(me)
  /\ \E u \in People, gs \in SUBSET GroupNames :
       /\ IsUser(u)
       /\ Accept(c, [op |-> "groups", user |-> u, groups |-> gs])

AccessRequest(c, me) ==
  /\ Admin(me)
  /\ \E u \in People, ms \in SUBSET Monitored :
       /\ IsUser(u)
       /\ Accept(c, [op |-> "access", user |-> u, monitors |-> ms])
-----------------------------------------------------------------------------
\* Mutants: the foreign keys are not enforced; the empty name is kept.
ReferencesUnchecked(u, m) == TRUE
CleanedNothing(gs) == gs

\* The foreign keys of monitor_shares.
References(u, m) == IsUser(u) /\ IsMonitor(m)

\* handleSetUserGroups drops the empty names.
Cleaned(gs) == gs \ {NoGroup}

Finish(c) == call' = [call EXCEPT ![c] = NoCall]

CreateMonitor(c) ==
  /\ call[c].op = "create"
  /\ IF IsUser(call[c].me)     \* else the foreign key refuses the row
     THEN \E m \in Monitored \ made :
            /\ owner' = [owner EXCEPT ![m] = call[c].me]
            /\ group' = [group EXCEPT ![m] = call[c].group]
            /\ made' = made \cup {m}
     ELSE UNCHANGED <<owner, group, made>>
  /\ Finish(c)
  /\ UNCHANGED <<role, share, groupsOf>>

UpdateMonitor(c) ==
  /\ call[c].op = "update"
  /\ group' = IF IsMonitor(call[c].monitor)
              THEN [group EXCEPT ![call[c].monitor] = call[c].group] ELSE group
  /\ Finish(c)
  /\ UNCHANGED <<role, owner, made, share, groupsOf>>

Unshared == [u \in People |-> "none"]

DeleteMonitor(c) ==
  /\ call[c].op = "delete"
  /\ LET m == call[c].monitor
     IN  /\ owner' = [owner EXCEPT ![m] = NoOne]
         /\ group' = [group EXCEPT ![m] = NoGroup]
         /\ share' = [share EXCEPT ![m] = Unshared]
  /\ Finish(c)
  /\ UNCHANGED <<role, made, groupsOf>>

\* SetShare, an upsert, and DeleteShare.
SetShare(c) ==
  /\ call[c].op = "share"
  /\ LET m == call[c].monitor  u == call[c].user
     IN  share' = IF call[c].as = "none" \/ References(u, m)
                  THEN [share EXCEPT ![m][u] = call[c].as] ELSE share
  /\ Finish(c)
  /\ UNCHANGED <<role, owner, group, made, groupsOf>>

SetUserGroups(c) ==
  /\ call[c].op = "groups"
  /\ groupsOf' = IF IsUser(call[c].user)
                 THEN [groupsOf EXCEPT ![call[c].user] = Cleaned(call[c].groups)]
                 ELSE groupsOf
  /\ Finish(c)
  /\ UNCHANGED <<role, owner, group, made, share>>

\* Mutant: INSERT OR REPLACE.
ManualAccessReplacing(old, given) == IF given THEN "view" ELSE IF old = "edit" THEN old ELSE "none"

\* The read-only rows are deleted and the new ones inserted, OR IGNORE.
ManualAccess(old, given) ==
  IF old = "edit" THEN "edit" ELSE IF given THEN "view" ELSE "none"

\* One transaction: a foreign key that fails undoes the deletions too.
SetUserManualAccess(c) ==
  /\ call[c].op = "access"
  /\ LET u == call[c].user
     IN  share' = IF \A m \in call[c].monitors : References(u, m)
                  THEN [m \in Monitored |-> [share[m] EXCEPT ![u] =
                          ManualAccess(@, m \in call[c].monitors)]]
                  ELSE share
  /\ Finish(c)
  /\ UNCHANGED <<role, owner, group, made, groupsOf>>

\* A failed statement, a closed connection.
Fail(c) ==
  /\ call[c] # NoCall
  /\ Finish(c)
  /\ UNCHANGED <<role, owner, group, made, share, groupsOf>>

\* UpdateUser and DeleteUser, see Accounts.  The last deletes, in one
\* transaction, what refers to the user and to the user's monitors.
ChangeRole(u) ==
  /\ IsUser(u)
  /\ \E r \in {"admin", "collaborator"} : role' = [role EXCEPT ![u] = r]
  /\ UNCHANGED <<owner, group, made, share, groupsOf, call>>

\* Mutant: the user's monitors are left behind.
RemoveUserOnly(u) ==
  /\ IsUser(u)
  /\ role' = [role EXCEPT ![u] = "none"]
  /\ share' = [m \in Monitored |-> [share[m] EXCEPT ![u] = "none"]]
  /\ groupsOf' = [groupsOf EXCEPT ![u] = {}]
  /\ UNCHANGED <<owner, group, made, call>>

RemoveUser(u) ==
  /\ IsUser(u)
  /\ role' = [role EXCEPT ![u] = "none"]
  /\ owner' = [m \in Monitored |-> IF owner[m] = u THEN NoOne ELSE owner[m]]
  /\ group' = [m \in Monitored |-> IF owner[m] = u THEN NoGroup ELSE group[m]]
  /\ share' = [m \in Monitored |-> IF owner[m] = u THEN Unshared
                                   ELSE [share[m] EXCEPT ![u] = "none"]]
  /\ groupsOf' = [groupsOf EXCEPT ![u] = {}]
  /\ UNCHANGED <<made, call>>

AccessNext ==
  \/ \E c \in Calls, me \in People :
       \/ CreateRequest(c, me) \/ UpdateRequest(c, me) \/ DeleteRequest(c, me)
       \/ ShareRequest(c, me) \/ GroupsRequest(c, me) \/ AccessRequest(c, me)
  \/ \E c \in Calls :
       \/ CreateMonitor(c) \/ UpdateMonitor(c) \/ DeleteMonitor(c) \/ SetShare(c)
       \/ SetUserGroups(c) \/ SetUserManualAccess(c) \/ Fail(c)
  \/ \E u \in People : ChangeRole(u) \/ RemoveUser(u)

AccessSpec == AccessInit /\ [][AccessNext]_accessVars
-----------------------------------------------------------------------------
AccessTypeOK ==
  /\ role \in [People -> {"admin", "collaborator", "none"}]
  /\ owner \in [Monitored -> People \cup {NoOne}]
  /\ group \in [Monitored -> GroupNames]
  /\ made \subseteq Monitored
  /\ share \in [Monitored -> [People -> Shares]]
  /\ groupsOf \in [People -> SUBSET Groups]     \* no empty name
  /\ call \in [Calls -> CallStates]

\* However deletions interleave with requests that passed their checks before
\* them, no monitor is left without its owner and no access without its user
\* or its monitor.
NoDanglingAccess ==
  /\ \A m \in Monitored : IsMonitor(m) => IsUser(owner[m]) /\ m \in made
  /\ \A m \in Monitored, u \in People : SharedWith(u, m) => IsUser(u) /\ IsMonitor(m)
  /\ \A u \in People : groupsOf[u] # {} => IsUser(u)

\* The list of the dashboard, the page of one monitor and the events in real
\* time are decided by three queries, and agree; who may edit may also see.
ViewersAgree ==
  \A u \in People, m \in Monitored :
    IsUser(u) /\ IsMonitor(m) =>
      /\ CanViewMonitor(u, m) <=> m \in ListMonitorsForUser(u)
      /\ CanViewMonitor(u, m) <=> u \in ListMonitorViewerIDs(m)
      /\ CanEditMonitor(u, m) => CanViewMonitor(u, m)

\* A monitor without group is seen by its owner, by those it is shared with and
\* by the administrators only, although the queries compare its empty name with
\* the groups of the users.
UngroupedIsPrivate ==
  \A u \in People, m \in Monitored :
    IsMonitor(m) /\ group[m] = NoGroup /\ CanViewMonitor(u, m) =>
      Admin(u) \/ owner[m] = u \/ SharedWith(u, m)

\* Replacing the manual accesses of a user, kept in the rows of the shares,
\* neither gives nor takes a right to edit (the comment of SetUserManualAccess).
ManualAccessKeepsEditors ==
  [][\A c \in Calls :
       call[c].op = "access" /\ call'[c] = NoCall =>
         \A m \in Monitored, u \in People : share[m][u] = "edit" <=> share'[m][u] = "edit"]_accessVars
=============================================================================
