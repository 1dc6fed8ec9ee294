----------------------------- MODULE AccessProofs -----------------------------
(***************************************************************************)
(* The invariants of the accesses, for any number of users, monitors,      *)
(* groups and requests in flight.                                          *)
(*                                                                         *)
(* AccessTypeOK and NoDanglingAccess are inductive together; that the      *)
(* queries agree follows from them, because every monitor has an owner     *)
(* that exists and no user has the empty group.                            *)
(***************************************************************************)
EXTENDS Access, TLAPS

AccessInv == AccessTypeOK /\ NoDanglingAccess
-----------------------------------------------------------------------------
LEMMA AccessStart == AccessInit => AccessInv
<1> SUFFICES ASSUME AccessInit PROVE AccessInv
  OBVIOUS
<1>1. AccessTypeOK
  BY DEF AccessInit, AccessTypeOK, GroupNames, Shares, CallStates, NoCall
<1>2. NoDanglingAccess
  BY DEF AccessInit, NoDanglingAccess, IsMonitor, SharedWith
<1> QED BY <1>1, <1>2 DEF AccessInv

\* A request passes its checks: no row changes.
LEMMA AcceptPreserves ==
  ASSUME AccessInv, NEW c \in Calls, NEW x \in CallStates, Accept(c, x)
  PROVE  AccessInv'
BY DEF AccessInv, AccessTypeOK, NoDanglingAccess, IsUser, IsMonitor, SharedWith, Accept

LEMMA RequestPreserves ==
  ASSUME AccessInv, NEW c \in Calls, NEW me \in People,
         \/ CreateRequest(c, me) \/ UpdateRequest(c, me) \/ DeleteRequest(c, me)
         \/ ShareRequest(c, me) \/ GroupsRequest(c, me) \/ AccessRequest(c, me)
  PROVE  AccessInv'
<1>1. CASE CreateRequest(c, me)
  <2>1. PICK g \in GroupNames : Accept(c, [op |-> "create", me |-> me, group |-> g])
    BY <1>1 DEF CreateRequest
  <2>2. [op |-> "create", me |-> me, group |-> g] \in CallStates
    BY DEF CallStates
  <2> QED BY <2>1, <2>2, AcceptPreserves
<1>2. CASE UpdateRequest(c, me)
  <2>1. PICK m \in Monitored, g \in GroupNames :
          Accept(c, [op |-> "update", monitor |-> m, group |-> g])
    BY <1>2 DEF UpdateRequest
  <2>2. [op |-> "update", monitor |-> m, group |-> g] \in CallStates
    BY DEF CallStates
  <2> QED BY <2>1, <2>2, AcceptPreserves
<1>3. CASE DeleteRequest(c, me)
  <2>1. PICK m \in Monitored : Accept(c, [op |-> "delete", monitor |-> m])
    BY <1>3 DEF DeleteRequest
  <2>2. [op |-> "delete", monitor |-> m] \in CallStates
    BY DEF CallStates
  <2> QED BY <2>1, <2>2, AcceptPreserves
<1>4. CASE ShareRequest(c, me)
  <2>1. PICK m \in Monitored, u \in People, s \in Shares :
          Accept(c, [op |-> "share", monitor |-> m, user |-> u, as |-> s])
    BY <1>4 DEF ShareRequest
  <2>2. [op |-> "share", monitor |-> m, user |-> u, as |-> s] \in CallStates
    BY DEF CallStates
  <2> QED BY <2>1, <2>2, AcceptPreserves
<1>5. CASE GroupsRequest(c, me)
  <2>1. PICK u \in People, gs \in SUBSET GroupNames :
          Accept(c, [op |-> "groups", user |-> u, groups |-> gs])
    BY <1>5 DEF GroupsRequest
  <2>2. [op |-> "groups", user |-> u, groups |-> gs] \in CallStates
    BY DEF CallStates
  <2> QED BY <2>1, <2>2, AcceptPreserves
<1>6. CASE AccessRequest(c, me)
  <2>1. PICK u \in People, ms \in SUBSET Monitored :
          Accept(c, [op |-> "access", user |-> u, monitors |-> ms])
    BY <1>6 DEF AccessRequest
  <2>2. [op |-> "access", user |-> u, monitors |-> ms] \in CallStates
    BY DEF CallStates
  <2> QED BY <2>1, <2>2, AcceptPreserves
<1> QED BY <1>1, <1>2, <1>3, <1>4, <1>5, <1>6
-----------------------------------------------------------------------------
\* A request ends: what is left to show is about the rows.
LEMMA FinishType ==
  ASSUME AccessTypeOK, NEW c \in Calls, Finish(c)
  PROVE  call' \in [Calls -> CallStates] /\ call'[c] = NoCall
BY DEF AccessTypeOK, Finish, CallStates

\* What a request that passed its checks asks for.
LEMMA CallFields ==
  ASSUME AccessTypeOK, NEW c \in Calls
  PROVE  /\ call[c].op = "create" => call[c].me \in People /\ call[c].group \in GroupNames
         /\ call[c].op = "update" => call[c].monitor \in Monitored /\ call[c].group \in GroupNames
         /\ call[c].op = "delete" => call[c].monitor \in Monitored
         /\ call[c].op = "share" => /\ call[c].monitor \in Monitored /\ call[c].user \in People
                                    /\ call[c].as \in Shares
         /\ call[c].op = "groups" => call[c].user \in People /\ call[c].groups \subseteq GroupNames
         /\ call[c].op = "access" => call[c].user \in People /\ call[c].monitors \subseteq Monitored
<1>1. call[c] \in CallStates
  BY DEF AccessTypeOK
<1> QED BY <1>1 DEF CallStates, NoCall

LEMMA CreateMonitorPreserves ==
  ASSUME AccessInv, NEW c \in Calls, CreateMonitor(c)
  PROVE  AccessInv'
<1>1. call' \in [Calls -> CallStates]
  BY FinishType DEF AccessInv, CreateMonitor
<1>2. CASE ~IsUser(call[c].me)
  BY <1>1, <1>2 DEF CreateMonitor, AccessInv, AccessTypeOK, NoDanglingAccess, IsUser,
     IsMonitor, SharedWith
<1>3. CASE IsUser(call[c].me)
  <2>1. PICK m \in Monitored \ made :
          /\ owner' = [owner EXCEPT ![m] = call[c].me]
          /\ group' = [group EXCEPT ![m] = call[c].group]
          /\ made' = made \cup {m}
    BY <1>3 DEF CreateMonitor
  <2>2. call[c].me \in People /\ call[c].group \in GroupNames
    BY CallFields DEF AccessInv, CreateMonitor
  <2>3. AccessTypeOK'
    BY <1>1, <2>1, <2>2 DEF CreateMonitor, AccessInv, AccessTypeOK
  <2>4. NoDanglingAccess'
    BY <1>3, <2>1, <2>2, AccessAssumption
       DEF CreateMonitor, AccessInv, AccessTypeOK, NoDanglingAccess, IsUser, IsMonitor, SharedWith
  <2> QED BY <2>3, <2>4 DEF AccessInv
<1> QED BY <1>2, <1>3

LEMMA UpdateMonitorPreserves ==
  ASSUME AccessInv, NEW c \in Calls, UpdateMonitor(c)
  PROVE  AccessInv'
<1>1. call' \in [Calls -> CallStates]
  BY FinishType DEF AccessInv, UpdateMonitor
<1>2. call[c].monitor \in Monitored /\ call[c].group \in GroupNames
  BY CallFields DEF AccessInv, UpdateMonitor
<1>3. AccessTypeOK'
  BY <1>1, <1>2 DEF UpdateMonitor, AccessInv, AccessTypeOK
<1>4. NoDanglingAccess'
  BY DEF UpdateMonitor, AccessInv, NoDanglingAccess, IsUser, IsMonitor, SharedWith
<1> QED BY <1>3, <1>4 DEF AccessInv

LEMMA DeleteMonitorPreserves ==
  ASSUME AccessInv, NEW c \in Calls, DeleteMonitor(c)
  PROVE  AccessInv'
<1> DEFINE m == call[c].monitor
<1>1. call' \in [Calls -> CallStates]
  BY FinishType DEF AccessInv, DeleteMonitor
<1>2. m \in Monitored
  BY CallFields DEF AccessInv, DeleteMonitor
<1>3. /\ owner' = [owner EXCEPT ![m] = NoOne]
      /\ group' = [group EXCEPT ![m] = NoGroup]
      /\ share' = [share EXCEPT ![m] = Unshared]
      /\ UNCHANGED <<role, made, groupsOf>>
  BY DEF DeleteMonitor
<1> HIDE DEF m
<1>4. AccessTypeOK'
  BY <1>1, <1>2, <1>3 DEF AccessInv, AccessTypeOK, GroupNames, Unshared, Shares
<1>5. NoDanglingAccess'
  BY <1>2, <1>3
     DEF AccessInv, AccessTypeOK, NoDanglingAccess, IsUser, IsMonitor, SharedWith, Unshared
<1> QED BY <1>4, <1>5 DEF AccessInv

LEMMA SetSharePreserves ==
  ASSUME AccessInv, NEW c \in Calls, SetShare(c)
  PROVE  AccessInv'
<1> DEFINE m == call[c].monitor
           u == call[c].user
           s == call[c].as
<1>1. call' \in [Calls -> CallStates]
  BY FinishType DEF AccessInv, SetShare
<1>2. m \in Monitored /\ u \in People /\ s \in Shares
  BY CallFields DEF AccessInv, SetShare
<1>3. /\ share' = IF s = "none" \/ References(u, m)
                  THEN [share EXCEPT ![m][u] = s] ELSE share
      /\ UNCHANGED <<role, owner, group, made, groupsOf>>
  BY DEF SetShare
<1> HIDE DEF m, u, s
<1>4. AccessTypeOK'
  BY <1>1, <1>2, <1>3 DEF AccessInv, AccessTypeOK
<1>5. \A n \in Monitored, v \in People :
        share'[n][v] # "none" => share[n][v] # "none" \/ (n = m /\ v = u /\ References(u, m))
  BY <1>2, <1>3 DEF AccessInv, AccessTypeOK
<1>6. NoDanglingAccess'
  BY <1>3, <1>5 DEF AccessInv, NoDanglingAccess, IsUser, IsMonitor, SharedWith, References
<1> QED BY <1>4, <1>6 DEF AccessInv

LEMMA SetUserGroupsPreserves ==
  ASSUME AccessInv, NEW c \in Calls, SetUserGroups(c)
  PROVE  AccessInv'
<1> DEFINE u == call[c].user
           gs == Cleaned(call[c].groups)
<1>1. call' \in [Calls -> CallStates]
  BY FinishType DEF AccessInv, SetUserGroups
<1>2. u \in People /\ gs \subseteq Groups
  BY CallFields DEF AccessInv, SetUserGroups, Cleaned, GroupNames
<1>3. /\ groupsOf' = IF IsUser(u) THEN [groupsOf EXCEPT ![u] = gs] ELSE groupsOf
      /\ UNCHANGED <<role, owner, group, made, share>>
  BY DEF SetUserGroups
<1> HIDE DEF u, gs
<1>4. AccessTypeOK'
  BY <1>1, <1>2, <1>3 DEF AccessInv, AccessTypeOK
<1>5. NoDanglingAccess'
  BY <1>2, <1>3 DEF AccessInv, AccessTypeOK, NoDanglingAccess, IsUser, IsMonitor, SharedWith
<1> QED BY <1>4, <1>5 DEF AccessInv

\* The accesses after SetUserManualAccess: only read-only ones have changed.
LEMMA ManualAccessShares ==
  ASSUME AccessInv, NEW c \in Calls, SetUserManualAccess(c)
  PROVE  /\ share' \in [Monitored -> [People -> Shares]]
         /\ \A m \in Monitored, u \in People :
              /\ share[m][u] = "edit" <=> share'[m][u] = "edit"
              /\ share'[m][u] # "none" => share[m][u] # "none" \/ References(u, m)
<1> DEFINE v == call[c].user
           ms == call[c].monitors
<1>1. v \in People /\ ms \subseteq Monitored
  BY CallFields DEF AccessInv, SetUserManualAccess
<1>2. share \in [Monitored -> [People -> Shares]]
  BY DEF AccessInv, AccessTypeOK
<1>3. CASE \A m \in ms : References(v, m)
  <2>1. share' = [m \in Monitored |-> [share[m] EXCEPT ![v] = ManualAccess(share[m][v], m \in ms)]]
    BY <1>1, <1>2, <1>3 DEF SetUserManualAccess
  <2> HIDE DEF v, ms
  <2>2. \A m \in Monitored :
          ManualAccess(share[m][v], m \in ms) =
            IF share[m][v] = "edit" THEN "edit" ELSE IF m \in ms THEN "view" ELSE "none"
    BY DEF ManualAccess
  <2> DEFINE a(m) == ManualAccess(share[m][v], m \in ms)
  <2>3. \A m \in Monitored : a(m) \in Shares /\ (a(m) = "edit" <=> share[m][v] = "edit")
                             /\ (a(m) # "none" => share[m][v] # "none" \/ m \in ms)
    BY <2>2 DEF Shares
  <2>4. share' = [m \in Monitored |-> [share[m] EXCEPT ![v] = a(m)]]
    BY <2>1
  <2> HIDE DEF a
  <2> QED BY <1>1, <1>2, <1>3, <2>3, <2>4
<1>4. CASE ~(\A m \in ms : References(v, m))
  <2>1. share' = share
    BY <1>4 DEF SetUserManualAccess
  <2> QED BY <1>2, <2>1
<1> QED BY <1>3, <1>4

LEMMA SetUserManualAccessPreserves ==
  ASSUME AccessInv, NEW c \in Calls, SetUserManualAccess(c)
  PROVE  AccessInv'
<1>1. call' \in [Calls -> CallStates]
  BY FinishType DEF AccessInv, SetUserManualAccess
<1>2. UNCHANGED <<role, owner, group, made, groupsOf>>
  BY DEF SetUserManualAccess
<1>3. AccessTypeOK'
  BY <1>1, <1>2, ManualAccessShares DEF AccessInv, AccessTypeOK
<1>4. NoDanglingAccess'
  BY <1>2, ManualAccessShares
     DEF AccessInv, NoDanglingAccess, IsUser, IsMonitor, SharedWith, References
<1> QED BY <1>3, <1>4 DEF AccessInv

LEMMA FailPreserves ==
  ASSUME AccessInv, NEW c \in Calls, Fail(c)
  PROVE  AccessInv'
<1>1. call' \in [Calls -> CallStates]
  BY FinishType DEF AccessInv, Fail
<1> QED BY <1>1 DEF Fail, AccessInv, AccessTypeOK, NoDanglingAccess, IsUser, IsMonitor, SharedWith

LEMMA ChangeRolePreserves ==
  ASSUME AccessInv, NEW u \in People, ChangeRole(u)
  PROVE  AccessInv'
<1>1. PICK r \in {"admin", "collaborator"} : role' = [role EXCEPT ![u] = r]
  BY DEF ChangeRole
<1> QED BY <1>1 DEF ChangeRole, AccessInv, AccessTypeOK, NoDanglingAccess, IsUser, IsMonitor,
           SharedWith

\* The user's monitors go, and with them what others were given of them.
LEMMA RemoveUserPreserves ==
  ASSUME AccessInv, NEW u \in People, RemoveUser(u)
  PROVE  AccessInv'
<1>1. /\ role' = [role EXCEPT ![u] = "none"]
      /\ owner' = [m \in Monitored |-> IF owner[m] = u THEN NoOne ELSE owner[m]]
      /\ group' = [m \in Monitored |-> IF owner[m] = u THEN NoGroup ELSE group[m]]
      /\ groupsOf' = [groupsOf EXCEPT ![u] = {}]
      /\ UNCHANGED <<made, call>>
  BY DEF RemoveUser
<1>2. Unshared \in [People -> Shares] /\ \A v \in People : Unshared[v] = "none"
  BY DEF Unshared, Shares
<1>3. share' = [m \in Monitored |-> IF owner[m] = u THEN Unshared
                                    ELSE [share[m] EXCEPT ![u] = "none"]]
  BY DEF RemoveUser
<1>4. share' \in [Monitored -> [People -> Shares]]
  BY <1>2, <1>3 DEF AccessInv, AccessTypeOK, Shares
<1>5. \A m \in Monitored, v \in People :
        share'[m][v] # "none" => v # u /\ owner[m] # u /\ share[m][v] # "none"
  BY <1>2, <1>3 DEF AccessInv, AccessTypeOK
<1>6. AccessTypeOK'
  BY <1>1, <1>4 DEF AccessInv, AccessTypeOK, GroupNames
<1>7. NoDanglingAccess'
  BY <1>1, <1>5, AccessAssumption
     DEF AccessInv, AccessTypeOK, NoDanglingAccess, IsUser, IsMonitor, SharedWith
<1> QED BY <1>6, <1>7 DEF AccessInv
-----------------------------------------------------------------------------
LEMMA AccessStep == AccessInv /\ [AccessNext]_accessVars => AccessInv'
<1> SUFFICES ASSUME AccessInv, [AccessNext]_accessVars PROVE AccessInv'
  OBVIOUS
<1>1. CASE UNCHANGED accessVars
  BY <1>1 DEF accessVars, AccessInv, AccessTypeOK, NoDanglingAccess, IsUser, IsMonitor, SharedWith
<1> QED BY <1>1, RequestPreserves, CreateMonitorPreserves, UpdateMonitorPreserves,
           DeleteMonitorPreserves, SetSharePreserves, SetUserGroupsPreserves,
           SetUserManualAccessPreserves, FailPreserves, ChangeRolePreserves,
           RemoveUserPreserves DEF AccessNext

LEMMA AccessInvariant == AccessSpec => []AccessInv
  BY AccessStart, AccessStep, PTL DEF AccessSpec

\* The types of the tables and of the requests in flight.
THEOREM AccessTypes == AccessSpec => []AccessTypeOK
<1>1. AccessInv => AccessTypeOK
  BY DEF AccessInv
<1> QED BY <1>1, AccessInvariant, PTL

\* No monitor without its owner, no access without its user and its monitor.
THEOREM NothingDangles == AccessSpec => []NoDanglingAccess
<1>1. AccessInv => NoDanglingAccess
  BY DEF AccessInv
<1> QED BY <1>1, AccessInvariant, PTL

\* The list, the page and the events in real time agree on who sees a monitor.
THEOREM QueriesAgree == AccessSpec => []ViewersAgree
<1>1. AccessInv => ViewersAgree
  BY DEF AccessInv, AccessTypeOK, NoDanglingAccess, ViewersAgree, CanViewMonitor,
     ListMonitorsForUser, ListMonitorViewerIDs, CanEditMonitor, IsUser, IsMonitor, Admin,
     SharedWith
<1> QED BY <1>1, AccessInvariant, PTL

\* The empty group opens nothing.
THEOREM NoGroupOpensNothing == AccessSpec => []UngroupedIsPrivate
<1>1. AccessInv => UngroupedIsPrivate
  BY AccessAssumption DEF AccessInv, AccessTypeOK, UngroupedIsPrivate, CanViewMonitor, GroupOpens
<1> QED BY <1>1, AccessInvariant, PTL

\* Replacing manual accesses gives and takes no right to edit.
THEOREM EditorsAreKept == AccessSpec => ManualAccessKeepsEditors
<1> DEFINE Keeps == \A c \in Calls :
                      call[c].op = "access" /\ call'[c] = NoCall =>
                        \A m \in Monitored, u \in People :
                          share[m][u] = "edit" <=> share'[m][u] = "edit"
<1>1. AccessInv /\ [AccessNext]_accessVars => [Keeps]_accessVars
  <2> SUFFICES ASSUME AccessInv, AccessNext,
                      NEW c \in Calls, call[c].op = "access", call'[c] = NoCall,
                      NEW m \in Monitored, NEW u \in People
               PROVE  share[m][u] = "edit" <=> share'[m][u] = "edit"
    OBVIOUS
  <2>1. NoCall.op = "none" /\ call[c] # NoCall
    BY DEF NoCall
  <2>2. ASSUME NEW d \in Calls, SetUserManualAccess(d)
        PROVE  share[m][u] = "edit" <=> share'[m][u] = "edit"
    BY <2>2, ManualAccessShares
  <2>3. ASSUME NEW d \in Calls, d # c, Finish(d)
        PROVE  FALSE
    BY <2>1, <2>3 DEF Finish, AccessInv, AccessTypeOK
  <2>4. ASSUME NEW d \in Calls,
               CreateMonitor(d) \/ UpdateMonitor(d) \/ DeleteMonitor(d) \/ SetShare(d)
               \/ SetUserGroups(d)
        PROVE  FALSE
    <3>1. Finish(d) /\ call[d].op # "access"
      BY <2>4 DEF CreateMonitor, UpdateMonitor, DeleteMonitor, SetShare, SetUserGroups
    <3> QED BY <2>3, <3>1
  <2>5. ASSUME NEW d \in Calls, Fail(d) PROVE share' = share
    BY <2>5 DEF Fail
  <2>6. ASSUME NEW d \in Calls, NEW me \in People,
               \/ CreateRequest(d, me) \/ UpdateRequest(d, me) \/ DeleteRequest(d, me)
               \/ ShareRequest(d, me) \/ GroupsRequest(d, me) \/ AccessRequest(d, me)
        PROVE  share' = share
    BY <2>6 DEF CreateRequest, UpdateRequest, DeleteRequest, ShareRequest, GroupsRequest,
       AccessRequest, Accept
  <2>7. ASSUME NEW v \in People, ChangeRole(v) \/ RemoveUser(v) PROVE FALSE
    BY <2>1, <2>7 DEF ChangeRole, RemoveUser
  <2> QED BY <2>2, <2>4, <2>5, <2>6, <2>7 DEF AccessNext
<1> QED BY <1>1, AccessInvariant, PTL DEF AccessSpec, ManualAccessKeepsEditors
=============================================================================
