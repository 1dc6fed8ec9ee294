------------------------------ MODULE Channels ------------------------------
(***************************************************************************)
(* The alert channels, their associations with monitors, and the sending   *)
(* of a message (internal/store/notifications.go, handlers_notifs.go, the  *)
(* channel part of handlers_monitors.go, internal/notifier/notifier.go).   *)
(*                                                                         *)
(* Creating, editing and duplicating a monitor end with the same three     *)
(* steps, with other requests between any two: the monitor is written, the *)
(* wanted channels are filtered by who owns them, and the associations are *)
(* replaced in one transaction.  A message lists the active channels of    *)
(* its monitor and goes to each of them in a goroutine of its own, which   *)
(* keeps its copy of the channel.                                          *)
(*                                                                         *)
(* Who may edit a monitor is Access's matter: shares and roles change at   *)
(* any time, so here any user may turn out to be an editor of any monitor. *)
(***************************************************************************)
CONSTANTS
  Owners,    \* user ids
  Mons,      \* monitor ids
  Chans,     \* channel ids
  Nobody,    \* not a user
  Edits      \* requests in flight at once: a bound of the model

ASSUME ChannelsAssumption == Nobody \notin Owners

VARIABLES
  mons,       \* the monitors there are
  monOwner,   \* monitor id -> its owner, Nobody before it is inserted; requests
              \* and runs keep it with their copy of the row when it is gone
  channel,    \* channel id -> its row, owner Nobody when there is none
  assoc,      \* monitor_notifiers: monitor id -> channels
  used,       \* the ids of monitors and channels handed out so far
  edit,       \* the requests in flight
  sending,    \* the goroutines of one message, each with its channel's owner
  past        \* auxiliary: monitor id -> its owner and all its editors so far

channelsVars == <<mons, monOwner, channel, assoc, used, edit, sending, past>>

NoChannel == [owner |-> Nobody, active |-> FALSE]
ChannelRows == [owner : Owners \cup {Nobody}, active : BOOLEAN]
NoEdit == [stage |-> "none"]
EditStates ==
  {NoEdit}
  \cup [stage : {"copied"}, me : Owners, mon : Mons, from : Mons]
  \cup [stage : {"saved"}, me : Owners, mon : Mons, wanted : SUBSET Chans]
  \cup [stage : {"filtered"}, me : Owners, mon : Mons, ids : SUBSET Chans]
Sendings == [mon : Mons, chan : Chans, owner : Owners]

MonExists(m)  == m \in mons
ChanExists(c) == channel[c].owner # Nobody
ListNotifications(u) == {c \in Chans : ChanExists(c) /\ channel[c].owner = u}
ListNotificationsForMonitor(m) == {c \in assoc[m] : ChanExists(c) /\ channel[c].active}

ChannelsInit ==
  /\ mons = {}
  /\ monOwner = [m \in Mons |-> Nobody]
  /\ channel = [c \in Chans |-> NoChannel]
  /\ assoc = [m \in Mons |-> {}]
  /\ used = {}
  /\ edit = [e \in Edits |-> NoEdit]
  /\ sending = {}
  /\ past = [m \in Mons |-> {}]
-----------------------------------------------------------------------------
InsertMonitor(m, u) ==
  /\ m \notin used
  /\ used' = used \cup {m}
  /\ mons' = mons \cup {m}
  /\ monOwner' = [monOwner EXCEPT ![m] = u]

Saved(u, m, ids) == [stage |-> "saved", me |-> u, mon |-> m, wanted |-> ids]

\* handleCreateMonitor and handleUpdateMonitor, up to the write of the monitor.
\* A monitor that is deleted between their checks and that write might as well
\* have been deleted after it.
SaveNew(e, u) ==
  /\ edit[e] = NoEdit
  /\ \E m \in Mons, ids \in SUBSET Chans :
       /\ InsertMonitor(m, u)
       /\ past' = [past EXCEPT ![m] = {u}]
       /\ edit' = [edit EXCEPT ![e] = Saved(u, m, ids)]
  /\ UNCHANGED <<channel, assoc, sending>>

SaveEdit(e, u) ==
  /\ edit[e] = NoEdit
  /\ \E m \in Mons, ids \in SUBSET Chans :
       /\ MonExists(m)
       /\ past' = [past EXCEPT ![m] = @ \cup {u}]
       /\ edit' = [edit EXCEPT ![e] = Saved(u, m, ids)]
  /\ UNCHANGED <<mons, monOwner, channel, assoc, used, sending>>

\* handleDuplicateMonitor: the copy belongs to the owner of the original, and
\* wants the active channels of the original as they are after the copy.
SaveCopy(e, u) ==
  /\ edit[e] = NoEdit
  /\ \E m, copy \in Mons :
       /\ MonExists(m)
       /\ InsertMonitor(copy, monOwner[m])
       /\ past' = [past EXCEPT ![copy] = {u, monOwner[m]}]
       /\ edit' = [edit EXCEPT ![e] = [stage |-> "copied", me |-> u, mon |-> copy, from |-> m]]
  /\ UNCHANGED <<channel, assoc, sending>>

\* The list of the original may fail, and the copy then keeps no channel.
ReadOriginal(e) ==
  /\ edit[e].stage = "copied"
  /\ \/ edit' = [edit EXCEPT ![e] =
          Saved(edit[e].me, edit[e].mon, ListNotificationsForMonitor(edit[e].from))]
     \/ edit' = [edit EXCEPT ![e] = NoEdit]
  /\ UNCHANGED <<mons, monOwner, channel, assoc, used, sending, past>>

\* Mutant: every channel that is wanted is let through.
AllowedAll(users) == Chans

\* filterNotifierIDs: permitidos.
Allowed(users) == UNION {ListNotifications(u) : u \in users}

\* Of the editor and the owner, those whose list fails are left out.
Filter(e) ==
  /\ edit[e].stage = "saved"
  /\ LET x == edit[e]
     IN  \E listed \in SUBSET {x.me, monOwner[x.mon]} :
           edit' = [edit EXCEPT ![e] =
             [stage |-> "filtered", me |-> x.me, mon |-> x.mon,
              ids |-> x.wanted \cap Allowed(listed)]]
  /\ UNCHANGED <<mons, monOwner, channel, assoc, used, sending, past>>

\* Mutant: rows are inserted without their foreign keys.
AcceptsEvery(m, ids) == TRUE

\* The foreign keys of monitor_notifiers.
Accepts(m, ids) == MonExists(m) /\ \A c \in ids : ChanExists(c)

\* SetMonitorNotifiers: all the wanted rows, or the old ones stay, because a foreign
\* key refuses one or the transaction fails.  The monitor has been written by then.
Associate(e) ==
  /\ edit[e].stage = "filtered"
  /\ LET m == edit[e].mon  ids == edit[e].ids
     IN  \/ (ids = {} \/ Accepts(m, ids)) /\ assoc' = [assoc EXCEPT ![m] = ids]
         \/ UNCHANGED assoc
  /\ edit' = [edit EXCEPT ![e] = NoEdit]
  /\ UNCHANGED <<mons, monOwner, channel, used, sending, past>>
-----------------------------------------------------------------------------
\* handleCreateNotification, handleUpdateNotification, handleDeleteNotification;
\* the last takes the associations of the channel with it.
CreateChannel(u) ==
  /\ \E c \in Chans \ used, active \in BOOLEAN :
       /\ used' = used \cup {c}
       /\ channel' = [channel EXCEPT ![c] = [owner |-> u, active |-> active]]
  /\ UNCHANGED <<mons, monOwner, assoc, edit, sending, past>>

UpdateChannel(c) ==
  /\ ChanExists(c)
  /\ \E active \in BOOLEAN : channel' = [channel EXCEPT ![c].active = active]
  /\ UNCHANGED <<mons, monOwner, assoc, used, edit, sending, past>>

\* Mutant: without ON DELETE CASCADE.
DissociateNothing(gone) == assoc

Dissociate(gone) == [m \in Mons |-> assoc[m] \ gone]

DeleteChannel(c) ==
  /\ ChanExists(c)
  /\ channel' = [channel EXCEPT ![c] = NoChannel]
  /\ assoc' = Dissociate({c})
  /\ UNCHANGED <<mons, monOwner, used, edit, sending, past>>

DeleteMon(m) ==
  /\ MonExists(m)
  /\ mons' = mons \ {m}
  /\ assoc' = [assoc EXCEPT ![m] = {}]
  /\ UNCHANGED <<monOwner, channel, used, edit, sending, past>>

\* DeleteUser: the user's monitors and channels go, associations with them.  What
\* the user does after it stands for the requests that were in flight.
DeleteOwner(u) ==
  /\ mons' = {m \in mons : monOwner[m] # u}
  /\ channel' = [c \in Chans |-> IF channel[c].owner = u THEN NoChannel ELSE channel[c]]
  /\ assoc' = [m \in Mons |-> IF monOwner[m] = u THEN {}
                              ELSE Dissociate(ListNotifications(u))[m]]
  /\ UNCHANGED <<monOwner, used, edit, sending, past>>
-----------------------------------------------------------------------------
To(m, chans) == {[mon |-> m, chan |-> c, owner |-> channel[c].owner] : c \in chans}

\* Send, SendSlow, SendCert and SendDomain: one read, then a goroutine each.
\* One message at a time: a bound of the model.
Send(m) ==
  /\ sending = {}
  /\ sending' = To(m, ListNotificationsForMonitor(m))
  /\ UNCHANGED <<mons, monOwner, channel, assoc, used, edit, past>>

\* notifyOwnerText: the first active Telegram channel of the owner carries the
\* message; any of the owner's active channels may be that one.  The owner is that
\* of the run's copy: the monitor may be gone.
SendToOwner(m) ==
  /\ sending = {} /\ monOwner[m] # Nobody
  /\ \E c \in ListNotifications(monOwner[m]) : channel[c].active /\ sending' = To(m, {c})
  /\ UNCHANGED <<mons, monOwner, channel, assoc, used, edit, past>>

\* sendChannel ends, with or without an error: it is not tried again.
SendEnds ==
  /\ \E x \in sending : sending' = sending \ {x}
  /\ UNCHANGED <<mons, monOwner, channel, assoc, used, edit, past>>

\* A restart: requests and messages in flight are gone.
ChannelsCrash ==
  /\ edit' = [e \in Edits |-> NoEdit]
  /\ sending' = {}
  /\ UNCHANGED <<mons, monOwner, channel, assoc, used, past>>

ChannelsNext ==
  \/ \E e \in Edits, u \in Owners : SaveNew(e, u) \/ SaveEdit(e, u) \/ SaveCopy(e, u)
  \/ \E e \in Edits : ReadOriginal(e) \/ Filter(e) \/ Associate(e)
  \/ \E u \in Owners : CreateChannel(u) \/ DeleteOwner(u)
  \/ \E c \in Chans : UpdateChannel(c) \/ DeleteChannel(c)
  \/ \E m \in Mons : DeleteMon(m) \/ Send(m) \/ SendToOwner(m)
  \/ SendEnds
  \/ ChannelsCrash

ChannelsSpec == ChannelsInit /\ [][ChannelsNext]_channelsVars
-----------------------------------------------------------------------------
\* Types; every row has an id that is never handed out again.
ChannelsTypeOK ==
  /\ mons \subseteq Mons
  /\ monOwner \in [Mons -> Owners \cup {Nobody}]
  /\ channel \in [Chans -> ChannelRows]
  /\ assoc \in [Mons -> SUBSET Chans]
  /\ used \subseteq Mons \cup Chans
  /\ edit \in [Edits -> EditStates]
  /\ sending \subseteq Sendings
  /\ past \in [Mons -> SUBSET Owners]
  /\ \A m \in mons : monOwner[m] # Nobody
  /\ \A m \in Mons : monOwner[m] # Nobody => m \in used
  /\ \A c \in Chans : ChanExists(c) => c \in used

\* No association outlives its monitor or its channel, although a channel may
\* be deleted between the filter that let it through and the insertion.
NoDanglingChannel ==
  \A m \in Mons : assoc[m] # {} => MonExists(m) /\ \A c \in assoc[m] : ChanExists(c)

\* The alerts of a monitor go only through channels of its owner, or of somebody
\* who has edited or copied it himself: nobody's channel is attached by another
\* (the comment of filterNotifierIDs), not even through a copy of the monitor.
NoForeignChannel ==
  /\ \A m \in Mons : \A c \in assoc[m] : channel[c].owner \in past[m]
  /\ \A x \in sending : x.owner \in past[x.mon]
=============================================================================
