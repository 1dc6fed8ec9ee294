---------------------------- MODULE ChannelsProofs ----------------------------
(***************************************************************************)
(* The alerts of a monitor go only through channels of its owner and of    *)
(* those who edited it themselves: for any number of users, monitors,      *)
(* channels and requests in flight.                                        *)
(*                                                                         *)
(* What makes NoForeignChannel inductive is that an id is handed out once: *)
(* everything in flight is about ids that have been used (InFlight), so a  *)
(* new monitor or channel cannot meet what an old one left behind.         *)
(***************************************************************************)
EXTENDS Channels, TLAPS

\* Of a request in state x.
EditInv(x, ids, chans, editors) ==
  x # NoEdit =>
    /\ x.mon \in ids /\ x.me \in editors[x.mon]
    /\ x.stage = "filtered" =>
         \A c \in x.ids : c \in ids /\ (chans[c].owner # Nobody => chans[c].owner \in editors[x.mon])

InFlight ==
  /\ \A e \in Edits : EditInv(edit[e], used, channel, past)
  /\ \A x \in sending : x.mon \in used
  /\ \A m \in Mons : monOwner[m] # Nobody => monOwner[m] \in past[m]

ChannelsInv == ChannelsTypeOK /\ NoDanglingChannel /\ NoForeignChannel /\ InFlight
-----------------------------------------------------------------------------
LEMMA ChannelsStart == ChannelsInit => ChannelsInv
<1> SUFFICES ASSUME ChannelsInit PROVE ChannelsInv
  OBVIOUS
<1>1. NoChannel \in ChannelRows /\ NoChannel.owner = Nobody
  BY DEF NoChannel, ChannelRows
<1>2. NoEdit \in EditStates
  BY DEF EditStates
<1>3. ChannelsTypeOK
  BY <1>1, <1>2 DEF ChannelsInit, ChannelsTypeOK, MonExists, ChanExists
<1>4. NoDanglingChannel /\ NoForeignChannel
  BY DEF ChannelsInit, NoDanglingChannel, NoForeignChannel
<1>5. InFlight
  BY DEF ChannelsInit, InFlight, EditInv, MonExists
<1> QED BY <1>3, <1>4, <1>5 DEF ChannelsInv

\* The shape of a request in flight.
LEMMA EditFields ==
  ASSUME ChannelsTypeOK, NEW e \in Edits
  PROVE  /\ edit[e] # NoEdit => edit[e].mon \in Mons /\ edit[e].me \in Owners
         /\ edit[e].stage = "copied" => edit[e].from \in Mons
         /\ edit[e].stage = "saved" => edit[e].wanted \subseteq Chans
         /\ edit[e].stage = "filtered" => edit[e].ids \subseteq Chans
         /\ edit[e].stage # "none" => edit[e] # NoEdit
<1>1. edit[e] \in EditStates
  BY DEF ChannelsTypeOK
<1> QED BY <1>1 DEF EditStates, NoEdit

\* A row of channels that changes as rows do: its owner stays, or it goes, or it
\* has an id that was never used.
RowsChange ==
  /\ channel' \in [Chans -> ChannelRows]
  /\ \A c \in Chans : c \in used => channel'[c].owner \in {channel[c].owner, Nobody}
  /\ \A c \in Chans : channel'[c].owner # Nobody => c \in used'

\* A monitor that is new, or goes, or stays as it is.
MonitorsChange ==
  /\ mons' \subseteq Mons /\ \A m \in mons' : monOwner'[m] # Nobody
  /\ monOwner' \in [Mons -> Owners \cup {Nobody}]
  /\ past' \in [Mons -> SUBSET Owners]
  /\ \A m \in Mons : m \in used => past[m] \subseteq past'[m]
  /\ \A m \in Mons : monOwner'[m] # Nobody => m \in used' /\ monOwner'[m] \in past'[m]

\* The associations lose rows, with their monitor or their channel.
AssociationsShrink ==
  /\ assoc' \in [Mons -> SUBSET Chans]
  /\ \A m \in Mons : \A c \in assoc'[m] :
       c \in assoc[m] /\ m \in mons' /\ channel'[c].owner # Nobody

\* What any of these steps preserves, with a request that may have been taken up.
LEMMA RowsPreserve ==
  ASSUME ChannelsInv, RowsChange, MonitorsChange, AssociationsShrink,
         used \subseteq used', used' \subseteq Mons \cup Chans, sending' = sending,
         edit' \in [Edits -> EditStates],
         \A e \in Edits : edit'[e] = edit[e] \/ EditInv(edit'[e], used', channel', past')
  PROVE  ChannelsInv'
<1>1. ChannelsTypeOK'
  BY DEF ChannelsInv, ChannelsTypeOK, RowsChange, MonitorsChange, AssociationsShrink,
     MonExists, ChanExists
<1>2. NoDanglingChannel'
  BY DEF AssociationsShrink, NoDanglingChannel, MonExists, ChanExists
<1>3. \A m \in Mons : \A c \in assoc'[m] : channel'[c].owner \in past'[m]
  <2> SUFFICES ASSUME NEW m \in Mons, NEW c \in assoc'[m]
               PROVE  channel'[c].owner \in past'[m]
    OBVIOUS
  <2>1. c \in assoc[m] /\ c \in Chans /\ channel'[c].owner # Nobody
    BY DEF AssociationsShrink
  <2>2. m \in used /\ c \in used /\ channel[c].owner \in past[m]
    BY <2>1 DEF ChannelsInv, ChannelsTypeOK, NoDanglingChannel, NoForeignChannel, MonExists
  <2> QED BY <2>1, <2>2 DEF RowsChange, MonitorsChange
<1>4. \A x \in sending' : x.owner \in past'[x.mon] /\ x.mon \in used'
  BY DEF ChannelsInv, ChannelsTypeOK, Sendings, NoForeignChannel, InFlight, MonitorsChange
<1>5. ASSUME NEW e \in Edits, edit'[e] = edit[e]
      PROVE  EditInv(edit'[e], used', channel', past')
  <2> SUFFICES ASSUME edit[e] # NoEdit
               PROVE  EditInv(edit[e], used', channel', past')
    BY <1>5 DEF EditInv
  <2>1. EditInv(edit[e], used, channel, past)
    BY DEF ChannelsInv, InFlight
  <2>2. edit[e].mon \in Mons /\ edit[e].mon \in used /\ past[edit[e].mon] \subseteq past'[edit[e].mon]
    BY <2>1, EditFields DEF EditInv, ChannelsInv, MonitorsChange
  <2>3. edit[e].stage = "filtered" => edit[e].ids \subseteq Chans
    BY EditFields DEF ChannelsInv
  <2> QED BY <2>1, <2>2, <2>3 DEF EditInv, RowsChange
<1>6. InFlight'
  BY <1>4, <1>5 DEF InFlight, MonitorsChange, MonExists
<1> QED BY <1>1, <1>2, <1>3, <1>4, <1>6 DEF ChannelsInv, NoForeignChannel

\* A step that leaves the rows and the messages alone.
LEMMA RequestMoves ==
  ASSUME ChannelsInv, UNCHANGED <<mons, monOwner, channel, assoc, used, sending, past>>,
         edit' \in [Edits -> EditStates],
         \A e \in Edits : edit'[e] = edit[e] \/ EditInv(edit'[e], used', channel', past')
  PROVE  ChannelsInv'
<1>1. RowsChange /\ MonitorsChange
  BY DEF ChannelsInv, ChannelsTypeOK, InFlight, RowsChange, MonitorsChange, MonExists, ChanExists
<1>2. AssociationsShrink
  BY DEF ChannelsInv, ChannelsTypeOK, NoDanglingChannel, AssociationsShrink, MonExists, ChanExists
<1> QED BY <1>1, <1>2, RowsPreserve DEF ChannelsInv, ChannelsTypeOK
-----------------------------------------------------------------------------
\* A monitor that is inserted has an id of its own, and no past.
LEMMA InsertPreserves ==
  ASSUME ChannelsInv, NEW e \in Edits, NEW m \in Mons, NEW u \in Owners, NEW o \in Owners,
         InsertMonitor(m, o), past' = [past EXCEPT ![m] = {u, o}],
         NEW x \in EditStates, edit' = [edit EXCEPT ![e] = x],
         x.mon = m, x.me = u, x.stage # "filtered",
         UNCHANGED <<channel, assoc, sending>>
  PROVE  ChannelsInv'
<1>1. m \notin used /\ used' = used \cup {m} /\ monOwner' = [monOwner EXCEPT ![m] = o]
      /\ mons' = mons \cup {m}
  BY DEF InsertMonitor
<1>2. RowsChange
  BY <1>1 DEF ChannelsInv, ChannelsTypeOK, RowsChange, ChanExists
<1>3. MonitorsChange
  <2>1. \A n \in Mons : n # m => monOwner'[n] = monOwner[n] /\ past'[n] = past[n]
    BY <1>1 DEF ChannelsInv, ChannelsTypeOK
  <2>2. monOwner'[m] = o /\ o # Nobody /\ past'[m] = {u, o}
    BY <1>1, ChannelsAssumption DEF ChannelsInv, ChannelsTypeOK
  <2>3. mons' \subseteq Mons /\ \A n \in mons' : monOwner'[n] # Nobody
    BY <1>1, <2>1, <2>2 DEF ChannelsInv, ChannelsTypeOK
  <2>4. /\ monOwner' \in [Mons -> Owners \cup {Nobody}]
        /\ past' \in [Mons -> SUBSET Owners]
    BY <1>1 DEF ChannelsInv, ChannelsTypeOK
  <2> QED BY <1>1, <2>1, <2>2, <2>3, <2>4 DEF ChannelsInv, ChannelsTypeOK, InFlight, MonitorsChange
<1>4. AssociationsShrink
  BY <1>1, ChannelsAssumption
     DEF ChannelsInv, ChannelsTypeOK, NoDanglingChannel, AssociationsShrink, MonExists, ChanExists
<1>5. edit' \in [Edits -> EditStates] /\ \A d \in Edits : edit'[d] = edit[d] \/ d = e
  BY DEF ChannelsInv, ChannelsTypeOK
<1>6. EditInv(edit'[e], used', channel', past')
  BY <1>1 DEF EditInv, ChannelsInv, ChannelsTypeOK
<1> QED BY <1>1, <1>2, <1>3, <1>4, <1>5, <1>6, RowsPreserve DEF ChannelsInv, ChannelsTypeOK

LEMMA SavedType ==
  ASSUME NEW u \in Owners, NEW m \in Mons, NEW ids \in SUBSET Chans
  PROVE  /\ Saved(u, m, ids) \in EditStates
         /\ Saved(u, m, ids).mon = m /\ Saved(u, m, ids).me = u
         /\ Saved(u, m, ids).stage = "saved"
  BY DEF Saved, EditStates

LEMMA SaveNewPreserves ==
  ASSUME ChannelsInv, NEW e \in Edits, NEW u \in Owners, SaveNew(e, u)
  PROVE  ChannelsInv'
<1>1. PICK m \in Mons, ids \in SUBSET Chans :
        /\ InsertMonitor(m, u)
        /\ past' = [past EXCEPT ![m] = {u}]
        /\ edit' = [edit EXCEPT ![e] = Saved(u, m, ids)]
  BY DEF SaveNew
<1>2. past' = [past EXCEPT ![m] = {u, u}]
  BY <1>1
<1>3. UNCHANGED <<channel, assoc, sending>>
  BY DEF SaveNew
<1> DEFINE x == Saved(u, m, ids)
<1>4. x \in EditStates /\ x.mon = m /\ x.me = u /\ x.stage = "saved"
  BY SavedType
<1>5. edit' = [edit EXCEPT ![e] = x]
  BY <1>1
<1> HIDE DEF x
<1> QED BY <1>1, <1>2, <1>3, <1>4, <1>5, InsertPreserves

LEMMA SaveCopyPreserves ==
  ASSUME ChannelsInv, NEW e \in Edits, NEW u \in Owners, SaveCopy(e, u)
  PROVE  ChannelsInv'
<1>1. PICK m \in Mons, copy \in Mons :
        /\ MonExists(m)
        /\ InsertMonitor(copy, monOwner[m])
        /\ past' = [past EXCEPT ![copy] = {u, monOwner[m]}]
        /\ edit' = [edit EXCEPT ![e] = [stage |-> "copied", me |-> u, mon |-> copy, from |-> m]]
  BY DEF SaveCopy
<1>2. UNCHANGED <<channel, assoc, sending>>
  BY DEF SaveCopy
<1>3. monOwner[m] \in Owners
  BY <1>1 DEF ChannelsInv, ChannelsTypeOK, MonExists
<1> DEFINE x == [stage |-> "copied", me |-> u, mon |-> copy, from |-> m]
<1>4. x \in EditStates /\ x.mon = copy /\ x.me = u /\ x.stage = "copied"
  BY DEF EditStates
<1>5. edit' = [edit EXCEPT ![e] = x]
  BY <1>1
<1> HIDE DEF x
<1> QED BY <1>1, <1>2, <1>3, <1>4, <1>5, InsertPreserves

LEMMA SaveEditPreserves ==
  ASSUME ChannelsInv, NEW e \in Edits, NEW u \in Owners, SaveEdit(e, u)
  PROVE  ChannelsInv'
<1>1. PICK m \in Mons, ids \in SUBSET Chans :
        /\ MonExists(m)
        /\ past' = [past EXCEPT ![m] = @ \cup {u}]
        /\ edit' = [edit EXCEPT ![e] = Saved(u, m, ids)]
  BY DEF SaveEdit
<1>2. UNCHANGED <<mons, monOwner, channel, assoc, used, sending>>
  BY DEF SaveEdit
<1>3. RowsChange /\ MonitorsChange
  BY <1>1, <1>2
     DEF ChannelsInv, ChannelsTypeOK, InFlight, RowsChange, MonitorsChange, MonExists, ChanExists
<1>4. AssociationsShrink
  BY <1>2
     DEF ChannelsInv, ChannelsTypeOK, NoDanglingChannel, AssociationsShrink, MonExists, ChanExists
<1> DEFINE x == Saved(u, m, ids)
<1>5. x \in EditStates /\ x.mon = m /\ x.me = u /\ x.stage = "saved"
  BY SavedType
<1>6. edit' = [edit EXCEPT ![e] = x]
  BY <1>1
<1> HIDE DEF x
<1>7. edit' \in [Edits -> EditStates] /\ \A d \in Edits : edit'[d] = edit[d] \/ d = e
  BY <1>5, <1>6 DEF ChannelsInv, ChannelsTypeOK
<1>8. EditInv(edit'[e], used', channel', past')
  BY <1>1, <1>2, <1>5, <1>6 DEF EditInv, ChannelsInv, ChannelsTypeOK, MonExists
<1> QED BY <1>2, <1>3, <1>4, <1>7, <1>8, RowsPreserve DEF ChannelsInv, ChannelsTypeOK

LEMMA ReadOriginalPreserves ==
  ASSUME ChannelsInv, NEW e \in Edits, ReadOriginal(e)
  PROVE  ChannelsInv'
<1> DEFINE ids == ListNotificationsForMonitor(edit[e].from)
           x == Saved(edit[e].me, edit[e].mon, ids)
<1>1. /\ edit[e] # NoEdit /\ edit[e].mon \in Mons /\ edit[e].me \in Owners
      /\ edit[e].from \in Mons
  BY EditFields DEF ReadOriginal, ChannelsInv
<1>2. ids \in SUBSET Chans
  BY <1>1 DEF ListNotificationsForMonitor, ChannelsInv, ChannelsTypeOK
<1>3. /\ edit' = [edit EXCEPT ![e] = x] \/ edit' = [edit EXCEPT ![e] = NoEdit]
      /\ UNCHANGED <<mons, monOwner, channel, assoc, used, sending, past>>
  BY DEF ReadOriginal
<1> HIDE DEF ids
<1>4. x \in EditStates /\ x.mon = edit[e].mon /\ x.me = edit[e].me /\ x.stage = "saved"
  BY <1>1, <1>2, SavedType
<1> HIDE DEF x
<1>5. edit' \in [Edits -> EditStates] /\ \A d \in Edits : edit'[d] = edit[d] \/ d = e
  BY <1>3, <1>4 DEF ChannelsInv, ChannelsTypeOK, EditStates
<1>6. EditInv(edit'[e], used', channel', past')
  BY <1>1, <1>3, <1>4 DEF EditInv, ChannelsInv, ChannelsTypeOK, InFlight
<1> QED BY <1>3, <1>5, <1>6, RequestMoves

\* The channels that pass the filter are the editor's and the owner's.
LEMMA FilterPreserves ==
  ASSUME ChannelsInv, NEW e \in Edits, Filter(e)
  PROVE  ChannelsInv'
<1>0. PICK listed \in SUBSET {edit[e].me, monOwner[edit[e].mon]} :
        edit' = [edit EXCEPT ![e] =
          [stage |-> "filtered", me |-> edit[e].me, mon |-> edit[e].mon,
           ids |-> edit[e].wanted \cap Allowed(listed)]]
  BY DEF Filter
<1> DEFINE m == edit[e].mon
           ids == edit[e].wanted \cap Allowed(listed)
           x == [stage |-> "filtered", me |-> edit[e].me, mon |-> m, ids |-> ids]
<1>1. /\ edit[e] # NoEdit /\ m \in Mons /\ edit[e].me \in Owners
      /\ edit[e].wanted \subseteq Chans
      /\ m \in used /\ edit[e].me \in past[m]
  BY EditFields DEF Filter, ChannelsInv, InFlight, EditInv
<1>2. \A c \in ids : c \in Chans /\ c \in used /\ channel[c].owner \in past[m]
  BY <1>1 DEF Allowed, ListNotifications, ChannelsInv, ChannelsTypeOK, InFlight, ChanExists
<1>3. edit' = [edit EXCEPT ![e] = x] /\ UNCHANGED <<mons, monOwner, channel, assoc, used, sending, past>>
  BY <1>0 DEF Filter
<1> HIDE DEF m, ids
<1>4. /\ x \in EditStates /\ x.mon = m /\ x.me = edit[e].me /\ x.stage = "filtered"
      /\ x.ids = ids
  BY <1>1, <1>2 DEF EditStates
<1> HIDE DEF x
<1>5. edit' \in [Edits -> EditStates] /\ \A d \in Edits : edit'[d] = edit[d] \/ d = e
  BY <1>3, <1>4 DEF ChannelsInv, ChannelsTypeOK
<1>6. EditInv(edit'[e], used', channel', past')
  BY <1>1, <1>2, <1>3, <1>4 DEF EditInv, ChannelsInv, ChannelsTypeOK
<1> QED BY <1>3, <1>5, <1>6, RequestMoves

LEMMA AssociatePreserves ==
  ASSUME ChannelsInv, NEW e \in Edits, Associate(e)
  PROVE  ChannelsInv'
<1> DEFINE m == edit[e].mon
           ids == edit[e].ids
<1>1. /\ edit[e] # NoEdit /\ m \in Mons /\ ids \subseteq Chans
      /\ \A c \in ids : channel[c].owner # Nobody => channel[c].owner \in past[m]
  BY EditFields DEF Associate, ChannelsInv, InFlight, EditInv
<1>2. /\ \/ (ids = {} \/ Accepts(m, ids)) /\ assoc' = [assoc EXCEPT ![m] = ids]
         \/ assoc' = assoc
      /\ edit' = [edit EXCEPT ![e] = NoEdit]
      /\ UNCHANGED <<mons, monOwner, channel, used, sending, past>>
  BY DEF Associate
<1> HIDE DEF m, ids
<1>3. \A n \in Mons :
        assoc'[n] = assoc[n] \/ (n = m /\ assoc'[n] = ids /\ (ids = {} \/ Accepts(m, ids)))
  BY <1>1, <1>2 DEF ChannelsInv, ChannelsTypeOK
<1>4. edit' \in [Edits -> EditStates] /\ \A d \in Edits : edit'[d] = edit[d] \/ edit'[d] = NoEdit
  BY <1>2 DEF ChannelsInv, ChannelsTypeOK, EditStates
<1>5. ChannelsTypeOK'
  BY <1>1, <1>2, <1>4 DEF ChannelsInv, ChannelsTypeOK, MonExists, ChanExists
<1>6. NoDanglingChannel'
  BY <1>2, <1>3 DEF ChannelsInv, NoDanglingChannel, MonExists, ChanExists, Accepts
<1>7. NoForeignChannel'
  BY <1>1, <1>2, <1>3 DEF ChannelsInv, NoForeignChannel, ChanExists, Accepts
<1>8. InFlight'
  BY <1>2, <1>4 DEF ChannelsInv, InFlight, EditInv, MonExists
<1> QED BY <1>5, <1>6, <1>7, <1>8 DEF ChannelsInv
-----------------------------------------------------------------------------
LEMMA ChannelPreserves ==
  ASSUME ChannelsInv,
         \/ \E u \in Owners : CreateChannel(u) \/ DeleteOwner(u)
         \/ \E c \in Chans : UpdateChannel(c) \/ DeleteChannel(c)
         \/ \E m \in Mons : DeleteMon(m)
  PROVE  ChannelsInv'
<1> USE DEF ChannelsInv, ChannelsTypeOK, MonExists, ChanExists
<1>1. NoChannel \in ChannelRows /\ NoChannel.owner = Nobody
  BY DEF NoChannel, ChannelRows
<1>2. edit' = edit /\ sending' = sending /\ past' = past
  BY DEF CreateChannel, DeleteOwner, UpdateChannel, DeleteChannel, DeleteMon
<1>3. ASSUME NEW u \in Owners, CreateChannel(u)
      PROVE  ChannelsInv'
  <2>1. PICK c \in Chans \ used, active \in BOOLEAN :
          /\ used' = used \cup {c}
          /\ channel' = [channel EXCEPT ![c] = [owner |-> u, active |-> active]]
    BY <1>3 DEF CreateChannel
  <2>2. [owner |-> u, active |-> active] \in ChannelRows
    BY DEF ChannelRows
  <2>3. UNCHANGED <<mons, monOwner, assoc>>
    BY <1>3 DEF CreateChannel
  <2>4. RowsChange
    BY <2>1, <2>2 DEF RowsChange
  <2>5. MonitorsChange
    BY <1>2, <2>1, <2>3 DEF MonitorsChange, InFlight
  <2>6. AssociationsShrink
    BY <2>1, <2>3 DEF AssociationsShrink, NoDanglingChannel
  <2> QED BY <1>2, <2>1, <2>4, <2>5, <2>6, RowsPreserve
<1>4. ASSUME NEW u \in Owners, DeleteOwner(u)
      PROVE  ChannelsInv'
  <2>1. /\ mons' = {m \in mons : monOwner[m] # u} /\ monOwner' = monOwner
        /\ channel' = [c \in Chans |-> IF channel[c].owner = u THEN NoChannel ELSE channel[c]]
        /\ used' = used
    BY <1>4 DEF DeleteOwner
  <2>2. assoc' = [m \in Mons |-> IF monOwner[m] = u THEN {}
                                 ELSE assoc[m] \ ListNotifications(u)]
    BY <1>4 DEF DeleteOwner, Dissociate
  <2>3. RowsChange
    BY <1>1, <2>1 DEF RowsChange
  <2>4. MonitorsChange
    BY <1>2, <2>1 DEF MonitorsChange, InFlight
  <2>5. AssociationsShrink
    BY <2>1, <2>2 DEF AssociationsShrink, NoDanglingChannel, ListNotifications
  <2> QED BY <1>2, <2>1, <2>3, <2>4, <2>5, RowsPreserve
<1>5. ASSUME NEW c \in Chans, UpdateChannel(c)
      PROVE  ChannelsInv'
  <2>1. PICK active \in BOOLEAN : channel' = [channel EXCEPT ![c].active = active]
    BY <1>5 DEF UpdateChannel
  <2> DEFINE x == [channel[c] EXCEPT !.active = active]
  <2>2. x \in ChannelRows /\ x.owner = channel[c].owner
    BY DEF ChannelRows
  <2>3. channel' = [channel EXCEPT ![c] = x]
    BY <2>1 DEF ChannelRows
  <2> HIDE DEF x
  <2>4. UNCHANGED <<mons, monOwner, assoc, used>>
    BY <1>5 DEF UpdateChannel
  <2>5. \A d \in Chans : channel'[d].owner = channel[d].owner
    BY <2>2, <2>3
  <2>6. RowsChange
    BY <2>2, <2>3, <2>4, <2>5 DEF RowsChange
  <2>7. MonitorsChange
    BY <1>2, <2>4 DEF MonitorsChange, InFlight
  <2>8. AssociationsShrink
    BY <2>4, <2>5 DEF AssociationsShrink, NoDanglingChannel
  <2> QED BY <1>2, <2>4, <2>6, <2>7, <2>8, RowsPreserve
<1>6. ASSUME NEW c \in Chans, DeleteChannel(c)
      PROVE  ChannelsInv'
  <2>1. /\ channel' = [channel EXCEPT ![c] = NoChannel]
        /\ assoc' = [m \in Mons |-> assoc[m] \ {c}]
        /\ UNCHANGED <<mons, monOwner, used>>
    BY <1>6 DEF DeleteChannel, Dissociate
  <2>2. RowsChange
    BY <1>1, <2>1 DEF RowsChange
  <2>3. MonitorsChange
    BY <1>2, <2>1 DEF MonitorsChange, InFlight
  <2>4. AssociationsShrink
    BY <2>1 DEF AssociationsShrink, NoDanglingChannel
  <2> QED BY <1>2, <2>1, <2>2, <2>3, <2>4, RowsPreserve
<1>7. ASSUME NEW m \in Mons, DeleteMon(m)
      PROVE  ChannelsInv'
  <2>1. /\ mons' = mons \ {m}
        /\ assoc' = [assoc EXCEPT ![m] = {}]
        /\ UNCHANGED <<monOwner, channel, used>>
    BY <1>7 DEF DeleteMon
  <2>2. RowsChange
    BY <2>1 DEF RowsChange
  <2>3. MonitorsChange
    BY <1>2, <2>1 DEF MonitorsChange, InFlight
  <2>4. AssociationsShrink
    BY <2>1 DEF AssociationsShrink, NoDanglingChannel
  <2> QED BY <1>2, <2>1, <2>2, <2>3, <2>4, RowsPreserve
<1> QED BY <1>3, <1>4, <1>5, <1>6, <1>7
-----------------------------------------------------------------------------
\* Messages start with channels of the monitor as it is, and only end.
LEMMA SendingPreserves ==
  ASSUME ChannelsInv, UNCHANGED <<mons, monOwner, channel, assoc, used, past>>,
         edit' \in [Edits -> EditStates],
         \A e \in Edits : edit'[e] = edit[e] \/ edit'[e] = NoEdit,
         sending' \subseteq Sendings,
         \A x \in sending' : x.mon \in used /\ x.owner \in past[x.mon]
  PROVE  ChannelsInv'
<1>1. ChannelsTypeOK'
  BY DEF ChannelsInv, ChannelsTypeOK, MonExists, ChanExists
<1>2. NoDanglingChannel' /\ NoForeignChannel'
  BY DEF ChannelsInv, NoDanglingChannel, NoForeignChannel, MonExists, ChanExists
<1>3. InFlight'
  BY DEF ChannelsInv, InFlight, EditInv, MonExists
<1> QED BY <1>1, <1>2, <1>3 DEF ChannelsInv

LEMMA ToIsOwned ==
  ASSUME ChannelsInv, NEW m \in Mons, m \in used, NEW chans \in SUBSET Chans,
         \A c \in chans : ChanExists(c) /\ channel[c].owner \in past[m]
  PROVE  /\ To(m, chans) \subseteq Sendings
         /\ \A x \in To(m, chans) : x.mon \in used /\ x.owner \in past[x.mon]
BY DEF ChannelsInv, ChannelsTypeOK, ChanExists, ChannelRows, To, Sendings

LEMMA SendPreserves ==
  ASSUME ChannelsInv, NEW m \in Mons, Send(m) \/ SendToOwner(m)
  PROVE  ChannelsInv'
<1>1. UNCHANGED <<mons, monOwner, channel, assoc, used, edit, past>>
  BY DEF Send, SendToOwner
<1>2. edit' \in [Edits -> EditStates]
  BY <1>1 DEF ChannelsInv, ChannelsTypeOK
<1>3. CASE Send(m)
  <2> DEFINE chans == ListNotificationsForMonitor(m)
  <2>1. sending' = To(m, chans)
    BY <1>3 DEF Send
  <2>2. /\ chans \in SUBSET Chans /\ chans \subseteq assoc[m]
        /\ \A c \in chans : ChanExists(c) /\ channel[c].owner \in past[m]
    BY DEF ListNotificationsForMonitor, ChannelsInv, ChannelsTypeOK, NoForeignChannel
  <2> HIDE DEF chans
  <2>3. CASE chans = {}
    <3>1. sending' = {}
      BY <2>1, <2>3 DEF To
    <3> QED BY <1>1, <1>2, <3>1, SendingPreserves
  <2>4. CASE chans # {}
    <3>1. m \in used
      BY <2>2, <2>4 DEF ChannelsInv, ChannelsTypeOK, NoDanglingChannel, MonExists
    <3> QED BY <1>1, <1>2, <2>1, <2>2, <3>1, ToIsOwned, SendingPreserves
  <2> QED BY <2>3, <2>4
<1>4. CASE SendToOwner(m)
  <2>1. /\ monOwner[m] # Nobody
        /\ \E c \in ListNotifications(monOwner[m]) : sending' = To(m, {c})
    BY <1>4 DEF SendToOwner
  <2>2. PICK c \in ListNotifications(monOwner[m]) : sending' = To(m, {c})
    BY <2>1
  <2>3. /\ c \in Chans /\ ChanExists(c) /\ m \in used
        /\ channel[c].owner \in past[m]
    BY <2>1 DEF ListNotifications, ChannelsInv, ChannelsTypeOK, InFlight, ChanExists
  <2> QED BY <1>1, <1>2, <2>2, <2>3, ToIsOwned, SendingPreserves
<1> QED BY <1>3, <1>4

LEMMA EndsPreserve ==
  ASSUME ChannelsInv, SendEnds \/ ChannelsCrash
  PROVE  ChannelsInv'
<1>1. UNCHANGED <<mons, monOwner, channel, assoc, used, past>> /\ sending' \subseteq sending
  BY DEF SendEnds, ChannelsCrash
<1>2. /\ edit' \in [Edits -> EditStates]
      /\ \A e \in Edits : edit'[e] = edit[e] \/ edit'[e] = NoEdit
  BY DEF SendEnds, ChannelsCrash, ChannelsInv, ChannelsTypeOK, EditStates
<1>3. sending' \subseteq Sendings /\ \A x \in sending' : x.mon \in used /\ x.owner \in past[x.mon]
  BY <1>1 DEF ChannelsInv, ChannelsTypeOK, InFlight, NoForeignChannel
<1> QED BY <1>1, <1>2, <1>3, SendingPreserves
-----------------------------------------------------------------------------
LEMMA ChannelsStep == ChannelsInv /\ [ChannelsNext]_channelsVars => ChannelsInv'
<1> SUFFICES ASSUME ChannelsInv, [ChannelsNext]_channelsVars PROVE ChannelsInv'
  OBVIOUS
<1>1. CASE UNCHANGED channelsVars
  BY <1>1, RequestMoves DEF channelsVars, ChannelsInv, ChannelsTypeOK
<1> QED BY <1>1, SaveNewPreserves, SaveEditPreserves, SaveCopyPreserves,
           ReadOriginalPreserves, FilterPreserves, AssociatePreserves, ChannelPreserves,
           SendPreserves, EndsPreserve DEF ChannelsNext

LEMMA ChannelsInvariant == ChannelsSpec => []ChannelsInv
  BY ChannelsStart, ChannelsStep, PTL DEF ChannelsSpec

\* The types; every row has an id that is never handed out again.
THEOREM ChannelsTypes == ChannelsSpec => []ChannelsTypeOK
<1>1. ChannelsInv => ChannelsTypeOK
  BY DEF ChannelsInv
<1> QED BY <1>1, ChannelsInvariant, PTL

\* No association outlives its monitor or its channel.
THEOREM AssociationsStand == ChannelsSpec => []NoDanglingChannel
<1>1. ChannelsInv => NoDanglingChannel
  BY DEF ChannelsInv
<1> QED BY <1>1, ChannelsInvariant, PTL

\* Nobody's channel carries the alerts of a monitor that neither is theirs nor was
\* ever edited by them.
THEOREM ChannelsAreOwn == ChannelsSpec => []NoForeignChannel
<1>1. ChannelsInv => NoForeignChannel
  BY DEF ChannelsInv
<1> QED BY <1>1, ChannelsInvariant, PTL
=============================================================================
