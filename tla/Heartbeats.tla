------------------------------ MODULE Heartbeats ------------------------------
(***************************************************************************)
(* The history of the checks (internal/store/heartbeats.go) and what is    *)
(* shown of it (internal/server/handlers_status.go, handlers_monitors.go). *)
(*                                                                         *)
(* A row is stamped with the tick that launched its check and inserted     *)
(* when the check ends; checks of one monitor may overlap, so the order of *)
(* the rows (their ids) is not always that of their times.                 *)
(*                                                                         *)
(* Time passes in units; the age of a row stands for its checked_at.  The  *)
(* instants are compared as such: that their texts sort differently within *)
(* one second is not modelled.                                             *)
(***************************************************************************)
EXTENDS Integers, Sequences, FiniteSets

CONSTANTS
  Sites,     \* monitor ids
  Interval,  \* time units between the launches of a monitor's checks
  MaxDelay,  \* time units a check may take
  Keep,      \* what PruneHeartbeats keeps per monitor
  Hour,      \* time units in an hour
  Blocks,    \* the hours of the history: 24
  Limit,     \* the rows statusHistory asks for
  MaxRows    \* rows per monitor before a prune: a bound of the model

ASSUME HeartbeatsAssumption ==
  /\ Interval \in Nat \ {0} /\ MaxDelay \in Nat /\ Keep \in Nat \ {0}
  /\ Hour \in Nat \ {0} /\ Blocks \in Nat \ {0} /\ Limit \in Nat \ {0}
  /\ MaxRows \in Nat /\ Keep < MaxRows
  /\ MaxDelay <= Blocks * Hour     \* 125 s at most, the history a day

VARIABLES
  site,      \* the monitors there are
  rows,      \* monitor -> its rows in the order of their ids
  flight,    \* monitor -> the ages of its checks in flight
  quiet,     \* monitor -> time units since its last launch, up to Interval
  recorded   \* auxiliary: monitor -> the ages of all the rows it ever had

heartbeatsVars == <<site, rows, flight, quiet, recorded>>

Window == Blocks * Hour
\* Ages are counted up to a unit past the window.
AgeLimit == Window + 1
Older(a) == IF a = AgeLimit THEN a ELSE a + 1
Beats == [status : {"up", "down"}, age : 0 .. AgeLimit]

HeartbeatsInit ==
  /\ site = {}
  /\ rows = [m \in Sites |-> <<>>]
  /\ flight = [m \in Sites |-> {}]
  /\ quiet = [m \in Sites |-> Interval]
  /\ recorded = [m \in Sites |-> {}]
-----------------------------------------------------------------------------
\* ListHeartbeats, and ListRecentForMonitors of one monitor, on the rows s: the
\* positions of the last n of those that are not older than since.
ListHeartbeats(s, since, n) ==
  LET in == {i \in DOMAIN s : s[i].age <= since}
  IN  {i \in in : Cardinality({j \in in : j > i}) < n}

\* LatestHeartbeat, as a set: empty for nil.
LatestHeartbeat(s) == {s[i] : i \in {i \in DOMAIN s : i = Len(s)}}

\* The block of a row of that age.  A row of this very instant is in the last.
BlockOf(a) == IF a = 0 THEN Blocks - 1 ELSE (Window - a) \div Hour

\* Mutant: later rows of the loop overwrite the block.
ShownOldest(seen) == CHOOSE i \in seen : \A j \in seen : i <= j

\* Of the rows of a block the loop sees the newest id first, and keeps it.
Shown(seen) == CHOOSE i \in seen : \A j \in seen : j <= i

StatusHistory(s) ==
  [b \in 0 .. Blocks - 1 |->
     LET seen == {i \in ListHeartbeats(s, Window, Limit) : BlockOf(s[i].age) = b}
     IN  IF seen = {} THEN "none" ELSE s[Shown(seen)].status]
-----------------------------------------------------------------------------
\* No id is handed out twice: a name serves again once nothing of it is left.
CreateSite(m) ==
  /\ m \notin site /\ flight[m] = {}
  /\ site' = site \cup {m}
  /\ UNCHANGED <<rows, flight, quiet, recorded>>

LaunchCheck(m) ==
  /\ m \in site /\ quiet[m] = Interval
  /\ flight' = [flight EXCEPT ![m] = @ \cup {0}]
  /\ quiet' = [quiet EXCEPT ![m] = 0]
  /\ UNCHANGED <<site, rows, recorded>>

\* A row is only inserted for a monitor that is there (the foreign key).
InsertHeartbeat(m) ==
  \E a \in flight[m], status \in {"up", "down"} :
    /\ m \in site /\ Len(rows[m]) < MaxRows
    /\ flight' = [flight EXCEPT ![m] = @ \ {a}]
    /\ rows' = [rows EXCEPT ![m] = Append(@, [status |-> status, age |-> a])]
    /\ recorded' = [recorded EXCEPT ![m] = @ \cup {a}]
    /\ UNCHANGED <<site, quiet>>

\* The insertion is refused, because the monitor is gone or for any other reason:
\* the run logs it, and nothing keeps the result.
InsertFails(m) ==
  /\ \E a \in flight[m] : flight' = [flight EXCEPT ![m] = @ \ {a}]
  /\ UNCHANGED <<site, rows, quiet, recorded>>

\* Mutant: without ON DELETE CASCADE.
RowsLeft(m) == rows

RowsWithout(m) == [rows EXCEPT ![m] = <<>>]

\* The rows go with the monitor; its checks in flight go on.
DeleteSite(m) ==
  /\ m \in site
  /\ site' = site \ {m}
  /\ rows' = RowsWithout(m)
  /\ quiet' = [quiet EXCEPT ![m] = Interval]
  /\ recorded' = [recorded EXCEPT ![m] = {}]
  /\ UNCHANGED flight

\* Mutant: one row too many is dropped.
FirstKeptLate(s) == Len(s) - Keep + 2

FirstKept(s) == Len(s) - Keep + 1

\* PruneHeartbeats, every hour, on all the monitors.
Prune ==
  /\ rows' = [m \in Sites |-> IF Len(rows[m]) <= Keep THEN rows[m]
                              ELSE SubSeq(rows[m], FirstKept(rows[m]), Len(rows[m]))]
  /\ UNCHANGED <<site, flight, quiet, recorded>>

\* A restart loses the checks in flight and the times of the launches.
HeartbeatsCrash ==
  /\ flight' = [m \in Sites |-> {}]
  /\ quiet' = [m \in Sites |-> Interval]
  /\ UNCHANGED <<site, rows, recorded>>

HeartbeatsTick ==
  /\ \A m \in Sites : MaxDelay \notin flight[m]
  /\ rows' = [m \in Sites |-> [i \in DOMAIN rows[m] |-> [rows[m][i] EXCEPT !.age = Older(@)]]]
  /\ flight' = [m \in Sites |-> {a + 1 : a \in flight[m]}]
  /\ quiet' = [m \in Sites |-> IF quiet[m] = Interval THEN Interval ELSE quiet[m] + 1]
  /\ recorded' = [m \in Sites |-> {Older(a) : a \in recorded[m]}]
  /\ UNCHANGED site

HeartbeatsNext ==
  \/ \E m \in Sites :
       \/ CreateSite(m) \/ LaunchCheck(m) \/ InsertHeartbeat(m) \/ InsertFails(m)
       \/ DeleteSite(m)
  \/ Prune \/ HeartbeatsCrash \/ HeartbeatsTick

HeartbeatsSpec == HeartbeatsInit /\ [][HeartbeatsNext]_heartbeatsVars
-----------------------------------------------------------------------------
\* Types; no row outlives its monitor, though the checks it had in flight do.
HeartbeatsTypeOK ==
  /\ site \subseteq Sites
  /\ rows \in [Sites -> Seq(Beats)]
  /\ flight \in [Sites -> SUBSET (0 .. MaxDelay)]
  /\ quiet \in [Sites -> 0 .. Interval]
  /\ recorded \in [Sites -> SUBSET (0 .. AgeLimit)]
  /\ \A m \in Sites \ site : rows[m] = <<>>

\* Each block of the history shows a check of its hour, and none of that hour is
\* newer by more than checks can overlap (handlers_status.go calls it the most
\* recent one, which it is when they do not).
HistoryIsRecent ==
  \A m \in Sites : \A b \in 0 .. Blocks - 1 :
    LET s == rows[m]  hour == {i \in DOMAIN s : s[i].age <= Window /\ BlockOf(s[i].age) = b}
    IN  StatusHistory(s)[b] # "none" =>
          \E i \in hour : /\ s[i].status = StatusHistory(s)[b]
                          /\ \A j \in hour : s[i].age - s[j].age <= MaxDelay

InOrder(s) == \A i, j \in DOMAIN s : i < j => s[i].age > s[j].age
Answer(s, since, n) == {s[i] : i \in ListHeartbeats(s, since, n)}

\* Pruning is not noticed by any query for as many rows as it keeps, as long as
\* the rows are in the order of their times; the latest one never changes.
PruneIsInvisible ==
  [][Prune =>
       \A m \in Sites :
         /\ LatestHeartbeat(rows'[m]) = LatestHeartbeat(rows[m])
         /\ InOrder(rows[m]) =>
              \A since \in 0 .. Window, n \in 1 .. Keep :
                Answer(rows'[m], since, n) = Answer(rows[m], since, n)]_heartbeatsVars

\* An hour in which a check was recorded is shown as one without data only where
\* the table of the monitor has grown to what a prune keeps or past what the page
\* reads: nothing else loses a row, and no row of the window is left out.
GapsAreCuts ==
  \A m \in Sites : \A a \in recorded[m] :
    a <= Window /\ StatusHistory(rows[m])[BlockOf(a)] = "none" =>
      Len(rows[m]) >= Keep \/ Len(rows[m]) > Limit

\* README.md:384 promises the history of the last 24 hours: an hour in which a
\* check was recorded is not shown as one without data.  The code asks for 2000
\* rows, fewer than a day has at short intervals: see the run history24.
HistoryShowsEveryHour ==
  \A m \in Sites : \A a \in recorded[m] :
    a <= Window => StatusHistory(rows[m])[BlockOf(a)] # "none"
=============================================================================
