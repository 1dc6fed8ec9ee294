--------------------------- MODULE SchedulerProps ---------------------------
(***************************************************************************)
(* Correctness properties of the scheduler.                                *)
(***************************************************************************)
EXTENDS Scheduler

Capped(a) == IF a > AgeCap THEN AgeCap ELSE a

\* The checks of one monitor bear times (CheckedAt) that are at least the interval
\* of the later one apart: the slot reserved under s.mu (lastRun = now) keeps tick
\* from starting one check twice, however late a tick gets to the monitor while
\* others hold s.mu, and whatever edits and late results come between.  When the
\* checks really begin is not promised: a late tick starts a run that the next one
\* may follow at once.
SlotSpacing ==
  \A i, j \in RunIds :
    i # j /\ InFlight(i) /\ InFlight(j) /\ run[i].mon = run[j].mon =>
      \/ run[i].age >= Capped(run[j].age + run[j].cfg.interval)
      \/ run[j].age >= Capped(run[i].age + run[i].cfg.interval)

\* Why SlotSpacing holds: lastRun is never older than a run in flight, and no run
\* outlives its process, whose memory lastRun is.
SpacingInv ==
  /\ \A i \in RunIds : InFlight(i) => run[i].age >= st[run[i].mon].sinceRun
  /\ \A i \in RunIds : InFlight(i) => Running
  /\ SlotSpacing

\* What a process knows before it has heard a result.
FreshInv ==
  ~Running => \A m \in Monitors :
    st[m].failures \in {0, 1} /\ st[m].slowStreak = 0 /\ st[m].alerted = {}

\* The alerts of a monitor are those a sequential reader of its verdicts would
\* send, although its runs overlap: each message outside the window, once per
\* episode, for a cause; nothing that lasted long enough missed.
Contract == INSTANCE AlertContract WITH
  alive <- Running,
  failed <- [m \in Monitors |-> IF Running THEN st[m].failures ELSE 0],
  slowed <- [m \in Monitors |-> st[m].slowStreak],
  open <- [m \in Monitors |-> st[m].alerted]
ImplementsContract == Contract!Spec

\* A paused or deleted monitor goes quiet: once its last run has been judged and
\* the list in hand has passed it, no run starts, no result is judged and no
\* heartbeat is written for it until it is resumed.
Quiet(m) == /\ phase[m] # "active"
            /\ pending[m] = {}
            /\ \A i \in RunIds : InFlight(i) => run[i].mon # m
QuietStaysQuiet ==
  [][\A m \in Monitors : Quiet(m) =>
       \/ phase'[m] = "active"
       \/ /\ Quiet(m)'
          /\ \A v \in event' : v.mon # m]_vars

\* While the process stays up, an active monitor goes on being checked and
\* judged: a run that hangs, a result that is late, a skipped tick or an edit
\* never takes it out of the schedule.
ActiveIsChecked ==
  \A m \in Monitors :
    <>[](Running /\ phase[m] = "active") => []<>(\E v \in event : v.mon = m)

\* An outage that does not end is announced and stays so, whatever part of its
\* retries fell in maintenance windows (README: "la alerta se dispara en el
\* siguiente check"), if the process stays up and the monitor is left alone.
Settled(m) == <>[][UNCHANGED <<phase[m], config[m]>>]_<<phase, config>>
DownIsAnnounced ==
  \A m \in Monitors :
    Settled(m) /\ <>[](Running /\ phase[m] = "active" /\ st[m].status = "down")
      => <>[]("down" \in st[m].alerted)
=============================================================================
