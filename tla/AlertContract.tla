--------------------------- MODULE AlertContract ---------------------------
(***************************************************************************)
(* What the alerting of a monitor promises, with no runs, ticks, rows or   *)
(* probes: verdicts about a monitor are heard one at a time, in an order,  *)
(* and every message is accounted for by the verdicts heard before it in   *)
(* the lifetime of the process.                                            *)
(***************************************************************************)
EXTENDS Integers

CONSTANTS Monitors, StreakCap

VARIABLES
  alive,   \* the process is running
  failed,  \* monitor -> consecutive down verdicts, up to StreakCap
  slowed,  \* monitor -> consecutive slow verdicts, up to StreakCap
  open,    \* monitor -> the kinds announced and not over yet
  event    \* the verdict heard in this step, if any, with what was sent for it

contractVars == <<alive, failed, slowed, open, event>>

Init ==
  /\ alive = FALSE
  /\ failed = [m \in Monitors |-> 0]
  /\ slowed = [m \in Monitors |-> 0]
  /\ open = [m \in Monitors |-> {}]
  /\ event = {}

Longer(n) == IF n >= StreakCap THEN StreakCap ELSE n + 1

\* Silence in the window, one message per episode, a cause for each.
MessagesJustified(v, before, fails, slows) ==
  /\ v.maint => v.sent = {}
  /\ v.sent \cap before = {}
  /\ "down" \in v.sent => v.status = "down" /\ fails >= v.maxRetries
  /\ "slow" \in v.sent => v.slow /\ slows >= v.slowRetries
  /\ v.sent \cap {"cert", "domain"} \subseteq v.near
  /\ "recovery" \in v.sent <=> ~v.maint /\ v.status = "up" /\ "down" \in before

\* An episode is over only when its cause is, or, for latency, in the window.
EndsJustified(v, ended) ==
  /\ "down" \in ended => v.status = "up"
  /\ "slow" \in ended => ~v.slow \/ v.maint
  /\ ended \cap {"cert", "domain"} \subseteq v.far

\* What has lasted long enough is announced, and the end of it is noticed.  That a
\* certificate has already lapsed is not promised.
NothingMissed(v, after, fails, slows) ==
  /\ ~v.maint /\ v.status = "down" /\ fails >= v.maxRetries => "down" \in after
  /\ ~v.maint /\ v.slow /\ slows >= v.slowRetries => "slow" \in after
  /\ ~v.maint => v.near \subseteq after \cup (IF v.lapsed THEN {"cert"} ELSE {})
  /\ v.status = "up" => "down" \notin after
  /\ ~v.slow => "slow" \notin after
  /\ v.far \cap after = {}

Hear(v) ==
  LET m == v.mon
      before == open[m]
      after == open'[m]
  IN /\ alive /\ alive'
     /\ event' = {v}
     /\ failed' = [failed EXCEPT ![m] = IF v.status = "up" THEN 0 ELSE Longer(@)]
     /\ slowed' = [slowed EXCEPT ![m] = IF v.slow THEN Longer(@) ELSE 0]
     /\ open' = [open EXCEPT ![m] = after]
     /\ v.sent \ {"recovery"} \subseteq after
     /\ after \subseteq before \cup (v.sent \ {"recovery"})
     /\ MessagesJustified(v, before, failed'[m], slowed'[m])
     /\ EndsJustified(v, before \ after)
     /\ NothingMissed(v, after, failed'[m], slowed'[m])

\* Nothing is heard and nothing is sent.
Silence == event' = {} /\ UNCHANGED <<alive, failed, slowed, open>>

\* The process ends or starts: what was announced is forgotten, and a monitor
\* that was down keeps one failure.
Restart ==
  /\ alive' = ~alive
  /\ failed' \in [Monitors -> {0, 1}]
  /\ slowed' = [m \in Monitors |-> 0]
  /\ open' = [m \in Monitors |-> {}]
  /\ event' = {}

Next == (\E v \in event' : Hear(v)) \/ Silence \/ Restart

Spec == Init /\ [][Next]_contractVars
=============================================================================
