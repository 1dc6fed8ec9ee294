---------------------------- MODULE AlertPolicy ----------------------------
(***************************************************************************)
(* What the scheduler decides about one check result: the section of       *)
(* Scheduler.run (internal/monitor/scheduler.go) that holds s.mu, as       *)
(* operators on the monState record s of the monitor, the finished run r   *)
(* and the outcome p of the certificate and domain probes.                 *)
(*                                                                         *)
(* The four "already alerted" booleans of monState are one set, s.alerted. *)
(* Times are ages, in clock units: s.sinceRun is now - lastRun.  Ages and  *)
(* streaks saturate at AgeCap and StreakCap, which no configured limit     *)
(* exceeds, so every comparison the code makes has the same outcome.       *)
(***************************************************************************)
EXTENDS Integers

CONSTANTS
  AgeCap,      \* the age at which a clock stops counting; the zero time.Time
  StreakCap,   \* the streak at which a counter stops counting
  ProbePeriod  \* the 24 hours between two probes of the same kind

ASSUME PolicyAssumption ==
  /\ AgeCap \in Nat /\ StreakCap \in Nat \ {0} /\ ProbePeriod \in Nat
  /\ ProbePeriod <= AgeCap

Kinds    == {"down", "slow", "cert", "domain"}
Statuses == {"up", "down"}
Messages == Kinds \cup {"recovery"}

\* The code counts failures and slow checks without a bound, in an int; from
\* StreakCap on its comparisons no longer tell the counts apart.
Aged(a)    == IF a >= AgeCap THEN AgeCap ELSE a + 1
Counted(n) == IF n >= StreakCap THEN StreakCap ELSE n + 1

MonStates == [sinceRun : 0 .. AgeCap, status : Statuses \cup {"none"},
              failures : 0 .. StreakCap, slowStreak : 0 .. StreakCap,
              certAge : 0 .. AgeCap, domainAge : 0 .. AgeCap, alerted : SUBSET Kinds]

\* &monState{}: nothing known; the zero lastRun makes the monitor due at once.
ZeroState == [sinceRun |-> AgeCap, status |-> "none", failures |-> 0,
              slowStreak |-> 0, certAge |-> AgeCap, domainAge |-> AgeCap,
              alerted |-> {}]

Older(s) == [s EXCEPT !.sinceRun = Aged(@), !.certAge = Aged(@), !.domainAge = Aged(@)]
----------------------------------------------------------------------------
Failures(s, r) == IF r.status = "up" THEN 0 ELSE Counted(s.failures)

Slow(r) == /\ r.cfg.latencyThreshold > 0
           /\ r.status = "up"
           /\ r.latency >= r.cfg.latencyThreshold

SlowStreak(s, r) == IF Slow(r) THEN Counted(s.slowStreak) ELSE 0

CertDue(s, r) == /\ r.cfg.certDays > 0 /\ r.cfg.type = "http"
                 /\ s.certAge >= ProbePeriod

DomainDue(s, r) == r.cfg.domainDays > 0 /\ s.domainAge >= ProbePeriod

\* certDaysLeft: what cannot be probed looks like what expired a day ago.
CertDaysLeft(p) == IF p.cert.ok THEN p.cert.days ELSE -1

\* The probe, if it runs, finds the expiry beyond the threshold.
Far(s, r, p) ==
  {k \in {"cert", "domain"} :
     \/ k = "cert" /\ CertDue(s, r) /\ CertDaysLeft(p) > r.cfg.certDays
     \/ k = "domain" /\ DomainDue(s, r) /\ p.domain.ok /\ p.domain.days > r.cfg.domainDays}

\* The conditions an alert is raised for.  A certificate that expired a day ago
\* or more raises none.
Failing(s, r, p) ==
  {k \in Kinds :
     \/ k = "down" /\ r.status = "down" /\ Failures(s, r) >= r.cfg.maxRetries
     \/ k = "slow" /\ Slow(r) /\ SlowStreak(s, r) >= r.cfg.slowRetries
     \/ k = "cert" /\ CertDue(s, r) /\ CertDaysLeft(p) \in 0 .. r.cfg.certDays
     \/ k = "domain" /\ DomainDue(s, r) /\ p.domain.ok /\ p.domain.days <= r.cfg.domainDays}

\* Variants of Raised: alerting inside the window; alerting on the very check that
\* reaches maxRetries and no later one.
RaisedInWindow(s, r, p) == Failing(s, r, p) \ s.alerted
RaisedAtThreshold(s, r, p) ==
  IF r.maint THEN {}
  ELSE {k \in Failing(s, r, p) \ s.alerted : k = "down" => Failures(s, r) = r.cfg.maxRetries}

Raised(s, r, p) == IF r.maint THEN {} ELSE Failing(s, r, p) \ s.alerted

\* Variant: a renewed certificate or domain leaves its flag on.
RearmedByStatusOnly(s, r, p) ==
  {k \in Kinds : \/ k = "down" /\ r.status = "up"
                 \/ k = "slow" /\ (~Slow(r) \/ r.maint)}

\* The flags a result switches off.  A result that is up ends an outage: with
\* a recovery message outside the window, silently inside it.
Rearmed(s, r, p) ==
  {k \in Kinds :
     \/ k = "down" /\ r.status = "up"
     \/ k = "slow" /\ (~Slow(r) \/ r.maint)
     \/ k \in Far(s, r, p)}

Recovers(s, r) == ~r.maint /\ r.status = "up" /\ "down" \in s.alerted

Sent(s, r, p) == Raised(s, r, p) \cup (IF Recovers(s, r) THEN {"recovery"} ELSE {})

\* The whole critical section: the monState it leaves behind.
Decide(s, r, p) ==
  [s EXCEPT !.status     = r.status,
            !.failures   = Failures(s, r),
            !.slowStreak = SlowStreak(s, r),
            !.certAge    = IF CertDue(s, r) THEN r.age ELSE @,
            !.domainAge  = IF DomainDue(s, r) THEN r.age ELSE @,
            !.alerted    = (@ \ Rearmed(s, r, p)) \cup Raised(s, r, p)]
=============================================================================
