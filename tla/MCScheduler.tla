---------------------------- MODULE MCScheduler ----------------------------
(***************************************************************************)
(* Instances of the scheduler for TLC.                                     *)
(***************************************************************************)
EXTENDS SchedulerProps, TLC

Plain == [interval |-> 1, maxRetries |-> 1, type |-> "tcp", latencyThreshold |-> 0,
          slowRetries |-> 0, certDays |-> 0, domainDays |-> 0,
          window |-> [enabled |-> FALSE, weekday |-> 0, start |-> 0, end |-> 0]]
\* Checked every other unit.
Slower == [Plain EXCEPT !.interval = 2]
\* Two retries, and a window in the last minute of the day.
Nightly == [Plain EXCEPT !.maxRetries = 2,
            !.window = [enabled |-> TRUE, weekday |-> 0, start |-> 1, end |-> 0]]
\* One retry, and a window in the last of three minutes.
Patient == [Nightly EXCEPT !.maxRetries = 1, !.window.start = 2]
\* Everything watched: two slow checks, certificate and domain under a day.
Watchful == [Nightly EXCEPT !.type = "http", !.latencyThreshold = 1,
             !.slowRetries = 2, !.certDays = 1, !.domainDays = 1]

SpacingConfigs == {Plain, Slower}
OutageConfigs == {Plain, Nightly}
PlainOnly == {Plain}
PatientOnly == {Patient}
WatchfulOnly == {Watchful}

NoCert == {[ok |-> FALSE, days |-> 0]}
CertDays == NoCert \cup {[ok |-> TRUE, days |-> d] : d \in {-1, 1, 2}}
NoDomain == {[ok |-> FALSE, days |-> 0]}
DomainDays == NoDomain \cup {[ok |-> TRUE, days |-> d] : d \in {-1, 2}}

RunSymmetry == Permutations(RunIds)
=============================================================================
