---------------------------- MODULE MCDocumented ----------------------------
(***************************************************************************)
(* Instances of Documented for TLC: a plain monitor.                       *)
(***************************************************************************)
EXTENDS Documented

Plain == [interval |-> 1, maxRetries |-> 1, type |-> "tcp", latencyThreshold |-> 0,
          slowRetries |-> 0, certDays |-> 0, domainDays |-> 0,
          window |-> [enabled |-> FALSE, weekday |-> 0, start |-> 0, end |-> 0]]
PlainOnly == {Plain}

NoCert == {[ok |-> FALSE, days |-> 0]}
NoDomain == {[ok |-> FALSE, days |-> 0]}
=============================================================================
