----------------------------- MODULE MCServices -----------------------------
(***************************************************************************)
(* What shares no variable with the scheduler or the data, checked side by *)
(* side: the hub, the ping tool, the opening of the database, and the      *)
(* clock of the maintenance windows.  One of them runs in each behaviour;  *)
(* none has a fair action enabled where it starts, so the fairness of      *)
(* those that do not run asks for nothing.                                 *)
(***************************************************************************)
EXTENDS Hub, PingSession, Migration, Clock

VARIABLE part

servicesVars == <<hubVars, pingVars, migrationVars, wall, part>>

MCUserOf == [c \in Sockets |-> c]
\* The files of an old release, of one whose migration died between two columns
\* of the same function, and of the present one.
MCFound == {{}, 1 .. 9, Positions}

MCInit ==
  /\ part \in {"hub", "ping", "migration", "clock"}
  /\ HubInit /\ PingInit /\ MigrationInit /\ WallInit
  /\ part # "migration" => tables = {}
  /\ wall = [day |-> 0, minute |-> 0]

MCNext ==
  \/ part = "hub" /\ HubNext /\ UNCHANGED <<pingVars, migrationVars, wall, part>>
  \/ part = "ping" /\ PingNext /\ UNCHANGED <<hubVars, migrationVars, wall, part>>
  \/ part = "migration" /\ MigrationNext /\ UNCHANGED <<hubVars, pingVars, wall, part>>
  \/ part = "clock" /\ WallTick /\ UNCHANGED <<hubVars, pingVars, migrationVars, part>>

MCSpec ==
  /\ MCInit /\ [][MCNext]_servicesVars
  /\ HubFairness /\ PingFairness /\ MigrationFairness
=============================================================================
