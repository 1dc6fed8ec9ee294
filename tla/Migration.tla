------------------------------ MODULE Migration ------------------------------
(***************************************************************************)
(* Opening the database (internal/store/store.go): the tables that are     *)
(* missing are created, and then every column that an older release did    *)
(* not have is looked for and added, one statement at a time, without a    *)
(* transaction around them.  The process may die between any two, fail on  *)
(* any of them, and be started again (deploy/akena-watch.service); during  *)
(* a restart two processes may be opening the same file.                   *)
(*                                                                         *)
(* SetMaxOpenConns(1): a query holds the only connection until its rows    *)
(* are read to the end or closed, and the next statement waits for it.     *)
(***************************************************************************)
EXTENDS Integers, Sequences

CONSTANTS
  Processes,  \* processes that open the file
  Found,      \* the columns, as positions in Columns, of the files of older releases
  MaxDeaths   \* deaths before the file is open: a bound of the model

\* The columns in the order migrate adds them, one row per function.
Columns ==
  << <<"monitors", "body">>,
     <<"users", "email">>,
     <<"users", "telegram_id">>,
     <<"monitors", "notify_owner">>,
     <<"monitors", "latency_threshold_ms">>, <<"monitors", "slow_retries">>,
     <<"monitors", "cert_alert_days">>,
     <<"monitors", "maint_enabled">>, <<"monitors", "maint_weekday">>,
     <<"monitors", "maint_start">>, <<"monitors", "maint_end">>,
     <<"monitors", "domain_alert_days">>, <<"monitors", "domain_expires_at">>,
     <<"monitors", "domain_registrar">>,
     <<"monitors", "group_name">> >>
Positions == 1 .. 15
Email     == 2     \* followed by the unique index
Tables    == <<"users", "monitors", "others">>

ASSUME MigrationAssumption == Found \subseteq SUBSET Positions /\ MaxDeaths \in Nat

VARIABLES
  tables,   \* the tables in the file
  columns,  \* the positions of the columns in the file
  index,    \* idx_users_email is in the file
  proc,     \* process -> where it is in Open
  deaths

migrationVars == <<tables, columns, index, proc, deaths>>

\* at: the table or column at hand; rows: unread rows hold the connection;
\* found: what the last look-up said.
At(stage, n) == [stage |-> stage, at |-> n, found |-> FALSE, rows |-> FALSE]
ProcStates ==
  [stage : {"off", "schema", "look", "rows", "add", "index", "open", "dead"},
   at : Positions, found : BOOLEAN, rows : BOOLEAN]

MigrationInit ==
  /\ \/ tables = {} /\ columns = {} /\ index = FALSE
     \/ /\ tables = {"users", "monitors", "others"}
        /\ columns \in Found
        /\ index \in BOOLEAN /\ (index => Email \in columns)
  /\ proc = [p \in Processes |-> At("off", 1)]
  /\ deaths = 0
-----------------------------------------------------------------------------
\* The administrator starts the service, and the supervisor starts it again.
Boot(p) ==
  /\ proc[p].stage = "off"
  /\ proc' = [proc EXCEPT ![p] = At("schema", 1)]
  /\ UNCHANGED <<tables, columns, index, deaths>>

Restart(p) ==
  /\ proc[p].stage = "dead"
  /\ proc' = [proc EXCEPT ![p] = At("schema", 1)]
  /\ UNCHANGED <<tables, columns, index, deaths>>

\* A kill or a failed statement ends the process; what was written stays.
Die(p) ==
  /\ proc[p].stage \notin {"off", "dead"} /\ deaths < MaxDeaths
  /\ proc' = [proc EXCEPT ![p] = At("dead", 1)]
  /\ deaths' = deaths + 1
  /\ UNCHANGED <<tables, columns, index>>

\* A statement waits for the connection.
Connected(p) == ~proc[p].rows

\* CREATE TABLE IF NOT EXISTS: with all its columns, or as it is.
CreateTable(p) ==
  /\ proc[p].stage = "schema" /\ Connected(p)
  /\ LET t == Tables[proc[p].at]
     IN  /\ tables' = tables \cup {t}
         /\ columns' = IF t \in tables THEN columns
                       ELSE columns \cup {i \in Positions : Columns[i][1] = t}
  /\ proc' = [proc EXCEPT ![p] = IF @.at = Len(Tables) THEN At("look", 1)
                                 ELSE At("schema", @.at + 1)]
  /\ UNCHANGED <<index, deaths>>

\* Mutant: every function looks the column up in the table of the first one.
LookUpInMonitors(p) ==
  /\ proc[p].stage = "look" /\ Connected(p)
  /\ proc' = [proc EXCEPT ![p].stage = "rows", ![p].rows = TRUE,
                ![p].found = proc[p].at \in columns /\ Columns[proc[p].at][1] = "monitors"]
  /\ UNCHANGED <<tables, columns, index, deaths>>

\* PRAGMA table_info
LookUp(p) ==
  /\ proc[p].stage = "look" /\ Connected(p)
  /\ proc' = [proc EXCEPT ![p].stage = "rows", ![p].rows = TRUE,
                          ![p].found = proc[p].at \in columns]
  /\ UNCHANGED <<tables, columns, index, deaths>>

Following(i) ==
  IF i = Email THEN At("index", i)
  ELSE IF i = Len(Columns) THEN At("open", i) ELSE At("look", i + 1)

\* Mutant: a function returns at the first of its columns that is there.
AfterFoundReturn(i) ==
  Following(IF i \in 5 .. 6 THEN 6 ELSE IF i \in 8 .. 11 THEN 11
            ELSE IF i \in 12 .. 14 THEN 14 ELSE i)

AfterFound(i) == Following(i)

\* Mutant: the rows stay open until the function returns.
ClosedLate(p) == [proc[p] EXCEPT !.stage = "add"]

Closed(p) == [proc[p] EXCEPT !.stage = "add", !.rows = FALSE]

\* The rows are read to the end and closed.
CloseRows(p) ==
  /\ proc[p].stage = "rows"
  /\ proc' = [proc EXCEPT ![p] = IF proc[p].found THEN AfterFound(proc[p].at) ELSE Closed(p)]
  /\ UNCHANGED <<tables, columns, index, deaths>>

\* ALTER TABLE, an error if another process has added the column meanwhile.
AddColumn(p) ==
  /\ proc[p].stage = "add" /\ Connected(p)
  /\ columns' = columns \cup {proc[p].at}
  /\ proc' = [proc EXCEPT ![p] = IF proc[p].at \in columns THEN At("dead", 1)
                                 ELSE Following(proc[p].at)]
  /\ UNCHANGED <<tables, index, deaths>>

\* CREATE UNIQUE INDEX IF NOT EXISTS
CreateIndex(p) ==
  /\ proc[p].stage = "index" /\ Connected(p)
  /\ index' = TRUE
  /\ proc' = [proc EXCEPT ![p] = At("look", Email + 1)]
  /\ UNCHANGED <<tables, columns, deaths>>

OpenStep(p) ==
  \/ Restart(p) \/ CreateTable(p) \/ LookUp(p) \/ CloseRows(p) \/ AddColumn(p) \/ CreateIndex(p)

MigrationNext ==
  \/ \E p \in Processes : Boot(p) \/ Die(p)
  \/ \E p \in Processes : OpenStep(p)

\* The process runs, and the supervisor restarts it (Restart=always).
MigrationFairness == \A p \in Processes : WF_migrationVars(OpenStep(p))

MigrationSpec == MigrationInit /\ [][MigrationNext]_migrationVars /\ MigrationFairness
-----------------------------------------------------------------------------
\* Types; the connection is held by a look-up alone.
MigrationTypeOK ==
  /\ tables \subseteq {"users", "monitors", "others"}
  /\ columns \subseteq Positions
  /\ index \in BOOLEAN
  /\ proc \in [Processes -> ProcStates]
  /\ deaths \in 0 .. MaxDeaths
  /\ \A p \in Processes : proc[p].rows <=> proc[p].stage = "rows"

\* A store that is open has every table, every column and the index, whatever
\* release left the file and wherever earlier attempts to open it died.
OpenIsComplete ==
  \A p \in Processes : proc[p].stage = "open" =>
    tables = {"users", "monitors", "others"} /\ columns = Positions /\ index

\* A process that has had the file to itself never adds a column that is there,
\* whatever release left the file and wherever its own earlier attempts died: an
\* ALTER TABLE fails on a duplicate only when two services are being started.
Alone(p) == \A q \in Processes \ {p} : proc[q].stage = "off"
NeverAddedTwice ==
  \A p \in Processes : Alone(p) /\ proc[p].stage = "add" => proc[p].at \notin columns

\* A service that was started is open in the end: no statement waits for ever for
\* the connection its own function holds, and a column added by another process
\* costs a restart, not the service.  ("off" is the stage before the first start.)
EventuallyOpen == \A p \in Processes : []<>(proc[p].stage \in {"off", "open"})
=============================================================================
