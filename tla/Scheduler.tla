----------------------------- MODULE Scheduler -----------------------------
(***************************************************************************)
(* The monitoring scheduler (internal/monitor/scheduler.go) between the    *)
(* monitors and heartbeats tables it reads and writes, the API handlers    *)
(* that edit the monitors meanwhile, and process restarts.                 *)
(*                                                                         *)
(* The loop goroutine lists the active monitors once per tick and, monitor *)
(* by monitor under s.mu, starts a run goroutine for each one that is due. *)
(* A run checks its target, inserts the heartbeat, and only then takes     *)
(* s.mu to judge the result, and keeps it through the probes of the        *)
(* certificate and of the domain.  Runs of one monitor may overlap, each   *)
(* works on the configuration listed for it, and a tick that waits for     *)
(* s.mu starts runs that bear a time long past.                            *)
(*                                                                         *)
(* A unit of time is the period of the ticker.                             *)
(***************************************************************************)
EXTENDS AlertPolicy, Clock, FiniteSets

CONSTANTS
  Monitors,      \* monitor ids; AUTOINCREMENT: a deleted id never comes back
  RunIds,        \* run goroutines alive at once: a bound of the model
  Configs,       \* the configurations monitors may have
  Latencies,     \* latencies a check may measure
  CertProbes,    \* what a probe of the certificate may find: [ok, days]
  DomainProbes,  \* what domain.Lookup may find: [ok, days]
  MaxLag         \* how old a tick may get before the loop is through with it:
                 \* a bound of the model

ConfigRecords ==
  [interval : Nat, maxRetries : Nat, type : {"http", "tcp", "dns"},
   latencyThreshold : Nat, slowRetries : Nat, certDays : Nat, domainDays : Nat,
   window : Windows]

ASSUME SchedulerAssumption ==
  /\ Monitors # {} /\ RunIds # {} /\ Configs # {}
  /\ Configs \subseteq ConfigRecords
  /\ \A c \in Configs : /\ c.interval + MaxLag <= AgeCap
                        /\ c.maxRetries <= StreakCap /\ c.slowRetries <= StreakCap
  /\ Latencies # {} /\ Latencies \subseteq Nat
  /\ CertProbes # {} /\ CertProbes \subseteq [ok : BOOLEAN, days : Int]
  /\ DomainProbes # {} /\ DomainProbes \subseteq [ok : BOOLEAN, days : Int]
  /\ MaxLag \in Nat \ {0}

VARIABLES
  \* the database
  phase,    \* monitor id -> the row: "absent", "active", "paused", "deleted"
  config,   \* monitor id -> its configuration, while the row exists
  latest,   \* monitor id -> its heartbeat with the highest id: [status, age]
  expiry,   \* monitor id -> domain_expires_at, as the days last looked up
  \* the process
  proc,     \* "stopped", "loading" its state, "running", or "panicked"
  st,       \* Scheduler.state: monitor id -> monState
  pending,  \* monitor id -> the order listed and not come to yet
  run,      \* the run goroutines
  \* the clocks, besides wall
  ticker,   \* the ticker's channel: one tick at most, [age, at]
  lag,      \* the age of now, the tick whose list is in hand
  \* output
  event     \* the result judged in the last step, with the alerts sent for it

db      == <<phase, config, latest, expiry>>
process == <<proc, st, pending, run>>
clock   == <<wall, ticker, lag>>
vars    == <<phase, config, latest, expiry, proc, st, pending, run,
             wall, ticker, lag, event>>

AnyConfig == CHOOSE c \in Configs : TRUE
AnyMonitor == CHOOSE m \in Monitors : TRUE
NoHeartbeat == [status |-> "none", age |-> 0]
NoExpiry == [ok |-> FALSE, days |-> 0]
Idle == [stage |-> "idle", mon |-> AnyMonitor, cfg |-> AnyConfig, maint |-> FALSE,
         status |-> "down", latency |-> 0, age |-> 0]

Heartbeats == [status : Statuses \cup {"none"}, age : 0 .. AgeCap]
Stages == {"idle", "checking", "checked", "recorded", "judging"}
Runs == [stage : Stages, mon : Monitors,
         cfg : Configs, maint : BOOLEAN, status : Statuses, latency : Nat, age : 0 .. AgeCap]
Orders == [cfg : Configs, maint : BOOLEAN]
Events == [mon : Monitors, status : Statuses, slow : BOOLEAN, maint : BOOLEAN,
           maxRetries : Nat, slowRetries : Nat,
           far : SUBSET {"cert", "domain"}, near : SUBSET {"cert", "domain"},
           lapsed : BOOLEAN, sent : SUBSET Messages]

InFlight(i) == run[i].stage # "idle"
Exists(m)   == phase[m] \in {"active", "paused"}
Running     == proc = "running"
Serving     == proc \in {"loading", "running"}   \* the API answers
InHand      == \E m \in Monitors : pending[m] # {}
MutexFree   == \A i \in RunIds : run[i].stage # "judging"   \* s.mu

\* Every row, configuration, monState, order, run and clock has its type.
TypeOK ==
  /\ phase \in [Monitors -> {"absent", "active", "paused", "deleted"}]
  /\ config \in [Monitors -> Configs]
  /\ latest \in [Monitors -> Heartbeats]
  /\ expiry \in [Monitors -> [ok : BOOLEAN, days : Int]]
  /\ proc \in {"stopped", "loading", "running", "panicked"}
  /\ st \in [Monitors -> MonStates]
  /\ pending \in [Monitors -> SUBSET Orders]
  /\ run \in [RunIds -> Runs]
  /\ wall \in Instants
  /\ ticker \in SUBSET [age : 0 .. MaxLag, at : Instants]
  /\ lag \in 0 .. MaxLag
  /\ event \in SUBSET Events

Init ==
  /\ phase = [m \in Monitors |-> "absent"]
  /\ config = [m \in Monitors |-> AnyConfig]
  /\ latest = [m \in Monitors |-> NoHeartbeat]
  /\ expiry = [m \in Monitors |-> NoExpiry]
  /\ proc = "stopped"
  /\ st = [m \in Monitors |-> ZeroState]
  /\ pending = [m \in Monitors |-> {}]
  /\ run = [i \in RunIds |-> Idle]
  /\ WallInit
  /\ ticker = {}
  /\ lag = 0
  /\ event = {}
----------------------------------------------------------------------------
(* The API handlers.  They share nothing with the scheduler but the rows.  *)

\* handleCreateMonitor, and handleDuplicateMonitor, which inserts a row it read
\* earlier: the copy may bring the expiry date of an original edited or deleted
\* since, and never its heartbeats.
CreateMonitor(m) ==
  /\ Serving /\ phase[m] = "absent"
  /\ \E c \in Configs, p \in {"active", "paused"},
        e \in {NoExpiry} \cup {d \in DomainProbes : d.ok} :
       /\ config' = [config EXCEPT ![m] = c]
       /\ phase' = [phase EXCEPT ![m] = p]
       /\ expiry' = [expiry EXCEPT ![m] = e]
  /\ event' = {}
  /\ UNCHANGED <<latest, process, clock>>

\* handleUpdateMonitor: the new configuration, and the active flag with it.
UpdateMonitor(m) ==
  /\ Serving /\ Exists(m)
  /\ \E c \in Configs, p \in {"active", "paused"} :
       /\ config' = [config EXCEPT ![m] = c]
       /\ phase' = [phase EXCEPT ![m] = p]
  /\ event' = {}
  /\ UNCHANGED <<latest, expiry, process, clock>>

\* handleSetMonitorActive: pause and resume.
SetMonitorActive(m) ==
  /\ Serving /\ Exists(m)
  /\ \E p \in {"active", "paused"} : phase' = [phase EXCEPT ![m] = p]
  /\ event' = {}
  /\ UNCHANGED <<config, latest, expiry, process, clock>>

\* handleDeleteMonitor: the row goes with its heartbeats; the memory stays.
DeleteMonitor(m) ==
  /\ Serving /\ Exists(m)
  /\ phase' = [phase EXCEPT ![m] = "deleted"]
  /\ config' = [config EXCEPT ![m] = AnyConfig]
  /\ latest' = [latest EXCEPT ![m] = NoHeartbeat]
  /\ expiry' = [expiry EXCEPT ![m] = NoExpiry]
  /\ event' = {}
  /\ UNCHANGED <<process, clock>>
----------------------------------------------------------------------------
(* The loop goroutine.                                                     *)

\* Variant: paused monitors are listed too.
ListedRegardless(m) == Exists(m)

Listed(m) == phase[m] = "active"

Order(m, t) == [cfg |-> config[m], maint |-> InMaintenance(config[m].window, t)]

\* tick: now is the time the ticker fired, long past if the tick before took long,
\* and ListActiveMonitors takes its snapshot.  Whether the checks it starts fall in
\* the window is settled here, because their CheckedAt is now.
TickList ==
  /\ Running /\ ~InHand
  /\ \E t \in ticker :
       /\ pending' = [m \in Monitors |-> IF Listed(m) THEN {Order(m, t.at)} ELSE {}]
       /\ lag' = t.age
  /\ ticker' = {}
  /\ event' = {}
  /\ UNCHANGED <<db, proc, st, run, wall>>

\* tick, when ListActiveMonitors fails: the error is logged, the tick is given up.
TickFails ==
  /\ Running /\ ~InHand /\ ticker # {}
  /\ ticker' = {}
  /\ event' = {}
  /\ UNCHANGED <<db, process, wall, lag>>

\* Variant: whether it is due is asked of the clock, and not of the tick's time.
DueByClock(s, c) == s.sinceRun >= c.interval

Reserve(s) == [s EXCEPT !.sinceRun = lag]
Due(s, c) == s.sinceRun - lag >= c.interval

Start(m, o) == [stage |-> "checking", mon |-> m, cfg |-> o.cfg, maint |-> o.maint,
                status |-> "down", latency |-> 0, age |-> lag]

\* tick, one monitor of the list: reserve the slot and start the run.
TickStart(m) ==
  /\ Running /\ MutexFree
  /\ \E o \in pending[m], i \in RunIds :
       /\ Due(st[m], o.cfg)
       /\ ~InFlight(i)
       /\ st' = [st EXCEPT ![m] = Reserve(st[m])]
       /\ run' = [run EXCEPT ![i] = Start(m, o)]
  /\ pending' = [pending EXCEPT ![m] = {}]
  /\ event' = {}
  /\ UNCHANGED <<db, proc, clock>>

\* tick, one monitor of the list that is not due.
TickSkip(m) ==
  /\ Running /\ MutexFree
  /\ \E o \in pending[m] : ~Due(st[m], o.cfg)
  /\ pending' = [pending EXCEPT ![m] = {}]
  /\ event' = {}
  /\ UNCHANGED <<db, proc, st, run, clock>>
----------------------------------------------------------------------------
(* The run goroutines.                                                     *)

\* Check returns, with any verdict.
CheckReturns(i) ==
  /\ Running /\ run[i].stage = "checking"
  /\ \E s \in Statuses, l \in Latencies :
       run' = [run EXCEPT ![i] = [@ EXCEPT !.stage = "checked", !.status = s, !.latency = l]]
  /\ event' = {}
  /\ UNCHANGED <<db, proc, st, pending, clock>>

\* InsertHeartbeat, outside s.mu: stamped with the time of the tick, not of the
\* insertion.  It fails on a deleted monitor (foreign key) and may fail on any;
\* the error is only logged.
RecordHeartbeat(i) ==
  /\ Running /\ run[i].stage = "checked"
  /\ LET m == run[i].mon IN
       \/ /\ Exists(m)
          /\ latest' = [latest EXCEPT ![m] = [status |-> run[i].status, age |-> run[i].age]]
       \/ UNCHANGED latest
  /\ run' = [run EXCEPT ![i].stage = "recorded"]
  /\ event' = {}
  /\ UNCHANGED <<phase, config, expiry, proc, st, pending, clock>>

\* What the probes, if they run, find within the threshold or already past.
Near(s, r, p) ==
  {k \in {"cert", "domain"} :
     \/ k = "cert" /\ CertDue(s, r) /\ p.cert.ok /\ p.cert.days <= r.cfg.certDays
     \/ k = "domain" /\ DomainDue(s, r) /\ p.domain.ok /\ p.domain.days <= r.cfg.domainDays}

\* The result as an observer sees it: lapsed, the certificate has expired.
Verdict(s, r, p) ==
  [mon |-> r.mon, status |-> r.status, slow |-> Slow(r), maint |-> r.maint,
   maxRetries |-> r.cfg.maxRetries, slowRetries |-> r.cfg.slowRetries,
   far |-> Far(s, r, p), near |-> Near(s, r, p),
   lapsed |-> p.cert.ok /\ p.cert.days < 0, sent |-> Sent(s, r, p)]

\* s.mu.Lock: from here to the end of the judgement, the dialling of the
\* certificate's host and the lookup of the domain included, nobody else has s.mu.
TakeMutex(i) ==
  /\ Running /\ run[i].stage = "recorded" /\ MutexFree
  /\ run' = [run EXCEPT ![i].stage = "judging"]
  /\ event' = {}
  /\ UNCHANGED <<db, proc, st, pending, clock>>

\* The section under s.mu and the end of the run.  The lookup that finds a date
\* stores it in the row, if the row is there and the write succeeds.
JudgeResult(i) ==
  /\ Running /\ run[i].stage = "judging"
  /\ \E cert \in CertProbes, domain \in DomainProbes :
       LET r == run[i]
           m == r.mon
           p == [cert |-> cert, domain |-> domain]
       IN /\ st' = [st EXCEPT ![m] = Decide(st[m], r, p)]
          /\ event' = {Verdict(st[m], r, p)}
          /\ \/ /\ DomainDue(st[m], r) /\ domain.ok /\ Exists(m)
                /\ expiry' = [expiry EXCEPT ![m] = domain]
             \/ UNCHANGED expiry
  /\ run' = [run EXCEPT ![i] = Idle]
  /\ UNCHANGED <<phase, config, latest, proc, pending, clock>>
----------------------------------------------------------------------------
(* Restarts and time.                                                      *)

\* The process ends, at any point: the database is all that is left.
Forgotten(p) ==
  /\ proc' = p
  /\ st' = [m \in Monitors |-> ZeroState]
  /\ pending' = [m \in Monitors |-> {}]
  /\ run' = [i \in RunIds |-> Idle]
  /\ ticker' = {}
  /\ lag' = 0

Crash ==
  /\ Serving /\ Forgotten("stopped")
  /\ event' = {}
  /\ UNCHANGED <<db, wall>>

ToLoad == [cfg |-> AnyConfig, maint |-> FALSE]   \* only the id of the row is used

\* The process starts: the loop goroutine lists the active monitors, or fails to,
\* for loadInitialState, and meanwhile the API begins to answer.
Boot ==
  /\ ~Serving
  /\ proc' = "loading"
  /\ \/ pending' = [m \in Monitors |-> IF Listed(m) THEN {ToLoad} ELSE {}]
     \/ UNCHANGED pending
  /\ event' = {}
  /\ UNCHANGED <<db, st, run, clock>>

Loaded(h) ==
  [ZeroState EXCEPT !.sinceRun = h.age, !.status = h.status,
                    !.failures = IF h.status = "down" THEN 1 ELSE 0]

\* loadInitialState, one monitor of its list: a heartbeat that cannot be read is
\* skipped.  Where there is none, for a new monitor or one deleted since the
\* listing, LatestHeartbeat returns nil without an error and hb.CheckedAt panics.
LoadState(m) ==
  /\ proc = "loading" /\ pending[m] # {}
  /\ \/ /\ latest[m].status # "none"
        /\ st' = [st EXCEPT ![m] = Loaded(latest[m])]
        /\ pending' = [pending EXCEPT ![m] = {}]
        /\ UNCHANGED <<proc, run, ticker, lag>>
     \/ /\ pending' = [pending EXCEPT ![m] = {}]
        /\ UNCHANGED <<proc, st, run, ticker, lag>>
     \/ /\ latest[m].status = "none"
        /\ Forgotten("panicked")
  /\ event' = {}
  /\ UNCHANGED <<db, wall>>

\* The state is loaded: loop makes its ticker.
StartTicker ==
  /\ proc = "loading" /\ ~InHand
  /\ proc' = "running"
  /\ event' = {}
  /\ UNCHANGED <<db, st, pending, run, clock>>

Waiting(t) == [t EXCEPT !.age = @ + 1]

\* A unit of time passes, also while the list of a tick is in hand.  The ticker
\* fires, and drops the tick when the one before is still in its channel.
Advance ==
  /\ Running => (\A t \in ticker : t.age < MaxLag) /\ (InHand => lag < MaxLag)
  /\ WallTick
  /\ ticker' = IF ~Running THEN {}
               ELSE IF ticker = {} THEN {[age |-> 0, at |-> wall']}
               ELSE {Waiting(t) : t \in ticker}
  /\ lag' = IF Running /\ InHand THEN lag + 1 ELSE 0
  /\ st' = [m \in Monitors |-> Older(st[m])]
  /\ run' = [i \in RunIds |-> IF InFlight(i) THEN [run[i] EXCEPT !.age = Aged(@)] ELSE run[i]]
  /\ latest' = [m \in Monitors |->
       IF latest[m].status = "none" THEN latest[m] ELSE [latest[m] EXCEPT !.age = Aged(@)]]
  /\ event' = {}
  /\ UNCHANGED <<phase, config, expiry, proc, pending>>
----------------------------------------------------------------------------
Edit(m) == CreateMonitor(m) \/ UpdateMonitor(m) \/ SetMonitorActive(m) \/ DeleteMonitor(m)
Tick(m) == TickStart(m) \/ TickSkip(m)

\* Variant: probes without a timeout, which a target that is down never ends.
WorkWithoutTimeout(i) ==
  CheckReturns(i) \/ RecordHeartbeat(i) \/ TakeMutex(i) \/ (run[i].status = "up" /\ JudgeResult(i))

Work(i) == CheckReturns(i) \/ RecordHeartbeat(i) \/ TakeMutex(i) \/ JudgeResult(i)

\* Everything but a list that cannot be read.
Listing == \/ \E m \in Monitors : Edit(m) \/ Tick(m) \/ LoadState(m)
           \/ \E i \in RunIds : Work(i)
           \/ TickList \/ Crash \/ Boot \/ StartTicker \/ Advance

Next == Listing \/ TickFails

Spec == Init /\ [][Next]_vars

\* The process and its loop goroutine, from one start to the next.
Loop == Boot \/ StartTicker \/ TickList \/ \E m \in Monitors : LoadState(m) \/ Tick(m)

\* The loop's ticker fires and its lists can be read, a check returns by the
\* deadline of its context and its goroutine goes on when s.mu is free, the
\* supervisor starts the process again, time passes.  The API owes nothing, no crash
\* has to happen, and a run may be beaten to s.mu by others for ever.
FairSpec ==
  /\ Init /\ [][Listing]_vars /\ WF_vars(Loop) /\ WF_vars(Advance)
  /\ \A i \in RunIds : WF_vars(Work(i))
=============================================================================
