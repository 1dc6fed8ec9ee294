# Akena Watch in TLA+

Akena Watch is a self-hosted uptime monitor: one Go process with an embedded
SQLite file, an HTTP API and a dashboard, WebSockets for live updates, and a
scheduler that checks targets and sends alerts. This directory holds TLA+
models of the program, the TLC runs that check them and the TLAPS proofs about
them. Line numbers refer to the Go sources under `src/`.

## 1. Inventory

| Component | State it keeps | Operations | Interacts with |
|---|---|---|---|
| **Scheduler** (`internal/monitor/scheduler.go`) | `state`: monitor id -> `monState` under `s.mu`; the run goroutines; the ticker | `loadInitialState`, `tick`, `run`, `Stop` | reads the monitors, writes heartbeats and domain dates, calls the notifier and the hub |
| **Alert policy** (`run`, under `s.mu`) | streaks, "already alerted" flags, probe times | judge one result | called by each run |
| **Maintenance window** (`store/monitors.go`, `InMaintenance`) | none | a predicate of configuration and local time | used by the scheduler, the dashboard, the status page |
| **Check engine** (`monitor/check.go`) | none | HTTP, TCP and DNS checks | the network |
| **Monitors** (`store/monitors.go`, `server/handlers_monitors.go`) | rows of `monitors` | create, duplicate, update, pause, delete | cascades to heartbeats, shares, channels |
| **Heartbeats** (`store/heartbeats.go`) | rows of `heartbeats` | insert, latest, recent, uptime, prune | scheduler, payloads, status page |
| **Accounts** (`server/auth.go`, `handlers_users.go`, `store/users.go`) | `users`, `sessions` | setup, login, logout, create, update and delete users | every request |
| **Access** (`store/groups.go`, `store/monitors.go`) | `monitor_shares`, `user_groups` | shares, manual access, groups; who may view, edit, receive events | handlers, hub |
| **Login limiter** (`server/ratelimit.go`) | two maps of failures, by user and by address | `espera`, `fallo`, `exito`, cleanup | `handleLogin` |
| **Notifier** (`notifier/notifier.go`, `store/notifications.go`) | `notifications`, `monitor_notifiers`; delivery goroutines | `Send*`, `NotifyOwner*`, test, associate | third-party services |
| **Realtime hub** (`server/hub.go`, `ws.go`) | user -> sockets, under an RWMutex | `Add`, `Remove`, `Publish` | scheduler, browsers |
| **Ping tool** (`server/ws_ping.go`, `internal/ping`) | current session of a socket | start, stop, results, summary | one browser |
| **Status page** (`server/handlers_status.go`) | none | the history by hours, the uptime | reads heartbeats |
| **Store schema** (`store/store.go`) | the tables, columns and index of the file | `Open`, `migrate` | runs before everything else |
| Tools, domain lookup, routing, frontend, deployment | none or I/O | | |

What is hard in this code, component by component, and what makes it correct:

* **Scheduler.** Checks outlive their interval, so runs of one monitor overlap;
  each works on the row as it was listed; heartbeats are inserted outside the
  lock and judged inside it; the API edits, pauses and deletes rows at any time;
  the process restarts at any time with the heartbeats as its only memory of a
  status; a probe holds the lock that the loop waits for in the middle of its
  list. Correct: no slot given twice, no monitor lost from the schedule, a paused
  monitor goes quiet, alerts as below.
* **Alert policy and window.** Four kinds of alert with a flag each, set and
  reset in different branches, and a window that mutes messages while streaks go
  on. Correct: one message per episode, none in the window, a cause for each,
  nothing that lasts long enough missed, a recovery exactly for what was
  announced.
* **Accounts.** Counts read before the statement they protect. Correct: exactly
  one first administrator, always at least one administrator, no session of a
  deleted user.
* **Access.** Three queries over the same tables, two features writing the same
  rows. Correct: who views and who receives events agree; replacing one feature's
  rows leaves the other's.
* **Login limiter.** Check and count in two critical sections, each with a clock
  read before its lock; growing blocks, bounded maps, cleanup. Correct: a block is
  that of its last failure and is not forgotten early.
* **Hub and ping tool.** Blocking writes under a read lock; sessions replaced
  while their results are on the way; a read deadline that nothing renews.
  Correct: every publication reaches its sockets and ends; an overtaken session
  sends no summary, and what was stopped ends.
* **Notifier.** One goroutine per message and channel. Correct: what may be lost
  or reordered is known, and nothing is sent for a monitor that asks for none.
* **Heartbeats.** Text comparison of times, pruning. Correct: pruning keeps the
  newest, counts agree with the rows.

* **Store schema.** Columns added one statement at a time, on a file of any
  release, with one connection. Correct: an open store is complete, and a
  service that was started does open.

`PROJECT.json` lists every component and, under `hazards`, each of these places
with its source line and the property that watches it, or why none does.

## 2. Modules

| Module | What it is |
|---|---|
| `Maintenance` | `InMaintenance` on a circle of weekdays and minutes |
| `Clock` | the wall clock that goes round the week, and what a window is to it |
| `AlertPolicy` | the section of `run` under `s.mu`, as operators on a `monState` |
| `Scheduler` | the state machine: rows, loop, runs, API, restarts, time |
| `AlertContract` | the abstract specification: verdicts heard one at a time |
| `SchedulerProps` | the properties, and the refinement mapping to the contract |
| `SchedulerProofs` | the TLAPS proofs |
| `Documented` | what documentation and comments say of restarts and pauses |
| `MCScheduler`, `MCDocumented` | instances for TLC |
| `Accounts` | users, roles, sessions and the requests on them |
| `LoginLimiter` | failures and blocks by user and by address, with logins in flight |
| `Access` | who sees and edits a monitor: owners, shares, groups, manual accesses |
| `Channels` | alert channels, their associations, messages on their way |
| `Heartbeats` | the rows of the history, pruning, and what the status page shows |
| `Hub` | sockets, publishers and the two kinds of lock between them |
| `Broadcast` | the abstract specification of the hub: events and sockets, no locks |
| `HubDeadline` | the read deadline of the sockets, on top of `Hub` |
| `PingSession` | the sessions of the ping tool on one socket |
| `Migration` | opening a database of any release |
| `MCData` | the five modules on data, side by side, for TLC |
| `MCServices` | `Hub`, `PingSession`, `Migration` and `Clock`, side by side, for TLC |
| `MCHubDeadline` | an instance of `HubDeadline` |
| `AccountsProofs`, `LoginLimiterProofs`, `AccessProofs`, `ChannelsProofs`, `HeartbeatsProofs` | TLAPS proofs about the module of that name |
| `ServicesProofs` | TLAPS proofs about `Hub`, `PingSession` and `Migration` |
| `Extremes` | the least and the greatest element of a bounded set of integers, for those proofs |

Every module but the `MC` ones also holds the properties of its component.
`Scheduler`, `AlertPolicy`, `Clock` and `Maintenance` share state and are composed. The
other components share no variable in the models: what one needs of another is
either reduced to what it can do to it (`Access` and `Channels` let a user be
deleted at any time, as `Accounts` does) or nothing at all.

### Correspondence with the code

**Scheduler.** `Scheduler` keeps the database (`phase`, `config`, `latest`, `expiry`), the
process (`proc`, `st`, `pending`, `run`), the clocks (`wall`; `ticker`, the tick
in the channel; `lag`, the age of the tick whose list is in hand) and one
output (`event`: the result judged in the last step and the messages sent for
it). One action is one critical section, SQL statement or return from I/O:

| Code | Action |
|---|---|
| `handleCreateMonitor`, `handleDuplicateMonitor` | `CreateMonitor` |
| `handleUpdateMonitor` | `UpdateMonitor` |
| `handleSetMonitorActive` | `SetMonitorActive` |
| `handleDeleteMonitor` | `DeleteMonitor` |
| `tick`: `ListActiveMonitors`; it fails | `TickList`; `TickFails` |
| `tick`: the body of the loop, `s.mu` to `go s.run` | `TickStart`, `TickSkip` |
| `run`: `Check` returns | `CheckReturns` |
| `run`: `InsertHeartbeat` | `RecordHeartbeat` |
| `run`: `s.mu.Lock()`; from there to the end | `TakeMutex`; `JudgeResult`, with `Decide` of `AlertPolicy` |
| shutdown, crash | `Crash` |
| `loadInitialState`: `ListActiveMonitors`; one monitor of the list | `Boot`; `LoadState` |
| `loop`: `time.NewTicker` | `StartTicker` |
| time, the ticker | `Advance` |

A run carries the configuration that was listed (`run[i].cfg`) and whether its
tick fell in the window: the code computes it later, from the same two values.
The messages are decided in `Raised`, `Recovers` and `Rearmed`; `Decide` returns
the whole new `monState`.

Abstractions, and why they keep what matters:

* A time is an age, `now - t`. Ages stop at `AgeCap` and streaks at `StreakCap`,
  which no configured limit exceeds (`SchedulerAssumption`), so each comparison
  comes out as in the code. A zero `time.Time` is an age of `AgeCap`.
* The wall clock is a point of the week. Changes of the local offset and steps
  of the clock are left out.
* `Check` returns any verdict and any latency; the probes return any result of
  `CertProbes` and `DomainProbes`. `CertDaysLeft` is the conversion that answers
  -1 for what it cannot probe.
* Time passes at any point, also while a run holds `s.mu` through its probes and
  the loop waits for it in the middle of a list (`MutexFree`). The ticker's channel
  holds one tick and drops the others, so a tick may be old when its list is read
  and older when the loop gets to a monitor; the runs it starts bear its time. One
  that is due according to that time is started, and the tick that waits in the
  channel may start another at once.
* `RunIds` bounds how many goroutines are alive, `MaxLag` how old a tick may get,
  in the channel and in hand: time waits there.
* The state is loaded monitor by monitor in the goroutine of the loop, while the
  API already answers (`Serving`): monitors may be created, edited and deleted
  between its list and its reads.
* The `notify` and `notify_owner` flags choose who receives a message, not
  whether its flag is set, and stay with the notifier. `main` always gives the
  scheduler a notifier and a hub.
* `AUTOINCREMENT` never reuses an id: a deleted monitor stays deleted.
* Duplicating reads a row and inserts it later: the copy may be of any
  configuration, with any date found for its domain.

**Requests.** SQLite has one connection (`SetMaxOpenConns(1)`), so a statement
or a transaction is one step; a handler is a sequence of them, and anything may
come between. The user and role of a request are those of its start.

| Code | Action |
|---|---|
| *`Accounts`*: `handleSetup`: `CountUsers`; `CreateFirstUser`; `startSession` | `StartSetup`; `CreateFirstUser`; `StartSession` |
| `handleLogin`: the user and the password; `startSession` | `Login`; `StartSession` |
| `handleLogout` | `Logout` |
| `authJSON`, `adminJSON`: `UserForSession` | `Authenticate` |
| `handleCreateUser` | `CreateUser` |
| `handleUpdateUser`, `handleDeleteUser`: `GetUserByID`; `CountAdmins`; the write | `ReadTarget`; `CountAdmins`; `UpdateUser`, `DeleteUser` |
| a refusal, a failed statement; the end of the process; time | `Abandon`; `AccountsCrash`; `SessionsAge` |
| *`LoginLimiter`*: `espera`: `time.Now`, the rest; `fallo`: `time.Now`, the rest; `exito` | `EsperaReads`, `Espera`; `FalloReads`, `Fallo`; `Exito`, with `Restante`, `Anotado` (`anotar`) and `Limpio` (`limpiarSiToca`) |
| *`Access`*: the checks of a handler | `CreateRequest` ... `AccessRequest` |
| the statement or transaction it ends with | `CreateMonitor`, `UpdateMonitor`, `DeleteMonitor`, `SetShare`, `SetUserGroups`, `SetUserManualAccess`, `Fail` |
| `UpdateUser`, `DeleteUser` | `ChangeRole`, `RemoveUser` |
| *`Channels`*: `handleCreateMonitor`, `handleUpdateMonitor`, `handleDuplicateMonitor`: the write; (the read of the original;) `filterNotifierIDs`; `SetMonitorNotifiers` | `SaveNew`, `SaveEdit`, `SaveCopy`; `ReadOriginal`; `Filter`; `Associate` |
| handlers of notifications; `DeleteMonitor`; `DeleteUser` | `CreateChannel`, `UpdateChannel`, `DeleteChannel`; `DeleteMon`; `DeleteOwner` |
| `Send*`; `notifyOwnerText`; `sendChannel` returns | `Send`; `SendToOwner`; `SendEnds` |
| *`Heartbeats`*: a launch; `InsertHeartbeat`, which may fail; `PruneHeartbeats`; `DeleteMonitor` | `LaunchCheck`; `InsertHeartbeat`, `InsertFails`; `Prune`; `DeleteSite` |
| `ListHeartbeats`, `LatestHeartbeat`, `statusHistory` | operators of the same names |

**Long-lived goroutines.**

| Code | Action |
|---|---|
| *`Hub`*: `handleWS`: upgrade; `Add`; `ReadMessage` fails; `Remove` | `Upgrade`; `Announce`, `Add`; `ReadFails`; `Announce`, `Remove` |
| `Publish`: `RLock`; the loop; the socket's mutex; the write | `Publish`; `NextSocket`; `LockSocket`; `WriteEnds` |
| a client that does not read | `Stall`, `Unstall` |
| *`HubDeadline`*: a step of the hub; a client that goes; the deadline of 90 s, in thirds | `HubMoves`; `ClientLeaves`; `TimePasses` |
| *`PingSession`*: `handlePingWS`: start; stop; `ReadJSON` fails | `Start`; `Stop`; `Disconnect` |
| `ping.Run`: head of the loop; the ping; the result; the `select`; the check under `runMu`; the summary | `NextPacket`; `PingEnds`; `SendResult`; `WaitCancelled`, `WaitElapsed`; `CheckCurrent`; `SendSummary` |
| *`Migration`*: `CREATE TABLE`; `PRAGMA table_info`; reading and closing its rows; `ALTER TABLE`; the unique index | `CreateTable`; `LookUp`; `CloseRows`; `AddColumn`; `CreateIndex` |
| `systemctl start`; `Restart=always`; a kill or a failed statement | `Boot`; `Restart`; `Die` |

Abstractions of these modules:

* Passwords, emails, input validation and the wording of answers are left out: a
  request that is refused ends without a write.
* `founder`, `overtaken`, `past` and `recorded` are auxiliary: no guard
  reads them, they only remember what a property is about.
* The limiter measures every time from the present: a reading of the clock in
  flight has an age, up to `MaxLate`, and `bloqueadoHasta` may lie as far in the
  past as such a reading can ask about.
* A deleted monitor keeps its owner in `Channels` (`monOwner`; `mons` are the
  monitors there are): the run or request that holds a copy of the row still
  writes to that owner's channels. A list that fails is left out, as in
  `filterNotifierIDs`.
* A check in flight outlives the deletion of its monitor in `Heartbeats`, and its
  insertion is refused. A name serves for another monitor once nothing of the
  first is in flight.
* When both cases of the `select` in `ping.Run` are ready Go takes either: a
  cancelled session may go round again, any number of times.
* `Channels` lets any user edit any monitor at any time. Who may is `Access`'s
  matter and changes from one statement to the next, so this is the most that can
  happen.
* `AUTOINCREMENT` and the random tokens are counters or sets of used ids; nothing
  is handed out twice.
* In `Access` the reads of a handler are one step: owners never change and ids are
  not reused, so later reads can only fail, which `Fail` covers.
* `Heartbeats` counts time in units, ages up to a unit past the window. The order
  of two texts of the same second is not modelled.
* The RWMutex in `Hub` is Go's: a waiting `Lock` stops new readers, an `Unlock`
  lets in those that waited.
* A ping ends; what it measures, and which replies reach which socket, is left out.

## 3. Runs

Properties are in `SchedulerProps` unless said otherwise.

| Run | Shows | Bounds |
|---|---|---|
| `spacing` | `SlotSpacing`, `QuietStaysQuiet` | 1 monitor edited between intervals 1 and 2, 2 overlapping runs, ticks up to 2 units old |
| `outage` | `ImplementsContract` | 1 monitor edited between one retry without window and two retries with a window in the last minute of the day; 2 overlapping runs, ticks up to a unit old, 2-minute days |
| `watchful` | `ImplementsContract` | 1 monitor with latency, certificate and domain watched, in and out of its window; probes that fail, are far, near and past; 1 run |
| `live` | `ActiveIsChecked`, `DownIsAnnounced` | 1 monitor, a window in the last of three minutes that may swallow its retry, 2 runs, ticks up to a unit old |
| `restart_repeats_alert` | `Documented!NoFalseAlertAfterRestart` is violated | 1 monitor |
| `start_without_history` | `Documented!StartSurvivesEmptyHistory` is violated | 1 monitor |
| `paused_alerts` | `Documented!PausedNeverAlerts` is violated | 1 monitor |
| `data` | the 17 properties of `Accounts`, `LoginLimiter`, `Access`, `Channels`, `Heartbeats` | below |
| `services` | the 13 properties of `Hub`, `PingSession`, `Migration` and `Clock` | below |
| `kept_alive` | `HubDeadline!KeptAlive` is violated | 2 sockets, 1 publisher, the deadline in thirds |
| `last_admin` | `Accounts!AlwaysAnAdmin` is violated | 2 requests, 2 tokens, 2 accounts |
| `history24` | `Heartbeats!HistoryShowsEveryHour` is violated | a monitor checked in every unit; a day of 8 checks, 5 kept, 2 read, 4 blocks |

`MCData` and `MCServices` check independent modules side by side: the variable
`part` says which one runs in a behaviour, and the others stay in one initial
state, so the states add up instead of multiplying. In `MCServices` no fair
action of a part is enabled in its initial states, so the fairness of the parts
that do not run asks for nothing.

The properties:

* `SlotSpacing`: the checks of one monitor bear times (`CheckedAt`) that are at
  least an interval apart, by the configuration of the younger one. When they
  begin is another matter: a tick that waited for the lock starts a run late, and
  the next one may follow at once. The code does not prevent that, and no property
  says it does.
* `ImplementsContract`: `AlertContract` hears verdicts in an order, with no runs,
  rows or probes, and says which messages each may and must cause: none in the
  window, one per episode, a cause for each, nothing missed, recoveries exactly
  for announced outages. The mapping reads the failures, the slow streak and the
  flags from `st`. An implementation may be late or overlap as it likes, but each
  monitor's alerts must be those of *one* sequence of verdicts.
* `QuietStaysQuiet`: a paused or deleted monitor with nothing under way is left
  alone until it is resumed.
* `WindowEdges`: the clock enters and leaves a window at its configured edges and
  nowhere else, over midnight and Saturday night too, and an empty window never.
* `ActiveIsChecked`: a monitor that stays active in a process that stays up is
  judged again and again.
* `DownIsAnnounced`: an outage that does not end is announced for good, although
  its retries may be exhausted inside a window.

Those of `data`:

* `OneFounder`: however many installations race, the wizard makes one
  administrator. `SessionsHaveUsers`: no session of a user who is gone, although a
  login verifies first and inserts later. `RequestKeepsItsUser`: the id a request
  acts with is never that of a later account.
* `AdminLossIsARace`: the last administrator is lost only in a step of a request
  that another one overtook after its checks, or whose count failed. This is what
  the code does keep of the promise that `last_admin` refutes.
* `BlockMatchesFailures`: a key is blocked for exactly what its count demands from
  the reading of its last failure, for whoever asks with whatever reading.
  `BlocksHold`: nothing shortens a block but time, a correct password and a
  failure that was overtaken between its reading of the clock and the lock; that
  one takes away at most the difference of the two readings. (At the cap the later
  application of an older reading does set `bloqueadoHasta` back.) `FailuresRemembered`: a count is forgotten by a success or
  after the memory, never in part.
* `NoDanglingAccess`: no monitor without owner, no access without both ends.
  `ViewersAgree`: the list, the page and the events are three queries, and agree.
  `UngroupedIsPrivate`: the empty group, which the joins compare like any other,
  opens nothing. `ManualAccessKeepsEditors`: replacing manual accesses, kept in
  the rows of the shares, changes no right to edit.
* `NoDanglingChannel`: no association outlives its ends. `NoForeignChannel`: the
  alerts of a monitor go only through channels of its owner or of somebody who
  edited or copied it himself, not even through a copy of a copy.
* `HistoryIsRecent`: a block of the history shows a check of its hour, and none
  of that hour is newer by more than checks overlap. `PruneIsInvisible`: a query
  for at most as many rows as the prune keeps does not notice it, and the latest
  row never changes. `GapsAreCuts`: an hour with a recorded check is shown empty
  only where the table has grown to what a prune keeps or past what the page
  reads. This is what the code does keep of the promise that `history24` refutes.

Those of `services`:

* `WritesAreSafe`: one writer per socket, none to a socket that left the map.
  `SomebodyGoesOn`: the read lock, an announced `Lock` and the mutexes never wait
  for each other in a circle, and no waiter is left behind. `ImplementsBroadcast`:
  `Broadcast` has no locks; it says that an event is written once to every socket
  its users have open when the publication begins, whatever becomes of the other
  writes, and that the map changes only between publications. The mapping takes
  what a publisher owes from its position in the loop.
  `PublishEnds`: every publication ends, with others and sockets that come,
  stall and go.
* `OpenIsComplete`: an open store has every table, column and index.
  `NeverAddedTwice`: a process that has had the file to itself never adds a column
  that is there, wherever its earlier attempts died; so an `ALTER TABLE` fails on a
  duplicate only when two services are being started.
  `EventuallyOpen`: a service that was started is open in the end, whatever died
  and although a statement waits for the connection that a look-up holds.

* `PingTypeOK`: every session but the newest has been cancelled.
  `OvertakenAreSilent`: a session still going when a newer one was started sends no
  summary. (One that has passed its check may be overtaken before it sends.)
  `RunsEnd`: a session that was stopped, replaced or given a count ends,
  however often its timer wins the `select`. (An endless one that loses its socket
  does not: `Disconnect` cancels nothing.) How many results a cancelled session may
  still send is not bounded by the code.

Each property of a passing run has a mutant in `PROJECT.json`: a plausible slip
in one definition (due by the clock and not by the tick, an alert only on the very
check that reaches the threshold, flags never re-armed...) for which TLC finds the
property violated.

**Why the bounds are enough.** Two runs are the least that overlap. With ages to
4 and ticks up to 2 units old, `spacing` has a list in hand while a whole interval
passes and the next tick waits in the channel, which is when a slot could be given
twice. Two failures are what tells a streak from a single one; in `live` a streak
that has stopped counting at its cap passes its threshold inside the window, and
the alert is due after it. The window of `outage` and `watchful` ends at midnight,
so a verdict in it, before it and after it occurs; what a window is on other days,
past midnight and over the end of the week is the matter of
`services`, where every window of a week of 7 days with 24 minutes each occurs, and of
the proof `WindowIsAnInterval`. The verdicts on one
monitor do not touch the state of another; the proofs hold for any number of
everything.

`data`: two requests, tokens, names and three accounts, so that an id could be
reused and two administrators can race; a limit of 2 failures with two attempts
in flight, whose readings of the clock may be a unit old at the lock, three block lengths up to the cap, a map of one entry with two users,
a memory shorter than the longest block. `Access` and `Channels` have
one request in flight with everything else a user, an administrator or a
deletion can do between its two steps; the proofs hold for any number of requests.
Two monitors tell a copy from its original and two users an owner from an
editor. `Heartbeats` keeps 3 rows of at most 4 and reads 2, with checks that may
overlap, and a window of two blocks of two units. `services`: two sockets of two users and two
publishers, the least for a publisher, a waiting `Lock` and a second publisher to
wait in a circle; two
processes, a death, and files with no column, with 9 of 15 (the middle of one
function) and with all. Users, tokens, monitors and requests of `data` are interchangeable and
declared symmetric; sets of different components have the same model values,
which are permuted together. Two ping sessions of one or two packets, or without end: one
overtakes the other or follows its stop, and the proofs hold for any number. These runs do not check for deadlock: every user may
have been deleted, every session may be over.

**Fairness** (`FairSpec`): weak fairness of the loop (a goroutine that is ready is
scheduled), of each run (a check returns by the deadline of its context,
`timeout_s + 5`, and a probe by its own timeout), of starting the process again
(systemd `Restart=`, the container platform) and of time. A run may be beaten to
`s.mu` for ever: the runs that beat it are judged. The lists of the loop can be read: `FairSpec` has every step but
`TickFails`, because a database that never answers again leaves nothing to promise.
Nothing is assumed of the API, of crashes or of verdicts; the liveness properties
are conditional on the process staying up and the monitor staying active.

`HubFairness`: goroutines run; Go's mutexes hand a free lock to those that wait
(strong fairness of `LockSocket`, `WriteEnds`). `Unstall` is fair too, and that is not the code's doing: it sets
no write deadline, so a publication ends only because the client reads again or
TCP gives the connection up. Nothing is assumed of `Upgrade`, `Announce`, `Publish`,
`Stall` and `ReadFails`. `PingFairness`: goroutines run, pings time out, writes end, and a
`select` that chooses at random does not pass over a ready `ctx.Done` for ever
(strong fairness of `WaitCancelled`); nothing is assumed of starts, stops and disconnections. `MigrationFairness`: a process that
is opening the file goes on, and a dead one is started again (`Restart=always` in
`deploy/akena-watch.service`); deaths are bounded by `MaxDeaths`.

### Where the program and its documentation disagree

1. **Start without history.** `loadInitialState` reads `hb.CheckedAt` of a nil
   heartbeat when an active monitor has none yet (`scheduler.go:111`): a restart
   between the creation of a monitor and its first stored result panics, and so
   does every start after it.
2. **Restart during an outage.** The flags are not restored, so an announced
   outage is announced again (and if it ended meanwhile, its recovery is not):
   the comment at `scheduler.go:98` says this is what loading the state avoids.
3. **Pause during a check.** The run in flight still alerts (README.md:327).
4. **The last administrator.** The count of the administrators and the write it
   protects are two statements, and a failed count lets the write through
   (`handlers_users.go:214`): two administrators who demote or delete each other
   at the same time leave none, against README.md:220.
5. **Twenty-four hours of history.** The status page reads 2000 rows and the prune
   keeps 5000, but a monitor checked every 10 s, which README.md:251 allows, has
   8640 a day: the page shows 5.5 hours and calls the others empty
   (`handlers_status.go:113`), against README.md:384.
6. **Connections kept alive.** The comment at `ws.go:37-38` says that pings keep the
   connection alive. Nothing sends one, so no pong renews the read deadline and
   every socket is dropped after 90 s; the page connects again after three, and
   misses what was published meanwhile.
Two more were met and are in no run:

* **Expired certificate.** README.md:280 promises an alert for one that has already
  expired. Its wording exists (`scheduler.go:214-215`) and cannot be reached, since the
  guard at line 211 wants `days >= 0`; `AlertContract` therefore leaves it out of what
  is not missed (`lapsed`).
* **The summary of the newest session.** `ws_ping.go:83` says that only the most
  recent session sends it; the check is made under `runMu` and the summary sent
  after the unlock, so a start in between makes it that of the session before.

## 4. Proofs

`SchedulerProofs`, with TLAPS, for every value of the constants that satisfies
`PolicyAssumption`, `CalendarAssumption` and `SchedulerAssumption`: limits within
the caps, configurations of the right type, a week of one day or more and days of one minute or more.

| Theorem | Statement | Argument |
|---|---|---|
| `TypeCorrect` | `Spec => []TypeOK` | inductive by itself; lemmas type `Decide`, `Verdict`, `Loaded`, `Older` |
| `Spacing` | `Spec => []SlotSpacing` | `SpacingInv` |
| `Refinement` | `Spec => ImplementsContract` | one lemma for the judged section, then step by step; `FreshInv`, what a process knows before its first verdict, for the start |
| `Quietness` | `Spec => QuietStaysQuiet` | step by step from `TypeOK` |
| `WindowIsAnInterval` | `Spec => WindowEdges` | one minute of the clock, by cases on the window |

`SlotSpacing` is not inductive: nothing in it forbids a run older than `lastRun`
says. `SpacingInv` adds that `lastRun` is never older than a run in flight (so a
monitor that is due has only runs at least an interval old), and that no run
outlives the process whose memory `lastRun` is. That last conjunct is what makes
a restart safe: the loaded `lastRun`, that of the latest heartbeat, may well be
older than the last launch. Nothing else is needed for ticks that wait: a slot is
reserved with, and compared to, the time of the tick.

For `Refinement`, `JudgeIsHeard` shows that `Decide` and `Sent` together satisfy
every clause of the contract for one verdict; `ContractStep` shows that judging
is `Hear`, starting and ending the process `Restart`, and everything else
silence.

The other proof modules follow one pattern: an inductive invariant, a lemma per
action that it is preserved, and the properties from it. All hold for every value
of the constants that satisfies the module's one assumption, so in particular for
any number of requests, users, monitors, channels, sockets, sessions, processes
and deaths, which is where the runs are small.

| Module | Theorems | Inductive invariant |
|---|---|---|
| `AccountsProofs` | `AccountsTypes`, `OneInstallation`, `NoOrphanSession`, `NoBorrowedIdentity`, `LastAdminNeedsARace` | `AccountsInv`: rows only below `nextId`, and what a request has at each stage. `LastAdminNeedsARace` adds `ChecksHold`: a request that nobody overtook may rely on its count and on what it read of its target |
| `LoginLimiterProofs` | `LimiterTypes`, `BlocksAreExact`, `CountsAreKept`, `BlocksStand`, and of the operators `BlockDoubles` | `LimiterInv`: what a record says of its block, of whose doubling it needs the bounds only. `BlocksStand` (`BlocksHold`) needs that more failures never mean a shorter block: `BlockDoubles` |
| `AccessProofs` | `AccessTypes`, `NothingDangles`, `QueriesAgree`, `NoGroupOpensNothing`, `EditorsAreKept` | `AccessTypeOK` and `NoDanglingAccess` together; the queries agree because every monitor has an owner that exists and no user has the empty group |
| `ChannelsProofs` | `ChannelsTypes`, `AssociationsStand`, `ChannelsAreOwn` | `ChannelsInv` with `InFlight`: all that is in flight is about ids already used, so a new monitor or channel never meets what an old one left behind |
| `HeartbeatsProofs` | `HeartbeatsTypes`, `HistoryIsOfItsHour`, `GapsAreExplained`, `PruningIsUnnoticed` | `HeartbeatsInv`: of two rows the one of the lower id is not younger by more than checks overlap (`Overlap`), and a table that has not grown to what a prune keeps has a row for each check recorded (`Complete`) |
| `ServicesProofs`, the hub | `HubTypes`, `SafeWrites`, `EventsReachTheirSockets` (the refinement of `Broadcast`), `NoCircle` | `HubInv`: whoever writes holds the socket's mutex, and what is left to visit is in the map and not the socket at hand. `NoCircle` adds `WaitInv`: who waits is waited for by somebody still there |
| the ping tool | `PingTypes`, `SilentWhenOvertaken` | `PingInv`: only an older session is overtaken |
| the store | `MigrationTypes`, `OpenStoreIsComplete`, `ColumnsAddedOnce` | `MigrationInv`: what a process has established at each point of `Open`; the file only grows, so no other process undoes it. `ColumnsAddedOnce` adds `AloneInv`: what a process that is alone has found is still so |

The type invariants of `Scheduler`, `Accounts`, `LoginLimiter`, `Access` and
`Channels` say nothing but types, hold for every instance by these proofs, and are in no run.

Four arguments are worth knowing before the proofs are read:

* `PruningIsUnnoticed`. The rows of a query are those with fewer than n rows of
  the window after them. A prune shifts positions; when ages decrease with the
  position, the rows of the window are the last ones, so that those before the
  n-th from the end, and only those, are dropped from the answer and from the
  table.
* `HistoryIsOfItsHour` and `GapsAreExplained` need the greatest position of a
  finite set of rows, which `Extremes` gives. `HeartbeatsAssumption` says that
  checks overlap by less than the window: a check takes 125 s at most
  (`timeout_s + 5`), the window is a day.
* `BlockDoubles` speaks of a recursive function, whose values the prover cannot
  compute by induction. It takes the least argument at which the definition is not
  met instead: there is none, so `Doubled` is the function its equation describes
  (`DoubledTurns`), and each failure past the limit doubles the block up to the cap.
* `NoCircle` follows who is waited for: a reader waits for an announced `Lock`, that
  for a publisher that reads, and that for a mutex whose holder writes. The chain
  ends, because whoever writes waits for no lock.

Model-checked only:

* all liveness (`ActiveIsChecked`, `DownIsAnnounced`, `PublishEnds`,
  `RunsEnd`, `EventuallyOpen`): fairness is beyond the prover;
* the six violations.

## 5. Not modelled

* **Profile, status-page texts and settings**: single writes of fields that nothing
  else reads.
* **Check engine**: `Check` is any verdict at any time; how an HTTP verdict follows
  from status, keyword and inversion is a pure case analysis over network input.
* **Domain lookup, diagnostic tools**: parsing of RDAP, WHOIS, DNS and TLS answers;
  no state. The scheduler takes any result of a lookup.
* **Order of times as text**: `UserForSession` and the `since` of the heartbeats
  compare RFC 3339 texts, which order wrongly within one second.
* **ICMP**: every session of the process uses one identifier, so raw sockets may
  mix replies; what arrives at a socket is outside the models.
* **Address of a client** (`clientIP`, trusted proxies): it chooses a key of the
  limiter; the model takes any.
* **Uptime figures**: counts of rows, without effect.
* **Message layout, transports**: a transport ends, with or without an error, and
  is not tried again.
* **Routing, CSRF, frontend, packaging**: no state of their own; restarts appear
  as crashes and boots.

## 6. Plan

Done: all the modules of the first plan, in its order (scheduler and policy;
accounts; limiter; access; hub and ping tool; channels; heartbeats), the opening of
the database, and the proofs of section 4. Left, in the order of what it would
add:

1. `Scheduler` composed with `Channels`, so that one property speaks of the alert
   decided and of the channels it reaches, and a refinement proved of it.
2. The HTTP verdict of `checkHTTP` and the order of times as text, as operators
   with a reference definition.
3. Abstract specifications of `Accounts` and `Access`, to be implemented as
   `AlertContract` and `Broadcast` are.

Every safety property of the passing runs is proved. Liveness stays with TLC.
