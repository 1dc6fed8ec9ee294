-------------------------- MODULE SchedulerProofs --------------------------
(***************************************************************************)
(* Proofs about the scheduler, for any monitors, configurations, windows   *)
(* and number of overlapping runs.                                         *)
(***************************************************************************)
EXTENDS SchedulerProps, TLAPS

USE PolicyAssumption, CalendarAssumption, SchedulerAssumption

\* Counters stay within their bound.
LEMMA Saturation ==
  /\ \A a \in 0 .. AgeCap : Aged(a) \in 0 .. AgeCap
  /\ \A n \in 0 .. StreakCap : Counted(n) \in 0 .. StreakCap
BY DEF Aged, Counted

LEMMA Defaults ==
  /\ AnyConfig \in Configs
  /\ AnyMonitor \in Monitors
  /\ Idle \in Runs
  /\ ZeroState \in MonStates
  /\ NoHeartbeat \in Heartbeats
  /\ NoExpiry \in [ok : BOOLEAN, days : Int]
  /\ ToLoad \in Orders
<1>1. AnyConfig \in Configs  BY DEF AnyConfig
<1>2. AnyMonitor \in Monitors  BY DEF AnyMonitor
<1>3. Idle \in Runs  BY <1>1, <1>2 DEF Idle, Runs, Stages, Statuses
<1>4. ZeroState \in MonStates  BY DEF ZeroState, MonStates, Kinds
<1>5. NoHeartbeat \in Heartbeats  BY DEF NoHeartbeat, Heartbeats
<1>6. NoExpiry \in [ok : BOOLEAN, days : Int]  BY DEF NoExpiry
<1>7. ToLoad \in Orders  BY <1>1 DEF ToLoad, Orders
<1> QED  BY <1>1, <1>2, <1>3, <1>4, <1>5, <1>6, <1>7

\* Ages with the delay of a tick.
LEMMA LagType ==
  /\ 0 .. MaxLag \subseteq 0 .. AgeCap
  /\ \A c \in Configs : c.interval \in 0 .. AgeCap
<1>1. PICK c \in Configs : TRUE  OBVIOUS
<1>2. \A d \in Configs : d.interval \in Nat /\ d.interval + MaxLag <= AgeCap
  BY DEF ConfigRecords
<1>3. MaxLag <= AgeCap  BY <1>1, <1>2
<1> QED  BY <1>2, <1>3

Probes == [cert : CertProbes, domain : DomainProbes]

\* The critical section of run leaves a well-formed monState and reports a
\* well-formed verdict.
LEMMA DecideType ==
  ASSUME NEW s \in MonStates, NEW r \in Runs, NEW p \in Probes
  PROVE  Decide(s, r, p) \in MonStates
<1>1. Failures(s, r) \in 0 .. StreakCap
  BY Saturation DEF Failures, MonStates
<1>2. SlowStreak(s, r) \in 0 .. StreakCap
  BY Saturation DEF SlowStreak, MonStates
<1>3. Raised(s, r, p) \subseteq Kinds
  BY DEF Raised, Failing
<1>4. ((s.alerted \ Rearmed(s, r, p)) \cup Raised(s, r, p)) \in SUBSET Kinds
  BY <1>3 DEF MonStates
<1>5. r.age \in 0 .. AgeCap /\ r.status \in Statuses
  BY DEF Runs
<1> QED  BY <1>1, <1>2, <1>4, <1>5 DEF Decide, MonStates

LEMMA VerdictType ==
  ASSUME NEW s \in MonStates, NEW r \in Runs, NEW p \in Probes
  PROVE  Verdict(s, r, p) \in Events
<1>1. Sent(s, r, p) \subseteq Messages
  BY DEF Sent, Raised, Failing, Messages
<1>2. Far(s, r, p) \subseteq {"cert", "domain"}
  BY DEF Far
<1>3. r.cfg \in ConfigRecords
  BY DEF Runs
<1>4. Slow(r) \in BOOLEAN
  BY DEF Slow
<1>5. Near(s, r, p) \subseteq {"cert", "domain"} /\ (p.cert.ok /\ p.cert.days < 0) \in BOOLEAN
  BY DEF Near
<1> QED  BY <1>1, <1>2, <1>3, <1>4, <1>5 DEF Verdict, Events, Runs, ConfigRecords
----------------------------------------------------------------------------
LEMMA NextInstantType == ASSUME NEW t \in Instants PROVE NextInstant(t) \in Instants
BY DEF NextInstant, Tomorrow, Instants, Days, Minutes

LEMMA WaitingType ==
  ASSUME NEW t \in [age : 0 .. MaxLag, at : Instants], t.age < MaxLag
  PROVE  Waiting(t) \in [age : 0 .. MaxLag, at : Instants]
<1>1. t.age + 1 \in 0 .. MaxLag  OBVIOUS
<1> QED  BY <1>1 DEF Waiting

LEMMA LoadedType == ASSUME NEW h \in Heartbeats PROVE Loaded(h) \in MonStates
<1>1. (IF h.status = "down" THEN 1 ELSE 0) \in 0 .. StreakCap
  OBVIOUS
<1>2. h.age \in 0 .. AgeCap /\ h.status \in Statuses \cup {"none"}
  BY DEF Heartbeats
<1>3. ASSUME NEW z \in MonStates, NEW a \in 0 .. AgeCap,
             NEW v \in Statuses \cup {"none"}, NEW n \in 0 .. StreakCap
      PROVE  [z EXCEPT !.sinceRun = a, !.status = v, !.failures = n] \in MonStates
  BY <1>3 DEF MonStates
<1> QED  BY <1>1, <1>2, <1>3, Defaults DEF Loaded

LEMMA ReserveType ==
  ASSUME NEW s \in MonStates, lag \in 0 .. MaxLag
  PROVE  Reserve(s) \in MonStates
<1>1. lag \in 0 .. AgeCap  BY LagType
<1> QED  BY <1>1 DEF Reserve, MonStates

\* What a process that has ended leaves of its memory is well formed.
LEMMA ForgottenType ==
  ASSUME NEW p, Forgotten(p)
  PROVE  /\ proc' = p /\ st' \in [Monitors -> MonStates]
         /\ pending' \in [Monitors -> SUBSET Orders]
         /\ run' \in [RunIds -> Runs] /\ ticker' = {} /\ lag' \in 0 .. MaxLag
BY Defaults DEF Forgotten

LEMMA OlderType == ASSUME NEW s \in MonStates PROVE Older(s) \in MonStates
BY Saturation DEF Older, MonStates

LEMMA InitType == Init => TypeOK
BY Defaults DEF Init, WallInit, TypeOK

\* One action per step; each one leaves the variables it assigns well formed.
LEMMA StepType == TypeOK /\ [Next]_vars => TypeOK'
<1> SUFFICES ASSUME TypeOK, [Next]_vars PROVE TypeOK'
  OBVIOUS
<1> USE DEF TypeOK
<1>1. ASSUME NEW m \in Monitors, Edit(m) PROVE TypeOK'
  <2>1. CASE CreateMonitor(m)
    BY <2>1, Defaults DEF CreateMonitor, process, clock
  <2>2. CASE UpdateMonitor(m)
    BY <2>2 DEF UpdateMonitor, process, clock
  <2>3. CASE SetMonitorActive(m)
    BY <2>3 DEF SetMonitorActive, process, clock
  <2>4. CASE DeleteMonitor(m)
    BY <2>4, Defaults DEF DeleteMonitor, process, clock
  <2> QED  BY <1>1, <2>1, <2>2, <2>3, <2>4 DEF Edit
<1>2. CASE TickList
  <2> PICK t \in ticker :
         /\ pending' = [m \in Monitors |-> IF Listed(m) THEN {Order(m, t.at)} ELSE {}]
         /\ lag' = t.age
    BY <1>2 DEF TickList
  <2>1. \A m \in Monitors : InMaintenance(config[m].window, t.at) \in BOOLEAN
    BY DEF InMaintenance
  <2>2. pending' \in [Monitors -> SUBSET Orders]
    BY <2>1 DEF Order, Orders
  <2>3. lag' \in 0 .. MaxLag
    OBVIOUS
  <2> QED  BY <1>2, <2>2, <2>3 DEF TickList, db
<1>3. ASSUME NEW m \in Monitors, Tick(m) PROVE TypeOK'
  <2>1. CASE TickStart(m)
    <3> PICK o \in pending[m], i \in RunIds :
          /\ st' = [st EXCEPT ![m] = Reserve(st[m])]
          /\ run' = [run EXCEPT ![i] = Start(m, o)]
      BY <2>1 DEF TickStart
    <3>1. o \in Orders
      OBVIOUS
    <3>2. Reserve(st[m]) \in MonStates
      BY ReserveType
    <3>3. Start(m, o) \in Runs
      BY <3>1, LagType DEF Start, Runs, Stages, Orders, Statuses
    <3>4. st' \in [Monitors -> MonStates] /\ run' \in [RunIds -> Runs]
      BY <3>2, <3>3
    <3> QED  BY <2>1, <3>4 DEF TickStart, db, clock
  <2>2. CASE TickSkip(m)
    BY <2>2 DEF TickSkip, db, clock
  <2> QED  BY <1>3, <2>1, <2>2 DEF Tick
<1>4. ASSUME NEW i \in RunIds, Work(i) PROVE TypeOK'
  <2>1. CASE CheckReturns(i)
    <3> PICK s \in Statuses, l \in Latencies :
          run' = [run EXCEPT ![i] = [@ EXCEPT !.stage = "checked", !.status = s, !.latency = l]]
      BY <2>1 DEF CheckReturns
    <3>1. ASSUME NEW r \in Runs, NEW v \in Statuses, NEW n \in Nat
          PROVE  [r EXCEPT !.stage = "checked", !.status = v, !.latency = n] \in Runs
      BY DEF Runs, Stages
    <3>2. l \in Nat /\ run[i] \in Runs
      OBVIOUS
    <3>3. run' \in [RunIds -> Runs]
      BY <3>1, <3>2
    <3> QED  BY <2>1, <3>3 DEF CheckReturns, db, clock
  <2>2. CASE RecordHeartbeat(i)
    <3>1. run' \in [RunIds -> Runs]
      <4>1. ASSUME NEW r \in Runs PROVE [r EXCEPT !.stage = "recorded"] \in Runs
        BY DEF Runs, Stages
      <4> QED  BY <2>2, <4>1 DEF RecordHeartbeat
    <3>2. [status |-> run[i].status, age |-> run[i].age] \in Heartbeats
      BY DEF Runs, Heartbeats
    <3>3. latest' \in [Monitors -> Heartbeats]
      BY <2>2, <3>2 DEF RecordHeartbeat
    <3> QED  BY <2>2, <3>1, <3>3 DEF RecordHeartbeat, clock
  <2>4. CASE TakeMutex(i)
    <3>1. ASSUME NEW r \in Runs PROVE [r EXCEPT !.stage = "judging"] \in Runs
      BY DEF Runs, Stages
    <3>2. run' \in [RunIds -> Runs]
      BY <2>4, <3>1 DEF TakeMutex
    <3> QED  BY <2>4, <3>2 DEF TakeMutex, db, clock
  <2>3. CASE JudgeResult(i)
    <3> PICK cert \in CertProbes, domain \in DomainProbes :
          LET r == run[i]
              m == r.mon
              p == [cert |-> cert, domain |-> domain]
          IN /\ st' = [st EXCEPT ![m] = Decide(st[m], r, p)]
             /\ event' = {Verdict(st[m], r, p)}
             /\ \/ expiry' = [expiry EXCEPT ![m] = domain]
                \/ UNCHANGED expiry
      BY <2>3 DEF JudgeResult
    <3> DEFINE r == run[i]
               m == r.mon
               p == [cert |-> cert, domain |-> domain]
    <3>1. r \in Runs /\ m \in Monitors /\ p \in Probes
      BY DEF Runs, Probes
    <3>2. Decide(st[m], r, p) \in MonStates
      BY <3>1, DecideType
    <3>3. Verdict(st[m], r, p) \in Events
      BY <3>1, VerdictType
    <3>4. st' \in [Monitors -> MonStates] /\ event' \in SUBSET Events
      BY <3>1, <3>2, <3>3
    <3>5. expiry' \in [Monitors -> [ok : BOOLEAN, days : Int]]
      OBVIOUS
    <3>6. run' \in [RunIds -> Runs]
      BY <2>3, Defaults DEF JudgeResult
    <3> QED  BY <2>3, <3>4, <3>5, <3>6 DEF JudgeResult, clock
  <2> QED  BY <1>4, <2>1, <2>2, <2>3, <2>4 DEF Work
<1>5. CASE Crash
  BY <1>5, ForgottenType DEF Crash, db
<1>6. CASE Boot
  BY <1>6, Defaults DEF Boot, db, clock
<1>9. ASSUME NEW m \in Monitors, LoadState(m) PROVE TypeOK'
  <2>1. CASE Forgotten("panicked")
    BY <1>9, <2>1, ForgottenType DEF LoadState, db
  <2>2. CASE UNCHANGED <<proc, run, ticker, lag>>
    <3>1. st' \in [Monitors -> MonStates]
      <4>1. Loaded(latest[m]) \in MonStates
        BY LoadedType
      <4>2. CASE st' = [st EXCEPT ![m] = Loaded(latest[m])]
        BY <4>1, <4>2
      <4>3. CASE UNCHANGED st
        BY <4>3
      <4>4. CASE Forgotten("panicked")
        BY <4>4, ForgottenType
      <4> QED  BY <1>9, <4>2, <4>3, <4>4 DEF LoadState
    <3>2. pending' \in [Monitors -> SUBSET Orders]
      BY <1>9, ForgottenType DEF LoadState
    <3> QED  BY <1>9, <2>2, <3>1, <3>2 DEF LoadState, db
  <2> QED  BY <1>9, <2>1, <2>2 DEF LoadState
<1>10. CASE StartTicker
  BY <1>10 DEF StartTicker, db, clock
<1>11. CASE TickFails
  BY <1>11 DEF TickFails, db, process
<1>7. CASE Advance
  <2>1. st' \in [Monitors -> MonStates]
    BY <1>7, OlderType DEF Advance
  <2>2. run' \in [RunIds -> Runs]
    <3>1. ASSUME NEW r \in Runs PROVE [r EXCEPT !.age = Aged(@)] \in Runs
      <4>1. Aged(r.age) \in 0 .. AgeCap
        BY Saturation DEF Runs
      <4> QED  BY <4>1 DEF Runs
    <3> QED  BY <1>7, <3>1 DEF Advance
  <2>3. latest' \in [Monitors -> Heartbeats]
    <3>1. ASSUME NEW h \in Heartbeats PROVE [h EXCEPT !.age = Aged(@)] \in Heartbeats
      <4>1. Aged(h.age) \in 0 .. AgeCap
        BY Saturation DEF Heartbeats
      <4> QED  BY <4>1 DEF Heartbeats
    <3> QED  BY <1>7, <3>1 DEF Advance
  <2>4. lag' \in 0 .. MaxLag
    BY <1>7 DEF Advance
  <2>6. ticker' \in SUBSET [age : 0 .. MaxLag, at : Instants]
    <3>1. \A t \in ticker : Running => Waiting(t) \in [age : 0 .. MaxLag, at : Instants]
      <4>1. \A t \in ticker : t \in [age : 0 .. MaxLag, at : Instants]
        OBVIOUS
      <4>2. Running => \A t \in ticker : t.age < MaxLag
        BY <1>7 DEF Advance
      <4> QED  BY <4>1, <4>2, WaitingType
    <3>2. [age |-> 0, at |-> wall'] \in [age : 0 .. MaxLag, at : Instants]
      BY <1>7, NextInstantType DEF Advance, WallTick
    <3> QED  BY <1>7, <3>1, <3>2 DEF Advance
  <2>5. wall' \in Instants
    BY <1>7, NextInstantType DEF Advance, WallTick
  <2> QED  BY <1>7, <2>1, <2>2, <2>3, <2>4, <2>5, <2>6 DEF Advance
<1>8. CASE UNCHANGED vars
  BY <1>8 DEF vars
<1> QED  BY <1>1, <1>2, <1>3, <1>4, <1>5, <1>6, <1>7, <1>8, <1>9, <1>10, <1>11
         DEF Next, Listing

\* Every reachable state is well formed, for every value of the constants: no
\* counter, age, order or verdict ever leaves its range.
THEOREM TypeCorrect == Spec => []TypeOK
<1>1. Init => TypeOK  BY InitType
<1>2. TypeOK /\ [Next]_vars => TypeOK'  BY StepType
<1> QED  BY <1>1, <1>2, PTL DEF Spec
----------------------------------------------------------------------------
(* The spacing of runs.                                                    *)

Apart(r, q) ==
  \/ r.age >= Capped(q.age + q.cfg.interval)
  \/ q.age >= Capped(r.age + r.cfg.interval)

\* A unit of time does not bring two runs closer.
LEMMA ApartAges ==
  ASSUME NEW a \in 0 .. AgeCap, NEW b \in 0 .. AgeCap, NEW n \in 0 .. AgeCap,
         a >= Capped(b + n)
  PROVE  Aged(a) >= Capped(Aged(b) + n)
BY DEF Aged, Capped

LEMMA SpacingInit == Init => SpacingInv
BY DEF Init, SpacingInv, SlotSpacing, InFlight, Idle

\* Steps that start no run, move no clock, and leave lastRun alone.
LEMMA SpacingKept ==
  ASSUME SpacingInv, proc' = proc,
         \A m \in Monitors : st'[m].sinceRun = st[m].sinceRun,
         \A i \in RunIds : InFlight(i)' => /\ InFlight(i)
                                           /\ run'[i].mon = run[i].mon
                                           /\ run'[i].age = run[i].age
                                           /\ run'[i].cfg = run[i].cfg,
         TypeOK
  PROVE  SpacingInv'
BY DEF SpacingInv, SlotSpacing, Running, InFlight, TypeOK, Runs

LEMMA SpacingStep == TypeOK /\ TypeOK' /\ SpacingInv /\ [Next]_vars => SpacingInv'
<1> SUFFICES ASSUME TypeOK, TypeOK', SpacingInv, [Next]_vars PROVE SpacingInv'
  OBVIOUS
<1>1. ASSUME NEW m \in Monitors, Edit(m) PROVE SpacingInv'
  BY <1>1, SpacingKept DEF Edit, CreateMonitor, UpdateMonitor, SetMonitorActive,
     DeleteMonitor, process, InFlight
<1>2. CASE TickList
  BY <1>2, SpacingKept DEF TickList, InFlight
<1>9. CASE TickFails
  BY <1>9, SpacingKept DEF TickFails, process, InFlight
<1>3. ASSUME NEW m \in Monitors, Tick(m) PROVE SpacingInv'
  <2>1. CASE TickStart(m)
    <3> PICK o \in pending[m], i \in RunIds :
          /\ Due(st[m], o.cfg) /\ ~InFlight(i)
          /\ st' = [st EXCEPT ![m] = Reserve(st[m])]
          /\ run' = [run EXCEPT ![i] = Start(m, o)]
      BY <2>1 DEF TickStart
    <3>1. o \in Orders /\ st[m] \in MonStates
      BY DEF TypeOK
    <3>2. o.cfg.interval \in 0 .. AgeCap /\ st[m].sinceRun \in 0 .. AgeCap
      BY <3>1, LagType DEF Orders, MonStates
    <3>3. /\ run'[i] = Start(m, o)
          /\ \A j \in RunIds \ {i} : run'[j] = run[j]
          /\ st'[m].sinceRun = lag
          /\ \A n \in Monitors \ {m} : st'[n] = st[n]
      <4>1. st'[m] = Reserve(st[m])
        BY DEF TypeOK
      <4>2. Reserve(st[m]).sinceRun = lag
        BY <3>1 DEF Reserve, MonStates
      <4> QED  BY <4>1, <4>2 DEF TypeOK
    <3>4. \A j \in RunIds : run[j] \in Runs /\ run[j].age \in 0 .. AgeCap
      BY DEF TypeOK, Runs
    <3>5. /\ Start(m, o).age = lag /\ Start(m, o).mon = m
          /\ Start(m, o).cfg = o.cfg /\ Start(m, o).stage = "checking"
      BY DEF Start
    <3>9. ASSUME NEW j \in RunIds, InFlight(j), run[j].mon = m
          PROVE  run[j].age >= Capped(lag + o.cfg.interval) /\ run[j].age >= lag
      <4>1. run[j].age >= st[m].sinceRun /\ lag \in 0 .. MaxLag
        BY <3>9 DEF SpacingInv, TypeOK
      <4>2. st[m].sinceRun - lag >= o.cfg.interval
        BY DEF Due
      <4> QED  BY <4>1, <4>2, <3>2, <3>4, LagType DEF Capped
    <3>6. Running' /\ Running
      BY <2>1 DEF TickStart, Running
    <3>7. \A j \in RunIds : InFlight(j)' => run'[j].age >= st'[run'[j].mon].sinceRun
      <4> SUFFICES ASSUME NEW j \in RunIds, InFlight(j)'
                   PROVE  run'[j].age >= st'[run'[j].mon].sinceRun
        OBVIOUS
      <4>1. CASE j = i
        <5>1. lag \in 0 .. MaxLag  BY DEF TypeOK
        <5> QED  BY <5>1, <4>1, <3>3, <3>5
      <4>2. CASE j # i /\ run[j].mon = m
        <5>1. InFlight(j)  BY <4>2, <3>3 DEF InFlight
        <5> QED  BY <5>1, <4>2, <3>3, <3>9
      <4>3. CASE j # i /\ run[j].mon # m
        <5>1. run[j].mon \in Monitors  BY <3>4 DEF Runs
        <5>2. InFlight(j)  BY <4>3, <3>3 DEF InFlight
        <5> QED  BY <4>3, <5>1, <5>2, <3>3 DEF SpacingInv
      <4> QED  BY <4>1, <4>2, <4>3
    <3>8. SlotSpacing'
      <4>1. ASSUME NEW j \in RunIds \ {i}, InFlight(j), run[j].mon = m
            PROVE  run[j].age >= Capped(lag + o.cfg.interval)
        BY <4>1, <3>9
      <4>2. \A j \in RunIds \ {i} : InFlight(j)' = InFlight(j)
        BY <3>3 DEF InFlight
      <4> QED  BY <4>1, <4>2, <3>3, <3>5 DEF SpacingInv, SlotSpacing
    <3> QED  BY <3>6, <3>7, <3>8 DEF SpacingInv
  <2>2. CASE TickSkip(m)
    BY <2>2, SpacingKept DEF TickSkip, InFlight
  <2> QED  BY <1>3, <2>1, <2>2 DEF Tick
<1>4. ASSUME NEW i \in RunIds, Work(i) PROVE SpacingInv'
  <2>1. CASE CheckReturns(i)
    BY <2>1, SpacingKept DEF CheckReturns, InFlight, TypeOK, Runs
  <2>2. CASE RecordHeartbeat(i)
    BY <2>2, SpacingKept DEF RecordHeartbeat, InFlight, TypeOK, Runs
  <2>4. CASE TakeMutex(i)
    BY <2>4, SpacingKept DEF TakeMutex, InFlight, TypeOK, Runs
  <2>3. CASE JudgeResult(i)
    <3>1. PICK p : st' = [st EXCEPT ![run[i].mon] = Decide(st[run[i].mon], run[i], p)]
      BY <2>3 DEF JudgeResult
    <3>2. \A m \in Monitors : st'[m].sinceRun = st[m].sinceRun
      BY <3>1 DEF Decide, TypeOK, MonStates
    <3> QED  BY <2>3, <3>2, SpacingKept DEF JudgeResult, InFlight, TypeOK, Idle
  <2> QED  BY <1>4, <2>1, <2>2, <2>3, <2>4 DEF Work
<1>5. CASE Crash
  BY <1>5 DEF Crash, Forgotten, SpacingInv, SlotSpacing, InFlight, Idle
<1>6. ASSUME ~Running, UNCHANGED run PROVE SpacingInv'
  BY <1>6 DEF SpacingInv, SlotSpacing, InFlight
<1>10. CASE Boot
  BY <1>6, <1>10 DEF Boot, Serving, Running
<1>11. ASSUME NEW m \in Monitors, LoadState(m) PROVE SpacingInv'
  <2>1. CASE Forgotten("panicked")
    BY <2>1 DEF Forgotten, SpacingInv, SlotSpacing, InFlight, Idle
  <2>2. CASE UNCHANGED run
    BY <1>6, <1>11, <2>2 DEF LoadState, Running
  <2> QED  BY <1>11, <2>1, <2>2 DEF LoadState
<1>12. CASE StartTicker
  BY <1>6, <1>12 DEF StartTicker, Running
<1>7. CASE Advance
  <2>1. \A i \in RunIds : /\ InFlight(i)' <=> InFlight(i)
                          /\ InFlight(i) => run'[i] = [run[i] EXCEPT !.age = Aged(@)]
    BY <1>7 DEF Advance, InFlight, TypeOK, Runs
  <2>2. \A i \in RunIds : InFlight(i) => /\ run'[i].age = Aged(run[i].age)
                                         /\ run'[i].mon = run[i].mon
                                         /\ run'[i].cfg = run[i].cfg
    BY <2>1 DEF TypeOK, Runs
  <2>3. \A i \in RunIds : /\ run[i].age \in 0 .. AgeCap
                          /\ run[i].mon \in Monitors
                          /\ run[i].cfg.interval \in 0 .. AgeCap
    BY LagType DEF TypeOK, Runs
  <2>4. \A m \in Monitors : /\ st'[m].sinceRun = Aged(st[m].sinceRun)
                            /\ st[m].sinceRun \in 0 .. AgeCap
    <3>1. ASSUME NEW s \in MonStates
          PROVE  Older(s).sinceRun = Aged(s.sinceRun) /\ s.sinceRun \in 0 .. AgeCap
      BY DEF Older, MonStates
    <3>2. \A m \in Monitors : st[m] \in MonStates /\ st'[m] = Older(st[m])
      BY <1>7 DEF Advance, TypeOK
    <3> QED  BY <3>1, <3>2
  <2>5. ASSUME NEW a \in 0 .. AgeCap, NEW b \in 0 .. AgeCap, a >= b
        PROVE  Aged(a) >= Aged(b)
    BY <2>5 DEF Aged
  <2>6. \A i \in RunIds : InFlight(i)' => run'[i].age >= st'[run'[i].mon].sinceRun
    <3> SUFFICES ASSUME NEW i \in RunIds, InFlight(i)'
                 PROVE  run'[i].age >= st'[run'[i].mon].sinceRun
      OBVIOUS
    <3>1. run[i].age >= st[run[i].mon].sinceRun
      BY <2>1 DEF SpacingInv
    <3>2. Aged(run[i].age) >= Aged(st[run[i].mon].sinceRun)
      BY <3>1, <2>3, <2>4, <2>5
    <3> QED  BY <3>2, <2>1, <2>2, <2>3, <2>4
  <2>7. SlotSpacing'
    <3> SUFFICES ASSUME NEW i \in RunIds, NEW j \in RunIds, i # j,
                        InFlight(i)', InFlight(j)', run'[i].mon = run'[j].mon
                 PROVE  Apart(run'[i], run'[j])
      BY DEF SlotSpacing, Apart, InFlight
    <3>1. Apart(run[i], run[j])
      BY <2>1, <2>2 DEF SpacingInv, SlotSpacing, Apart
    <3>2. CASE run[i].age >= Capped(run[j].age + run[j].cfg.interval)
      <4>1. Aged(run[i].age) >= Capped(Aged(run[j].age) + run[j].cfg.interval)
        BY <3>2, <2>3, ApartAges
      <4> QED  BY <4>1, <2>1, <2>2 DEF Apart
    <3>3. CASE run[j].age >= Capped(run[i].age + run[i].cfg.interval)
      <4>1. Aged(run[j].age) >= Capped(Aged(run[i].age) + run[i].cfg.interval)
        BY <3>3, <2>3, ApartAges
      <4> QED  BY <4>1, <2>1, <2>2 DEF Apart
    <3> QED  BY <3>1, <3>2, <3>3 DEF Apart
  <2>8. Running' <=> Running
    BY <1>7 DEF Advance, Running
  <2> QED  BY <2>1, <2>6, <2>7, <2>8 DEF SpacingInv
<1>8. CASE UNCHANGED vars
  BY <1>8 DEF vars, SpacingInv, SlotSpacing, InFlight, Running
<1> QED  BY <1>1, <1>2, <1>3, <1>4, <1>5, <1>7, <1>8, <1>9, <1>10, <1>11, <1>12
         DEF Next, Listing

\* However its runs and its edits interleave, and however long tick waits for s.mu
\* with an old now, the times of two checks in flight of one monitor are an interval
\* apart: lastRun, read and written under s.mu with the tick's time, reserves the
\* slot.  When the two checks really start is not what it says.
THEOREM Spacing == Spec => []SlotSpacing
<1>1. Init => SpacingInv  BY SpacingInit
<1>2. TypeOK /\ TypeOK' /\ SpacingInv /\ [Next]_vars => SpacingInv'  BY SpacingStep
<1>3. SpacingInv => SlotSpacing  BY DEF SpacingInv
<1> QED  BY <1>1, <1>2, <1>3, TypeCorrect, PTL DEF Spec
----------------------------------------------------------------------------
(* The maintenance window.                                                 *)

\* One minute of the week circle crosses an edge of a window exactly when it
\* arrives at the minute the window opens or at the one it closes.
LEMMA OneMinute ==
  ASSUME NEW w \in Windows, NEW t \in Instants
  PROVE  InMaintenance(w, t) # InMaintenance(w, NextInstant(t))
           <=> /\ w.enabled /\ w.start # w.end
               /\ NextInstant(t) \in {OpensAt(w), ClosesAt(w)}
<1> DEFINE u == NextInstant(t)
<1>1. u \in Instants  BY NextInstantType
<1>2. /\ t.day \in Days /\ t.minute \in Minutes
      /\ w.weekday \in Days /\ w.start \in Minutes /\ w.end \in Minutes
      /\ w.enabled \in BOOLEAN
  BY DEF Instants, Windows
<1>3. \/ /\ t.minute = MinutesPerDay - 1
         /\ u.day = Tomorrow(t.day) /\ u.minute = 0
      \/ /\ t.minute # MinutesPerDay - 1
         /\ u.day = t.day /\ u.minute = t.minute + 1
  BY DEF NextInstant
<1>4. /\ u = OpensAt(w) <=> u.day = w.weekday /\ u.minute = w.start
      /\ u = ClosesAt(w) <=>
           /\ u.day = IF w.start < w.end THEN w.weekday ELSE Tomorrow(w.weekday)
           /\ u.minute = w.end
  BY <1>1 DEF OpensAt, ClosesAt, Instants
<1>5. CASE w.start < w.end
  BY <1>2, <1>3, <1>4, <1>5 DEF InMaintenance, Days, Minutes, Tomorrow
<1>6. CASE w.start > w.end
  BY <1>2, <1>3, <1>4, <1>6 DEF InMaintenance, Days, Minutes, Tomorrow, Yesterday
<1>7. CASE w.start = w.end
  BY <1>2, <1>7 DEF InMaintenance, Minutes
<1> QED  BY <1>2, <1>5, <1>6, <1>7 DEF Minutes

\* For any calendar and any window, InMaintenance is one interval of the week
\* circle: it opens at MaintStart of MaintWeekday, closes at the next MaintEnd,
\* across midnight and across the end of the week too, and at no other minute.
THEOREM WindowIsAnInterval == Spec => WindowEdges
<1>1. ASSUME TypeOK, [Next]_vars
      PROVE  [wall' # wall =>
                \A w \in Windows :
                  InMaintenance(w, wall) # InMaintenance(w, wall')
                    <=> /\ w.enabled /\ w.start # w.end
                        /\ wall' \in {OpensAt(w), ClosesAt(w)}]_wall
  <2>1. wall' = wall \/ wall' = NextInstant(wall)
    BY <1>1 DEF Next, vars, clock, Edit, CreateMonitor, UpdateMonitor, SetMonitorActive,
       DeleteMonitor, Tick, TickStart, TickSkip, TickList, TickFails, Work, CheckReturns,
       RecordHeartbeat, TakeMutex, JudgeResult, Crash, Boot, LoadState, StartTicker,
       Advance, WallTick, Listing
  <2>2. wall \in Instants
    BY <1>1 DEF TypeOK
  <2> QED  BY <2>1, <2>2, OneMinute
<1> QED  BY <1>1, TypeCorrect, PTL DEF Spec, WindowEdges
----------------------------------------------------------------------------
(* The scheduler implements the contract.                                  *)

\* One judged result is one verdict heard.
LEMMA JudgeIsHeard ==
  ASSUME NEW s \in MonStates, NEW r \in Runs, NEW p \in Probes
  PROVE  LET v == Verdict(s, r, p)
             d == Decide(s, r, p)
             before == s.alerted
             after == d.alerted
         IN /\ v.sent \ {"recovery"} \subseteq after
            /\ after \subseteq before \cup (v.sent \ {"recovery"})
            /\ Contract!MessagesJustified(v, before, d.failures, d.slowStreak)
            /\ Contract!EndsJustified(v, before \ after)
            /\ Contract!NothingMissed(v, after, d.failures, d.slowStreak)
<1> DEFINE v == Verdict(s, r, p)
           d == Decide(s, r, p)
           before == s.alerted
           after == d.alerted
<1>1. /\ d.failures = Failures(s, r)
      /\ d.slowStreak = SlowStreak(s, r)
      /\ after = (before \ Rearmed(s, r, p)) \cup Raised(s, r, p)
  BY DEF Decide, MonStates
<1>2. /\ v.status = r.status /\ v.slow = Slow(r) /\ v.maint = r.maint
      /\ v.maxRetries = r.cfg.maxRetries /\ v.slowRetries = r.cfg.slowRetries
      /\ v.far = Far(s, r, p) /\ v.near = Near(s, r, p)
      /\ v.lapsed = (p.cert.ok /\ p.cert.days < 0) /\ v.sent = Sent(s, r, p)
  BY DEF Verdict
<1>3. /\ before \subseteq Kinds /\ r.status \in Statuses /\ r.maint \in BOOLEAN
      /\ Slow(r) \in BOOLEAN /\ (Slow(r) => r.status = "up")
  BY DEF MonStates, Runs, Slow
<1>4. /\ r.cfg.certDays \in Nat /\ r.cfg.domainDays \in Nat
      /\ p.cert \in [ok : BOOLEAN, days : Int] /\ p.domain.days \in Int
      /\ CertDaysLeft(p) = IF p.cert.ok THEN p.cert.days ELSE -1
  BY DEF Runs, ConfigRecords, Probes, CertDaysLeft
<1>5. Far(s, r, p) \cap Failing(s, r, p) = {}
  BY <1>4 DEF Far, Failing
<1>6. Raised(s, r, p) = IF r.maint THEN {} ELSE Failing(s, r, p) \ before
  BY DEF Raised
<1>7. v.sent \ {"recovery"} = Raised(s, r, p)
  BY <1>2 DEF Sent, Raised, Failing, Kinds
<1>8. "recovery" \in v.sent <=> ~r.maint /\ r.status = "up" /\ "down" \in before
  BY <1>2 DEF Sent, Raised, Failing, Kinds, Recovers
<1>9. Contract!MessagesJustified(v, before, d.failures, d.slowStreak)
  <2>1. v.maint => v.sent = {}
    BY <1>2, <1>6 DEF Sent, Recovers
  <2>2. v.sent \cap before = {}
    BY <1>3, <1>6, <1>7 DEF Kinds
  <2>3. "down" \in v.sent => v.status = "down" /\ d.failures >= v.maxRetries
    BY <1>1, <1>2, <1>6, <1>7 DEF Failing
  <2>4. "slow" \in v.sent => v.slow /\ d.slowStreak >= v.slowRetries
    BY <1>1, <1>2, <1>6, <1>7 DEF Failing
  <2>5. v.sent \cap {"cert", "domain"} \subseteq v.near
    <3>1. Failing(s, r, p) \cap {"cert", "domain"} \subseteq Near(s, r, p)
      BY <1>4 DEF Failing, Near
    <3> QED  BY <3>1, <1>2, <1>6, <1>7
  <2> QED  BY <2>1, <2>2, <2>3, <2>4, <2>5, <1>2, <1>8 DEF Contract!MessagesJustified
<1>10. Contract!EndsJustified(v, before \ after)
  <2>1. before \ after \subseteq Rearmed(s, r, p)
    BY <1>1
  <2>2. "down" \in Rearmed(s, r, p) => r.status = "up"
    BY DEF Rearmed, Far
  <2>3. "slow" \in Rearmed(s, r, p) => ~Slow(r) \/ r.maint
    BY DEF Rearmed, Far
  <2>4. Rearmed(s, r, p) \cap {"cert", "domain"} \subseteq Far(s, r, p)
    BY DEF Rearmed
  <2> QED  BY <2>1, <2>2, <2>3, <2>4, <1>2 DEF Contract!EndsJustified
<1>11. Contract!NothingMissed(v, after, d.failures, d.slowStreak)
  <2>1. v.far \cap after = {}
    BY <1>1, <1>2, <1>3, <1>5, <1>6 DEF Rearmed, Far, Kinds
  <2>2. v.status = "up" => "down" \notin after
    BY <1>1, <1>2, <1>6 DEF Rearmed, Failing, Kinds
  <2>3. ~v.slow => "slow" \notin after
    BY <1>1, <1>2, <1>6 DEF Rearmed, Failing, Kinds
  <2>4. ~v.maint /\ v.status = "down" /\ d.failures >= v.maxRetries => "down" \in after
    BY <1>1, <1>2, <1>6 DEF Rearmed, Failing, Kinds, Far
  <2>5. ~v.maint /\ v.slow /\ d.slowStreak >= v.slowRetries => "slow" \in after
    BY <1>1, <1>2, <1>6 DEF Rearmed, Failing, Kinds, Far
  <2>6. ~v.maint => v.near \subseteq after \cup (IF v.lapsed THEN {"cert"} ELSE {})
    <3>1. "domain" \in Near(s, r, p) => "domain" \in Failing(s, r, p)
      BY <1>4 DEF Near, Failing, Kinds
    <3>2. "cert" \in Near(s, r, p) /\ ~v.lapsed => "cert" \in Failing(s, r, p)
      BY <1>2, <1>4 DEF Near, Failing, Kinds
    <3>3. Near(s, r, p) \subseteq {"cert", "domain"}
      BY DEF Near
    <3>4. ~r.maint => (Failing(s, r, p) \cap {"cert", "domain"}) \subseteq after
      BY <1>1, <1>5, <1>6 DEF Rearmed
    <3> QED  BY <3>1, <3>2, <3>3, <3>4, <1>2
  <2> QED  BY <2>1, <2>2, <2>3, <2>4, <2>5, <2>6 DEF Contract!NothingMissed
<1> QED  BY <1>1, <1>6, <1>7, <1>9, <1>10, <1>11

\* Changing one entry of the records in f changes one entry of a projection.
LEMMA OneEntry ==
  ASSUME NEW S, NEW k \in S, NEW f, NEW g, NEW x,
         DOMAIN f = S, f = [n \in DOMAIN f |-> f[n]],
         DOMAIN g = S, g = [n \in DOMAIN g |-> g[n]],
         g[k] = x, \A n \in S \ {k} : g[n] = f[n]
  PROVE  g = [f EXCEPT ![k] = x]
OBVIOUS

----------------------------------------------------------------------------
(* What is known before the first result.                                  *)

LEMMA LoadedFresh ==
  ASSUME NEW h \in Heartbeats
  PROVE  /\ Loaded(h).failures \in {0, 1} /\ Loaded(h).slowStreak = 0
         /\ Loaded(h).alerted = {}
<1>1. PICK n : n = IF h.status = "down" THEN 1 ELSE 0
  OBVIOUS
<1>2. n \in {0, 1}
  BY <1>1
<1>3. Loaded(h) = [ZeroState EXCEPT !.sinceRun = h.age, !.status = h.status,
                                    !.failures = n]
  BY <1>1, Zenon DEF Loaded
<1>4. PICK a, v : a = h.age /\ v = h.status
  OBVIOUS
<1>5. PICK y : y = [ZeroState EXCEPT !.sinceRun = a, !.status = v, !.failures = n]
  OBVIOUS
<1>6. y.failures = n /\ y.slowStreak = 0 /\ y.alerted = {}
  BY <1>5 DEF ZeroState
<1>7. y = Loaded(h)
  BY <1>3, <1>4, <1>5, Zenon
<1> QED  BY <1>2, <1>6, <1>7

LEMMA ZeroFresh ==
  ZeroState.failures \in {0, 1} /\ ZeroState.slowStreak = 0 /\ ZeroState.alerted = {}
BY DEF ZeroState

LEMMA FreshStep == TypeOK /\ FreshInv /\ [Next]_vars => FreshInv'
<1> SUFFICES ASSUME TypeOK, FreshInv, [Next]_vars, ~Running' PROVE FreshInv'
  BY DEF FreshInv
<1>1. ASSUME ~Running,
             \A m \in Monitors : /\ st'[m].failures = st[m].failures
                                 /\ st'[m].slowStreak = st[m].slowStreak
                                 /\ st'[m].alerted = st[m].alerted
      PROVE  FreshInv'
  BY <1>1 DEF FreshInv
<1>2. ASSUME NEW p, Forgotten(p) PROVE FreshInv'
  BY <1>2, ZeroFresh DEF Forgotten, FreshInv
<1>3. ASSUME NEW m \in Monitors, Edit(m) PROVE FreshInv'
  BY <1>1, <1>3 DEF Edit, CreateMonitor, UpdateMonitor, SetMonitorActive,
     DeleteMonitor, process, Running
<1>4. CASE Boot
  BY <1>1, <1>4 DEF Boot, Serving, Running
<1>5. CASE Crash
  BY <1>2, <1>5 DEF Crash
<1>6. ASSUME NEW m \in Monitors, LoadState(m) PROVE FreshInv'
  <2>1. CASE st' = [st EXCEPT ![m] = Loaded(latest[m])]
    <3>1. latest[m] \in Heartbeats  BY DEF TypeOK
    <3>2. ~Running  BY <1>6 DEF LoadState, Running
    <3>3. \A n \in Monitors : st'[n] = IF n = m THEN Loaded(latest[m]) ELSE st[n]
      BY <2>1 DEF TypeOK
    <3> QED  BY <3>1, <3>2, <3>3, LoadedFresh DEF FreshInv
  <2>2. CASE UNCHANGED st
    BY <1>1, <1>6, <2>2 DEF LoadState, Running
  <2> QED  BY <1>2, <1>6, <2>1, <2>2 DEF LoadState
<1>7. CASE Advance
  <2>1. ASSUME NEW z \in MonStates
        PROVE  /\ Older(z).failures = z.failures /\ Older(z).slowStreak = z.slowStreak
               /\ Older(z).alerted = z.alerted
    BY DEF Older, MonStates
  <2>2. \A m \in Monitors : st[m] \in MonStates /\ st'[m] = Older(st[m])
    BY <1>7 DEF Advance, TypeOK
  <2> QED  BY <1>1, <1>7, <2>1, <2>2 DEF Advance, Running
<1>8. CASE UNCHANGED vars
  BY <1>1, <1>8 DEF vars, Running
\* The other steps are of a process that runs on, or begins to.
<1>9. ASSUME NEW m \in Monitors, Tick(m) PROVE FALSE
  BY <1>9 DEF Tick, TickStart, TickSkip, Running
<1>10. ASSUME NEW i \in RunIds, Work(i) PROVE FALSE
  BY <1>10 DEF Work, CheckReturns, RecordHeartbeat, TakeMutex, JudgeResult, Running
<1>11. CASE TickList \/ TickFails \/ StartTicker
  BY <1>11 DEF TickList, TickFails, StartTicker, process, Running
<1> QED  BY <1>3, <1>4, <1>5, <1>6, <1>7, <1>8, <1>9, <1>10, <1>11 DEF Next, Listing

LEMMA Fresh == Spec => []FreshInv
<1>1. Init => FreshInv  BY ZeroFresh DEF Init, FreshInv
<1>2. TypeOK /\ FreshInv /\ [Next]_vars => FreshInv'  BY FreshStep
<1> QED  BY <1>1, <1>2, TypeCorrect, PTL DEF Spec
----------------------------------------------------------------------------
(* The refinement.                                                         *)

\* A step of a process that is not running yet, or no longer, is silence.
LEMMA UnheardStep ==
  ASSUME event' = {}, ~Running, ~Running', FreshInv, FreshInv'
  PROVE  Contract!Next
<1>1. \A m \in Monitors : /\ st'[m].slowStreak = st[m].slowStreak
                          /\ st'[m].alerted = st[m].alerted
  BY DEF FreshInv
<1> QED  BY <1>1 DEF Contract!Next, Contract!Silence, Running

\* A step that neither judges a result nor changes a monState is silence.
LEMMA SilentStep ==
  ASSUME event' = {}, proc' = proc, TypeOK, TypeOK',
         \A m \in Monitors : /\ st'[m].failures = st[m].failures
                             /\ st'[m].slowStreak = st[m].slowStreak
                             /\ st'[m].alerted = st[m].alerted
  PROVE  Contract!Next
BY DEF Contract!Next, Contract!Silence, Running

LEMMA ContractStep ==
  TypeOK /\ TypeOK' /\ FreshInv /\ FreshInv' /\ [Next]_vars
    => [Contract!Next]_(Contract!contractVars)
<1> SUFFICES ASSUME TypeOK, TypeOK', FreshInv, FreshInv', [Next]_vars
             PROVE  Contract!Next \/ UNCHANGED Contract!contractVars
  OBVIOUS
<1>1. ASSUME NEW m \in Monitors, Edit(m) PROVE Contract!Next
  BY <1>1, SilentStep DEF Edit, CreateMonitor, UpdateMonitor, SetMonitorActive,
     DeleteMonitor, process
<1>2. CASE TickList
  BY <1>2, SilentStep DEF TickList
<1>9. CASE TickFails
  BY <1>9, SilentStep DEF TickFails, process
<1>3. ASSUME NEW m \in Monitors, Tick(m) PROVE Contract!Next
  <2>1. CASE TickStart(m)
    <3>1. st' = [st EXCEPT ![m] = Reserve(st[m])]
      BY <2>1 DEF TickStart
    <3>2. \A n \in Monitors : /\ st'[n].failures = st[n].failures
                              /\ st'[n].slowStreak = st[n].slowStreak
                              /\ st'[n].alerted = st[n].alerted
      BY <3>1 DEF Reserve, TypeOK, MonStates
    <3> QED  BY <2>1, <3>2, SilentStep DEF TickStart
  <2>2. CASE TickSkip(m)
    BY <2>2, SilentStep DEF TickSkip
  <2> QED  BY <1>3, <2>1, <2>2 DEF Tick
<1>4. ASSUME NEW i \in RunIds, Work(i) PROVE Contract!Next
  <2>1. CASE CheckReturns(i)
    BY <2>1, SilentStep DEF CheckReturns
  <2>2. CASE RecordHeartbeat(i)
    BY <2>2, SilentStep DEF RecordHeartbeat
  <2>4. CASE TakeMutex(i)
    BY <2>4, SilentStep DEF TakeMutex
  <2>3. CASE JudgeResult(i)
    <3> DEFINE r == run[i]
               m == r.mon
    <3> PICK p \in Probes : /\ st' = [st EXCEPT ![m] = Decide(st[m], r, p)]
                            /\ event' = {Verdict(st[m], r, p)}
      BY <2>3 DEF JudgeResult, Probes
    <3> DEFINE s == st[m]
    <3>1. r \in Runs /\ m \in Monitors /\ s \in MonStates
      BY DEF TypeOK, Runs
    <3> PICK v : v = Verdict(s, r, p)
      OBVIOUS
    <3> PICK d : d = Decide(s, r, p)
      OBVIOUS
    <3>2. st'[m] = d /\ \A n \in Monitors \ {m} : st'[n] = st[n]
      BY <3>1 DEF TypeOK
    <3>3. v.mon = m /\ v.status = r.status /\ v.slow = Slow(r)
      BY DEF Verdict
    <3>4. /\ d.failures = IF v.status = "up" THEN 0 ELSE Contract!Longer(s.failures)
          /\ d.slowStreak = IF v.slow THEN Contract!Longer(s.slowStreak) ELSE 0
      BY <3>1, <3>3 DEF Decide, MonStates, Failures, SlowStreak, Contract!Longer, Counted
    <3>5. Running /\ Running'
      BY <2>3 DEF JudgeResult, Running
    <3>6. event' = {v}
      OBVIOUS
    <3>7. /\ v.sent \ {"recovery"} \subseteq d.alerted
          /\ d.alerted \subseteq s.alerted \cup (v.sent \ {"recovery"})
          /\ Contract!MessagesJustified(v, s.alerted, d.failures, d.slowStreak)
          /\ Contract!EndsJustified(v, s.alerted \ d.alerted)
          /\ Contract!NothingMissed(v, d.alerted, d.failures, d.slowStreak)
      BY <3>1, JudgeIsHeard
    <3>8. [n \in Monitors |-> IF Running' THEN st'[n].failures ELSE 0]
            = [[n \in Monitors |-> IF Running THEN st[n].failures ELSE 0]
                 EXCEPT ![m] = d.failures]
      <4> DEFINE f == [n \in Monitors |-> IF Running THEN st[n].failures ELSE 0]
                 g == [n \in Monitors |-> IF Running' THEN st'[n].failures ELSE 0]
      <4>1. /\ DOMAIN f = Monitors /\ f = [n \in DOMAIN f |-> f[n]]
            /\ DOMAIN g = Monitors /\ g = [n \in DOMAIN g |-> g[n]]
        OBVIOUS
      <4>2. g[m] = d.failures /\ \A n \in Monitors \ {m} : g[n] = f[n]
        BY <3>1, <3>2, <3>5
      <4> HIDE DEF f, g
      <4>3. g = [f EXCEPT ![m] = d.failures]
        BY <3>1, <4>1, <4>2, OneEntry
      <4> QED  BY <4>3 DEF f, g
    <3>9. [n \in Monitors |-> st'[n].slowStreak]
            = [[n \in Monitors |-> st[n].slowStreak] EXCEPT ![m] = d.slowStreak]
      <4> DEFINE f == [n \in Monitors |-> st[n].slowStreak]
                 g == [n \in Monitors |-> st'[n].slowStreak]
      <4>1. /\ DOMAIN f = Monitors /\ f = [n \in DOMAIN f |-> f[n]]
            /\ DOMAIN g = Monitors /\ g = [n \in DOMAIN g |-> g[n]]
        OBVIOUS
      <4>2. g[m] = d.slowStreak /\ \A n \in Monitors \ {m} : g[n] = f[n]
        BY <3>1, <3>2
      <4> HIDE DEF f, g
      <4>3. g = [f EXCEPT ![m] = d.slowStreak]
        BY <3>1, <4>1, <4>2, OneEntry
      <4> QED  BY <4>3 DEF f, g
    <3>10. [n \in Monitors |-> st'[n].alerted]
            = [[n \in Monitors |-> st[n].alerted] EXCEPT ![m] = d.alerted]
      <4> DEFINE f == [n \in Monitors |-> st[n].alerted]
                 g == [n \in Monitors |-> st'[n].alerted]
      <4>1. /\ DOMAIN f = Monitors /\ f = [n \in DOMAIN f |-> f[n]]
            /\ DOMAIN g = Monitors /\ g = [n \in DOMAIN g |-> g[n]]
        OBVIOUS
      <4>2. g[m] = d.alerted /\ \A n \in Monitors \ {m} : g[n] = f[n]
        BY <3>1, <3>2
      <4> HIDE DEF f, g
      <4>3. g = [f EXCEPT ![m] = d.alerted]
        BY <3>1, <4>1, <4>2, OneEntry
      <4> QED  BY <4>3 DEF f, g
    <3>11. Contract!Hear(v)
      BY <3>1, <3>2, <3>3, <3>4, <3>5, <3>6, <3>7, <3>8, <3>9, <3>10 DEF Contract!Hear
    <3> QED  BY <3>6, <3>11 DEF Contract!Next
  <2> QED  BY <1>4, <2>1, <2>2, <2>3, <2>4 DEF Work
<1>5. CASE Crash
  <2>1. CASE Running
    BY <1>5, <2>1 DEF Crash, Forgotten, Contract!Next, Contract!Restart, Running, ZeroState
  <2>2. CASE ~Running
    BY <1>5, <2>2, UnheardStep DEF Crash, Forgotten, Running
  <2> QED  BY <2>1, <2>2
<1>6. CASE Boot
  BY <1>6, UnheardStep DEF Boot, Serving, Running
<1>10. ASSUME NEW m \in Monitors, LoadState(m) PROVE Contract!Next
  BY <1>10, UnheardStep DEF LoadState, Forgotten, Running
<1>11. CASE StartTicker
  <2>1. ~Running /\ Running' /\ st' = st /\ event' = {}
    BY <1>11 DEF StartTicker, Running
  <2> QED  BY <2>1 DEF FreshInv, Contract!Next, Contract!Restart
<1>7. CASE Advance
  <2>1. \A m \in Monitors : /\ st'[m].failures = st[m].failures
                            /\ st'[m].slowStreak = st[m].slowStreak
                            /\ st'[m].alerted = st[m].alerted
    <3>1. ASSUME NEW s \in MonStates
          PROVE  /\ Older(s).failures = s.failures /\ Older(s).slowStreak = s.slowStreak
                 /\ Older(s).alerted = s.alerted
      BY DEF Older, MonStates
    <3>2. \A m \in Monitors : st[m] \in MonStates /\ st'[m] = Older(st[m])
      BY <1>7 DEF Advance, TypeOK
    <3> QED  BY <3>1, <3>2
  <2> QED  BY <1>7, <2>1, SilentStep DEF Advance
<1>8. CASE UNCHANGED vars
  BY <1>8 DEF vars, Contract!contractVars, Running
<1> QED  BY <1>1, <1>2, <1>3, <1>4, <1>5, <1>6, <1>7, <1>8, <1>9, <1>10, <1>11
         DEF Next, Listing

\* The scheduler, with any number of overlapping runs, alerts as the contract
\* says: the section under s.mu makes every monitor's results one sequence of
\* verdicts, and the messages are those that sequence calls for.
THEOREM Refinement == Spec => ImplementsContract
<1>1. Init => Contract!Init
  BY DEF Init, Contract!Init, Running, ZeroState
<1>2. TypeOK /\ TypeOK' /\ FreshInv /\ FreshInv' /\ [Next]_vars
        => [Contract!Next]_(Contract!contractVars)
  BY ContractStep
<1> QED  BY <1>1, <1>2, TypeCorrect, Fresh, PTL DEF Spec, ImplementsContract, Contract!Spec
----------------------------------------------------------------------------
LEMMA QuietStep ==
  ASSUME TypeOK, Next, NEW m \in Monitors, Quiet(m)
  PROVE  \/ phase'[m] = "active"
         \/ Quiet(m)' /\ \A v \in event' : v.mon # m
<1> USE DEF Quiet
\* Steps that hear nothing, list nothing and put no run of m in flight.
<1>1. ASSUME phase'[m] # "active", pending'[m] = {}, event' = {},
             \A i \in RunIds : InFlight(i)' => InFlight(i) /\ run'[i].mon = run[i].mon
      PROVE  Quiet(m)' /\ \A v \in event' : v.mon # m
  BY <1>1
<1>2. ASSUME NEW n \in Monitors, Edit(n), phase'[m] # "active"
      PROVE  Quiet(m)' /\ \A v \in event' : v.mon # m
  BY <1>1, <1>2 DEF Edit, CreateMonitor, UpdateMonitor, SetMonitorActive,
     DeleteMonitor, process, InFlight
<1>3. CASE TickList
  BY <1>1, <1>3 DEF TickList, Listed, db, InFlight
<1>9. CASE TickFails
  BY <1>1, <1>9 DEF TickFails, process, db, InFlight
<1>4. ASSUME NEW n \in Monitors, Tick(n)
      PROVE  Quiet(m)' /\ \A v \in event' : v.mon # m
  <2>1. CASE TickStart(n)
    <3> PICK o \in pending[n], i \in RunIds : run' = [run EXCEPT ![i] = Start(n, o)]
      BY <2>1 DEF TickStart
    <3>1. n # m
      OBVIOUS
    <3>2. run'[i].mon = n /\ \A j \in RunIds \ {i} : run'[j] = run[j]
      BY DEF Start, TypeOK
    <3>3. \A j \in RunIds : InFlight(j)' => run'[j].mon # m
      BY <3>1, <3>2 DEF InFlight
    <3>4. phase'[m] # "active" /\ pending'[m] = {} /\ event' = {}
      BY <2>1, <3>1 DEF TickStart, db, TypeOK
    <3> QED  BY <3>3, <3>4
  <2>2. CASE TickSkip(n)
    BY <1>1, <2>2 DEF TickSkip, db, InFlight, TypeOK
  <2> QED  BY <1>4, <2>1, <2>2 DEF Tick
<1>5. ASSUME NEW i \in RunIds, Work(i)
      PROVE  Quiet(m)' /\ \A v \in event' : v.mon # m
  <2>1. CASE CheckReturns(i)
    BY <1>1, <2>1 DEF CheckReturns, db, InFlight, TypeOK, Runs
  <2>2. CASE RecordHeartbeat(i)
    BY <1>1, <2>2 DEF RecordHeartbeat, InFlight, TypeOK, Runs
  <2>4. CASE TakeMutex(i)
    BY <1>1, <2>4 DEF TakeMutex, db, InFlight, TypeOK, Runs
  <2>3. CASE JudgeResult(i)
    <3>1. InFlight(i)
      BY <2>3 DEF JudgeResult, InFlight
    <3>2. PICK s, p : event' = {Verdict(s, run[i], p)}
      BY <2>3 DEF JudgeResult
    <3>3. \A v \in event' : v.mon # m
      BY <3>1, <3>2 DEF Verdict
    <3>4. \A j \in RunIds : InFlight(j)' => InFlight(j) /\ run'[j].mon = run[j].mon
      BY <2>3 DEF JudgeResult, InFlight, Idle, TypeOK
    <3> QED  BY <2>3, <3>3, <3>4 DEF JudgeResult
  <2> QED  BY <1>5, <2>1, <2>2, <2>3, <2>4 DEF Work
<1>6. ASSUME NEW p, Forgotten(p), event' = {}, UNCHANGED db
      PROVE  Quiet(m)' /\ \A v \in event' : v.mon # m
  BY <1>1, <1>6 DEF Forgotten, db, InFlight, Idle
<1>7. CASE Boot
  BY <1>1, <1>7 DEF Boot, Listed, db, InFlight
<1>10. CASE Crash
  BY <1>6, <1>10 DEF Crash
<1>11. ASSUME NEW n \in Monitors, LoadState(n)
       PROVE  Quiet(m)' /\ \A v \in event' : v.mon # m
  <2>1. CASE UNCHANGED run /\ pending' = [pending EXCEPT ![n] = {}]
    BY <1>1, <1>11, <2>1 DEF LoadState, db, InFlight, TypeOK
  <2>2. CASE Forgotten("panicked")
    BY <1>6, <1>11, <2>2 DEF LoadState
  <2> QED  BY <1>11, <2>1, <2>2 DEF LoadState
<1>12. CASE StartTicker
  BY <1>1, <1>12 DEF StartTicker, db, InFlight
<1>8. CASE Advance
  BY <1>1, <1>8 DEF Advance, InFlight, TypeOK, Runs
<1> QED  BY <1>2, <1>3, <1>4, <1>5, <1>7, <1>8, <1>9, <1>10, <1>11, <1>12
         DEF Next, Listing

\* Nothing happens about a monitor that is paused or deleted, once what was under
\* way for it is over, until it is resumed.
THEOREM Quietness == Spec => QuietStaysQuiet
<1>1. TypeOK /\ [Next]_vars =>
        [\A m \in Monitors : Quiet(m) =>
           \/ phase'[m] = "active"
           \/ /\ Quiet(m)'
              /\ \A v \in event' : v.mon # m]_vars
  BY QuietStep
<1> QED  BY <1>1, TypeCorrect, PTL DEF Spec, QuietStaysQuiet
=============================================================================
