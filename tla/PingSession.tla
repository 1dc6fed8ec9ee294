----------------------------- MODULE PingSession -----------------------------
(***************************************************************************)
(* The ping tool on one WebSocket (internal/server/ws_ping.go,             *)
(* internal/ping/ping.go): the handler reads start and stop messages, and  *)
(* every start runs a session in a goroutine of its own, which pings,      *)
(* sends each result, and sends a summary at the end if no newer session   *)
(* has been started by then.                                               *)
(*                                                                         *)
(* What a ping measures is left out: it ends, with an error when its       *)
(* session is cancelled, and a result may be fatal.  A message that is     *)
(* refused by parsePingConfig changes nothing.                             *)
(***************************************************************************)
EXTENDS Integers

CONSTANTS
  MaxRuns,   \* sessions started on the socket: a bound of the model
  MaxCount   \* packets asked for by a start: a bound of the model

ASSUME PingAssumption == MaxRuns \in Nat /\ MaxCount \in Nat

VARIABLES
  reader,    \* handlePingWS: "open", then "closed"
  sessID,
  cancel,    \* the session the cancel function belongs to, 0: nil
  run        \* session -> its goroutine

pingVars == <<reader, sessID, cancel, run>>

Runs    == 1 .. MaxRuns
Endless == -1     \* Count 0
\* left: packets to go; overtaken, auxiliary: a newer session was started before
\* its check.
NoRun == [stage |-> "none", left |-> 0, cancelled |-> FALSE, overtaken |-> FALSE]
RunStates ==
  [stage : {"none", "top", "ping", "send", "wait", "ended", "summing", "over"},
   left : Endless .. MaxCount, cancelled : BOOLEAN, overtaken : BOOLEAN]

PingInit ==
  /\ reader = "open"
  /\ sessID = 0
  /\ cancel = 0
  /\ run = [i \in Runs |-> NoRun]
-----------------------------------------------------------------------------
\* Mutant: the session before goes on.
CancelledOnStart(i) == FALSE

\* start calls cancel, unless a stop has done it.
Cancelled(i) == i = cancel

Start ==
  /\ reader = "open" /\ sessID < MaxRuns
  /\ sessID' = sessID + 1
  /\ cancel' = sessID + 1
  /\ \E count \in {Endless} \cup 1 .. MaxCount :
       run' = [i \in Runs |->
                 IF i = sessID + 1 THEN [NoRun EXCEPT !.stage = "top", !.left = count]
                 ELSE [run[i] EXCEPT !.cancelled = @ \/ Cancelled(i),
                         !.overtaken = @ \/ run[i].stage \notin {"none", "summing", "over"}]]
  /\ UNCHANGED reader

\* Mutant: the function is kept, but nil is what a second start looks at.
StopForgets ==
  /\ reader = "open" /\ cancel # 0
  /\ cancel' = 0
  /\ UNCHANGED <<reader, sessID, run>>

Stop ==
  /\ reader = "open" /\ cancel # 0
  /\ run' = [run EXCEPT ![cancel].cancelled = TRUE]
  /\ cancel' = 0
  /\ UNCHANGED <<reader, sessID>>

\* ReadJSON fails: the handler returns and closes the socket.  The session is
\* not cancelled; what it sends from now on is lost.
Disconnect ==
  /\ reader = "open"
  /\ reader' = "closed"
  /\ UNCHANGED <<sessID, cancel, run>>
-----------------------------------------------------------------------------
Goes(i, from, to) ==
  /\ run[i].stage = from
  /\ run' = [run EXCEPT ![i].stage = to]
  /\ UNCHANGED <<reader, sessID, cancel>>

\* Run: the head of the loop.
NextPacket(i) ==
  \/ run[i].left = 0 /\ Goes(i, "top", "ended")
  \/ run[i].left # 0 /\ Goes(i, "top", "ping")

PingEnds(i) == Goes(i, "ping", "send")

\* The result is sent; a fatal one ends the session.
SendResult(i) ==
  /\ run[i].stage = "send"
  /\ \E next \in {"ended", "wait"} :
       run' = [run EXCEPT ![i].stage = next,
                 ![i].left = IF @ = Endless THEN @ ELSE @ - 1]
  /\ UNCHANGED <<reader, sessID, cancel>>

\* The two cases of the select.  The interval may be over when the context is
\* done, and Go then takes either.
WaitCancelled(i) == run[i].cancelled /\ Goes(i, "wait", "ended")
WaitElapsed(i)   == Goes(i, "wait", "top")

\* Mutant: every session sends its summary.
CurrentAlways(i) == TRUE

Current(i) == i = sessID

\* The check is made under runMu, the summary is sent after the unlock.
CheckCurrent(i) ==
  \/ Current(i) /\ Goes(i, "ended", "summing")
  \/ ~Current(i) /\ Goes(i, "ended", "over")

SendSummary(i) == Goes(i, "summing", "over")

RunStep(i) ==
  \/ NextPacket(i) \/ PingEnds(i) \/ SendResult(i)
  \/ WaitCancelled(i) \/ WaitElapsed(i) \/ CheckCurrent(i) \/ SendSummary(i)

PingNext ==
  \/ Start \/ Stop \/ Disconnect
  \/ \E i \in Runs : RunStep(i)

\* Goroutines run, pings time out, timers fire, and a write ends.  Go chooses at
\* random between the ready cases of a select, so none is passed over for ever.
PingFairness ==
  \A i \in Runs : WF_pingVars(RunStep(i)) /\ SF_pingVars(WaitCancelled(i))

PingSpec == PingInit /\ [][PingNext]_pingVars /\ PingFairness
-----------------------------------------------------------------------------
\* Types; the cancel function is that of the newest session, and every older one
\* has been cancelled: no goroutine is out of reach while the socket is open.
PingTypeOK ==
  /\ reader \in {"open", "closed"}
  /\ sessID \in 0 .. MaxRuns
  /\ cancel \in {0, sessID}
  /\ run \in [Runs -> RunStates]
  /\ \A i \in 1 .. sessID : cancel # i => run[i].cancelled

\* A session that was still going when a newer one was started sends no summary
\* (ws_ping.go: only the most recent one does).  One that had already passed
\* the check may still send its own after the start.
OvertakenAreSilent == \A i \in Runs : run[i].overtaken => run[i].stage # "summing"

\* A session that was stopped, followed by another or given a count ends, however
\* often its timer wins the select; an endless one that loses its socket does not
\* (Disconnect cancels nothing).
RunsEnd ==
  <>[](\A i \in 1 .. sessID : cancel # i \/ run[i].left # Endless => run[i].stage = "over")
=============================================================================
