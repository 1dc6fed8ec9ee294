----------------------------- MODULE Documented -----------------------------
(***************************************************************************)
(* What the documentation and the comments say of the scheduler, stated of *)
(* its model.  The history variable outlives the restarts: the monitors a  *)
(* down alert was sent for with no up result judged since.                 *)
(***************************************************************************)
EXTENDS Scheduler

VARIABLE reported

historyVars == <<vars, reported>>

HistoryInit == Init /\ reported = {}

HistoryNext ==
  /\ Next
  /\ reported' = (reported \cup {v.mon : v \in {w \in event' : "down" \in w.sent}})
                   \ {v.mon : v \in {w \in event' : w.status = "up"}}

HistorySpec == HistoryInit /\ [][HistoryNext]_historyVars

\* scheduler.go:98-99: the state is loaded "para no alertar en falso al
\* reiniciar un monitor que ya estaba caído".  An outage that was announced is
\* not announced again until the monitor has been up.
NoFalseAlertAfterRestart ==
  [][\A v \in event' : "down" \in v.sent => v.mon \notin reported]_historyVars

\* heartbeats.go:34 says LatestHeartbeat returns "el último heartbeat de un
\* monitor, o nil", and scheduler.go:40 gives the empty status the meaning "sin
\* historial": a monitor without history is a state to start from.
StartSurvivesEmptyHistory == proc # "panicked"

\* README.md:327-328, monitors.go:125-126: a paused monitor "no se comprueba ni
\* alerta": an alert is only sent for a monitor that is active when it is sent.
PausedNeverAlerts ==
  \A v \in event : v.sent # {} => phase[v.mon] = "active"
=============================================================================
