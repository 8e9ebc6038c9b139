-------------------------- MODULE MonitoredSession --------------------------
(***************************************************************************)
(* The synchronous product of the session automaton with the property      *)
(* monitors (afco/automata/product.py as verify/checker.py uses it): a     *)
(* session takes an edge of delta_S and every monitor reads its symbol.    *)
(* check_safety calls a property safe when no reachable product state is   *)
(* accepting in both automata.                                             *)
(***************************************************************************)
EXTENDS SessionDFA, SafetyMonitors

VARIABLES
  state,         \* the component in Q_S
  p1, p2, p3, p5 \* the components in the monitors' states

monitoredVars == <<state, p1, p2, p3, p5>>

MonitoredInit ==
  /\ state = StartState
  /\ p1 = "p1_q0"
  /\ p2 = "p2_idle"
  /\ p3 = "p3_init"
  /\ p5 = "p5_normal"

\* Both components synchronise on the symbol of the edge; the monitors are
\* total, so only delta_S restricts the product.
MonitoredStep(t) ==
  /\ state = t[1]
  /\ state' = t[3]
  /\ p1' = P1Next(p1, t[2])
  /\ p2' = P2Next(p2, t[2])
  /\ p3' = P3Next(p3, t[2])
  /\ p5' = P5Next(p5, t[2])

MonitoredNext == \E t \in Transitions : MonitoredStep(t)

MonitoredSpec == MonitoredInit /\ [][MonitoredNext]_monitoredVars

-----------------------------------------------------------------------------
MonitoredTypeOK ==
  /\ state \in States
  /\ p1 \in P1States
  /\ p2 \in P2States
  /\ p3 \in P3States
  /\ p5 \in P5States

\* P2 on every run, not only on those that end in COMPLETED as check_safety
\* asks: the lock is never released between a power_start and the stop of the
\* power, however the session pauses, suspends or resumes in between.
NoLiveDisconnect == p2 # "p2_bad"

\* P5 on every run: an emergency stop is followed by nothing but isolation.
EmergencyIsolates == p5 # "p5_bad"

\* A session that is COMPLETED has paid since its last power_stop, whatever
\* lifecycles it went through before (the half of P3 about COMPLETED).
CompletedIsSettled == state = "COMPLETED" => p3 # "p3_post_stop"
=============================================================================
