--------------------------- MODULE SafetyMonitors ---------------------------
(***************************************************************************)
(* The forbidden-language automata M_U of afco/verify/properties.py: each  *)
(* reads the symbols of a session and enters an absorbing bad state when   *)
(* the trace has violated its property.  P4 is a placeholder with one      *)
(* state and an empty language, so it has no monitor here.                 *)
(***************************************************************************)

\* P1, no unmetered energy: power_start before any auth_ok is bad.
P1Next(m, a) ==
  CASE m = "p1_q0" /\ a = "auth_ok"     -> "p1_auth"
    [] m = "p1_q0" /\ a = "power_start" -> "p1_bad"
    [] OTHER                            -> m

PowerOffSymbols == {"power_stop", "contactors_open", "power_ramp_down"}
UnlockSymbols   == {"unlock_ok", "unlock_req"}

\* P2, no live disconnect: an unlock while powered is bad.
P2Next(m, a) ==
  CASE m = "p2_idle" /\ a = "power_start"        -> "p2_powered"
    [] m = "p2_powered" /\ a \in PowerOffSymbols -> "p2_idle"
    [] m = "p2_powered" /\ a \in UnlockSymbols   -> "p2_bad"
    [] OTHER                                     -> m

\* P3, no unsettled departure: session_close between a power_stop and the next
\* pay_ok is bad.
P3Next(m, a) ==
  CASE m \in {"p3_init", "p3_settled"} /\ a = "power_stop" -> "p3_post_stop"
    [] m = "p3_post_stop" /\ a = "pay_ok"                  -> "p3_settled"
    [] m = "p3_post_stop" /\ a = "session_close"           -> "p3_bad"
    [] OTHER                                               -> m

IsolationSymbols == {"contactors_open", "overcurrent_trip", "cable_fault",
                     "pilot_lost", "lock_fail"}

\* P5, emergency isolation: anything but an isolation after e_stop is bad.
P5Next(m, a) ==
  CASE m = "p5_normal" /\ a = "e_stop"                -> "p5_post_estop"
    [] m = "p5_post_estop" /\ a \in IsolationSymbols  -> "p5_normal"
    [] m = "p5_post_estop" /\ a \notin IsolationSymbols \cup {"e_stop"}
                                                      -> "p5_bad"
    [] OTHER                                          -> m

P1States == {"p1_q0", "p1_auth", "p1_bad"}
P2States == {"p2_idle", "p2_powered", "p2_bad"}
P3States == {"p3_init", "p3_post_stop", "p3_settled", "p3_bad"}
P5States == {"p5_normal", "p5_post_estop", "p5_bad"}
=============================================================================
