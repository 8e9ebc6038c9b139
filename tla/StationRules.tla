---------------------------- MODULE StationRules ----------------------------
(***************************************************************************)
(* What a session transition does to the shared resource, and the          *)
(* predicates every target state of the product must satisfy               *)
(* (afco/station/composite.py and invariants.py).  The product over        *)
(* identified vehicles (Station) and the product over the multiset of      *)
(* session states (StationProduct) both compose these rules with the       *)
(* session automaton.                                                      *)
(***************************************************************************)
EXTENDS Resource, SessionDFA

\* The kinds of edges _resource_transition tells apart, in its order.
Coupling   == {t \in Transitions : t[3] = "CABLE_DETECTED" /\ t[1] # "CABLE_DETECTED"}
Decoupling == {t \in Transitions \ Coupling :
                 t[2] = "unplug" \/ (t[3] = "UNPLUGGED" /\ t[1] # "UNPLUGGED")}
Starting   == {t \in Transitions : t[2] = "power_start"}
Stopping   == {t \in Transitions : \/ t[2] \in {"power_stop", "power_ramp_down"}
                                   \/ t[2] = "ev_stop" /\ t[3] = "SUSPENDED_EV"}
Curtailing == {t \in Transitions : t[2] = "grid_curtail"}
Local      == Transitions \ (Coupling \cup Decoupling \cup Starting
                               \cup Stopping \cup Curtailing)

\* Mutants of ResourceTransition: a coupling that books nothing, a start that
\* skips the resource, a stop that keeps the booking.
CoupleForFree(t) ==
  \/ t \in Decoupling /\ Disconnect(0)
  \/ t \in Starting   /\ PowerStart(StartTier)
  \/ t \in Stopping   /\ PowerStop(power)
  \/ t \in Curtailing /\ GridCurtail
  \/ t \in Local \cup Coupling /\ UNCHANGED resourceVars

KeepPowerOnStop(t) ==
  \/ t \in Coupling   /\ Connect
  \/ t \in Decoupling /\ Disconnect(0)
  \/ t \in Starting   /\ PowerStart(StartTier)
  \/ t \in Curtailing /\ GridCurtail
  \/ t \in Local \cup Stopping /\ UNCHANGED resourceVars

\* A power_start books the second tier.  A power_stop, a ramp-down or an
\* ev_stop releases the power booked for the whole station, not one session's.
ResourceTransition(t) ==
  \/ t \in Coupling   /\ Connect
  \/ t \in Decoupling /\ Disconnect(0)
  \/ t \in Starting   /\ PowerStart(StartTier)
  \/ t \in Stopping   /\ PowerStop(power)
  \/ t \in Curtailing /\ GridCurtail
  \/ t \in Local      /\ UNCHANGED resourceVars

I1 == occupied \in 0..Connectors
I2 == power \in 0..Limit(grid)
I3 == power = 0 \/ occupied > 0
I4 == grid \in GridModes

\* check_invariants, evaluated on the target of a transition (I5 says that
\* session states are strings).
StationInvariants == I1 /\ I2 /\ I3 /\ I4
=============================================================================
