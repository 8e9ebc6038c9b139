------------------------------- MODULE Station -------------------------------
(***************************************************************************)
(* A station whose vehicles keep their identity: the product M_S^N x R     *)
(* before the symmetry reduction of composite.py.  A step is one session   *)
(* transition, the resource event it implies, and the invariants checked   *)
(* on the target; if the resource refuses the event or an invariant would  *)
(* fail, the transition is not a successor.                                *)
(***************************************************************************)
EXTENDS StationRules

CONSTANT Vehicles

ASSUME VehiclesAssumption == IsFiniteSet(Vehicles)

VARIABLE session \* the lifecycle state of each vehicle's session

vars == <<session, occupied, power, grid>>

Init ==
  /\ session = [v \in Vehicles |-> StartState]
  /\ ResourceInit

\* Mutants of Step: the session moves although the resource was never asked;
\* the edge's symbol is stored where its target belongs.
StepWithoutResource(v, t) ==
  /\ session[v] = t[1]
  /\ session' = [session EXCEPT ![v] = t[3]]
  /\ UNCHANGED resourceVars

StepStoresSymbol(v, t) ==
  /\ session[v] = t[1]
  /\ session' = [session EXCEPT ![v] = t[2]]
  /\ ResourceTransition(t)
  /\ StationInvariants'

Move(v, t) ==
  /\ session[v] = t[1]
  /\ session' = [session EXCEPT ![v] = t[3]]

Step(v, t) == Move(v, t) /\ ResourceTransition(t) /\ StationInvariants'

Next == \E v \in Vehicles, t \in Transitions : Step(v, t)

Spec == Init /\ [][Next]_vars

-----------------------------------------------------------------------------
TypeOK ==
  /\ session \in [Vehicles -> States]
  /\ ResourceTypeOK

\* States in which a cable hangs on the vehicle, and those in which a session
\* may have power booked and can release it: each admits power_stop.
PluggedStates == {"CABLE_DETECTED", "EV_CONNECTED", "PRECHARGE", "CHARGING",
                  "PAUSED_DISPATCH", "SUSPENDED_EV", "SUSPENDED_EVSE",
                  "RAMP_DOWN", "ISOLATING", "UNLOCKED", "FAULT_TERMINAL"}
HoldingStates == {"CHARGING", "PAUSED_DISPATCH", "SUSPENDED_EVSE"}

Plugged == {v \in Vehicles : session[v] \in PluggedStates}
Tripped == {v \in Vehicles : session[v] = "FAULT_TERMINAL"}
Charging == {v \in Vehicles : session[v] = "CHARGING"}

\* I1 as plan.md means it: a connector is never promised to two cables.  The
\* station books at least one connector per plugged vehicle, so no more
\* vehicles are plugged in than there are connectors (composite.py books and
\* releases connectors on edges, and never recounts the sessions).
ConnectorPerCable == Cardinality(Plugged) <= occupied

\* As long as no session has been tripped, booked power can be released: while
\* there is any, a session is charging, paused or suspended by the station, and
\* its power_stop releases it.  No stop, pause, resume or unplug of one session
\* leaves a booking behind that no session has a stop for.  A trip does: the
\* edges into FAULT_TERMINAL release nothing and none leads out (composite.py:90),
\* so that a booking may then stay for ever.
BookedPowerHasHolder ==
  power > 0 => Tripped # {} \/ \E v \in Vehicles : session[v] \in HoldingStates

\* A driver can always take the cable out of a session that admits unplug:
\* neither the resource nor the check of I3 on the target refuses it, although
\* both look at station-wide counters that other sessions change.
UnplugNeverRefused ==
  \A v \in Vehicles :
    "unplug" \in Admissible(session[v]) =>
      occupied > 0 /\ (power = 0 \/ occupied > 1)

\* The sum of what the charging sessions draw, one tier each, stays within the
\* site limit (plan.md, P4 and I2).
DrawWithinLimit == Cardinality(Charging) * StartTier <= PowerLimit

-----------------------------------------------------------------------------
\* The multiset the product keeps, as a function of the identified sessions.
Counts == [q \in States |-> Cardinality({v \in Vehicles : session[v] = q})]

Product == INSTANCE StationProduct
             WITH count <- Counts, SessionCount <- Cardinality(Vehicles)

\* Forgetting the identities loses no behaviour: every step of the identified
\* station is a step of the product on multisets (the symmetry reduction of
\* composite.py).
ImplementsProduct == Product!Spec
=============================================================================
