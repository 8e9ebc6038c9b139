----------------------------- MODULE SessionDFA -----------------------------
(***************************************************************************)
(* The canonical session automaton M_S (afco/session/alphabet.py and       *)
(* canonical.py): 18 lifecycle states, 28 input symbols and a partial      *)
(* transition function.  delta_S is kept as the set of its edges           *)
(* <<source, symbol, target>>; a pair (state, symbol) with no edge is one  *)
(* the automaton rejects.                                                  *)
(***************************************************************************)
EXTENDS FiniteSets, Naturals

PhysicalSymbols  == {"plug_in", "unplug", "lock_ok", "lock_fail",
                     "unlock_req", "unlock_ok", "cable_fault", "pilot_lost"}
PowerSymbols     == {"precharge_ok", "power_start", "power_ramp_down",
                     "power_stop", "contactors_open", "overcurrent_trip"}
AuthSymbols      == {"reserve_req", "auth_req", "auth_ok", "auth_fail",
                     "pay_ok", "pay_fail"}
TelemetrySymbols == {"meter_tick", "meter_final", "ev_ready", "ev_stop",
                     "grid_curtail"}
AdminSymbols     == {"e_stop", "reset_cmd", "session_close"}

Alphabet == PhysicalSymbols \cup PowerSymbols \cup AuthSymbols
              \cup TelemetrySymbols \cup AdminSymbols

States == {"IDLE", "RESERVED", "AUTH_PENDING", "AUTHORIZED", "CABLE_DETECTED",
           "EV_CONNECTED", "PRECHARGE", "CHARGING", "PAUSED_DISPATCH",
           "SUSPENDED_EV", "SUSPENDED_EVSE", "RAMP_DOWN", "ISOLATING",
           "UNLOCKED", "UNPLUGGED", "BILLING_PENDING", "COMPLETED",
           "FAULT_TERMINAL"}

StartState == "IDLE"
AcceptingStates == {"COMPLETED"}

\* The taxonomy sizes the source asserts when the module is imported.
ASSUME TaxonomyAssumption ==
  /\ Cardinality(States) = 18
  /\ Cardinality(Alphabet) = 28

\* delta_S, by phase of the lifecycle.

\* Before a cable is plugged in: booking and authorisation.
EntryEdges == {
    <<"IDLE", "reserve_req", "RESERVED">>, <<"IDLE", "auth_req", "AUTH_PENDING">>,
    <<"IDLE", "plug_in", "CABLE_DETECTED">>, <<"IDLE", "reset_cmd", "IDLE">>,
    <<"RESERVED", "auth_req", "AUTH_PENDING">>, <<"RESERVED", "plug_in", "CABLE_DETECTED">>,
    <<"RESERVED", "session_close", "IDLE">>, <<"RESERVED", "reset_cmd", "IDLE">>,
    <<"AUTH_PENDING", "auth_ok", "AUTHORIZED">>, <<"AUTH_PENDING", "auth_fail", "IDLE">>,
    <<"AUTH_PENDING", "session_close", "IDLE">>, <<"AUTH_PENDING", "reset_cmd", "IDLE">>,
    <<"AUTHORIZED", "plug_in", "CABLE_DETECTED">>, <<"AUTHORIZED", "session_close", "IDLE">>,
    <<"AUTHORIZED", "reset_cmd", "IDLE">> }

\* Cable detected, connector locked.
CableEdges == {
    <<"CABLE_DETECTED", "lock_ok", "EV_CONNECTED">>, <<"CABLE_DETECTED", "lock_fail", "FAULT_TERMINAL">>,
    <<"CABLE_DETECTED", "unplug", "IDLE">>, <<"CABLE_DETECTED", "pilot_lost", "IDLE">>,
    <<"CABLE_DETECTED", "cable_fault", "FAULT_TERMINAL">>, <<"CABLE_DETECTED", "auth_req", "AUTH_PENDING">>,
    <<"EV_CONNECTED", "ev_ready", "PRECHARGE">>, <<"EV_CONNECTED", "unlock_req", "UNLOCKED">>,
    <<"EV_CONNECTED", "cable_fault", "FAULT_TERMINAL">>, <<"EV_CONNECTED", "pilot_lost", "FAULT_TERMINAL">>,
    <<"EV_CONNECTED", "e_stop", "FAULT_TERMINAL">> }

\* Pre-charge and energy transfer.
EnergyEdges == {
    <<"PRECHARGE", "precharge_ok", "PRECHARGE">>, <<"PRECHARGE", "power_start", "CHARGING">>,
    <<"PRECHARGE", "power_stop", "ISOLATING">>, <<"PRECHARGE", "cable_fault", "FAULT_TERMINAL">>,
    <<"PRECHARGE", "overcurrent_trip", "FAULT_TERMINAL">>, <<"PRECHARGE", "e_stop", "FAULT_TERMINAL">>,
    <<"CHARGING", "meter_tick", "CHARGING">>, <<"CHARGING", "power_start", "CHARGING">>,
    <<"CHARGING", "grid_curtail", "PAUSED_DISPATCH">>, <<"CHARGING", "ev_stop", "SUSPENDED_EV">>,
    <<"CHARGING", "power_ramp_down", "RAMP_DOWN">>, <<"CHARGING", "power_stop", "ISOLATING">>,
    <<"CHARGING", "overcurrent_trip", "FAULT_TERMINAL">>, <<"CHARGING", "cable_fault", "FAULT_TERMINAL">>,
    <<"CHARGING", "pilot_lost", "FAULT_TERMINAL">>, <<"CHARGING", "e_stop", "FAULT_TERMINAL">> }

\* Paused by the grid, suspended by the vehicle or by the station.
SuspensionEdges == {
    <<"PAUSED_DISPATCH", "power_start", "CHARGING">>, <<"PAUSED_DISPATCH", "grid_curtail", "SUSPENDED_EVSE">>,
    <<"PAUSED_DISPATCH", "meter_tick", "PAUSED_DISPATCH">>, <<"PAUSED_DISPATCH", "power_ramp_down", "RAMP_DOWN">>,
    <<"PAUSED_DISPATCH", "power_stop", "ISOLATING">>, <<"PAUSED_DISPATCH", "e_stop", "FAULT_TERMINAL">>,
    <<"SUSPENDED_EV", "ev_ready", "CHARGING">>, <<"SUSPENDED_EV", "power_ramp_down", "RAMP_DOWN">>,
    <<"SUSPENDED_EV", "power_stop", "ISOLATING">>, <<"SUSPENDED_EV", "e_stop", "FAULT_TERMINAL">>,
    <<"SUSPENDED_EVSE", "power_start", "CHARGING">>, <<"SUSPENDED_EVSE", "power_ramp_down", "RAMP_DOWN">>,
    <<"SUSPENDED_EVSE", "power_stop", "ISOLATING">>, <<"SUSPENDED_EVSE", "e_stop", "FAULT_TERMINAL">> }

\* Ramp-down, contactors opening, lock released.
ReleaseEdges == {
    <<"RAMP_DOWN", "power_stop", "ISOLATING">>, <<"RAMP_DOWN", "overcurrent_trip", "FAULT_TERMINAL">>,
    <<"RAMP_DOWN", "e_stop", "FAULT_TERMINAL">>,
    <<"ISOLATING", "contactors_open", "UNLOCKED">>, <<"ISOLATING", "unlock_ok", "UNLOCKED">>,
    <<"ISOLATING", "unlock_req", "ISOLATING">>, <<"ISOLATING", "unplug", "UNPLUGGED">>,
    <<"ISOLATING", "e_stop", "FAULT_TERMINAL">>,
    <<"UNLOCKED", "unplug", "UNPLUGGED">>, <<"UNLOCKED", "lock_ok", "EV_CONNECTED">>,
    <<"UNLOCKED", "plug_in", "CABLE_DETECTED">> }

\* Cable holstered, payment.
SettlementEdges == {
    <<"UNPLUGGED", "meter_final", "BILLING_PENDING">>, <<"UNPLUGGED", "pay_ok", "COMPLETED">>,
    <<"BILLING_PENDING", "pay_ok", "COMPLETED">>, <<"BILLING_PENDING", "pay_fail", "BILLING_PENDING">>,
    <<"COMPLETED", "session_close", "COMPLETED">>, <<"COMPLETED", "reset_cmd", "IDLE">> }

\* Mutants of Transitions: a session suspended by the vehicle may unlock; an
\* emergency stop during ramp-down only isolates; the final reading completes
\* the session unpaid.
BeforeRelease == EntryEdges \cup CableEdges \cup EnergyEdges \cup SuspensionEdges

TransitionsUnlocking ==
  BeforeRelease \cup ReleaseEdges \cup SettlementEdges
    \cup {<<"SUSPENDED_EV", "unlock_req", "UNLOCKED">>}

TransitionsUntrapped ==
  BeforeRelease \cup SettlementEdges \cup {<<"RAMP_DOWN", "e_stop", "ISOLATING">>}
    \cup (ReleaseEdges \ {<<"RAMP_DOWN", "e_stop", "FAULT_TERMINAL">>})

TransitionsUnpaid ==
  BeforeRelease \cup ReleaseEdges \cup {<<"UNPLUGGED", "meter_final", "COMPLETED">>}
    \cup (SettlementEdges \ {<<"UNPLUGGED", "meter_final", "BILLING_PENDING">>})

\* delta_S.  FAULT_TERMINAL has no outgoing edge.
Transitions == EntryEdges \cup CableEdges \cup EnergyEdges
                 \cup SuspensionEdges \cup ReleaseEdges \cup SettlementEdges

\* The symbols delta_S defines in state q, and the state it moves to.
Admissible(q) == {t[2] : t \in {u \in Transitions : u[1] = q}}
Target(q, a) == CHOOSE r \in States : <<q, a, r>> \in Transitions

=============================================================================
