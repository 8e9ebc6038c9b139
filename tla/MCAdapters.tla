----------------------------- MODULE MCAdapters -----------------------------
(***************************************************************************)
(* The shipped adapters and the malformed one; every machine of three      *)
(* rows over a few emissions, whose two vendor states may lead to a third, *)
(* a dead end; documents with each of the loader's complaints; and a free  *)
(* machine that emits any of seven symbols six times, which a session gets *)
(* when nobody validates it.                                               *)
(***************************************************************************)
EXTENDS Adapters

Row(from, event, to, emit) == [from |-> from, event |-> event, to |-> to, emit |-> emit]
Doc(states, start, rows) == [states |-> states, start |-> start, rows |-> rows]

Ocpp16 == Doc(
  <<"Available", "Authorizing", "Authorized", "PluggedIn", "Locked", "Precharging", "Charging",
    "Stopping", "Isolating", "Unlocked", "Unplugged", "Billing", "Completed">>, "Available",
  << Row("Available", "Authorize", "Authorizing", "auth_req"),
     Row("Authorizing", "AuthorizationAccepted", "Authorized", "auth_ok"),
     Row("Authorized", "CablePlugged", "PluggedIn", "plug_in"),
     Row("PluggedIn", "CableLocked", "Locked", "lock_ok"),
     Row("Locked", "EvReady", "Precharging", "ev_ready"),
     Row("Precharging", "PrechargeComplete", "Precharging", "precharge_ok"),
     Row("Precharging", "StartTransaction", "Charging", "power_start"),
     Row("Charging", "MeterValues", "Charging", "meter_tick"),
     Row("Charging", "StopTransaction", "Stopping", "power_ramp_down"),
     Row("Stopping", "PowerStopped", "Isolating", "power_stop"),
     Row("Isolating", "ContactorsOpen", "Unlocked", "contactors_open"),
     Row("Unlocked", "Unplugged", "Unplugged", "unplug"),
     Row("Unplugged", "MeterFinal", "Billing", "meter_final"),
     Row("Billing", "PaymentAccepted", "Completed", "pay_ok"),
     Row("Completed", "SessionClosed", "Completed", "session_close"),
     Row("Completed", "Reset", "Available", "reset_cmd") >>)

Ocpp201 == Doc(
  <<"Available", "Authorizing", "Authorized", "Connected", "Locked", "Precharging", "Charging",
    "Stopping", "Isolating", "Unlocked", "Unplugged", "Billing", "Completed">>, "Available",
  << Row("Available", "AuthorizeRequest", "Authorizing", "auth_req"),
     Row("Authorizing", "AuthorizationAccepted", "Authorized", "auth_ok"),
     Row("Authorized", "TransactionEventStarted", "Connected", "plug_in"),
     Row("Connected", "ConnectorLocked", "Locked", "lock_ok"),
     Row("Locked", "ReadyToCharge", "Precharging", "ev_ready"),
     Row("Precharging", "ChargingReady", "Precharging", "precharge_ok"),
     Row("Precharging", "TransactionStarted", "Charging", "power_start"),
     Row("Charging", "MeterReport", "Charging", "meter_tick"),
     Row("Charging", "TransactionStopped", "Stopping", "power_ramp_down"),
     Row("Stopping", "CurrentZero", "Isolating", "power_stop"),
     Row("Isolating", "ContactorOpen", "Unlocked", "contactors_open"),
     Row("Unlocked", "CableRemoved", "Unplugged", "unplug"),
     Row("Unplugged", "FinalMeterReport", "Billing", "meter_final"),
     Row("Billing", "PaymentConfirmed", "Completed", "pay_ok"),
     Row("Completed", "TransactionClosed", "Completed", "session_close"),
     Row("Completed", "Reset", "Available", "reset_cmd") >>)

Chademo == Doc(
  <<"Idle", "VehicleDetected", "Locked", "Precharging", "Charging", "Stopping", "Isolating",
    "Unlocked", "Unplugged", "Billing", "Completed">>, "Idle",
  << Row("Idle", "VehicleDetected", "VehicleDetected", "plug_in"),
     Row("VehicleDetected", "ConnectorLocked", "Locked", "lock_ok"),
     Row("Locked", "Ready", "Precharging", "ev_ready"),
     Row("Precharging", "VoltageMatched", "Precharging", "precharge_ok"),
     Row("Precharging", "CurrentEnabled", "Charging", "power_start"),
     Row("Charging", "PeriodicMeter", "Charging", "meter_tick"),
     Row("Charging", "StopRequest", "Stopping", "power_ramp_down"),
     Row("Stopping", "CurrentZero", "Isolating", "power_stop"),
     Row("Isolating", "ContactorsOpen", "Unlocked", "contactors_open"),
     Row("Unlocked", "CableRemoved", "Unplugged", "unplug"),
     Row("Unplugged", "MeterFinal", "Billing", "meter_final"),
     Row("Billing", "PaymentOk", "Completed", "pay_ok"),
     Row("Completed", "SessionClosed", "Completed", "session_close"),
     Row("Completed", "Reset", "Idle", "reset_cmd") >>)

MalformedTest == Doc(<<"Available", "Charging">>, "Available",
  << Row("Available", "Start", "Charging", "not_a_canonical_symbol"),
     [from |-> "Charging", event |-> "Stop", to |-> "Available"] >>)

Shipped == <<Ocpp16, Ocpp201, Chademo, MalformedTest>>

\* One document for each of the loader's other complaints.
Broken ==
  << Doc(<<>>, "a", <<>>), Doc(<<"a", "a">>, "a", <<>>), Doc(<<"a", Junk>>, "a", <<>>),
     Doc(<<"a">>, Junk, <<>>), Doc(<<"a">>, "b", <<>>),
     Doc(<<"a">>, "a", <<Row("a", "x", "b", Null)>>), Doc(<<"a">>, "a", <<Row("b", "x", "a", Null)>>),
     Doc(<<"a">>, "a", <<Row("a", Junk, "a", Null)>>), Doc(<<"a">>, "a", <<Row("a", "x", "a", Junk)>>),
     Doc(<<"a">>, "a", <<Row("a", "x", "a", "plug_in"), Row("a", "x", "a", "unplug")>>) >>

\* 0 to 15: the row is absent or leads to b, a or c with one of the emissions.
Emissions == <<"plug_in", "unplug", "lock_fail", Null, "bogus">>
Choice(from, event, k) ==
  IF k = 0 THEN <<>>
  ELSE <<Row(from, event, <<"b", "a", "c">>[((k - 1) \div 5) + 1], Emissions[((k - 1) % 5) + 1])>>

Small(k) == Doc(<<"a", "b", "c">>, "a",
  Choice("a", "x", k % 11) \o Choice("a", "y", (k \div 11) % 11) \o Choice("b", "x", k \div 121))

FreeStates == <<"f0", "f1", "f2", "f3", "f4", "f5", "f6">>
FreeEmissions == <<"reserve", "plug_in", "lock_ok", "unlock_req", "unplug", "pay_ok", "reset_cmd">>
FreeRow(i, j) == Row(FreeStates[i], FreeEmissions[j], FreeStates[i + 1], FreeEmissions[j])
Free == Doc(FreeStates, "f0", [k \in 1..42 |-> FreeRow(((k - 1) \div 7) + 1, ((k - 1) % 7) + 1)])

Special == Shipped \o Broken \o <<Free>>
MCDocuments == [k \in 1..1951 |-> IF k <= 1936 THEN Small(k - 1) ELSE Special[k - 1936]]
MCLoads == ((1..1950) \X BOOLEAN) \cup {<<1951, FALSE>>}
MCPatience == [k \in 1..1951 |-> IF k <= 1936 THEN 3 ELSE 16]
MCOffered == Alphabet \cup {"reserve"}
=============================================================================
