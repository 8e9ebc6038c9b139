----------------------------- MODULE MCCapacity -----------------------------
(***************************************************************************)
(* Three models of limits that have nothing to do with each other, one per *)
(* behaviour: a station of three connectors with the default tiers in      *)
(* units of 10 kW and a curtailed limit between two of them; a queue of    *)
(* three places; and the gate of scenario D12, in units of 50 kW, with     *)
(* requests that are too large or negative.                                *)
(***************************************************************************)
EXTENDS Resource, ReservationQueue, OptimizerGate

MCTiers == <<0, 5, 10, 15>>
MCItems == {[kw |-> -1, priority |-> 0, arrival |-> 1], [kw |-> 1, priority |-> 1, arrival |-> 0],
            [kw |-> 2, priority |-> 0, arrival |-> 0], [kw |-> 2, priority |-> 1, arrival |-> 1]}
MCQueueCapacity == {3}

VARIABLE subject

capacityVars == <<resourceVars, queueVars, gateVars, subject>>

CapacityInit ==
  /\ subject \in {"resource", "queue", "gate"}
  /\ ResourceInit /\ QueueInit /\ GateInit

CapacityNext ==
  /\ \/ subject = "resource" /\ ResourceNext /\ UNCHANGED <<queueVars, gateVars>>
     \/ subject = "queue" /\ QueueNext /\ UNCHANGED <<resourceVars, gateVars>>
     \/ subject = "gate" /\ GateNext /\ UNCHANGED <<resourceVars, queueVars>>
  /\ UNCHANGED subject

CapacitySpec == CapacityInit /\ [][CapacityNext]_capacityVars
=============================================================================
