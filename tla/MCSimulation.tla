---------------------------- MODULE MCSimulation ----------------------------
(***************************************************************************)
(* The clock and the fleet, one per behaviour.  The clock alone, with      *)
(* callbacks that raise or schedule one further event; and the fleet with  *)
(* two vehicles, whose callbacks do neither, on fewer events.  Runs are    *)
(* called as the simulator and the console call them: to the end, to a     *)
(* time, or for a number of events, never with both limits.                *)
(***************************************************************************)
EXTENDS FleetSimulator

CONSTANTS
  FleetEvents,  \* bound: how many events the fleet is given between two resets
  FleetHorizon  \* bound: the latest time it is given, for events and runs

SingleLimitCalls == [until : {{}}, max : {{}, {1}, {2}}]
                      \cup [until : {{u} : u \in Times}, max : {{}}]

\* They let a session be accepted, rejected and trapped; the last one is not in
\* the alphabet.
MCSymbols == {"plug_in", "cable_fault", "lock_ok", "noise"}

VARIABLE subject

simulationVars == <<vars, subject>>

SimulationInit ==
  /\ subject \in {"clock", "fleet"}
  /\ IF subject = "fleet" THEN Init
     ELSE /\ ClockInit
          /\ sessions = [id \in SessionIds |-> Absent]
          /\ payload = [s \in 0..MaxSequence |-> Nothing]
          /\ events = <<>>

WithinFleetBounds ==
  /\ sequence' <= FleetEvents
  /\ \A e \in queue' : e.time <= FleetHorizon
  /\ \A u \in until' : u <= FleetHorizon

\* What run does by itself once it is called.
ClockLoop == subject = "clock" /\ Loop /\ UNCHANGED fleetVars
FleetLoop == subject = "fleet" /\ ((\E e \in queue : Apply(e)) \/ EndRunFleet)

SimulationNext ==
  /\ \/ subject = "clock" /\ ClockNext /\ UNCHANGED fleetVars
     \/ subject = "fleet" /\ Next /\ WithinFleetBounds
  /\ UNCHANGED subject

\* run is a loop of the calling thread: once called, it goes on.
SimulationSpec ==
  /\ SimulationInit
  /\ [][SimulationNext]_simulationVars
  /\ WF_simulationVars((ClockLoop \/ FleetLoop) /\ UNCHANGED subject)
=============================================================================
