------------------------------ MODULE Resource ------------------------------
(***************************************************************************)
(* The shared station resource automaton R (afco/station/resource.py):     *)
(* occupied connectors, booked power and grid mode of one station.  Each   *)
(* ResourceEvent is an action; an event the automaton answers with None    *)
(* is an action that is not enabled.                                       *)
(***************************************************************************)
EXTENDS Naturals, Sequences

CONSTANTS
  Connectors,     \* number of connectors of the station
  PowerLimit,     \* site limit in normal mode
  CurtailedLimit, \* limit in curtailed mode; PowerLimit when none is configured
  PowerTiers      \* admissible power requests, sorted, from 0 upwards

\* What ResourceConfig.__post_init__ enforces, and that a tier other than 0
\* exists (the product takes power_tiers[1] as the power of a power_start).
ASSUME ConfigAssumption ==
  /\ Connectors \in Nat
  /\ PowerLimit \in Nat
  /\ CurtailedLimit \in 0..PowerLimit
  /\ PowerTiers \in Seq(0..PowerLimit)
  /\ Len(PowerTiers) >= 2
  /\ PowerTiers[1] = 0
  /\ \A i \in 1..Len(PowerTiers), j \in 1..Len(PowerTiers) :
       i < j => PowerTiers[i] < PowerTiers[j]

Tiers == {PowerTiers[i] : i \in 1..Len(PowerTiers)}
StartTier == PowerTiers[2]

VARIABLES
  occupied, \* occupied_connectors
  power,    \* power_kw
  grid      \* grid_mode

resourceVars == <<occupied, power, grid>>

GridModes == {"normal", "curtailed", "emergency"}

Limit(mode) == [normal |-> PowerLimit, curtailed |-> CurtailedLimit,
                emergency |-> 0][mode]

ResourceInit == occupied = 0 /\ power = 0 /\ grid = "normal"

\* A mutant: the curtailed limit is not compared with what is booked.
GridCurtailUnchecked ==
  /\ grid' = "curtailed"
  /\ UNCHANGED <<occupied, power>>

Connect ==
  /\ occupied < Connectors
  /\ occupied' = occupied + 1
  /\ UNCHANGED <<power, grid>>

Disconnect(kw) ==
  /\ occupied > 0
  /\ kw = 0
  /\ occupied' = occupied - 1
  /\ UNCHANGED <<power, grid>>

\* POWER_START and POWER_SET; a request that is no tier raises ValueError.
PowerStart(kw) ==
  /\ kw \in Tiers
  /\ power + kw <= Limit(grid)
  /\ occupied > 0
  /\ power' = power + kw
  /\ UNCHANGED <<occupied, grid>>

PowerStop(kw) ==
  /\ kw \in 0..power
  /\ power' = power - kw
  /\ UNCHANGED <<occupied, grid>>

\* Curtailment is refused, not enforced, while more than the curtailed limit
\* is booked.
GridCurtail ==
  /\ power <= Limit("curtailed")
  /\ grid' = "curtailed"
  /\ UNCHANGED <<occupied, power>>

GridRestore ==
  /\ grid' = "normal"
  /\ UNCHANGED <<occupied, power>>

EmergencyStop ==
  /\ grid' = "emergency"
  /\ power' = 0
  /\ UNCHANGED occupied

ResourceNext ==
  \/ Connect
  \/ \E kw \in Tiers : Disconnect(kw) \/ PowerStart(kw)
  \/ \E kw \in 0..PowerLimit : PowerStop(kw)
  \/ GridCurtail
  \/ GridRestore
  \/ EmergencyStop

ResourceSpec == ResourceInit /\ [][ResourceNext]_resourceVars

-----------------------------------------------------------------------------
ResourceTypeOK ==
  /\ occupied \in 0..Connectors
  /\ power \in 0..PowerLimit
  /\ grid \in GridModes

\* The booked power never exceeds the limit of the grid mode the station is
\* in, whatever the order in which modes and requests change: the limit drops
\* under power already booked (resource.py GRID_CURTAIL, EMERGENCY_STOP).
BookedWithinModeLimit == power <= Limit(grid)
=============================================================================
