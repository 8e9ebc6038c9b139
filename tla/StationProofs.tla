---------------------------- MODULE StationProofs ----------------------------
(***************************************************************************)
(* Safety of the station for every number of vehicles, connectors and      *)
(* power tiers.  The invariants checked on the target of each transition   *)
(* (StationInvariants) are not enough: that a cable always has a connector *)
(* and that booked power always has a holder relate the sessions to the    *)
(* station's counters, and only their conjunction is inductive.            *)
(* And the symmetry reduction of composite.py is sound: a station whose    *)
(* vehicles have identities implements the product over the multiset of    *)
(* their states.                                                           *)
(*                                                                         *)
(* The other two limits follow: the optimizer gate keeps every schedule in *)
(* force within its ceiling, which needs sums over subsets, and the        *)
(* bounded counter and the reservation stack follow the same balance.      *)
(***************************************************************************)
EXTENDS Station, ReservationQueue, OptimizerGate, Recursion

-----------------------------------------------------------------------------
\* The refinement.
\* All that the refinement needs to know of the reachable states.
SessionTyped == session \in [Vehicles -> States]

\* The vehicles in a state.
At(q) == {v \in Vehicles : session[v] = q}

LEMMA EdgeStates ==
  \A t \in Transitions : t[1] \in States /\ t[3] \in States
BY DEF Transitions, EntryEdges, CableEdges, EnergyEdges, SuspensionEdges,
       ReleaseEdges, SettlementEdges, States

LEMMA AtFinite ==
  \A q : IsFiniteSet(At(q)) /\ Cardinality(At(q)) \in Nat
BY VehiclesAssumption, FS_Subset, FS_CardinalityType DEF At

LEMMA CountsAreSizes == Counts = [q \in States |-> Cardinality(At(q))]
BY DEF Counts, At

\* Moving one vehicle along an edge moves one unit between the two counts.
LEMMA CountsMove ==
  ASSUME SessionTyped, NEW v \in Vehicles, NEW t \in Transitions, Move(v, t)
  PROVE  /\ Counts[t[1]] > 0
         /\ Counts' = [q \in States |-> Counts[q] + Product!Unit(q, t[3])
                                             - Product!Unit(q, t[1])]
<1> DEFINE moved == [q \in States |-> Counts[q] + Product!Unit(q, t[3])
                                          - Product!Unit(q, t[1])]
<1>0. t[1] \in States /\ t[3] \in States
  BY EdgeStates
<1>1. v \in At(t[1])
  BY DEF At, Move
<1>2. Counts[t[1]] > 0
  BY <1>0, <1>1, AtFinite, FS_EmptySet, CountsAreSizes
<1>3. \A q \in States : At(q)' = IF q = t[3] THEN At(q) \cup {v}
                                 ELSE IF q = t[1] THEN At(q) \ {v}
                                 ELSE At(q)
  <2> SUFFICES ASSUME NEW q \in States
               PROVE  At(q)' = IF q = t[3] THEN At(q) \cup {v}
                               ELSE IF q = t[1] THEN At(q) \ {v}
                               ELSE At(q)
    OBVIOUS
  <2>1. session[v] = t[1] /\ session' = [session EXCEPT ![v] = t[3]]
    BY DEF Move
  <2>2. session'[v] = t[3] /\ \A u \in Vehicles \ {v} : session'[u] = session[u]
    BY <2>1 DEF SessionTyped
  <2> QED
    BY <2>1, <2>2 DEF At
<1>4. \A q \in States : Cardinality(At(q)') = moved[q]
  <2> SUFFICES ASSUME NEW q \in States PROVE Cardinality(At(q)') = moved[q]
    OBVIOUS
  <2>0. /\ Counts[q] = Cardinality(At(q))
        /\ Counts[q] \in Nat
        /\ DOMAIN Counts = States
    BY CountsAreSizes, AtFinite
  <2>1. CASE q = t[3] /\ q # t[1]
    <3>1. v \notin At(q)
      BY <2>1 DEF At, Move
    <3>2. Cardinality(At(q) \cup {v}) = Cardinality(At(q)) + 1
      BY <3>1, AtFinite, FS_AddElement
    <3>3. moved[q] = Counts[q] + 1
      BY <2>0, <2>1 DEF Product!Unit
    <3> QED
      BY <1>3, <2>0, <2>1, <3>2, <3>3
  <2>2. CASE q = t[1] /\ q # t[3]
    <3>1. Cardinality(At(q) \ {v}) = Cardinality(At(q)) - 1
      BY <1>1, <2>2, AtFinite, FS_RemoveElement
    <3>2. moved[q] = Counts[q] - 1
      BY <2>0, <2>2 DEF Product!Unit
    <3> QED
      BY <1>3, <2>0, <2>2, <3>1, <3>2
  <2>3. CASE q = t[1] /\ q = t[3]
    <3>1. At(q)' = At(q)
      BY <1>1, <1>3, <2>3
    <3>2. moved[q] = Counts[q]
      BY <2>0, <2>3 DEF Product!Unit
    <3> QED
      BY <2>0, <3>1, <3>2
  <2>4. CASE q # t[1] /\ q # t[3]
    BY <1>3, <2>0, <2>4 DEF Product!Unit
  <2> QED
    BY <2>1, <2>2, <2>3, <2>4
<1>5. Counts' = [q \in States |-> Cardinality(At(q)')]
  BY DEF Counts, At
<1>6. Counts' = moved
  BY <1>4, <1>5, CountsAreSizes
<1> QED
  BY <1>2, <1>6

-----------------------------------------------------------------------------
LEMMA SessionType == Spec => []SessionTyped
<1> USE DEF SessionTyped
<1>1. Init => SessionTyped
  BY DEF Init, StartState, States
<1>2. SessionTyped /\ [Next]_vars => SessionTyped'
  BY EdgeStates DEF Next, Step, Move, vars
<1> QED
  BY <1>1, <1>2, PTL DEF Spec

\* The two instances of the rules are the same constants and actions.
LEMMA SameRules ==
  /\ Product!Transitions = Transitions
  /\ Product!States = States
  /\ Product!StartState = StartState
  /\ Product!ResourceInit <=> ResourceInit
  /\ \A t : ResourceTransition(t) <=> Product!ResourceTransition(t)
<1>1. /\ Product!Transitions = Transitions
      /\ Product!States = States
      /\ Product!StartState = StartState
  BY DEF Product!Transitions, Transitions,
         Product!EntryEdges, EntryEdges, Product!CableEdges, CableEdges,
         Product!EnergyEdges, EnergyEdges, Product!SuspensionEdges,
         SuspensionEdges, Product!ReleaseEdges, ReleaseEdges,
         Product!SettlementEdges, SettlementEdges,
         Product!States, States,
         Product!StartState, StartState
<1>2. Product!ResourceInit <=> ResourceInit
  BY DEF Product!ResourceInit, ResourceInit
<1>3. /\ Product!Coupling = Coupling
      /\ Product!Decoupling = Decoupling
      /\ Product!Starting = Starting
      /\ Product!Stopping = Stopping
      /\ Product!Curtailing = Curtailing
      /\ Product!Local = Local
  BY <1>1 DEF Product!Coupling, Coupling, Product!Decoupling, Decoupling,
              Product!Starting, Starting, Product!Stopping, Stopping,
              Product!Curtailing, Curtailing, Product!Local, Local
<1>4. /\ Product!Connect <=> Connect
      /\ Product!Disconnect(0) <=> Disconnect(0)
      /\ Product!PowerStart(Product!StartTier) <=> PowerStart(StartTier)
      /\ Product!PowerStop(power) <=> PowerStop(power)
      /\ Product!GridCurtail <=> GridCurtail
      /\ (UNCHANGED Product!resourceVars) <=> UNCHANGED resourceVars
  BY DEF Product!Connect, Connect, Product!Disconnect, Disconnect,
         Product!PowerStart, PowerStart, Product!Tiers, Tiers, StartTier,
         Product!StartTier, Product!PowerStop, PowerStop, Product!GridCurtail,
         GridCurtail, Product!Limit, Limit, Product!resourceVars, resourceVars
<1> QED
  BY <1>1, <1>2, <1>3, <1>4 DEF Product!ResourceTransition, ResourceTransition

LEMMA SameInvariants == StationInvariants' <=> Product!StationInvariants'
BY DEF StationInvariants, I1, I2, I3, I4, Limit, GridModes,
       Product!StationInvariants, Product!I1, Product!I2, Product!I3,
       Product!I4, Product!Limit, Product!GridModes

-----------------------------------------------------------------------------
\* Every vehicle starts in IDLE, which the product counts.
LEMMA InitRefines == Init => Product!Init
<1> SUFFICES ASSUME Init PROVE Product!Init
  OBVIOUS
<1>1. \A q \in States : At(q) = IF q = StartState THEN Vehicles ELSE {}
  BY DEF Init, At
<1>2. Counts = [q \in States |->
                  IF q = StartState THEN Cardinality(Vehicles) ELSE 0]
  BY <1>1, CountsAreSizes, FS_EmptySet
<1> QED
  BY <1>2, SameRules DEF Init, Product!Init

\* A step of one vehicle is a step of the product along the same edge.
LEMMA StepRefines ==
  ASSUME SessionTyped, NEW v \in Vehicles, NEW t \in Transitions, Step(v, t)
  PROVE  Product!Successor(t)
<1>1. Counts[t[1]] > 0
      /\ Counts' = [q \in States |-> Counts[q] + Product!Unit(q, t[3])
                                               - Product!Unit(q, t[1])]
  BY CountsMove DEF Step
<1>2. Product!Move(t)
  BY <1>1, SameRules DEF Product!Move
<1> QED
  BY <1>2, SameRules, SameInvariants DEF Step, Product!Successor

\* The station with identified vehicles implements the multiset product that
\* composite.py explores: merging the states that differ only in which vehicle
\* is where adds no behaviour a real station could not show in the product.
THEOREM StationImplementsProduct == Spec => ImplementsProduct
<1>1. SessionTyped /\ [Next]_vars => [Product!Next]_(Product!productVars)
  <2> SUFFICES ASSUME SessionTyped, [Next]_vars
               PROVE  [Product!Next]_(Product!productVars)
    OBVIOUS
  <2>1. CASE Next
    BY <2>1, StepRefines, SameRules DEF Next, Product!Next
  <2>2. CASE UNCHANGED vars
    BY <2>2 DEF vars, Product!productVars, Counts
  <2> QED
    BY <2>1, <2>2
<1> QED
  BY InitRefines, SessionType, <1>1, PTL DEF Spec, ImplementsProduct, Product!Spec

-----------------------------------------------------------------------------
\* The invariants.
\* The states that account for booked power: those that can release it, and the
\* trap, which keeps what was booked when the session was tripped.
AccountedStates == HoldingStates \cup {"FAULT_TERMINAL"}

Accounted == power > 0 => \E v \in Vehicles : session[v] \in AccountedStates

LEMMA HolderIsAccounted == BookedPowerHasHolder <=> Accounted
BY DEF BookedPowerHasHolder, Accounted, AccountedStates, Tripped

\* The inductive invariant.
IInv ==
  /\ TypeOK
  /\ StationInvariants
  /\ ConnectorPerCable
  /\ Accounted

-----------------------------------------------------------------------------
\* Facts about the edges of M_S, by inspection of delta_S.
USE DEF EntryEdges, CableEdges, EnergyEdges, SuspensionEdges, ReleaseEdges,
        SettlementEdges

LEMMA EdgeTypes ==
  \A t \in Transitions : t[1] \in States /\ t[3] \in States
BY DEF Transitions, States

\* Only a coupling brings a session into the plugged states.
LEMMA PluggedEdges ==
  \A t \in Transitions \ Coupling :
    t[3] \in PluggedStates => t[1] \in PluggedStates
BY DEF Coupling, Transitions, PluggedStates

\* A decoupling takes a session out of the plugged states, and out of one that
\* holds no power.
LEMMA DecouplingEdges ==
  \A t \in Decoupling :
    /\ t[1] \in PluggedStates \ AccountedStates
    /\ t[3] \notin PluggedStates
BY DEF Decoupling, Coupling, Transitions, PluggedStates, AccountedStates, HoldingStates

\* A coupling starts where no power is held; a start ends in CHARGING; an edge
\* that leaves booked power as it is leaves a holder a holder.
LEMMA HoldingEdges ==
  /\ \A t \in Coupling : t[1] \notin AccountedStates
  /\ \A t \in Starting : t[3] \in AccountedStates
  /\ \A t \in Curtailing \cup Local :
       t[1] \in AccountedStates => t[3] \in AccountedStates
BY DEF Coupling, Decoupling, Starting, Stopping, Curtailing, Local,
       Transitions, AccountedStates, HoldingStates

\* The states that admit unplug have a cable and hold no power.
LEMMA UnplugSources ==
  \A q \in States : "unplug" \in Admissible(q)
                      => q \in PluggedStates \ AccountedStates
BY DEF Admissible, Transitions, States, PluggedStates, AccountedStates, HoldingStates

\* The first tier above zero is a natural number.
LEMMA StartTierType == StartTier \in Nat
BY ConfigAssumption DEF StartTier

\* The resource kinds of edges are disjoint from the couplings.
LEMMA KindsDisjoint ==
  /\ Coupling \subseteq Transitions /\ Decoupling \subseteq Transitions \ Coupling
  /\ Starting \subseteq Transitions \ Coupling
  /\ Stopping \subseteq Transitions \ Coupling
  /\ Curtailing \subseteq Transitions \ Coupling
  /\ Local \subseteq Transitions \ Coupling
<1>1. \A t \in Transitions : t[3] = "CABLE_DETECTED" =>
        t[2] \notin {"power_start", "power_stop", "power_ramp_down", "ev_stop", "grid_curtail"}
  BY DEF Transitions
<1> QED
  BY <1>1 DEF Coupling, Decoupling, Starting, Stopping, Curtailing, Local

HIDE DEF EntryEdges, CableEdges, EnergyEdges, SuspensionEdges, ReleaseEdges,
         SettlementEdges

LEMMA PluggedFinite ==
  /\ IsFiniteSet(Plugged)
  /\ Cardinality(Plugged) \in Nat
BY VehiclesAssumption, FS_Subset, FS_CardinalityType DEF Plugged

-----------------------------------------------------------------------------
\* How a move changes the set of plugged vehicles.

LEMMA PluggedGrows ==
  ASSUME TypeOK, NEW v \in Vehicles, NEW t \in Transitions, Move(v, t)
  PROVE  Cardinality(Plugged') <= Cardinality(Plugged) + 1
<1>1. Plugged' \subseteq Plugged \cup {v}
  BY EdgeTypes DEF TypeOK, Move, Plugged
<1>2. /\ IsFiniteSet(Plugged \cup {v})
      /\ \/ Cardinality(Plugged \cup {v}) = Cardinality(Plugged)
         \/ Cardinality(Plugged \cup {v}) = Cardinality(Plugged) + 1
  BY PluggedFinite, FS_AddElement
<1>3. Cardinality(Plugged') <= Cardinality(Plugged \cup {v})
      /\ IsFiniteSet(Plugged')
  BY <1>1, <1>2, FS_Subset
<1> QED
  BY <1>2, <1>3, PluggedFinite, FS_CardinalityType

LEMMA PluggedNotGrown ==
  ASSUME TypeOK, NEW v \in Vehicles, NEW t \in Transitions \ Coupling, Move(v, t)
  PROVE  Cardinality(Plugged') <= Cardinality(Plugged)
<1>1. Plugged' \subseteq Plugged
  BY EdgeTypes, PluggedEdges DEF TypeOK, Move, Plugged
<1> QED
  BY <1>1, PluggedFinite, FS_Subset

LEMMA PluggedShrinks ==
  ASSUME TypeOK, NEW v \in Vehicles, NEW t \in Decoupling, Move(v, t)
  PROVE  /\ Cardinality(Plugged') = Cardinality(Plugged) - 1
         /\ v \in Plugged
<1>1. Plugged' = Plugged \ {v} /\ v \in Plugged
  BY DecouplingEdges DEF TypeOK, Move, Plugged
<1> QED
  BY <1>1, PluggedFinite, FS_RemoveElement

\* A vehicle other than the moving one keeps its state, so a holder that does
\* not move remains one.
LEMMA HolderStays ==
  ASSUME TypeOK, Accounted, power > 0,
         NEW v \in Vehicles, NEW t \in Transitions, Move(v, t),
         t[1] \in AccountedStates => t[3] \in AccountedStates
  PROVE  \E w \in Vehicles : session'[w] \in AccountedStates
<1>1. PICK w \in Vehicles : session[w] \in AccountedStates
  BY DEF Accounted
<1>2. session'[w] \in AccountedStates
  BY <1>1 DEF TypeOK, Move
<1> QED
  BY <1>2

\* With power booked, an unplugging session is not the only plugged one.
LEMMA TwoPlugged ==
  ASSUME TypeOK, Accounted, power > 0, NEW v \in Plugged,
         session[v] \notin AccountedStates
  PROVE  Cardinality(Plugged) >= 2
<1>1. PICK w \in Vehicles : session[w] \in AccountedStates
  BY DEF Accounted
<1>2. w \in Plugged /\ w # v
  BY <1>1 DEF Plugged, AccountedStates, HoldingStates, PluggedStates
<1>3. IsFiniteSet(Plugged \ {v}) /\ Cardinality(Plugged \ {v}) = Cardinality(Plugged) - 1
  BY PluggedFinite, FS_RemoveElement
<1>4. IsFiniteSet({w}) /\ Cardinality({w}) = 1
  BY FS_Singleton, FS_AddElement, FS_EmptySet
<1>5. Cardinality({w}) <= Cardinality(Plugged \ {v})
  BY <1>2, <1>3, FS_Subset
<1> QED
  BY <1>3, <1>4, <1>5, PluggedFinite

-----------------------------------------------------------------------------
\* Initially no cable is plugged and no power booked.
LEMMA InitIInv == Init => IInv
<1> SUFFICES ASSUME Init PROVE IInv
  OBVIOUS
<1> USE DEF Init, ResourceInit
<1>1. TypeOK
  BY ConfigAssumption DEF TypeOK, ResourceTypeOK, StartState, States, GridModes
<1>2. StationInvariants
  BY ConfigAssumption
     DEF StationInvariants, I1, I2, I3, I4, Limit, GridModes
<1>3. ConnectorPerCable
  <2>1. Plugged = {}
    BY DEF Plugged, PluggedStates, StartState
  <2> QED
    BY <2>1, FS_EmptySet DEF ConnectorPerCable
<1>4. Accounted
  BY DEF Accounted
<1> QED
  BY <1>1, <1>2, <1>3, <1>4 DEF IInv

\* A session move and the resource event it implies preserve the invariant,
\* even though the move is not filtered by the check on its target.
LEMMA MoveKeepsIInv ==
  ASSUME IInv, NEW v \in Vehicles, NEW t \in Transitions,
         Move(v, t), ResourceTransition(t)
  PROVE  IInv'
<1> USE DEF IInv
<1> DEFINE Nats == /\ Connectors \in Nat /\ PowerLimit \in Nat
                   /\ CurtailedLimit \in 0..PowerLimit
<1>n. Nats
  BY ConfigAssumption
<1>s. session' \in [Vehicles -> States]
  BY EdgeTypes DEF TypeOK, Move
<1>c. Cardinality(Plugged) \in Nat
  BY PluggedFinite
<1>f. IsFiniteSet(Plugged') /\ Cardinality(Plugged') \in Nat
  <2>1. Plugged' \subseteq Vehicles
    BY DEF Plugged
  <2> QED
    BY <2>1, VehiclesAssumption, FS_Subset, FS_CardinalityType
<1>1. CASE t \in Coupling /\ Connect
  <2>1. ConnectorPerCable'
    BY <1>1, <1>c, <1>f, PluggedGrows DEF ConnectorPerCable, Connect, TypeOK, ResourceTypeOK
  <2>2. Accounted'
    BY <1>1, HoldingEdges, HolderStays DEF Accounted, Connect
  <2>3. TypeOK' /\ StationInvariants'
    BY <1>1, <1>n, <1>s
       DEF Connect, TypeOK, ResourceTypeOK, StationInvariants, I1, I2, I3, I4, Limit
  <2> QED
    BY <2>1, <2>2, <2>3
<1>2. CASE t \in Decoupling /\ Disconnect(0)
  <2>1. ConnectorPerCable'
    BY <1>2, <1>c, <1>f, PluggedShrinks
       DEF ConnectorPerCable, Disconnect, TypeOK, ResourceTypeOK
  <2>2. Accounted'
    BY <1>2, DecouplingEdges, HolderStays DEF Accounted, Disconnect
  <2>3. power > 0 => occupied' > 0
    <3> SUFFICES ASSUME power > 0 PROVE occupied' > 0
      OBVIOUS
    <3>1. v \in Plugged /\ session[v] \notin AccountedStates
      BY <1>2, PluggedShrinks, DecouplingEdges DEF Move
    <3>2. occupied >= 2
      BY <3>1, <1>c, TwoPlugged DEF ConnectorPerCable, TypeOK, ResourceTypeOK
    <3> QED
      BY <1>2, <3>2 DEF Disconnect, TypeOK, ResourceTypeOK
  <2>4. TypeOK' /\ StationInvariants'
    BY <1>2, <1>n, <1>s, <2>3
       DEF Disconnect, TypeOK, ResourceTypeOK, StationInvariants, I1, I2, I3, I4, Limit
  <2> QED
    BY <2>1, <2>2, <2>4
<1>3. CASE t \in Starting /\ PowerStart(StartTier)
  <2>1. ConnectorPerCable'
    BY <1>3, <1>c, <1>f, KindsDisjoint, PluggedNotGrown
       DEF ConnectorPerCable, PowerStart, TypeOK, ResourceTypeOK
  <2>2. Accounted'
    BY <1>3, HoldingEdges DEF Accounted, Move, TypeOK
  <2>3. TypeOK' /\ StationInvariants'
    BY <1>3, <1>n, <1>s, StartTierType
       DEF PowerStart, TypeOK, ResourceTypeOK, StationInvariants, I1, I2, I3, I4,
           Limit, GridModes
  <2> QED
    BY <2>1, <2>2, <2>3
<1>4. CASE t \in Stopping /\ PowerStop(power)
  <2>0. power' = 0 /\ occupied' = occupied /\ grid' = grid
    BY <1>4 DEF PowerStop, TypeOK, ResourceTypeOK
  <2>1. ConnectorPerCable'
    BY <1>4, <2>0, <1>c, <1>f, KindsDisjoint, PluggedNotGrown
       DEF ConnectorPerCable, TypeOK, ResourceTypeOK
  <2>2. Accounted'
    BY <2>0 DEF Accounted
  <2>3. TypeOK' /\ StationInvariants'
    BY <2>0, <1>n, <1>s
       DEF TypeOK, ResourceTypeOK, StationInvariants, I1, I2, I3, I4, Limit, GridModes
  <2> QED
    BY <2>1, <2>2, <2>3
<1>5. CASE t \in Curtailing /\ GridCurtail
  <2>1. ConnectorPerCable'
    BY <1>5, <1>c, <1>f, KindsDisjoint, PluggedNotGrown
       DEF ConnectorPerCable, GridCurtail, TypeOK, ResourceTypeOK
  <2>2. Accounted'
    BY <1>5, HoldingEdges, HolderStays DEF Accounted, GridCurtail
  <2>3. TypeOK' /\ StationInvariants'
    BY <1>5, <1>n, <1>s
       DEF GridCurtail, TypeOK, ResourceTypeOK, StationInvariants, I1, I2, I3, I4,
           Limit, GridModes
  <2> QED
    BY <2>1, <2>2, <2>3
<1>6. CASE t \in Local /\ UNCHANGED resourceVars
  <2>1. ConnectorPerCable'
    BY <1>6, <1>c, <1>f, KindsDisjoint, PluggedNotGrown
       DEF ConnectorPerCable, resourceVars, TypeOK, ResourceTypeOK
  <2>2. Accounted'
    BY <1>6, HoldingEdges, HolderStays DEF Accounted, resourceVars
  <2>3. TypeOK' /\ StationInvariants'
    BY <1>6, <1>s
       DEF resourceVars, TypeOK, ResourceTypeOK, StationInvariants, I1, I2, I3, I4
  <2> QED
    BY <2>1, <2>2, <2>3
<1> QED
  BY <1>1, <1>2, <1>3, <1>4, <1>5, <1>6 DEF ResourceTransition

\* The invariant holds in every reachable state of the station.
THEOREM StationInvariant == Spec => []IInv
<1>1. IInv /\ [Next]_vars => IInv'
  <2> SUFFICES ASSUME IInv, [Next]_vars PROVE IInv'
    OBVIOUS
  <2>1. CASE Next
    BY <2>1, MoveKeepsIInv DEF Next, Step
  <2>2. CASE UNCHANGED vars
    BY <2>2 DEF vars, IInv, TypeOK, ResourceTypeOK, StationInvariants, I1, I2,
                I3, I4, ConnectorPerCable, Plugged, Accounted
  <2> QED
    BY <2>1, <2>2
<1> QED
  BY InitIInv, <1>1, PTL DEF Spec

\* The sessions' states and the station's counters keep their types, for every
\* configuration ResourceConfig accepts.
THEOREM StationTypeOK == Spec => []TypeOK
<1>1. IInv => TypeOK
  BY DEF IInv
<1> QED
  BY StationInvariant, <1>1, PTL

\* I1 as plan.md means it, for every number of vehicles and connectors: there
\* is a booked connector for every cable that is plugged in.
THEOREM StationConnectorPerCable == Spec => []ConnectorPerCable
<1>1. IInv => ConnectorPerCable
  BY DEF IInv
<1> QED
  BY StationInvariant, <1>1, PTL

\* Booked power has a session whose power_stop releases it, unless a session of
\* the station has been tripped, for every number of vehicles and connectors.
THEOREM StationBookedPowerHasHolder == Spec => []BookedPowerHasHolder
<1>1. IInv => BookedPowerHasHolder
  BY HolderIsAccounted DEF IInv
<1> QED
  BY StationInvariant, <1>1, PTL

\* No station state refuses the unplug a session's own automaton admits.
THEOREM StationUnplugNeverRefused == Spec => []UnplugNeverRefused
<1>1. IInv => UnplugNeverRefused
  <2> SUFFICES ASSUME IInv, NEW v \in Vehicles, "unplug" \in Admissible(session[v])
               PROVE  occupied > 0 /\ (power = 0 \/ occupied > 1)
    BY DEF UnplugNeverRefused
  <2> USE DEF IInv
  <2>1. session[v] \in PluggedStates \ AccountedStates
    BY UnplugSources DEF TypeOK
  <2>2. v \in Plugged
    BY <2>1 DEF Plugged
  <2>3. Cardinality(Plugged) > 0
    BY <2>2, PluggedFinite, FS_EmptySet
  <2>4. power > 0 => Cardinality(Plugged) >= 2
    BY <2>1, <2>2, TwoPlugged
  <2> QED
    BY <2>3, <2>4, PluggedFinite DEF ConnectorPerCable, TypeOK, ResourceTypeOK
<1> QED
  BY StationInvariant, <1>1, PTL

\* The check of the invariants on the target (composite.py successors) never
\* drops a transition the resource admits: from a reachable state, a session
\* move with its resource event already satisfies them.
THEOREM FilterIsRedundant ==
  ASSUME IInv, NEW v \in Vehicles, NEW t \in Transitions,
         Move(v, t), ResourceTransition(t)
  PROVE  StationInvariants'
BY MoveKeepsIInv DEF IInv

-----------------------------------------------------------------------------
\* The resource automaton alone, in any environment: whatever events come in
\* which order, and whatever limits and tiers are configured, no more is booked
\* than the mode it is in allows (resource.py step, and emergencies included,
\* which the station product never sends).
THEOREM ResourceWithinModeLimit == ResourceSpec => []BookedWithinModeLimit
<1> DEFINE RInv == ResourceTypeOK /\ BookedWithinModeLimit
<1> USE ConfigAssumption DEF ResourceTypeOK, BookedWithinModeLimit, Limit, GridModes
<1>1. ResourceInit => RInv
  BY DEF ResourceInit
<1>2. RInv /\ [ResourceNext]_resourceVars => RInv'
  <2> SUFFICES ASSUME RInv, [ResourceNext]_resourceVars
               PROVE  RInv'
    OBVIOUS
  <2>1. CASE Connect
    BY <2>1 DEF Connect
  <2>2. ASSUME NEW kw \in Tiers, Disconnect(kw)
        PROVE  RInv'
    BY <2>2 DEF Disconnect
  <2>3. ASSUME NEW kw \in Tiers, PowerStart(kw)
        PROVE  RInv'
    <3>1. kw \in 0..PowerLimit
      BY DEF Tiers
    <3>2. Limit(grid) <= PowerLimit
      OBVIOUS
    <3> QED
      BY <2>3, <3>1, <3>2 DEF PowerStart
  <2>4. ASSUME NEW kw \in 0..PowerLimit, PowerStop(kw)
        PROVE  RInv'
    BY <2>4 DEF PowerStop
  <2>5. CASE GridCurtail
    BY <2>5 DEF GridCurtail
  <2>6. CASE GridRestore
    BY <2>6 DEF GridRestore
  <2>7. CASE EmergencyStop
    BY <2>7 DEF EmergencyStop
  <2>8. CASE UNCHANGED resourceVars
    BY <2>8 DEF resourceVars
  <2> QED
    BY <2>1, <2>2, <2>3, <2>4, <2>5, <2>6, <2>7, <2>8 DEF ResourceNext
<1>3. RInv => BookedWithinModeLimit
  OBVIOUS
<1> QED
  BY <1>1, <1>2, <1>3, PTL DEF ResourceSpec

-----------------------------------------------------------------------------
\* Sums over finite sets.

\* What holds of a set when it holds of the set without any one member, holds
\* of all subsets of a finite set.
LEMMA SubsetInduction ==
  ASSUME NEW D, IsFiniteSet(D), NEW P,
         \A s \in SUBSET D : (\A y \in s : s \ {y} \in P) => s \in P
  PROVE  \A s \in SUBSET D : s \in P
<1> DEFINE Q == {n \in Nat : \A s \in SUBSET D : Cardinality(s) = n => s \in P}
<1>0. \A s \in SUBSET D : IsFiniteSet(s) /\ Cardinality(s) \in Nat
  BY FS_Subset, FS_CardinalityType
<1>1. 0 \in Q
  <2>1. \A s \in SUBSET D : Cardinality(s) = 0 => s = {}
    BY <1>0, FS_EmptySet
  <2> QED
    BY <2>1
<1>2. \A n \in Nat : n \in Q => n + 1 \in Q
  <2> SUFFICES ASSUME NEW n \in Nat, n \in Q, NEW s \in SUBSET D, Cardinality(s) = n + 1
               PROVE  s \in P
    OBVIOUS
  <2>1. ASSUME NEW y \in s PROVE s \ {y} \in P
    <3>1. Cardinality(s \ {y}) = n
      BY <1>0, FS_RemoveElement
    <3> QED
      BY <3>1
  <2> QED
    BY <2>1
<1> HIDE DEF Q
<1>3. \A n \in Nat : n \in Q
  BY <1>1, <1>2, Induction
<1> QED
  BY <1>0, <1>3 DEF Q

Picked(s) == CHOOSE x \in s : TRUE

\* The sum of f over a subset with the one before it, and the sums of f over
\* the subsets of S, as MapThenSumSet takes them.
Added(iter, f, s) == IF s = {} THEN 0 ELSE f[Picked(s)] + iter[s \ {Picked(s)}]
Adds(iter, f, S) == iter = [s \in SUBSET S |-> Added(iter, f, s)]

Weights(D, f) == IsFiniteSet(D) /\ f \in [D -> Nat]

LEMMA AddsExists ==
  ASSUME NEW S, NEW f, Weights(S, f)
  PROVE  \E iter : Adds(iter, f, S)
<1> DEFINE V == [SUBSET S -> Nat]
           base == [s \in SUBSET S |-> 0]
           step == [p \in V \X Nat |-> [s \in SUBSET S |-> Added(p[1], f, s)]]
           N == Cardinality(S)
<1>0. /\ N \in Nat
      /\ \A s \in SUBSET S : IsFiniteSet(s) /\ Cardinality(s) \in Nat /\ Cardinality(s) <= N
  BY FS_Subset, FS_CardinalityType DEF Weights
<1>1. \A g \in V, s \in SUBSET S : Added(g, f, s) \in Nat
  <2> SUFFICES ASSUME NEW g \in V, NEW s \in SUBSET S, s # {}
               PROVE  f[Picked(s)] + g[s \ {Picked(s)}] \in Nat
    BY DEF Added
  <2>1. Picked(s) \in S /\ s \ {Picked(s)} \in SUBSET S
    BY DEF Picked
  <2>2. f[Picked(s)] \in Nat /\ g[s \ {Picked(s)}] \in Nat
    BY <2>1 DEF Weights
  <2> QED
    BY <2>2
<1>2. base \in V /\ step \in [V \X Nat -> V]
  <2>1. base \in V
    OBVIOUS
  <2>2. \A p \in V \X Nat : p[1] \in V
    OBVIOUS
  <2> HIDE DEF V
  <2>3. \A p \in V \X Nat : [s \in SUBSET S |-> Added(p[1], f, s)] \in V
    BY <1>1, <2>2 DEF V
  <2> QED
    BY <2>1, <2>3
<1>3. PICK F : Recurs(F, V, base, step)
  <2> HIDE DEF V, base, step
  <2> QED
    BY <1>2, RecursionExists
<1>4. /\ \A n \in Nat : F[n] \in V
      /\ F[0] = base
      /\ \A n \in Nat : F[n + 1] = [s \in SUBSET S |-> Added(F[n], f, s)]
  <2>1. F \in [Nat -> V] /\ F[0] = base /\ \A n \in Nat \ {0} : F[n] = step[<<F[n - 1], n>>]
    <3> HIDE DEF V, base, step
    <3> QED
      BY <1>3 DEF Recurs
  <2> HIDE DEF V, base
  <2>2. ASSUME NEW n \in Nat PROVE F[n + 1] = [s \in SUBSET S |-> Added(F[n], f, s)]
    <3>1. n + 1 \in Nat \ {0} /\ (n + 1) - 1 = n
      OBVIOUS
    <3>2. F[n + 1] = step[<<F[n], n + 1>>]
      <4> HIDE DEF step
      <4> QED
        BY <2>1, <3>1
    <3>3. <<F[n], n + 1>> \in V \X Nat
      BY <2>1
    <3> QED
      BY <3>2, <3>3
  <2> QED
    BY <2>1, <2>2
\* After as many steps as a subset has members, its sum changes no more.
<1> DEFINE P == {s \in SUBSET S : \A n \in Nat : Cardinality(s) <= n => F[n + 1][s] = F[n][s]}
<1>5. ASSUME NEW s \in SUBSET S, \A y \in s : s \ {y} \in P PROVE s \in P
  <2> SUFFICES ASSUME NEW n \in Nat, Cardinality(s) <= n PROVE F[n + 1][s] = F[n][s]
    OBVIOUS
  <2>0. F[n + 1][s] = Added(F[n], f, s)
    BY <1>4
  <2>1. CASE n = 0
    <3>1. s = {}
      BY <1>0, <2>1, FS_EmptySet
    <3>2. F[n][s] = 0
      BY <1>4, <2>1
    <3> QED
      BY <2>0, <3>1, <3>2 DEF Added
  <2>2. CASE n # 0
    <3>1. n - 1 \in Nat /\ (n - 1) + 1 = n
      BY <2>2
    <3>2. F[n][s] = Added(F[n - 1], f, s)
      <4>1. F[(n - 1) + 1] = [r \in SUBSET S |-> Added(F[n - 1], f, r)]
        BY <1>4, <3>1
      <4>2. F[n] = [r \in SUBSET S |-> Added(F[n - 1], f, r)]
        BY <3>1, <4>1
      <4> QED
        BY <4>2
    <3>3. CASE s = {}
      BY <2>0, <3>2, <3>3 DEF Added
    <3>4. CASE s # {}
      <4> DEFINE y == Picked(s)
      <4>1. y \in s
        BY <3>4 DEF Picked
      <4>2. s \ {y} \in P
        BY <1>5, <4>1
      <4>3. Cardinality(s \ {y}) <= n - 1
        BY <1>0, <4>1, FS_RemoveElement
      <4>4. F[(n - 1) + 1][s \ {y}] = F[n - 1][s \ {y}]
        BY <3>1, <4>2, <4>3
      <4> QED
        BY <2>0, <3>1, <3>2, <3>4, <4>4 DEF Added
    <3> QED
      BY <3>3, <3>4
  <2> QED
    BY <2>1, <2>2
<1> HIDE DEF P
<1>6. \A s \in SUBSET S : s \in P
  BY <1>5, SubsetInduction DEF Weights
<1> HIDE DEF V
<1>7. \A s \in SUBSET S : F[N + 1][s] = F[N][s]
  BY <1>0, <1>6 DEF P
<1>8. F[N] = [s \in SUBSET S |-> Added(F[N], f, s)]
  <2>1. \A s \in SUBSET S : F[N][s] = Added(F[N], f, s)
    BY <1>0, <1>4, <1>7
  <2>2. F[N] = [s \in SUBSET S |-> F[N][s]]
    BY <1>0, <1>4 DEF V
  <2> QED
    BY <2>1, <2>2
<1> QED
  BY <1>8 DEF Adds

\* Sums over subsets do not depend on which larger set they are taken in.
LEMMA AddsAgree ==
  ASSUME NEW D, NEW S \in SUBSET D, NEW f, IsFiniteSet(D), NEW g, NEW h,
         Adds(g, f, S), Adds(h, f, D)
  PROVE  g[S] = h[S]
<1> DEFINE P == {s \in SUBSET S : g[s] = h[s]}
<1>0. IsFiniteSet(S)
  BY FS_Subset
<1>1. ASSUME NEW s \in SUBSET S, \A y \in s : s \ {y} \in P PROVE s \in P
  <2>1. g[s] = Added(g, f, s) /\ h[s] = Added(h, f, s)
    BY DEF Adds
  <2>2. s # {} => g[s \ {Picked(s)}] = h[s \ {Picked(s)}]
    BY <1>1 DEF Picked
  <2> QED
    BY <2>1, <2>2 DEF Added
<1> HIDE DEF P
<1>2. \A s \in SUBSET S : s \in P
  BY <1>0, <1>1, SubsetInduction
<1> QED
  BY <1>2 DEF P

\* Any member may be taken out first.
Sums(h, D, f) == /\ h \in [SUBSET D -> Nat]
                 /\ h[{}] = 0
                 /\ \A s \in SUBSET D : \A x \in s : h[s] = f[x] + h[s \ {x}]

LEMMA AddsTyped ==
  ASSUME NEW D, NEW f, Weights(D, f), NEW h, Adds(h, f, D)
  PROVE  h \in [SUBSET D -> Nat]
<1>0. \A s \in SUBSET D : h[s] = Added(h, f, s)
  BY DEF Adds
<1> DEFINE P == {s \in SUBSET D : h[s] \in Nat}
<1>1. ASSUME NEW s \in SUBSET D, \A y \in s : s \ {y} \in P PROVE s \in P
  <2>1. CASE s = {}
    BY <1>0, <2>1 DEF Added
  <2>2. CASE s # {}
    <3>1. Picked(s) \in s
      BY <2>2 DEF Picked
    <3>2. f[Picked(s)] \in Nat /\ h[s \ {Picked(s)}] \in Nat
      BY <1>1, <3>1 DEF Weights
    <3>3. h[s] = f[Picked(s)] + h[s \ {Picked(s)}]
      BY <1>0, <2>2 DEF Added
    <3>4. h[s] \in Nat
      BY <3>2, <3>3
    <3> QED
      BY <3>4
  <2> QED
    BY <2>1, <2>2
<1> HIDE DEF P
<1>2. \A s \in SUBSET D : s \in P
  BY <1>1, SubsetInduction DEF Weights
<1> QED
  BY <1>2 DEF P, Adds

LEMMA AddsInAnyOrder ==
  ASSUME NEW D, NEW f, Weights(D, f), NEW h, Adds(h, f, D)
  PROVE  Sums(h, D, f)
<1>0. /\ \A s \in SUBSET D : h[s] = Added(h, f, s)
      /\ h \in [SUBSET D -> Nat]
  BY AddsTyped DEF Adds
<1> DEFINE P == {s \in SUBSET D : \A x \in s : h[s] = f[x] + h[s \ {x}]}
<1>1. ASSUME NEW s \in SUBSET D, \A y \in s : s \ {y} \in P PROVE s \in P
  <2>1. CASE s = {}
    BY <1>0, <2>1 DEF Added
  <2>2. CASE s # {}
    <3> DEFINE y == Picked(s)
    <3>1. y \in s
      BY <2>2 DEF Picked
    <3>2. h[s] = f[y] + h[s \ {y}]
      BY <1>0, <2>2 DEF Added
    <3> HIDE DEF y
    <3>3. f[y] \in Nat /\ h[s \ {y}] \in Nat
      BY <1>0, <3>1 DEF Weights
    <3>4. ASSUME NEW x \in s, x # y PROVE h[s] = f[x] + h[s \ {x}]
      <4>1. h[s \ {y}] = f[x] + h[(s \ {y}) \ {x}]
        BY <1>1, <3>1, <3>4
      <4>2. h[s \ {x}] = f[y] + h[(s \ {x}) \ {y}]
        BY <1>1, <3>1, <3>4
      <4>3. (s \ {y}) \ {x} = (s \ {x}) \ {y}
        OBVIOUS
      <4>4. f[x] \in Nat /\ f[y] \in Nat
        BY <3>1 DEF Weights
      <4>5. h[(s \ {x}) \ {y}] \in Nat
        BY <1>0
      <4>6. h[s \ {y}] = f[x] + h[(s \ {x}) \ {y}]
        BY <4>1, <4>3
      <4> DEFINE a == f[x]
                 b == f[y]
                 c == h[(s \ {x}) \ {y}]
      <4>7. a \in Nat /\ b \in Nat /\ c \in Nat
        BY <4>4, <4>5
      <4>8. h[s] = b + (a + c) /\ h[s \ {x}] = b + c
        BY <3>2, <4>2, <4>6
      <4> HIDE DEF a, b, c
      <4>9. h[s] = a + h[s \ {x}]
        BY <4>7, <4>8
      <4> QED
        BY <4>9 DEF a
    <3> QED
      BY <3>2, <3>3, <3>4
  <2> QED
    BY <2>1, <2>2
<1> HIDE DEF P
<1>2. \A s \in SUBSET D : s \in P
  BY <1>1, SubsetInduction DEF Weights
<1> QED
  BY <1>0, <1>2 DEF P, Sums, Added

\* A part sums up to no more than the whole.
LEMMA PartIsSmaller ==
  ASSUME NEW D, NEW f, Weights(D, f), NEW h, Sums(h, D, f)
  PROVE  \A s \in SUBSET D : h[s] <= h[D]
<1> DEFINE P == {t \in SUBSET D : \A s \in SUBSET t : h[s] <= h[t]}
<1>0. \A s \in SUBSET D : h[s] \in Nat
  BY DEF Sums
<1>1. ASSUME NEW t \in SUBSET D, \A y \in t : t \ {y} \in P PROVE t \in P
  <2> SUFFICES ASSUME NEW s \in SUBSET t PROVE h[s] <= h[t]
    OBVIOUS
  <2>1. CASE s = t
    BY <1>0, <2>1
  <2>2. CASE s # t
    <3>1. PICK y \in t : y \notin s
      BY <2>2
    <3>2. h[s] <= h[t \ {y}]
      BY <1>1, <3>1
    <3>3. h[t] = f[y] + h[t \ {y}]
      BY DEF Sums
    <3>4. f[y] \in Nat /\ h[s] \in Nat /\ h[t \ {y}] \in Nat
      BY <1>0 DEF Weights
    <3> QED
      BY <3>2, <3>3, <3>4
  <2> QED
    BY <2>1, <2>2
<1> HIDE DEF P
<1>2. \A t \in SUBSET D : t \in P
  BY <1>1, SubsetInduction DEF Weights
<1> QED
  BY <1>2 DEF P

-----------------------------------------------------------------------------
\* The optimizer gate.

Sequences(n) == [1..n -> Items]
AnyLists == UNION {Sequences(n) : n \in Nat}

LEMMA ItemTypes ==
  ASSUME NEW items \in AnyLists
  PROVE  /\ Len(items) \in Nat /\ DOMAIN items = 1..Len(items)
         /\ IsFiniteSet(DOMAIN items)
         /\ \A n \in DOMAIN items : items[n] \in Items /\ items[n].kw \in Int
<1>1. PICK n \in Nat : items \in [1..n -> Items]
  BY DEF AnyLists, Sequences
<1>2. n \in Nat
  BY GateAssumption
<1>3. Len(items) = n
  BY <1>1, <1>2
<1>4. IsFiniteSet(1..n)
  BY <1>2, FS_Interval
<1> QED
  BY <1>1, <1>2, <1>3, <1>4, GateAssumption

\* What any of the items draw together, if none is negative.
LEMMA AggregateBounds ==
  ASSUME NEW items \in AnyLists, ~NegativeRequest(items)
  PROVE  \A S \in SUBSET DOMAIN items :
           Aggregate(items, S) \in Nat /\ Aggregate(items, S) <= Total(items)
<1> DEFINE D == DOMAIN items
           f == [n \in D |-> items[n].kw]
           Iter(iter, S) == iter = [s \in SUBSET S |->
             IF s = {} THEN 0
             ELSE items[CHOOSE x \in s : TRUE].kw + iter[s \ {CHOOSE x \in s : TRUE}]]
           it(S) == CHOOSE iter : Iter(iter, S)
<1>1. Weights(D, f)
  <2>1. \A n \in D : items[n].kw \in Nat
    BY ItemTypes DEF NegativeRequest
  <2> QED
    BY <2>1, ItemTypes DEF Weights
<1>2. \A S : Aggregate(items, S) = it(S)[S]
  BY DEF Aggregate, MapThenSumSet, MapThenFoldSet
<1>3. ASSUME NEW S \in SUBSET D PROVE Adds(it(S), f, S)
  <2>1. ASSUME NEW iter PROVE Iter(iter, S) <=> Adds(iter, f, S)
    <3>1. ASSUME NEW s \in SUBSET S
          PROVE  Added(iter, f, s) =
                   IF s = {} THEN 0
                   ELSE items[CHOOSE x \in s : TRUE].kw + iter[s \ {CHOOSE x \in s : TRUE}]
      <4>1. s # {} => Picked(s) \in D
        BY DEF Picked
      <4>2. s # {} => f[Picked(s)] = items[Picked(s)].kw
        BY <4>1
      <4> HIDE DEF f
      <4> QED
        BY <4>2 DEF Added, Picked
    <3> HIDE DEF f
    <3> QED
      BY <3>1 DEF Adds
  <2>2. Weights(S, [n \in S |-> f[n]])
    BY <1>1, FS_Subset DEF Weights
  <2>3. PICK g : Adds(g, [n \in S |-> f[n]], S)
    BY <2>2, AddsExists
  <2>4. Adds(g, f, S)
    <3>1. ASSUME NEW s \in SUBSET S PROVE Added(g, [n \in S |-> f[n]], s) = Added(g, f, s)
      BY DEF Added, Picked
    <3> HIDE DEF f
    <3> QED
      BY <2>3, <3>1 DEF Adds
  <2> HIDE DEF f, Iter
  <2> QED
    BY <2>1, <2>4
<1> HIDE DEF it, f
<1>4. Adds(it(D), f, D)
  BY <1>3
<1>5. Sums(it(D), D, f)
  BY <1>1, <1>4, AddsInAnyOrder
<1>6. ASSUME NEW S \in SUBSET D PROVE Aggregate(items, S) = it(D)[S]
  <2>1. IsFiniteSet(D)
    BY <1>1 DEF Weights
  <2>2. it(S)[S] = it(D)[S]
    BY <1>3, <1>4, <2>1, AddsAgree
  <2> QED
    BY <1>2, <2>2
<1>7. \A s \in SUBSET D : it(D)[s] <= it(D)[D]
  BY <1>1, <1>5, PartIsSmaller
<1> QED
  BY <1>5, <1>6, <1>7 DEF Sums, Total

-----------------------------------------------------------------------------
Keys == Int \X Int \X Int

LEMMA KeyOrder ==
  ASSUME NEW a \in Keys, NEW b \in Keys
  PROVE  KeyLess(a, b) <=> \/ a[1] < b[1]
                           \/ a[1] = b[1] /\ a[2] < b[2]
                           \/ a[1] = b[1] /\ a[2] = b[2] /\ a[3] < b[3]
<1>1. 1..3 = {1, 2, 3} /\ 1..(1 - 1) = {} /\ 1..(2 - 1) = {1} /\ 1..(3 - 1) = {1, 2}
  OBVIOUS
<1> QED
  BY <1>1 DEF KeyLess

LEMMA KeyTypes ==
  ASSUME NEW items \in AnyLists, NEW strategy \in Strategies, NEW n \in DOMAIN items
  PROVE  Key(strategy, items[n]) \in Keys
BY ItemTypes, GateAssumption DEF Key, Keys, Strategies

\* Any two positions are in one order, and never in both.
LEMMA BeforeIsTotal ==
  ASSUME NEW items \in AnyLists, NEW strategy \in Strategies,
         NEW l \in DOMAIN items, NEW m \in DOMAIN items, NEW n \in DOMAIN items
  PROVE  /\ ~Before(strategy, items, m, m)
         /\ m # n => Before(strategy, items, m, n) \/ Before(strategy, items, n, m)
         /\ Before(strategy, items, l, m) /\ Before(strategy, items, m, n)
              => Before(strategy, items, l, n)
<1> DEFINE a == Key(strategy, items[l])
           b == Key(strategy, items[m])
           c == Key(strategy, items[n])
<1>1. a \in Keys /\ b \in Keys /\ c \in Keys
  BY KeyTypes
<1>2. l \in Int /\ m \in Int /\ n \in Int
  BY ItemTypes
<1>3. /\ Before(strategy, items, m, m) <=> KeyLess(b, b) \/ (b = b /\ m < m)
      /\ Before(strategy, items, m, n) <=> KeyLess(b, c) \/ (b = c /\ m < n)
      /\ Before(strategy, items, n, m) <=> KeyLess(c, b) \/ (c = b /\ n < m)
      /\ Before(strategy, items, l, m) <=> KeyLess(a, b) \/ (a = b /\ l < m)
      /\ Before(strategy, items, l, n) <=> KeyLess(a, c) \/ (a = c /\ l < n)
  BY DEF Before
<1> HIDE DEF a, b, c
<1>4. ~KeyLess(b, b)
  BY <1>1, KeyOrder DEF Keys
<1>5. b = c \/ KeyLess(b, c) \/ KeyLess(c, b)
  BY <1>1, KeyOrder DEF Keys
<1>6. KeyLess(a, b) /\ KeyLess(b, c) => KeyLess(a, c)
  BY <1>1, KeyOrder DEF Keys
<1> QED
  BY <1>2, <1>3, <1>4, <1>5, <1>6

\* The places of the items are 1, 2 and so on, each taken once.
LEMMA ProposalTypes ==
  ASSUME NEW items \in AnyLists, NEW strategy \in Strategies
  PROVE  Proposal(strategy, items) \in AnyLists
<1> DEFINE D == DOMAIN items
           earlier(n) == {m \in D : Before(strategy, items, m, n)}
           place == [n \in D |-> Cardinality(earlier(n)) + 1]
<1>0. IsFiniteSet(D) /\ Len(items) \in Nat /\ D = 1..Len(items) /\ Cardinality(D) = Len(items)
  <2>1. \A k \in Nat : Cardinality(1..k) = k
    BY FS_Interval
  <2> QED
    BY <2>1, ItemTypes
<1>1. \A n \in D : earlier(n) \in SUBSET D /\ n \notin earlier(n)
  BY BeforeIsTotal
<1>2. \A n \in D : IsFiniteSet(earlier(n)) /\ Cardinality(earlier(n)) \in Nat
  BY <1>0, FS_Subset, FS_CardinalityType
<1>3. place \in [D -> D]
  <2> SUFFICES ASSUME NEW n \in D PROVE Cardinality(earlier(n)) + 1 \in D
    OBVIOUS
  <2>1. earlier(n) \in SUBSET D /\ earlier(n) # D
    BY <1>1
  <2> HIDE DEF earlier, D
  <2>2. Cardinality(earlier(n)) < Cardinality(D)
    BY <1>0, <1>2, <2>1, FS_Subset, FS_CardinalityType
  <2> QED
    BY <1>0, <1>2, <2>2
<1>4. ASSUME NEW m \in D, NEW n \in D, Before(strategy, items, m, n)
      PROVE  Cardinality(earlier(m)) < Cardinality(earlier(n))
  <2>1. earlier(m) \subseteq earlier(n)
    BY <1>4, BeforeIsTotal
  <2>2. m \in earlier(n) /\ m \notin earlier(m)
    BY <1>1, <1>4
  <2> HIDE DEF earlier
  <2> QED
    BY <1>2, <2>1, <2>2, FS_Subset
<1>5. \A m, n \in D : m # n => place[m] # place[n]
  <2> SUFFICES ASSUME NEW m \in D, NEW n \in D, m # n PROVE place[m] # place[n]
    OBVIOUS
  <2>1. Before(strategy, items, m, n) \/ Before(strategy, items, n, m)
    BY BeforeIsTotal
  <2>2. Cardinality(earlier(m)) # Cardinality(earlier(n))
    <3> HIDE DEF earlier
    <3> QED
      BY <1>2, <1>4, <2>1
  <2> HIDE DEF earlier
  <2> QED
    BY <1>2, <2>2
<1>6. place \in Injection(D, D)
  <2> HIDE DEF place
  <2> QED
    BY <1>3, <1>5 DEF Injection, IsInjective
<1>7. place \in Surjection(D, D)
  <2> HIDE DEF place, D
  <2> QED
    BY <1>0, <1>6, FS_Injection
<1>8. \A k \in D : \E n \in D : Cardinality(earlier(n)) + 1 = k
  BY <1>7 DEF Surjection
<1>9. ASSUME NEW k \in D
      PROVE  items[CHOOSE n \in D : Cardinality(earlier(n)) + 1 = k] \in Items
  BY <1>8, ItemTypes
<1>10. Proposal(strategy, items) =
         [k \in D |-> items[CHOOSE n \in D : Cardinality(earlier(n)) + 1 = k]]
  BY DEF Proposal
<1> HIDE DEF D, earlier
<1>11. Proposal(strategy, items) \in [D -> Items]
  BY <1>9, <1>10
<1>12. PICK n \in Nat : items \in [1..n -> Items]
  BY DEF AnyLists, Sequences
<1>13. D = 1..n
  BY <1>12 DEF D
<1> QED
  BY <1>11, <1>13 DEF AnyLists, Sequences

\* What the gate has put in force.
InForce == schedule \in AnyLists /\ trusted \in BOOLEAN /\ ScheduleWithinCeiling

LEMMA ListsAreLists == \A n \in Nat : Lists(n) \subseteq AnyLists
BY DEF Lists, AnyLists, Sequences

LEMMA EmptyInList == <<>> \in AnyLists
<1>1. 0 \in Nat /\ <<>> \in [1..0 -> Items]
  OBVIOUS
<1> QED
  BY <1>1 DEF AnyLists, Sequences

\* A list that admit has no objection to is within the ceiling, whatever part
\* of it is drawn.
LEMMA AdmittedIsWithin ==
  ASSUME NEW items \in AnyLists, Objections(items) = "admitted"
  PROVE  WithinCeiling(items)
<1>1. /\ ~NegativeRequest(items)
      /\ ~(Total(items) > Ceiling)
      /\ ~QueueTooLong(items)
  BY DEF Objections
<1>2. \A S \in SUBSET DOMAIN items :
        Aggregate(items, S) \in Nat /\ Aggregate(items, S) <= Total(items)
  BY <1>1, AggregateBounds
<1>3. Total(items) \in Nat
  BY <1>2 DEF Total
<1>4. \A S \in SUBSET DOMAIN items : Aggregate(items, S) \in 0..Ceiling
  BY <1>1, <1>2, <1>3, GateAssumption
<1>5. \A c \in QueueCapacity : Len(items) <= c
  <2>1. Len(items) \in Nat /\ \A c \in QueueCapacity : c \in Nat
    BY ItemTypes, GateAssumption
  <2>2. \A c \in QueueCapacity : ~(Len(items) > c)
    BY <1>1 DEF QueueTooLong
  <2> QED
    BY <2>1, <2>2
<1> QED
  BY <1>4, <1>5 DEF WithinCeiling

\* The empty schedule, which the gate starts from, is within every ceiling.
LEMMA EmptyIsWithin == WithinCeiling(<<>>)
<1>1. \A S \in SUBSET DOMAIN <<>> : Aggregate(<<>>, S) \in 0..Ceiling
  <2> DEFINE e == <<>>
             iter == [s \in SUBSET {} |-> 0]
  <2>1. Aggregate(e, {}) = 0
    <3> DEFINE Solves(g) == g = [s \in SUBSET {} |->
                 IF s = {} THEN 0
                 ELSE e[CHOOSE x \in s : TRUE].kw + g[s \ {CHOOSE x \in s : TRUE}]]
    <3>1. Solves(iter)
      OBVIOUS
    <3>2. Solves(CHOOSE g : Solves(g))
      BY <3>1
    <3>3. (CHOOSE g : Solves(g))[{}] = 0
      <4> DEFINE c == CHOOSE g : Solves(g)
      <4>1. Solves(c)
        BY <3>2
      <4> HIDE DEF c
      <4>2. c[{}] = 0
        BY <4>1
      <4> QED
        BY <4>2 DEF c
    <3>4. Aggregate(e, {}) = (CHOOSE g : Solves(g))[{}]
      BY DEF Aggregate, MapThenSumSet, MapThenFoldSet
    <3> HIDE DEF Solves
    <3> QED
      BY <3>3, <3>4
  <2>2. DOMAIN e = {}
    OBVIOUS
  <2> HIDE DEF e
  <2>3. \A S \in SUBSET DOMAIN e : Aggregate(e, S) \in 0..Ceiling
    <3>1. 0 \in 0..Ceiling
      BY GateAssumption
    <3>2. \A S \in SUBSET DOMAIN e : S = {}
      BY <2>2
    <3> QED
      BY <2>1, <3>1, <3>2
  <2> QED
    BY <2>3 DEF e
<1>2. \A c \in QueueCapacity : Len(<<>>) <= c
  BY GateAssumption
<1> QED
  BY <1>1, <1>2 DEF WithinCeiling

\* Whatever list a verdict is given on, and whatever fallback the caller gives:
\* unless that was one the gate would have refused, what is in force is within
\* the ceiling.
LEMMA DisposeKeeps ==
  ASSUME InForce, NEW items \in AnyLists, Dispose(items)
  PROVE  InForce'
<1>1. CASE Admit(items)
  <2>1. schedule' = items /\ trusted' = TRUE /\ Objections(items) = "admitted"
    BY <1>1 DEF Admit
  <2>2. WithinCeiling(items)
    BY <2>1, AdmittedIsWithin
  <2> QED
    BY <2>1, <2>2 DEF InForce, ScheduleWithinCeiling, WithinCeiling
<1>2. ASSUME NEW fallback \in Lists(MaxFallback) \cup {schedule}, Refuse(items, fallback)
      PROVE  InForce'
  <2>1. /\ schedule' = fallback
        /\ trusted' = IF fallback = schedule THEN trusted ELSE Objections(fallback) = "admitted"
    BY <1>2 DEF Refuse
  <2>2. fallback \in AnyLists
    BY <1>2, ListsAreLists, GateAssumption DEF InForce
  <2>3. trusted' => WithinCeiling(fallback)
    BY <2>1, <2>2, AdmittedIsWithin DEF InForce, ScheduleWithinCeiling
  <2>4. trusted' \in BOOLEAN
    BY <2>1 DEF InForce
  <2> QED
    BY <2>1, <2>2, <2>3, <2>4 DEF InForce, ScheduleWithinCeiling, WithinCeiling
<1> QED
  BY <1>1, <1>2 DEF Dispose

\* For every ceiling, queue and list of requests, whatever was admitted or
\* refused before, and whatever fallbacks were given, unless the one in force is
\* a list the gate would have refused: what is in force is within the ceiling,
\* whichever of its sessions draw at the same time, and within the queue
\* (gate.py admit).
THEOREM GateKeepsCeiling == GateSpec => []ScheduleWithinCeiling
<1>1. GateInit => InForce
  BY EmptyInList, EmptyIsWithin DEF GateInit, InForce, ScheduleWithinCeiling
<1>2. InForce /\ [GateNext]_gateVars => InForce'
  <2> SUFFICES ASSUME InForce, [GateNext]_gateVars PROVE InForce'
    OBVIOUS
  <2>1. CASE GateNext
    <3>1. PICK items \in Lists(MaxItems) :
            Dispose(items) \/ \E strategy \in Strategies : Dispose(Proposal(strategy, items))
      BY <2>1 DEF GateNext
    <3>2. items \in AnyLists
      BY ListsAreLists, GateAssumption
    <3> QED
      BY <3>1, <3>2, DisposeKeeps, ProposalTypes
  <2>2. CASE UNCHANGED gateVars
    BY <2>2 DEF gateVars, InForce, ScheduleWithinCeiling, WithinCeiling
  <2> QED
    BY <2>1, <2>2
<1>3. InForce => ScheduleWithinCeiling
  BY DEF InForce
<1> QED
  BY <1>1, <1>2, <1>3, PTL DEF GateSpec

-----------------------------------------------------------------------------
\* The queue models.

\* The balance of the first i operations of w, and what one operation adds.
BalanceOf(w, i) == Occurrences("enq", SubSeq(w, 1, i)) - Occurrences("deq", SubSeq(w, 1, i))
Change(op) == IF op = "enq" THEN 1 ELSE -1

IsAt(w, op, i) == w[i] = op
Among(w, op, i) == {j \in 1..i : w[j] = op}

LEMMA OccurrencesAmong ==
  ASSUME NEW w \in Seq(Operations), NEW op, NEW i \in 0..Len(w)
  PROVE  Occurrences(op, SubSeq(w, 1, i)) = Cardinality(Among(w, op, i))
<1>1. DOMAIN SubSeq(w, 1, i) = 1..i /\ \A j \in 1..i : SubSeq(w, 1, i)[j] = w[j]
  OBVIOUS
<1>2. {j \in DOMAIN SubSeq(w, 1, i) : SubSeq(w, 1, i)[j] = op} = Among(w, op, i)
  BY <1>1 DEF Among
<1> QED
  BY <1>2 DEF Occurrences

LEMMA OccurrencesGrow ==
  ASSUME NEW w, NEW op, NEW i \in Nat
  PROVE  /\ Cardinality(Among(w, op, 0)) = 0
         /\ Cardinality(Among(w, op, i)) \in Nat
         /\ Cardinality(Among(w, op, i + 1)) =
              Cardinality(Among(w, op, i)) + (IF IsAt(w, op, i + 1) THEN 1 ELSE 0)
<1>1. Among(w, op, 0) = {}
  BY DEF Among
<1>2. IsFiniteSet(Among(w, op, i))
  <2>1. IsFiniteSet(1..i)
    BY FS_Interval
  <2> QED
    BY <2>1, FS_Subset DEF Among
<1>3. Among(w, op, i + 1) =
        IF w[i + 1] = op THEN Among(w, op, i) \cup {i + 1} ELSE Among(w, op, i)
  <2>1. 1..(i + 1) = (1..i) \cup {i + 1}
    OBVIOUS
  <2> QED
    BY <2>1 DEF Among
<1>4. i + 1 \notin Among(w, op, i)
  BY DEF Among
<1>5. Cardinality(Among(w, op, 0)) = 0 /\ Cardinality(Among(w, op, i)) \in Nat
  BY <1>1, <1>2, FS_EmptySet, FS_CardinalityType
<1>6. CASE w[i + 1] = op
  <2>1. Cardinality(Among(w, op, i) \cup {i + 1}) = Cardinality(Among(w, op, i)) + 1
    BY <1>2, <1>4, FS_AddElement
  <2> QED
    BY <1>3, <1>5, <1>6, <2>1 DEF IsAt
<1>7. CASE w[i + 1] # op
  BY <1>3, <1>5, <1>7 DEF IsAt
<1> QED
  BY <1>6, <1>7

\* The balance starts at nothing and changes by one with every operation.
LEMMA BalanceSteps ==
  ASSUME NEW w \in Seq(Operations)
  PROVE  /\ BalanceOf(w, 0) = 0
         /\ \A i \in 0..Len(w) : BalanceOf(w, i) \in Int
         /\ \A i \in Nat : i < Len(w) => BalanceOf(w, i + 1) = BalanceOf(w, i) + Change(w[i + 1])
<1> DEFINE e(i) == Cardinality(Among(w, "enq", i))
           d(i) == Cardinality(Among(w, "deq", i))
<1>1. \A i \in 0..Len(w) : BalanceOf(w, i) = e(i) - d(i)
  BY OccurrencesAmong DEF BalanceOf
<1>2. e(0) = 0 /\ d(0) = 0 /\ \A i \in Nat : e(i) \in Nat /\ d(i) \in Nat
  BY OccurrencesGrow
<1>3. \A i \in Nat : /\ e(i + 1) = e(i) + (IF w[i + 1] = "enq" THEN 1 ELSE 0)
                     /\ d(i + 1) = d(i) + (IF w[i + 1] = "deq" THEN 1 ELSE 0)
  <2> TAKE i \in Nat
  <2>1. e(i + 1) = e(i) + (IF w[i + 1] = "enq" THEN 1 ELSE 0)
    <3>1. e(i + 1) = e(i) + (IF IsAt(w, "enq", i + 1) THEN 1 ELSE 0)
      BY OccurrencesGrow
    <3> QED
      BY <3>1 DEF IsAt
  <2>2. d(i + 1) = d(i) + (IF w[i + 1] = "deq" THEN 1 ELSE 0)
    <3>1. d(i + 1) = d(i) + (IF IsAt(w, "deq", i + 1) THEN 1 ELSE 0)
      BY OccurrencesGrow
    <3> QED
      BY <3>1 DEF IsAt
  <2> QED
    BY <2>1, <2>2
<1> HIDE DEF e, d
<1>4. Len(w) \in Nat
  OBVIOUS
<1>5. ASSUME NEW i \in Nat, i < Len(w)
      PROVE  BalanceOf(w, i + 1) = BalanceOf(w, i) + Change(w[i + 1])
  <2>1. w[i + 1] \in {"enq", "deq"} /\ i \in 0..Len(w) /\ i + 1 \in 0..Len(w)
    BY <1>4, <1>5 DEF Operations
  <2>2. e(i) \in Nat /\ d(i) \in Nat
    BY <1>2
  <2>3. BalanceOf(w, i) = e(i) - d(i) /\ BalanceOf(w, i + 1) = e(i + 1) - d(i + 1)
    BY <1>1, <2>1
  <2>4. CASE w[i + 1] = "enq"
    <3>1. e(i + 1) = e(i) + 1 /\ d(i + 1) = d(i) + 0 /\ Change(w[i + 1]) = 1
      BY <1>3, <2>4 DEF Change
    <3> QED
      BY <2>2, <2>3, <3>1
  <2>5. CASE w[i + 1] = "deq"
    <3>1. e(i + 1) = e(i) + 0 /\ d(i + 1) = d(i) + 1 /\ Change(w[i + 1]) = -1
      BY <1>3, <2>5 DEF Change
    <3> QED
      BY <2>2, <2>3, <3>1
  <2> QED
    BY <2>1, <2>4, <2>5
<1>6. \A i \in 0..Len(w) : BalanceOf(w, i) \in Int
  <2> SUFFICES ASSUME NEW i \in 0..Len(w) PROVE BalanceOf(w, i) \in Int
    OBVIOUS
  <2>1. e(i) \in Nat /\ d(i) \in Nat
    BY <1>2, <1>4
  <2> QED
    BY <1>1, <2>1
<1>7. BalanceOf(w, 0) = 0
  BY <1>1, <1>2, <1>4
<1> QED
  BY <1>5, <1>6, <1>7

\* An operation more leaves the balances before it as they were.
LEMMA BalanceLonger ==
  ASSUME NEW w \in Seq(Operations), NEW op \in Operations
  PROVE  /\ Append(w, op) \in Seq(Operations) /\ Len(Append(w, op)) = Len(w) + 1
         /\ \A i \in 0..Len(w) : BalanceOf(Append(w, op), i) = BalanceOf(w, i)
         /\ BalanceOf(Append(w, op), Len(w) + 1) = BalanceOf(w, Len(w)) + Change(op)
<1> DEFINE x == Append(w, op)
<1>1. x \in Seq(Operations) /\ Len(x) = Len(w) + 1 /\ x[Len(w) + 1] = op /\ Len(w) \in Nat
  OBVIOUS
<1>2. \A i \in 0..Len(w) : SubSeq(x, 1, i) = SubSeq(w, 1, i)
  OBVIOUS
<1> HIDE DEF x
<1>3. \A i \in 0..Len(w) : BalanceOf(x, i) = BalanceOf(w, i)
  BY <1>2 DEF BalanceOf
<1>4. BalanceOf(x, Len(w) + 1) = BalanceOf(x, Len(w)) + Change(op)
  BY <1>1, BalanceSteps
<1> QED
  BY <1>1, <1>3, <1>4 DEF x

-----------------------------------------------------------------------------
\* at is where the balance of w is first found outside allowed, if it is.
InsideTo(w, allowed, i) == \A k \in 0..i : BalanceOf(w, k) \in allowed
StopsAt(w, allowed, i) == InsideTo(w, allowed, i) /\ BalanceOf(w, i + 1) \notin allowed

Watches(at, w, allowed) ==
  \/ at = {} /\ InsideTo(w, allowed, Len(w))
  \/ \E i \in Nat : i < Len(w) /\ at = {i} /\ StopsAt(w, allowed, i)

LEMMA WatchGoesOn ==
  ASSUME NEW w \in Seq(Operations), NEW op \in Operations, NEW at, NEW allowed,
         Watches(at, w, allowed)
  PROVE  /\ at # {} => Watches(at, Append(w, op), allowed)
         /\ at = {} => IF BalanceOf(w, Len(w)) + Change(op) \in allowed
                       THEN Watches({}, Append(w, op), allowed)
                       ELSE Watches({Len(w)}, Append(w, op), allowed)
<1> DEFINE x == Append(w, op)
<1>1. Len(w) \in Nat /\ Len(x) = Len(w) + 1
  BY BalanceLonger
<1>2. \A i \in 0..Len(w) : BalanceOf(x, i) = BalanceOf(w, i)
  BY BalanceLonger
<1>3. BalanceOf(x, Len(w) + 1) = BalanceOf(w, Len(w)) + Change(op)
  BY BalanceLonger
<1> HIDE DEF x
<1>4. at # {} => Watches(at, x, allowed)
  <2> SUFFICES ASSUME at # {} PROVE Watches(at, x, allowed)
    OBVIOUS
  <2>1. PICK i \in Nat : i < Len(w) /\ at = {i} /\ StopsAt(w, allowed, i)
    BY DEF Watches
  <2>2. i + 1 \in 0..Len(w) /\ (\A k \in 0..i : k \in 0..Len(w)) /\ i < Len(x)
    BY <1>1, <2>1
  <2>3. StopsAt(x, allowed, i)
    BY <1>2, <2>1, <2>2 DEF StopsAt, InsideTo
  <2> QED
    BY <2>1, <2>2, <2>3 DEF Watches
<1>5. ASSUME at = {}
      PROVE  IF BalanceOf(w, Len(w)) + Change(op) \in allowed
             THEN Watches({}, x, allowed) ELSE Watches({Len(w)}, x, allowed)
  <2>1. InsideTo(x, allowed, Len(w))
    BY <1>2, <1>5 DEF Watches, InsideTo
  <2>2. CASE BalanceOf(w, Len(w)) + Change(op) \in allowed
    <3>1. 0..(Len(w) + 1) = (0..Len(w)) \cup {Len(w) + 1}
      BY <1>1
    <3>2. InsideTo(x, allowed, Len(x))
      BY <1>1, <1>3, <2>1, <2>2, <3>1 DEF InsideTo
    <3> QED
      BY <2>2, <3>2 DEF Watches
  <2>3. CASE BalanceOf(w, Len(w)) + Change(op) \notin allowed
    <3>1. StopsAt(x, allowed, Len(w))
      BY <1>3, <2>1, <2>3 DEF StopsAt
    <3>2. Len(w) < Len(x)
      BY <1>1
    <3> QED
      BY <1>1, <2>3, <3>1, <3>2 DEF Watches
  <2> QED
    BY <2>2, <2>3
<1> QED
  BY <1>4, <1>5 DEF x

\* That is what the reference looks for.
LEMMA WatchIsFirst ==
  ASSUME input \in Seq(Operations), NEW at, NEW allowed, Watches(at, input, allowed)
  PROVE  at = FirstOutside(allowed)
<1> DEFINE Outside == {j \in Positions : Balance(j) \notin allowed
                                           /\ \A k \in 0..(j - 1) : Balance(k) \in allowed}
<1>0. Len(input) \in Nat /\ FirstOutside(allowed) = {i - 1 : i \in Outside}
  BY DEF FirstOutside
<1>1. \A i : Balance(i) = BalanceOf(input, i)
  BY DEF Balance, BalanceOf
<1>2. CASE at = {} /\ InsideTo(input, allowed, Len(input))
  <2>1. Outside = {}
    BY <1>1, <1>2 DEF InsideTo, Positions
  <2> QED
    BY <1>0, <1>2, <2>1
<1>3. ASSUME NEW i \in Nat, i < Len(input), at = {i}, StopsAt(input, allowed, i)
      PROVE  at = FirstOutside(allowed)
  <2>1. i + 1 \in Outside
    <3>1. i + 1 \in Positions /\ (i + 1) - 1 = i
      BY <1>0, <1>3 DEF Positions
    <3>2. Balance(i + 1) \notin allowed /\ \A k \in 0..i : Balance(k) \in allowed
      BY <1>1, <1>3 DEF StopsAt, InsideTo
    <3> QED
      BY <3>1, <3>2
  <2>2. ASSUME NEW j \in Outside PROVE j = i + 1
    <3>1. j \in Nat /\ Balance(j) \notin allowed /\ \A k \in 0..(j - 1) : Balance(k) \in allowed
      BY <1>0 DEF Positions
    <3>2. ~(j <= i)
      BY <1>1, <1>3, <3>1 DEF StopsAt, InsideTo
    <3>3. ~(i + 1 <= j - 1)
      BY <1>1, <1>3, <3>1 DEF StopsAt
    <3> QED
      BY <3>1, <3>2, <3>3
  <2> HIDE DEF Outside
  <2>3. Outside = {i + 1}
    BY <2>1, <2>2
  <2> QED
    BY <1>0, <1>3, <2>3
<1> QED
  BY <1>2, <1>3 DEF Watches

-----------------------------------------------------------------------------
\* The counter and the stack watch the balance until they stop.

IsTrace(s, w, at) ==
  /\ s \in Seq(Nat)
  /\ \A j \in 1..Len(s) : j <= Len(w) + 1 /\ s[j] = BalanceOf(w, j - 1)
  /\ at = {} => Len(s) = Len(w) + 1

IsHeight(s, w, at) ==
  /\ s \in Seq({"H"})
  /\ at = {} => Len(s) = BalanceOf(w, Len(w))

QueueInv ==
  /\ input \in Seq(Operations)
  /\ Watches(counterAt, input, 0..Capacity)
  /\ Watches(stackAt, input, Nat)
  /\ IsTrace(states, input, counterAt)
  /\ IsHeight(stack, input, stackAt)

LEMMA InitQueueInv == QueueInit => QueueInv
<1> SUFFICES ASSUME QueueInit PROVE QueueInv
  OBVIOUS
<1> DEFINE e == <<>>
<1>1. e \in Seq(Operations) /\ Len(e) = 0 /\ e \in Seq({"H"})
  OBVIOUS
<1>2. input = e /\ states = <<0>> /\ stack = e /\ counterAt = {} /\ stackAt = {}
  BY DEF QueueInit
<1> HIDE DEF e
<1>3. BalanceOf(e, 0) = 0
  BY <1>1, BalanceSteps
<1>4. Watches(counterAt, input, 0..Capacity) /\ Watches(stackAt, input, Nat)
  BY <1>1, <1>2, <1>3, QueueAssumption DEF Watches, InsideTo
<1>5. IsTrace(states, input, counterAt)
  <2>1. states \in Seq(Nat) /\ Len(states) = 1 /\ states[1] = 0
    BY <1>2
  <2> QED
    BY <1>1, <1>2, <1>3, <2>1 DEF IsTrace
<1>6. IsHeight(stack, input, stackAt)
  BY <1>1, <1>2, <1>3 DEF IsHeight
<1> QED
  BY <1>1, <1>2, <1>4, <1>5, <1>6 DEF QueueInv

LEMMA ChangeType == \A op : Change(op) \in {-1, 1}
BY DEF Change

\* The counter's step is the change, if it stays inside.
LEMMA CounterFollows ==
  ASSUME NEW n \in 0..Capacity, NEW op \in Operations
  PROVE  CounterStep(n, op) = IF n + Change(op) \in 0..Capacity THEN {n + Change(op)} ELSE {}
<1>1. n \in Nat /\ n <= Capacity /\ Capacity \in Nat
  BY QueueAssumption
<1>2. CASE op = "enq"
  <2>1. Change(op) = 1 /\ CounterStep(n, op) = {n + 1} \cap 0..Capacity
    BY <1>2 DEF Change, CounterStep
  <2> QED
    BY <2>1
<1>3. CASE op = "deq"
  <2>1. Change(op) = -1 /\ CounterStep(n, op) = {n - 1} \cap Nat
    BY <1>3 DEF Change, CounterStep
  <2>2. n + (-1) = n - 1 /\ (n - 1 \in Nat <=> n - 1 \in 0..Capacity)
    BY <1>1
  <2> QED
    BY <2>1, <2>2
<1> QED
  BY <1>2, <1>3 DEF Operations

LEMMA CountKeeps ==
  ASSUME QueueInv, NEW op \in Operations, input' = Append(input, op), Count(op)
  PROVE  Watches(counterAt', input', 0..Capacity) /\ IsTrace(states', input', counterAt')
<1> DEFINE x == Append(input, op)
           last == states[Len(states)]
           next == CounterStep(last, op)
<1>0. /\ input \in Seq(Operations) /\ Watches(counterAt, input, 0..Capacity)
      /\ IsTrace(states, input, counterAt) /\ Len(input) \in Nat
  BY DEF QueueInv
<1>1. /\ x \in Seq(Operations) /\ Len(x) = Len(input) + 1
      /\ \A i \in 0..Len(input) : BalanceOf(x, i) = BalanceOf(input, i)
      /\ BalanceOf(x, Len(input) + 1) = BalanceOf(input, Len(input)) + Change(op)
  BY <1>0, BalanceLonger
<1>2. input' = x
  OBVIOUS
<1> HIDE DEF x
<1>3. ASSUME NEW at, at # {} PROVE IsTrace(states, x, at)
  <2>1. states \in Seq(Nat) /\ Len(states) \in Nat
    BY <1>0 DEF IsTrace
  <2>2. ASSUME NEW j \in 1..Len(states)
        PROVE  j <= Len(x) + 1 /\ states[j] = BalanceOf(x, j - 1)
    <3>1. j <= Len(input) + 1 /\ states[j] = BalanceOf(input, j - 1)
      BY <1>0 DEF IsTrace
    <3>2. j - 1 \in 0..Len(input) /\ j <= Len(x) + 1
      BY <1>0, <1>1, <2>1, <3>1
    <3> QED
      BY <1>1, <3>1, <3>2
  <2> QED
    BY <1>3, <2>1, <2>2 DEF IsTrace
<1>4. CASE counterAt # {}
  <2>1. states' = states /\ counterAt' = counterAt
    BY <1>4 DEF Count
  <2>2. Watches(counterAt, x, 0..Capacity)
    BY <1>0, <1>4, WatchGoesOn DEF x
  <2>3. IsTrace(states, x, counterAt)
    BY <1>3, <1>4
  <2> QED
    BY <1>2, <2>1, <2>2, <2>3
<1>5. CASE counterAt = {}
  <2>1. Len(states) = Len(input) + 1 /\ states \in Seq(Nat)
    BY <1>0, <1>5 DEF IsTrace
  <2>2. last = BalanceOf(input, Len(input)) /\ last \in 0..Capacity
    <3>1. Len(states) \in 1..Len(states) /\ Len(states) - 1 = Len(input)
      BY <1>0, <2>1
    <3>2. states[Len(states)] = BalanceOf(input, Len(states) - 1)
      BY <1>0, <3>1 DEF IsTrace
    <3>3. BalanceOf(input, Len(input)) \in 0..Capacity
      BY <1>0, <1>5 DEF Watches, InsideTo
    <3> QED
      BY <3>1, <3>2, <3>3
  <2> DEFINE n == last + Change(op)
  <2>3. next = IF n \in 0..Capacity THEN {n} ELSE {}
    BY <2>2, CounterFollows
  <2>4. IF n \in 0..Capacity THEN Watches({}, x, 0..Capacity)
        ELSE Watches({Len(input)}, x, 0..Capacity)
    BY <1>0, <1>5, <2>2, WatchGoesOn DEF x
  <2>5. IF next = {} THEN counterAt' = {Len(input)} /\ UNCHANGED states
        ELSE states' = Append(states, CHOOSE m \in next : TRUE) /\ UNCHANGED counterAt
    BY <1>5 DEF Count
  <2>6. BalanceOf(x, Len(input) + 1) = n
    BY <1>1, <2>2
  <2> HIDE DEF next, n, last
  <2>7. CASE n \in 0..Capacity
    <3>1. next = {n} /\ (CHOOSE m \in {n} : TRUE) = n
      BY <2>3, <2>7
    <3>2. states' = Append(states, n) /\ counterAt' = {}
      BY <1>5, <2>5, <3>1
    <3>3. n \in Nat
      BY <2>7, QueueAssumption
    <3> DEFINE s == Append(states, n)
    <3>4. s \in Seq(Nat) /\ Len(s) = Len(x) + 1 /\ Len(s) = Len(states) + 1
      BY <1>1, <2>1, <3>3
    <3>5. s[Len(states) + 1] = n /\ \A j \in 1..Len(states) : s[j] = states[j]
      BY <2>1, <3>3
    <3> HIDE DEF s
    <3>6. ASSUME NEW j \in 1..Len(s) PROVE j <= Len(x) + 1 /\ s[j] = BalanceOf(x, j - 1)
      <4>1. j <= Len(x) + 1
        BY <1>0, <1>1, <3>4
      <4>2. CASE j \in 1..Len(states)
        <5>1. states[j] = BalanceOf(input, j - 1)
          BY <1>0, <4>2 DEF IsTrace
        <5>2. j - 1 \in 0..Len(input)
          BY <1>0, <2>1, <4>2
        <5> QED
          BY <1>1, <3>5, <4>1, <4>2, <5>1, <5>2
      <4>3. CASE j = Len(states) + 1
        <5>1. j - 1 = Len(input) + 1
          BY <1>0, <2>1, <4>3
        <5> QED
          BY <2>6, <3>5, <4>1, <4>3, <5>1
      <4>4. j \in 1..Len(states) \/ j = Len(states) + 1
        BY <1>0, <2>1, <3>4
      <4> QED
        BY <4>2, <4>3, <4>4
    <3>7. IsTrace(s, x, {})
      BY <3>4, <3>6 DEF IsTrace
    <3>8. states' = s
      BY <3>2 DEF s
    <3> QED
      BY <1>2, <2>4, <2>7, <3>2, <3>7, <3>8
  <2>8. CASE n \notin 0..Capacity
    <3>1. states' = states /\ counterAt' = {Len(input)}
      BY <2>3, <2>5, <2>8
    <3>2. IsTrace(states, x, {Len(input)})
      BY <1>3
    <3> QED
      BY <1>2, <2>4, <2>8, <3>1, <3>2
  <2> QED
    BY <2>7, <2>8
<1> QED
  BY <1>4, <1>5

LEMMA PushKeeps ==
  ASSUME QueueInv, NEW op \in Operations, input' = Append(input, op), Push(op)
  PROVE  Watches(stackAt', input', Nat) /\ IsHeight(stack', input', stackAt')
<1> DEFINE x == Append(input, op)
           next == StackStep(stack, op)
           n == BalanceOf(input, Len(input))
<1>0. /\ input \in Seq(Operations) /\ Watches(stackAt, input, Nat)
      /\ IsHeight(stack, input, stackAt) /\ Len(input) \in Nat
  BY DEF QueueInv
<1>1. Len(x) = Len(input) + 1 /\ BalanceOf(x, Len(input) + 1) = n + Change(op)
  BY <1>0, BalanceLonger
<1>2. input' = x
  OBVIOUS
<1>3. CASE stackAt # {}
  <2>1. stack' = stack /\ stackAt' = stackAt
    BY <1>3 DEF Push
  <2>2. Watches(stackAt, x, Nat)
    BY <1>0, <1>3, WatchGoesOn
  <2>3. IsHeight(stack, x, stackAt)
    BY <1>0, <1>3 DEF IsHeight
  <2> HIDE DEF x
  <2> QED
    BY <1>2, <2>1, <2>2, <2>3
<1>4. CASE stackAt = {}
  <2>1. Len(stack) = n /\ stack \in Seq({"H"}) /\ n \in Nat
    BY <1>0, <1>4 DEF IsHeight
  <2>2. IF n + Change(op) \in Nat THEN Watches({}, x, Nat) ELSE Watches({Len(input)}, x, Nat)
    BY <1>0, <1>4, WatchGoesOn
  <2>3. IF next = {} THEN stackAt' = {Len(input)} /\ stack' = <<>>
        ELSE stack' = (CHOOSE s \in next : TRUE) /\ UNCHANGED stackAt
    BY <1>4 DEF Push
  <2> HIDE DEF x, n
  <2>4. ASSUME NEW s \in Seq({"H"}), next = {s}, Len(s) = n + Change(op)
        PROVE  Watches(stackAt', x, Nat) /\ IsHeight(stack', x, stackAt')
    <3>1. stack' = s /\ stackAt' = {}
      <4>1. (CHOOSE r \in {s} : TRUE) = s /\ {s} # {}
        OBVIOUS
      <4> HIDE DEF next
      <4> QED
        BY <1>4, <2>3, <2>4, <4>1
    <3>2. Watches({}, x, Nat)
      BY <2>2, <2>4
    <3>3. IsHeight(s, x, {})
      BY <1>1, <2>4 DEF IsHeight
    <3> QED
      BY <3>1, <3>2, <3>3
  <2>5. CASE op = "enq"
    <3>1. next = {Append(stack, "H")} /\ Change(op) = 1
      BY <2>5 DEF StackStep, Change
    <3>2. Append(stack, "H") \in Seq({"H"}) /\ Len(Append(stack, "H")) = n + 1
      BY <2>1
    <3> HIDE DEF next
    <3> QED
      BY <1>2, <2>4, <3>1, <3>2
  <2>6. CASE op = "deq" /\ stack # <<>>
    <3>1. next = {SubSeq(stack, 1, Len(stack) - 1)} /\ Change(op) = -1
      BY <2>6 DEF StackStep, Change
    <3>2. /\ SubSeq(stack, 1, Len(stack) - 1) \in Seq({"H"})
          /\ Len(SubSeq(stack, 1, Len(stack) - 1)) = n - 1
      BY <2>1, <2>6
    <3>3. n - 1 = n + (-1)
      BY <2>1
    <3> HIDE DEF next
    <3> QED
      BY <1>2, <2>4, <3>1, <3>2, <3>3
  <2>7. CASE op = "deq" /\ stack = <<>>
    <3>1. next = {} /\ Change(op) = -1 /\ n = 0
      BY <2>1, <2>7 DEF StackStep, Change
    <3>2. n + Change(op) \notin Nat
      BY <3>1
    <3> HIDE DEF next
    <3>3. stackAt' = {Len(input)} /\ stack' = <<>>
      BY <2>3, <3>1
    <3>4. <<>> \in Seq({"H"})
      OBVIOUS
    <3>5. IsHeight(<<>>, x, {Len(input)})
      BY <3>4 DEF IsHeight
    <3>6. Watches({Len(input)}, x, Nat)
      BY <2>2, <3>2
    <3> QED
      BY <1>2, <3>3, <3>5, <3>6
  <2> QED
    BY <2>5, <2>6, <2>7 DEF Operations
<1> QED
  BY <1>3, <1>4

LEMMA QueueInvStep == QueueInv /\ [QueueNext]_queueVars => QueueInv'
<1> SUFFICES ASSUME QueueInv, [QueueNext]_queueVars PROVE QueueInv'
  OBVIOUS
<1>1. ASSUME NEW op \in Operations, Read(op) PROVE QueueInv'
  <2>1. input' = Append(input, op) /\ Count(op) /\ Push(op)
    BY <1>1 DEF Read
  <2>2. input' \in Seq(Operations)
    BY <2>1, BalanceLonger DEF QueueInv
  <2> QED
    BY <2>1, <2>2, CountKeeps, PushKeeps DEF QueueInv
<1>2. CASE UNCHANGED queueVars
  BY <1>2 DEF queueVars, QueueInv
<1> QED
  BY <1>1, <1>2 DEF QueueNext

-----------------------------------------------------------------------------
\* The pumped word: as many enqueues as Enqueued(p, copies), then p dequeues.
Enqueued(p, copies) == p + copies - 1

LEMMA PumpedBalance ==
  ASSUME NEW p \in Nat \ {0}, NEW copies \in Nat
  PROVE  /\ Pumped(p, copies) \in Seq(Operations)
         /\ Len(Pumped(p, copies)) = Enqueued(p, copies) + p
         /\ \A i \in 0..(Enqueued(p, copies) + p) :
              BalanceOf(Pumped(p, copies), i) =
                IF i <= Enqueued(p, copies) THEN i ELSE 2 * Enqueued(p, copies) - i
<1> DEFINE w == Pumped(p, copies)
           a == Enqueued(p, copies)
           n == 2 * p + copies - 1
           b(i) == IF i <= a THEN i ELSE 2 * a - i
<1>1. a \in Nat /\ n \in Nat /\ n = a + p
  BY DEF Enqueued
<1>2. w = [i \in 1..n |-> IF i < p + copies THEN "enq" ELSE "deq"]
  BY DEF Pumped
<1>3. w \in Seq(Operations) /\ Len(w) = n
  BY <1>1, <1>2 DEF Operations
<1>4. \A i \in Nat : i < n => Change(w[i + 1]) = IF i < a THEN 1 ELSE -1
  <2> SUFFICES ASSUME NEW i \in Nat, i < n PROVE Change(w[i + 1]) = IF i < a THEN 1 ELSE -1
    OBVIOUS
  <2>1. i + 1 \in 1..n /\ (i + 1 < p + copies <=> i < a)
    BY <1>1 DEF Enqueued
  <2>2. w[i + 1] = IF i + 1 < p + copies THEN "enq" ELSE "deq"
    BY <1>2, <2>1
  <2> QED
    BY <2>1, <2>2 DEF Change
<1> HIDE DEF w, n, a
<1>5. /\ BalanceOf(w, 0) = 0
      /\ \A i \in Nat : i < n => BalanceOf(w, i + 1) = BalanceOf(w, i) + Change(w[i + 1])
  BY <1>3, BalanceSteps
<1> DEFINE S == {i \in Nat : i <= n => BalanceOf(w, i) = b(i)}
<1>6. 0 \in S
  BY <1>1, <1>5
<1>7. \A i \in Nat : i \in S => i + 1 \in S
  <2> SUFFICES ASSUME NEW i \in Nat, i \in S, i + 1 <= n PROVE BalanceOf(w, i + 1) = b(i + 1)
    OBVIOUS
  <2>1. i < n /\ i <= n
    BY <1>1
  <2>2. BalanceOf(w, i) = b(i)
    BY <2>1
  <2>3. BalanceOf(w, i + 1) = BalanceOf(w, i) + Change(w[i + 1])
    BY <1>5, <2>1
  <2>4. BalanceOf(w, i + 1) = BalanceOf(w, i) + (IF i < a THEN 1 ELSE -1)
    BY <1>4, <2>1, <2>3
  <2> QED
    BY <1>1, <2>2, <2>4
<1> HIDE DEF S
<1>8. \A i \in Nat : i \in S
  BY <1>6, <1>7, Induction
<1>9. \A i \in 0..(a + p) : BalanceOf(w, i) = b(i)
  BY <1>1, <1>8 DEF S
<1> HIDE DEF b
<1>10. /\ w \in Seq(Operations) /\ Len(w) = a + p
       /\ \A i \in 0..(a + p) : BalanceOf(w, i) = b(i)
  BY <1>1, <1>3, <1>9
<1> QED
  BY <1>10 DEF w, a, b

\* The stack accepts a pumped word if it has as many dequeues as enqueues.
LEMMA PumpedAnswer ==
  ASSUME QueueInv, NEW p \in Nat \ {0}, NEW copies \in Nat, input = Pumped(p, copies)
  PROVE  ProvesNonRegular(p, copies) <=> ~QueueAccepts
<1> DEFINE a == Enqueued(p, copies)
           n == a + p
           bal(i) == BalanceOf(input, i)
<1>1. a \in Nat /\ n \in Nat
  BY DEF Enqueued
<1>2. input \in Seq(Operations) /\ Len(input) = n
  BY PumpedBalance
<1>3. \A i \in 0..n : bal(i) = IF i <= a THEN i ELSE 2 * a - i
  BY PumpedBalance
<1>4. bal(n) = a - p
  BY <1>1, <1>3
<1>5. ProvesNonRegular(p, copies) <=> bal(n) # 0
  <2>1. SubSeq(input, 1, n) = input
    BY <1>2
  <2>2. bal(n) = Occurrences("enq", input) - Occurrences("deq", input)
    BY <2>1 DEF BalanceOf
  <2>3. n \in 0..Len(input)
    BY <1>1, <1>2
  <2>4. \A op : Occurrences(op, input) = Cardinality(Among(input, op, n))
    <3> TAKE op
    <3>1. Occurrences(op, SubSeq(input, 1, n)) = Cardinality(Among(input, op, n))
      <4> HIDE DEF n
      <4> QED
        BY <1>2, <2>3, OccurrencesAmong
    <3> QED
      BY <2>1, <3>1
  <2>5. Occurrences("enq", input) \in Nat /\ Occurrences("deq", input) \in Nat
    BY <1>1, <2>4, OccurrencesGrow
  <2> HIDE DEF n, bal
  <2> QED
    BY <2>2, <2>5 DEF ProvesNonRegular
<1>6. QueueAccepts <=> bal(n) = 0
  <2>1. Watches(stackAt, input, Nat) /\ IsHeight(stack, input, stackAt)
    BY DEF QueueInv
  <2>2. ASSUME QueueAccepts PROVE bal(n) = 0
    BY <1>2, <2>1, <2>2 DEF QueueAccepts, IsHeight
  <2>3. ASSUME bal(n) = 0 PROVE QueueAccepts
    <3>1. a = p
      BY <1>1, <1>4, <2>3
    <3>2. \A i \in 0..n : bal(i) \in Nat
      BY <1>1, <1>3, <3>1
    <3>3. stackAt = {}
      <4> SUFFICES ASSUME NEW i \in Nat, i < n, bal(i + 1) \notin Nat PROVE FALSE
        BY <1>2, <2>1 DEF Watches, StopsAt
      <4>1. i + 1 \in 0..n
        BY <1>1
      <4> QED
        BY <3>2, <4>1
    <3>4. Len(stack) = 0 /\ stack \in Seq({"H"})
      BY <1>2, <2>1, <2>3, <3>3 DEF IsHeight
    <3>5. stack = <<>>
      BY <3>4
    <3> QED
      BY <3>3, <3>5 DEF QueueAccepts
  <2> QED
    BY <2>2, <2>3
<1> QED
  BY <1>5, <1>6

\* For every capacity and every word, pumped ones included: the counter stops
\* where the word first overflows or underflows, the stack where it first
\* underflows, and up to there they agree (counter.py trace, pda.py run).
THEOREM CounterMeetsStack == QueueSpec => []CounterFollowsStack
<1>1. QueueInv => CounterFollowsStack
  <2> SUFFICES ASSUME QueueInv PROVE CounterFollowsStack
    OBVIOUS
  <2>0. /\ input \in Seq(Operations) /\ IsTrace(states, input, counterAt)
        /\ IsHeight(stack, input, stackAt) /\ \A i : Balance(i) = BalanceOf(input, i)
    BY DEF QueueInv, Balance, BalanceOf
  <2>1. counterAt = FirstOutside(0..Capacity) /\ stackAt = FirstOutside(Nat)
    BY WatchIsFirst DEF QueueInv
  <2>2. states = [i \in 1..Len(states) |-> Balance(i - 1)]
    <3>1. states = [i \in 1..Len(states) |-> states[i]]
      BY <2>0 DEF IsTrace
    <3>2. \A i \in 1..Len(states) : states[i] = Balance(i - 1)
      BY <2>0 DEF IsTrace
    <3> QED
      BY <3>1, <3>2
  <2>3. ASSUME counterAt = {} PROVE states[Len(states)] = Len(stack)
    <3>1. Len(states) = Len(input) + 1 /\ Len(input) \in Nat
      BY <2>0, <2>3 DEF IsTrace
    <3>2. Len(states) \in 1..Len(states) /\ Len(states) - 1 = Len(input)
      BY <3>1
    <3>3. states[Len(states)] = BalanceOf(input, Len(states) - 1)
      BY <2>0, <3>2 DEF IsTrace
    <3>4. stackAt = {}
      <4> SUFFICES ASSUME NEW i \in Nat, i < Len(input), BalanceOf(input, i + 1) \notin Nat
                   PROVE  FALSE
        BY DEF QueueInv, Watches, StopsAt
      <4>1. i + 1 \in 0..Len(input)
        BY <3>1
      <4>2. BalanceOf(input, i + 1) \in 0..Capacity
        BY <2>3, <4>1 DEF QueueInv, Watches, InsideTo
      <4> QED
        BY <4>2
    <3> QED
      BY <2>0, <3>2, <3>3, <3>4 DEF IsHeight
  <2>4. \A p \in 1..MaxWord, copies \in 0..MaxWord :
          input = Pumped(p, copies) => (ProvesNonRegular(p, copies) <=> ~QueueAccepts)
    BY PumpedAnswer, QueueAssumption
  <2> QED
    BY <2>1, <2>2, <2>3, <2>4 DEF CounterFollowsStack
<1> QED
  BY <1>1, InitQueueInv, QueueInvStep, PTL DEF QueueSpec
=============================================================================
