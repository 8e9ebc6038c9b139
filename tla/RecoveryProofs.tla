--------------------------- MODULE RecoveryProofs ---------------------------
(***************************************************************************)
(* The monitored session, and recovery from any state it can fail in.      *)
(* P2, P5 and the settlement half of P3 hold of every run of the session   *)
(* automaton: each needs to know where in the lifecycle a monitor can be   *)
(* in its middle state.  A plan of the recovery engine is a verified run   *)
(* into a safe state, the search settles states as Dijkstra's algorithm    *)
(* should, and "no path" is answered only in the trap or after a history   *)
(* that is bad already.                                                    *)
(***************************************************************************)
EXTENDS Recovery, Recursion

\* Where power may flow between a power_start and its stop.
EnergisedStates == {"CHARGING", "PAUSED_DISPATCH", "SUSPENDED_EV",
                    "SUSPENDED_EVSE", "FAULT_TERMINAL"}

\* What holds of a session state and its monitors on every run.
Coherent(q, m) ==
  /\ q \in States /\ m \in Monitors
  /\ m.p2 # "p2_bad" /\ (m.p2 = "p2_powered" => q \in EnergisedStates)
  /\ m.p5 # "p5_bad" /\ (m.p5 = "p5_post_estop" => q = "FAULT_TERMINAL")
  /\ q = "COMPLETED" => m.p3 # "p3_post_stop"

IInv == Coherent(state, History)

-----------------------------------------------------------------------------
USE DEF EntryEdges, CableEdges, EnergyEdges, SuspensionEdges, ReleaseEdges,
        SettlementEdges

LEMMA EdgeTypes == \A t \in Transitions : t[1] \in States /\ t[3] \in States
BY DEF Transitions, States

\* Power is started into an energised state, an energised state is only left
\* by a symbol that stops the power, and it does not admit an unlock.
LEMMA EnergisedEdges ==
  \A t \in Transitions :
    /\ t[2] = "power_start" => t[3] \in EnergisedStates
    /\ t[1] \in EnergisedStates => t[2] \notin UnlockSymbols
    /\ t[1] \in EnergisedStates /\ t[2] \notin PowerOffSymbols
         => t[3] \in EnergisedStates
BY DEF Transitions, EnergisedStates, UnlockSymbols, PowerOffSymbols

\* An emergency stop ends in the trap, which has no outgoing edge.
LEMMA EmergencyEdges ==
  \A t \in Transitions :
    /\ t[2] = "e_stop" => t[3] = "FAULT_TERMINAL"
    /\ t[1] # "FAULT_TERMINAL"
BY DEF Transitions

\* COMPLETED is entered by payment only, and never left by stopping power.
LEMMA CompletionEdges ==
  \A t \in Transitions :
    t[3] = "COMPLETED" =>
      \/ t[2] = "pay_ok"
      \/ t[1] = "COMPLETED" /\ t[2] = "session_close"
BY DEF Transitions

HIDE DEF EntryEdges, CableEdges, EnergyEdges, SuspensionEdges, ReleaseEdges,
         SettlementEdges

-----------------------------------------------------------------------------
\* The runs of the session automaton.

LEMMA MonitorTypes ==
  ASSUME NEW m \in Monitors, NEW a
  PROVE  Read(m, a) \in Monitors
<1>1. P1Next(m.p1, a) \in P1States
  BY DEF Monitors, P1States, P1Next
<1>2. P2Next(m.p2, a) \in P2States
  BY DEF Monitors, P2States, P2Next
<1>3. P3Next(m.p3, a) \in P3States
  BY DEF Monitors, P3States, P3Next
<1>4. P5Next(m.p5, a) \in P5States
  BY DEF Monitors, P5States, P5Next
<1> QED
  BY <1>1, <1>2, <1>3, <1>4 DEF Read, Monitors

LEMMA EdgeKeepsCoherence ==
  ASSUME NEW q, NEW m, Coherent(q, m), NEW t \in Transitions, t[1] = q
  PROVE  Coherent(t[3], Read(m, t[2]))
<1> DEFINE a == t[2]
           n == Read(m, a)
<1>1. t[3] \in States /\ n \in Monitors
  BY EdgeTypes, MonitorTypes DEF Coherent
<1>2. /\ n.p2 = P2Next(m.p2, a) /\ n.p3 = P3Next(m.p3, a) /\ n.p5 = P5Next(m.p5, a)
      /\ m.p2 \in P2States /\ m.p3 \in P3States /\ m.p5 \in P5States
  BY DEF Read, Coherent, Monitors
<1> HIDE DEF n
<1>3. n.p2 # "p2_bad" /\ (n.p2 = "p2_powered" => t[3] \in EnergisedStates)
  BY <1>2, EnergisedEdges DEF Coherent, P2States, P2Next, UnlockSymbols, PowerOffSymbols
<1>4. n.p5 # "p5_bad" /\ (n.p5 = "p5_post_estop" => t[3] = "FAULT_TERMINAL")
  BY <1>2, EmergencyEdges DEF Coherent, P5States, P5Next
<1>5. t[3] = "COMPLETED" => n.p3 # "p3_post_stop"
  BY <1>2, CompletionEdges DEF Coherent, P3States, P3Next
<1> QED
  BY <1>1, <1>3, <1>4, <1>5 DEF Coherent, n

LEMMA InitIInv == MonitoredInit => IInv
BY DEF MonitoredInit, IInv, Coherent, History, Monitors, P1States, P2States, P3States, P5States,
       States, StartState

LEMMA StepKeepsIInv == IInv /\ [MonitoredNext]_monitoredVars => IInv'
<1> SUFFICES ASSUME IInv, [MonitoredNext]_monitoredVars PROVE IInv'
  OBVIOUS
<1>1. CASE MonitoredNext
  <2>1. PICK t \in Transitions : MonitoredStep(t)
    BY <1>1 DEF MonitoredNext
  <2>2. state' = t[3] /\ t[1] = state /\ History' = Read(History, t[2])
    BY <2>1 DEF MonitoredStep, History, Read
  <2>3. Coherent(t[3], Read(History, t[2]))
    BY <2>2, EdgeKeepsCoherence DEF IInv
  <2> QED
    BY <2>2, <2>3 DEF IInv
<1>2. CASE UNCHANGED monitoredVars
  BY <1>2 DEF monitoredVars, IInv, History
<1> QED
  BY <1>1, <1>2

THEOREM MonitoredInvariant == MonitoredSpec => []IInv
BY InitIInv, StepKeepsIInv, PTL DEF MonitoredSpec

\* P2 for runs of any length: no session unlocks between a power_start and the
\* stop of the power.
THEOREM SessionNoLiveDisconnect == MonitoredSpec => []NoLiveDisconnect
<1>1. IInv => NoLiveDisconnect
  BY DEF IInv, Coherent, History, NoLiveDisconnect
<1> QED
  BY MonitoredInvariant, <1>1, PTL

\* P5 for runs of any length: e_stop leads into the trap, so nothing follows it.
THEOREM SessionEmergencyIsolates == MonitoredSpec => []EmergencyIsolates
<1>1. IInv => EmergencyIsolates
  BY DEF IInv, Coherent, History, EmergencyIsolates
<1> QED
  BY MonitoredInvariant, <1>1, PTL

\* A completed session owes nothing for the last time its power was stopped.
THEOREM SessionCompletedIsSettled == MonitoredSpec => []CompletedIsSettled
<1>1. IInv => CompletedIsSettled
  BY DEF IInv, Coherent, History, CompletedIsSettled
<1> QED
  BY MonitoredInvariant, <1>1, PTL
\* A recovery goes on from a run of the session and leaves the session alone.
THEOREM RecoveryRunsSession == Spec => MonitoredSpec
<1>1. Init => MonitoredInit
  BY DEF Init
<1>2. [Next]_vars => [MonitoredNext]_monitoredVars
  BY DEF Next, vars, Continue, RecoverInPlace, Recover, Search, PopStale, PopRejected, PopFound,
         Expand, Exhausted, Rival, MonitoredNext
<1> QED
  BY <1>1, <1>2, PTL DEF Spec, MonitoredSpec

-----------------------------------------------------------------------------
\* Paths: what a symbol more adds.

LEMMA EdgesAreDeterministic ==
  \A t, u \in Transitions : t[1] = u[1] /\ t[2] = u[2] => t[3] = u[3]
BY DEF Transitions, EntryEdges, CableEdges, EnergyEdges, SuspensionEdges, ReleaseEdges,
       SettlementEdges

LEMMA EdgeShape == \A t \in Transitions : t = <<t[1], t[2], t[3]>> /\ t[2] \in Alphabet
BY DEF Transitions, EntryEdges, CableEdges, EnergyEdges, SuspensionEdges, ReleaseEdges,
       SettlementEdges, Alphabet, PhysicalSymbols, PowerSymbols, AuthSymbols, TelemetrySymbols,
       AdminSymbols

\* An admissible symbol has an edge, and an edge the target that is looked up.
LEMMA TargetOfEdge ==
  ASSUME NEW t \in Transitions
  PROVE  t[2] \in Admissible(t[1]) /\ Target(t[1], t[2]) = t[3]
<1>1. <<t[1], t[2], t[3]>> \in Transitions /\ t[3] \in States
  BY EdgeShape, EdgeTypes
<1>2. t[2] \in Admissible(t[1])
  BY DEF Admissible
<1>3. Target(t[1], t[2]) \in States /\ <<t[1], t[2], Target(t[1], t[2])>> \in Transitions
  BY <1>1 DEF Target
<1> DEFINE r == Target(t[1], t[2])
           u == <<t[1], t[2], r>>
<1>4. u[1] = t[1] /\ u[2] = t[2] /\ u[3] = r
  OBVIOUS
<1>5. u \in Transitions
  BY <1>3
<1> HIDE DEF u, r
<1>6. u[3] = t[3]
  BY <1>4, <1>5, EdgesAreDeterministic
<1> QED
  BY <1>2, <1>4, <1>6 DEF r

LEMMA EdgeOfSymbol ==
  ASSUME NEW q, NEW a \in Admissible(q)
  PROVE  \E t \in Transitions : t[1] = q /\ t[2] = a /\ t[3] = Target(q, a)
<1>1. PICK t \in Transitions : t[1] = q /\ t[2] = a
  BY DEF Admissible
<1> QED
  BY <1>1, TargetOfEdge

LEMMA CostTypes == \A a : Cost(a) \in Nat \ {0}
BY DEF Cost

\* What the three readings of a path start from and go on by.
LEMMA PathsFollowable ==
  ASSUME NEW s \in States, NEW h \in Monitors, NEW w \in Seq(Alphabet)
  PROVE  /\ Followable(Monitors, Alphabet, Reading, h, w)
         /\ Followable(SUBSET States, Alphabet, Walking, {s}, w)
         /\ Followable(Nat, Alphabet, Paying, 0, w)
<1>1. Reading \in [Monitors \X Alphabet -> Monitors]
  BY MonitorTypes DEF Reading
<1>2. Walking \in [(SUBSET States) \X Alphabet -> SUBSET States]
  BY EdgeTypes DEF Walking
<1>3. Paying \in [Nat \X Alphabet -> Nat]
  BY CostTypes DEF Paying
<1> QED
  BY <1>1, <1>2, <1>3 DEF Followable

\* From the state s and the monitors h the path w leads to q at the cost c,
\* and the monitors to m.
Routes(s, h, w, q, c, m) ==
  /\ w \in Seq(Alphabet)
  /\ Follow(Walking, {s}, w) = {q}
  /\ Follow(Paying, 0, w) = c
  /\ Follow(Reading, h, w) = m

LEMMA EmptyRoutes ==
  ASSUME NEW s \in States, NEW h \in Monitors
  PROVE  Routes(s, h, <<>>, s, 0, h)
<1> DEFINE e == <<>>
<1>1. e \in Seq(Alphabet)
  OBVIOUS
<1> HIDE DEF e
<1>2. /\ Followable(Monitors, Alphabet, Reading, h, e)
      /\ Followable(SUBSET States, Alphabet, Walking, {s}, e)
      /\ Followable(Nat, Alphabet, Paying, 0, e)
  BY <1>1, PathsFollowable
<1>3. Follow(Reading, h, e) = h
  BY <1>2, FollowEmpty DEF e
<1>4. Follow(Walking, {s}, e) = {s}
  BY <1>2, FollowEmpty DEF e
<1>5. Follow(Paying, 0, e) = 0
  BY <1>2, FollowEmpty DEF e
<1> QED
  BY <1>1, <1>3, <1>4, <1>5 DEF Routes, e

LEMMA LongerRoutes ==
  ASSUME NEW s \in States, NEW h \in Monitors, NEW w, NEW q \in States, NEW c \in Nat,
         NEW m \in Monitors, Routes(s, h, w, q, c, m), NEW a \in Admissible(q)
  PROVE  Routes(s, h, Append(w, a), Target(q, a), c + Cost(a), Read(m, a))
<1> DEFINE x == Append(w, a)
<1>0. a \in Alphabet
  BY EdgeOfSymbol, EdgeShape
<1>1. w \in Seq(Alphabet) /\ x \in Seq(Alphabet) /\ Longer(x, w, a)
  BY <1>0, AppendIsLonger DEF Routes
<1> HIDE DEF x
<1>2. /\ Followable(Monitors, Alphabet, Reading, h, w)
      /\ Followable(SUBSET States, Alphabet, Walking, {s}, w)
      /\ Followable(Nat, Alphabet, Paying, 0, w)
  BY <1>1, PathsFollowable
<1>3. /\ Followable(Monitors, Alphabet, Reading, h, x)
      /\ Followable(SUBSET States, Alphabet, Walking, {s}, x)
      /\ Followable(Nat, Alphabet, Paying, 0, x)
  BY <1>1, PathsFollowable
<1>4. Follow(Reading, h, x) = Taken(Reading, Follow(Reading, h, w), a)
  BY <1>1, <1>2, <1>3, FollowLonger
<1>5. Follow(Walking, {s}, x) = Taken(Walking, Follow(Walking, {s}, w), a)
  BY <1>1, <1>2, <1>3, FollowLonger
<1>6. Follow(Paying, 0, x) = Taken(Paying, Follow(Paying, 0, w), a)
  BY <1>1, <1>2, <1>3, FollowLonger
<1>7. Follow(Reading, h, x) = Read(m, a)
  BY <1>0, <1>4 DEF Routes, Taken, Reading
<1>8. Follow(Paying, 0, x) = c + Cost(a)
  BY <1>0, <1>6 DEF Routes, Taken, Paying
<1>9. Follow(Walking, {s}, x) = {Target(q, a)}
  <2>1. Follow(Walking, {s}, x) = {t[3] : t \in Transitions \cap ({q} \X {a} \X States)}
    BY <1>0, <1>5 DEF Routes, Taken, Walking
  <2>2. \A t \in Transitions \cap ({q} \X {a} \X States) : t[3] = Target(q, a)
    BY TargetOfEdge
  <2>3. PICK t \in Transitions : t[1] = q /\ t[2] = a /\ t[3] = Target(q, a)
    BY EdgeOfSymbol
  <2>4. t \in Transitions \cap ({q} \X {a} \X States)
    BY <2>3, EdgeShape, EdgeTypes
  <2> QED
    BY <2>1, <2>2, <2>3, <2>4
<1> QED
  BY <1>1, <1>7, <1>8, <1>9 DEF Routes, x

LEMMA SameSession ==
  ASSUME UNCHANGED monitoredVars
  PROVE  state' = state /\ History' = History /\ (IInv' <=> IInv)
BY DEF monitoredVars, History, IInv

-----------------------------------------------------------------------------
\* How far it is to safety: a lower bound of what the cheapest path costs, to
\* the release of the connector or, when completion is asked for, to payment.
\* The edges it cannot be undercut on make a path that the gate passes.

ToRelease(q) ==
  CASE q \in {"UNLOCKED", "ISOLATING"} -> 0
    [] q \in {"EV_CONNECTED", "PRECHARGE", "CHARGING", "PAUSED_DISPATCH", "SUSPENDED_EV",
              "SUSPENDED_EVSE"} -> 2
    [] q = "CABLE_DETECTED" -> 3
    [] q \in {"RESERVED", "AUTHORIZED"} -> 4
    [] q = "AUTH_PENDING" -> 5
    [] OTHER -> 9

ToPayment(q) ==
  CASE q = "COMPLETED" -> 0
    [] q \in {"UNPLUGGED", "BILLING_PENDING"} -> 1
    [] q \in {"UNLOCKED", "ISOLATING"} -> 2
    [] q \in {"EV_CONNECTED", "PRECHARGE", "CHARGING", "PAUSED_DISPATCH", "SUSPENDED_EV",
              "SUSPENDED_EVSE", "RAMP_DOWN"} -> 4
    [] q = "CABLE_DETECTED" -> 5
    [] q \in {"IDLE", "RESERVED", "AUTHORIZED"} -> 6
    [] q = "AUTH_PENDING" -> 7
    [] OTHER -> 9

Away(S, q) == IF S = {"COMPLETED"} THEN ToPayment(q) ELSE ToRelease(q)

\* States that are safe whatever the evidence.
AlwaysSafe == {"IDLE", "RAMP_DOWN", "ISOLATING", "UNLOCKED", "UNPLUGGED", "BILLING_PENDING",
               "COMPLETED"}

LEMMA TargetSafety ==
  ASSUME NEW S \in Targets, S # {"COMPLETED"}
  PROVE  AlwaysSafe \subseteq S
BY DEF Targets, SafeStates, BaseSafe, AlwaysSafe

\* No edge leads closer than it costs, and one that costs no more than it
\* leads closer neither starts power nor closes a session, save in
\* AUTH_PENDING.
Honest(S, t) ==
  /\ Away(S, t[1]) <= Cost(t[2]) + Away(S, t[3])
  /\ Away(S, t[1]) = Cost(t[2]) + Away(S, t[3]) =>
       t[2] # "power_start" /\ (t[2] = "session_close" => t[1] = "AUTH_PENDING")

LEMMA AwayTypes == \A S, q : Away(S, q) \in 0..9
BY DEF Away, ToRelease, ToPayment

USE DEF EntryEdges, CableEdges, EnergyEdges, SuspensionEdges, ReleaseEdges, SettlementEdges

LEMMA PaymentEdges ==
  \A t \in Transitions :
    /\ ToPayment(t[1]) <= Cost(t[2]) + ToPayment(t[3])
    /\ ToPayment(t[1]) = Cost(t[2]) + ToPayment(t[3]) =>
         t[2] # "power_start" /\ (t[2] = "session_close" => t[1] = "AUTH_PENDING")
BY DEF Transitions, ToPayment, Cost

LEMMA ReleasingEdges ==
  \A t \in Transitions : t[1] \notin AlwaysSafe =>
    /\ ToRelease(t[1]) <= Cost(t[2]) + ToRelease(t[3])
    /\ ToRelease(t[1]) = Cost(t[2]) + ToRelease(t[3]) =>
         t[2] # "power_start" /\ (t[2] = "session_close" => t[1] = "AUTH_PENDING")
BY DEF Transitions, ToRelease, Cost, AlwaysSafe

\* A state from which safety is to be reached has an edge that leads as much
\* closer as it costs.
Approaches(S, t) == Away(S, t[1]) = Cost(t[2]) + Away(S, t[3])

LEMMA PaymentApproached ==
  \A q \in States \ {"COMPLETED", "FAULT_TERMINAL"} :
    \E t \in Transitions : t[1] = q /\ ToPayment(t[1]) = Cost(t[2]) + ToPayment(t[3])
BY DEF Transitions, ToPayment, Cost, States

LEMMA ReleaseApproached ==
  \A q \in States \ (AlwaysSafe \cup {"FAULT_TERMINAL"}) :
    \E t \in Transitions : t[1] = q /\ ToRelease(t[1]) = Cost(t[2]) + ToRelease(t[3])
BY DEF Transitions, ToRelease, Cost, AlwaysSafe, States

\* A session that is closed in AUTH_PENDING ends where a failed authorisation
\* does.
LEMMA AuthPendingEdges ==
  /\ <<"AUTH_PENDING", "auth_fail", "IDLE">> \in Transitions
  /\ \A t \in Transitions :
       t[1] = "AUTH_PENDING" /\ t[2] = "session_close" => t[3] = "IDLE"
BY DEF Transitions

HIDE DEF EntryEdges, CableEdges, EnergyEdges, SuspensionEdges, ReleaseEdges, SettlementEdges

LEMMA HonestEdges ==
  ASSUME NEW S \in Targets, NEW t \in Transitions, t[1] \notin S
  PROVE  Honest(S, t)
<1>1. CASE S = {"COMPLETED"}
  BY <1>1, PaymentEdges DEF Honest, Away
<1>2. CASE S # {"COMPLETED"}
  <2>1. t[1] \notin AlwaysSafe
    BY <1>2, TargetSafety
  <2> QED
    BY <1>2, <2>1, ReleasingEdges DEF Honest, Away
<1> QED
  BY <1>1, <1>2

LEMMA Approachable ==
  ASSUME NEW S \in Targets, NEW q \in States, q \notin S, q # "FAULT_TERMINAL"
  PROVE  \E t \in Transitions : t[1] = q /\ Approaches(S, t)
<1>1. CASE S = {"COMPLETED"}
  BY <1>1, PaymentApproached DEF Approaches, Away
<1>2. CASE S # {"COMPLETED"}
  <2>1. q \notin AlwaysSafe
    BY <1>2, TargetSafety
  <2> QED
    BY <1>2, <2>1, ReleaseApproached DEF Approaches, Away
<1> QED
  BY <1>1, <1>2

\* Every symbol has a rank; auth_fail is sorted before session_close.
LEMMA Ranks ==
  /\ \A a \in Alphabet : Rank[a] \in 1..28 /\ SymbolOrder[Rank[a]] = a
  /\ Rank["auth_fail"] < Rank["session_close"]
<1>1. DOMAIN SymbolOrder = 1..28
  BY DEF SymbolOrder
<1>2. \A a \in Alphabet : \E i \in 1..28 : SymbolOrder[i] = a
  BY DEF SymbolOrder, Alphabet, PhysicalSymbols, PowerSymbols, AuthSymbols, TelemetrySymbols,
         AdminSymbols
<1>3. \A a \in Alphabet : Rank[a] \in 1..28 /\ SymbolOrder[Rank[a]] = a
  BY <1>1, <1>2 DEF Rank
<1>4. "auth_fail" \in Alphabet /\ "session_close" \in Alphabet
  BY DEF Alphabet, AuthSymbols, AdminSymbols
<1>5. \A i \in 1..28 : (SymbolOrder[i] = "auth_fail" => i = 1)
                    /\ (SymbolOrder[i] = "session_close" => i = 25)
  BY DEF SymbolOrder
<1>6. Rank["auth_fail"] = 1 /\ Rank["session_close"] = 25
  BY <1>3, <1>4, <1>5
<1> QED
  BY <1>3, <1>6

\* A symbol that is relaxed is the cheapest to its target, and the first.
LEMMA RelaxedClosing ==
  ASSUME NEW e, NEW a \in Relaxed(e), a = "session_close"
  PROVE  e.at # "AUTH_PENDING"
<1> SUFFICES ASSUME e.at = "AUTH_PENDING" PROVE FALSE
  OBVIOUS
<1>1. PICK t \in Transitions : t[1] = e.at /\ t[2] = a /\ t[3] = Target(e.at, a)
  BY EdgeOfSymbol DEF Relaxed
<1>2. Target(e.at, a) = "IDLE"
  BY <1>1, AuthPendingEdges
<1> DEFINE u == <<"AUTH_PENDING", "auth_fail", "IDLE">>
<1>3. u \in Transitions /\ u[1] = e.at /\ u[2] = "auth_fail" /\ u[3] = "IDLE"
  BY AuthPendingEdges
<1> HIDE DEF u
<1>4. "auth_fail" \in Admissible(e.at) /\ Target(e.at, "auth_fail") = "IDLE"
  BY <1>3, TargetOfEdge
<1>5. Cost(a) < Cost("auth_fail")
  BY <1>2, <1>4, Ranks DEF Relaxed
<1> QED
  BY <1>5 DEF Cost

\* What an edge offers is taken, or bettered.
LEMMA EdgeIsRelaxed ==
  ASSUME NEW e, e.cost \in Nat, NEW t \in Transitions, t[1] = e.at,
         best[t[3]] \in Nat, e.cost + Cost(t[2]) < best[t[3]]
  PROVE  \E a \in Relaxed(e) : Target(e.at, a) = t[3] /\ Cost(a) <= Cost(t[2])
<1> DEFINE B == {b \in Admissible(e.at) : Target(e.at, b) = t[3] /\ Cost(b) <= Cost(t[2])}
           R == {Rank[b] : b \in B}
<1>1. t[2] \in B
  BY TargetOfEdge, CostTypes
<1>2. \A b \in B : b \in Alphabet
  BY EdgeOfSymbol, EdgeShape
<1>3. R \in SUBSET Nat /\ R # {}
  BY <1>1, <1>2, Ranks
<1>4. PICK n \in R : \A m \in R : ~(m < n)
  <2> HIDE DEF R
  <2> QED
    BY <1>3, SmallestMember
<1>5. PICK a \in B : Rank[a] = n
  BY <1>4
<1>6. \A b \in Admissible(e.at) :
        Target(e.at, b) = Target(e.at, a) /\ Rank[b] < Rank[a] => Cost(a) < Cost(b)
  <2> SUFFICES ASSUME NEW b \in Admissible(e.at), Target(e.at, b) = Target(e.at, a),
                      Rank[b] < Rank[a]
               PROVE  Cost(a) < Cost(b)
    OBVIOUS
  <2>1. b \notin B
    BY <1>4, <1>5
  <2>2. Cost(a) \in Nat /\ Cost(b) \in Nat /\ Cost(t[2]) \in Nat
    BY CostTypes
  <2> QED
    BY <1>5, <2>1, <2>2
<1>7. Reached(e, a) < best[Target(e.at, a)]
  <2>1. Cost(a) \in Nat /\ Cost(t[2]) \in Nat
    BY CostTypes
  <2> QED
    BY <1>5, <2>1 DEF Reached
<1> QED
  BY <1>5, <1>6, <1>7 DEF Relaxed

-----------------------------------------------------------------------------
\* The search.

\* An entry for the safe states S, the failed state s and the history h: a
\* path that leads no closer to safety than it costs.  The gate passes it if it
\* leads as much closer as it costs, unless the history is bad already.
Entry(S, s, h, e) ==
  /\ e.at \in States /\ e.cost \in Nat
  /\ Away(S, s) <= e.cost + Away(S, e.at)
  /\ \E m \in Monitors :
       /\ Routes(s, h, e.path, e.at, e.cost, m)
       /\ Coherent(e.at, m)
       /\ Verified(h) /\ e.cost + Away(S, e.at) = Away(S, s) => Verified(m)

\* A state that the costs b have reached as cheaply as it is nearer to safety.
OnTrack(S, s, b, q) == b[q] + Away(S, q) = Away(S, s)

\* A state that waits in the heap Q at its cost.
Waits(Q, b, q) == \E e \in Q : e.at = q /\ e.cost = b[q]

\* The edges out of q have been offered to their targets.
Settled(b, q) == \A t \in Transitions : t[1] = q => b[t[3]] <= b[q] + Cost(t[2])

Costs == 0..Unreached

\* Dijkstra's invariant, and that no safe state on the track is dropped.
Reaching(S, s, h, Q, b) ==
  /\ S \in Targets /\ s \in States /\ s \notin S
  /\ b \in [States -> Costs] /\ b[s] = 0
  /\ \A e \in Q : Entry(S, s, h, e) /\ b[e.at] <= e.cost
  /\ \A q \in States : Away(S, s) <= b[q] + Away(S, q)
  /\ \A q \in States : b[q] = Unreached \/ Waits(Q, b, q) \/ q \in S \/ Settled(b, q)
  /\ Verified(h) => \A q \in S \cap States : OnTrack(S, s, b, q) => Waits(Q, b, q)

\* A plan that is found, and what is settled by then.
Found(S, s, h, b, p) ==
  /\ p.target \in S /\ p.cost \in Nat
  /\ \E m \in Monitors : Routes(s, h, p.path, p.target, p.cost, m) /\ Verified(m)
  /\ p.cost > 0 =>
       /\ b \in [States -> Costs]
       /\ \A q \in States : b[q] >= p.cost \/ q \in S \/ Settled(b, q)

\* Where the search has ended without a plan, nothing can be done.
Hopeless(S, s, h) == s \notin S /\ (s = "FAULT_TERMINAL" \/ ~Verified(h))

StartRival == [at |-> state, history |-> History, cost |-> 0]

Finished ==
  phase = "done" =>
    /\ plan.status \in {"FOUND", "NO_PATH", "REJECTED"}
    /\ plan.status = "FOUND" =>
         /\ Found(safe, state, History, best, plan)
         /\ \A r \in rival :
              /\ r.at \in States /\ r.cost \in Nat
              /\ r.cost < plan.cost => best[r.at] <= r.cost
    /\ plan.status = "NO_PATH" =>
         Hopeless(safe, state, History) /\ best[state] = 0 /\ rival = {StartRival}

Fresh == phase = "live" => queue = {} /\ best = [q \in States |-> Unreached]
Unplanned == phase \in {"live", "search"} => plan = NoPlan /\ rival = {}
Searching == phase = "search" => Reaching(safe, state, History, queue, best)

RecoveryInv ==
  /\ IInv
  /\ phase \in {"live", "search", "done"}
  /\ Fresh /\ Unplanned /\ Searching /\ Finished

-----------------------------------------------------------------------------
LEMMA InitRecovery == Init => RecoveryInv
<1> SUFFICES ASSUME Init PROVE RecoveryInv
  OBVIOUS
<1>1. IInv
  BY InitIInv DEF Init
<1>2. Fresh /\ Unplanned /\ phase = "live"
  BY DEF Init, Fresh, Unplanned
<1> QED
  BY <1>1, <1>2 DEF RecoveryInv, Searching, Finished

\* The session goes on before it fails.
LEMMA ContinueKeeps ==
  ASSUME RecoveryInv, NEW t \in Transitions, Continue(t)
  PROVE  RecoveryInv'
<1>1. IInv'
  <2>1. MonitoredNext
    BY DEF Continue, MonitoredNext
  <2> QED
    BY <2>1, StepKeepsIInv DEF RecoveryInv
<1>2. phase = "live" /\ phase' = "live" /\ UNCHANGED <<queue, best, plan, rival>>
  BY DEF Continue, searchVars
<1>3. Fresh' /\ Unplanned'
  BY <1>2 DEF RecoveryInv, Fresh, Unplanned
<1> QED
  BY <1>1, <1>2, <1>3 DEF RecoveryInv, Searching, Finished

\* A session that is safe already needs no path.
LEMMA RecoverInPlaceKeeps ==
  ASSUME RecoveryInv, NEW S \in Targets, RecoverInPlace(S)
  PROVE  RecoveryInv'
<1> DEFINE e == <<>>
           p == Plan("FOUND", state, e, 0)
<1>1. /\ phase = "live" /\ phase' = "done" /\ state \in S /\ safe' = S
      /\ rival' = {StartRival} /\ UNCHANGED monitoredVars
      /\ plan' = IF Gate(e) THEN p ELSE Plan("REJECTED", "", e, 0)
  BY DEF RecoverInPlace, Done, StartRival
<1>2. /\ state' = state /\ History' = History /\ IInv'
      /\ state \in States /\ History \in Monitors
  BY <1>1, SameSession DEF RecoveryInv, IInv, Coherent
<1>3. Routes(state, History, e, state, 0, History)
  BY <1>2, EmptyRoutes
<1> HIDE DEF e
<1>4. CASE Gate(e)
  <2>1. plan' = p
    BY <1>1, <1>4
  <2>2. p.status = "FOUND" /\ p.target = state /\ p.path = e /\ p.cost = 0
    BY DEF Plan
  <2> HIDE DEF p
  <2>3. Verified(History)
    BY <1>3, <1>4 DEF Gate, Replay, Routes
  <2>4. Found(S, state, History, best', p)
    <3>1. \E m \in Monitors : Routes(state, History, e, state, 0, m) /\ Verified(m)
      BY <1>2, <1>3, <2>3
    <3>2. \E m \in Monitors : Routes(state, History, p.path, p.target, p.cost, m) /\ Verified(m)
      BY <2>2, <3>1
    <3>3. state \in S
      BY <1>1
    <3>4. ~(p.cost > 0)
      BY <2>2
    <3>5. p.target \in S /\ p.cost \in Nat
      BY <2>2, <3>3
    <3> QED
      BY <3>2, <3>4, <3>5 DEF Found
  <2>5. \A r \in rival' : r.at = state /\ r.cost = 0
    <3>1. StartRival.at = state /\ StartRival.cost = 0
      BY DEF StartRival
    <3>2. rival' = {StartRival}
      BY <1>1
    <3> QED
      BY <3>1, <3>2
  <2>6. Finished'
    <3>1. Found(safe', state', History', best', plan')
      BY <1>1, <1>2, <2>1, <2>4
    <3>2. plan'.status = "FOUND" /\ plan'.cost = 0
      BY <2>1, <2>2
    <3>3. \A r \in rival' : r.at \in States /\ r.cost = 0
      BY <1>2, <2>5
    <3> QED
      BY <3>1, <3>2, <3>3 DEF Finished
  <2> QED
    BY <1>1, <1>2, <2>6 DEF RecoveryInv, Fresh, Unplanned, Searching
<1>5. CASE ~Gate(e)
  <2>1. plan'.status = "REJECTED"
    BY <1>1, <1>5 DEF Plan
  <2>2. Finished'
    BY <2>1 DEF Finished
  <2> QED
    BY <1>1, <1>2, <2>2 DEF RecoveryInv, Fresh, Unplanned, Searching
<1> QED
  BY <1>4, <1>5

\* The search starts with the failed state.
LEMMA RecoverKeeps ==
  ASSUME RecoveryInv, NEW S \in Targets, Recover(S)
  PROVE  RecoveryInv'
<1> DEFINE e == <<>>
           first == [cost |-> 0, serial |-> 0, at |-> state, path |-> e]
           b == [q \in States |-> IF q = state THEN 0 ELSE Unreached]
           Q == {first}
<1>1. /\ phase = "live" /\ phase' = "search" /\ state \notin S /\ safe' = S
      /\ queue' = Q /\ best' = [best EXCEPT ![state] = 0]
      /\ UNCHANGED monitoredVars /\ plan' = plan /\ rival' = rival
  BY DEF Recover
<1>2. /\ state' = state /\ History' = History /\ IInv' /\ state \in States
      /\ History \in Monitors /\ Coherent(state, History)
  BY <1>1, SameSession DEF RecoveryInv, IInv, Coherent
<1>3. Routes(state, History, e, state, 0, History)
  BY <1>2, EmptyRoutes
<1> HIDE DEF e
<1>4. best' = b
  BY <1>1, <1>2 DEF RecoveryInv, Fresh
<1>5. /\ first.at = state /\ first.cost = 0 /\ first.path = e
      /\ \A f \in Q : f = first
      /\ first \in Q
  OBVIOUS
<1>6. /\ b \in [States -> Costs] /\ b[state] = 0
      /\ \A q \in States : q = state \/ b[q] = Unreached
  BY <1>2 DEF Unreached, Costs
<1> HIDE DEF first, b, Q
<1>7. \A q : Away(S, q) \in 0..9
  BY AwayTypes
<1>8. Entry(S, state, History, first)
  BY <1>2, <1>3, <1>5, <1>7 DEF Entry
<1>9. \A q \in States : Away(S, state) <= b[q] + Away(S, q)
                     /\ (OnTrack(S, state, b, q) => q = state)
  BY <1>6, <1>7 DEF Unreached, OnTrack
<1>10. Waits(Q, b, state)
  BY <1>5, <1>6 DEF Waits
<1>11. Reaching(S, state, History, Q, b)
  BY <1>1, <1>2, <1>5, <1>6, <1>8, <1>9, <1>10 DEF Reaching
<1>12. Searching' /\ Unplanned'
  BY <1>1, <1>2, <1>4, <1>11 DEF Searching, RecoveryInv, Unplanned
<1> QED
  BY <1>1, <1>2, <1>12 DEF RecoveryInv, Fresh, Finished

\* An entry that has been overtaken is not waited for.
LEMMA PopStaleKeeps ==
  ASSUME RecoveryInv, NEW e \in queue, PopStale(e)
  PROVE  RecoveryInv'
<1>1. /\ phase = "search" /\ phase' = "search" /\ queue' = queue \ {e}
      /\ e.cost # best[e.at]
      /\ UNCHANGED monitoredVars /\ UNCHANGED <<safe, best, plan, rival>>
  BY DEF PopStale, Popped
<1>2. state' = state /\ History' = History /\ IInv'
  BY <1>1, SameSession DEF RecoveryInv
<1>3. Reaching(safe, state, History, queue, best)
  BY <1>1 DEF RecoveryInv, Searching
<1> DEFINE Q == queue \ {e}
<1>4. \A q : Waits(queue, best, q) => Waits(Q, best, q)
  BY <1>1 DEF Waits
<1>5. Reaching(safe, state, History, Q, best)
  BY <1>3, <1>4 DEF Reaching
<1>6. Searching' /\ Unplanned'
  BY <1>1, <1>2, <1>5 DEF Searching, RecoveryInv, Unplanned
<1> QED
  BY <1>1, <1>2, <1>6 DEF RecoveryInv, Fresh, Finished

\* A candidate that is rejected has not come closer as cheaply as it could.
LEMMA PopRejectedKeeps ==
  ASSUME RecoveryInv, NEW e \in queue, PopRejected(e)
  PROVE  RecoveryInv'
<1>1. /\ phase = "search" /\ phase' = "search" /\ queue' = queue \ {e}
      /\ e.cost = best[e.at] /\ e.at \in safe /\ ~Gate(e.path)
      /\ UNCHANGED monitoredVars /\ UNCHANGED <<safe, best, plan, rival>>
  BY DEF PopRejected, Candidate, Popped
<1>2. state' = state /\ History' = History /\ IInv'
  BY <1>1, SameSession DEF RecoveryInv
<1>3. Reaching(safe, state, History, queue, best)
  BY <1>1 DEF RecoveryInv, Searching
<1> DEFINE Q == queue \ {e}
<1>4. \A q : q \notin safe /\ Waits(queue, best, q) => Waits(Q, best, q)
  BY <1>1 DEF Waits
<1>5. ASSUME Verified(History), NEW q \in safe \cap States, OnTrack(safe, state, best, q)
      PROVE  Waits(Q, best, q)
  <2>1. PICK f \in queue : f.at = q /\ f.cost = best[q]
    BY <1>3, <1>5 DEF Reaching, Waits
  <2>2. CASE f = e
    <3>1. e.cost + Away(safe, e.at) = Away(safe, state)
      BY <1>5, <2>1, <2>2 DEF OnTrack
    <3>2. PICK m \in Monitors : Routes(state, History, e.path, e.at, e.cost, m) /\ Verified(m)
      BY <1>3, <1>5, <3>1 DEF Reaching, Entry
    <3>3. Gate(e.path)
      BY <3>2 DEF Gate, Replay, Routes
    <3> QED
      BY <1>1, <3>3
  <2>3. CASE f # e
    BY <2>1, <2>3 DEF Waits
  <2> QED
    BY <2>2, <2>3
<1>6. Reaching(safe, state, History, Q, best)
  BY <1>3, <1>4, <1>5 DEF Reaching
<1>7. Searching' /\ Unplanned'
  BY <1>1, <1>2, <1>6 DEF Searching, RecoveryInv, Unplanned
<1> QED
  BY <1>1, <1>2, <1>7 DEF RecoveryInv, Fresh, Finished

\* A plan costs no more than what still waits.
LEMMA PopFoundKeeps ==
  ASSUME RecoveryInv, NEW e \in queue, PopFound(e)
  PROVE  RecoveryInv'
<1> DEFINE p == Plan("FOUND", e.at, e.path, e.cost)
<1>1. /\ phase = "search" /\ phase' = "done" /\ Gate(e.path)
      /\ e.cost = best[e.at] /\ e.at \in safe
      /\ \A f \in queue \ {e} : e.cost < f.cost \/ e.cost = f.cost
      /\ UNCHANGED monitoredVars /\ UNCHANGED <<safe, best>>
  BY DEF PopFound, Candidate, Popped, Done, searchVars
<1>2. plan' = p /\ rival' = {StartRival}
  BY DEF PopFound, Done, StartRival
<1>3. p.status = "FOUND" /\ p.target = e.at /\ p.path = e.path /\ p.cost = e.cost
  BY DEF Plan
<1> HIDE DEF p
<1>4. state' = state /\ History' = History /\ IInv'
  BY <1>1, SameSession DEF RecoveryInv
<1>5. Reaching(safe, state, History, queue, best)
  BY <1>1 DEF RecoveryInv, Searching
<1>6. Entry(safe, state, History, e) /\ e.cost \in Nat
  BY <1>5 DEF Reaching, Entry
<1>7. \E m \in Monitors : Routes(state, History, e.path, e.at, e.cost, m) /\ Verified(m)
  <2>1. PICK m \in Monitors : Routes(state, History, e.path, e.at, e.cost, m)
    BY <1>6 DEF Entry
  <2>2. Verified(m)
    BY <1>1, <2>1 DEF Gate, Replay, Routes
  <2> QED
    BY <2>1, <2>2
<1>8. ASSUME NEW q \in States
      PROVE  best[q] >= e.cost \/ q \in safe \/ Settled(best, q)
  <2>1. best \in [States -> Costs] /\ e.at \in States
    BY <1>5, <1>6 DEF Reaching, Entry
  <2>2. CASE Waits(queue, best, q)
    <3>1. PICK f \in queue : f.cost = best[q]
      BY <2>2 DEF Waits
    <3>2. f = e \/ e.cost < f.cost \/ e.cost = f.cost
      BY <1>1
    <3>3. f.cost \in Nat
      BY <1>5 DEF Reaching, Entry
    <3> QED
      BY <1>6, <3>1, <3>2, <3>3
  <2>3. CASE best[q] = Unreached
    BY <1>1, <2>1, <2>3 DEF Costs, Unreached
  <2> QED
    BY <1>5, <2>2, <2>3 DEF Reaching
<1>9. Found(safe, state, History, best, p)
  BY <1>1, <1>3, <1>5, <1>6, <1>7, <1>8 DEF Found, Reaching
<1>10. \A r \in rival' : r.at = state /\ r.cost = 0
  <2>1. StartRival.at = state /\ StartRival.cost = 0
    BY DEF StartRival
  <2> QED
    BY <1>2, <2>1
<1>11. Finished'
  <2>1. Found(safe', state', History', best', plan') /\ plan'.status = "FOUND"
    BY <1>1, <1>2, <1>3, <1>4, <1>9
  <2>2. state' \in States /\ best'[state'] = 0
    BY <1>1, <1>4, <1>5 DEF Reaching
  <2>3. \A r \in rival' : r.at \in States /\ r.cost \in Nat /\ best'[r.at] <= r.cost
    BY <1>4, <1>10, <2>2
  <2> QED
    BY <2>1, <2>3 DEF Finished
<1> QED
  BY <1>1, <1>4, <1>11 DEF RecoveryInv, Fresh, Unplanned, Searching

\* From any state but the trap there is a way, as cheap as it can be, to a
\* safe state that the gate passes: when the heap is empty, it has been taken.
LEMMA ReleasedOrTrapped ==
  ASSUME NEW S \in Targets, NEW q \in States
  PROVE  /\ Away(S, "FAULT_TERMINAL") = 9
         /\ q \notin S /\ q # "FAULT_TERMINAL" => Away(S, q) <= 7
<1>1. CASE S = {"COMPLETED"}
  BY <1>1 DEF Away, ToPayment, States
<1>2. CASE S # {"COMPLETED"}
  BY <1>2, TargetSafety DEF Away, ToRelease, States, AlwaysSafe
<1> QED
  BY <1>1, <1>2

LEMMA NothingLeft ==
  ASSUME NEW S, NEW s, NEW h, NEW b, Reaching(S, s, h, {}, b)
  PROVE  Hopeless(S, s, h)
<1> SUFFICES ASSUME s # "FAULT_TERMINAL", Verified(h) PROVE FALSE
  BY DEF Hopeless, Reaching
<1>1. /\ S \in Targets /\ s \in States /\ s \notin S
      /\ b \in [States -> Costs] /\ b[s] = 0
      /\ \A q \in States : Away(S, s) <= b[q] + Away(S, q)
      /\ \A q \in States : b[q] = Unreached \/ q \in S \/ Settled(b, q)
      /\ \A q \in S \cap States : ~OnTrack(S, s, b, q)
  BY DEF Reaching, Waits
<1>2. \A q : Away(S, q) \in 0..9
  BY AwayTypes
<1> DEFINE on == {q \in States : OnTrack(S, s, b, q)}
           T == {Away(S, q) : q \in on}
<1>3. s \in on
  BY <1>1, <1>2 DEF OnTrack
<1>4. T \in SUBSET Nat /\ T # {}
  BY <1>2, <1>3
<1>5. PICK n \in T : \A m \in T : ~(m < n)
  <2> HIDE DEF T
  <2> QED
    BY <1>4, SmallestMember
<1>6. PICK q \in on : Away(S, q) = n
  BY <1>5
<1>7. q \in States /\ b[q] + Away(S, q) = Away(S, s) /\ b[q] \in Nat
  BY <1>1, <1>6 DEF OnTrack, Costs, Unreached
<1>8. q \notin S /\ q # "FAULT_TERMINAL" /\ Settled(b, q)
  <2>1. Away(S, s) <= 7 /\ Away(S, "FAULT_TERMINAL") = 9
    BY <1>1, ReleasedOrTrapped
  <2>2. q \notin S
    BY <1>1, <1>6
  <2>3. q # "FAULT_TERMINAL"
    BY <1>7, <2>1
  <2>4. b[q] # Unreached
    BY <1>2, <1>7, <2>1 DEF Unreached
  <2> QED
    BY <1>1, <1>7, <2>2, <2>3, <2>4
<1>9. PICK t \in Transitions : t[1] = q /\ Approaches(S, t)
  BY <1>1, <1>7, <1>8, Approachable
<1>10. t[3] \in States /\ Cost(t[2]) \in Nat \ {0}
  BY EdgeTypes, CostTypes
<1>11. Away(S, q) = Cost(t[2]) + Away(S, t[3])
  BY <1>9 DEF Approaches
<1>12. b[t[3]] <= b[q] + Cost(t[2]) /\ Away(S, s) <= b[t[3]] + Away(S, t[3])
       /\ b[t[3]] \in Nat
  <2>1. b[t[3]] <= b[q] + Cost(t[2])
    BY <1>8, <1>9 DEF Settled
  <2>2. Away(S, s) <= b[t[3]] + Away(S, t[3])
    BY <1>1, <1>10
  <2>3. b[t[3]] \in Nat
    <3>1. \A c \in Costs : c \in Nat
      BY DEF Costs, Unreached
    <3> QED
      BY <1>1, <1>10, <3>1
  <2> QED
    BY <2>1, <2>2, <2>3
<1>13. OnTrack(S, s, b, t[3])
  BY <1>2, <1>7, <1>10, <1>11, <1>12 DEF OnTrack
<1>14. Away(S, t[3]) < n /\ Away(S, t[3]) \in T
  BY <1>2, <1>6, <1>10, <1>11, <1>13
<1> QED
  BY <1>5, <1>14

LEMMA ExhaustedKeeps ==
  ASSUME RecoveryInv, Exhausted
  PROVE  RecoveryInv'
<1>1. /\ phase = "search" /\ phase' = "done" /\ queue = {}
      /\ UNCHANGED monitoredVars /\ UNCHANGED <<safe, best>>
  BY DEF Exhausted, Done, searchVars
<1>2. plan' = Plan("NO_PATH", "", <<>>, 0) /\ rival' = {StartRival}
  BY DEF Exhausted, Done, StartRival
<1>3. state' = state /\ History' = History /\ IInv' /\ StartRival' = StartRival
  BY <1>1, SameSession DEF RecoveryInv, StartRival
<1>4. Reaching(safe, state, History, {}, best)
  BY <1>1 DEF RecoveryInv, Searching
<1>5. Hopeless(safe, state, History) /\ best[state] = 0
  BY <1>4, NothingLeft DEF Reaching
<1>6. plan'.status = "NO_PATH"
  BY <1>2 DEF Plan
<1>7. Finished'
  BY <1>1, <1>2, <1>3, <1>5, <1>6 DEF Finished
<1> QED
  BY <1>1, <1>3, <1>7 DEF RecoveryInv, Fresh, Unplanned, Searching

-----------------------------------------------------------------------------
\* The expansion of an entry.

LEMMA CostsAreNumbers ==
  /\ \A x \in Costs : x \in Nat /\ x <= Unreached
  /\ \A x \in Nat : x <= Unreached => x \in Costs
BY DEF Costs, Unreached

\* A sum that cannot be undercut in two steps cannot be in either.
LEMMA TightSteps ==
  ASSUME NEW u \in Nat, NEW v \in Nat, NEW x \in Nat, NEW y \in Nat, NEW z \in Nat,
         u <= x + y, y <= v + z, (x + v) + z = u
  PROVE  x + y = u /\ y = v + z
OBVIOUS

LEMMA SmallestOf ==
  ASSUME NEW T \in SUBSET Nat, T # {}
  PROVE  Min(T) \in T /\ \A x \in T : Min(T) <= x
<1>1. PICK n \in T : \A m \in T : ~(m < n)
  BY SmallestMember
<1>2. \A m \in T : n <= m
  BY <1>1
<1> QED
  BY <1>2 DEF Min

\* The costs c are what the entries P make of the costs b.
Lowered(c, b, P) ==
  /\ c \in [States -> Costs]
  /\ \A q \in States : c[q] <= b[q]
  /\ \A f \in P : c[f.at] <= f.cost
  /\ \A q \in States : c[q] = b[q] \/ \E f \in P : f.at = q /\ f.cost = c[q]

LEMMA BestIsLowered ==
  ASSUME NEW b \in [States -> Costs], NEW P, \A f \in P : f.at \in States /\ f.cost \in Nat
  PROVE  Lowered([q \in States |-> Min({f.cost : f \in {g \in P : g.at = q}} \cup {b[q]})], b, P)
<1> DEFINE T(q) == {f.cost : f \in {g \in P : g.at = q}} \cup {b[q]}
           c == [q \in States |-> Min(T(q))]
<1>1. ASSUME NEW q \in States
      PROVE  /\ b[q] \in Costs /\ c[q] \in T(q) /\ c[q] \in Nat
             /\ \A x \in T(q) : c[q] <= x
  <2>1. b[q] \in Costs /\ b[q] \in Nat
    BY DEF Costs, Unreached
  <2>2. T(q) \in SUBSET Nat /\ T(q) # {}
    BY <2>1
  <2> HIDE DEF T
  <2>3. Min(T(q)) \in T(q) /\ \A x \in T(q) : Min(T(q)) <= x
    BY <2>2, SmallestOf
  <2> QED
    BY <2>1, <2>2, <2>3
<1> HIDE DEF c
<1>2. ASSUME NEW q \in States PROVE c[q] <= b[q] /\ c[q] \in Costs
  <2>1. b[q] \in T(q) /\ b[q] \in Costs /\ c[q] \in Nat
    BY <1>1
  <2>2. c[q] <= b[q]
    BY <1>1, <2>1
  <2>3. b[q] <= Unreached /\ b[q] \in Nat
    BY <2>1, CostsAreNumbers
  <2>4. c[q] <= Unreached
    BY <2>1, <2>2, <2>3 DEF Unreached
  <2> QED
    BY <2>1, <2>2, <2>4, CostsAreNumbers
<1>3. IsFcnOn(c, States)
  BY DEF c, IsFcnOn
<1>4. c \in [States -> Costs]
  BY <1>2, <1>3 DEF IsFcnOn
<1>5. \A f \in P : c[f.at] <= f.cost
  BY <1>1
<1>6. \A q \in States : c[q] = b[q] \/ \E f \in P : f.at = q /\ f.cost = c[q]
  BY <1>1
<1> QED
  BY <1>2, <1>4, <1>5, <1>6 DEF Lowered, c

\* A symbol's entry is a path that is longer by the symbol.
LEMMA LongerEntry ==
  ASSUME NEW S \in Targets, NEW s \in States, NEW h \in Monitors, NEW e, Entry(S, s, h, e),
         e.at \notin S, NEW a \in Relaxed(e), NEW f,
         f.at = Target(e.at, a), f.cost = e.cost + Cost(a), f.path = Append(e.path, a)
  PROVE  Entry(S, s, h, f)
<1>1. PICK t \in Transitions : t[1] = e.at /\ t[2] = a /\ t[3] = Target(e.at, a)
  BY EdgeOfSymbol DEF Relaxed
<1>2. f.at \in States /\ f.cost \in Nat /\ e.cost \in Nat /\ Cost(a) \in Nat
  BY <1>1, EdgeTypes, CostTypes DEF Entry
<1>3. PICK m \in Monitors :
        /\ Routes(s, h, e.path, e.at, e.cost, m)
        /\ Coherent(e.at, m)
        /\ Verified(h) /\ e.cost + Away(S, e.at) = Away(S, s) => Verified(m)
  BY DEF Entry
<1> DEFINE n == Read(m, a)
<1>4. n \in Monitors
  BY MonitorTypes
<1>5. Routes(s, h, f.path, f.at, f.cost, n)
  <2>1. e.at \in States /\ e.cost \in Nat /\ a \in Admissible(e.at)
    BY DEF Entry, Relaxed
  <2> QED
    BY <1>3, <2>1, LongerRoutes
<1>6. Coherent(f.at, n)
  BY <1>1, <1>3, EdgeKeepsCoherence
<1>7. /\ Away(S, e.at) \in Nat /\ Away(S, f.at) \in Nat /\ Away(S, s) \in Nat
      /\ Away(S, s) <= e.cost + Away(S, e.at)
  BY AwayTypes DEF Entry
<1>8. /\ Away(S, e.at) <= Cost(a) + Away(S, f.at)
      /\ Away(S, e.at) = Cost(a) + Away(S, f.at) =>
           a # "power_start" /\ (a = "session_close" => e.at = "AUTH_PENDING")
  BY <1>1, HonestEdges DEF Honest
<1>9. Away(S, s) <= f.cost + Away(S, f.at)
  BY <1>2, <1>7, <1>8
<1>10. ASSUME Verified(h), f.cost + Away(S, f.at) = Away(S, s)
       PROVE  Verified(n)
  <2>1. e.cost + Away(S, e.at) = Away(S, s) /\ Away(S, e.at) = Cost(a) + Away(S, f.at)
    <3> DEFINE u == Away(S, s)
               v == Cost(a)
               x == e.cost
               y == Away(S, e.at)
               z == Away(S, f.at)
    <3>1. u \in Nat /\ v \in Nat /\ x \in Nat /\ y \in Nat /\ z \in Nat
      BY <1>2, <1>7
    <3>2. u <= x + y /\ y <= v + z
      BY <1>7, <1>8
    <3>3. (x + v) + z = u
      BY <1>10
    <3> HIDE DEF u, v, x, y, z
    <3>4. x + y = u /\ y = v + z
      BY <3>1, <3>2, <3>3, TightSteps
    <3> QED
      BY <3>4 DEF u, v, x, y, z
  <2>2. Verified(m)
    BY <1>3, <1>10, <2>1
  <2>3. a # "power_start" /\ a # "session_close"
    BY <1>8, <2>1, RelaxedClosing
  <2>4. /\ n.p1 = P1Next(m.p1, a) /\ n.p3 = P3Next(m.p3, a)
        /\ m.p1 \in P1States /\ m.p3 \in P3States
        /\ m.p1 # "p1_bad" /\ m.p3 # "p3_bad"
    BY <2>2 DEF Read, Monitors, Verified
  <2> HIDE DEF n
  <2>5. n.p1 # "p1_bad"
    BY <2>3, <2>4 DEF P1Next, P1States
  <2>6. n.p3 # "p3_bad"
    BY <2>3, <2>4 DEF P3Next, P3States
  <2> QED
    BY <1>6, <2>5, <2>6 DEF Verified, Coherent
<1> QED
  BY <1>2, <1>4, <1>5, <1>6, <1>9, <1>10 DEF Entry

\* Costs that have been lowered to those of entries that wait keep what is
\* settled, or let it wait.
LEMMA LoweredReaches ==
  ASSUME NEW S, NEW s, NEW h, NEW Q, NEW b, NEW c, NEW e \in Q, NEW P,
         Reaching(S, s, h, Q, b), e.at \notin S, e.cost = b[e.at],
         Lowered(c, b, P), c[e.at] = b[e.at], Settled(c, e.at),
         \A f \in P : Entry(S, s, h, f)
  PROVE  Reaching(S, s, h, (Q \ {e}) \cup P, c)
<1> DEFINE R == (Q \ {e}) \cup P
<1>0. /\ S \in Targets /\ s \in States /\ s \notin S
      /\ b \in [States -> Costs] /\ b[s] = 0 /\ c \in [States -> Costs]
  BY DEF Reaching, Lowered
<1>1. \A q \in States : c[q] \in Nat /\ b[q] \in Nat /\ c[q] <= b[q]
  BY <1>0, CostsAreNumbers DEF Lowered
<1>2. \A f \in R : Entry(S, s, h, f)
  BY DEF Reaching
<1>3. \A f \in R : c[f.at] <= f.cost
  <2> SUFFICES ASSUME NEW f \in Q PROVE c[f.at] <= f.cost
    BY DEF Lowered
  <2>1. f.at \in States /\ f.cost \in Nat /\ b[f.at] <= f.cost
    BY DEF Reaching, Entry
  <2> QED
    BY <1>1, <2>1
<1>4. \A q \in States : q # e.at /\ c[q] = b[q] /\ Waits(Q, b, q) => Waits(R, c, q)
  BY DEF Waits
<1>5. \A q \in States : c[q] # b[q] => Waits(R, c, q)
  BY DEF Waits, Lowered
<1>6. \A q \in States : Away(S, s) <= c[q] + Away(S, q)
  <2> SUFFICES ASSUME NEW q \in States PROVE Away(S, s) <= c[q] + Away(S, q)
    OBVIOUS
  <2>1. CASE c[q] = b[q]
    BY <2>1 DEF Reaching
  <2>2. CASE c[q] # b[q]
    <3>1. PICK f \in P : f.at = q /\ f.cost = c[q]
      BY <2>2 DEF Lowered
    <3> QED
      BY <3>1 DEF Entry
  <2> QED
    BY <2>1, <2>2
<1>7. ASSUME NEW q \in States
      PROVE  c[q] = Unreached \/ Waits(R, c, q) \/ q \in S \/ Settled(c, q)
  <2>1. CASE q = e.at
    BY <2>1
  <2>2. CASE c[q] # b[q]
    BY <1>5, <2>2
  <2>3. CASE q # e.at /\ c[q] = b[q]
    <3>1. Settled(b, q) => Settled(c, q)
      <4> SUFFICES ASSUME Settled(b, q), NEW t \in Transitions, t[1] = q
                   PROVE  c[t[3]] <= c[q] + Cost(t[2])
        BY DEF Settled
      <4>1. b[t[3]] <= b[q] + Cost(t[2]) /\ t[3] \in States /\ Cost(t[2]) \in Nat
        BY EdgeTypes, CostTypes DEF Settled
      <4> QED
        BY <1>1, <2>3, <4>1
    <3> QED
      BY <1>4, <2>3, <3>1 DEF Reaching
  <2> QED
    BY <2>1, <2>2, <2>3
<1>8. ASSUME Verified(h), NEW q \in S \cap States, OnTrack(S, s, c, q)
      PROVE  Waits(R, c, q)
  <2>1. CASE c[q] = b[q]
    <3>1. Waits(Q, b, q)
      BY <1>8, <2>1 DEF Reaching, OnTrack
    <3> QED
      BY <1>4, <1>8, <2>1, <3>1
  <2>2. CASE c[q] # b[q]
    BY <1>5, <2>2
  <2> QED
    BY <2>1, <2>2
<1>9. c[s] = 0
  BY <1>0, <1>1
<1> QED
  BY <1>0, <1>2, <1>3, <1>6, <1>7, <1>8, <1>9 DEF Reaching

LEMMA ExpandKeeps ==
  ASSUME RecoveryInv, NEW e \in queue, Expand(e)
  PROVE  RecoveryInv'
<1> DEFINE P == Pushed(e)
           Q == (queue \ {e}) \cup P
           c == [q \in States |-> Min({f.cost : f \in {g \in P : g.at = q}} \cup {best[q]})]
<1>1. /\ phase = "search" /\ phase' = "search"
      /\ e.cost = best[e.at] /\ e.at \notin safe
      /\ queue' = Q /\ best' = c
      /\ UNCHANGED monitoredVars /\ UNCHANGED <<safe, plan, rival>>
  BY DEF Expand, Popped, Remaining
<1>2. state' = state /\ History' = History /\ IInv' /\ History \in Monitors
  BY <1>1, SameSession DEF RecoveryInv, IInv, Coherent
<1>3. Reaching(safe, state, History, queue, best)
  BY <1>1 DEF RecoveryInv, Searching
<1>4. /\ safe \in Targets /\ state \in States /\ best \in [States -> Costs]
      /\ Entry(safe, state, History, e) /\ e.at \in States /\ e.cost \in Nat
  BY <1>3 DEF Reaching, Entry
<1>5. \A a \in Relaxed(e) : Target(e.at, a) \in States
  <2> SUFFICES ASSUME NEW a \in Relaxed(e) PROVE Target(e.at, a) \in States
    OBVIOUS
  <2>1. a \in Admissible(e.at)
    BY DEF Relaxed
  <2> QED
    BY <2>1, EdgeOfSymbol, EdgeTypes
<1> DEFINE F(a) == [cost |-> Reached(e, a), at |-> Target(e.at, a), path |-> Append(e.path, a),
                    serial |-> serial + Cardinality({b \in Relaxed(e) : Rank[b] < Rank[a]})]
<1>5a. P = {F(a) : a \in Relaxed(e)}
  BY DEF Pushed
<1>5b. \A a : /\ F(a).at = Target(e.at, a) /\ F(a).cost = e.cost + Cost(a)
             /\ F(a).path = Append(e.path, a)
  BY DEF Reached
<1> HIDE DEF F
<1>6. ASSUME NEW f \in P
      PROVE  /\ \E a \in Relaxed(e) : /\ f.at = Target(e.at, a) /\ f.cost = e.cost + Cost(a)
                                      /\ f.path = Append(e.path, a)
  BY <1>5a, <1>5b
<1>7. \A a \in Relaxed(e) :
        \E f \in P : f.at = Target(e.at, a) /\ f.cost = e.cost + Cost(a)
  BY <1>5a, <1>5b
<1> HIDE DEF P
<1>8. \A f \in P : Entry(safe, state, History, f)
  <2> SUFFICES ASSUME NEW f \in P PROVE Entry(safe, state, History, f)
    OBVIOUS
  <2>1. PICK a \in Relaxed(e) : /\ f.at = Target(e.at, a) /\ f.cost = e.cost + Cost(a)
                                /\ f.path = Append(e.path, a)
    BY <1>6
  <2> QED
    BY <1>1, <1>2, <1>4, <2>1, LongerEntry
<1>9. \A f \in P : f.at \in States /\ f.cost \in Nat /\ f.cost > e.cost
  <2> SUFFICES ASSUME NEW f \in P PROVE f.at \in States /\ f.cost \in Nat /\ f.cost > e.cost
    OBVIOUS
  <2>1. f.at \in States /\ f.cost \in Nat
    BY <1>8 DEF Entry
  <2>2. PICK a \in Relaxed(e) : f.cost = e.cost + Cost(a)
    BY <1>6
  <2> QED
    BY <1>4, <2>1, <2>2, CostTypes
<1>10. Lowered(c, best, P)
  BY <1>4, <1>9, BestIsLowered
<1> HIDE DEF c
<1>11. c[e.at] = best[e.at]
  <2>1. c[e.at] \in Nat /\ c[e.at] <= e.cost
    BY <1>1, <1>4, <1>10, CostsAreNumbers DEF Lowered
  <2>2. ~ \E f \in P : f.cost = c[e.at]
    BY <1>4, <1>9, <2>1
  <2> QED
    BY <1>4, <1>10, <2>2 DEF Lowered
<1>12. Settled(c, e.at)
  <2> SUFFICES ASSUME NEW t \in Transitions, t[1] = e.at
               PROVE  c[t[3]] <= e.cost + Cost(t[2])
    BY <1>1, <1>11 DEF Settled
  <2>1. t[3] \in States /\ Cost(t[2]) \in Nat
    BY EdgeTypes, CostTypes
  <2>2. best[t[3]] \in Nat /\ c[t[3]] \in Nat /\ c[t[3]] <= best[t[3]]
    BY <1>4, <1>10, <2>1, CostsAreNumbers DEF Lowered
  <2>3. CASE e.cost + Cost(t[2]) < best[t[3]]
    <3>1. PICK a \in Relaxed(e) : Target(e.at, a) = t[3] /\ Cost(a) <= Cost(t[2])
      BY <1>4, <2>2, <2>3, EdgeIsRelaxed
    <3>2. PICK f \in P : f.at = t[3] /\ f.cost = e.cost + Cost(a)
      BY <1>7, <3>1
    <3>3. c[t[3]] <= f.cost /\ Cost(a) \in Nat
      BY <1>10, <3>2, CostTypes DEF Lowered
    <3> QED
      BY <1>4, <2>1, <2>2, <3>1, <3>2, <3>3
  <2>4. CASE ~(e.cost + Cost(t[2]) < best[t[3]])
    BY <1>4, <2>1, <2>2, <2>4
  <2> QED
    BY <2>3, <2>4
<1>13. Reaching(safe, state, History, Q, c)
  BY <1>1, <1>3, <1>8, <1>10, <1>11, <1>12, LoweredReaches
<1>14. Searching' /\ Unplanned'
  BY <1>1, <1>2, <1>13 DEF Searching, RecoveryInv, Unplanned
<1> QED
  BY <1>1, <1>2, <1>14 DEF RecoveryInv, Fresh, Finished

-----------------------------------------------------------------------------
\* The rival path follows edges that are settled as long as it is cheaper.
LEMMA RivalKeeps ==
  ASSUME RecoveryInv, NEW t \in Transitions, Rival(t)
  PROVE  RecoveryInv'
<1>1. /\ phase = "done" /\ phase' = "done"
      /\ UNCHANGED monitoredVars /\ UNCHANGED <<safe, queue, best, plan>>
  BY DEF Rival, searchVars
<1>2. state' = state /\ History' = History /\ IInv' /\ StartRival' = StartRival
  BY <1>1, SameSession DEF RecoveryInv, StartRival
<1> DEFINE m(r) == Read(r.history, t[2])
           c(r) == r.cost + Cost(t[2])
<1>3. PICK r \in rival :
        /\ r.at = t[1] /\ r.at \notin safe /\ Verified(m(r))
        /\ c(r) <= (IF plan.status = "FOUND" THEN plan.cost - 1 ELSE MaxCost)
        /\ rival' = {[at |-> t[3], history |-> m(r), cost |-> c(r)]}
  BY DEF Rival
<1>4. \A f \in rival' : f.at = t[3] /\ f.cost = r.cost + Cost(t[2])
  BY <1>3
<1>5. t[1] \in States /\ t[3] \in States /\ t[1] # "FAULT_TERMINAL" /\ Cost(t[2]) \in Nat \ {0}
  BY EdgeTypes, EmergencyEdges, CostTypes
<1>6. Finished
  BY DEF RecoveryInv
<1>7. CASE plan.status = "FOUND"
  <2>1. /\ Found(safe, state, History, best, plan)
        /\ r.cost \in Nat /\ (r.cost < plan.cost => best[r.at] <= r.cost)
    BY <1>1, <1>3, <1>6, <1>7 DEF Finished
  <2>2. plan.cost \in Nat /\ r.cost + Cost(t[2]) <= plan.cost - 1
    BY <1>3, <1>7, <2>1 DEF Found
  <2>3. r.cost < plan.cost /\ plan.cost > 0
    BY <1>5, <2>1, <2>2
  <2>4. best \in [States -> Costs] /\ (best[t[1]] >= plan.cost \/ Settled(best, t[1]))
    BY <1>3, <1>5, <2>1, <2>3 DEF Found
  <2>5. best[t[1]] \in Nat /\ best[t[3]] \in Nat /\ best[t[1]] <= r.cost
    BY <1>3, <1>5, <2>1, <2>3, <2>4, CostsAreNumbers
  <2>6. best[t[3]] <= best[t[1]] + Cost(t[2])
    <3>1. ~(best[t[1]] >= plan.cost)
      BY <2>1, <2>2, <2>3, <2>5
    <3> QED
      BY <2>4, <3>1 DEF Settled
  <2>7. best[t[3]] <= r.cost + Cost(t[2])
    BY <1>5, <2>1, <2>5, <2>6
  <2>8. \A f \in rival' : f.at \in States /\ f.cost \in Nat /\ best[f.at] <= f.cost
    BY <1>4, <1>5, <2>1, <2>7
  <2>9. Finished'
    BY <1>1, <1>2, <1>7, <2>1, <2>8 DEF Finished
  <2> QED
    BY <1>1, <1>2, <2>9 DEF RecoveryInv, Fresh, Unplanned, Searching
<1>8. CASE plan.status = "NO_PATH"
  <2>1. Hopeless(safe, state, History) /\ r = StartRival
    BY <1>1, <1>3, <1>6, <1>8 DEF Finished
  <2>2. r.at = state /\ r.history = History
    BY <2>1 DEF StartRival
  <2>3. ~Verified(History)
    BY <1>3, <1>5, <2>1, <2>2 DEF Hopeless
  <2>4. ~Verified(Read(History, t[2]))
    BY <2>3 DEF Verified, Read, P1Next, P2Next, P3Next, P5Next
  <2> QED
    BY <1>3, <2>2, <2>4
<1>9. CASE plan.status = "REJECTED"
  <2>1. Finished'
    BY <1>1, <1>9 DEF Finished
  <2> QED
    BY <1>1, <1>2, <2>1 DEF RecoveryInv, Fresh, Unplanned, Searching
<1> QED
  BY <1>1, <1>6, <1>7, <1>8, <1>9 DEF Finished

LEMMA NextRecovery == RecoveryInv /\ [Next]_vars => RecoveryInv'
<1> SUFFICES ASSUME RecoveryInv, [Next]_vars PROVE RecoveryInv'
  OBVIOUS
<1>1. ASSUME NEW t \in Transitions, Continue(t) \/ Rival(t) PROVE RecoveryInv'
  BY <1>1, ContinueKeeps, RivalKeeps
<1>2. ASSUME NEW S \in Targets, RecoverInPlace(S) \/ Recover(S) PROVE RecoveryInv'
  BY <1>2, RecoverInPlaceKeeps, RecoverKeeps
<1>3. ASSUME NEW e \in queue, PopStale(e) \/ PopRejected(e) \/ PopFound(e) \/ Expand(e)
      PROVE  RecoveryInv'
  BY <1>3, PopStaleKeeps, PopRejectedKeeps, PopFoundKeeps, ExpandKeeps
<1>4. CASE Exhausted
  BY <1>4, ExhaustedKeeps
<1>5. CASE UNCHANGED vars
  <2>1. /\ UNCHANGED monitoredVars /\ phase' = phase /\ safe' = safe /\ queue' = queue
        /\ best' = best /\ plan' = plan /\ rival' = rival
    BY <1>5 DEF vars, searchVars
  <2>2. state' = state /\ History' = History /\ (IInv' <=> IInv) /\ StartRival' = StartRival
    BY <2>1, SameSession DEF StartRival
  <2>3. Fresh' /\ Unplanned' /\ Searching'
    BY <2>1, <2>2 DEF RecoveryInv, Fresh, Unplanned, Searching
  <2>4. Finished'
    BY <2>1, <2>2 DEF RecoveryInv, Finished
  <2> QED
    BY <2>1, <2>2, <2>3, <2>4 DEF RecoveryInv
<1> QED
  BY <1>1, <1>2, <1>3, <1>4, <1>5 DEF Next, Search

THEOREM RecoveryInvariant == Spec => []RecoveryInv
BY InitRecovery, NextRecovery, PTL DEF Spec

LEMMA PlansOfInvariant ==
  ASSUME RecoveryInv, plan.status # "none"
  PROVE  phase = "done"
<1>1. NoPlan.status = "none"
  BY DEF NoPlan, Plan
<1> QED
  BY <1>1 DEF RecoveryInv, Unplanned

\* A plan that is returned is a run of the session automaton from the failed
\* state into a safe state at the cost it states, and the gate passes it.
THEOREM PlansAreVerified == Spec => []PlanIsVerified
<1>1. RecoveryInv => PlanIsVerified
  <2> SUFFICES ASSUME RecoveryInv, plan.status = "FOUND" PROVE PlanIsVerified
    BY DEF PlanIsVerified
  <2>1. Found(safe, state, History, best, plan)
    BY PlansOfInvariant DEF RecoveryInv, Finished
  <2>2. PICK m \in Monitors :
          Routes(state, History, plan.path, plan.target, plan.cost, m) /\ Verified(m)
    BY <2>1 DEF Found
  <2> QED
    BY <2>1, <2>2 DEF PlanIsVerified, Found, Routes, WalkEnds, PathCost, Gate, Replay
<1> QED
  BY <1>1, RecoveryInvariant, PTL

\* Dijkstra's bound: what a verified path reaches below the cost of the plan,
\* however long it is, the search reached at no more.
THEOREM SearchSettlesStates == Spec => []SearchSettles
<1>1. RecoveryInv => SearchSettles
  <2> SUFFICES ASSUME RecoveryInv, phase = "done", plan.status # "REJECTED", NEW r \in rival,
                      plan.status = "FOUND" => r.cost < plan.cost
               PROVE  best[r.at] <= r.cost
    BY DEF SearchSettles
  <2>1. CASE plan.status = "FOUND"
    BY <2>1 DEF RecoveryInv, Finished
  <2>2. CASE plan.status = "NO_PATH"
    <3>1. r = StartRival /\ best[state] = 0
      BY <2>2 DEF RecoveryInv, Finished
    <3>2. StartRival.at = state /\ StartRival.cost = 0
      BY DEF StartRival
    <3> QED
      BY <3>1, <3>2
  <2> QED
    BY <2>1, <2>2 DEF RecoveryInv, Finished
<1> QED
  BY <1>1, RecoveryInvariant, PTL

\* No path is found only where there is no verified path to a safe state.
THEOREM NoPathOnlyIfNone == Spec => []NoPathMeansNone
<1>1. RecoveryInv => NoPathMeansNone
  <2> SUFFICES ASSUME RecoveryInv, plan.status = "NO_PATH", NEW r \in rival
               PROVE  r.at \notin safe
    BY DEF NoPathMeansNone
  <2>1. r = StartRival /\ state \notin safe
    BY PlansOfInvariant DEF RecoveryInv, Finished, Hopeless
  <2> QED
    BY <2>1 DEF StartRival
<1> QED
  BY <1>1, RecoveryInvariant, PTL

\* What is behind that: the engine gives up in the trap or after a history that
\* has violated a property, and in no other state, although it drops whatever
\* lies behind a rejected candidate.
THEOREM GivesUpOnlyIfHopeless ==
  Spec => [](plan.status = "NO_PATH" => state = "FAULT_TERMINAL" \/ ~Verified(History))
<1>1. RecoveryInv => (plan.status = "NO_PATH" => state = "FAULT_TERMINAL" \/ ~Verified(History))
  BY PlansOfInvariant DEF RecoveryInv, Finished, Hopeless
<1> QED
  BY <1>1, RecoveryInvariant, PTL
=============================================================================
