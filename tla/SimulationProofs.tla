-------------------------- MODULE SimulationProofs --------------------------
(***************************************************************************)
(* The clock dispatches in its order whatever is asked of it.  It never    *)
(* leaves an event behind, and never runs backwards, when no call of run   *)
(* gives both an until and a max_events: with both, a run that spends its  *)
(* budget before until moves the clock past events that are still pending. *)
(*                                                                         *)
(* Over this clock the log explains the fleet, and no event is lost, for   *)
(* every fleet, all symbols and every way to cut a simulation into runs.   *)
(***************************************************************************)
EXTENDS FleetSimulator, Recursion

-----------------------------------------------------------------------------
\* The clock.

\* What holds for all calls of run.
OrderInv ==
  /\ ClockTypeOK
  /\ DispatchedInOrder
  \* sequence numbers are fresh
  /\ \A e \in queue \cup last : e.seq < sequence
  \* the last event dispatched is not ahead of the clock
  /\ \A e \in last : e.time <= now

\* The condition on the calls, for all values of the other constants.
SingleLimit == \A call \in RunCalls : call.until = {} \/ call.max = {}

\* What holds under that condition: a run with an until has no budget, and its
\* until is not in the past; between two runs neither is set.
TimeInv ==
  /\ NoPastEvents
  /\ until = {} \/ left = {}
  /\ ~running => until = {} /\ left = {}
  /\ \A u \in until : u >= now

-----------------------------------------------------------------------------
\* What a valid timestamp and a fresh sequence number make.
LEMMA NewEvent ==
  ASSUME NEW t \in Times, sequence \in 0..MaxSequence, sequence < MaxSequence
  PROVE  /\ Event(t, sequence) \in Events
         /\ Event(t, sequence).time = t
         /\ Event(t, sequence).seq = sequence
BY ClockAssumption DEF Event, Events

\* An absent argument is a value of every optional type.
LEMMA NothingPending ==
  ASSUME NEW S
  PROVE  {} \in Optional(S)
BY DEF Optional

\* The event dispatched is before every other pending one.
LEMMA DispatchedEvent ==
  ASSUME OrderInv, NEW e \in queue, IsFirst(e), Due(e)
  PROVE  /\ e \in Events /\ e.time \in Times
         /\ \A f \in queue \ {e} : Before(e, f) /\ f.time >= e.time
         /\ \A u \in until : e.time <= u
<1>1. e \in Events /\ e.time \in Times
  BY DEF OrderInv, ClockTypeOK, Events
<1>2. \A f \in queue \ {e} : Before(e, f) /\ f.time >= e.time
  BY <1>1, ClockAssumption DEF OrderInv, ClockTypeOK, Events, IsFirst, Before, Times
<1> QED
  BY <1>1, <1>2 DEF Due

\* A budget of which one is spent.
LEMMA BudgetSpent ==
  ASSUME ClockTypeOK, NEW e, Dispatch(e)
  PROVE  left' \in Optional(0..MaxSequence) /\ (left = {} => left' = {})
<1>1. CASE left = {}
  BY <1>1 DEF Dispatch, Optional
<1>2. CASE left # {}
  <2>1. PICK n \in 0..MaxSequence : left = {n}
    BY <1>2 DEF ClockTypeOK, Optional
  <2>2. n > 0 /\ left' = {n - 1}
    BY <2>1 DEF Due, Dispatch
  <2> QED
    BY <1>2, <2>1, <2>2, ClockAssumption DEF Optional
<1> QED
  BY <1>1, <1>2

\* The clock moves to until, or stays.
LEMMA EndRunMoves ==
  ASSUME ClockTypeOK, EndRun
  PROVE  now' \in Times /\ now' >= now /\ (now' = now \/ until = {now'})
<1>0. now \in Nat
  BY ClockAssumption DEF ClockTypeOK, Times
<1>1. CASE \E u \in until : u > now
  <2>1. PICK u \in Times : until = {u}
    BY <1>1 DEF ClockTypeOK, Optional
  <2>2. (CHOOSE x \in until : TRUE) = u
    BY <2>1
  <2>3. u \in Nat /\ u > now
    BY <1>1, <2>1, ClockAssumption DEF Times
  <2> QED
    BY <1>0, <1>1, <2>1, <2>2, <2>3 DEF EndRun
<1>2. CASE ~ \E u \in until : u > now
  BY <1>0, <1>2 DEF EndRun, ClockTypeOK
<1> QED
  BY <1>1, <1>2

-----------------------------------------------------------------------------
LEMMA InitOrder == ClockInit => OrderInv
<1> SUFFICES ASSUME ClockInit PROVE OrderInv
  OBVIOUS
<1>1. {} \in Optional(Times) /\ {} \in Optional(0..MaxSequence)
  BY NothingPending
<1>2. 0 \in 0..MaxSequence
  BY ClockAssumption
<1>3. ClockTypeOK
  BY <1>1, <1>2 DEF ClockInit, ClockTypeOK
<1> QED
  BY <1>3 DEF ClockInit, OrderInv, DispatchedInOrder

LEMMA ScheduleOrder ==
  ASSUME OrderInv, NEW t \in Times, ScheduleAt(t)
  PROVE  OrderInv'
<1> USE DEF OrderInv, ScheduleAt
<1>1. /\ Event(t, sequence) \in Events
      /\ Event(t, sequence).time = t
      /\ Event(t, sequence).seq = sequence
  BY NewEvent DEF ClockTypeOK
<1>2. ClockTypeOK'
  BY <1>1, ClockAssumption DEF ClockTypeOK
<1>3. DispatchedInOrder'
  BY <1>1, ClockAssumption DEF DispatchedInOrder, Before, ClockTypeOK, Events, Times
<1>4. \A e \in (queue \cup last)' : e.seq < sequence'
  BY <1>1, ClockAssumption DEF ClockTypeOK, Events
<1> QED
  BY <1>2, <1>3, <1>4

LEMMA DispatchOrder ==
  ASSUME OrderInv, NEW e \in queue, Dispatch(e)
  PROVE  OrderInv'
<1> USE DEF OrderInv
<1>1. IsFirst(e) /\ Due(e)
  BY DEF Dispatch
<1>2. /\ e \in Events /\ e.time \in Times
      /\ \A f \in queue \ {e} : Before(e, f) /\ f.time >= e.time
  BY <1>1, DispatchedEvent
<1>3. left' \in Optional(0..MaxSequence)
  BY BudgetSpent
<1>4. \A f \in last' : f.time <= now'
  BY <1>2, ClockAssumption DEF Dispatch, Times
<1>5. CASE queue' = queue \ {e} /\ sequence' = sequence
  <2>1. ClockTypeOK'
    BY <1>2, <1>3, <1>5 DEF Dispatch, ClockTypeOK
  <2>2. DispatchedInOrder'
    BY <1>2, <1>5 DEF Dispatch, DispatchedInOrder
  <2>3. \A f \in (queue \cup last)' : f.seq < sequence'
    BY <1>5 DEF Dispatch
  <2> QED
    BY <1>4, <2>1, <2>2, <2>3
<1>6. ASSUME NEW t \in e.time..Horizon, sequence < MaxSequence,
             queue' = (queue \ {e}) \cup {Event(t, sequence)},
             sequence' = sequence + 1
      PROVE  OrderInv'
  <2>0. t \in Times /\ t >= e.time
    BY <1>2, <1>6, ClockAssumption DEF Times
  <2>1. /\ Event(t, sequence) \in Events
        /\ Event(t, sequence).time = t
        /\ Event(t, sequence).seq = sequence
    BY <1>6, <2>0, NewEvent DEF ClockTypeOK
  <2>2. ClockTypeOK'
    BY <1>2, <1>3, <1>6, <2>1, ClockAssumption DEF Dispatch, ClockTypeOK
  <2>3. DispatchedInOrder'
    <3>1. Before(e, Event(t, sequence))
      BY <1>2, <2>0, <2>1, ClockAssumption DEF Before, ClockTypeOK, Events, Times
    <3> QED
      BY <1>2, <1>6, <3>1 DEF Dispatch, DispatchedInOrder
  <2>4. \A f \in (queue \cup last)' : f.seq < sequence'
    BY <1>6, <2>1, ClockAssumption DEF Dispatch, ClockTypeOK, Events
  <2> QED
    BY <1>4, <2>2, <2>3, <2>4
<1> QED
  BY <1>5, <1>6 DEF Dispatch

LEMMA DispatchRaisesOrder ==
  ASSUME OrderInv, NEW e \in queue, DispatchRaises(e)
  PROVE  OrderInv'
<1>1. /\ e \in Events /\ e.time \in Times
      /\ \A f \in queue \ {e} : Before(e, f) /\ f.time >= e.time
  BY DispatchedEvent DEF DispatchRaises
<1>2. ClockTypeOK'
  BY <1>1, NothingPending DEF OrderInv, DispatchRaises, ClockTypeOK
<1>3. DispatchedInOrder'
  BY <1>1 DEF DispatchRaises, DispatchedInOrder
<1>4. \A f \in (queue \cup last)' : f.seq < sequence'
  BY DEF OrderInv, DispatchRaises
<1>5. \A f \in last' : f.time <= now'
  BY <1>1 DEF DispatchRaises, Times
<1> QED
  BY <1>2, <1>3, <1>4, <1>5 DEF OrderInv, DispatchRaises

LEMMA EndRunOrder ==
  ASSUME OrderInv, EndRun
  PROVE  OrderInv'
<1>1. now' \in Times /\ now' >= now
  BY EndRunMoves DEF OrderInv
<1>2. ClockTypeOK'
  BY <1>1, NothingPending DEF OrderInv, EndRun, ClockTypeOK
<1>3. DispatchedInOrder'
  BY DEF OrderInv, EndRun, DispatchedInOrder
<1>4. \A e \in last' : e.time <= now'
  <2> SUFFICES ASSUME NEW e \in last PROVE e.time <= now'
    BY DEF EndRun
  <2>1. e.time \in Nat /\ now' \in Nat /\ now \in Nat /\ e.time <= now
    BY <1>1, ClockAssumption DEF OrderInv, ClockTypeOK, Events, Times
  <2> QED
    BY <1>1, <2>1
<1> QED
  BY <1>2, <1>3, <1>4 DEF OrderInv, EndRun

LEMMA NextOrder == OrderInv /\ [ClockNext]_clockVars => OrderInv'
<1> SUFFICES ASSUME OrderInv, [ClockNext]_clockVars PROVE OrderInv'
  OBVIOUS
<1>1. ASSUME NEW call \in RunCalls, BeginRun(call) PROVE OrderInv'
  <2>1. call.until \in Optional(Times) /\ call.max \in Optional(0..MaxSequence)
    BY ClockAssumption DEF Calls
  <2> QED
    BY <1>1, <2>1 DEF OrderInv, BeginRun, ClockTypeOK, DispatchedInOrder
<1>2. ASSUME NEW t \in Times, Reset(t) PROVE OrderInv'
  <2>1. 0 \in 0..MaxSequence
    BY ClockAssumption
  <2> QED
    BY <1>2, <2>1 DEF OrderInv, Reset, ClockTypeOK, DispatchedInOrder
<1>3. CASE Clear
  BY <1>3 DEF OrderInv, Clear, ClockTypeOK, DispatchedInOrder
<1>4. CASE UNCHANGED clockVars
  BY <1>4 DEF clockVars, OrderInv, ClockTypeOK, DispatchedInOrder
<1> QED
  BY <1>1, <1>2, <1>3, <1>4, ScheduleOrder, DispatchOrder, DispatchRaisesOrder, EndRunOrder
     DEF ClockNext, Loop

\* Events leave in the order of the queue whatever is scheduled in between,
\* and for all limits that the calls of run give.
THEOREM ClockDispatchesInOrder == ClockSpec => [](ClockTypeOK /\ DispatchedInOrder)
<1>1. OrderInv => ClockTypeOK /\ DispatchedInOrder
  BY DEF OrderInv
<1> QED
  BY InitOrder, NextOrder, <1>1, PTL DEF ClockSpec

-----------------------------------------------------------------------------
LEMMA InitTime == ClockInit => TimeInv
BY DEF ClockInit, TimeInv, NoPastEvents

LEMMA ScheduleTime ==
  ASSUME OrderInv, TimeInv, NEW t \in Times, ScheduleAt(t)
  PROVE  TimeInv'
<1>1. Event(t, sequence).time = t
  BY NewEvent DEF OrderInv, ClockTypeOK, ScheduleAt
<1>2. NoPastEvents'
  BY <1>1 DEF TimeInv, ScheduleAt, NoPastEvents
<1> QED
  BY <1>2 DEF TimeInv, ScheduleAt

LEMMA DispatchTime ==
  ASSUME OrderInv, TimeInv, NEW e \in queue, Dispatch(e) \/ DispatchRaises(e)
  PROVE  TimeInv' /\ now' >= now
<1>0. now' = e.time /\ e.time >= now
  BY DEF TimeInv, NoPastEvents, Dispatch, DispatchRaises
<1>1. /\ e.time \in Times
      /\ \A f \in queue \ {e} : f.time >= e.time
      /\ \A u \in until : u >= e.time
  <2>1. IsFirst(e) /\ Due(e)
    BY DEF Dispatch, DispatchRaises
  <2> QED
    BY <2>1, DispatchedEvent, ClockAssumption DEF OrderInv, ClockTypeOK, Times, Optional
<1>2. NoPastEvents'
  <2>1. CASE queue' = queue \ {e}
    BY <1>0, <1>1, <2>1 DEF NoPastEvents
  <2>2. ASSUME NEW t \in e.time..Horizon, sequence < MaxSequence,
               queue' = (queue \ {e}) \cup {Event(t, sequence)}
        PROVE  NoPastEvents'
    <3>1. t \in Times /\ t >= e.time
      BY <1>1, <2>2, ClockAssumption DEF Times
    <3>2. Event(t, sequence).time = t
      BY <2>2, <3>1, NewEvent DEF OrderInv, ClockTypeOK
    <3> QED
      BY <1>0, <1>1, <2>2, <3>1, <3>2 DEF NoPastEvents
  <2> QED
    BY <2>1, <2>2 DEF Dispatch, DispatchRaises
<1>3. left = {} => left' = {}
  BY DEF Dispatch, DispatchRaises
<1> QED
  BY <1>0, <1>1, <1>2, <1>3 DEF TimeInv, Dispatch, DispatchRaises

\* This is where the condition on the calls is needed: an event that is not
\* due lies beyond until only if no budget stopped the loop.
LEMMA EndRunTime ==
  ASSUME OrderInv, TimeInv, EndRun
  PROVE  TimeInv'
<1>1. now' \in Times /\ (now' = now \/ until = {now'})
  BY EndRunMoves DEF OrderInv
<1>2. \A e \in queue : e.time >= now'
  <2>1. CASE now' = now
    BY <2>1 DEF TimeInv, NoPastEvents
  <2>2. CASE until = {now'}
    <3> SUFFICES ASSUME NEW e \in queue PROVE e.time >= now'
      OBVIOUS
    <3>1. left = {}
      BY <2>2 DEF TimeInv
    <3>2. ~(e.time <= now')
      BY <2>2, <3>1 DEF EndRun, Due
    <3>3. e.time \in Nat /\ now' \in Nat
      BY <1>1, ClockAssumption DEF OrderInv, ClockTypeOK, Events, Times
    <3> QED
      BY <3>2, <3>3
  <2> QED
    BY <1>1, <2>1, <2>2
<1> QED
  BY <1>2 DEF TimeInv, EndRun, NoPastEvents

LEMMA NextTime ==
  ASSUME OrderInv, TimeInv, SingleLimit, [ClockNext]_clockVars
  PROVE  TimeInv'
<1>1. ASSUME NEW call \in RunCalls, BeginRun(call) PROVE TimeInv'
  BY <1>1 DEF TimeInv, SingleLimit, BeginRun, NoPastEvents
<1>2. CASE Clear \/ \E t \in Times : Reset(t)
  BY <1>2 DEF TimeInv, Clear, Reset, NoPastEvents
<1>3. CASE UNCHANGED clockVars
  BY <1>3 DEF clockVars, TimeInv, NoPastEvents
<1> QED
  BY <1>1, <1>2, <1>3, ScheduleTime, DispatchTime, EndRunTime DEF ClockNext, Loop

\* No pending event is ever in the past, as long as no call of run combines
\* the two limits.
THEOREM ClockInvariant ==
  ASSUME SingleLimit
  PROVE  ClockSpec => []NoPastEvents
<1>1. OrderInv /\ TimeInv /\ [ClockNext]_clockVars => OrderInv' /\ TimeInv'
  BY NextOrder, NextTime
<1>2. TimeInv => NoPastEvents
  BY DEF TimeInv
<1> QED
  BY InitOrder, InitTime, <1>1, <1>2, PTL DEF ClockSpec

\* Under the same condition the clock never runs backwards.
THEOREM ClockNeverBackwards ==
  ASSUME SingleLimit
  PROVE  ClockSpec => TimeNeverBackwards
<1>1. OrderInv /\ TimeInv /\ [ClockNext]_clockVars => OrderInv' /\ TimeInv'
  BY NextOrder, NextTime
<1>2. OrderInv /\ TimeInv /\ [ClockNext]_clockVars => [now' >= now \/ \E t \in Times : Reset(t)]_clockVars
  <2> SUFFICES ASSUME OrderInv, TimeInv, ClockNext
               PROVE  now' >= now \/ \E t \in Times : Reset(t)
    OBVIOUS
  <2>0. now \in Nat
    BY ClockAssumption DEF OrderInv, ClockTypeOK, Times
  <2>1. ASSUME NEW e \in queue, Dispatch(e) \/ DispatchRaises(e)
        PROVE  now' >= now
    BY <2>1, DispatchTime
  <2>2. CASE EndRun
    BY <2>2, EndRunMoves DEF OrderInv
  <2>3. CASE Clear \/ (\E t \in Times : ScheduleAt(t)) \/ (\E c \in RunCalls : BeginRun(c))
    BY <2>0, <2>3 DEF Clear, ScheduleAt, BeginRun
  <2> QED
    BY <2>1, <2>2, <2>3 DEF ClockNext, Loop
<1> QED
  BY InitOrder, InitTime, <1>1, <1>2, PTL DEF ClockSpec, TimeNeverBackwards

-----------------------------------------------------------------------------
\* The fleet.


\* Sequence numbers are fresh: none is pending that is yet to be given.
Numbered ==
  /\ sequence \in Nat
  /\ IsFiniteSet(queue)
  /\ \A e \in queue : e.seq \in Nat /\ e.seq < sequence

\* What is pending belongs to a session that is registered.
Addressed ==
  /\ DOMAIN payload = 0..MaxSequence
  /\ sequence <= MaxSequence
  /\ \A e \in queue : payload[e.seq].id \in SessionIds /\ sessions[payload[e.seq].id] # Absent

\* So does what has been logged.
Attributed ==
  /\ \E S : events \in Seq(S)
  /\ \A i \in DOMAIN events : events[i].id \in SessionIds /\ sessions[events[i].id] # Absent

\* Sequence numbers are given without a gap, and none is given twice.
Filled == \A s \in 0..MaxSequence : payload[s] # Nothing <=> s < sequence

Conserved == sequence = Cardinality(queue) + Len(events)

FleetInv ==
  /\ sessions \in [SessionIds -> States \cup {Absent}]
  /\ Numbered /\ Addressed /\ Attributed
  /\ LogExplainsFleet
  /\ Filled /\ Conserved

-----------------------------------------------------------------------------
\* An edge leads somewhere, and nothing is called absent.
LEMMA AdmittedLeads ==
  ASSUME NEW q \in States, NEW a
  PROVE  /\ Outcome(q, a) \in States
         /\ Admitted(q, a) => <<q, a, Outcome(q, a)>> \in Transitions
<1>1. \A t \in Transitions : t = <<t[1], t[2], t[3]>> /\ t[3] \in States
  BY DEF Transitions, EntryEdges, CableEdges, EnergyEdges, SuspensionEdges, ReleaseEdges,
         SettlementEdges, States
<1>2. CASE Admitted(q, a)
  <2>1. PICK t \in Transitions : t[1] = q /\ t[2] = a
    BY <1>2 DEF Admitted, Admissible
  <2>2. <<q, a, t[3]>> \in Transitions /\ t[3] \in States
    BY <1>1, <2>1
  <2>3. Target(q, a) \in States /\ <<q, a, Target(q, a)>> \in Transitions
    BY <2>2 DEF Target
  <2> QED
    BY <1>2, <2>3 DEF Outcome
<1>3. CASE ~Admitted(q, a)
  BY <1>3 DEF Outcome
<1> QED
  BY <1>2, <1>3

LEMMA StartIsState == StartState \in States /\ Absent \notin States
BY DEF StartState, States, Absent

\* A set of places that is not empty has a last one.
LEMMA LastPlace ==
  ASSUME NEW n \in Nat, NEW S \in SUBSET (1..n), S # {}
  PROVE  \E i \in S : \A j \in S : j <= i
<1> DEFINE T == {n - i : i \in S}
<1>1. T \in SUBSET Nat /\ T # {}
  <2>1. \A i \in S : i \in 1..n /\ n - i \in Nat
    OBVIOUS
  <2> QED
    BY <2>1
<1>2. PICK k \in T : \A m \in T : ~(m < k)
  <2> HIDE DEF T
  <2> QED
    BY <1>1, SmallestMember
<1>3. PICK i \in S : k = n - i
  BY <1>2
<1>4. \A j \in S : n - j \in T
  OBVIOUS
<1>5. \A j \in S : ~(n - j < n - i)
  BY <1>2, <1>3, <1>4
<1> QED
  BY <1>5

\* Where a log leaves a session after its first n entries.
Left(log, id, n) ==
  LET mine == {i \in 1..n : log[i].id = id}
  IN  IF mine = {} THEN StartState
      ELSE log[CHOOSE i \in mine : \A j \in mine : j <= i].after

LEMMA LoggedIsLeft == \A id, n : LoggedIn(id, n) = Left(events, id, n)
BY DEF LoggedIn, Left

\* What a log says of a session is not changed by what is logged later, and
\* an entry says what it says of its own session only.
LEMMA LeftLater ==
  ASSUME NEW S, NEW log \in Seq(S), NEW e
  PROVE  LET new == Append(log, e)
         IN  /\ \A id : \A n \in 0..Len(log) : Left(new, id, n) = Left(log, id, n)
             /\ Left(new, e.id, Len(log) + 1) = e.after
             /\ \A id : id # e.id => Left(new, id, Len(log) + 1) = Left(log, id, Len(log))
<1> DEFINE L == Len(log)
           new == Append(log, e)
           mine(id, n) == {i \in 1..n : log[i].id = id}
           ours(id, n) == {i \in 1..n : new[i].id = id}
           final(M) == CHOOSE i \in M : \A j \in M : j <= i
<1>1. /\ L \in Nat
      /\ \A i \in 1..L : new[i] = log[i]
      /\ new[L + 1] = e
  OBVIOUS
<1> HIDE DEF L, new
<1>2. \A id, n : Left(new, id, n) = IF ours(id, n) = {} THEN StartState
                                    ELSE new[final(ours(id, n))].after
  BY DEF Left
<1>3. \A id, n : Left(log, id, n) = IF mine(id, n) = {} THEN StartState
                                    ELSE log[final(mine(id, n))].after
  BY DEF Left
<1>4. ASSUME NEW id, NEW n \in 0..L, NEW m, ours(id, m) = mine(id, n)
      PROVE  Left(new, id, m) = Left(log, id, n)
  <2> DEFINE M == mine(id, n)
  <2>0. ours(id, m) = M
    BY <1>4
  <2>1. CASE M = {}
    BY <1>2, <1>3, <2>0, <2>1
  <2>2. CASE M # {}
    <3>1. M \in SUBSET (1..n) /\ n \in Nat
      BY <1>1
    <3>2. final(M) \in 1..L
      <4> HIDE DEF M
      <4>1. \E i \in M : \A j \in M : j <= i
        BY <2>2, <3>1, LastPlace
      <4>2. final(M) \in M
        BY <4>1
      <4>3. \A i \in M : i \in 1..L
        BY <1>1, <3>1
      <4> HIDE DEF final
      <4> QED
        BY <4>2, <4>3
    <3>3. Left(new, id, m) = new[final(M)].after
      <4> HIDE DEF final, M, ours
      <4> QED
        BY <1>2, <2>0, <2>2
    <3>4. Left(log, id, n) = log[final(M)].after
      BY <1>3, <2>2
    <3> HIDE DEF final, M
    <3> QED
      BY <1>1, <3>2, <3>3, <3>4
  <2> QED
    BY <2>1, <2>2
<1>5. ASSUME NEW id, NEW n \in 0..L PROVE Left(new, id, n) = Left(log, id, n)
  <2>1. ours(id, n) = mine(id, n)
    BY <1>1
  <2> QED
    BY <1>4, <2>1
<1>6. Left(new, e.id, L + 1) = e.after
  <2> DEFINE M == ours(e.id, L + 1)
  <2>1. L + 1 \in M /\ M \subseteq 1..(L + 1)
    BY <1>1
  <2>2. \A j \in M : j <= L + 1
    BY <1>1, <2>1
  <2>3. \A i \in M : (\A j \in M : j <= i) => i = L + 1
    BY <1>1, <2>1
  <2>4. final(M) = L + 1
    <3> HIDE DEF M
    <3> QED
      BY <2>1, <2>2, <2>3
  <2>5. Left(new, e.id, L + 1) = new[final(M)].after
    BY <1>2, <2>1
  <2> HIDE DEF final, M
  <2> QED
    BY <1>1, <2>4, <2>5
<1>7. ASSUME NEW id, id # e.id PROVE Left(new, id, L + 1) = Left(log, id, L)
  <2>1. ours(id, L + 1) = mine(id, L)
    BY <1>1, <1>7
  <2>2. L \in 0..L
    BY <1>1
  <2> QED
    BY <1>4, <2>1, <2>2
<1> QED
  BY <1>5, <1>6, <1>7 DEF L, new

LEMMA LeftAtStart == \A log, id : Left(log, id, 0) = StartState
<1>1. 1..0 = {}
  OBVIOUS
<1> QED
  BY <1>1 DEF Left

-----------------------------------------------------------------------------
\* What the log and the fleet say of each other, for the log's length.
Explained(log) ==
  /\ \A i \in DOMAIN log :
       IF log[i].accepted THEN <<log[i].before, log[i].symbol, log[i].after>> \in Transitions
       ELSE log[i].symbol \notin Admissible(log[i].before)
  /\ \A i \in DOMAIN log : log[i].before = Left(log, log[i].id, i - 1)

\* The sessions are where the log leaves them.
LeftBy(log, fleet) ==
  \A id \in SessionIds : fleet[id] # Absent => fleet[id] = Left(log, id, Len(log))

LEMMA LogExplains == LogExplainsFleet <=> Explained(events) /\ LeftBy(events, sessions)
BY LoggedIsLeft DEF LogExplainsFleet, Explained, LeftBy

LEMMA InitFleet == Init => FleetInv
<1> SUFFICES ASSUME Init PROVE FleetInv
  OBVIOUS
<1>1. queue = {} /\ sequence = 0 /\ events = <<>>
  BY DEF Init, ClockInit
<1>2. sessions = [id \in SessionIds |-> Absent] /\ DOMAIN payload = 0..MaxSequence
      /\ \A s \in 0..MaxSequence : payload[s] = Nothing
  BY DEF Init
<1>3. Numbered /\ Addressed
  BY <1>1, <1>2, FS_EmptySet, ClockAssumption DEF Numbered, Addressed
<1>4. events \in Seq({}) /\ Len(events) = 0 /\ DOMAIN events = {}
  BY <1>1
<1>5. Attributed
  BY <1>4 DEF Attributed
<1>6. LogExplainsFleet
  BY <1>1, <1>2, <1>4, LogExplains DEF Explained, LeftBy
<1>7. Filled /\ Conserved
  BY <1>1, <1>2, <1>4, FS_EmptySet DEF Filled, Conserved
<1> QED
  BY <1>2, <1>3, <1>5, <1>6, <1>7 DEF FleetInv

\* Whoever is registered on the way is at the start, and has no entry yet.
LEMMA RegisteredKeeps ==
  ASSUME FleetInv, NEW id \in SessionIds
  PROVE  /\ Registered(id) \in [SessionIds -> States \cup {Absent}]
         /\ Registered(id)[id] # Absent
         /\ \A other \in SessionIds :
              sessions[other] # Absent => Registered(id)[other] = sessions[other]
         /\ LeftBy(events, Registered(id))
<1>1. /\ sessions \in [SessionIds -> States \cup {Absent}]
      /\ LeftBy(events, sessions)
      /\ \A i \in DOMAIN events : sessions[events[i].id] # Absent
      /\ Len(events) \in Nat /\ DOMAIN events = 1..Len(events)
  BY LogExplains DEF FleetInv, Attributed
<1>2. /\ \A other \in SessionIds : other # id => Registered(id)[other] = sessions[other]
      /\ Registered(id)[id] = IF sessions[id] = Absent THEN StartState ELSE sessions[id]
      /\ Registered(id) \in [SessionIds -> States \cup {Absent}]
  BY <1>1, StartIsState DEF Registered
<1>3. Registered(id)[id] # Absent
  BY <1>2, StartIsState
<1>4. ASSUME sessions[id] = Absent PROVE Left(events, id, Len(events)) = StartState
  <2>1. {i \in 1..Len(events) : events[i].id = id} = {}
    BY <1>1, <1>4
  <2> QED
    BY <2>1 DEF Left
<1>5. LeftBy(events, Registered(id))
  BY <1>1, <1>2, <1>4 DEF LeftBy
<1> QED
  BY <1>1, <1>2, <1>3, <1>5

LEMMA AddKeeps ==
  ASSUME FleetInv, NEW id \in SessionIds, sessions' = Registered(id),
         UNCHANGED <<queue, sequence, payload, events>>
  PROVE  FleetInv'
<1>1. /\ sessions' \in [SessionIds -> States \cup {Absent}]
      /\ \A other \in SessionIds : sessions[other] # Absent => sessions'[other] # Absent
      /\ LeftBy(events, sessions')
  BY RegisteredKeeps
<1>2. Numbered' /\ Filled' /\ Conserved'
  BY DEF FleetInv, Numbered, Filled, Conserved
<1>3. Addressed'
  BY <1>1 DEF FleetInv, Addressed
<1>4. Attributed'
  BY <1>1 DEF FleetInv, Attributed
<1>5. LogExplainsFleet'
  <2>1. Explained(events)
    BY LogExplains DEF FleetInv
  <2>2. events' = events
    OBVIOUS
  <2>3. Explained(events') /\ LeftBy(events', sessions')
    BY <1>1, <2>1, <2>2
  <2>4. (Explained(events) /\ LeftBy(events, sessions) => LogExplainsFleet)'
    BY LogExplains, PTL
  <2> QED
    BY <2>3, <2>4 DEF Explained, LeftBy
<1> QED
  BY <1>1, <1>2, <1>3, <1>4, <1>5 DEF FleetInv

\* The event booked is new, and its payload is its own.
LEMMA ScheduleKeeps ==
  ASSUME FleetInv, NEW id \in SessionIds, NEW a, NEW t, Schedule(id, a, t)
  PROVE  FleetInv'
<1> DEFINE new == [time |-> t, seq |-> sequence]
<1>1. /\ sessions' = Registered(id) /\ events' = events
      /\ queue' = queue \cup {new} /\ sequence' = sequence + 1 /\ sequence < MaxSequence
      /\ payload' = [payload EXCEPT ![sequence] = [id |-> id, symbol |-> a]]
  BY DEF Schedule, ScheduleAt, Event
<1>2. /\ sessions' \in [SessionIds -> States \cup {Absent}]
      /\ sessions'[id] # Absent
      /\ \A other \in SessionIds : sessions[other] # Absent => sessions'[other] # Absent
      /\ LeftBy(events, sessions')
  BY <1>1, RegisteredKeeps
<1>3. /\ sequence \in Nat /\ IsFiniteSet(queue)
      /\ \A e \in queue : e.seq \in Nat /\ e.seq < sequence
  BY DEF FleetInv, Numbered
<1>4. new \notin queue /\ new.seq = sequence
  BY <1>3
<1>5. Cardinality(queue') = Cardinality(queue) + 1 /\ IsFiniteSet(queue')
  <2> HIDE DEF new
  <2> QED
    BY <1>1, <1>3, <1>4, FS_AddElement
<1>6. Numbered'
  BY <1>1, <1>3, <1>4, <1>5 DEF Numbered
<1>7. Addressed'
  <2>1. DOMAIN payload = 0..MaxSequence /\ sequence \in 0..MaxSequence
    BY <1>1, <1>3, ClockAssumption DEF FleetInv, Addressed
  <2>2. /\ DOMAIN payload' = 0..MaxSequence
        /\ payload'[sequence].id = id
        /\ \A n \in 0..MaxSequence : n # sequence => payload'[n] = payload[n]
    BY <1>1, <2>1
  <2>3. \A e \in queue : payload[e.seq].id \in SessionIds /\ sessions[payload[e.seq].id] # Absent
    BY DEF FleetInv, Addressed
  <2>4. \A e \in queue : payload'[e.seq] = payload[e.seq]
    BY <1>3, <1>1, <2>2, ClockAssumption
  <2>5. \A e \in queue' : payload'[e.seq].id \in SessionIds /\ sessions'[payload'[e.seq].id] # Absent
    BY <1>1, <1>2, <1>4, <2>2, <2>3, <2>4
  <2> QED
    BY <1>1, <1>3, <2>2, <2>5, ClockAssumption DEF Addressed
<1>8. Attributed'
  BY <1>1, <1>2 DEF FleetInv, Attributed
<1>9. LogExplainsFleet'
  <2>1. Explained(events') /\ LeftBy(events', sessions')
    BY <1>1, <1>2, LogExplains DEF FleetInv
  <2>2. (Explained(events) /\ LeftBy(events, sessions) => LogExplainsFleet)'
    BY LogExplains, PTL
  <2> QED
    BY <2>1, <2>2 DEF Explained, LeftBy
<1>10. Filled'
  <2>1. DOMAIN payload = 0..MaxSequence
    BY DEF FleetInv, Addressed
  <2>2. [id |-> id, symbol |-> a] # Nothing
    BY FleetAssumption DEF Nothing
  <2>3. \A s \in 0..MaxSequence :
          payload'[s] = IF s = sequence THEN [id |-> id, symbol |-> a] ELSE payload[s]
    BY <1>1, <2>1
  <2>4. ASSUME NEW s \in 0..MaxSequence PROVE payload'[s] # Nothing <=> s < sequence'
    <3>1. payload[s] # Nothing <=> s < sequence
      BY DEF FleetInv, Filled
    <3>2. CASE s = sequence
      BY <1>1, <1>3, <2>2, <2>3, <3>2
    <3>3. CASE s # sequence
      BY <1>1, <1>3, <2>3, <3>1, <3>3
    <3> QED
      BY <3>2, <3>3
  <2> QED
    BY <2>4 DEF Filled
<1>11. Conserved'
  <2>1. Len(events) \in Nat /\ Cardinality(queue) \in Nat
    BY <1>3, FS_CardinalityType DEF FleetInv, Attributed
  <2> QED
    BY <1>1, <1>5, <2>1 DEF FleetInv, Conserved
<1> QED
  BY <1>2, <1>6, <1>7, <1>8, <1>9, <1>10, <1>11 DEF FleetInv

\* The entry says where its session was and is.
LEMMA EntryIsTrue ==
  ASSUME FleetInv, NEW e \in queue
  PROVE  LET entry == Entry(e)
         IN  /\ entry.id \in SessionIds /\ sessions[entry.id] # Absent
             /\ entry.before = sessions[entry.id] /\ entry.before \in States
             /\ entry.after \in States
             /\ IF entry.accepted THEN <<entry.before, entry.symbol, entry.after>> \in Transitions
                ELSE entry.symbol \notin Admissible(entry.before)
<1> DEFINE p == payload[e.seq]
           q == sessions[p.id]
<1>1. p.id \in SessionIds /\ q # Absent /\ q \in States
  BY DEF FleetInv, Addressed
<1>2. Entry(e) = [time |-> e.time, id |-> p.id, symbol |-> p.symbol,
                  accepted |-> Admitted(q, p.symbol), before |-> q,
                  after |-> Outcome(q, p.symbol)]
  BY DEF Entry
<1> HIDE DEF p, q
<1>3. /\ Entry(e).id = p.id /\ Entry(e).symbol = p.symbol /\ Entry(e).before = q
      /\ Entry(e).after = Outcome(q, p.symbol) /\ Entry(e).accepted = Admitted(q, p.symbol)
  BY <1>2
<1>4. Outcome(q, p.symbol) \in States
      /\ (Admitted(q, p.symbol) => <<q, p.symbol, Outcome(q, p.symbol)>> \in Transitions)
  BY <1>1, AdmittedLeads
<1>5. q = sessions[p.id]
  BY DEF q
<1> QED
  BY <1>1, <1>3, <1>4, <1>5 DEF Admitted

LEMMA ApplyKeeps ==
  ASSUME FleetInv, NEW e \in queue, Apply(e)
  PROVE  FleetInv'
<1> DEFINE entry == Entry(e)
           L == Len(events)
<1>1. /\ queue' = queue \ {e} /\ sequence' = sequence /\ payload' = payload
      /\ sessions' = [sessions EXCEPT ![entry.id] = entry.after]
      /\ events' = Append(events, entry)
  <2>1. sequence # sequence + 1
    BY DEF FleetInv, Numbered
  <2> QED
    BY <2>1 DEF Apply, Dispatch, Logged
<1>2. /\ entry.id \in SessionIds /\ sessions[entry.id] # Absent
      /\ entry.before = sessions[entry.id] /\ entry.after \in States
      /\ IF entry.accepted THEN <<entry.before, entry.symbol, entry.after>> \in Transitions
         ELSE entry.symbol \notin Admissible(entry.before)
  BY EntryIsTrue
<1> HIDE DEF entry
<1>3. /\ sessions \in [SessionIds -> States \cup {Absent}]
      /\ sessions' \in [SessionIds -> States \cup {Absent}]
      /\ sessions'[entry.id] = entry.after
      /\ \A other \in SessionIds : other # entry.id => sessions'[other] = sessions[other]
  BY <1>1, <1>2 DEF FleetInv
<1>4. \A other \in SessionIds : sessions[other] # Absent => sessions'[other] # Absent
  BY <1>2, <1>3, StartIsState
<1>5. PICK S : events \in Seq(S)
  BY DEF FleetInv, Attributed
<1>6. /\ L \in Nat /\ DOMAIN events = 1..L
      /\ events' \in Seq(S \cup {entry}) /\ Len(events') = L + 1 /\ DOMAIN events' = 1..(L + 1)
      /\ events'[L + 1] = entry
      /\ \A i \in 1..L : events'[i] = events[i]
  <2>1. events \in Seq(S \cup {entry})
    BY <1>5
  <2> QED
    BY <1>1, <2>1
<1>7. Numbered' /\ Filled' /\ Conserved'
  <2>1. IsFiniteSet(queue) /\ IsFiniteSet(queue') /\ Cardinality(queue') = Cardinality(queue) - 1
    BY <1>1, FS_RemoveElement DEF FleetInv, Numbered
  <2>2. Cardinality(queue) \in Nat
    BY <2>1, FS_CardinalityType
  <2> QED
    BY <1>1, <1>6, <2>1, <2>2 DEF FleetInv, Numbered, Filled, Conserved
<1>8. Addressed'
  BY <1>1, <1>4 DEF FleetInv, Addressed
<1>9. Attributed'
  BY <1>2, <1>3, <1>4, <1>6, StartIsState DEF FleetInv, Attributed
<1>10. /\ \A id : \A n \in 0..L : Left(events', id, n) = Left(events, id, n)
       /\ Left(events', entry.id, L + 1) = entry.after
       /\ \A id : id # entry.id => Left(events', id, L + 1) = Left(events, id, L)
  BY <1>1, <1>5, LeftLater
<1>11. Explained(events) /\ LeftBy(events, sessions)
  BY LogExplains DEF FleetInv
<1>12. Explained(events')
  <2>1. ASSUME NEW i \in 1..(L + 1)
        PROVE  /\ IF events'[i].accepted
                  THEN <<events'[i].before, events'[i].symbol, events'[i].after>> \in Transitions
                  ELSE events'[i].symbol \notin Admissible(events'[i].before)
               /\ events'[i].before = Left(events', events'[i].id, i - 1)
    <3>1. CASE i \in 1..L
      <4>1. i - 1 \in 0..L /\ events'[i] = events[i]
        BY <1>6, <3>1
      <4>2. events[i].before = Left(events, events[i].id, i - 1)
        BY <1>6, <1>11, <3>1 DEF Explained
      <4> QED
        BY <1>6, <1>10, <1>11, <3>1, <4>1, <4>2 DEF Explained
    <3>2. CASE i = L + 1
      <4>1. i - 1 = L /\ L \in 0..L
        BY <1>6, <3>2
      <4>2. entry.before = Left(events, entry.id, L)
        BY <1>2, <1>11 DEF LeftBy
      <4> QED
        BY <1>2, <1>6, <1>10, <3>2, <4>1, <4>2
    <3> QED
      BY <1>6, <3>1, <3>2
  <2> QED
    BY <1>6, <2>1 DEF Explained
<1>13. LeftBy(events', sessions')
  BY <1>3, <1>6, <1>10, <1>11 DEF LeftBy
<1>14. LogExplainsFleet'
  <2>1. (Explained(events) /\ LeftBy(events, sessions) => LogExplainsFleet)'
    BY LogExplains, PTL
  <2> QED
    BY <1>12, <1>13, <2>1 DEF Explained, LeftBy
<1> QED
  BY <1>3, <1>7, <1>8, <1>9, <1>14 DEF FleetInv

\* A reset empties everything; the rest of a run, and a step of no one, change
\* nothing of what the invariant is about.
LEMMA ResetKeeps ==
  ASSUME FleetInv, ResetFleet
  PROVE  FleetInv'
<1>1. /\ queue' = {} /\ sequence' = 0 /\ events' = <<>>
      /\ sessions' = [id \in SessionIds |-> Absent] /\ DOMAIN payload' = 0..MaxSequence
      /\ \A s \in 0..MaxSequence : payload'[s] = Nothing
  BY DEF ResetFleet, Reset
<1>2. Numbered' /\ Addressed'
  BY <1>1, FS_EmptySet, ClockAssumption DEF Numbered, Addressed
<1>3. events' \in Seq({}) /\ Len(events') = 0 /\ DOMAIN events' = {}
  BY <1>1
<1>4. Attributed'
  BY <1>3 DEF Attributed
<1>5. LogExplainsFleet'
  <2>1. Explained(events') /\ LeftBy(events', sessions')
    BY <1>1, <1>3 DEF Explained, LeftBy
  <2>2. (Explained(events) /\ LeftBy(events, sessions) => LogExplainsFleet)'
    BY LogExplains, PTL
  <2> QED
    BY <2>1, <2>2 DEF Explained, LeftBy
<1>6. Filled' /\ Conserved'
  BY <1>1, <1>3, FS_EmptySet DEF Filled, Conserved
<1> QED
  BY <1>1, <1>2, <1>4, <1>5, <1>6 DEF FleetInv

LEMMA OtherKeeps ==
  ASSUME FleetInv, UNCHANGED <<queue, sequence, fleetVars>>
  PROVE  FleetInv'
<1>1. /\ queue' = queue /\ sequence' = sequence
      /\ sessions' = sessions /\ payload' = payload /\ events' = events
  BY DEF fleetVars
<1>2. Numbered' /\ Addressed' /\ Filled' /\ Conserved'
  BY <1>1 DEF FleetInv, Numbered, Addressed, Filled, Conserved
<1>3. Attributed'
  BY <1>1 DEF FleetInv, Attributed
<1>4. LogExplainsFleet'
  <2>1. Explained(events') /\ LeftBy(events', sessions')
    BY <1>1, LogExplains DEF FleetInv
  <2>2. (Explained(events) /\ LeftBy(events, sessions) => LogExplainsFleet)'
    BY LogExplains, PTL
  <2> QED
    BY <2>1, <2>2 DEF Explained, LeftBy
<1> QED
  BY <1>1, <1>2, <1>3, <1>4 DEF FleetInv

LEMMA NextFleet == FleetInv /\ [Next]_vars => FleetInv'
<1> SUFFICES ASSUME FleetInv, [Next]_vars PROVE FleetInv'
  OBVIOUS
<1>1. CASE \E id \in SessionIds : AddSession(id)
  BY <1>1, AddKeeps DEF AddSession, clockVars
<1>2. CASE \E id \in SessionIds, t \in Times : ScheduleRefused(id, t)
  BY <1>2, AddKeeps DEF ScheduleRefused, clockVars
<1>3. CASE \E id \in SessionIds, a \in Symbols, t \in Times : Schedule(id, a, t)
  BY <1>3, ScheduleKeeps
<1>4. CASE \E call \in RunCalls : RunFleet(call)
  BY <1>4, OtherKeeps DEF RunFleet, BeginRun
<1>5. CASE \E e \in queue : Apply(e)
  BY <1>5, ApplyKeeps
<1>6. CASE EndRunFleet
  BY <1>6, OtherKeeps DEF EndRunFleet, EndRun
<1>7. CASE ResetFleet
  BY <1>7, ResetKeeps
<1>8. CASE UNCHANGED vars
  BY <1>8, OtherKeeps DEF vars, clockVars
<1> QED
  BY <1>1, <1>2, <1>3, <1>4, <1>5, <1>6, <1>7, <1>8 DEF Next

\* Replayed from IDLE, the log takes every session where it is, whichever
\* sessions, symbols and runs there are: what it calls accepted is an edge of
\* delta_S, and what it calls rejected is none.
THEOREM FleetLogExplains == Spec => []LogExplainsFleet
<1>1. FleetInv => LogExplainsFleet
  BY DEF FleetInv
<1> QED
  BY <1>1, InitFleet, NextFleet, PTL DEF Spec

\* What has been scheduled since the last reset is pending or in the log.
THEOREM FleetLosesNothing == Spec => []NothingLost
<1>1. ASSUME FleetInv PROVE NothingLost
  <2>1. /\ sequence \in Nat /\ sequence <= MaxSequence /\ MaxSequence \in Nat
        /\ \A e \in queue : e.seq \in Nat /\ e.seq < sequence
    BY <1>1, ClockAssumption DEF FleetInv, Numbered, Addressed
  <2>2. Booked = 0..(sequence - 1)
    BY <1>1, <2>1 DEF Booked, FleetInv, Filled
  <2>3. Cardinality(0..(sequence - 1)) = sequence
    <3>1. \A m \in Nat : Cardinality(0..(m - 1)) = m
      BY FS_Interval
    <3> QED
      BY <2>1, <3>1
  <2>4. {e \in queue : e.seq \in Booked} = queue
    BY <2>1, <2>2
  <2> QED
    BY <1>1, <2>2, <2>3, <2>4 DEF NothingLost, FleetInv, Conserved
<1> QED
  BY <1>1, InitFleet, NextFleet, PTL DEF Spec

-----------------------------------------------------------------------------
\* The simulator adds nothing to its clock: whatever the fleet does, its clock
\* is one of EventClock, whose theorems therefore hold of every simulation.
THEOREM FleetImplementsClock == Spec => ClockSpec
<1>1. Init => ClockInit
  BY DEF Init
<1>2. [Next]_vars => [ClockNext]_clockVars
  <2> SUFFICES ASSUME [Next]_vars PROVE ClockNext \/ UNCHANGED clockVars
    OBVIOUS
  <2>1. CASE UNCHANGED clockVars
    BY <2>1 DEF clockVars
  <2>2. CASE \E id \in SessionIds, a \in Symbols, t \in Times : Schedule(id, a, t)
    BY <2>2 DEF Schedule, ClockNext
  <2>3. CASE \E call \in RunCalls : RunFleet(call)
    BY <2>3 DEF RunFleet, ClockNext
  <2>4. CASE \E e \in queue : Apply(e)
    BY <2>4 DEF Apply, ClockNext, Loop
  <2>5. CASE EndRunFleet
    BY <2>5 DEF EndRunFleet, ClockNext, Loop
  <2>6. CASE ResetFleet
    <3>1. 0 \in Times
      BY ClockAssumption DEF Times
    <3> QED
      BY <2>6, <3>1 DEF ResetFleet, ClockNext
  <2>7. (\E id \in SessionIds : AddSession(id))
          \/ (\E id \in SessionIds, t \in Times : ScheduleRefused(id, t))
          \/ UNCHANGED vars
        => UNCHANGED clockVars
    BY DEF AddSession, ScheduleRefused, vars
  <2> QED
    BY <2>1, <2>2, <2>3, <2>4, <2>5, <2>6, <2>7 DEF Next
<1> QED
  BY <1>1, <1>2, PTL DEF Spec, ClockSpec
=============================================================================
