--------------------------- MODULE ConsoleProofs ---------------------------
(***************************************************************************)
(* The console under any number of clients, bays and pending events.  As   *)
(* long as requests do not overlap, no request fails and bays change along *)
(* edges only.  However they overlap, a session that was replaced is not   *)
(* resurrected.                                                            *)
(***************************************************************************)
EXTENDS Console, Recursion

Symbols == Alphabet \cup Posted
Owners == Handlers \cup {"nobody"}
EventSet == [time : Nat, bay : Bays, symbol : Symbols, owner : Owners]

Working == {"schedule", "loop", "pop", "read", "commit", "report", "sync"}

\* What a handler that serves a request remembers.
Serving(j) ==
  /\ j.bay \in Bays
  /\ j.event \in EventSet
  /\ j.target \in States \cup {Absent}
  /\ j.todo \in Seq(Symbols)
  /\ j.at = "schedule" => j.todo # <<>> /\ j.kind = "action"
  /\ j.at = "sync" => j.kind = "scenario"
  /\ j.kind \in {"action", "run", "scenario"}
  /\ j.kind = "scenario" => j.script \in Scenarios /\ j.bays \in Seq(Bays)

BusyFields == {"at", "bay", "todo", "kind", "script", "bays", "alone", "event", "target",
               "live", "owing"}

Shape(j) ==
  \/ j.at = "idle" /\ DOMAIN j = {"at", "answered", "honest"}
  \/ j.at = "decide" /\ DOMAIN j = {"at", "bay", "action", "seen"}
       /\ j.bay \in Bays /\ j.action \in BayActions /\ j.seen \in States
  \/ j.at \in {"trip", "log"} /\ DOMAIN j = {"at", "bay", "live"} /\ j.bay \in Bays
  \/ j.at \in Working /\ DOMAIN j = BusyFields /\ Serving(j)

TypeInv ==
  /\ now \in Nat
  /\ pending \in Seq(EventSet)
  /\ sessions \in [Bays -> States \cup {Absent}]
  /\ DOMAIN job = Handlers
  /\ \A h \in Handlers : Shape(job[h])

-----------------------------------------------------------------------------
\* What the operators of the console are made of.
LEMMA TargetLeads ==
  ASSUME NEW q \in States, NEW a \in Admissible(q)
  PROVE  Target(q, a) \in States /\ <<q, a, Target(q, a)>> \in Transitions /\ a \in Alphabet
<1>1. \A t \in Transitions : t = <<t[1], t[2], t[3]>> /\ t[3] \in States /\ t[2] \in Alphabet
  BY DEF Transitions, EntryEdges, CableEdges, EnergyEdges, SuspensionEdges, ReleaseEdges,
         SettlementEdges, States, Alphabet, PhysicalSymbols, PowerSymbols, AuthSymbols,
         TelemetrySymbols, AdminSymbols
<1>2. PICK t \in Transitions : t[1] = q /\ t[2] = a
  BY DEF Admissible
<1>3. <<q, a, t[3]>> \in Transitions /\ t[3] \in States /\ a \in Alphabet
  BY <1>1, <1>2
<1> QED
  BY <1>3 DEF Target

LEMMA StateNames == StartState \in States /\ "FAULT_TERMINAL" \in States /\ Absent \notin States
BY DEF StartState, States, Absent

LEMMA ScriptType ==
  ASSUME NEW id \in ScenarioIds
  PROVE  Script(id).word \in Seq(Alphabet)
<1>1. Arrival \in Seq(Alphabet)
  BY DEF Arrival, Alphabet, PhysicalSymbols, PowerSymbols, AuthSymbols, TelemetrySymbols,
         AdminSymbols
<1>2. Departure \in Seq(Alphabet)
  BY DEF Departure, Alphabet, PhysicalSymbols, PowerSymbols, AuthSymbols, TelemetrySymbols,
         AdminSymbols
<1>3. {"power_ramp_down", "power_stop", "session_close", "unlock_req", "ev_stop", "e_stop",
       "meter_final", "pay_ok", "pay_fail", "grid_curtail", "reserve_req"} \subseteq Alphabet
  BY DEF Alphabet, PhysicalSymbols, PowerSymbols, AuthSymbols, TelemetrySymbols, AdminSymbols
<1> HIDE DEF Arrival, Departure, Alphabet
<1>4. CanonicalTrace \in Seq(Alphabet)
  BY <1>1, <1>2, <1>3 DEF CanonicalTrace
<1>5. CASE id \in {"D1", "D9", "D10", "D11", "D12", "D13"}
  BY <1>1, <1>4, <1>5 DEF Script, FleetScript
<1>6. CASE id \in {"D2", "D3"}
  BY <1>1, <1>3, <1>6 DEF Script, SessionScript
<1>7. CASE id \in {"D4", "D5", "D7"}
  BY <1>1, <1>3, <1>7 DEF Script, SessionScript
<1>8. CASE id \in {"D6", "D8"}
  BY <1>1, <1>2, <1>3, <1>8 DEF Script, SessionScript
<1> QED
  BY <1>5, <1>6, <1>7, <1>8 DEF ScenarioIds

LEMMA ScenarioBaysType ==
  ASSUME NEW id \in Scenarios
  PROVE  id \in ScenarioIds /\ ScenarioBays(id) \in Seq(Bays) \ {<<>>}
<1>1. id \in ScenarioIds /\ Range(ScenarioBays(id)) \subseteq Bays
  BY ConsoleAssumption
<1> QED
  BY <1>1 DEF ScenarioBays, Range

LEMMA ExpansionType ==
  ASSUME NEW action \in BayActions, NEW q
  PROVE  Expansion(action, q) \in Seq(Alphabet) \ {<<>>}
<1>1. action \in Buttons
  BY ConsoleAssumption
<1>2. {"auth_req", "auth_ok", "ev_ready", "power_start", "power_ramp_down", "power_stop",
       "unplug", "meter_final", "reserve_req", "plug_in", "lock_ok", "pay_ok", "grid_curtail",
       "unlock_ok"} \subseteq Alphabet
  BY DEF Alphabet, PhysicalSymbols, PowerSymbols, AuthSymbols, TelemetrySymbols, AdminSymbols
<1>3. ActionSymbol(action) \in Alphabet
  BY <1>1, <1>2 DEF ActionSymbol, Buttons
<1> QED
  BY <1>2, <1>3 DEF Expansion

\* Where an event enters the queue does not matter to what the queue holds.
LEMMA EnqueueType ==
  ASSUME NEW K, pending \in Seq(K), NEW events \in Seq(K), NEW t
  PROVE  Enqueue(t, events) \in Seq(K)
<1> DEFINE before == {i \in DOMAIN pending : pending[i].time <= t}
           n == Cardinality(before)
<1>1. Len(pending) \in Nat /\ DOMAIN pending = 1..Len(pending)
  OBVIOUS
<1>2. n \in 0..Len(pending)
  <2>1. \A m \in Nat : IsFiniteSet(1..m) /\ Cardinality(1..m) = m
    BY FS_Interval
  <2>2. before \subseteq 1..Len(pending)
    BY <1>1
  <2>3. n \in Nat /\ n <= Len(pending)
    <3>1. IsFiniteSet(before) /\ n <= Len(pending)
      BY <1>1, <2>1, <2>2, FS_Subset
    <3> QED
      BY <3>1, FS_CardinalityType
  <2> QED
    BY <1>1, <2>3
<1> HIDE DEF n
<1>3. SubSeq(pending, 1, n) \in Seq(K) /\ SubSeq(pending, n + 1, Len(pending)) \in Seq(K)
  BY <1>1, <1>2
<1> QED
  BY <1>3 DEF Enqueue, EnqueueBehind, n

-----------------------------------------------------------------------------
\* What others do to a handler's job: detach its session object, take its event
\* from its owner, or count down what is owed to it.
Touched(j) ==
  {j, [j EXCEPT !.live = FALSE], [j EXCEPT !.event.owner = "nobody"], [j EXCEPT !.owing = @ - 1]}

\* What they leave alone.
Alike(k, j) ==
  /\ k.at = j.at /\ DOMAIN k = DOMAIN j
  /\ j.at = "idle" => k.answered = j.answered /\ k.honest = j.honest
  /\ j.at = "decide" => k.bay = j.bay /\ k.action = j.action /\ k.seen = j.seen
  /\ j.at \in {"trip", "log"} => k.bay = j.bay
  /\ j.at \in Working =>
       /\ k.bay = j.bay /\ k.target = j.target /\ k.todo = j.todo /\ k.kind = j.kind
       /\ k.script = j.script /\ k.bays = j.bays /\ k.alone = j.alone
       /\ k.event.bay = j.event.bay /\ k.event.symbol = j.event.symbol
       /\ k.event.time = j.event.time /\ k.event.owner \in {j.event.owner, "nobody"}
       /\ k.live => j.live

LEMMA TouchedAlike ==
  ASSUME NEW j, Shape(j), NEW k \in Touched(j)
  PROVE  Alike(k, j) /\ Shape(k)
<1>1. CASE j.at \in Working
  <2>1. DOMAIN j = BusyFields /\ Serving(j)
    BY <1>1 DEF Shape, Working
  <2>2. Alike(k, j) /\ k.event \in EventSet
    <3>1. CASE k = j
      BY <1>1, <2>1, <3>1 DEF Alike, Serving, Working
    <3>2. CASE k = [j EXCEPT !.live = FALSE]
      BY <1>1, <2>1, <3>2 DEF Alike, Serving, BusyFields, Working
    <3>3. CASE k = [j EXCEPT !.event.owner = "nobody"]
      <4>1. k.event = [j.event EXCEPT !.owner = "nobody"]
        BY <2>1, <3>3 DEF BusyFields
      <4>2. /\ k.event \in EventSet /\ k.event.bay = j.event.bay
            /\ k.event.symbol = j.event.symbol
            /\ k.event.time = j.event.time /\ k.event.owner = "nobody"
        BY <2>1, <4>1 DEF Serving, EventSet, Owners
      <4> QED
        BY <1>1, <2>1, <3>3, <4>2 DEF Alike, BusyFields, Working
    <3>4. CASE k = [j EXCEPT !.owing = @ - 1]
      BY <1>1, <2>1, <3>4 DEF Alike, Serving, BusyFields, Working
    <3> QED
      BY <3>1, <3>2, <3>3, <3>4 DEF Touched
  <2> QED
    BY <1>1, <2>1, <2>2 DEF Alike, Shape, Serving
<1>2. CASE j.at \notin Working
  <2>1. \/ j.at = "idle" /\ DOMAIN j = {"at", "answered", "honest"}
        \/ j.at = "decide" /\ DOMAIN j = {"at", "bay", "action", "seen"}
        \/ j.at \in {"trip", "log"} /\ DOMAIN j = {"at", "bay", "live"}
    BY <1>2 DEF Shape
  <2>2. /\ DOMAIN k = DOMAIN j
        /\ \A x \in {"at", "answered", "honest", "bay", "action", "seen"} \cap DOMAIN j : k[x] = j[x]
    <3>1. \A x \in {"at", "answered", "honest", "bay", "action", "seen"} : x \notin {"live", "event", "owing"}
      OBVIOUS
    <3>2. CASE k = j
      BY <3>2
    <3>3. CASE k = [j EXCEPT !.live = FALSE]
      BY <3>1, <3>3
    <3>4. CASE k = [j EXCEPT !.event.owner = "nobody"]
      BY <3>1, <3>4
    <3>5. CASE k = [j EXCEPT !.owing = @ - 1]
      BY <3>1, <3>5
    <3> QED
      BY <3>2, <3>3, <3>4, <3>5 DEF Touched
  <2>3. Alike(k, j)
    BY <1>2, <2>1, <2>2 DEF Alike, Working
  <2> QED
    BY <1>2, <2>1, <2>3 DEF Alike, Shape
<1> QED
  BY <1>1, <1>2

LEMMA DetachedTouched == \A b, j : Detached(b, j) \in Touched(j)
BY DEF Detached, Touched

LEMMA FinishTouched ==
  ASSUME NEW h \in Handlers, NEW answer
  PROVE  /\ DOMAIN Finish(h, answer) = Handlers /\ Finish(h, answer)[h] = answer
         /\ \A g \in Handlers \ {h} : Finish(h, answer)[g] \in Touched(job[g])
BY DEF Finish, Touched

\* A step of one handler touches the others at most.
OnlyTouched(h) ==
  /\ DOMAIN job' = Handlers
  /\ \A g \in Handlers \ {h} : job'[g] \in Touched(job[g])

LEMMA OthersTouched ==
  ASSUME DOMAIN job = Handlers, NEW h \in Handlers, Request(h) \/ Serve(h)
  PROVE  OnlyTouched(h)
<1>1. ASSUME NEW X, job' = [job EXCEPT ![h] = X] PROVE OnlyTouched(h)
  BY <1>1 DEF OnlyTouched, Touched
<1>2. ASSUME NEW X, NEW b, job' = [g \in Handlers |-> IF g = h THEN X ELSE Detached(b, job[g])]
      PROVE  OnlyTouched(h)
  BY <1>2, DetachedTouched DEF OnlyTouched
<1>3. ASSUME NEW X, job' = Finish(h, X) PROVE OnlyTouched(h)
  BY <1>3, FinishTouched DEF OnlyTouched
<1>4. CASE ResetAll(h)
  BY <1>4 DEF ResetAll, OnlyTouched, Touched
<1>5. ASSUME NEW b \in Bays, BayReset(h, b) PROVE OnlyTouched(h)
  BY <1>2, <1>5 DEF BayReset
<1>6. ASSUME NEW b \in Bays, EmergencyStop(h, b) \/ Run(h, b) PROVE OnlyTouched(h)
  BY <1>1, <1>6 DEF EmergencyStop, Run
<1>7. ASSUME NEW b \in Bays, NEW a, ReadBay(h, b, a) \/ InjectFault(h, b, a)
      PROVE  OnlyTouched(h)
  BY <1>1, <1>7 DEF ReadBay, InjectFault
<1>8. ASSUME NEW b \in Bays, NEW a, NEW t, AddEvent(h, b, a, t) PROVE OnlyTouched(h)
  BY <1>1, <1>8 DEF AddEvent
<1>9. ASSUME NEW id, ExecuteScenario(h, id) PROVE OnlyTouched(h)
  BY <1>1, <1>9 DEF ExecuteScenario
<1>10. CASE Decide(h)
  BY <1>1, <1>2, <1>10 DEF Decide
<1>11. CASE SyncBay(h)
  BY <1>2, <1>11 DEF SyncBay
<1>12. CASE ScheduleNext(h) \/ LoopOn(h) \/ LoopOver(h) \/ Pop(h) \/ ReadSession(h)
  <2>1. LoopOn(h) \/ LoopOver(h) => \E X : job' = [job EXCEPT ![h].at = X]
    BY DEF LoopOn, LoopOver
  <2>2. (\E X : job' = [job EXCEPT ![h].at = X]) => OnlyTouched(h)
    BY DEF OnlyTouched, Touched
  <2> QED
    BY <1>1, <1>12, <2>1, <2>2 DEF ScheduleNext, Pop, ReadSession
<1>13. CASE PopEmpty(h) \/ ReadMissing(h)
  BY <1>3, <1>13 DEF PopEmpty, ReadMissing
<1>14. CASE Commit(h)
  BY <1>14 DEF Commit, OnlyTouched, Touched
<1>15. CASE Report(h) \/ SyncDone(h)
  <2>1. \A X : job' = [job EXCEPT ![h].at = X] => OnlyTouched(h)
    BY DEF OnlyTouched, Touched
  <2> QED
    BY <1>3, <1>15, <2>1 DEF Report, SyncDone
<1>16. CASE Trip(h) \/ LogTrip(h)
  <2>1. \A X : job' = [job EXCEPT ![h].at = X] => OnlyTouched(h)
    BY DEF OnlyTouched, Touched
  <2> QED
    BY <1>1, <1>16, <2>1 DEF Trip, LogTrip
<1> QED
  BY <1>4, <1>5, <1>6, <1>7, <1>8, <1>9, <1>10, <1>11, <1>12, <1>13, <1>14, <1>15, <1>16
     DEF Request, Serve

-----------------------------------------------------------------------------
\* The types.
StateType(s) == s \in [Bays -> States \cup {Absent}]

\* What a step of h leaves behind but for the others' jobs.
OwnType(h) ==
  /\ now' \in Nat
  /\ pending' \in Seq(EventSet)
  /\ StateType(sessions')
  /\ Shape(job'[h])

LEMMA IdleShape == \A answered, honest : Shape(Idle(answered, honest))
BY DEF Shape, Idle

LEMMA BusyShape ==
  ASSUME NEW b \in Bays, NEW todo \in Seq(Symbols)
  PROVE  /\ DOMAIN Busy(b, todo) = BusyFields
         /\ Serving([Busy(b, todo) EXCEPT !.at = "loop"])
         /\ todo # <<>> => Shape(Busy(b, todo))
<1>1. "reset_cmd" \in Symbols
  BY DEF Symbols, Alphabet, AdminSymbols
<1>2. Event(0, b, "reset_cmd", "nobody") \in EventSet
  BY <1>1 DEF Event, EventSet, Owners
<1>3. DOMAIN Busy(b, todo) = BusyFields
  BY DEF Busy, BusyFields
<1>4. Serving([Busy(b, todo) EXCEPT !.at = "loop"])
  BY <1>2 DEF Busy, Serving
<1>5. ASSUME todo # <<>> PROVE Shape(Busy(b, todo))
  <2>1. Serving(Busy(b, todo))
    BY <1>2, <1>5 DEF Busy, Serving
  <2>2. Busy(b, todo).at \in Working
    BY DEF Busy, Working
  <2> QED
    BY <1>3, <2>1, <2>2 DEF Shape
<1> QED
  BY <1>3, <1>4, <1>5

LEMMA StateTypes ==
  ASSUME StateType(sessions), NEW b \in Bays
  PROVE  /\ StateType(Fresh(b)) /\ StateType(Registered(b)) /\ CurrentState(b) \in States
         /\ \A q \in States : StateType([sessions EXCEPT ![b] = q])
BY StateNames DEF StateType, Fresh, Registered, CurrentState

LEMMA RequestTypes ==
  ASSUME TypeInv, NEW h \in Handlers, Request(h)
  PROVE  OwnType(h)
<1>0. StateType(sessions) /\ Alphabet \subseteq Symbols
  BY DEF TypeInv, StateType, Symbols
<1>1. CASE ResetAll(h)
  <2>1. now' \in Nat /\ pending' \in Seq(EventSet)
    BY <1>1 DEF ResetAll
  <2>2. StateType(sessions')
    BY <1>1 DEF ResetAll, StateType
  <2>3. job'[h] = Idle("none", TRUE)
    BY <1>1 DEF ResetAll
  <2> QED
    BY <2>1, <2>2, <2>3, IdleShape DEF OwnType
<1>2. ASSUME NEW b \in Bays, BayReset(h, b) PROVE OwnType(h)
  BY <1>0, <1>2, IdleShape, StateTypes DEF BayReset, OwnType, TypeInv
<1>3. ASSUME NEW b \in Bays, EmergencyStop(h, b) PROVE OwnType(h)
  <2>1. Shape([at |-> "trip", bay |-> b, live |-> TRUE])
    BY DEF Shape
  <2> QED
    BY <1>0, <1>3, <2>1, StateTypes DEF EmergencyStop, OwnType, TypeInv
<1>4. ASSUME NEW b \in Bays, Run(h, b) PROVE OwnType(h)
  <2> DEFINE j == [Busy(b, <<>>) EXCEPT !.at = "loop"]
             k == [Busy(b, <<>>) EXCEPT !.at = "loop", !.kind = "run"]
  <2>1. DOMAIN Busy(b, <<>>) = BusyFields /\ Serving(j)
    <3>1. <<>> \in Seq(Symbols)
      OBVIOUS
    <3> QED
      BY <3>1, BusyShape
  <2>2. k = [j EXCEPT !.kind = "run"] /\ DOMAIN j = BusyFields
    BY <2>1
  <2>3. Serving(k) /\ DOMAIN k = BusyFields /\ k.at = "loop"
    BY <2>1, <2>2 DEF Serving, BusyFields
  <2>4. Shape(k)
    BY <2>3 DEF Shape, Working
  <2>5. job'[h] = k
    BY <1>4 DEF Run, TypeInv
  <2> QED
    BY <1>0, <1>4, <2>4, <2>5 DEF Run, OwnType, TypeInv
<1>5. ASSUME NEW b \in Bays, NEW a \in BayActions, ReadBay(h, b, a) PROVE OwnType(h)
  <2>1. CurrentState(b) \in States
    BY <1>0, StateTypes
  <2>2. Shape([at |-> "decide", bay |-> b, action |-> a, seen |-> CurrentState(b)])
    BY <2>1 DEF Shape
  <2> QED
    BY <1>0, <1>5, <2>2 DEF ReadBay, OwnType, TypeInv
<1>6. ASSUME NEW b \in Bays, NEW a \in Faults, InjectFault(h, b, a) PROVE OwnType(h)
  <2>1. a \in Symbols
    BY ConsoleAssumption DEF Symbols
  <2>2. <<a>> \in Seq(Symbols) /\ <<a>> # <<>>
    BY <2>1
  <2>3. Shape(Busy(b, <<a>>))
    BY <2>2, BusyShape
  <2> QED
    BY <1>0, <1>6, <2>3 DEF InjectFault, OwnType, TypeInv
<1>7. ASSUME NEW b \in Bays, NEW a \in Posted, NEW t \in Times, AddEvent(h, b, a, t)
      PROVE  OwnType(h)
  <2>1. t \in Nat
    BY ConsoleAssumption DEF Times
  <2>2. Event(t, b, a, "nobody") \in EventSet
    BY <2>1 DEF Event, EventSet, Symbols, Owners
  <2>3. Enqueue(t, <<Event(t, b, a, "nobody")>>) \in Seq(EventSet)
    <3>1. pending \in Seq(EventSet) /\ <<Event(t, b, a, "nobody")>> \in Seq(EventSet)
      BY <2>2 DEF TypeInv
    <3> QED
      BY <3>1, EnqueueType
  <2>4. pending' \in Seq(EventSet)
    BY <1>7, <2>3 DEF AddEvent, TypeInv
  <2> QED
    BY <1>0, <1>7, <2>4, IdleShape, StateTypes DEF AddEvent, OwnType, TypeInv
<1>8. ASSUME NEW id \in Scenarios, ExecuteScenario(h, id) PROVE OwnType(h)
  <2> DEFINE b == Head(ScenarioBays(id))
             j == [Busy(b, <<>>) EXCEPT !.at = "loop"]
             k == [Busy(b, <<>>) EXCEPT !.at = "sync", !.kind = "scenario", !.script = id,
                     !.bays = ScenarioBays(id), !.alone = pending = <<>>]
  <2>1. b \in Bays /\ ScenarioBays(id) \in Seq(Bays)
    BY ScenarioBaysType
  <2>2. DOMAIN Busy(b, <<>>) = BusyFields /\ Serving(j) /\ DOMAIN j = BusyFields
    <3>1. <<>> \in Seq(Symbols)
      OBVIOUS
    <3>2. DOMAIN Busy(b, <<>>) = BusyFields /\ Serving(j)
      BY <2>1, <3>1, BusyShape
    <3> QED
      BY <3>2
  <2>3. /\ k.bay = j.bay /\ k.event = j.event /\ k.target = j.target /\ k.todo = j.todo
        /\ k.kind = "scenario" /\ k.script = id /\ k.bays = ScenarioBays(id)
        /\ k.at = "sync" /\ DOMAIN k = BusyFields
    BY <2>2 DEF BusyFields
  <2>4. job'[h] = k
    BY <1>8 DEF ExecuteScenario, TypeInv
  <2> HIDE DEF j, k, b
  <2>5. Shape(k)
    BY <2>1, <2>2, <2>3 DEF Serving, Shape, Working
  <2> QED
    BY <1>0, <1>8, <2>4, <2>5 DEF ExecuteScenario, OwnType, TypeInv
<1> QED
  BY <1>1, <1>2, <1>3, <1>4, <1>5, <1>6, <1>7, <1>8 DEF Request

\* A busy job stays one when only its position changes.
LEMMA MovedShape ==
  ASSUME NEW j, Shape(j), j.at \in Working,
         NEW p \in Working, p = "schedule" => j.todo # <<>> /\ j.kind = "action", p = "sync" => j.kind = "scenario"
  PROVE  Shape([j EXCEPT !.at = p])
<1>1. DOMAIN j = BusyFields /\ Serving(j)
  BY DEF Shape, Working
<1> QED
  BY <1>1 DEF Shape, Serving, BusyFields

LEMMA ServeTypes ==
  ASSUME TypeInv, NEW h \in Handlers, Serve(h)
  PROVE  OwnType(h)
<1>0. /\ StateType(sessions) /\ Alphabet \subseteq Symbols /\ Shape(job[h])
      /\ now \in Nat /\ pending \in Seq(EventSet) /\ h \in DOMAIN job
  BY DEF TypeInv, StateType, Symbols
<1> DEFINE j == job[h]
<1>1. j.at \in Working => DOMAIN j = BusyFields /\ Serving(j)
  BY <1>0 DEF Shape, Working
<1>2. CASE Decide(h)
  <2>1. j.bay \in Bays /\ j.action \in BayActions
    BY <1>0, <1>2 DEF Decide, Shape, Working
  <2>2. \A q : Shape(Busy(j.bay, Expansion(j.action, q)))
    <3> TAKE q
    <3>1. Expansion(j.action, q) \in Seq(Symbols) /\ Expansion(j.action, q) # <<>>
      BY <1>0, <2>1, ExpansionType
    <3> HIDE DEF j
    <3> QED
      BY <2>1, <3>1, BusyShape
  <2>3. StateType(Fresh(j.bay))
    BY <1>0, <2>1, StateTypes
  <2> QED
    BY <1>0, <1>2, <2>2, <2>3 DEF Decide, OwnType
<1>3. CASE ScheduleNext(h)
  <2>1. /\ j.at = "schedule" /\ DOMAIN j = BusyFields /\ Serving(j) /\ j.bay \in Bays
        /\ j.todo \in Seq(Symbols) /\ j.todo # <<>>
    BY <1>1, <1>3 DEF ScheduleNext, Serving, Working
  <2>2. Head(j.todo) \in Symbols /\ Tail(j.todo) \in Seq(Symbols)
    BY <2>1
  <2>3. Event(now, j.bay, Head(j.todo), h) \in EventSet
    BY <1>0, <2>1, <2>2 DEF Event, EventSet, Owners
  <2>4. Enqueue(now, <<Event(now, j.bay, Head(j.todo), h)>>) \in Seq(EventSet)
    <3>1. <<Event(now, j.bay, Head(j.todo), h)>> \in Seq(EventSet)
      BY <2>3
    <3> QED
      BY <1>0, <3>1, EnqueueType
  <2>5. StateType(Registered(j.bay))
    BY <1>0, <2>1, StateTypes
  <2>6. job'[h] = [j EXCEPT !.at = "loop", !.todo = Tail(@), !.owing = @ + 1]
    BY <1>0, <1>3 DEF ScheduleNext
  <2>7. Shape(job'[h])
    BY <2>1, <2>2, <2>6 DEF Shape, Serving, BusyFields, Working
  <2> QED
    BY <1>0, <1>3, <2>4, <2>5, <2>7 DEF ScheduleNext, OwnType
<1>4. CASE SyncBay(h)
  <2>1. /\ j.at = "sync" /\ DOMAIN j = BusyFields /\ Serving(j) /\ j.bays \in Seq(Bays)
        /\ j.bays # <<>> /\ j.script \in Scenarios
    BY <1>1, <1>4 DEF SyncBay, Serving, Working
  <2>2. Head(j.bays) \in Bays /\ Tail(j.bays) \in Seq(Bays)
    BY <2>1
  <2> DEFINE b == Head(j.bays)
             word == Script(j.script).word
             events == [i \in DOMAIN word |-> Event(now, b, word[i], h)]
  <2>3. word \in Seq(Symbols)
    <3>1. j.script \in ScenarioIds
      BY <2>1, ScenarioBaysType
    <3>2. word \in Seq(Alphabet)
      BY <3>1, ScriptType
    <3> QED
      BY <1>0, <3>2
  <2>4. events \in Seq(EventSet)
    <3> HIDE DEF b, word
    <3>1. \A i \in DOMAIN word : Event(now, b, word[i], h) \in EventSet
      BY <1>0, <2>2, <2>3 DEF Event, EventSet, Owners, b
    <3>2. DOMAIN word = 1..Len(word) /\ Len(word) \in Nat
      BY <2>3
    <3> QED
      BY <3>1, <3>2
  <2>5. Enqueue(now, events) \in Seq(EventSet)
    <3> HIDE DEF events
    <3> QED
      BY <1>0, <2>4, EnqueueType
  <2>6. StateType(Fresh(b))
    BY <1>0, <2>2, StateTypes
  <2>7. /\ job'[h].at = "loop" /\ job'[h].bays = Tail(j.bays) /\ job'[h].bay = b
        /\ job'[h].kind = j.kind /\ job'[h].script = j.script /\ job'[h].event = j.event
        /\ job'[h].target = j.target /\ job'[h].todo = j.todo /\ DOMAIN job'[h] = BusyFields
    BY <1>4, <2>1 DEF SyncBay, BusyFields
  <2>8. Shape(job'[h])
    BY <2>1, <2>2, <2>7 DEF Shape, Serving, Working
  <2> QED
    BY <1>0, <1>4, <2>5, <2>6, <2>8 DEF SyncBay, OwnType
<1>5. CASE LoopOn(h) \/ LoopOver(h)
  <2>1. j.at = "loop" /\ "pop" \in Working /\ "report" \in Working /\ "loop" \in Working
    BY <1>5 DEF LoopOn, LoopOver, Working
  <2>2. Shape([j EXCEPT !.at = "pop"]) /\ Shape([j EXCEPT !.at = "report"])
    BY <1>0, <2>1, MovedShape
  <2> QED
    BY <1>0, <1>5, <2>2 DEF LoopOn, LoopOver, OwnType
<1>6. CASE Pop(h)
  <2>1. j.at = "pop" /\ DOMAIN j = BusyFields /\ Serving(j) /\ pending # <<>>
    BY <1>1, <1>6 DEF Pop, Working
  <2>2. Head(pending) \in EventSet /\ Tail(pending) \in Seq(EventSet)
    BY <1>0, <2>1
  <2>3. job'[h] = [j EXCEPT !.at = "read", !.event = Head(pending)]
    BY <1>0, <1>6 DEF Pop
  <2>4. Shape(job'[h])
    BY <2>1, <2>2, <2>3 DEF Shape, Serving, BusyFields, Working
  <2> QED
    BY <1>0, <1>6, <2>2, <2>4 DEF Pop, Popped, OwnType
<1>7. CASE PopEmpty(h) \/ ReadMissing(h)
  <2>1. job'[h] = Idle("error", TRUE)
    BY <1>7, FinishTouched DEF PopEmpty, ReadMissing
  <2>2. ReadMissing(h) => j.event.time \in Nat
    BY <1>1 DEF ReadMissing, Working, Serving, EventSet
  <2> QED
    BY <1>0, <1>7, <2>1, <2>2, IdleShape DEF PopEmpty, ReadMissing, OwnType
<1>8. CASE ReadSession(h)
  <2>1. j.at = "read" /\ DOMAIN j = BusyFields /\ Serving(j) /\ j.event \in EventSet
    BY <1>1, <1>8 DEF ReadSession, Working, Serving
  <2> DEFINE q == sessions[j.event.bay]
             t == IF j.event.symbol \in Admissible(q) THEN Target(q, j.event.symbol) ELSE Absent
  <2>2. q \in States
    BY <1>0, <1>8, <2>1 DEF ReadSession, StateType, EventSet
  <2>3. t \in States \cup {Absent}
    <3> HIDE DEF q
    <3> QED
      BY <2>2, TargetLeads
  <2>4. job'[h] = [j EXCEPT !.at = "commit", !.live = TRUE, !.target = t]
    BY <1>0, <1>8 DEF ReadSession
  <2> HIDE DEF t
  <2>5. Shape(job'[h])
    BY <2>1, <2>3, <2>4 DEF Shape, Serving, BusyFields, Working
  <2>6. now' \in Nat
    BY <1>8, <2>1 DEF ReadSession, EventSet
  <2> QED
    BY <1>0, <1>8, <2>5, <2>6 DEF ReadSession, OwnType
<1>9. CASE Commit(h)
  <2>1. /\ j.at = "commit" /\ DOMAIN j = BusyFields /\ Serving(j) /\ j.event.bay \in Bays
        /\ j.target \in States \cup {Absent}
    BY <1>1, <1>9 DEF Commit, Working, Serving, EventSet
  <2>2. StateType(sessions')
    BY <1>0, <1>9, <2>1, StateTypes DEF Commit
  <2>3. \/ job'[h] = [j EXCEPT !.at = "loop"]
        \/ job'[h] = [[j EXCEPT !.at = "loop"] EXCEPT !.owing = @ - 1]
    BY <1>9 DEF Commit
  <2>4. Shape(job'[h])
    BY <2>1, <2>3 DEF Shape, Serving, BusyFields, Working
  <2> QED
    BY <1>0, <1>9, <2>2, <2>4 DEF Commit, OwnType
<1>10. CASE Report(h)
  <2>1. j.at \in Working /\ Serving(j)
    BY <1>1, <1>10 DEF Report, Working
  <2>2. j.todo # <<>> /\ j.kind = "action" => Shape([j EXCEPT !.at = "schedule"])
    BY <1>0, <2>1, MovedShape DEF Working
  <2>3. \A answered, honest : Shape(Finish(h, Idle(answered, honest))[h])
    BY FinishTouched, IdleShape
  <2>4. Shape(job'[h])
    BY <1>0, <1>10, <2>1, <2>2, <2>3 DEF Report, Serving
  <2> QED
    BY <1>0, <1>10, <2>4 DEF Report, OwnType
<1>11. CASE SyncDone(h)
  <2>1. j.at \in Working /\ j.kind = "scenario"
    BY <1>11 DEF SyncDone, Working
  <2>2. Shape([j EXCEPT !.at = "sync"])
    BY <1>0, <2>1, MovedShape DEF Working
  <2>3. \A answered, honest : Shape(Finish(h, Idle(answered, honest))[h])
    BY FinishTouched, IdleShape
  <2>4. Shape(job'[h])
    BY <1>0, <1>11, <2>2, <2>3 DEF SyncDone
  <2> QED
    BY <1>0, <1>11, <2>4 DEF SyncDone, OwnType
<1>12. CASE Trip(h) \/ LogTrip(h)
  <2>1. j.at \in {"trip", "log"} /\ DOMAIN j = {"at", "bay", "live"} /\ j.bay \in Bays
    BY <1>0, <1>12 DEF Trip, LogTrip, Shape, Working
  <2>2. StateType([sessions EXCEPT ![j.bay] = "FAULT_TERMINAL"])
    BY <1>0, <2>1, StateTypes, StateNames
  <2>3. Shape([j EXCEPT !.at = "log"])
    BY <2>1 DEF Shape
  <2>4. job'[h] = [j EXCEPT !.at = "log"] \/ job'[h] = Idle("none", TRUE)
    BY <1>0, <1>12 DEF Trip, LogTrip
  <2>5. now' = now /\ pending' = pending /\ StateType(sessions')
    BY <1>0, <1>12, <2>2 DEF Trip, LogTrip
  <2> QED
    BY <1>0, <2>3, <2>4, <2>5, IdleShape DEF OwnType
<1> QED
  BY <1>2, <1>3, <1>4, <1>5, <1>6, <1>7, <1>8, <1>9, <1>10, <1>11, <1>12 DEF Serve

LEMMA TypeStep ==
  ASSUME TypeInv, [Next]_vars
  PROVE  TypeInv'
<1>1. CASE Next
  <2>1. PICK h \in Handlers : Request(h) \/ Serve(h)
    BY <1>1 DEF Next
  <2>2. OwnType(h) /\ OnlyTouched(h)
    BY <2>1, RequestTypes, ServeTypes, OthersTouched DEF TypeInv
  <2>3. \A g \in Handlers : Shape(job'[g])
    <3> SUFFICES ASSUME NEW g \in Handlers PROVE Shape(job'[g])
      OBVIOUS
    <3>1. CASE g = h
      BY <2>2, <3>1 DEF OwnType
    <3>2. CASE g # h
      BY <2>2, <3>2, TouchedAlike DEF OnlyTouched, TypeInv
    <3> QED
      BY <3>1, <3>2
  <2> QED
    BY <2>2, <2>3 DEF TypeInv, OwnType, OnlyTouched, StateType
<1>2. CASE UNCHANGED vars
  BY <1>2 DEF vars, console, TypeInv
<1> QED
  BY <1>1, <1>2

\* The types of the console's state, for every number of clients and bays.
THEOREM ConsoleTyped == Spec => []TypeInv
<1>1. Init => TypeInv
  <2> SUFFICES ASSUME Init PROVE TypeInv
    OBVIOUS
  <2>1. now \in Nat /\ pending \in Seq(EventSet) /\ DOMAIN job = Handlers
    BY DEF Init
  <2>2. sessions \in [Bays -> States \cup {Absent}]
    BY DEF Init
  <2>3. \A h \in Handlers : Shape(job[h])
    BY IdleShape DEF Init
  <2> QED
    BY <2>1, <2>2, <2>3 DEF TypeInv
<1> QED
  BY <1>1, TypeStep, PTL DEF Spec

-----------------------------------------------------------------------------
\* No event waits for a session that does not exist: a queue outlives requests,
\* and only a reset removes sessions, with the queue.
Present(s) == {e \in EventSet : s[e.bay] # Absent}
PendingPresent == pending \in Seq(Present(sessions))

\* Sessions that exist go on to exist.
LEMMA StillPresent ==
  ASSUME NEW s, NEW t, \A b \in Bays : s[b] # Absent => t[b] # Absent,
         NEW queue \in Seq(Present(s))
  PROVE  queue \in Seq(Present(t))
<1>1. Present(s) \subseteq Present(t)
  BY DEF Present, EventSet
<1> HIDE DEF Present
<1> QED
  BY <1>1

LEMMA SessionsStay ==
  ASSUME TypeInv, NEW h \in Handlers, Request(h) \/ Serve(h), ~ResetAll(h)
  PROVE  \A b \in Bays : sessions[b] # Absent => sessions'[b] # Absent
<1> SUFFICES ASSUME NEW b \in Bays, sessions[b] # Absent PROVE sessions'[b] # Absent
  OBVIOUS
<1>0. StateType(sessions) /\ Shape(job[h])
  BY DEF TypeInv, StateType
<1>1. ASSUME NEW c, sessions' = Fresh(c) \/ sessions' = Registered(c) PROVE sessions'[b] # Absent
  BY <1>0, <1>1, StateNames DEF StateType, Fresh, Registered, CurrentState
<1>2. CASE Commit(h)
  BY <1>0, <1>2 DEF Commit, StateType
<1>3. CASE Trip(h)
  BY <1>0, <1>3, StateNames DEF Trip, StateType
<1>4. CASE UNCHANGED sessions
  BY <1>4
<1>5. ASSUME NEW c \in Bays, NEW a, NEW t, BayReset(h, c) \/ EmergencyStop(h, c)
                                                    \/ AddEvent(h, c, a, t)
      PROVE  sessions'[b] # Absent
  BY <1>1, <1>5 DEF BayReset, EmergencyStop, AddEvent
<1>6. CASE Request(h)
  BY <1>4, <1>5, <1>6 DEF Request, ExecuteScenario, Run, ReadBay, InjectFault
<1>7. CASE Serve(h)
  BY <1>1, <1>2, <1>3, <1>4, <1>7 DEF Serve, LogTrip, Decide, ScheduleNext, SyncBay, SyncDone,
       LoopOn, LoopOver, Pop, PopEmpty, ReadSession, ReadMissing, Report
<1> QED
  BY <1>6, <1>7

\* What comes into the queue: events for the present or a time that may be
\* asked for, of sessions that exist by then.
LEMMA QueueStep ==
  ASSUME TypeInv, NEW h \in Handlers, Request(h) \/ Serve(h), NEW K, pending \in Seq(K),
         \A e \in EventSet : e.time \in Times \cup {now} /\ sessions'[e.bay] # Absent => e \in K
  PROVE  pending' \in Seq(K)
<1>0. pending \in Seq(EventSet) /\ Shape(job[h]) /\ now \in Nat /\ StateType(sessions)
  BY DEF TypeInv, StateType
<1>1. CASE ResetAll(h)
  BY <1>1 DEF ResetAll
<1>2. CASE UNCHANGED pending
  BY <1>2
<1>3. ASSUME NEW t \in Times \cup {now}, NEW events \in Seq(K), pending' = Enqueue(t, events)
      PROVE  pending' \in Seq(K)
  BY <1>3, EnqueueType
<1>4. ASSUME NEW b \in Bays, NEW a \in Posted, NEW t \in Times, AddEvent(h, b, a, t)
      PROVE  pending' \in Seq(K)
  <2>1. sessions'[b] # Absent
    BY <1>0, <1>4, StateNames DEF AddEvent, Registered, CurrentState, StateType
  <2>2. Event(t, b, a, "nobody") \in EventSet
    BY ConsoleAssumption DEF Event, EventSet, Times, Symbols, Owners
  <2>3. Event(t, b, a, "nobody") \in K
    BY <2>1, <2>2 DEF Event
  <2>4. <<Event(t, b, a, "nobody")>> \in Seq(K)
    BY <2>3
  <2> QED
    BY <1>2, <1>3, <1>4, <2>4 DEF AddEvent
<1>5. CASE ScheduleNext(h)
  <2> DEFINE j == job[h]
             e == Event(now, j.bay, Head(j.todo), h)
  <2>1. j.bay \in Bays /\ Head(j.todo) \in Symbols
    BY <1>0, <1>5 DEF ScheduleNext, Shape, Serving
  <2>2. sessions'[j.bay] # Absent
    BY <1>0, <1>5, <2>1, StateNames DEF ScheduleNext, Registered, CurrentState, StateType
  <2>3. e \in EventSet
    BY <1>0, <2>1 DEF Event, EventSet, Owners
  <2>4. e \in K
    BY <2>2, <2>3 DEF Event
  <2>5. <<e>> \in Seq(K)
    BY <2>4
  <2> HIDE DEF e
  <2> QED
    BY <1>3, <1>5, <2>5 DEF ScheduleNext, e
<1>6. CASE SyncBay(h)
  <2> DEFINE b == Head(job[h].bays)
             word == Script(job[h].script).word
             events == [i \in DOMAIN word |-> Event(now, b, word[i], h)]
  <2>1. b \in Bays /\ job[h].script \in Scenarios
    BY <1>0, <1>6 DEF SyncBay, Shape, Serving
  <2>2. word \in Seq(Symbols) /\ sessions'[b] # Absent
    <3>1. word \in Seq(Alphabet)
      BY <2>1, ScenarioBaysType, ScriptType
    <3>2. word \in Seq(Symbols)
      BY <3>1 DEF Symbols
    <3>3. sessions' = Fresh(b)
      BY <1>6 DEF SyncBay
    <3> QED
      BY <1>0, <2>1, <3>2, <3>3, StateNames DEF Fresh, StateType
  <2> HIDE DEF b, word
  <2>3. \A i \in DOMAIN word : Event(now, b, word[i], h) \in K
    <3> SUFFICES ASSUME NEW i \in DOMAIN word PROVE Event(now, b, word[i], h) \in K
      OBVIOUS
    <3>1. Event(now, b, word[i], h) \in EventSet
      BY <1>0, <2>1, <2>2 DEF Event, EventSet, Owners
    <3> QED
      BY <2>2, <3>1 DEF Event
  <2>4. events \in Seq(K)
    <3>1. DOMAIN word = 1..Len(word) /\ Len(word) \in Nat
      BY <2>2
    <3> QED
      BY <2>3, <3>1
  <2> HIDE DEF events
  <2>5. pending' = Enqueue(now, events)
    BY <1>6 DEF SyncBay, events, word, b
  <2> QED
    BY <1>3, <2>4, <2>5
<1>7. CASE Pop(h)
  BY <1>7 DEF Pop, Popped
<1>8. CASE Request(h)
  BY <1>1, <1>2, <1>4, <1>8
     DEF Request, BayReset, EmergencyStop, Run, ReadBay, InjectFault, ExecuteScenario
<1>9. CASE Serve(h)
  BY <1>2, <1>5, <1>6, <1>7, <1>9
     DEF Serve, Trip, LogTrip, Decide, SyncDone, LoopOn, LoopOver, PopEmpty, ReadSession,
         ReadMissing, Commit, Report
<1> QED
  BY <1>8, <1>9

LEMMA PendingStep ==
  ASSUME TypeInv, PendingPresent, NEW h \in Handlers, Request(h) \/ Serve(h)
  PROVE  PendingPresent'
<1>1. CASE ResetAll(h)
  BY <1>1 DEF ResetAll, PendingPresent
<1>2. ASSUME ~ResetAll(h) PROVE PendingPresent'
  <2>1. pending \in Seq(Present(sessions'))
    BY <1>2, SessionsStay, StillPresent DEF PendingPresent
  <2>2. pending' \in Seq(Present(sessions'))
    BY <2>1, QueueStep DEF Present
  <2> QED
    BY <2>2 DEF PendingPresent
<1> QED
  BY <1>1, <1>2

-----------------------------------------------------------------------------
\* Requests that do not overlap.  What the handler of the only one relies on:
\* the loop's test still holds when it pops, the session it is to read is there,
\* and the edge it is to commit still starts in the session's state.
Settled(j, queue, s) ==
  /\ j.at = "idle" => j.answered # "error"
  /\ j.at = "pop" => queue # <<>>
  /\ j.at \in {"read", "commit"} => s[j.event.bay] # Absent
  /\ j.at = "commit" =>
       /\ j.live
       /\ j.target = Absent \/ <<s[j.event.bay], j.event.symbol, j.target>> \in Transitions

Alone(h) == \A g \in Handlers \ {h} : IdleAt(g)

Undisturbed ==
  ~overlap => /\ \A h \in Handlers : ~IdleAt(h) => Alone(h)
              /\ \A h \in Handlers : Settled(job[h], pending, sessions)

LEMMA IdleSettled ==
  \A answered, honest, queue, s :
     answered # "error" => Settled(Idle(answered, honest), queue, s)
BY DEF Settled, Idle

\* An idle handler stays idle and settled, whatever another one does.
LEMMA OthersIdle ==
  ASSUME TypeInv, NEW h \in Handlers, Request(h) \/ Serve(h), NEW g \in Handlers \ {h},
         job[g].at = "idle"
  PROVE  /\ job'[g].at = "idle"
         /\ job[g].answered # "error" => \A queue, s : Settled(job'[g], queue, s)
<1>1. Alike(job'[g], job[g])
  BY OthersTouched, TouchedAlike DEF OnlyTouched, TypeInv
<1> QED
  BY <1>1 DEF Alike, Settled

\* Where a request that comes in leaves its handler.
LEMMA RequestAt ==
  ASSUME TypeInv, NEW h \in Handlers, Request(h)
  PROVE  job'[h] = Idle("none", TRUE) \/ job'[h].at \in {"schedule", "loop", "decide", "sync", "trip"}
<1>0. h \in DOMAIN job
  BY DEF TypeInv
<1>1. \A b, todo : Busy(b, todo).at = "schedule" /\ DOMAIN Busy(b, todo) = BusyFields
  BY DEF Busy, BusyFields
<1>2. CASE ResetAll(h)
  BY <1>2 DEF ResetAll
<1>3. ASSUME NEW b, NEW a, NEW t, BayReset(h, b) \/ AddEvent(h, b, a, t)
      PROVE  job'[h] = Idle("none", TRUE)
  BY <1>0, <1>3 DEF BayReset, AddEvent
<1>4. ASSUME NEW b, Run(h, b) PROVE job'[h].at = "loop"
  BY <1>0, <1>1, <1>4 DEF Run, BusyFields
<1>5. ASSUME NEW b, NEW a, ReadBay(h, b, a) PROVE job'[h].at = "decide"
  BY <1>0, <1>5 DEF ReadBay
<1>6. ASSUME NEW b, NEW a, InjectFault(h, b, a) PROVE job'[h].at = "schedule"
  BY <1>0, <1>1, <1>6 DEF InjectFault
<1>7. ASSUME NEW id, ExecuteScenario(h, id) PROVE job'[h].at = "sync"
  BY <1>0, <1>1, <1>7 DEF ExecuteScenario, BusyFields
<1>8. ASSUME NEW b, EmergencyStop(h, b) PROVE job'[h].at = "trip"
  BY <1>0, <1>8 DEF EmergencyStop
<1> QED
  BY <1>2, <1>3, <1>4, <1>5, <1>6, <1>7, <1>8 DEF Request

\* A request that comes in finds everything at rest, or overlaps another.
LEMMA RequestSettled ==
  ASSUME TypeInv, NEW h \in Handlers, Request(h)
  PROVE  \A queue, s : Settled(job'[h], queue, s)
<1>1. \A j, queue, s : j.at \in {"schedule", "loop", "decide", "sync", "trip"} => Settled(j, queue, s)
  BY DEF Settled
<1>2. \A queue, s : Settled(Idle("none", TRUE), queue, s)
  BY IdleSettled
<1>3. CASE job'[h] = Idle("none", TRUE)
  BY <1>2, <1>3
<1>4. CASE job'[h].at \in {"schedule", "loop", "decide", "sync", "trip"}
  BY <1>1, <1>4
<1>5. job'[h] = Idle("none", TRUE) \/ job'[h].at \in {"schedule", "loop", "decide", "sync", "trip"}
  BY RequestAt
<1> QED
  BY <1>3, <1>4, <1>5

LEMMA ServeSettled ==
  ASSUME TypeInv, PendingPresent, NEW h \in Handlers, Serve(h), Alone(h),
         Settled(job[h], pending, sessions)
  PROVE  Settled(job'[h], pending', sessions')
<1>0. h \in DOMAIN job /\ Shape(job[h]) /\ StateType(sessions)
  BY DEF TypeInv, StateType
<1> DEFINE j == job[h]
<1>1. \A k, queue, s : k.at \in {"schedule", "loop", "report", "sync", "log"} => Settled(k, queue, s)
  BY DEF Settled
<1>2. CASE Decide(h) \/ ScheduleNext(h) \/ SyncBay(h) \/ LoopOver(h)
  <2>1. job'[h].at \in {"schedule", "loop", "report"}
    <3>1. CASE Decide(h)
      <4>1. \A b, todo : Busy(b, todo).at = "schedule"
        BY DEF Busy
      <4>2. \E b, todo : job'[h] = Busy(b, todo)
        BY <1>0, <3>1 DEF Decide
      <4> QED
        BY <4>1, <4>2
    <3>2. CASE ScheduleNext(h) \/ LoopOver(h)
      BY <1>0, <3>2 DEF ScheduleNext, LoopOver, Shape, Working, BusyFields
    <3>3. CASE SyncBay(h)
      BY <1>0, <3>3 DEF SyncBay, Shape, Working, BusyFields
    <3> QED
      BY <1>2, <3>1, <3>2, <3>3
  <2> QED
    BY <1>1, <2>1
<1>3. CASE Commit(h)
  <2>1. job'[h].at = "loop"
    BY <1>0, <1>3 DEF Commit, Shape, Working, BusyFields
  <2> QED
    BY <1>1, <2>1
<1>4. CASE LoopOn(h)
  <2>1. job'[h].at = "pop" /\ pending' # <<>>
    BY <1>0, <1>4 DEF LoopOn, Waiting, Shape, Working, BusyFields
  <2> QED
    BY <2>1 DEF Settled
<1>5. CASE Pop(h)
  <2>1. job'[h].at = "read" /\ job'[h].event = Head(pending)
    BY <1>0, <1>5 DEF Pop, Shape, Working, BusyFields
  <2>2. Head(pending) \in Present(sessions)
    BY <1>5 DEF Pop, PendingPresent
  <2> QED
    BY <1>5, <2>1, <2>2 DEF Settled, Present, Pop
<1>6. ~PopEmpty(h) /\ ~ReadMissing(h)
  BY DEF PopEmpty, ReadMissing, Settled
<1>7. CASE ReadSession(h)
  <2> DEFINE e == j.event
             q == sessions[e.bay]
  <2>1. /\ job'[h].at = "commit" /\ job'[h].live = TRUE /\ job'[h].event = e
        /\ job'[h].target = IF e.symbol \in Admissible(q) THEN Target(q, e.symbol) ELSE Absent
    BY <1>0, <1>7 DEF ReadSession, Shape, Working, BusyFields
  <2>2. q \in States /\ sessions' = sessions
    BY <1>0, <1>7 DEF ReadSession, Shape, Working, Serving, EventSet, StateType
  <2>3. q # Absent
    BY <2>2, StateNames
  <2> HIDE DEF q
  <2>4. job'[h].target = Absent \/ <<q, e.symbol, job'[h].target>> \in Transitions
    BY <2>1, <2>2, TargetLeads
  <2> QED
    BY <2>1, <2>2, <2>3, <2>4 DEF Settled, q
<1>8. CASE Report(h) \/ SyncDone(h)
  <2>1. \/ job'[h].at \in {"schedule", "sync"}
        \/ \E answered, honest : answered # "error" /\ job'[h] = Idle(answered, honest)
    <3>1. \A answered, honest : Finish(h, Idle(answered, honest))[h] = Idle(answered, honest)
      BY FinishTouched
    <3>2. CASE Report(h)
      <4>1. j.at = "report" /\ DOMAIN j = BusyFields
        BY <1>0, <3>2 DEF Report, Shape, Working
      <4>2. \/ job' = [job EXCEPT ![h].at = "schedule"]
            \/ job' = Finish(h, Idle("none", TRUE))
            \/ \E honest : job' = Finish(h, Idle("accepted", honest))
            \/ \E honest : job' = Finish(h, Idle("rejected", honest))
        BY <3>2 DEF Report
      <4>3. job' = [job EXCEPT ![h].at = "schedule"] => job'[h].at = "schedule"
        BY <1>0, <4>1 DEF BusyFields
      <4> QED
        BY <3>1, <4>2, <4>3
    <3>3. CASE SyncDone(h)
      BY <1>0, <3>1, <3>3 DEF SyncDone, Shape, Working, BusyFields
    <3> QED
      BY <1>8, <3>2, <3>3
  <2> QED
    BY <1>1, <2>1, IdleSettled
<1>9. CASE Trip(h)
  <2>1. job'[h].at = "log"
    BY <1>0, <1>9 DEF Trip, Shape, Working
  <2> QED
    BY <1>1, <2>1
<1>10. CASE LogTrip(h)
  <2>1. job'[h] = Idle("none", TRUE)
    BY <1>0, <1>10 DEF LogTrip
  <2> QED
    BY <2>1, IdleSettled
<1> QED
  BY <1>2, <1>3, <1>4, <1>5, <1>6, <1>7, <1>8, <1>9, <1>10 DEF Serve

LEMMA ServeBusy ==
  ASSUME NEW h \in Handlers, Serve(h)
  PROVE  ~IdleAt(h)
BY DEF Serve, Trip, LogTrip, Decide, ScheduleNext, SyncBay, SyncDone, LoopOn, LoopOver, Pop,
       PopEmpty, ReadSession, ReadMissing, Commit, Report, IdleAt

ConsoleInv == TypeInv /\ PendingPresent /\ Undisturbed

LEMMA UndisturbedStep ==
  ASSUME ConsoleInv, NEW h \in Handlers,
         \/ Request(h) /\ overlap' = (overlap \/ \E g \in Handlers : ~IdleAt(g))
         \/ Serve(h) /\ UNCHANGED overlap
  PROVE  Undisturbed'
<1> SUFFICES ASSUME ~overlap' PROVE /\ \A g \in Handlers : ~IdleAt(g)' => Alone(g)'
                                    /\ \A g \in Handlers : Settled(job[g], pending, sessions)'
  BY DEF Undisturbed
<1>0. /\ TypeInv /\ PendingPresent
      /\ ~overlap => \A g \in Handlers : Settled(job[g], pending, sessions)
      /\ ~overlap => \A g \in Handlers : ~IdleAt(g) => Alone(g)
  BY DEF ConsoleInv, Undisturbed
<1>1. ~overlap /\ Alone(h)
  <2>1. CASE Serve(h) /\ UNCHANGED overlap
    <3>1. ~overlap /\ ~IdleAt(h)
      BY <2>1, ServeBusy
    <3> QED
      BY <1>0, <3>1
  <2>2. CASE overlap' = (overlap \/ \E g \in Handlers : ~IdleAt(g))
    <3>1. ~(overlap \/ \E g \in Handlers : ~IdleAt(g))
      BY <2>2, Zenon
    <3> QED
      BY <3>1 DEF Alone
  <2> QED
    BY <2>1, <2>2
<1>2. \A g \in Handlers \ {h} : IdleAt(g)' /\ \A queue, s : Settled(job'[g], queue, s)
  <2> TAKE g \in Handlers \ {h}
  <2>1. job[g].at = "idle" /\ job[g].answered # "error"
    BY <1>0, <1>1 DEF Alone, IdleAt, Settled
  <2> QED
    BY <1>0, <2>1, OthersIdle DEF IdleAt
<1>3. Settled(job'[h], pending', sessions')
  BY <1>0, <1>1, RequestSettled, ServeSettled
<1> QED
  BY <1>2, <1>3 DEF Alone

LEMMA ConsoleInvStep ==
  ASSUME ConsoleInv, [Next]_vars
  PROVE  ConsoleInv'
<1>1. TypeInv'
  BY TypeStep DEF ConsoleInv
<1>2. CASE Next
  <2>1. PICK h \in Handlers :
          \/ Request(h) /\ overlap' = (overlap \/ \E g \in Handlers : ~IdleAt(g))
          \/ Serve(h) /\ UNCHANGED overlap
    BY <1>2 DEF Next
  <2> QED
    BY <1>1, <2>1, UndisturbedStep, PendingStep DEF ConsoleInv
<1>3. CASE UNCHANGED vars
  BY <1>1, <1>3 DEF vars, console, ConsoleInv, PendingPresent, Undisturbed, Alone, IdleAt
<1> QED
  BY <1>2, <1>3

LEMMA ConsoleInvHolds == Spec => []ConsoleInv
<1>1. Init => ConsoleInv
  <2> SUFFICES ASSUME Init PROVE ConsoleInv
    OBVIOUS
  <2>1. TypeInv
    <3>1. now \in Nat /\ pending \in Seq(EventSet) /\ DOMAIN job = Handlers
      BY DEF Init
    <3>2. sessions \in [Bays -> States \cup {Absent}]
      BY DEF Init
    <3>3. \A h \in Handlers : Shape(job[h])
      BY IdleShape DEF Init
    <3> QED
      BY <3>1, <3>2, <3>3 DEF TypeInv
  <2>2. PendingPresent
    BY DEF Init, PendingPresent
  <2>3. \A h \in Handlers : job[h] = Idle("none", TRUE) /\ IdleAt(h)
    BY DEF Init, Idle, IdleAt
  <2>4. Undisturbed
    BY <2>3, IdleSettled DEF Undisturbed
  <2> QED
    BY <2>1, <2>2, <2>4 DEF ConsoleInv
<1> QED
  BY <1>1, ConsoleInvStep, PTL DEF Spec

\* As long as requests do not overlap none of them fails, whatever was left
\* pending and however the bays were reset in between.
THEOREM RequestsDoNotFail == Spec => []NoServerError
<1>1. ConsoleInv => NoServerError
  BY DEF ConsoleInv, Undisturbed, Settled, NoServerError, IdleAt
<1> QED
  BY <1>1, ConsoleInvHolds, PTL

LEMMA EdgeStep ==
  ASSUME ConsoleInv, ~overlap, NEW h \in Handlers, Request(h) \/ Serve(h), NEW b \in Bays
  PROVE  \/ sessions'[b] \in {sessions[b], StartState, Absent, "FAULT_TERMINAL"}
         \/ \E a \in Alphabet : <<sessions[b], a, sessions'[b]>> \in Transitions
<1>0. /\ sessions \in [Bays -> States \cup {Absent}]
      /\ Settled(job[h], pending, sessions) /\ Shape(job[h])
  BY DEF ConsoleInv, TypeInv, Undisturbed
<1>1. CASE UNCHANGED sessions
  BY <1>1
<1>2. ASSUME NEW c, sessions' = Fresh(c) \/ sessions' = Registered(c)
      PROVE  sessions'[b] \in {sessions[b], StartState}
  BY <1>0, <1>2 DEF Fresh, Registered, CurrentState
<1>3. CASE ResetAll(h)
  BY <1>3 DEF ResetAll
<1>4. CASE Trip(h)
  BY <1>0, <1>4 DEF Trip
<1>5. ASSUME NEW c, NEW a, NEW t, BayReset(h, c) \/ EmergencyStop(h, c) \/ AddEvent(h, c, a, t)
      PROVE  sessions'[b] \in {sessions[b], StartState}
  BY <1>2, <1>5 DEF BayReset, EmergencyStop, AddEvent
<1>6. CASE Commit(h)
  <2>1. PICK j : j = job[h]
    OBVIOUS
  <2>2. /\ j.target = Absent \/ <<sessions[j.event.bay], j.event.symbol, j.target>> \in Transitions
        /\ j.at = "commit"
    BY <1>0, <1>6, <2>1 DEF Commit, Settled
  <2>3. CASE sessions'[b] = sessions[b]
    BY <2>3
  <2>4. CASE sessions'[b] # sessions[b]
    <3>1. j.target # Absent /\ b = j.event.bay /\ sessions'[b] = j.target
      BY <1>0, <1>6, <2>1, <2>4 DEF Commit
    <3>2. <<sessions[b], j.event.symbol, sessions'[b]>> \in Transitions
      BY <2>2, <3>1
    <3>3. \A t \in Transitions : t[2] \in Alphabet
      BY DEF Transitions, EntryEdges, CableEdges, EnergyEdges, SuspensionEdges, ReleaseEdges,
         SettlementEdges, Alphabet, PhysicalSymbols, PowerSymbols, AuthSymbols,
         TelemetrySymbols, AdminSymbols
    <3>4. j.event.symbol \in Alphabet
      BY <3>2, <3>3
    <3> QED
      BY <3>2, <3>4
  <2> QED
    BY <2>3, <2>4
<1>7. CASE Request(h)
  BY <1>1, <1>3, <1>5, <1>7 DEF Request, Run, ReadBay, InjectFault, ExecuteScenario
<1>8. CASE Serve(h)
  BY <1>1, <1>2, <1>4, <1>6, <1>8 DEF Serve, LogTrip, Decide, ScheduleNext, SyncBay, SyncDone, LoopOn, LoopOver,
       Pop, PopEmpty, ReadSession, ReadMissing, Report
<1> QED
  BY <1>7, <1>8

\* As long as requests do not overlap, a bay only changes along an edge of the
\* automaton, by an emergency stop, or by starting anew.
THEOREM BaysFollowEdges == Spec => ChangesAreEdges
<1>1. ConsoleInv /\ [Next]_vars =>
        [~overlap => \A b \in Bays :
            \/ sessions'[b] \in {sessions[b], StartState, Absent, "FAULT_TERMINAL"}
            \/ \E a \in Alphabet : <<sessions[b], a, sessions'[b]>> \in Transitions]_vars
  BY EdgeStep DEF Next
<1> QED
  BY <1>1, ConsoleInvHolds, PTL DEF Spec, ChangesAreEdges

-----------------------------------------------------------------------------
\* Sessions that are replaced while a thread holds a target for them.
Edge(q, t) == \E a \in Alphabet : <<q, a, t>> \in Transitions
FromStart(t) == t = Absent \/ Edge(StartState, t)

Scenic(j) == j.at \in Working /\ j.kind = "scenario"

\* A target that will be written is one of the present session.
Fitting(j, s) ==
  j.at = "commit" /\ j.live =>
    /\ s[j.event.bay] # Absent
    /\ s[j.event.bay] = StartState => FromStart(j.target)

\* What a client's request carries never leads back; a scenario, which does
\* lead back, leaves nothing behind in the queue.
Onward(j, queue) ==
  /\ j.at \in Working /\ j.kind # "scenario" =>
       /\ j.todo \in Seq(Forward)
       /\ j.at \in {"read", "commit"} => j.event.symbol \in Forward
       /\ j.at = "commit" => j.target # StartState
  /\ Scenic(j) /\ j.at = "report" => queue = <<>>

ForwardEvents == {e \in EventSet : e.symbol \in Forward}

\* A scenario is played alone, and finds the sessions of its events.
Played(j, s) == Scenic(j) /\ j.at = "read" => s[j.event.bay] # Absent

CleanInv ==
  /\ \A h \in Handlers : Scenic(job[h]) => Alone(h) /\ Played(job[h], sessions)
  /\ (\A h \in Handlers : ~Scenic(job[h])) => pending \in Seq(ForwardEvents)
  /\ \A h \in Handlers : Onward(job[h], pending) /\ Fitting(job[h], sessions)

LEMMA PlayingIsScenic ==
  ASSUME TypeInv
  PROVE  Playing <=> \E h \in Handlers : Scenic(job[h])
<1>1. \A h \in Handlers : Scenic(job[h]) <=> ~IdleAt(h) /\ "kind" \in DOMAIN job[h] /\ job[h].kind = "scenario"
  <2> TAKE h \in Handlers
  <2>1. Shape(job[h])
    BY DEF TypeInv
  <2> QED
    BY <2>1 DEF Shape, Scenic, IdleAt, Working, BusyFields
<1> QED
  BY <1>1 DEF Playing

\* Whatever a step of h does, what others hold goes on to fit.
LEMMA OthersFit ==
  ASSUME TypeInv, CleanInv, NEW h \in Handlers, Request(h) \/ Serve(h), NEW g \in Handlers \ {h}
  PROVE  Fitting(job'[g], sessions')
<1>0. /\ StateType(sessions) /\ Shape(job[h]) /\ Shape(job[g]) /\ h \in DOMAIN job
      /\ g \in DOMAIN job /\ DOMAIN job = Handlers
      /\ Fitting(job[g], sessions) /\ Onward(job[h], pending)
      /\ Scenic(job[h]) => IdleAt(g)
  BY DEF TypeInv, StateType, CleanInv, Alone
<1>1. Alike(job'[g], job[g])
  BY <1>0, OthersTouched, TouchedAlike DEF OnlyTouched
<1> SUFFICES ASSUME job'[g].at = "commit", job'[g].live
             PROVE  /\ sessions'[job'[g].event.bay] # Absent
                    /\ sessions'[job'[g].event.bay] = StartState => FromStart(job'[g].target)
  BY DEF Fitting
<1> DEFINE b == job[g].event.bay
<1>2. /\ job[g].at = "commit" /\ job[g].live /\ job'[g].event.bay = b
      /\ job'[g].target = job[g].target /\ DOMAIN job[g] = BusyFields /\ b \in Bays
  BY <1>0, <1>1 DEF Alike, Working, Shape, Serving, EventSet
<1>3. sessions[b] # Absent /\ (sessions[b] = StartState => FromStart(job[g].target))
  BY <1>0, <1>2 DEF Fitting
<1> SUFFICES sessions'[b] = sessions[b] \/ sessions'[b] \in States \ {StartState}
  BY <1>2, <1>3, StateNames
<1>4. CASE UNCHANGED sessions
  BY <1>4
<1>5. ~ResetAll(h)
  BY <1>0, <1>2 DEF ResetAll, Holds, BusyFields
<1>6. ASSUME NEW c, sessions' = Registered(c) PROVE sessions'[b] = sessions[b]
  BY <1>0, <1>2, <1>3, <1>6 DEF Registered, CurrentState, StateType
<1>7. ASSUME NEW c, sessions' = Fresh(c), job'[g] = Detached(c, job[g])
      PROVE  sessions'[b] = sessions[b]
  BY <1>0, <1>2, <1>7 DEF Fresh, Detached, Holds, StateType, BusyFields
<1>8. ASSUME Trip(h) PROVE sessions'[b] \in {sessions[b], "FAULT_TERMINAL"}
  BY <1>0, <1>2, <1>8 DEF Trip, StateType
<1>9. ASSUME NEW c, NEW a, NEW t, BayReset(h, c) \/ EmergencyStop(h, c) \/ AddEvent(h, c, a, t)
      PROVE  sessions'[b] = sessions[b]
  BY <1>0, <1>6, <1>7, <1>9 DEF BayReset, EmergencyStop, AddEvent
<1>10. CASE Commit(h)
  <2>1. job[h].target # StartState /\ job[h].target \in States \cup {Absent}
    <3>1. ~Scenic(job[h]) /\ job[h].at = "commit"
      BY <1>0, <1>2, <1>10 DEF Commit, IdleAt
    <3> QED
      BY <1>0, <3>1 DEF Onward, Scenic, Working, Shape, Serving
  <2> QED
    BY <1>0, <1>2, <1>10, <2>1 DEF Commit, StateType
<1>11. CASE Decide(h) \/ SyncBay(h)
  <2>1. UNCHANGED sessions \/ \E c : sessions' = Fresh(c) /\ job'[g] = Detached(c, job[g])
    BY <1>0, <1>11 DEF Decide, SyncBay
  <2> QED
    BY <1>4, <1>7, <2>1
<1>12. CASE Request(h)
  BY <1>4, <1>5, <1>9, <1>12 DEF Request, Run, ReadBay, InjectFault, ExecuteScenario
<1>13. CASE Serve(h)
  <2>1. Trip(h) => sessions'[b] = sessions[b] \/ sessions'[b] \in States \ {StartState}
    BY <1>8, StateNames DEF StartState
  <2> QED
    BY <1>4, <1>6, <1>10, <1>11, <1>13, <2>1 DEF Serve, LogTrip, ScheduleNext, SyncDone, LoopOn,
       LoopOver, Pop, PopEmpty, ReadSession, ReadMissing, Report
<1> QED
  BY <1>12, <1>13

LEMMA ForwardType == Forward \subseteq Symbols /\ ForwardEvents \subseteq EventSet
BY DEF Forward, Symbols, ForwardEvents

\* A request brings in nothing that leads back, and a scenario only at rest.
LEMMA RequestClean ==
  ASSUME NoWayBack, TypeInv, CleanInv, NEW h \in Handlers, Request(h), ~Playing
  PROVE  /\ \A queue, s : Onward(job'[h], queue) /\ Fitting(job'[h], s) /\ Played(job'[h], s)
         /\ Scenic(job'[h]) => \A g \in Handlers : IdleAt(g)
         /\ pending' \in Seq(ForwardEvents)
<1>0. h \in DOMAIN job /\ pending \in Seq(EventSet) /\ pending \in Seq(ForwardEvents)
  BY PlayingIsScenic DEF TypeInv, CleanInv
<1> DEFINE Good == /\ \A queue, s : /\ Onward(job'[h], queue) /\ Fitting(job'[h], s)
                                    /\ Played(job'[h], s)
                   /\ Scenic(job'[h]) => \A g \in Handlers : IdleAt(g)
                   /\ pending' \in Seq(ForwardEvents)
<1>1. ASSUME job'[h].at \notin Working, pending' \in Seq(ForwardEvents) PROVE Good
  BY <1>1 DEF Onward, Fitting, Played, Scenic, Working
<1>2. CASE ResetAll(h)
  <2>1. job'[h].at = "idle"
    BY <1>2 DEF ResetAll, Idle
  <2>2. pending' \in Seq(ForwardEvents)
    BY <1>2 DEF ResetAll
  <2> QED
    BY <1>1, <2>1, <2>2 DEF Working
<1>3. ASSUME NEW b \in Bays, BayReset(h, b) \/ EmergencyStop(h, b) PROVE Good
  <2>1. job'[h].at \in {"idle", "trip"} /\ pending' = pending
    BY <1>0, <1>3 DEF BayReset, EmergencyStop, Idle
  <2> QED
    BY <1>0, <1>1, <2>1 DEF Working
<1>4. ASSUME NEW b \in Bays, NEW a, ReadBay(h, b, a) PROVE Good
  <2>1. job'[h].at = "decide" /\ pending' = pending
    BY <1>0, <1>4 DEF ReadBay
  <2> QED
    BY <1>0, <1>1, <2>1 DEF Working
<1>5. ASSUME NEW b \in Bays, NEW a \in Posted, NEW t \in Times, AddEvent(h, b, a, t) PROVE Good
  <2>1. job'[h].at = "idle"
    BY <1>0, <1>5 DEF AddEvent, Idle
  <2>2. Event(t, b, a, "nobody") \in ForwardEvents
    BY ConsoleAssumption DEF Event, EventSet, ForwardEvents, Times, Symbols, Owners, NoWayBack
  <2>3. Enqueue(t, <<Event(t, b, a, "nobody")>>) \in Seq(ForwardEvents)
    <3>1. <<Event(t, b, a, "nobody")>> \in Seq(ForwardEvents)
      BY <2>2
    <3> QED
      BY <1>0, <3>1, EnqueueType
  <2>4. pending' \in Seq(ForwardEvents)
    BY <1>0, <1>5, <2>3 DEF AddEvent
  <2> QED
    BY <1>1, <2>1, <2>4 DEF Working
<1>6. ASSUME NEW b \in Bays, NEW todo \in Seq(Forward),
             job'[h] = Busy(b, todo) \/ job'[h] = [Busy(b, todo) EXCEPT !.at = "loop", !.kind = "run"],
             UNCHANGED pending
      PROVE  Good
  <2>1. /\ job'[h].at \in {"schedule", "loop"} /\ job'[h].kind \in {"action", "run"}
        /\ job'[h].todo = todo
    <3>1. DOMAIN Busy(b, todo) = BusyFields
      BY DEF Busy, BusyFields
    <3>2. Busy(b, todo).at = "schedule" /\ Busy(b, todo).kind = "action" /\ Busy(b, todo).todo = todo
      BY DEF Busy
    <3>3. CASE job'[h] = Busy(b, todo)
      BY <3>2, <3>3
    <3>4. CASE job'[h] = [Busy(b, todo) EXCEPT !.at = "loop", !.kind = "run"]
      BY <3>1, <3>2, <3>4 DEF BusyFields
    <3> QED
      BY <1>6, <3>3, <3>4
  <2>2. \A queue, s : Onward(job'[h], queue) /\ Fitting(job'[h], s) /\ Played(job'[h], s)
    BY <2>1 DEF Onward, Fitting, Played, Scenic, Working
  <2>3. ~Scenic(job'[h])
    BY <2>1 DEF Scenic
  <2> QED
    BY <1>0, <1>6, <2>2, <2>3
<1>7. ASSUME NEW b \in Bays, Run(h, b) PROVE Good
  <2>1. <<>> \in Seq(Forward)
    OBVIOUS
  <2> QED
    BY <1>0, <1>6, <1>7, <2>1 DEF Run
<1>8. ASSUME NEW b \in Bays, NEW a \in Faults, InjectFault(h, b, a) PROVE Good
  <2>1. <<a>> \in Seq(Forward)
    BY DEF NoWayBack
  <2> QED
    BY <1>0, <1>6, <1>8, <2>1 DEF InjectFault
<1>9. ASSUME NEW id \in Scenarios, ExecuteScenario(h, id), \A g \in Handlers : IdleAt(g) PROVE Good
  <2>1. job'[h].at = "sync" /\ job'[h].kind = "scenario" /\ pending' = pending
    BY <1>0, <1>9 DEF ExecuteScenario, Busy
  <2>2. \A queue, s : Onward(job'[h], queue) /\ Fitting(job'[h], s) /\ Played(job'[h], s)
    BY <2>1 DEF Onward, Fitting, Played, Scenic, Working
  <2> QED
    BY <1>0, <1>9, <2>1, <2>2
<1> QED
  BY <1>2, <1>3, <1>4, <1>5, <1>7, <1>8, <1>9 DEF Request

LEMMA ExpansionForward ==
  ASSUME NoWayBack, NEW action \in BayActions, NEW q \in States
  PROVE  Expansion(action, q) \in Seq(Forward)
<1>1. Expansion(action, q) \in Seq(Alphabet)
  BY ExpansionType
<1>2. Range(Expansion(action, q)) \subseteq Forward
  BY DEF NoWayBack
<1> HIDE DEF NoWayBack
<1>3. \A i \in 1..Len(Expansion(action, q)) : Expansion(action, q)[i] \in Forward
  BY <1>1, <1>2 DEF Range
<1> QED
  BY <1>1, <1>3

\* Serving a request keeps it that way.
LEMMA ServeClean ==
  ASSUME NoWayBack, TypeInv, PendingPresent, CleanInv, NEW h \in Handlers, Serve(h)
  PROVE  /\ Onward(job'[h], pending') /\ Fitting(job'[h], sessions')
         /\ Played(job'[h], sessions')
         /\ Scenic(job'[h]) => Scenic(job[h])
         /\ ~Scenic(job'[h]) => pending' \in Seq(ForwardEvents)
<1> DEFINE j == job[h]
           Good == /\ Onward(job'[h], pending') /\ Fitting(job'[h], sessions')
                   /\ Played(job'[h], sessions')
                   /\ Scenic(job'[h]) => Scenic(j)
                   /\ ~Scenic(job'[h]) => pending' \in Seq(ForwardEvents)
<1>0. /\ h \in DOMAIN job /\ Shape(j) /\ pending \in Seq(EventSet) /\ StateType(sessions)
      /\ Onward(j, pending) /\ Played(j, sessions) /\ now \in Nat
  BY DEF TypeInv, CleanInv, StateType, Played
<1>1. ~Scenic(j) => pending \in Seq(ForwardEvents)
  BY ServeBusy DEF CleanInv, Alone
<1>2. j.at \in Working => DOMAIN j = BusyFields /\ Serving(j)
  BY <1>0 DEF Shape, Working
<1> SUFFICES Good
  OBVIOUS
<1> HIDE DEF j
<1>3. ASSUME job'[h].at \in {"idle", "log"}, ~Scenic(j) \/ pending = <<>>, UNCHANGED pending
      PROVE  Good
  <2>1. <<>> \in Seq(ForwardEvents)
    OBVIOUS
  <2>2. pending' \in Seq(ForwardEvents)
    BY <1>1, <1>3, <2>1
  <2> QED
    BY <1>3, <2>2 DEF Onward, Fitting, Played, Scenic, Working
<1>4. CASE Decide(h)
  <2>1. /\ ~Scenic(j) /\ UNCHANGED pending /\ j.bay \in Bays
        /\ j.action \in BayActions /\ j.seen \in States
    BY <1>0, <1>4 DEF Decide, Shape, Working, Scenic, j
  <2>2. \E q \in States : job'[h] = Busy(j.bay, Expansion(j.action, q))
    BY <1>0, <1>4, <2>1, StateNames DEF Decide, j
  <2>3. PICK q \in States : job'[h] = Busy(j.bay, Expansion(j.action, q))
    BY <2>2
  <2>4. Expansion(j.action, q) \in Seq(Forward)
    BY <2>1, ExpansionForward
  <2>5. /\ job'[h].at = "schedule" /\ job'[h].kind = "action"
        /\ job'[h].todo = Expansion(j.action, q)
    BY <2>3 DEF Busy
  <2> QED
    BY <1>1, <2>1, <2>4, <2>5 DEF Onward, Fitting, Played, Scenic, Working
<1>5. CASE ScheduleNext(h)
  <2>1. /\ j.at = "schedule" /\ DOMAIN j = BusyFields /\ Serving(j) /\ j.bay \in Bays
        /\ j.todo # <<>>
    BY <1>2, <1>5 DEF ScheduleNext, Serving, Working, j
  <2>2. job'[h] = [j EXCEPT !.at = "loop", !.todo = Tail(@), !.owing = @ + 1]
    BY <1>0, <1>5 DEF ScheduleNext, j
  <2>3. /\ job'[h].at = "loop" /\ job'[h].kind = j.kind /\ job'[h].todo = Tail(j.todo)
    BY <2>1, <2>2 DEF BusyFields
  <2>4. Scenic(job'[h]) <=> Scenic(j)
    BY <2>1, <2>3 DEF Scenic, Working
  <2>5. ~Scenic(j) => j.todo \in Seq(Forward)
    BY <1>0, <2>1 DEF Onward, Scenic, Working
  <2>6. ~Scenic(j) => Tail(j.todo) \in Seq(Forward) /\ Head(j.todo) \in Forward
    BY <2>1, <2>5
  <2>7. ~Scenic(j) => pending' \in Seq(ForwardEvents)
    <3> SUFFICES ASSUME ~Scenic(j) PROVE pending' \in Seq(ForwardEvents)
      OBVIOUS
    <3>1. Event(now, j.bay, Head(j.todo), h) \in ForwardEvents
      BY <1>0, <2>1, <2>6, ForwardType DEF Event, EventSet, ForwardEvents, Owners
    <3>2. <<Event(now, j.bay, Head(j.todo), h)>> \in Seq(ForwardEvents)
      BY <3>1
    <3>3. Enqueue(now, <<Event(now, j.bay, Head(j.todo), h)>>) \in Seq(ForwardEvents)
      BY <1>1, <3>2, EnqueueType
    <3> QED
      BY <1>5, <3>3 DEF ScheduleNext, j
  <2> QED
    BY <2>3, <2>4, <2>6, <2>7 DEF Onward, Fitting, Played, Scenic, Working
<1>6. CASE SyncBay(h)
  <2>1. j.at = "sync" /\ Scenic(j) /\ DOMAIN j = BusyFields
    BY <1>2, <1>6 DEF SyncBay, Serving, Working, Scenic, j
  <2>2. job'[h].at = "loop" /\ job'[h].kind = j.kind
    BY <1>6, <2>1 DEF SyncBay, BusyFields, j
  <2> QED
    BY <2>1, <2>2 DEF Onward, Fitting, Played, Scenic, Working
<1>7. CASE LoopOn(h) \/ LoopOver(h)
  <2>1. j.at = "loop" /\ DOMAIN j = BusyFields /\ UNCHANGED pending
    BY <1>2, <1>7 DEF LoopOn, LoopOver, Working, j
  <2>2. \/ job'[h] = [j EXCEPT !.at = "pop"]
        \/ job'[h] = [j EXCEPT !.at = "report"] /\ (pending = <<>> \/ j.kind = "run")
    BY <1>0, <1>7 DEF LoopOn, LoopOver, j
  <2>3. /\ job'[h].kind = j.kind /\ job'[h].todo = j.todo
        /\ job'[h].at = "pop" \/ job'[h].at = "report"
        /\ job'[h].at = "report" => pending = <<>> \/ j.kind = "run"
    BY <2>1, <2>2 DEF BusyFields
  <2>4. Scenic(job'[h]) <=> Scenic(j)
    BY <2>1, <2>3 DEF Scenic, Working
  <2> QED
    BY <1>0, <1>1, <2>1, <2>3, <2>4 DEF Onward, Fitting, Played, Scenic, Working
<1>8. CASE Pop(h)
  <2>1. j.at = "pop" /\ DOMAIN j = BusyFields /\ pending # <<>> /\ UNCHANGED sessions
    BY <1>2, <1>8 DEF Pop, Working, j
  <2>2. job'[h] = [j EXCEPT !.at = "read", !.event = Head(pending)]
    BY <1>0, <1>8 DEF Pop, j
  <2>3. /\ job'[h].at = "read" /\ job'[h].kind = j.kind /\ job'[h].todo = j.todo
        /\ job'[h].event = Head(pending)
    BY <2>1, <2>2 DEF BusyFields
  <2>4. Scenic(job'[h]) <=> Scenic(j)
    BY <2>1, <2>3 DEF Scenic, Working
  <2>5. Head(pending) \in Present(sessions)
    BY <2>1 DEF PendingPresent
  <2>6. ~Scenic(j) => Head(pending) \in ForwardEvents /\ Tail(pending) \in Seq(ForwardEvents)
    BY <1>1, <2>1
  <2>7. sessions'[job'[h].event.bay] # Absent
    BY <2>1, <2>3, <2>5 DEF Present
  <2>8. Onward(job'[h], pending')
    BY <1>0, <2>1, <2>3, <2>4, <2>6 DEF Onward, Scenic, Working, ForwardEvents
  <2>9. pending' = Tail(pending)
    BY <1>8 DEF Pop, Popped
  <2> QED
    BY <2>3, <2>4, <2>6, <2>7, <2>8, <2>9 DEF Fitting, Played
<1>9. CASE PopEmpty(h)
  <2>1. job'[h] = Idle("error", TRUE) /\ pending = <<>> /\ UNCHANGED pending
    BY <1>9, FinishTouched DEF PopEmpty
  <2> QED
    BY <1>3, <2>1 DEF Idle
<1>10. CASE ReadMissing(h)
  <2>1. job'[h] = Idle("error", TRUE) /\ UNCHANGED pending
    BY <1>10, FinishTouched DEF ReadMissing
  <2>2. ~Scenic(j)
    BY <1>0, <1>10 DEF ReadMissing, Played, j
  <2> QED
    BY <1>3, <2>1, <2>2 DEF Idle
<1>11. CASE ReadSession(h)
  <2> DEFINE e == j.event
             q == sessions[e.bay]
             t == IF e.symbol \in Admissible(q) THEN Target(q, e.symbol) ELSE Absent
  <2>1. j.at = "read" /\ DOMAIN j = BusyFields /\ Serving(j) /\ UNCHANGED <<pending, sessions>>
    BY <1>2, <1>11 DEF ReadSession, Working, j
  <2>2. job'[h] = [j EXCEPT !.at = "commit", !.live = TRUE, !.target = t]
    BY <1>0, <1>11 DEF ReadSession, j
  <2>3. q \in States
    BY <1>0, <1>11, <2>1 DEF ReadSession, Serving, EventSet, StateType, j
  <2>4. t = Absent \/ (<<q, e.symbol, t>> \in Transitions /\ e.symbol \in Alphabet)
    <3> HIDE DEF q
    <3> QED
      BY <2>3, TargetLeads
  <2> HIDE DEF t, q
  <2>5. /\ job'[h].at = "commit" /\ job'[h].kind = j.kind /\ job'[h].todo = j.todo
        /\ job'[h].event = e /\ job'[h].target = t
    BY <2>1, <2>2 DEF BusyFields
  <2>6. Scenic(job'[h]) <=> Scenic(j)
    BY <2>1, <2>5 DEF Scenic, Working
  <2>7. Fitting(job'[h], sessions')
    BY <2>1, <2>3, <2>4, <2>5, StateNames DEF Fitting, FromStart, Edge, q
  <2>8. ~Scenic(j) => e.symbol \in Forward /\ j.todo \in Seq(Forward)
    BY <1>0, <2>1 DEF Onward, Scenic, Working
  <2>9. e.symbol \in Forward => t # StartState
    <3>1. StartState # Absent
      BY StateNames
    <3>2. e.symbol \in Forward => \A x \in Transitions : x[2] = e.symbol => x[3] # StartState
      BY DEF Forward
    <3>3. <<q, e.symbol, t>>[2] = e.symbol /\ <<q, e.symbol, t>>[3] = t
      OBVIOUS
    <3> HIDE DEF e
    <3> QED
      BY <2>4, <3>1, <3>2, <3>3
  <2>10. Onward(job'[h], pending')
    BY <2>5, <2>6, <2>8, <2>9 DEF Onward, Scenic, Working
  <2> QED
    BY <1>1, <2>1, <2>5, <2>6, <2>7, <2>10 DEF Played
<1>12. CASE Commit(h)
  <2>1. j.at = "commit" /\ DOMAIN j = BusyFields /\ UNCHANGED pending
    BY <1>2, <1>12 DEF Commit, Working, j
  <2>2. \/ job'[h] = [j EXCEPT !.at = "loop"]
        \/ job'[h] = [[j EXCEPT !.at = "loop"] EXCEPT !.owing = @ - 1]
    BY <1>12 DEF Commit, j
  <2>3. job'[h].at = "loop" /\ job'[h].kind = j.kind /\ job'[h].todo = j.todo
    BY <2>1, <2>2 DEF BusyFields
  <2>4. Scenic(job'[h]) <=> Scenic(j)
    BY <2>1, <2>3 DEF Scenic, Working
  <2> QED
    BY <1>0, <1>1, <2>1, <2>3, <2>4 DEF Onward, Fitting, Played, Scenic, Working
<1>13. CASE Report(h)
  <2>1. j.at = "report" /\ DOMAIN j = BusyFields /\ UNCHANGED pending /\ ~Scenic(j)
    BY <1>2, <1>13 DEF Report, Working, Scenic, j
  <2>2. \/ job'[h] = [j EXCEPT !.at = "schedule"]
        \/ \E answered, honest : job'[h] = Idle(answered, honest)
    <3>1. \A answered, honest : Finish(h, Idle(answered, honest))[h] = Idle(answered, honest)
      BY FinishTouched
    <3>2. \/ job' = [job EXCEPT ![h].at = "schedule"]
          \/ job' = Finish(h, Idle("none", TRUE))
          \/ \E honest : job' = Finish(h, Idle("accepted", honest))
          \/ \E honest : job' = Finish(h, Idle("rejected", honest))
      BY <1>13 DEF Report
    <3>3. job' = [job EXCEPT ![h].at = "schedule"] => job'[h] = [j EXCEPT !.at = "schedule"]
      BY <1>0 DEF j
    <3>4. ASSUME NEW answered, NEW honest, job' = Finish(h, Idle(answered, honest))
          PROVE  job'[h] = Idle(answered, honest)
      BY <3>1, <3>4
    <3>5. CASE job' = Finish(h, Idle("none", TRUE))
      BY <3>4, <3>5
    <3>6. CASE \E honest : job' = Finish(h, Idle("accepted", honest))
      BY <3>4, <3>6
    <3>7. CASE \E honest : job' = Finish(h, Idle("rejected", honest))
      BY <3>4, <3>7
    <3> QED
      BY <3>2, <3>3, <3>5, <3>6, <3>7
  <2>3. CASE job'[h] = [j EXCEPT !.at = "schedule"]
    <3>1. job'[h].at = "schedule" /\ job'[h].kind = j.kind /\ job'[h].todo = j.todo
      BY <2>1, <2>3 DEF BusyFields
    <3>2. ~Scenic(job'[h])
      BY <2>1, <3>1 DEF Scenic, Working
    <3> QED
      BY <1>0, <1>1, <2>1, <3>1, <3>2 DEF Onward, Fitting, Played, Scenic, Working
  <2>4. CASE \E answered, honest : job'[h] = Idle(answered, honest)
    BY <1>3, <2>1, <2>4 DEF Idle
  <2> QED
    BY <2>2, <2>3, <2>4
<1>14. CASE SyncDone(h)
  <2>1. j.at = "report" /\ DOMAIN j = BusyFields /\ UNCHANGED pending /\ Scenic(j)
    BY <1>2, <1>14 DEF SyncDone, Working, Scenic, j
  <2>2. pending = <<>>
    BY <1>0, <2>1 DEF Onward
  <2>3. \/ job'[h] = [j EXCEPT !.at = "sync"]
        \/ \E answered, honest : job'[h] = Idle(answered, honest)
    <3>1. \A answered, honest : Finish(h, Idle(answered, honest))[h] = Idle(answered, honest)
      BY FinishTouched
    <3> QED
      BY <1>0, <1>14, <3>1 DEF SyncDone, j
  <2>4. CASE job'[h] = [j EXCEPT !.at = "sync"]
    <3>1. job'[h].at = "sync" /\ job'[h].kind = j.kind
      BY <2>1, <2>4 DEF BusyFields
    <3> QED
      BY <2>1, <3>1 DEF Onward, Fitting, Played, Scenic, Working
  <2>5. CASE \E answered, honest : job'[h] = Idle(answered, honest)
    BY <1>3, <2>1, <2>2, <2>5 DEF Idle
  <2> QED
    BY <2>3, <2>4, <2>5
<1>15. CASE Trip(h) \/ LogTrip(h)
  <2>1. j.at \in {"trip", "log"} /\ DOMAIN j = {"at", "bay", "live"} /\ UNCHANGED pending
    BY <1>0, <1>15 DEF Trip, LogTrip, Shape, Working, j
  <2>2. \/ job'[h] = [j EXCEPT !.at = "log"]
        \/ job'[h] = Idle("none", TRUE)
    BY <1>0, <1>15 DEF Trip, LogTrip, j
  <2>3. job'[h].at \in {"idle", "log"} /\ ~Scenic(j)
    BY <2>1, <2>2 DEF Idle, Scenic, Working
  <2> QED
    BY <1>3, <2>1, <2>3
<1> QED
  BY <1>4, <1>5, <1>6, <1>7, <1>8, <1>9, <1>10, <1>11, <1>12, <1>13, <1>14, <1>15 DEF Serve, j

LEMMA CleanStep ==
  ASSUME NoWayBack, TypeInv, PendingPresent, CleanInv, [Next]_vars
  PROVE  CleanInv'
<1>1. CASE Next
  <2>1. PICK h \in Handlers : (Request(h) /\ ~Playing) \/ Serve(h)
    BY <1>1 DEF Next
  <2>2. /\ Onward(job'[h], pending') /\ Fitting(job'[h], sessions') /\ Played(job'[h], sessions')
        /\ Scenic(job'[h]) => \A g \in Handlers \ {h} : IdleAt(g)
        /\ ~Scenic(job'[h]) => pending' \in Seq(ForwardEvents)
    <3>1. CASE Request(h) /\ ~Playing
      BY <3>1, RequestClean
    <3>2. CASE Serve(h)
      BY <3>2, ServeClean DEF CleanInv, Alone
    <3> QED
      BY <2>1, <3>1, <3>2
  <2>3. ASSUME NEW g \in Handlers \ {h}
        PROVE  /\ Alike(job'[g], job[g]) /\ ~Scenic(job[g]) /\ ~Scenic(job'[g])
               /\ Onward(job'[g], pending') /\ Fitting(job'[g], sessions')
    <3>1. Alike(job'[g], job[g]) /\ Shape(job[g]) /\ Onward(job[g], pending)
      BY <2>1, OthersTouched, TouchedAlike DEF OnlyTouched, TypeInv, CleanInv
    <3>2. ~Scenic(job[g])
      <4>1. CASE ~Playing
        BY <4>1, PlayingIsScenic
      <4>2. CASE Serve(h)
        BY <4>2, ServeBusy DEF CleanInv, Alone
      <4> QED
        BY <2>1, <4>1, <4>2
    <3>3. ~Scenic(job'[g]) /\ Onward(job'[g], pending')
      BY <3>1, <3>2 DEF Alike, Onward, Scenic, Working
    <3>4. Fitting(job'[g], sessions')
      BY <2>1, OthersFit
    <3> QED
      BY <3>1, <3>2, <3>3, <3>4
  <2>4. \A g \in Handlers : Onward(job'[g], pending') /\ Fitting(job'[g], sessions')
    BY <2>2, <2>3
  <2>5. ASSUME NEW g \in Handlers, Scenic(job'[g])
        PROVE  Alone(g)' /\ Played(job'[g], sessions')
    <3>1. g = h
      BY <2>3, <2>5
    <3>2. \A f \in Handlers \ {h} : IdleAt(f)'
      BY <2>2, <2>3, <2>5, <3>1 DEF IdleAt, Alike
    <3> QED
      BY <2>2, <3>1, <3>2 DEF Alone
  <2> QED
    BY <2>2, <2>4, <2>5 DEF CleanInv
<1>2. CASE UNCHANGED vars
  BY <1>2 DEF vars, console, CleanInv, Alone, IdleAt
<1> QED
  BY <1>1, <1>2

\* A bay that was reset or recycled leaves IDLE along an edge only, however
\* many threads held a target computed for the session that was replaced.
THEOREM ResetBaysAreClean == NoWayBack => (Spec => ResetIsClean)
<1> SUFFICES ASSUME NoWayBack PROVE Spec => ResetIsClean
  OBVIOUS
<1> DEFINE Inv == TypeInv /\ PendingPresent /\ CleanInv
<1>1. Init => CleanInv
  <2> SUFFICES ASSUME Init PROVE CleanInv
    OBVIOUS
  <2>1. \A h \in Handlers : job[h] = Idle("none", TRUE)
    BY DEF Init
  <2>2. pending \in Seq(ForwardEvents)
    BY DEF Init
  <2>3. \A queue, s : /\ Onward(Idle("none", TRUE), queue) /\ Fitting(Idle("none", TRUE), s)
                      /\ ~Scenic(Idle("none", TRUE))
    BY DEF Onward, Fitting, Scenic, Idle, Working
  <2> QED
    BY <2>1, <2>2, <2>3 DEF CleanInv
<1>2. CleanInv /\ TypeInv /\ PendingPresent /\ [Next]_vars => CleanInv'
  BY CleanStep
<1>3. TypeInv /\ CleanInv /\ [Next]_vars =>
        [\A b \in Bays :
           sessions[b] = StartState
             => \/ sessions'[b] \in {StartState, Absent, "FAULT_TERMINAL"}
                \/ \E a \in Alphabet : <<StartState, a, sessions'[b]>> \in Transitions]_vars
  <2> SUFFICES ASSUME TypeInv, CleanInv, NEW h \in Handlers, Request(h) \/ Serve(h),
                      NEW b \in Bays, sessions[b] = StartState
               PROVE  sessions'[b] \in {StartState, Absent, "FAULT_TERMINAL"}
                        \/ Edge(StartState, sessions'[b])
    BY DEF Next, Edge
  <2>1. StateType(sessions) /\ Fitting(job[h], sessions)
    BY DEF TypeInv, StateType, CleanInv
  <2>2. ASSUME NEW c, sessions' = Fresh(c) \/ sessions' = Registered(c) \/ UNCHANGED sessions
        PROVE  sessions'[b] = StartState
    BY <2>1, <2>2, StateNames DEF Fresh, Registered, CurrentState, StateType
  <2>3. ASSUME Trip(h) PROVE sessions'[b] \in {StartState, "FAULT_TERMINAL"}
    BY <2>1, <2>3 DEF Trip, StateType
  <2>4. ASSUME ResetAll(h) PROVE sessions'[b] = Absent
    BY <2>4 DEF ResetAll
  <2>5. ASSUME Commit(h) PROVE sessions'[b] = StartState \/ Edge(StartState, sessions'[b])
    BY <2>1, <2>5 DEF Commit, Fitting, FromStart, StateType
  <2>6. ASSUME NEW c, NEW a, NEW t,
               BayReset(h, c) \/ EmergencyStop(h, c) \/ AddEvent(h, c, a, t)
        PROVE  sessions'[b] = StartState
    BY <2>2, <2>6 DEF BayReset, EmergencyStop, AddEvent
  <2>7. CASE Request(h)
    BY <2>2, <2>4, <2>6, <2>7 DEF Request, Run, ReadBay, InjectFault, ExecuteScenario
  <2>8. CASE Serve(h)
    BY <2>2, <2>3, <2>5, <2>8 DEF Serve, LogTrip, Decide, ScheduleNext, SyncBay, SyncDone, LoopOn, LoopOver,
         Pop, PopEmpty, ReadSession, ReadMissing, Report
  <2> QED
    BY <2>7, <2>8
<1>4. Spec => []CleanInv
  <2>1. Spec => [](TypeInv /\ PendingPresent)
    <3>1. ConsoleInv => TypeInv /\ PendingPresent
      BY DEF ConsoleInv
    <3> QED
      BY <3>1, ConsoleInvHolds, PTL
  <2> QED
    BY <1>1, <1>2, <2>1, PTL DEF Spec
<1> QED
  BY <1>3, <1>4, ConsoleTyped, PTL DEF Spec, ResetIsClean

-----------------------------------------------------------------------------
\* The scripts: where their words lead, rejected symbols included.
Follows(q, a, r) == r = IF a \in Admissible(q) THEN Target(q, a) ELSE q

Course(c, q, word, r) ==
  /\ c \in Seq(States) /\ Len(c) = Len(word) + 1
  /\ c[1] = q /\ c[Len(word) + 1] = r
  /\ \A i \in 1..Len(word) : Follows(c[i], word[i], c[i + 1])

Leads(q, word, r) == \E c : Course(c, q, word, r)

LEMMA LeadsNowhere == \A q \in States : Leads(q, <<>>, q)
<1> SUFFICES ASSUME NEW q \in States PROVE Leads(q, <<>>, q)
  OBVIOUS
<1>1. Course(<<q>>, q, <<>>, q)
  BY DEF Course
<1> QED
  BY <1>1 DEF Leads

LEMMA LeadsOn ==
  ASSUME NEW q, NEW word \in Seq(Alphabet), NEW r, NEW a \in Alphabet, NEW s \in States,
         Leads(q, word, r), Follows(r, a, s)
  PROVE  Leads(q, Append(word, a), s)
<1>1. PICK c : Course(c, q, word, r)
  BY DEF Leads
<1> DEFINE d == Append(c, s)
           v == Append(word, a)
<1>2. c \in Seq(States) /\ Len(word) \in Nat /\ Len(c) = Len(word) + 1
  BY <1>1 DEF Course
<1>3. d \in Seq(States) /\ Len(d) = Len(v) + 1 /\ Len(v) = Len(word) + 1
  BY <1>2
<1>4. \A i \in 1..Len(word) + 1 : d[i] = c[i]
  BY <1>2
<1>5. d[Len(word) + 2] = s /\ v[Len(word) + 1] = a /\ \A i \in 1..Len(word) : v[i] = word[i]
  BY <1>2
<1> HIDE DEF d, v
<1>6. d[1] = q /\ d[Len(v) + 1] = s
  BY <1>1, <1>2, <1>3, <1>4, <1>5 DEF Course
<1>7. ASSUME NEW i \in 1..Len(v) PROVE Follows(d[i], v[i], d[i + 1])
  <2>1. CASE i \in 1..Len(word)
    <3>1. d[i] = c[i] /\ d[i + 1] = c[i + 1] /\ v[i] = word[i]
      BY <1>2, <1>4, <1>5, <2>1
    <3>2. Follows(c[i], word[i], c[i + 1])
      BY <1>1, <2>1 DEF Course
    <3> QED
      BY <3>1, <3>2
  <2>2. CASE i = Len(word) + 1
    <3>1. d[i] = r /\ v[i] = a /\ d[i + 1] = s
      BY <1>1, <1>2, <1>4, <1>5, <2>2 DEF Course
    <3> QED
      BY <3>1
  <2> QED
    BY <1>2, <1>3, <2>1, <2>2
<1>8. Course(d, q, v, s)
  BY <1>3, <1>6, <1>7 DEF Course
<1> QED
  BY <1>8 DEF Leads, v

LEMMA Concatenated ==
  ASSUME NEW S, NEW c \in Seq(S), NEW d \in Seq(S)
  PROVE  c \o d \in Seq(S) /\ Len(c \o d) = Len(c) + Len(d)
OBVIOUS

LEMMA LeadsThrough ==
  ASSUME NEW q, NEW u \in Seq(Alphabet), NEW r, NEW v \in Seq(Alphabet), NEW s,
         Leads(q, u, r), Leads(r, v, s)
  PROVE  Leads(q, u \o v, s)
<1>1. PICK c : Course(c, q, u, r)
  BY DEF Leads
<1>2. PICK d : Course(d, r, v, s)
  BY DEF Leads
<1> DEFINE w == u \o v
           e == c \o Tail(d)
           m == Len(u)
           n == Len(v)
<1>3. /\ c \in Seq(States) /\ m \in Nat /\ Len(c) = m + 1
      /\ d \in Seq(States) /\ n \in Nat /\ Len(d) = n + 1
  BY <1>1, <1>2 DEF Course
<1>4. Tail(d) \in Seq(States) /\ Len(Tail(d)) = n /\ \A i \in 1..n : Tail(d)[i] = d[i + 1]
  BY <1>3
<1>5. e \in Seq(States) /\ Len(e) = m + n + 1 /\ Len(w) = m + n
  <2>1. Len(w) = m + n
    OBVIOUS
  <2>2. e \in Seq(States) /\ Len(e) = Len(c) + Len(Tail(d))
    BY <1>3, <1>4, Concatenated
  <2> HIDE DEF m, n, e
  <2> QED
    BY <1>3, <1>4, <2>1, <2>2
<1>6. /\ \A i \in 1..m + 1 : e[i] = c[i]
      /\ \A i \in 1..n : e[m + 1 + i] = d[i + 1]
  BY <1>3, <1>4
<1>7. (\A i \in 1..m : w[i] = u[i]) /\ (\A i \in 1..n : w[m + i] = v[i])
  BY <1>3
<1>8. c[1] = q /\ c[m + 1] = r /\ d[1] = r /\ d[n + 1] = s
  BY <1>1, <1>2 DEF Course
<1> HIDE DEF e, w, m, n
<1>9. e[1] = q /\ e[m + n + 1] = s
  <2>1. n = 0 => r = s
    BY <1>8
  <2>2. n # 0 => e[m + 1 + n] = s
    BY <1>3, <1>6, <1>8
  <2> QED
    BY <1>3, <1>6, <1>8, <2>1, <2>2
<1>10. ASSUME NEW i \in 1..m + n PROVE Follows(e[i], w[i], e[i + 1])
  <2>1. CASE i \in 1..m
    <3>1. e[i] = c[i] /\ e[i + 1] = c[i + 1] /\ w[i] = u[i]
      BY <1>3, <1>6, <1>7, <2>1
    <3>2. Follows(c[i], u[i], c[i + 1])
      BY <1>1, <2>1 DEF Course, m
    <3> QED
      BY <3>1, <3>2
  <2>2. CASE i \notin 1..m
    <3>1. PICK k \in 1..n : i = m + k
      <4>1. i - m \in 1..n /\ i = m + (i - m)
        BY <1>3, <2>2
      <4> QED
        BY <4>1
    <3>2. w[i] = v[k] /\ e[i + 1] = d[k + 1]
      <4>1. i + 1 = m + 1 + k
        BY <1>3, <3>1
      <4> QED
        BY <1>6, <1>7, <3>1, <4>1
    <3>3. e[i] = d[k]
      <4>1. CASE k = 1
        <5>1. i = m + 1 /\ m + 1 \in 1..m + 1
          BY <1>3, <3>1, <4>1
        <5> QED
          BY <1>6, <1>8, <4>1, <5>1
      <4>2. CASE k # 1
        <5>1. k - 1 \in 1..n /\ i = m + 1 + (k - 1) /\ (k - 1) + 1 = k
          BY <1>3, <3>1, <4>2
        <5>2. e[m + 1 + (k - 1)] = d[(k - 1) + 1]
          BY <1>6, <5>1
        <5> QED
          BY <5>1, <5>2
      <4> QED
        BY <4>1, <4>2
    <3>4. Follows(d[k], v[k], d[k + 1])
      BY <1>2 DEF Course, n
    <3> QED
      BY <3>2, <3>3, <3>4
  <2> QED
    BY <2>1, <2>2
<1>11. Course(e, q, w, s)
  <2>1. m + n + 1 = Len(w) + 1 /\ 1..Len(w) = 1..m + n
    BY <1>5
  <2> QED
    BY <1>5, <1>9, <1>10, <2>1 DEF Course
<1> QED
  BY <1>11 DEF Leads, w

\* The edges the scripts take, and the symbols they are refused.
LEMMA ScriptSteps ==
  /\ Follows("IDLE", "reserve_req", "RESERVED") /\ Follows("IDLE", "auth_req", "AUTH_PENDING")
  /\ Follows("RESERVED", "auth_req", "AUTH_PENDING")
  /\ Follows("AUTH_PENDING", "auth_ok", "AUTHORIZED")
  /\ Follows("AUTHORIZED", "plug_in", "CABLE_DETECTED")
  /\ Follows("CABLE_DETECTED", "lock_ok", "EV_CONNECTED")
  /\ Follows("EV_CONNECTED", "ev_ready", "PRECHARGE")
  /\ Follows("PRECHARGE", "precharge_ok", "PRECHARGE")
  /\ Follows("PRECHARGE", "power_start", "CHARGING")
  /\ Follows("CHARGING", "power_ramp_down", "RAMP_DOWN")
  /\ Follows("RAMP_DOWN", "power_stop", "ISOLATING")
  /\ Follows("ISOLATING", "unplug", "UNPLUGGED")
  /\ Follows("UNPLUGGED", "meter_final", "BILLING_PENDING")
  /\ Follows("BILLING_PENDING", "pay_ok", "COMPLETED")
  /\ Follows("COMPLETED", "session_close", "COMPLETED")
  /\ Follows("ISOLATING", "session_close", "ISOLATING")
  /\ Follows("CHARGING", "unlock_req", "CHARGING")
  /\ Follows("CHARGING", "ev_stop", "SUSPENDED_EV")
  /\ Follows("CHARGING", "e_stop", "FAULT_TERMINAL")
  /\ Follows("CHARGING", "grid_curtail", "PAUSED_DISPATCH")
  /\ Follows("BILLING_PENDING", "pay_fail", "BILLING_PENDING")
  /\ Follows("UNPLUGGED", "session_close", "UNPLUGGED")
<1>1. ASSUME NEW q \in States, NEW a, NEW r,
             \A t \in Transitions : t[1] = q /\ t[2] = a => t[3] = r,
             <<q, a, r>> \in Transitions
      PROVE  Follows(q, a, r)
  <2>1. a \in Admissible(q)
    <3>1. <<q, a, r>>[1] = q /\ <<q, a, r>>[2] = a
      OBVIOUS
    <3> QED
      BY <1>1, <3>1 DEF Admissible
  <2>2. <<q, a, Target(q, a)>> \in Transitions
    BY <2>1, TargetLeads
  <2>3. <<q, a, Target(q, a)>>[1] = q /\ <<q, a, Target(q, a)>>[2] = a
        /\ <<q, a, Target(q, a)>>[3] = Target(q, a)
    OBVIOUS
  <2>4. Target(q, a) = r
    BY <1>1, <2>2, <2>3
  <2> QED
    BY <2>1, <2>4 DEF Follows
<1>2. ASSUME NEW q, NEW a, \A t \in Transitions : ~(t[1] = q /\ t[2] = a)
      PROVE  Follows(q, a, q)
  BY <1>2 DEF Follows, Admissible
<1>3. {"IDLE", "RESERVED", "AUTH_PENDING", "AUTHORIZED", "CABLE_DETECTED", "EV_CONNECTED",
       "PRECHARGE", "CHARGING", "RAMP_DOWN", "ISOLATING", "UNPLUGGED", "BILLING_PENDING",
       "COMPLETED"} \subseteq States
  BY DEF States
<1> DEFINE Only(q, a, r) == /\ <<q, a, r>> \in Transitions
                            /\ \A t \in Transitions : t[1] = q /\ t[2] = a => t[3] = r
           Never(q, a) == \A t \in Transitions : ~(t[1] = q /\ t[2] = a)
<1>4. /\ Only("IDLE", "reserve_req", "RESERVED") /\ Only("IDLE", "auth_req", "AUTH_PENDING")
      /\ Only("RESERVED", "auth_req", "AUTH_PENDING")
      /\ Only("AUTH_PENDING", "auth_ok", "AUTHORIZED")
      /\ Only("AUTHORIZED", "plug_in", "CABLE_DETECTED")
      /\ Only("CABLE_DETECTED", "lock_ok", "EV_CONNECTED")
      /\ Only("EV_CONNECTED", "ev_ready", "PRECHARGE")
  BY DEF Transitions, EntryEdges, CableEdges, EnergyEdges, SuspensionEdges, ReleaseEdges,
         SettlementEdges
<1>5. /\ Only("PRECHARGE", "precharge_ok", "PRECHARGE")
      /\ Only("PRECHARGE", "power_start", "CHARGING")
      /\ Only("CHARGING", "power_ramp_down", "RAMP_DOWN")
      /\ Only("RAMP_DOWN", "power_stop", "ISOLATING")
      /\ Only("ISOLATING", "unplug", "UNPLUGGED")
      /\ Only("UNPLUGGED", "meter_final", "BILLING_PENDING")
  BY DEF Transitions, EntryEdges, CableEdges, EnergyEdges, SuspensionEdges, ReleaseEdges,
         SettlementEdges
<1>6. /\ Only("BILLING_PENDING", "pay_ok", "COMPLETED")
      /\ Only("COMPLETED", "session_close", "COMPLETED")
      /\ Only("CHARGING", "ev_stop", "SUSPENDED_EV")
      /\ Only("CHARGING", "e_stop", "FAULT_TERMINAL")
      /\ Only("CHARGING", "grid_curtail", "PAUSED_DISPATCH")
      /\ Only("BILLING_PENDING", "pay_fail", "BILLING_PENDING")
  BY DEF Transitions, EntryEdges, CableEdges, EnergyEdges, SuspensionEdges, ReleaseEdges,
         SettlementEdges
<1>7. /\ Never("ISOLATING", "session_close") /\ Never("CHARGING", "unlock_req")
      /\ Never("UNPLUGGED", "session_close")
  BY DEF Transitions, EntryEdges, CableEdges, EnergyEdges, SuspensionEdges, ReleaseEdges,
         SettlementEdges
<1>8. \A q \in States : \A a, r : Only(q, a, r) => Follows(q, a, r)
  BY <1>1
<1>9. \A q, a : Never(q, a) => Follows(q, a, q)
  BY <1>2
<1> HIDE DEF Only, Never
<1> QED
  BY <1>3, <1>4, <1>5, <1>6, <1>7, <1>8, <1>9

\* In every script: from IDLE its word leads to the state that is declared.
LEMMA ScriptLeads ==
  ASSUME NEW id \in ScenarioIds
  PROVE  Leads(StartState, Script(id).word, Script(id).shows)
<1> DEFINE Steps == {"reserve_req", "auth_req", "auth_ok", "plug_in", "lock_ok", "ev_ready",
                     "precharge_ok", "power_start", "power_ramp_down", "power_stop", "unplug",
                     "meter_final", "pay_ok", "session_close", "unlock_req", "ev_stop", "e_stop",
                     "grid_curtail", "pay_fail"}
<1>1. Steps \subseteq Alphabet
  BY DEF Alphabet, PhysicalSymbols, PowerSymbols, AuthSymbols, TelemetrySymbols, AdminSymbols
<1>2. {"IDLE", "RESERVED", "AUTH_PENDING", "AUTHORIZED", "CABLE_DETECTED", "EV_CONNECTED",
       "PRECHARGE", "CHARGING", "RAMP_DOWN", "ISOLATING", "UNPLUGGED", "BILLING_PENDING",
       "COMPLETED", "SUSPENDED_EV", "FAULT_TERMINAL", "PAUSED_DISPATCH"} \subseteq States
  BY DEF States
<1> HIDE DEF Alphabet, States
<1>3. ASSUME NEW q \in States, NEW a \in Alphabet, NEW r \in States, Follows(q, a, r)
      PROVE  <<a>> \in Seq(Alphabet) /\ Leads(q, <<a>>, r)
  <2>1. <<>> \in Seq(Alphabet) /\ Append(<<>>, a) = <<a>>
    OBVIOUS
  <2>2. Leads(q, Append(<<>>, a), r)
    BY <1>3, <2>1, LeadsNowhere, LeadsOn
  <2> QED
    BY <2>1, <2>2
<1>4. ASSUME NEW q \in States, NEW a \in Alphabet, NEW r \in States, Follows(q, a, r),
             NEW b \in Alphabet, NEW s \in States, Follows(r, b, s)
      PROVE  <<a, b>> \in Seq(Alphabet) /\ Leads(q, <<a, b>>, s)
  <2>1. <<a, b>> = Append(<<a>>, b) /\ <<a, b>> \in Seq(Alphabet)
    OBVIOUS
  <2>2. <<a>> \in Seq(Alphabet) /\ Leads(q, <<a>>, r)
    BY <1>3, <1>4
  <2>3. Leads(q, Append(<<a>>, b), s)
    BY <1>4, <2>2, LeadsOn
  <2> QED
    BY <2>1, <2>3
<1>5. ASSUME NEW q \in States, NEW a \in Alphabet, NEW r \in States, Follows(q, a, r),
             NEW b \in Alphabet, NEW s \in States, Follows(r, b, s),
             NEW c \in Alphabet, NEW t \in States, Follows(s, c, t)
      PROVE  <<a, b, c>> \in Seq(Alphabet) /\ Leads(q, <<a, b, c>>, t)
  <2>1. <<a, b, c>> = Append(<<a, b>>, c) /\ <<a, b, c>> \in Seq(Alphabet)
    OBVIOUS
  <2>2. <<a, b>> \in Seq(Alphabet) /\ Leads(q, <<a, b>>, s)
    BY <1>4, <1>5
  <2>3. Leads(q, Append(<<a, b>>, c), t)
    BY <1>5, <2>2, LeadsOn
  <2> QED
    BY <2>1, <2>3
<1>6. /\ Arrival \in Seq(Alphabet) /\ Leads("IDLE", Arrival, "CHARGING")
      /\ Leads("RESERVED", Arrival, "CHARGING")
  <2> DEFINE first == <<"auth_req", "auth_ok", "plug_in">>
             second == <<"lock_ok", "ev_ready", "precharge_ok">>
             third == <<"power_start">>
  <2>1. first \in Seq(Alphabet) /\ second \in Seq(Alphabet) /\ third \in Seq(Alphabet)
    BY <1>1
  <2>2. Arrival = (first \o second) \o third /\ first \o second \in Seq(Alphabet)
    BY <2>1 DEF Arrival
  <2>3. Leads("IDLE", first, "CABLE_DETECTED") /\ Leads("RESERVED", first, "CABLE_DETECTED")
    BY <1>1, <1>2, <1>5, ScriptSteps
  <2>4. Leads("CABLE_DETECTED", second, "PRECHARGE") /\ Leads("PRECHARGE", third, "CHARGING")
    BY <1>1, <1>2, <1>3, <1>5, ScriptSteps
  <2> HIDE DEF first, second, third
  <2>5. \A q \in {"IDLE", "RESERVED"} : Leads(q, first \o second, "PRECHARGE")
    BY <2>1, <2>3, <2>4, LeadsThrough
  <2>6. \A q \in {"IDLE", "RESERVED"} : Leads(q, (first \o second) \o third, "CHARGING")
    BY <2>1, <2>2, <2>4, <2>5, LeadsThrough
  <2> QED
    BY <2>1, <2>2, <2>6
<1>7. Departure \in Seq(Alphabet) /\ Leads("CHARGING", Departure, "UNPLUGGED")
  BY <1>1, <1>2, <1>5, ScriptSteps DEF Departure
<1> HIDE DEF Arrival, Departure
<1>8. Arrival \o Departure \in Seq(Alphabet) /\ Leads("IDLE", Arrival \o Departure, "UNPLUGGED")
  BY <1>6, <1>7, LeadsThrough
<1>9. CanonicalTrace \in Seq(Alphabet) /\ Leads("IDLE", CanonicalTrace, "COMPLETED")
  <2> DEFINE last == <<"meter_final", "pay_ok", "session_close">>
             booked == <<"reserve_req">> \o Arrival
             charged == booked \o Departure
  <2>1. last \in Seq(Alphabet) /\ Leads("UNPLUGGED", last, "COMPLETED")
    BY <1>1, <1>2, <1>5, ScriptSteps
  <2>2. <<"reserve_req">> \in Seq(Alphabet) /\ Leads("IDLE", <<"reserve_req">>, "RESERVED")
    BY <1>1, <1>2, <1>3, ScriptSteps
  <2>3. booked \in Seq(Alphabet) /\ Leads("IDLE", booked, "CHARGING")
    BY <1>6, <2>2, LeadsThrough
  <2>4. CanonicalTrace = charged \o last
    BY <1>6, <1>7, <2>1 DEF CanonicalTrace
  <2> HIDE DEF last, booked
  <2>5. charged \in Seq(Alphabet) /\ Leads("IDLE", charged, "UNPLUGGED")
    BY <1>7, <2>3, LeadsThrough
  <2> HIDE DEF charged
  <2>6. charged \o last \in Seq(Alphabet) /\ Leads("IDLE", charged \o last, "COMPLETED")
    BY <2>1, <2>5, LeadsThrough
  <2> QED
    BY <2>4, <2>6
<1> SUFFICES Leads("IDLE", Script(id).word, Script(id).shows)
  BY DEF StartState
<1>10. CASE id \in {"D1", "D9", "D10", "D11", "D12", "D13"}
  <2>1. Leads("IDLE", <<>>, "IDLE")
    BY <1>2, LeadsNowhere
  <2> QED
    BY <1>6, <1>9, <1>10, <2>1 DEF Script, FleetScript
<1>11. CASE id = "D2"
  <2> DEFINE rest == <<"power_ramp_down", "power_stop", "session_close">>
  <2>1. rest \in Seq(Alphabet) /\ Leads("CHARGING", rest, "ISOLATING")
    BY <1>1, <1>2, <1>5, ScriptSteps
  <2>2. Script(id).word = Arrival \o rest /\ Script(id).shows = "ISOLATING"
    BY <1>11 DEF Script, SessionScript
  <2> HIDE DEF rest
  <2> QED
    BY <1>6, <2>1, <2>2, LeadsThrough
<1>12. CASE id \in {"D3", "D4", "D5", "D7"}
  <2>1. /\ Leads("IDLE", Append(Arrival, "unlock_req"), "CHARGING")
        /\ Leads("IDLE", Append(Arrival, "ev_stop"), "SUSPENDED_EV")
        /\ Leads("IDLE", Append(Arrival, "e_stop"), "FAULT_TERMINAL")
        /\ Leads("IDLE", Append(Arrival, "grid_curtail"), "PAUSED_DISPATCH")
    <3>1. ASSUME NEW a \in Alphabet, NEW s \in States, Follows("CHARGING", a, s)
          PROVE  Leads("IDLE", Append(Arrival, a), s)
      BY <1>6, <3>1, LeadsOn
    <3> QED
      BY <1>1, <1>2, <3>1, ScriptSteps
  <2> QED
    BY <1>12, <2>1 DEF Script, SessionScript
<1>13. CASE id \in {"D6", "D8"}
  <2> DEFINE tail6 == <<"meter_final", "pay_fail">>
             tail8 == <<"session_close">>
  <2>1. /\ tail6 \in Seq(Alphabet) /\ Leads("UNPLUGGED", tail6, "BILLING_PENDING")
        /\ tail8 \in Seq(Alphabet) /\ Leads("UNPLUGGED", tail8, "UNPLUGGED")
    BY <1>1, <1>2, <1>3, <1>4, ScriptSteps
  <2>2. /\ id = "D6" => Script(id).word = (Arrival \o Departure) \o tail6
                           /\ Script(id).shows = "BILLING_PENDING"
        /\ id = "D8" => Script(id).word = (Arrival \o Departure) \o tail8
                           /\ Script(id).shows = "UNPLUGGED"
    BY <1>6, <1>7, <2>1 DEF Script, SessionScript
  <2> HIDE DEF tail6, tail8
  <2>3. /\ Leads("IDLE", (Arrival \o Departure) \o tail6, "BILLING_PENDING")
        /\ Leads("IDLE", (Arrival \o Departure) \o tail8, "UNPLUGGED")
    <3> DEFINE word == Arrival \o Departure
    <3>1. word \in Seq(Alphabet) /\ Leads("IDLE", word, "UNPLUGGED")
      BY <1>8
    <3> HIDE DEF word
    <3>2. Leads("IDLE", word \o tail6, "BILLING_PENDING") /\ Leads("IDLE", word \o tail8, "UNPLUGGED")
      BY <2>1, <3>1, LeadsThrough
    <3> QED
      BY <3>2 DEF word
  <2>4. CASE id = "D6"
    BY <2>2, <2>3, <2>4
  <2>5. CASE id = "D8"
    BY <2>2, <2>3, <2>5
  <2> QED
    BY <1>13, <2>4, <2>5
<1> QED
  BY <1>10, <1>11, <1>12, <1>13 DEF ScenarioIds

-----------------------------------------------------------------------------
\* Answers.  What is scheduled comes behind all that is pending if nothing is
\* planned for later.
DueEvents(t) == {e \in EventSet : e.time = t}

LEMMA NothingLaterDue == TypeInv /\ NothingLater => pending \in Seq(DueEvents(now))
<1> SUFFICES ASSUME TypeInv, NothingLater PROVE pending \in Seq(DueEvents(now))
  OBVIOUS
<1>1. /\ Len(pending) \in Nat /\ DOMAIN pending = 1..Len(pending) /\ pending \in Seq(EventSet)
      /\ \A i \in 1..Len(pending) : pending[i] \in EventSet
  BY DEF TypeInv
<1>2. \A i \in 1..Len(pending) : pending[i] \in DueEvents(now)
  BY <1>1 DEF NothingLater, DueEvents
<1> HIDE DEF DueEvents
<1> QED
  BY <1>1, <1>2

LEMMA EnqueueDue ==
  ASSUME NEW t \in Nat, pending \in Seq(DueEvents(t)), NEW events \in Seq(DueEvents(t))
  PROVE  Enqueue(t, events) = pending \o events
<1>1. Len(pending) \in Nat /\ DOMAIN pending = 1..Len(pending)
  OBVIOUS
<1>2. {i \in DOMAIN pending : pending[i].time <= t} = 1..Len(pending)
  <2>1. \A i \in 1..Len(pending) : pending[i].time = t
    BY DEF DueEvents
  <2> QED
    BY <1>1, <2>1
<1>3. Cardinality({i \in DOMAIN pending : pending[i].time <= t}) = Len(pending)
  <2>1. \A m \in Nat : Cardinality(1..m) = m
    BY FS_Interval
  <2> QED
    BY <1>1, <1>2, <2>1
<1>4. SubSeq(pending, 1, Len(pending)) = pending
  BY <1>1
<1>5. SubSeq(pending, Len(pending) + 1, Len(pending)) = <<>>
  BY <1>1
<1>6. Enqueue(t, events) = (pending \o events) \o <<>>
  BY <1>3, <1>4, <1>5 DEF Enqueue, EnqueueBehind
<1> HIDE DEF DueEvents
<1> QED
  BY <1>6

\* An action that is alone: nothing is planned for later than what it schedules.
Timely(j, queue, t) ==
  j.at \in Working /\ j.kind = "action" /\ j.alone =>
    queue \in Seq(DueEvents(t)) /\ (j.at = "read" => j.event.time = t)

LEMMA RequestTimely ==
  ASSUME TypeInv, NEW h \in Handlers, Request(h)
  PROVE  Timely(job'[h], pending', now')
<1>0. h \in DOMAIN job
  BY DEF TypeInv
<1>1. \A b, todo : DOMAIN Busy(b, todo) = BusyFields
  BY DEF Busy, BusyFields
<1>2. \A queue, t : Timely(Idle("none", TRUE), queue, t)
  BY DEF Timely, Idle, Working
<1>3. ASSUME NEW b, NEW a, InjectFault(h, b, a) PROVE Timely(job'[h], pending', now')
  <2>1. /\ job'[h].at = "schedule" /\ (job'[h].alone => NothingLater)
        /\ pending' = pending /\ now' = now
    BY <1>0, <1>3 DEF InjectFault, Busy
  <2> QED
    BY <2>1, NothingLaterDue DEF Timely
<1>4. ASSUME NEW b, Run(h, b) PROVE Timely(job'[h], pending', now')
  <2>1. job'[h].kind = "run"
    BY <1>0, <1>1, <1>4 DEF Run, BusyFields
  <2> QED
    BY <2>1 DEF Timely
<1>5. ASSUME NEW id, ExecuteScenario(h, id) PROVE Timely(job'[h], pending', now')
  <2>1. job'[h].kind = "scenario"
    BY <1>0, <1>1, <1>5 DEF ExecuteScenario, BusyFields
  <2> QED
    BY <2>1 DEF Timely
<1>6. ASSUME job'[h].at \in {"decide", "trip"} PROVE Timely(job'[h], pending', now')
  BY <1>6 DEF Timely, Working
<1>7. ASSUME NEW b, NEW a, ReadBay(h, b, a) PROVE Timely(job'[h], pending', now')
  BY <1>0, <1>6, <1>7 DEF ReadBay
<1>8. ASSUME NEW b, EmergencyStop(h, b) PROVE Timely(job'[h], pending', now')
  BY <1>0, <1>6, <1>8 DEF EmergencyStop
<1>9. ASSUME NEW b, BayReset(h, b) PROVE Timely(job'[h], pending', now')
  BY <1>0, <1>2, <1>9 DEF BayReset
<1>10. ASSUME NEW b, NEW a, NEW t, AddEvent(h, b, a, t) PROVE Timely(job'[h], pending', now')
  BY <1>0, <1>2, <1>10 DEF AddEvent
<1>11. CASE ResetAll(h)
  <2>1. job'[h] = Idle("none", TRUE)
    BY <1>11 DEF ResetAll
  <2> QED
    BY <1>2, <2>1
<1> QED
  BY <1>3, <1>4, <1>5, <1>7, <1>8, <1>9, <1>10, <1>11 DEF Request

LEMMA ServeTimely ==
  ASSUME TypeInv, NEW h \in Handlers, Serve(h), Timely(job[h], pending, now)
  PROVE  Timely(job'[h], pending', now')
<1> DEFINE j == job[h]
           k == job'[h]
<1>0. h \in DOMAIN job /\ Shape(j) /\ now \in Nat
  BY DEF TypeInv
<1>1. j.at \in Working => DOMAIN j = BusyFields /\ Serving(j)
  BY <1>0 DEF Shape, Working
<1>2. \A b, todo : Busy(b, todo).at = "schedule" /\ Busy(b, todo).alone = NothingLater
  BY DEF Busy
<1>3. \A answered, honest : Finish(h, Idle(answered, honest))[h] = Idle(answered, honest)
  BY FinishTouched
<1>4. \A answered, honest, queue, t : Timely(Idle(answered, honest), queue, t)
  BY DEF Timely, Idle, Working
<1> SUFFICES Timely(k, pending', now')
  OBVIOUS
<1>5. ASSUME j.at \in Working, k.at \in Working, k.kind = j.kind, k.alone = j.alone,
             k.at # "read", UNCHANGED <<pending, now>>
      PROVE  Timely(k, pending', now')
  BY <1>5 DEF Timely
<1>6. CASE Decide(h)
  <2>1. \E b, todo : k = Busy(b, todo)
    BY <1>0, <1>6 DEF Decide
  <2>2. k.at = "schedule" /\ (k.alone => NothingLater)
    BY <1>2, <2>1
  <2>3. UNCHANGED <<pending, now>>
    BY <1>6 DEF Decide
  <2> HIDE DEF k
  <2> QED
    BY <2>2, <2>3, NothingLaterDue DEF Timely
<1>7. CASE ScheduleNext(h)
  <2> DEFINE e == Event(now, j.bay, Head(j.todo), h)
  <2>1. /\ j.at = "schedule" /\ j.at \in Working /\ DOMAIN j = BusyFields /\ j.bay \in Bays
        /\ Head(j.todo) \in Symbols
    BY <1>1, <1>7 DEF ScheduleNext, Working, Serving
  <2>2. k.at = "loop" /\ k.kind = j.kind /\ k.alone = j.alone
    BY <1>0, <1>7, <2>1 DEF ScheduleNext, BusyFields
  <2>3. <<e>> \in Seq(DueEvents(now))
    <3>1. e \in DueEvents(now)
      BY <1>0, <2>1 DEF Event, DueEvents, EventSet, Owners
    <3> QED
      BY <3>1
  <2>4. pending \in Seq(DueEvents(now)) => pending' \in Seq(DueEvents(now))
    BY <1>7, <2>3, EnqueueType DEF ScheduleNext
  <2>5. now' = now
    BY <1>7 DEF ScheduleNext
  <2> HIDE DEF j, k
  <2> QED
    BY <2>1, <2>2, <2>4, <2>5 DEF Timely, j
<1>8. CASE SyncBay(h)
  <2>1. k.kind = "scenario"
    BY <1>1, <1>8 DEF SyncBay, Working, Serving, BusyFields
  <2> QED
    BY <2>1 DEF Timely
<1>9. CASE LoopOn(h) \/ LoopOver(h)
  <2>1. /\ j.at \in Working /\ k.at \in {"pop", "report"} /\ k.kind = j.kind
        /\ k.alone = j.alone /\ UNCHANGED <<pending, now>>
    BY <1>0, <1>1, <1>9 DEF LoopOn, LoopOver, Working, BusyFields
  <2> QED
    BY <1>5, <2>1 DEF Working
<1>10. CASE Pop(h)
  <2>1. /\ j.at \in Working /\ k.kind = j.kind /\ k.alone = j.alone
        /\ k.event = Head(pending) /\ pending # <<>> /\ pending' = Tail(pending) /\ now' = now
    BY <1>0, <1>1, <1>10 DEF Pop, Popped, Working, BusyFields
  <2>2. pending \in Seq(DueEvents(now)) =>
          Head(pending) \in DueEvents(now) /\ Tail(pending) \in Seq(DueEvents(now))
    BY <2>1
  <2>3. \A e \in DueEvents(now) : e.time = now
    BY DEF DueEvents
  <2> HIDE DEF j, k, DueEvents
  <2> QED
    BY <2>1, <2>2, <2>3 DEF Timely, j
<1>11. CASE PopEmpty(h) \/ ReadMissing(h)
  <2>1. k = Idle("error", TRUE)
    BY <1>3, <1>11 DEF PopEmpty, ReadMissing
  <2> QED
    BY <1>4, <2>1
<1>12. CASE ReadSession(h)
  <2>1. /\ j.at = "read" /\ j.at \in Working /\ k.at = "commit" /\ k.kind = j.kind
        /\ k.alone = j.alone /\ pending' = pending /\ now' = j.event.time
    BY <1>0, <1>1, <1>12 DEF ReadSession, Working, BusyFields
  <2> HIDE DEF j, k
  <2> QED
    BY <2>1 DEF Timely, j
<1>13. CASE Commit(h)
  <2>1. j.at = "commit" /\ DOMAIN j = BusyFields /\ UNCHANGED <<pending, now>>
    BY <1>1, <1>13 DEF Commit, Working
  <2>2. \/ k = [j EXCEPT !.at = "loop"]
        \/ k = [[j EXCEPT !.at = "loop"] EXCEPT !.owing = @ - 1]
    BY <1>13 DEF Commit
  <2>3. k.at = "loop" /\ k.kind = j.kind /\ k.alone = j.alone
    BY <2>1, <2>2 DEF BusyFields
  <2> QED
    BY <1>5, <2>1, <2>3 DEF Working
<1>14. CASE Report(h)
  <2>1. j.at = "report" /\ DOMAIN j = BusyFields /\ UNCHANGED <<pending, now>>
    BY <1>1, <1>14 DEF Report, Working
  <2>2. \/ job' = [job EXCEPT ![h].at = "schedule"]
        \/ job' = Finish(h, Idle("none", TRUE))
        \/ \E honest : job' = Finish(h, Idle("accepted", honest))
        \/ \E honest : job' = Finish(h, Idle("rejected", honest))
    BY <1>14 DEF Report
  <2>3. CASE job' = [job EXCEPT ![h].at = "schedule"]
    <3>1. k.at = "schedule" /\ k.kind = j.kind /\ k.alone = j.alone
      BY <1>0, <2>1, <2>3 DEF BusyFields
    <3> QED
      BY <1>5, <2>1, <3>1 DEF Working
  <2>4. CASE \E answered, honest : job' = Finish(h, Idle(answered, honest))
    <3>1. \E answered, honest : k = Idle(answered, honest)
      BY <1>3, <2>4
    <3> QED
      BY <1>4, <3>1
  <2> QED
    BY <2>2, <2>3, <2>4
<1>15. CASE SyncDone(h)
  <2>1. j.kind = "scenario" /\ DOMAIN j = BusyFields
    BY <1>1, <1>15 DEF SyncDone, Working
  <2>2. CASE j.bays # <<>>
    <3>1. k.kind = "scenario"
      BY <1>0, <1>15, <2>1, <2>2 DEF SyncDone, BusyFields
    <3> QED
      BY <3>1 DEF Timely
  <2>3. CASE j.bays = <<>>
    <3>1. \E honest : k = Idle("shown", honest)
      BY <1>3, <1>15, <2>3 DEF SyncDone
    <3> QED
      BY <1>4, <3>1
  <2> QED
    BY <2>2, <2>3
<1>16. CASE Trip(h) \/ LogTrip(h)
  <2>1. k.at \in {"log", "idle"}
    BY <1>0, <1>16 DEF Trip, LogTrip, Shape, Working, Idle
  <2> QED
    BY <2>1 DEF Timely, Working
<1> QED
  BY <1>6, <1>7, <1>8, <1>9, <1>10, <1>11, <1>12, <1>13, <1>14, <1>15, <1>16 DEF Serve

\* Events nobody waits for, as a request finds them; and behind them the one
\* its own handler waits for.
Nobodys(queue) == \A i \in DOMAIN queue : queue[i].owner = "nobody"

LastIs(queue, h) ==
  /\ queue # <<>> /\ queue[Len(queue)].owner = h
  /\ \A i \in 1..Len(queue) - 1 : queue[i].owner = "nobody"

\* The last event of the log is the handler's own.
Told(j, queue, log) ==
  queue = <<>> /\ j.owing \in {0, 1} /\ log = {[accepted |-> j.owing = 0]}

Acting(j, h, queue, log) ==
  /\ j.at = "schedule" => j.owing = 0
  /\ j.at \in {"loop", "pop"} => (LastIs(queue, h) /\ j.owing = 1) \/ Told(j, queue, log)
  /\ j.at \in {"read", "commit"} =>
       /\ j.owing = 1
       /\ \/ j.event.owner = "nobody" /\ LastIs(queue, h)
          \/ j.event.owner = h /\ queue = <<>>
  /\ j.at = "report" => Told(j, queue, log)

Running(j, queue) ==
  Nobodys(queue) /\ (j.at \in {"read", "commit"} => j.event.owner = "nobody")

\* A scenario that found the queue empty: how far it has come in its word, with
\* which state of its bay, and with which bays behind it.
CourseOf(id) == CHOOSE c : Course(c, StartState, Script(id).word, Script(id).shows)

BaysLeft == {<<"v1", "v2", "v3">>, <<"v2", "v3">>, <<"v3">>, <<"v1">>, <<>>}

Showing(j, queue, s) ==
  LET w == Script(j.script).word
      c == CourseOf(j.script)
      n == Len(w) - Len(queue)
  IN  /\ j.at \in {"loop", "pop", "read", "commit"} =>
           /\ Len(queue) <= Len(w)
           /\ \A i \in 1..Len(queue) : queue[i].bay = j.bay /\ queue[i].symbol = w[n + i]
      /\ j.at \in {"loop", "pop"} => s[j.bay] = c[n + 1]
      /\ j.at \in {"read", "commit"} =>
           /\ n \in 1..Len(w) /\ j.event.bay = j.bay /\ j.event.symbol = w[n]
           /\ s[j.bay] = c[n]
      /\ j.at = "commit" => c[n + 1] = IF j.target = Absent THEN s[j.bay] ELSE j.target
      /\ j.at = "report" => s[j.bay] = Script(j.script).shows
      /\ j.at \in {"sync", "report"} => queue = <<>>
      /\ j.bays \in BaysLeft
      /\ \A b \in Range(ScenarioBays(j.script)) \ Range(j.bays) :
           s[b] = Script(j.script).shows \/ (b = j.bay /\ j.at # "sync")

Truthful(j, h, queue, log, s) ==
  /\ j.at = "idle" => j.honest /\ Nobodys(queue)
  /\ j.at \in {"decide", "trip", "log"} => Nobodys(queue)
  /\ j.at \in Working /\ j.kind = "action" =>
       /\ j.at = "schedule" => Nobodys(queue)
       /\ j.at = "report" => queue = <<>>
       /\ j.alone => Acting(j, h, queue, log)
  /\ j.at \in Working /\ j.kind = "run" => Running(j, queue)
  /\ Scenic(j) => (j.alone => Showing(j, queue, s)) /\ (j.at = "report" => queue = <<>>)

AnswerInv ==
  ~overlap =>
    /\ \A h \in Handlers : IdleAt(h) => job[h].honest
    /\ (\A h \in Handlers : IdleAt(h)) => Nobodys(pending)
    /\ \A h \in Handlers : ~IdleAt(h) => /\ Truthful(job[h], h, pending, latest, sessions)
                                        /\ Timely(job[h], pending, now)

LEMMA ScenarioCourse ==
  ASSUME NEW id \in Scenarios
  PROVE  /\ Course(CourseOf(id), StartState, Script(id).word, Script(id).shows)
         /\ Script(id).word \in Seq(Alphabet) /\ ScenarioBays(id) \in BaysLeft
<1>1. id \in ScenarioIds
  BY ScenarioBaysType
<1> QED
  BY <1>1, ScriptLeads, ScriptType DEF Leads, CourseOf, ScenarioBays, BaysLeft

\* Where an event of nobody's enters such a queue does not matter.
LEMMA NobodysEnqueue ==
  ASSUME pending \in Seq(EventSet), Nobodys(pending), NEW e \in EventSet, e.owner = "nobody", NEW t
  PROVE  Nobodys(Enqueue(t, <<e>>))
<1> DEFINE K == {x \in EventSet : x.owner = "nobody"}
<1>1. pending \in Seq(K)
  <2>1. /\ Len(pending) \in Nat /\ DOMAIN pending = 1..Len(pending)
        /\ \A i \in 1..Len(pending) : pending[i] \in K
    BY DEF Nobodys
  <2> HIDE DEF K
  <2> QED
    BY <2>1
<1>2. <<e>> \in Seq(K)
  OBVIOUS
<1>3. Enqueue(t, <<e>>) \in Seq(K)
  <2> HIDE DEF K
  <2> QED
    BY <1>1, <1>2, EnqueueType
<1>4. \A s \in Seq(K) : \A i \in DOMAIN s : s[i] \in K
  OBVIOUS
<1> QED
  BY <1>3, <1>4 DEF Nobodys

LEMMA RequestTruthful ==
  ASSUME TypeInv, Nobodys(pending), NEW h \in Handlers, Request(h)
  PROVE  Truthful(job'[h], h, pending', latest', sessions')
<1> DEFINE Good == Truthful(job'[h], h, pending', latest', sessions')
<1> SUFFICES Good
  OBVIOUS
<1>0. h \in DOMAIN job /\ pending \in Seq(EventSet)
  BY DEF TypeInv
<1>1. ASSUME job'[h] = Idle("none", TRUE), Nobodys(pending') PROVE Good
  BY <1>1 DEF Truthful, Idle, Scenic, Working
<1>2. \A b, todo : /\ Busy(b, todo).at = "schedule" /\ DOMAIN Busy(b, todo) = BusyFields
                   /\ Busy(b, todo).kind = "action" /\ Busy(b, todo).owing = 0
  BY DEF Busy, BusyFields
<1>3. CASE ResetAll(h)
  <2>1. job'[h] = Idle("none", TRUE) /\ pending' = <<>>
    BY <1>3 DEF ResetAll
  <2>2. Nobodys(<<>>)
    BY DEF Nobodys
  <2> QED
    BY <1>1, <2>1, <2>2
<1>4. ASSUME NEW b, BayReset(h, b) PROVE Good
  <2>1. job'[h] = Idle("none", TRUE) /\ pending' = pending
    BY <1>0, <1>4 DEF BayReset
  <2> QED
    BY <1>1, <2>1
<1>5. ASSUME NEW b \in Bays, NEW a \in Posted, NEW t \in Times, AddEvent(h, b, a, t) PROVE Good
  <2> DEFINE e == Event(t, b, a, "nobody")
  <2>1. e \in EventSet /\ e.owner = "nobody" /\ job'[h] = Idle("none", TRUE)
    BY <1>0, <1>5, ConsoleAssumption DEF Event, EventSet, Times, Symbols, Owners, AddEvent
  <2>2. Nobodys(Enqueue(t, <<e>>))
    <3> HIDE DEF e
    <3> QED
      BY <1>0, <2>1, NobodysEnqueue
  <2>3. pending' = Enqueue(t, <<e>>) \/ pending' = pending
    BY <1>5 DEF AddEvent
  <2> QED
    BY <1>1, <2>1, <2>2, <2>3
<1>6. ASSUME NEW b, NEW a, ReadBay(h, b, a) \/ EmergencyStop(h, b) PROVE Good
  <2>1. job'[h].at \in {"decide", "trip"} /\ pending' = pending
    BY <1>0, <1>6 DEF ReadBay, EmergencyStop
  <2> QED
    BY <2>1 DEF Truthful, Scenic, Working
<1>7. ASSUME NEW b, NEW a, InjectFault(h, b, a) PROVE Good
  <2>1. /\ job'[h].at = "schedule" /\ job'[h].kind = "action" /\ job'[h].owing = 0
        /\ pending' = pending
    BY <1>0, <1>2, <1>7 DEF InjectFault
  <2> QED
    BY <2>1 DEF Truthful, Acting, Scenic, Working
<1>8. ASSUME NEW b, Run(h, b) PROVE Good
  <2>1. job'[h].at = "loop" /\ job'[h].kind = "run" /\ pending' = pending
    BY <1>0, <1>2, <1>8 DEF Run, BusyFields
  <2> QED
    BY <2>1 DEF Truthful, Running, Scenic, Working
<1>9. ASSUME NEW id \in Scenarios, ExecuteScenario(h, id) PROVE Good
  <2>1. /\ job'[h].at = "sync" /\ job'[h].kind = "scenario" /\ job'[h].script = id
        /\ job'[h].bays = ScenarioBays(id) /\ job'[h].alone = (pending = <<>>)
        /\ pending' = pending
    BY <1>0, <1>2, <1>9 DEF ExecuteScenario, BusyFields
  <2>2. ScenarioBays(id) \in BaysLeft
    BY ScenarioCourse
  <2>3. job'[h].alone => Showing(job'[h], pending', sessions')
    BY <2>1, <2>2 DEF Showing
  <2> QED
    BY <2>1, <2>3 DEF Truthful, Scenic
<1> QED
  BY <1>3, <1>4, <1>5, <1>6, <1>7, <1>8, <1>9 DEF Request

\* What no step of a working handler changes until it has answered, but for
\* the bays that are left to a scenario.
Kept(k, j) ==
  /\ k.kind = j.kind /\ k.script = j.script /\ k.alone = j.alone
  /\ k.bay = j.bay /\ k.bays = j.bays

LEMMA LoopTruthful ==
  ASSUME TypeInv, NEW h \in Handlers, LoopOn(h) \/ LoopOver(h),
         Truthful(job[h], h, pending, latest, sessions)
  PROVE  Truthful(job'[h], h, pending', latest', sessions')
<1> DEFINE j == job[h]
           k == job'[h]
<1>1. /\ j.at = "loop" /\ h \in DOMAIN job /\ DOMAIN j = BusyFields
      /\ j.kind \in {"action", "run", "scenario"}
      /\ j.kind = "scenario" => j.script \in Scenarios
  BY DEF LoopOn, LoopOver, TypeInv, Shape, Working, Serving
<1>2. UNCHANGED <<pending, latest, sessions>>
  BY DEF LoopOn, LoopOver
<1>3. /\ Kept(k, j) /\ k.owing = j.owing /\ k.event = j.event
      /\ \/ k.at = "pop" /\ pending # <<>>
         \/ k.at = "report" /\ (pending = <<>> \/ j.kind = "run")
  BY <1>1 DEF LoopOn, LoopOver, Waiting, Kept, BusyFields
<1>4. j.at \in Working /\ k.at \in Working
  BY <1>1, <1>3 DEF Working
<1> HIDE DEF j, k
<1>5. CASE j.kind = "action"
  <2>1. j.alone => Acting(j, h, pending, latest)
    BY <1>4, <1>5 DEF Truthful, j
  <2>2. Acting(j, h, pending, latest) => Acting(k, h, pending, latest)
    BY <1>1, <1>3, <1>5 DEF Acting, LastIs, Told
  <2> QED
    BY <1>2, <1>3, <1>4, <1>5, <2>1, <2>2 DEF Truthful, Kept, Scenic, Working, k
<1>6. CASE j.kind = "run"
  <2>1. Running(j, pending)
    BY <1>4, <1>6 DEF Truthful, j
  <2>2. Running(k, pending)
    BY <1>3, <2>1 DEF Running
  <2> QED
    BY <1>2, <1>3, <1>4, <1>6, <2>2 DEF Truthful, Kept, Scenic, Working, k
<1>7. CASE j.kind = "scenario"
  <2>1. j.alone => Showing(j, pending, sessions)
    BY <1>4, <1>7 DEF Truthful, Scenic, j
  <2>2. ASSUME j.alone PROVE Showing(k, pending, sessions)
    <3> DEFINE w == Script(j.script).word
               c == CourseOf(j.script)
    <3>1. c[Len(w) + 1] = Script(j.script).shows /\ Len(w) \in Nat
      BY <1>1, <1>7, ScenarioCourse DEF Course
    <3>2. Showing(j, pending, sessions)
      BY <2>1, <2>2
    <3>3. k.at = "report" => sessions[j.bay] = Script(j.script).shows
      <4>1. k.at = "report" => pending = <<>>
        BY <1>3, <1>7
      <4>2. pending = <<>> => Len(w) - Len(pending) + 1 = Len(w) + 1
        BY <3>1
      <4> QED
        BY <1>1, <3>1, <3>2, <4>1, <4>2 DEF Showing
    <3> QED
      BY <1>1, <1>3, <1>7, <3>2, <3>3 DEF Showing, Kept
  <2>3. k.at = "report" => pending = <<>>
    BY <1>3, <1>7
  <2> QED
    BY <1>2, <1>3, <1>4, <1>7, <2>2, <2>3 DEF Truthful, Kept, Scenic, Working, k
<1> QED
  BY <1>1, <1>5, <1>6, <1>7

\* The rest of a queue.
LEMMA QueueTail ==
  ASSUME NEW K, NEW queue \in Seq(K), queue # <<>>
  PROVE  /\ Len(queue) \in Nat \ {0} /\ Len(Tail(queue)) = Len(queue) - 1
         /\ \A i \in 1..Len(queue) - 1 : Tail(queue)[i] = queue[i + 1]
         /\ Head(queue) = queue[1] /\ DOMAIN Tail(queue) = 1..Len(queue) - 1
         /\ Len(queue) = 1 <=> Tail(queue) = <<>>
<1>1. Len(queue) \in Nat \ {0} /\ Len(Tail(queue)) = Len(queue) - 1 /\ Tail(queue) \in Seq(K)
  OBVIOUS
<1>2. /\ \A i \in 1..Len(queue) - 1 : Tail(queue)[i] = queue[i + 1]
      /\ Head(queue) = queue[1] /\ DOMAIN Tail(queue) = 1..Len(queue) - 1
  OBVIOUS
<1>3. \A s \in Seq(K) : Len(s) = 0 <=> s = <<>>
  OBVIOUS
<1>4. Len(queue) = 1 <=> Tail(queue) = <<>>
  <2>1. \A n \in Nat \ {0} : \A s \in Seq(K) : Len(s) = n - 1 => (n = 1 <=> s = <<>>)
    BY <1>3
  <2> QED
    BY <1>1, <2>1
<1> QED
  BY <1>1, <1>2, <1>4

LEMMA PopTruthful ==
  ASSUME TypeInv, NEW h \in Handlers, Pop(h), Truthful(job[h], h, pending, latest, sessions)
  PROVE  Truthful(job'[h], h, pending', latest', sessions')
<1> DEFINE j == job[h]
           k == job'[h]
           rest == Tail(pending)
<1>1. /\ j.at = "pop" /\ h \in DOMAIN job /\ DOMAIN j = BusyFields
      /\ j.kind \in {"action", "run", "scenario"}
      /\ j.kind = "scenario" => j.script \in Scenarios
      /\ pending \in Seq(EventSet) /\ pending # <<>>
  BY DEF Pop, TypeInv, Shape, Working, Serving
<1>2. UNCHANGED <<latest, sessions>> /\ pending' = rest
  BY DEF Pop, Popped
<1>3. Kept(k, j) /\ k.owing = j.owing /\ k.event = Head(pending) /\ k.at = "read"
  BY <1>1 DEF Pop, Kept, BusyFields
<1>4. j.at \in Working /\ k.at \in Working
  BY <1>1, <1>3 DEF Working
<1>5. /\ Len(pending) \in Nat \ {0} /\ Len(rest) = Len(pending) - 1
      /\ \A i \in 1..Len(pending) - 1 : rest[i] = pending[i + 1]
      /\ Head(pending) = pending[1] /\ DOMAIN rest = 1..Len(pending) - 1
      /\ DOMAIN pending = 1..Len(pending)
      /\ Len(pending) = 1 <=> rest = <<>>
  BY <1>1, QueueTail
<1> HIDE DEF j, k, rest
<1>6. CASE j.kind = "action"
  <2>1. j.alone => Acting(j, h, pending, latest)
    BY <1>4, <1>6 DEF Truthful, j
  <2>2. j.alone => LastIs(pending, h) /\ j.owing = 1
    BY <1>1, <2>1 DEF Acting, Told
  <2>3. ASSUME j.alone PROVE Acting(k, h, rest, latest)
    <3>1. CASE Len(pending) = 1
      BY <1>3, <1>5, <2>2, <2>3, <3>1 DEF Acting, LastIs
    <3>2. CASE Len(pending) # 1
      <4>1. Head(pending).owner = "nobody"
        BY <1>5, <2>2, <2>3, <3>2 DEF LastIs
      <4>2. rest # <<>> /\ rest[Len(rest)] = pending[Len(pending)]
        BY <1>5, <3>2
      <4>3. \A i \in 1..Len(rest) - 1 : rest[i].owner = "nobody"
        BY <1>5, <2>2, <2>3, <3>2 DEF LastIs
      <4>4. LastIs(rest, h)
        BY <2>2, <2>3, <4>2, <4>3 DEF LastIs
      <4> QED
        BY <1>3, <2>2, <2>3, <4>1, <4>4 DEF Acting
    <3> QED
      BY <3>1, <3>2
  <2> QED
    BY <1>2, <1>3, <1>4, <1>6, <2>3 DEF Truthful, Kept, Scenic, Working, k
<1>7. CASE j.kind = "run"
  <2>1. Running(j, pending)
    BY <1>4, <1>7 DEF Truthful, j
  <2>2. Running(k, rest)
    BY <1>3, <1>5, <2>1 DEF Running, Nobodys
  <2> QED
    BY <1>2, <1>3, <1>4, <1>7, <2>2 DEF Truthful, Kept, Scenic, Working, k
<1>8. CASE j.kind = "scenario"
  <2>1. j.alone => Showing(j, pending, sessions)
    BY <1>4, <1>8 DEF Truthful, Scenic, j
  <2>2. ASSUME j.alone PROVE Showing(k, rest, sessions)
    <3> DEFINE w == Script(j.script).word
               n == Len(w) - Len(pending)
               m == Len(w) - Len(rest)
    <3>1. Len(w) \in Nat
      BY <1>1, <1>8, ScenarioCourse
    <3>2. Showing(j, pending, sessions)
      BY <2>1, <2>2
    <3>3. /\ Len(pending) <= Len(w)
          /\ \A i \in 1..Len(pending) : pending[i].bay = j.bay /\ pending[i].symbol = w[n + i]
          /\ sessions[j.bay] = CourseOf(j.script)[n + 1]
      BY <1>1, <3>2 DEF Showing
    <3> HIDE DEF w
    <3>4. m = n + 1 /\ m \in 1..Len(w) /\ Len(rest) <= Len(w)
      BY <1>5, <3>1, <3>3
    <3>5. k.event.bay = j.bay /\ k.event.symbol = w[m] /\ sessions[j.bay] = CourseOf(j.script)[m]
      BY <1>3, <1>5, <3>3, <3>4
    <3>6. \A i \in 1..Len(rest) : rest[i].bay = j.bay /\ rest[i].symbol = w[m + i]
      <4> SUFFICES ASSUME NEW i \in 1..Len(rest)
                   PROVE  rest[i].bay = j.bay /\ rest[i].symbol = w[m + i]
        OBVIOUS
      <4>1. i + 1 \in 1..Len(pending) /\ n + (i + 1) = m + i /\ rest[i] = pending[i + 1]
        BY <1>5, <3>1, <3>4
      <4> QED
        BY <3>3, <4>1
    <3> HIDE DEF n, m
    <3> QED
      BY <1>1, <1>3, <3>2, <3>4, <3>5, <3>6 DEF Showing, Kept, w, m
  <2> QED
    BY <1>2, <1>3, <1>4, <1>8, <2>2 DEF Truthful, Kept, Scenic, Working, k
<1> QED
  BY <1>1, <1>6, <1>7, <1>8

LEMMA ReadTruthful ==
  ASSUME TypeInv, NEW h \in Handlers, ReadSession(h),
         Truthful(job[h], h, pending, latest, sessions)
  PROVE  Truthful(job'[h], h, pending', latest', sessions')
<1> DEFINE j == job[h]
           k == job'[h]
           e == j.event
           q == sessions[e.bay]
           t == IF e.symbol \in Admissible(q) THEN Target(q, e.symbol) ELSE Absent
<1>1. /\ j.at = "read" /\ h \in DOMAIN job /\ DOMAIN j = BusyFields
      /\ j.kind \in {"action", "run", "scenario"}
      /\ j.kind = "scenario" => j.script \in Scenarios
      /\ e \in EventSet /\ StateType(sessions)
  BY DEF ReadSession, TypeInv, StateType, Shape, Working, Serving
<1>2. UNCHANGED <<pending, latest, sessions>> /\ q \in States
  BY <1>1 DEF ReadSession, StateType, EventSet
<1>3. Kept(k, j) /\ k.owing = j.owing /\ k.event = e /\ k.at = "commit" /\ k.target = t
  BY <1>1 DEF ReadSession, Kept, BusyFields
<1>4. j.at \in Working /\ k.at \in Working
  BY <1>1, <1>3 DEF Working
<1>5. e.symbol \in Admissible(q) => t # Absent
  <2> HIDE DEF q
  <2> QED
    BY <1>2, TargetLeads, StateNames
<1> HIDE DEF j, k
<1>6. CASE j.kind = "action"
  <2>1. j.alone => Acting(j, h, pending, latest)
    BY <1>4, <1>6 DEF Truthful, j
  <2>2. Acting(j, h, pending, latest) => Acting(k, h, pending, latest)
    BY <1>1, <1>3 DEF Acting
  <2> QED
    BY <1>2, <1>3, <1>4, <1>6, <2>1, <2>2 DEF Truthful, Kept, Scenic, Working, k
<1>7. CASE j.kind = "run"
  <2>1. Running(j, pending)
    BY <1>4, <1>7 DEF Truthful, j
  <2>2. Running(k, pending)
    BY <1>1, <1>3, <2>1 DEF Running
  <2> QED
    BY <1>2, <1>3, <1>4, <1>7, <2>2 DEF Truthful, Kept, Scenic, Working, k
<1>8. CASE j.kind = "scenario"
  <2>1. j.alone => Showing(j, pending, sessions)
    BY <1>4, <1>8 DEF Truthful, Scenic, j
  <2>2. ASSUME j.alone PROVE Showing(k, pending, sessions)
    <3> DEFINE w == Script(j.script).word
               c == CourseOf(j.script)
               n == Len(w) - Len(pending)
    <3>1. Showing(j, pending, sessions)
      BY <2>1, <2>2
    <3>2. /\ n \in 1..Len(w) /\ e.bay = j.bay /\ e.symbol = w[n] /\ sessions[j.bay] = c[n]
      BY <1>1, <3>1 DEF Showing
    <3>3. Follows(c[n], w[n], c[n + 1])
      BY <1>1, <1>8, <3>2, ScenarioCourse DEF Course
    <3>4. c[n + 1] = IF t = Absent THEN sessions[j.bay] ELSE t
      BY <1>5, <3>2, <3>3 DEF Follows
    <3> HIDE DEF t
    <3> QED
      BY <1>1, <1>3, <3>1, <3>4 DEF Showing, Kept
  <2> QED
    BY <1>2, <1>3, <1>4, <1>8, <2>2 DEF Truthful, Kept, Scenic, Working, k
<1> QED
  BY <1>1, <1>6, <1>7, <1>8

LEMMA CommitTruthful ==
  ASSUME TypeInv, NEW h \in Handlers, Commit(h), Settled(job[h], pending, sessions),
         Truthful(job[h], h, pending, latest, sessions)
  PROVE  Truthful(job'[h], h, pending', latest', sessions')
<1> DEFINE j == job[h]
           k == job'[h]
           e == j.event
           own == h = e.owner /\ j.target # Absent
<1>1. /\ j.at = "commit" /\ h \in DOMAIN job /\ DOMAIN j = BusyFields /\ j.live
      /\ j.kind \in {"action", "run", "scenario"}
      /\ j.kind = "scenario" => j.script \in Scenarios
      /\ e \in EventSet /\ StateType(sessions) /\ e.bay \in Bays
  BY DEF Commit, TypeInv, StateType, Shape, Working, Serving, Settled, EventSet
<1>2. /\ UNCHANGED pending /\ latest' = {[accepted |-> j.target # Absent]}
      /\ sessions' = IF j.target # Absent THEN [sessions EXCEPT ![e.bay] = j.target] ELSE sessions
  BY <1>1 DEF Commit
<1>3. k = IF own THEN [[j EXCEPT !.at = "loop"] EXCEPT !.owing = @ - 1] ELSE [j EXCEPT !.at = "loop"]
  BY DEF Commit
<1>4. Kept(k, j) /\ k.owing = (IF own THEN j.owing - 1 ELSE j.owing) /\ k.at = "loop"
  BY <1>1, <1>3 DEF Kept, BusyFields
<1>5. j.at \in Working /\ k.at \in Working
  BY <1>1, <1>4 DEF Working
<1> HIDE DEF j, k
<1>6. CASE j.kind = "action"
  <2>0. CASE ~j.alone
    BY <1>2, <1>4, <1>5, <1>6, <2>0 DEF Truthful, Kept, Scenic, Working, k
  <2> SUFFICES ASSUME j.alone PROVE Truthful(job'[h], h, pending', latest', sessions')
    BY <2>0
  <2>1. Acting(j, h, pending, latest)
    BY <1>5, <1>6 DEF Truthful, j
  <2>2. j.owing = 1 /\ \/ e.owner = "nobody" /\ LastIs(pending, h)
                       \/ e.owner = h /\ pending = <<>>
    BY <1>1, <2>1 DEF Acting
  <2>3. CASE e.owner = "nobody" /\ LastIs(pending, h)
    <3>1. ~own
      BY <2>3, ConsoleAssumption
    <3> QED
      BY <1>2, <1>4, <1>5, <1>6, <2>2, <2>3, <3>1 DEF Truthful, Acting, Kept, Scenic, Working, k
  <2>4. CASE e.owner = h /\ pending = <<>>
    <3>1. k.owing = IF j.target # Absent THEN 0 ELSE 1
      BY <1>4, <2>2, <2>4
    <3>2. \A x, y \in BOOLEAN : x = y => {[accepted |-> x]} = {[accepted |-> y]}
      OBVIOUS
    <3>3. (j.target # Absent) = (k.owing = 0)
      BY <3>1
    <3>4. latest' = {[accepted |-> k.owing = 0]}
      BY <1>2, <3>2, <3>3
    <3>5. Told(k, pending, latest')
      BY <2>4, <3>1, <3>4 DEF Told
    <3> QED
      BY <1>2, <1>4, <1>5, <1>6, <3>5 DEF Truthful, Acting, Kept, Scenic, Working, k
  <2> QED
    BY <2>2, <2>3, <2>4
<1>7. CASE j.kind = "run"
  <2>1. Running(j, pending)
    BY <1>5, <1>7 DEF Truthful, j
  <2> QED
    BY <1>2, <1>4, <1>5, <1>7, <2>1 DEF Truthful, Running, Kept, Scenic, Working, k
<1>8. CASE j.kind = "scenario"
  <2>1. j.alone => Showing(j, pending, sessions)
    BY <1>5, <1>8 DEF Truthful, Scenic, j
  <2>2. ASSUME j.alone PROVE Showing(k, pending, sessions')
    <3> DEFINE w == Script(j.script).word
               c == CourseOf(j.script)
               n == Len(w) - Len(pending)
    <3>1. Showing(j, pending, sessions)
      BY <2>1, <2>2
    <3>2. e.bay = j.bay /\ c[n + 1] = IF j.target = Absent THEN sessions[j.bay] ELSE j.target
      BY <1>1, <3>1 DEF Showing
    <3>3. /\ sessions'[j.bay] = c[n + 1]
          /\ \A b \in Bays : b # j.bay => sessions'[b] = sessions[b]
      BY <1>1, <1>2, <3>2 DEF StateType
    <3>4. Range(ScenarioBays(j.script)) \subseteq Bays
      BY <1>1, <1>8, ConsoleAssumption
    <3> QED
      BY <1>1, <1>4, <3>1, <3>3, <3>4 DEF Showing, Kept
  <2> QED
    BY <1>2, <1>4, <1>5, <1>8, <2>2 DEF Truthful, Kept, Scenic, Working, k
<1> QED
  BY <1>1, <1>6, <1>7, <1>8

LEMMA ReportTruthful ==
  ASSUME TypeInv, NEW h \in Handlers, Report(h), Truthful(job[h], h, pending, latest, sessions)
  PROVE  Truthful(job'[h], h, pending', latest', sessions')
<1> DEFINE j == job[h]
           k == job'[h]
           ok == \E o \in latest : o.accepted
<1>1. /\ j.at = "report" /\ j.kind \in {"action", "run"} /\ DOMAIN j = BusyFields
      /\ j.at \in Working /\ h \in DOMAIN job /\ UNCHANGED <<pending, latest, sessions>>
  BY DEF Report, TypeInv, Shape, Working, Serving
<1>2. \A answered, honest : Finish(h, Idle(answered, honest))[h] = Idle(answered, honest)
  BY FinishTouched
<1>3. ASSUME NEW answered, NEW honest, job' = Finish(h, Idle(answered, honest)), honest,
             Nobodys(pending)
      PROVE  Truthful(k, h, pending, latest, sessions)
  <2>1. k.at = "idle" /\ k.honest
    BY <1>2, <1>3 DEF Idle
  <2> HIDE DEF k
  <2> QED
    BY <1>3, <2>1 DEF Truthful, Scenic, Working
<1>4. CASE j.kind = "run"
  <2>1. Nobodys(pending)
    BY <1>1, <1>4 DEF Truthful, Running
  <2>2. job' = Finish(h, Idle("none", TRUE))
    BY <1>4 DEF Report
  <2> QED
    BY <1>1, <1>3, <2>1, <2>2
<1>5. CASE j.kind = "action"
  <2>0. pending = <<>>
    BY <1>1, <1>5 DEF Truthful
  <2>1. j.alone => j.owing \in {0, 1} /\ latest = {[accepted |-> j.owing = 0]}
    BY <1>1, <1>5 DEF Truthful, Acting, Told
  <2>2. j.alone => (ok <=> j.owing = 0)
    <3>1. \A x \in BOOLEAN : (\E o \in {[accepted |-> x]} : o.accepted) <=> x
      OBVIOUS
    <3>2. (j.owing = 0) \in BOOLEAN
      OBVIOUS
    <3>3. (\E o \in {[accepted |-> j.owing = 0]} : o.accepted) <=> j.owing = 0
      BY <3>1, <3>2
    <3> QED
      BY <2>1, <3>3
  <2>3. Nobodys(pending)
    BY <2>0 DEF Nobodys
  <2>4. CASE ok /\ j.todo # <<>>
    <3>1. job' = [job EXCEPT ![h].at = "schedule"]
      BY <1>5, <2>4 DEF Report
    <3>2. /\ k.at = "schedule" /\ k.kind = "action" /\ k.alone = j.alone
          /\ k.alone => k.owing = 0
      <4>1. /\ k.at = "schedule" /\ k.kind = "action" /\ k.alone = j.alone
            /\ k.owing = j.owing
        BY <1>1, <1>5, <3>1 DEF BusyFields
      <4> QED
        BY <2>2, <2>4, <4>1
    <3> HIDE DEF k
    <3>3. Truthful(k, h, pending, latest, sessions)
      BY <2>3, <3>2 DEF Truthful, Acting, Scenic, Working
    <3> QED
      BY <1>1, <3>3 DEF k
  <2>5. CASE ~(ok /\ j.todo # <<>>)
    <3>1. job' = Finish(h, Idle(IF ok THEN "accepted" ELSE "rejected",
                                j.alone => (ok <=> j.owing = 0)))
      BY <1>5, <2>5 DEF Report
    <3> QED
      BY <1>1, <1>3, <2>2, <2>3, <3>1
  <2> QED
    BY <2>4, <2>5
<1> QED
  BY <1>1, <1>4, <1>5

LEMMA SyncDoneTruthful ==
  ASSUME TypeInv, NEW h \in Handlers, SyncDone(h), Truthful(job[h], h, pending, latest, sessions)
  PROVE  Truthful(job'[h], h, pending', latest', sessions')
<1> DEFINE j == job[h]
           k == job'[h]
           script == Script(j.script)
           bays == ScenarioBays(j.script)
           shown == \A i \in DOMAIN bays : sessions[bays[i]] = script.shows
<1>1. /\ j.at = "report" /\ j.kind = "scenario" /\ DOMAIN j = BusyFields /\ Scenic(j)
      /\ h \in DOMAIN job /\ UNCHANGED <<pending, latest, sessions>> /\ j.script \in Scenarios
  BY DEF SyncDone, TypeInv, Shape, Working, Serving, Scenic
<1>2. pending = <<>> /\ (j.alone => Showing(j, pending, sessions))
  BY <1>1 DEF Truthful
<1>3. j.alone => \A b \in Range(bays) \ Range(j.bays) : sessions[b] = script.shows
  BY <1>1, <1>2 DEF Showing
<1>4. CASE j.bays # <<>>
  <2>1. job' = [job EXCEPT ![h].at = "sync"]
    BY <1>4 DEF SyncDone
  <2>2. Kept(k, j) /\ k.at = "sync"
    BY <1>1, <2>1 DEF Kept, BusyFields
  <2> HIDE DEF k, j
  <2>3. j.alone => Showing(k, pending, sessions)
    BY <1>1, <1>2, <1>3, <2>2 DEF Showing, Kept
  <2>4. Truthful(k, h, pending, latest, sessions)
    BY <1>1, <2>2, <2>3 DEF Truthful, Kept, Scenic, Working
  <2> QED
    BY <1>1, <2>4 DEF k
<1>5. CASE j.bays = <<>>
  <2>1. job' = Finish(h, Idle("shown", j.alone => shown))
    BY <1>5 DEF SyncDone
  <2>2. k = Idle("shown", j.alone => shown)
    BY <2>1, FinishTouched
  <2>3. j.alone => shown
    <3>1. Range(j.bays) = {}
      BY <1>5 DEF Range
    <3>2. \A i \in DOMAIN bays : bays[i] \in Range(bays)
      BY DEF Range
    <3> QED
      BY <1>3, <3>1, <3>2
  <2>4. k.at = "idle" /\ k.honest
    <3>1. (j.alone => shown) = TRUE
      BY <2>3
    <3>2. k = Idle("shown", TRUE)
      BY <2>2, <3>1
    <3> QED
      BY <3>2 DEF Idle
  <2> HIDE DEF k
  <2>5. Truthful(k, h, pending, latest, sessions)
    BY <1>2, <2>4 DEF Truthful, Nobodys, Scenic, Working
  <2> QED
    BY <1>1, <2>5 DEF k
<1> QED
  BY <1>4, <1>5

LEMMA SyncTruthful ==
  ASSUME TypeInv, NEW h \in Handlers, SyncBay(h),
         Truthful(job[h], h, pending, latest, sessions)
  PROVE  Truthful(job'[h], h, pending', latest', sessions')
<1> DEFINE j == job[h]
           k == job'[h]
           b == Head(j.bays)
           w == Script(j.script).word
           events == [i \in DOMAIN w |-> Event(now, b, w[i], h)]
<1>1. /\ j.at = "sync" /\ j.kind = "scenario" /\ DOMAIN j = BusyFields /\ Scenic(j)
      /\ h \in DOMAIN job /\ j.script \in Scenarios /\ j.bays \in Seq(Bays) /\ j.bays # <<>>
      /\ StateType(sessions) /\ now \in Nat
  BY DEF SyncBay, TypeInv, StateType, Shape, Working, Serving, Scenic
<1>2. /\ k.at = "loop" /\ k.kind = j.kind /\ k.script = j.script /\ k.alone = j.alone
      /\ k.bay = b /\ k.bays = Tail(j.bays)
  BY <1>1 DEF SyncBay, BusyFields
<1>3. /\ b \in Bays /\ w \in Seq(Alphabet) /\ Len(w) \in Nat /\ DOMAIN w = 1..Len(w)
      /\ Course(CourseOf(j.script), StartState, w, Script(j.script).shows)
  BY <1>1, ScenarioCourse
<1>4. j.alone => Showing(j, pending, sessions)
  BY <1>1 DEF Truthful
<1>5. sessions' = Fresh(b) /\ pending' = Enqueue(now, events)
  BY DEF SyncBay
<1> HIDE DEF k
<1>6. ASSUME j.alone PROVE Showing(k, pending', sessions')
  <2>1. /\ pending = <<>> /\ j.bays \in BaysLeft
        /\ \A c \in Range(ScenarioBays(j.script)) \ Range(j.bays) :
             sessions[c] = Script(j.script).shows
    BY <1>1, <1>4, <1>6 DEF Showing
  <2> HIDE DEF j, b, w
  <2>2. events \in Seq(DueEvents(now)) /\ Len(events) = Len(w)
    <3>1. \A i \in DOMAIN w : Event(now, b, w[i], h) \in DueEvents(now)
      BY <1>1, <1>3 DEF Event, EventSet, DueEvents, Symbols, Owners
    <3> QED
      BY <1>3, <3>1
  <2>3. \A i \in 1..Len(w) : events[i].bay = b /\ events[i].symbol = w[i]
    BY <1>3 DEF Event
  <2> HIDE DEF events
  <2>4. pending' = events
    <3>1. pending' = pending \o events
      <4>1. pending \in Seq(DueEvents(now))
        BY <2>1
      <4> QED
        BY <1>1, <1>5, <2>2, <4>1, EnqueueDue
    <3>2. \A s \in Seq(DueEvents(now)) : <<>> \o s = s
      OBVIOUS
    <3> QED
      BY <2>1, <2>2, <3>1, <3>2
  <2>5. sessions'[b] = StartState /\ \A c \in Bays : c # b => sessions'[c] = sessions[c]
    BY <1>1, <1>3, <1>5 DEF Fresh, StateType
  <2>6. Tail(j.bays) \in BaysLeft /\ Range(j.bays) = {b} \cup Range(Tail(j.bays))
    <3>1. \A s \in BaysLeft : s # <<>> => Tail(s) \in BaysLeft
      <4>1. Tail(<<"v1", "v2", "v3">>) = <<"v2", "v3">> /\ Tail(<<"v2", "v3">>) = <<"v3">>
        OBVIOUS
      <4>2. Tail(<<"v3">>) = <<>> /\ Tail(<<"v1">>) = <<>>
        OBVIOUS
      <4> QED
        BY <4>1, <4>2, Zenon DEF BaysLeft
    <3>2. /\ Len(j.bays) \in Nat \ {0} /\ b = j.bays[1]
          /\ \A i \in 1..Len(j.bays) - 1 : Tail(j.bays)[i] = j.bays[i + 1]
          /\ DOMAIN Tail(j.bays) = 1..Len(j.bays) - 1 /\ DOMAIN j.bays = 1..Len(j.bays)
      BY <1>1, QueueTail DEF b
    <3>3. \A i \in DOMAIN j.bays : i = 1 \/ (i - 1 \in DOMAIN Tail(j.bays) /\ j.bays[i] = Tail(j.bays)[i - 1])
      BY <3>2
    <3>4. \A i \in DOMAIN Tail(j.bays) : i + 1 \in DOMAIN j.bays /\ Tail(j.bays)[i] = j.bays[i + 1]
      BY <3>2
    <3>5. 1 \in DOMAIN j.bays
      BY <3>2
    <3>6. Range(j.bays) = {b} \cup Range(Tail(j.bays))
      <4>1. \A i \in DOMAIN j.bays : j.bays[i] \in {b} \cup Range(Tail(j.bays))
        BY <3>2, <3>3 DEF Range
      <4>2. \A i \in DOMAIN Tail(j.bays) : Tail(j.bays)[i] \in Range(j.bays)
        BY <3>4 DEF Range
      <4>3. b \in Range(j.bays)
        BY <3>2, <3>5 DEF Range
      <4> QED
        BY <4>1, <4>2, <4>3 DEF Range
    <3> QED
      BY <1>1, <2>1, <3>1, <3>6
  <2>7. \A c \in Range(ScenarioBays(j.script)) \ Range(Tail(j.bays)) :
          sessions'[c] = Script(j.script).shows \/ c = b
    <3>1. Range(ScenarioBays(j.script)) \subseteq Bays
      BY <1>1, ConsoleAssumption
    <3> QED
      BY <2>1, <2>5, <2>6, <3>1
  <2>8. sessions'[b] = CourseOf(j.script)[1]
    BY <1>3, <2>5 DEF Course
  <2>9. Len(w) - Len(pending') = 0 /\ Len(pending') = Len(w)
    BY <1>3, <2>2, <2>4
  <2>10. \A i \in 1..Len(pending') : pending'[i].bay = b /\ pending'[i].symbol = w[0 + i]
    BY <1>3, <2>3, <2>4, <2>9
  <2> QED
    BY <1>2, <1>3, <2>6, <2>7, <2>8, <2>9, <2>10 DEF Showing, w
<1>7. UNCHANGED latest
  BY DEF SyncBay
<1> QED
  BY <1>1, <1>2, <1>6, <1>7 DEF Truthful, Scenic, Working, k

LEMMA ScheduleTruthful ==
  ASSUME TypeInv, NEW h \in Handlers, ScheduleNext(h), Timely(job[h], pending, now),
         Truthful(job[h], h, pending, latest, sessions)
  PROVE  Truthful(job'[h], h, pending', latest', sessions')
<1> DEFINE j == job[h]
           k == job'[h]
           e == Event(now, j.bay, Head(j.todo), h)
<1>1. /\ j.at = "schedule" /\ j.kind = "action" /\ DOMAIN j = BusyFields /\ j.at \in Working
      /\ h \in DOMAIN job /\ j.bay \in Bays /\ Head(j.todo) \in Symbols /\ UNCHANGED latest
      /\ now \in Nat
  BY DEF ScheduleNext, TypeInv, Shape, Working, Serving
<1>2. k = [j EXCEPT !.at = "loop", !.todo = Tail(@), !.owing = @ + 1]
  BY <1>1 DEF ScheduleNext
<1>3. k.at = "loop" /\ k.kind = "action" /\ k.owing = j.owing + 1 /\ k.alone = j.alone
  BY <1>1, <1>2 DEF BusyFields
<1>4. Nobodys(pending) /\ (j.alone => j.owing = 0 /\ pending \in Seq(DueEvents(now)))
  BY <1>1 DEF Truthful, Acting, Timely
<1>5. e \in DueEvents(now) /\ e.owner = h
  BY <1>1 DEF Event, DueEvents, EventSet, Owners
<1>6. j.alone => pending' = pending \o <<e>>
  <2>1. <<e>> \in Seq(DueEvents(now))
    BY <1>5
  <2>2. j.alone => Enqueue(now, <<e>>) = pending \o <<e>>
    BY <1>1, <1>4, <2>1, EnqueueDue
  <2> QED
    BY <2>2 DEF ScheduleNext
<1> HIDE DEF e, k, j
<1>7. ASSUME j.alone PROVE LastIs(pending', h)
  <2>1. pending \in Seq(DueEvents(now)) /\ pending' = pending \o <<e>>
    BY <1>4, <1>6, <1>7
  <2>2. /\ Len(pending) \in Nat /\ DOMAIN pending = 1..Len(pending)
        /\ Len(pending') = Len(pending) + 1 /\ pending' # <<>>
        /\ pending'[Len(pending) + 1] = e
        /\ \A i \in 1..Len(pending) : pending'[i] = pending[i]
    BY <1>5, <2>1
  <2> QED
    BY <1>4, <1>5, <2>2 DEF LastIs, Nobodys
<1> QED
  BY <1>1, <1>3, <1>4, <1>7 DEF Truthful, Acting, Scenic, Working, k

LEMMA ServeTruthful ==
  ASSUME ConsoleInv, NEW h \in Handlers, Serve(h), ~overlap, Timely(job[h], pending, now),
         Truthful(job[h], h, pending, latest, sessions)
  PROVE  Truthful(job'[h], h, pending', latest', sessions')
<1>1. TypeInv /\ PendingPresent /\ Settled(job[h], pending, sessions)
  BY DEF ConsoleInv, Undisturbed
<1>2. ~PopEmpty(h) /\ ~ReadMissing(h)
  BY <1>1 DEF PopEmpty, ReadMissing, Settled
<1>3. CASE Decide(h)
  <2>1. Nobodys(pending) /\ UNCHANGED pending /\ h \in DOMAIN job
    BY <1>1, <1>3 DEF Decide, Truthful, TypeInv
  <2>2. \A b, todo : /\ Busy(b, todo).at = "schedule" /\ Busy(b, todo).kind = "action"
                     /\ Busy(b, todo).owing = 0
    BY DEF Busy
  <2>3. \E b, todo : job'[h] = Busy(b, todo)
    BY <1>3, <2>1 DEF Decide
  <2>4. job'[h].at = "schedule" /\ job'[h].kind = "action" /\ job'[h].owing = 0
    BY <2>2, <2>3
  <2> QED
    BY <2>1, <2>4 DEF Truthful, Acting, Scenic, Working
<1>4. CASE Trip(h) \/ LogTrip(h)
  <2>1. Nobodys(pending) /\ UNCHANGED pending
    BY <1>4 DEF Trip, LogTrip, Truthful
  <2>2. job'[h].at = "log" \/ (job'[h].at = "idle" /\ job'[h].honest)
    <3>1. h \in DOMAIN job /\ Shape(job[h])
      BY <1>1 DEF TypeInv
    <3>2. Trip(h) => job'[h].at = "log"
      BY <3>1 DEF Trip, Shape, Working
    <3>3. CASE LogTrip(h)
      <4>1. job'[h] = Idle("none", TRUE)
        BY <3>1, <3>3 DEF LogTrip
      <4>2. job'[h].at = "idle" /\ job'[h].honest = TRUE
        BY <4>1 DEF Idle
      <4> QED
        BY <4>2
    <3> QED
      BY <1>4, <3>2, <3>3
  <2> QED
    BY <2>1, <2>2 DEF Truthful, Scenic, Working
<1> QED
  BY <1>1, <1>2, <1>3, <1>4, LoopTruthful, PopTruthful, ReadTruthful, CommitTruthful, ReportTruthful,
     SyncDoneTruthful, SyncTruthful, ScheduleTruthful DEF Serve

LEMMA AnswerStep ==
  ASSUME ConsoleInv, AnswerInv, [Next]_vars
  PROVE  AnswerInv'
<1>1. CASE Next
  <2> SUFFICES ASSUME ~overlap'
               PROVE  /\ \A g \in Handlers : IdleAt(g)' => job'[g].honest
                      /\ (\A g \in Handlers : IdleAt(g)') => Nobodys(pending')
                      /\ \A g \in Handlers : ~IdleAt(g)' =>
                           /\ Truthful(job'[g], g, pending', latest', sessions')
                           /\ Timely(job'[g], pending', now')
    BY DEF AnswerInv
  <2>0. TypeInv /\ Undisturbed
    BY DEF ConsoleInv
  <2>1. PICK h \in Handlers :
          \/ Request(h) /\ overlap' = (overlap \/ \E g \in Handlers : ~IdleAt(g))
          \/ Serve(h) /\ UNCHANGED overlap
    BY <1>1 DEF Next
  <2>2. /\ ~overlap /\ Alone(h) /\ Truthful(job'[h], h, pending', latest', sessions')
        /\ Timely(job'[h], pending', now')
    <3>1. CASE Serve(h) /\ UNCHANGED overlap
      <4>1. ~overlap /\ ~IdleAt(h)
        BY <3>1, ServeBusy
      <4>2. /\ Alone(h) /\ Truthful(job[h], h, pending, latest, sessions)
            /\ Timely(job[h], pending, now)
        BY <2>0, <4>1 DEF Undisturbed, AnswerInv
      <4> QED
        BY <2>0, <3>1, <4>1, <4>2, ServeTruthful, ServeTimely
    <3>2. CASE Request(h) /\ overlap' = (overlap \/ \E g \in Handlers : ~IdleAt(g))
      <4>1. ~(overlap \/ \E g \in Handlers : ~IdleAt(g))
        BY <3>2, Zenon
      <4>2. ~overlap /\ Alone(h) /\ Nobodys(pending)
        BY <4>1 DEF Alone, AnswerInv
      <4> QED
        BY <2>0, <3>2, <4>2, RequestTruthful, RequestTimely
    <3> QED
      BY <2>1, <3>1, <3>2
  <2>3. \A g \in Handlers \ {h} : IdleAt(g)' /\ job'[g].honest
    <3> TAKE g \in Handlers \ {h}
    <3>1. job[g].at = "idle" /\ job[g].honest
      BY <2>2 DEF Alone, IdleAt, AnswerInv
    <3>2. Alike(job'[g], job[g])
      BY <2>0, <2>1, OthersTouched, TouchedAlike DEF OnlyTouched, TypeInv
    <3> QED
      BY <3>1, <3>2 DEF Alike, IdleAt
  <2>4. IdleAt(h)' => job'[h].honest /\ Nobodys(pending')
    BY <2>2 DEF Truthful, IdleAt
  <2> QED
    BY <2>2, <2>3, <2>4
<1>2. CASE UNCHANGED vars
  BY <1>2 DEF vars, console, AnswerInv, IdleAt
<1> QED
  BY <1>1, <1>2

\* As long as requests do not overlap, what is answered to a request that is
\* alone is true, for any time an event may be posted for: accepted is claimed
\* exactly when every symbol of the request was admitted, whatever others had
\* left in the queue for the present, and a scenario that finds the queue empty
\* leaves its bays in the states it declares.
THEOREM AnswersAreTrueNow == Spec => []AnswersAreTrue
<1>1. Init => AnswerInv
  <2> SUFFICES ASSUME Init PROVE AnswerInv
    OBVIOUS
  <2>1. \A h \in Handlers : job[h].at = "idle" /\ job[h].honest
    BY DEF Init, Idle
  <2>2. Nobodys(pending)
    BY DEF Init, Nobodys
  <2> QED
    BY <2>1, <2>2 DEF AnswerInv, IdleAt
<1>2. ConsoleInv /\ AnswerInv /\ [Next]_vars => AnswerInv'
  BY AnswerStep
<1>3. AnswerInv => AnswersAreTrue
  BY DEF AnswerInv, AnswersAreTrue
<1> QED
  BY <1>1, <1>2, <1>3, ConsoleInvHolds, PTL DEF Spec
=============================================================================
