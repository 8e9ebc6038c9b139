--------------------------- MODULE FleetSimulator ---------------------------
(***************************************************************************)
(* The fleet simulator (afco/sim/simulator.py): the discrete-event clock   *)
(* composed with a fleet of session automata.  Scheduling an event books a *)
(* slot of the clock and remembers what it carries; dispatching the slot   *)
(* applies the symbol to its session and appends to the log.               *)
(***************************************************************************)
EXTENDS SessionDFA, EventClock, Sequences

CONSTANTS
  SessionIds, \* the vehicles events may name
  Symbols     \* the symbols events may carry, not only those of the alphabet

VARIABLES
  sessions, \* the current state of each registered session
  payload,  \* what the event of each sequence number carries
  events    \* the log of SimulationEvents

fleetVars == <<sessions, payload, events>>
vars == <<clockVars, fleetVars>>

Absent == "absent"
Nothing == [id |-> Absent, symbol |-> Absent]

ASSUME FleetAssumption == Absent \notin SessionIds

Init ==
  /\ ClockInit
  /\ now = 0
  /\ sessions = [id \in SessionIds |-> Absent]
  /\ payload = [s \in 0..MaxSequence |-> Nothing]
  /\ events = <<>>

\* A mutant: a session that is already registered starts anew.
RegisteredAnew(id) == [sessions EXCEPT ![id] = StartState]

Registered(id) == [sessions EXCEPT ![id] = IF @ = Absent THEN StartState ELSE @]

\* add_session; a second registration raises.
AddSession(id) ==
  /\ ~running
  /\ sessions[id] = Absent
  /\ sessions' = Registered(id)
  /\ UNCHANGED <<clockVars, payload, events>>

\* The event is booked for a session that is registered on the way.
Schedule(id, a, t) ==
  /\ ScheduleAt(t)
  /\ sessions' = Registered(id)
  /\ payload' = [payload EXCEPT ![sequence] = [id |-> id, symbol |-> a]]
  /\ UNCHANGED events

\* A timestamp in the past raises after the session has been registered.
ScheduleRefused(id, t) ==
  /\ ~running
  /\ t < now
  /\ sessions' = Registered(id)
  /\ UNCHANGED <<clockVars, payload, events>>

Admitted(q, a) == a \in Admissible(q)

Outcome(q, a) == IF Admitted(q, a) THEN Target(q, a) ELSE q

Entry(e) ==
  LET p == payload[e.seq]
      q == sessions[p.id]
  IN  [time |-> e.time, id |-> p.id, symbol |-> p.symbol,
       accepted |-> Admitted(q, p.symbol), before |-> q, after |-> Outcome(q, p.symbol)]

\* A mutant: a rejected event leaves no trace in the log.
LoggedIfAccepted(entry) == IF entry.accepted THEN Append(events, entry) ELSE events
Logged(entry) == Append(events, entry)

\* One dispatch of the run loop: the event's session steps, or rejects the
\* symbol and stays, and either is logged.  It never schedules and never
\* raises: sessions leave only with the queue.
Apply(e) ==
  /\ Dispatch(e)
  /\ UNCHANGED sequence
  /\ sessions' = [sessions EXCEPT ![Entry(e).id] = Entry(e).after]
  /\ events' = Logged(Entry(e))
  /\ UNCHANGED payload

\* The rest of run is the clock's.
RunFleet(call) == BeginRun(call) /\ UNCHANGED fleetVars
EndRunFleet == EndRun /\ UNCHANGED fleetVars

ResetFleet ==
  /\ Reset(0)
  /\ sessions' = [id \in SessionIds |-> Absent]
  /\ payload' = [s \in 0..MaxSequence |-> Nothing]
  /\ events' = <<>>

Next ==
  \/ \E id \in SessionIds : AddSession(id)
  \/ \E id \in SessionIds, t \in Times : ScheduleRefused(id, t)
  \/ \E id \in SessionIds, a \in Symbols, t \in Times : Schedule(id, a, t)
  \/ \E call \in RunCalls : RunFleet(call)
  \/ \E e \in queue : Apply(e)
  \/ EndRunFleet
  \/ ResetFleet

Spec == Init /\ [][Next]_vars

-----------------------------------------------------------------------------
\* Where the log leaves a session after its first n entries.
LoggedIn(id, n) ==
  LET mine == {i \in 1..n : events[i].id = id}
  IN  IF mine = {} THEN StartState
      ELSE events[CHOOSE i \in mine : \A j \in mine : j <= i].after

\* The log explains the fleet: replayed from IDLE, entry by entry, it takes
\* every session exactly where it is, although the events of all sessions
\* are interleaved, scheduled out of order and partly rejected.  What it calls
\* accepted is an edge of delta_S, and what it calls rejected is none (the
\* soundness that D13 and fuzz_soundness test).
LogExplainsFleet ==
  /\ \A i \in DOMAIN events :
       LET e == events[i]
       IN  IF e.accepted THEN <<e.before, e.symbol, e.after>> \in Transitions
           ELSE e.symbol \notin Admissible(e.before)
  /\ \A i \in DOMAIN events : events[i].before = LoggedIn(events[i].id, i - 1)
  /\ \A id \in SessionIds :
       sessions[id] # Absent => sessions[id] = LoggedIn(id, Len(events))

\* The sequence numbers under which something is to be applied to a session.
Booked == {s \in 0..MaxSequence : payload[s] # Nothing}

\* No event is lost or applied twice, whichever runs the caller cuts the
\* simulation into: what has been scheduled for a session since the last reset
\* is either pending or in the log.
NothingLost ==
  Cardinality(Booked) = Cardinality({e \in queue : e.seq \in Booked}) + Len(events)
=============================================================================
