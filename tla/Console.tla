------------------------------ MODULE Console ------------------------------
(***************************************************************************)
(* The live console (afco/ui/app.py) over one shared fleet simulator.      *)
(* Every request is served by a thread of its own, so the handlers         *)
(* interleave at the points where they read and write the simulator.  A    *)
(* handler schedules the symbols of its request one after the other and    *)
(* after each runs the whole queue, whoever put the events there; what it  *)
(* answers it takes from the last event of the log.                        *)
(*                                                                         *)
(* A scenario is played while no other request comes in (bound Playing).    *)
(* What holds only of clients that wait for each other is stated of the    *)
(* behaviours in which no request has overlapped another so far.           *)
(***************************************************************************)
EXTENDS SessionDFA, SequencesExt

CONSTANTS
  Handlers,   \* the threads
  Bays,       \* the session ids requests name
  BayActions, \* the actions of the demo buttons in use
  Faults,     \* the symbols injected: only those of the alphabet are let in
  Posted,     \* the symbols add_event schedules, which nobody checks
  Scenarios,  \* the scenarios that are executed
  Horizon,    \* bound: the latest time events are scheduled for
  MaxPending  \* bound: how many events add_event leaves pending

ScenarioIds == {"D1", "D2", "D3", "D4", "D5", "D6", "D7", "D8", "D9", "D10",
                "D11", "D12", "D13"}

\* The bays a scenario is played in, one after the other.
ScenarioBays(id) ==
  IF id \in {"D9", "D12", "D13"} THEN <<"v1", "v2", "v3">> ELSE <<"v1">>

\* Its words: D1_CANONICAL_TRACE, and what the others have in common.
Arrival == <<"auth_req", "auth_ok", "plug_in", "lock_ok", "ev_ready",
             "precharge_ok", "power_start">>
Departure == <<"power_ramp_down", "power_stop", "unplug">>
CanonicalTrace ==
  <<"reserve_req">> \o Arrival \o Departure \o <<"meter_final", "pay_ok", "session_close">>

SessionScript(id) ==
  CASE id = "D2" -> [word |-> Arrival \o <<"power_ramp_down", "power_stop", "session_close">>,
                     shows |-> "ISOLATING"]
    [] id = "D3" -> [word |-> Append(Arrival, "unlock_req"), shows |-> "CHARGING"]
    [] id = "D4" -> [word |-> Append(Arrival, "ev_stop"), shows |-> "SUSPENDED_EV"]
    [] id = "D5" -> [word |-> Append(Arrival, "e_stop"), shows |-> "FAULT_TERMINAL"]
    [] id = "D6" -> [word |-> Arrival \o Departure \o <<"meter_final", "pay_fail">>,
                     shows |-> "BILLING_PENDING"]
    [] id = "D7" -> [word |-> Append(Arrival, "grid_curtail"), shows |-> "PAUSED_DISPATCH"]
    [] id = "D8" -> [word |-> Arrival \o Departure \o <<"session_close">>,
                     shows |-> "UNPLUGGED"]

FleetScript(id) ==
  CASE id \in {"D1", "D10", "D13"} -> [word |-> CanonicalTrace, shows |-> "COMPLETED"]
    [] id \in {"D9", "D12"}        -> [word |-> Arrival, shows |-> "CHARGING"]
    [] id = "D11"                  -> [word |-> <<>>, shows |-> "IDLE"]

\* What execute_scenario schedules in each bay, and the state it answers.
Script(id) == IF id \in {"D2", "D3", "D4", "D5", "D6", "D7", "D8"}
              THEN SessionScript(id) ELSE FleetScript(id)

\* The buttons but reset and e_stop, which are operations of their own.
Buttons == {"reserve", "auth", "plug", "lock", "start_charge", "stop", "unplug", "pay",
            "grid_curtail", "illegal_unlock"}

ASSUME ConsoleAssumption ==
  /\ BayActions \subseteq Buttons
  /\ Faults \subseteq Alphabet
  /\ "nobody" \notin Handlers
  /\ \A id \in Scenarios : id \in ScenarioIds /\ Range(ScenarioBays(id)) \subseteq Bays
  /\ Horizon \in Nat
  /\ MaxPending \in Nat

VARIABLES
  now,      \* sim.clock.now
  pending,  \* the clock's queue in dispatch order
  sessions, \* sim.sessions: the state of each registered session
  latest,   \* sim.events[-1], as the set of at most one outcome
  job,      \* per handler: what it is doing
  overlap   \* history: a request has come in while another was being served

console == <<now, pending, sessions, latest, job>>
vars == <<console, overlap>>

Absent == "absent"
Times == 0..Horizon

\* A handler at rest, with the answer it gave last: answered is "none" when
\* the answer makes no claim, honest records whether the claim was true, of a
\* request that is alone.
Idle(answered, honest) ==
  [at |-> "idle", answered |-> answered, honest |-> honest]

Init ==
  /\ now = 0
  /\ pending = <<>>
  /\ sessions = [b \in Bays |-> Absent]
  /\ latest = {}
  /\ job = [h \in Handlers |-> Idle("none", TRUE)]
  /\ overlap = FALSE

CurrentState(b) == IF sessions[b] = Absent THEN StartState ELSE sessions[b]
Registered(b) == [sessions EXCEPT ![b] = CurrentState(b)]

\* Events at one time enter the clock's queue behind those that are not later.
EnqueueBehind(n, events) ==
  SubSeq(pending, 1, n) \o events \o SubSeq(pending, n + 1, Len(pending))

\* A mutant: among simultaneous events the last one in is the first one out.
EnqueueFirst(t, events) ==
  EnqueueBehind(Cardinality({i \in DOMAIN pending : pending[i].time < t}), events)

Enqueue(t, events) ==
  EnqueueBehind(Cardinality({i \in DOMAIN pending : pending[i].time <= t}), events)

\* Whatever is pending is due: nothing is planned for later.
NothingLater == \A i \in DOMAIN pending : pending[i].time = now

Event(t, b, a, h) == [time |-> t, bay |-> b, symbol |-> a, owner |-> h]

\* A working handler: the bay and the symbols still to schedule, the event it
\* has popped, the target it read for it, whether the session object it read
\* is still the bay's, and how many of its own symbols were not admitted (yet).
\* What it is for: an action, a run, or a scenario with the bays still to play.
\* alone: nothing it found pending can be taken for its own, since no event was
\* planned for later (an action), or since there was none at all (a scenario).
Busy(b, todo) ==
  [at |-> "schedule", bay |-> b, todo |-> todo, kind |-> "action",
   script |-> "none", bays |-> <<>>, alone |-> NothingLater,
   event |-> Event(0, b, "reset_cmd", "nobody"),
   target |-> Absent, live |-> TRUE, owing |-> 0]

\* The symbols a demo action stands for in the state the handler has read.
ActionSymbol(action) ==
  [reserve |-> "reserve_req", auth |-> "auth_ok", plug |-> "plug_in",
   lock |-> "lock_ok", start_charge |-> "power_start",
   stop |-> "power_ramp_down", unplug |-> "unplug", pay |-> "pay_ok",
   grid_curtail |-> "grid_curtail", illegal_unlock |-> "unlock_ok"][action]

Expansion(action, q) ==
  CASE action = "auth" /\ q \in {"IDLE", "RESERVED"}        -> <<"auth_req", "auth_ok">>
    [] action = "start_charge" /\ q = "EV_CONNECTED"        -> <<"ev_ready", "power_start">>
    [] action = "stop" /\ q = "CHARGING"                    -> <<"power_ramp_down", "power_stop">>
    [] action = "unplug" /\ q \in {"ISOLATING", "UNLOCKED"} -> <<"unplug", "meter_final">>
    [] OTHER                                                -> <<ActionSymbol(action)>>

IdleAt(h) == job[h].at = "idle"

\* A mutant: a bay that is put back into service keeps a reservation.
FreshReserved(b) == [sessions EXCEPT ![b] = "RESERVED"]

\* A new session object for a bay.
Fresh(b) == [sessions EXCEPT ![b] = StartState]

\* A mutant: the session object is reused.
DetachedNever(b, j) == j

\* A handler about to write a target, or to trip the bay, holds its session object.
Holds(j, b) == \/ j.at = "commit" /\ j.event.bay = b
               \/ j.at = "trip" /\ j.bay = b

\* Replacing a bay's session object detaches the handlers that hold the old
\* one: what they still write reaches no one.
Detached(b, j) == IF Holds(j, b) THEN [j EXCEPT !.live = FALSE] ELSE j

\* bay_action with "reset": a fresh session, without asking the automaton.
BayReset(h, b) ==
  /\ IdleAt(h)
  /\ sessions' = Fresh(b)
  /\ job' = [g \in Handlers |-> IF g = h THEN Idle("none", TRUE)
                                         ELSE Detached(b, job[g])]
  /\ UNCHANGED <<now, pending, latest>>

\* bay_action with "e_stop" takes the bay's session object, ...
EmergencyStop(h, b) ==
  /\ IdleAt(h)
  /\ sessions' = Registered(b)
  /\ job' = [job EXCEPT ![h] = [at |-> "trip", bay |-> b, live |-> TRUE]]
  /\ UNCHANGED <<now, pending, latest>>

\* ... overwrites its state, ...
Trip(h) ==
  /\ job[h].at = "trip"
  /\ sessions' = IF job[h].live THEN [sessions EXCEPT ![job[h].bay] = "FAULT_TERMINAL"]
                 ELSE sessions
  /\ job' = [job EXCEPT ![h].at = "log"]
  /\ UNCHANGED <<now, pending, latest>>

\* ... and logs an event.
LogTrip(h) ==
  /\ job[h].at = "log"
  /\ latest' = {[accepted |-> TRUE]}
  /\ job' = [job EXCEPT ![h] = Idle("none", TRUE)]
  /\ UNCHANGED <<now, pending, sessions>>

\* bay_action with any other action reads the bay's state ...
ReadBay(h, b, action) ==
  /\ IdleAt(h)
  /\ job' = [job EXCEPT ![h] = [at |-> "decide", bay |-> b, action |-> action,
                                seen |-> CurrentState(b)]]
  /\ UNCHANGED <<now, pending, sessions, latest>>

Recycles(j) == j.seen \in {"COMPLETED", "FAULT_TERMINAL"}
                 /\ j.action \in {"reserve", "auth"}

\* ... and decides from what it read: a finished or faulted bay is recycled for
\* a new lifecycle, and the action becomes a list of symbols.
Decide(h) ==
  /\ job[h].at = "decide"
  /\ LET j == job[h]
         b == j.bay
     IN  IF Recycles(j)
         THEN /\ sessions' = Fresh(b)
              /\ job' = [g \in Handlers |->
                           IF g = h THEN Busy(b, Expansion(j.action, StartState))
                                    ELSE Detached(b, job[g])]
         ELSE /\ job' = [job EXCEPT ![h] = Busy(b, Expansion(j.action, j.seen))]
              /\ UNCHANGED sessions
  /\ UNCHANGED <<now, pending, latest>>

\* inject_fault.
InjectFault(h, b, a) ==
  /\ IdleAt(h)
  /\ job' = [job EXCEPT ![h] = Busy(b, <<a>>)]
  /\ UNCHANGED <<now, pending, sessions, latest>>

\* run: the queue, with no symbol of its own and no claim about one.
Run(h, b) ==
  /\ IdleAt(h)
  /\ job' = [job EXCEPT ![h] = [Busy(b, <<>>) EXCEPT !.at = "loop", !.kind = "run"]]
  /\ UNCHANGED <<now, pending, sessions, latest>>

\* add_event: an event is left pending; a time in the past is refused after
\* the session has been registered.
AddEvent(h, b, a, t) ==
  /\ IdleAt(h)
  /\ sessions' = Registered(b)
  /\ pending' = IF t >= now THEN Enqueue(t, <<Event(t, b, a, "nobody")>>) ELSE pending
  /\ t >= now => Len(pending) < MaxPending
  /\ job' = [job EXCEPT ![h] = Idle("none", TRUE)]
  /\ UNCHANGED <<now, latest>>

\* reset: clock, log and sessions start anew.
ResetAll(h) ==
  /\ IdleAt(h)
  /\ now' = 0
  /\ pending' = <<>>
  /\ sessions' = [b \in Bays |-> Absent]
  /\ latest' = {}
  /\ job' = [g \in Handlers |->
               IF g = h THEN Idle("none", TRUE)
               ELSE IF \E b \in Bays : Holds(job[g], b) THEN [job[g] EXCEPT !.live = FALSE]
               ELSE job[g]]

\* execute_scenario: its bays are played one after the other.  (What it runs on
\* the side, in objects of its own, is left out.)
ExecuteScenario(h, id) ==
  /\ IdleAt(h)
  /\ job' = [job EXCEPT ![h] = [Busy(Head(ScenarioBays(id)), <<>>) EXCEPT
                !.at = "sync", !.kind = "scenario", !.script = id,
                !.bays = ScenarioBays(id), !.alone = pending = <<>>]]
  /\ UNCHANGED <<now, pending, sessions, latest>>

-----------------------------------------------------------------------------
\* _sync_bay: a fresh session, all symbols at the present time, then the queue.
SyncBay(h) ==
  /\ job[h].at = "sync"
  /\ job[h].bays # <<>>
  /\ LET b == Head(job[h].bays)
     IN  /\ sessions' = Fresh(b)
         /\ pending' = LET word == Script(job[h].script).word
                       IN  Enqueue(now, [i \in DOMAIN word |-> Event(now, b, word[i], h)])
         /\ job' = [g \in Handlers |->
                      IF g = h THEN [job[h] EXCEPT !.at = "loop", !.bays = Tail(@),
                           !.bay = b, !.owing = Len(Script(job[h].script).word)]
                      ELSE Detached(b, job[g])]
  /\ UNCHANGED <<now, latest>>

\* The next symbol of the request is scheduled at the present time.
ScheduleNext(h) ==
  /\ job[h].at = "schedule"
  /\ LET b == job[h].bay
     IN  /\ sessions' = Registered(b)
         /\ pending' = Enqueue(now, <<Event(now, b, Head(job[h].todo), h)>>)
         /\ job' = [job EXCEPT ![h] = [job[h] EXCEPT !.at = "loop", !.todo = Tail(@),
                                                           !.owing = @ + 1]]
  /\ UNCHANGED <<now, latest>>

\* A mutant: the loop does not look at the queue.
WaitingAlways == TRUE
Waiting == pending # <<>>

\* The loop of clock.run: on while the queue is not empty ...
LoopOn(h) ==
  /\ job[h].at = "loop"
  /\ Waiting
  /\ job' = [job EXCEPT ![h].at = "pop"]
  /\ UNCHANGED <<now, pending, sessions, latest>>

\* ... and over when it is.  A run request has a budget of its own and may stop
\* at any event.
LoopOver(h) ==
  /\ job[h].at = "loop"
  /\ pending = <<>> \/ job[h].kind = "run"
  /\ job' = [job EXCEPT ![h].at = "report"]
  /\ UNCHANGED <<now, pending, sessions, latest>>

\* A request is over: events of its own that other threads still hold are no
\* longer waited for.
Finish(h, answer) ==
  [g \in Handlers |->
     IF g = h THEN answer
     ELSE IF job[g].at \in {"read", "commit"} /\ job[g].event.owner = h
       THEN [job[g] EXCEPT !.event.owner = "nobody"]
       ELSE job[g]]

\* A mutant: the first event of the queue is read but left in it.
PoppedNone == pending
Popped == Tail(pending)

Pop(h) ==
  /\ job[h].at = "pop"
  /\ pending # <<>>
  /\ job' = [job EXCEPT ![h] = [@ EXCEPT !.at = "read", !.event = Head(pending)]]
  /\ pending' = Popped
  /\ UNCHANGED <<now, sessions, latest>>

\* Another thread has emptied the queue since the loop's test: IndexError.
PopEmpty(h) ==
  /\ job[h].at = "pop"
  /\ pending = <<>>
  /\ job' = Finish(h, Idle("error", TRUE))
  /\ UNCHANGED <<now, pending, sessions, latest>>

\* The clock moves to the event and its callback reads the session: the target
\* state is computed from what is read here.
ReadSession(h) ==
  /\ job[h].at = "read"
  /\ LET e == job[h].event
         q == sessions[e.bay]
     IN  /\ now' = e.time
         /\ q # Absent
         /\ job' = [job EXCEPT ![h] =
              [@ EXCEPT !.at = "commit", !.live = TRUE,
                        !.target = IF e.symbol \in Admissible(q)
                                   THEN Target(q, e.symbol) ELSE Absent]]
  /\ UNCHANGED <<pending, sessions, latest>>

\* A reset has removed the session since the event was popped: KeyError.
ReadMissing(h) ==
  /\ job[h].at = "read"
  /\ sessions[job[h].event.bay] = Absent
  /\ now' = job[h].event.time
  /\ job' = Finish(h, Idle("error", TRUE))
  /\ UNCHANGED <<pending, sessions, latest>>

\* The target is written, or the symbol rejected, and the outcome logged.
Commit(h) ==
  /\ job[h].at = "commit"
  /\ LET j == job[h]
         admitted == j.target # Absent
     IN  /\ sessions' = IF admitted /\ j.live
                        THEN [sessions EXCEPT ![j.event.bay] = j.target]
                        ELSE sessions
         /\ latest' = {[accepted |-> admitted]}
         /\ job' = [g \in Handlers |->
              LET k == IF g = h THEN [j EXCEPT !.at = "loop"] ELSE job[g]
              IN  IF g = j.event.owner /\ admitted
                  THEN [k EXCEPT !.owing = @ - 1] ELSE k]
  /\ UNCHANGED <<now, pending>>

\* After each run: the last event of the log decides whether the request goes
\* on with its next symbol, and in the end what is answered.
Report(h) ==
  /\ job[h].at = "report"
  /\ job[h].kind # "scenario"
  /\ LET j == job[h]
         ok == \E o \in latest : o.accepted
     IN  job' = IF j.kind = "run" THEN Finish(h, Idle("none", TRUE))
                ELSE IF ok /\ j.todo # <<>> THEN [job EXCEPT ![h].at = "schedule"]
                ELSE Finish(h, Idle(IF ok THEN "accepted" ELSE "rejected",
                                    j.alone => (ok <=> j.owing = 0)))
  /\ UNCHANGED <<now, pending, sessions, latest>>

\* After each bay the next one; then the declared final state is answered, which
\* nobody reads off the bays.
SyncDone(h) ==
  /\ job[h].at = "report"
  /\ job[h].kind = "scenario"
  /\ LET j == job[h]
         script == Script(j.script)
     IN  job' = IF j.bays # <<>> THEN [job EXCEPT ![h].at = "sync"]
                ELSE Finish(h, Idle("shown",
                       j.alone => \A i \in DOMAIN ScenarioBays(j.script) :
                                    sessions[ScenarioBays(j.script)[i]] = script.shows))
  /\ UNCHANGED <<now, pending, sessions, latest>>

\* Bound: while a scenario is being played no other request comes in.
Playing == \E g \in Handlers : ~IdleAt(g) /\ "kind" \in DOMAIN job[g] /\ job[g].kind = "scenario"

Request(h) ==
  \/ ResetAll(h)
  \/ \E id \in Scenarios : ExecuteScenario(h, id) /\ \A g \in Handlers : IdleAt(g)
  \/ \E b \in Bays :
       \/ BayReset(h, b)
       \/ EmergencyStop(h, b)
       \/ Run(h, b)
       \/ \E action \in BayActions : ReadBay(h, b, action)
       \/ \E a \in Faults : InjectFault(h, b, a)
       \/ \E a \in Posted, t \in Times : AddEvent(h, b, a, t)

Serve(h) ==
  \/ Trip(h) \/ LogTrip(h)
  \/ Decide(h) \/ ScheduleNext(h)
  \/ SyncBay(h) \/ SyncDone(h)
  \/ LoopOn(h) \/ LoopOver(h)
  \/ Pop(h) \/ PopEmpty(h)
  \/ ReadSession(h) \/ ReadMissing(h) \/ Commit(h)
  \/ Report(h)

Next ==
  \E h \in Handlers :
    \/ Request(h) /\ ~Playing /\ overlap' = (overlap \/ \E g \in Handlers : ~IdleAt(g))
    \/ Serve(h) /\ UNCHANGED overlap

Spec == Init /\ [][Next]_vars

\* A thread that has taken a request is scheduled until it has answered.
FairSpec == Spec /\ \A h \in Handlers : WF_console(Serve(h))

-----------------------------------------------------------------------------
\* The comment in bay_action: an emergency stop trips a bay into
\* FAULT_TERMINAL, the unrecoverable trap of alphabet.py.  A tripped bay stays
\* tripped until somebody recycles or resets it, even if a symbol for that bay
\* is in flight.
TripSticks ==
  [][\A b \in Bays :
       sessions[b] = "FAULT_TERMINAL" /\ sessions'[b] # "FAULT_TERMINAL"
         => \E h \in Handlers : BayReset(h, b) \/ Decide(h) \/ ResetAll(h)]_vars

\* As long as clients wait for each other's answers, a bay only changes along
\* an edge of delta_S, by an emergency stop, or by starting anew.
ChangesAreEdges ==
  [][~overlap =>
       \A b \in Bays :
         \/ sessions'[b] \in {sessions[b], StartState, Absent, "FAULT_TERMINAL"}
         \/ \E a \in Alphabet : <<sessions[b], a, sessions'[b]>> \in Transitions]_vars

\* Symbols that never lead a session back to IDLE, and the hypothesis that
\* clients send no others.  (It leaves out the unplug button.)
Forward == {a \in Alphabet \cup Posted : \A t \in Transitions : t[2] = a => t[3] # StartState}

NoWayBack ==
  /\ Posted \cup Faults \subseteq Forward
  /\ \A action \in BayActions, q \in States : Range(Expansion(action, q)) \subseteq Forward

\* A reset or a recycled bay is clean: it leaves IDLE along an edge out of
\* IDLE, even when a thread still holds a target it computed for the session
\* that was replaced.  (Stated for clients with NoWayBack.)
ResetIsClean ==
  [][\A b \in Bays :
       sessions[b] = StartState
         => \/ sessions'[b] \in {StartState, Absent, "FAULT_TERMINAL"}
            \/ \E a \in Alphabet : <<StartState, a, sessions'[b]>> \in Transitions]_vars

\* An answer is about the request it answers: accepted is claimed exactly when
\* every symbol the request stood for has been admitted, although it is read
\* off the last event of a log that all requests share; and a scenario leaves
\* its bays in the state it declares, whatever state they were left in by the
\* requests before it.  This is claimed of requests that do not overlap and are
\* alone (Busy): with an event planned for later the answer of an action is that
\* event's (app.py:446), and with any event pending a scenario may end elsewhere.
AnswersAreTrue == overlap \/ \A h \in Handlers : IdleAt(h) => job[h].honest

\* No request dies of an empty queue or a missing session, whatever was left
\* pending by the requests before it.
NoServerError ==
  overlap \/ \A h \in Handlers : IdleAt(h) => job[h].answered # "error"

\* Every request is answered unless others come in meanwhile: the run loop ends
\* although each request runs whatever is pending, not only its own event.
EveryRequestAnswered == \A h \in Handlers : ~IdleAt(h) ~> (IdleAt(h) \/ overlap)
=============================================================================
