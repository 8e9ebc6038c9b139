# A formal model of the AFCO charging fleet

This directory models the automata, the runtime and the services of AFCO
(`src/afco`, a controller for electric vehicle charging built from formal
automata) in TLA+. TLC checks the models on small instances; TLAPS proves
selected properties for every value of the constants. Lines in parentheses are
those of the Python sources; `PROJECT.json` maps every definition to its lines.

1. [The system](#1-the-system)
2. [Modules and how they compose](#2-modules-and-how-they-compose)
3. [Correspondence of state and actions](#3-correspondence-of-state-and-actions)
4. [What the runs check](#4-what-the-runs-check)
5. [Fairness and deadlock](#5-fairness-and-deadlock)
6. [What is proved](#6-what-is-proved)
7. [Disagreements found](#7-disagreements-found)
8. [What is not modelled](#8-what-is-not-modelled)
9. [Plan](#9-plan)

## 1. The system

| component | state | operations | correct when |
|---|---|---|---|
| session automaton `session/canonical.py`, `alphabet.py` | none: 18 states, 28 symbols, a partial `delta_S` | `step`, `admissible_symbols` | COMPLETED is reached through the steps a driver and a bill need |
| session runtime `session/instance.py` | `current_state`, `history`, `meter_kwh`, `last_verdict` | `step`, `is_accepted`, `evaluate_trace` | a rejected symbol leaves no trace; the online and the offline verdict agree |
| repair search `session/instance.py`, `verify/explain.py` | a queue, a visited set | breadth-first search for an accepting state | it ends; the word is shortest; `None` only from a trap |
| monitors, checker `verify/properties.py`, `checker.py`, `explain.py`, `automata/product.py` | monitor states beside the session; pairs, queue and parent pointers of a check | `product_dfa`, `check_safety`, `extract_counterexample`, the repair | a verdict is right, its counterexample shortest; P2, P5 and part of P3 of `plan.md` hold |
| resource automaton `station/resource.py` | mode, connectors, booked power | 8 events, each may be refused | what is booked respects the limit of the mode |
| station product `station/composite.py`, `invariants.py` | all sessions and the resource | `successors`, `explore`, with a symmetric reduction | connectors and power follow the sessions; the reduction loses nothing |
| recovery `recovery/engine.py`, `cost.py`, `safe_states.py` | heap, `best` costs | `recover`, `recover_to_completed`, the gate's `verify` | a plan is verified; one is found if there is one |
| event clock `sim/clock.py` | `now`, queue, sequence number | `schedule`, `run`, `clear`, `reset` | events leave in order, none is late |
| fleet simulator `sim/simulator.py` | sessions, log, clock | `add_session`, `schedule`, `run`, `reset` | the log explains the sessions; no event is lost |
| live console `ui/app.py` | one simulator for all requests | resets, bay actions, faults, posted events, runs, scenarios | answers are true, an emergency stop sticks |
| NFA, subset construction `automata/nfa.py`, `subset.py` | a worklist of subsets | `epsilon_closure`, `step`, `subset_construction` | the DFA follows the runs of the NFA |
| minimization, reachability `automata/minimize.py`, `reachability.py` | a partition and a worklist of blocks | `minimize_dfa`, the four analyses | blocks are equivalence classes; the language is preserved |
| transducer and adapters `automata/transducer.py`, `adapters/*` | pairs of vendor and canonical states; the transducer's state | `load_adapter`, `check_conformance`, `step`, `transduce` | exactly the conforming adapters pass; a session never rejects what such an adapter emits |
| queue models `queue/*` | a counter, a stack | `trace`, `run`, the pumped words | the counter is the stack cut off at the capacity |
| optimizer gate `optimizer/*` | the schedule in force | `propose`, `admit` | what is in force stays within the ceiling |
| scenarios, reports, rendering | none | scripts, formatting | - |

Interaction. The canonical automaton is shared by everybody: the runtime steps
through it, the monitors run beside it, the station multiplies it with the
resource automaton, recovery searches it, the adapters are compared with it.
The fleet simulator owns sessions and a clock; the clock calls back into the
simulator, which steps a session and appends to the log. The console is a set of
synchronous FastAPI handlers, which the framework runs in a pool of threads; all
of them read and write one simulator without a lock.

The hard behaviours follow from this:

* one session releases or books station resources that others use, on edges
  that can be taken in circles (station);
* authorisation, power and payment interleave over long legal event
  sequences (monitors);
* the cheapest path is chosen by one automaton and judged by others, with a
  history the search does not see (recovery);
* a run of the clock can be cut by a time, by a budget or by an exception (clock);
* a handler works with a state it read before another thread changed it (console);
* the next block of a refinement is whatever a Python set gives (minimization).

The complete list, with the line of each and the properties that cover it, is
`hazards` in `PROJECT.json`.

## 2. Modules and how they compose

An arrow points to the module that is extended or instantiated.

```
 MCAdapters -> Adapters -> Session ----------------+
 MCConsole -> Console -----------------------------+-> SessionDFA
 MCSimulation -> FleetSimulator -------------------+      ^
                        +-> EventClock                    |
 Recovery -> MonitoredSession ----------------------------+
    +-> Following  +-> SafetyMonitors <----+              |
 MCSafetyChecker --------------------------+--------------+
       +-> SafetyChecker -> RepairSearch                  |
 MCStation -> Station -> StationRules --------------------+
                |             +-> Resource <-----+
                +-> StationProduct -> StationRules
 MCCapacity -> Resource, ReservationQueue, OptimizerGate
 MCMinimization -> Minimization -> SubsetConstruction -> Following
```

The proofs stand beside the models, in modules that extend them and `Recursion`:

| proofs | about |
|---|---|
| `StationProofs` | `Station`, `StationProduct`, `Resource`, `ReservationQueue`, `OptimizerGate` |
| `RecoveryProofs` | `MonitoredSession`, `Recovery` |
| `SimulationProofs` | `EventClock`, `FleetSimulator` |
| `ConsoleProofs` | `Console` |
| `AdapterProofs` | `Session`, `Adapters` |
| `CheckerProofs` | `RepairSearch`, `SafetyChecker` |
| `MinimizationProofs` | `SubsetConstruction`, `Minimization` |
| `Recursion` | `Following`: induction, and what following a word and growing a set compute |

* `SessionDFA` is the automaton: pure operators, no variables.
* `Resource` has one action for each resource event, and a small specification
  of the automaton alone.
* `StationRules` joins the two: which resource event an edge of a session asks for.
* `Station` is the station with identified vehicles, what the hardware has;
  `StationProduct` is what the code stores, a multiset of session states. It is
  the abstract specification, and `Station` implements it under the mapping
  that counts the vehicles in each state (`ImplementsProduct`).
* `SafetyMonitors` are the monitors of `properties.py`; `MonitoredSession` runs
  them beside `M_S`, as the product construction does.
* `Recovery` lets such a monitored session fail at any point, and then is
  `recover` as the loop over a heap, with the gate, for every evidence.
* `EventClock` is the clock with any callback. `FleetSimulator` extends it: its
  callback steps a session, and it adds the log. Every step of the fleet is a step
  of the clock or leaves it alone (`FleetImplementsClock`). `Console` interleaves handlers at the points where
  the code reads and writes shared state; there the clock is its pending
  events and `now`.
* `Session` is the runtime with its verdicts. `Adapters` puts a protocol adapter
  in front of it: a document is loaded, refused, or checked pair by pair against
  `M_S`, and the transducer of a loaded one offers its emissions to the session.
* `RepairSearch` is the search, over any partial automaton and not only the
  canonical one. `SafetyChecker` is `check_safety` around it: the product, its
  reachable pairs, the counterexample, the replay, and then the repair search
  from the state the replay ends in. `MCSafetyChecker` gives it `M_S`, the five
  property automata, and all small pairs of automata.
* `ReservationQueue` reads one word by the counter and by the stack.
  `OptimizerGate` disposes of one proposal after the other. With `Resource` they
  are independent, and `MCCapacity` checks one of the three per behaviour.
* `Following` has the two loops that the program has in many places: a word is
  followed symbol by symbol, and a set grows until nothing is new.
* `SubsetConstruction` and `Minimization` are the two worklist algorithms, the
  second behind the first or on a DFA of its own.

The MC modules define the values of constants. `MCCapacity` and `MCSimulation`
also choose one of their subjects per behaviour, and `MCConsole` one of two
settings. Parameters carry named assumptions (`ASSUME`), which TLC evaluates in
every run of the module.

## 3. Correspondence of state and actions

| module | variables | the code's state | actions and the code they stand for |
|---|---|---|---|
| `Resource` | `occupied`, `power`, `grid` | `ResourceState` | one for each `ResourceEvent` of `SharedResourceAutomaton.step`; a `None` is a disabled action |
| `Station` | `session` and the resource's | `CompositeState` before sorting | a vehicle moves by a symbol with its resource transition, and the invariants hold of the target: `successors` |
| `StationProduct` | `count` and the resource's | `CompositeState`, sorted | the same on the multiset of states |
| `MonitoredSession` | `state`, `p1`, `p2`, `p3`, `p5` | a state of `product_dfa` with each monitor | one step of all components |
| `Session` | `current`, `history`, `ticks`, `verdict`; history `word` | the fields of `SessionInstance` | `step`, in one action: normalisation, rejection with its verdict, or edge, energy, acceptance |
| `Adapters` | `file`, `validate`, `phase`, `seen`, `pending`, `errors`, `vendor` and the session's | a call of `load_adapter`, locals of `check_conformance`, the transducer's state | refusing or building a file, one turn of the exploration, the conclusion, an event with its emission stepped by the session, an unknown event |
| `RepairSearch` | `visited`, `queue`, and the loops' `at`, `path`, `sym` | locals of `find_shortest_repair_path` | the call, taking a state, and one action for each branch of the inner loop |
| `SafetyChecker` | `pairs`, `frontier`, `marked`, `reached`; `parent`, `fifo`, `pair`, `letter`, `word`, `here` and the search's | locals of `product_dfa`, `forward_reachable`, `extract_counterexample`, `check_safety` | a layer of pairs at once where the order of the queue has no influence; the search for the counterexample symbol by symbol, its traceback, the replay, the repair |
| `ReservationQueue` | `states`, `stack`, `counterAt`, `stackAt`; history `input` | locals of `trace` and `run` | one symbol, read by both |
| `OptimizerGate` | `schedule`, `reason`; history `trusted` | the last `AdmissionVerdict` | `admit` of a proposal, in one of the orders of `propose` or any, with whatever fallback its caller passes |
| `Recovery` | the monitored session's, `phase`, `safe`, `queue`, `best`, `serial`, `plan`; history `rival` | locals of `recover` | one for each outcome of a `heappop`: stale, rejected by the gate, found, expanded with all pushes |
| `EventClock` | `now`, `queue`, `sequence`; `running`, `until`, `left`; history `last` | `DiscreteEventClock`, and the locals of `run` | `schedule_at`, entry of `run`, each dispatch with what its callback schedules or raises, return, `clear`, `reset` |
| `FleetSimulator` | the clock's, `sessions`, `payload`, `events` | `FleetSimulator` | `add_session`, `schedule` and its refusal, `_apply` as the callback, `run`, `reset` |
| `Console` | `now`, `pending`, `sessions`, `latest`, `job`; history `overlap` | the simulator, and the threads | each handler is cut where it reads or writes what another thread can change |
| `SubsetConstruction` | `nfa`, `dfa`, `queue`, `phase` | locals of `subset_construction` | a turn of its loop: a subset with all its symbols |
| `Minimization` | `active`, `blocks`, `worklist`, `splitter`, `todo`, `minimal` | locals of `minimize_dfa` | pruning, the case without acceptance, the start, a pop, a symbol's splits of all blocks, the quotient with any samples |

Conversions are modelled by what they do: `_normalize_symbol` compares with the
value the alias really has; sorting of session states is the passage to counts;
a subset of NFA states is its own name, and a merged state is its block.

## 4. What the runs check

Runs that must pass:

| run | question | instance and why it is enough |
|---|---|---|
| `capacity` | is what is booked within the limit of the mode, in any order of orders and requests? Do counter and stack agree? Is a schedule in force within the ceiling, unless a caller brought in a fallback the gate would refuse? | 3 connectors, limits 15 and 7, the default tiers in units of 10 kW: a limit is met exactly, missed and crossed; all words of 9 operations at capacity 3; all proposals of up to 4 items of -1, 1 and 2 units under a ceiling of 3, and a queue of 3; fallbacks are the schedule in force and all lists of up to 2 items, safe and unsafe ones |
| `station` | has every cable a connector, has booked power a session that can release it unless one has been tripped, can a driver always unplug, and does the multiset of states lose nothing? | 3 vehicles on 3 connectors: one to book, one to release what it does not own, one to watch. Limits 2 and 1, so that both refuse something. The refinement forbids symmetry |
| `recovery` | do P2, P5 and the settlement of completed sessions hold on every run of `M_S`, accepted or not? Is a plan verified, is one found if there is one, does the search end? | all reachable pairs of session and monitor states, all evidence, default costs. `MaxCost` = 8 bounds only how far an observer follows another path when there is no plan; it does not restrict the search |
| `adapters` | does `check_conformance` accept exactly the conforming adapters, for every order of its exploration? Is a validated one never rejected? Do the online and the offline verdict agree on whatever an adapter emits? Does loading return? | the three shipped adapters, the malformed one, one document for each complaint of the loader, all 1936 machines of three rows over four symbols, one of them unknown to `M_S`, and the silent emission, on two vendor states and a dead end behind them; and, not validated, a machine that emits any of seven symbols six times, with the shorthand, a path to payment and back. An adapter emits at most `Patience` symbols: 16 for those of the second kind, enough for a whole lifecycle, 3 for the small ones |
| `checker` | is the product exact (union and difference: of pairs that have every transition their words need), the verdict right, the counterexample and the repair shortest, and does the check return? | `M_S` with P1 to P5; every pair of a session automaton of 3 states and a property automaton of 2 over 2 symbols, in all three modes; automata of 5 states with two branches of different length, so that the order of visits matters; repairs from every state of `M_S` and in automata with circles and dead ends |
| `automata` | does the subset construction follow the runs of the NFA? Are the blocks the equivalence classes for every order of the worklist, is the language preserved, are traps, does it end? | NFAs of 2 nodes over 2 symbols and of 3 over 1, with silent transitions in a circle; partial DFAs of 3 states over 2 symbols and of 4 over 1, unreachable and dead states included. With 5 states, the sink included, in 3 initial classes, words of length 2 tell apart what can be told apart; `Words` are all words up to length 3 |
| `simulation` | do events leave in order and never late, as long as no run gives both limits, and does `run` return? Does the log explain every session, accept exactly what `delta_S` defines, and lose no event? | the clock: times 0..2, 4 events, callbacks that raise or schedule a follow-up (`MaxFollowUps` = 1: a callback that always schedules another keeps `run` busy by design). The fleet: 2 sessions, 3 events, 2 instants, a symbol outside the alphabet. Runs without a limit and with each of the two |
| `console` | can a session that was replaced come back? As long as requests do not overlap: is there no server error, do bays change along edges, is every request answered, and truly where it is alone? | 1 bay, buttons that start and recycle a session, a fault, the ten scenarios of one bay; either one client who waits for each answer, with up to 2 events posted for 2 instants, or two clients who do not wait, with one event posted for the present |

Runs that show a disagreement with the documents (section 7): `station_draw`,
`gate_fallback`, `console_lost_trip`, `recovery_cheapest`. Each checks one property.

Every property of a passing run has a mutant in `PROJECT.json`: a definition
changed as a plausible bug would change it, on which the property fails.

### Bounds

`MaxOffers`, `Patience`, `MaxSequence`, `Horizon`, `MaxFollowUps`, `MaxPending`,
`MaxCost`, `MaxItems`, `MaxFallback` and `MaxWord` are named in the modules'
`CONSTANTS`, and so are `Words`, the words the automata are compared on, and
`FleetEvents` and `FleetHorizon`, which keep the fleet within fewer events and
instants than the clock alone. `Playing` in `Console` is a guard: it lets no other
request in while a scenario is being played (its words have up to 14 symbols, and
interleaving them with a second client multiplies the states).

`MCConsole` splits the console's behaviours in two, as time and clients together
are too many states. One client (`OneClient`) meets events planned for later: the
clock moves while a request is served, a posted event is due before, with or
after the symbols of the next request, or late and refused. Two clients
(`PostedNow`) overlap in every way at one instant. What is claimed of clients
that wait for each other does not tell a client from another, so that one is
enough for it. The scenarios of three bays (D9, D12, D13) are in the module and
not in the run, where they would multiply the states of `v1` by those of `v2`
and `v3`.

### Properties worth a comment

* `ConnectorPerCable` is an inequality: no more cables than booked connectors.
  Equality does not hold, because an edge can leave the cable plugged in without
  the state saying so (section 7).
* `BookedPowerHasHolder`: while power is booked, a session charges, is paused or is
  suspended by the station, and its `power_stop` releases it, or a session has been
  tripped. `FAULT_TERMINAL` has no outgoing edge and the edges into it release
  nothing, so a trip can leave a booking that its session never releases
  (section 7); the property says that nothing else can.
* `UnplugNeverRefused` holds after trips too: wherever `unplug` is admissible and
  power is booked, somebody else still holds a connector.
* `BookedWithinModeLimit` is about what is *booked*. What is *drawn* is another
  matter (`station_draw`).
* `CompletedIsSettled` is the part of P3 that holds: a completed session has paid
  since its last `power_stop`.
* `OnlineMeetsOffline` replays the history, which must give the current state and
  the energy, and compares the verdict kept live with `evaluate_trace` of the word; `last_verdict` is only renewed by a rejection or by acceptance, so the
  comparison is not trivial.
* `SearchSettles` is Dijkstra's bound, stated with an observer (`rival`) that
  walks any other verified path: below the cost of the plan, or anywhere when
  there is no plan, the search has reached every state at least as cheaply.
* `NothingLost`: what was scheduled for a session since the last reset is pending
  or logged.
* `AnswersAreTrue` is claimed of requests that do not overlap and are alone (`Busy`):
  an action that begins with no event planned for later, a scenario that begins
  with no event pending. Section 7 says what is answered otherwise. Events pending
  for the present, for the same bay and with the same symbol too, are allowed to
  an action.
* `ResetIsClean` holds with overlapping requests too: a thread that computed a
  target for a session that was replaced writes it into the old object. It is
  stated of clients whose symbols never lead a session back to `IDLE`
  (`NoWayBack`, which TLC evaluates of the run's buttons), since a session that
  returns there by itself is still the one that the thread holds.
* `overlap` is a history variable of `Console`: the properties about clients
  that wait for each other hold until two requests first overlap.
* `ConformanceIsExact` compares the exploration with what the four rules ask of
  all words of vendor events, up to the number of pairs. `AdapterNeverRejected`
  is what the check is for, stated of the session that the adapter drives.
* `ProductIsExact` compares the pairs and their marks with the two automata run
  side by side on every word. For union and difference it is claimed of
  pairs that have the transitions their words need, and of no others: it does
  not cover the words that are lost there (section 7).
* `CounterexampleIsShortest` also says that the session state the replay ends in
  is the state of `M_S` at the end of the counterexample. That state accepts,
  whatever the property, so the repair of a violation is always empty.
* `CounterFollowsStack`: the two queue models share no code; the property says
  when each rejects, relative to the balance of the word.
* `ScheduleWithinCeiling` is about every subset of the scheduled sessions, as a
  negative request would hide a positive one in the total, and about chains of
  refusals with any fallbacks. Its hypothesis is `trusted`: what is in force was
  not brought in as a fallback that the gate would have refused. Without it, the
  property is what `plan.md:305` says, and false (`gate_fallback`).
* `BlocksAreClasses` holds for every order of the worklist, and needs both of
  Hopcroft's rules: a block that waits is replaced by both halves, any other by the
  smaller one.
* `SubsetsFollowRuns` compares `epsilon_closure` with the definition of a
  closure: what every closed set that contains the start contains.

## 5. Fairness and deadlock

* Clock: weak fairness of the loop of `run`. It is a `while` on the calling
  thread, nothing else is awaited in it.
* Console: weak fairness of the next step of each handler (`Serve`), stated of
  the program's variables. A pool thread that is running is scheduled again;
  there is no lock to wait for. `EveryRequestAnswered` is claimed only while
  requests do not overlap: every handler runs whatever is in the queue, and other
  clients can keep it filled.
* Recovery, the checker with its repair, the loading of adapters and the automata
  algorithms: weak fairness of the next step, a loop that has been called.

No liveness is claimed of a driver: a session may stay in any state.

`CHECK_DEADLOCK FALSE` is given where the system may really stop: sessions that
have reached `FAULT_TERMINAL` (a trap by design), a word or a proposal that has
reached its bound, an adapter that was refused or has used up its patience, a
station all of whose sessions are trapped, and a search or an algorithm that has
returned. The simulation and console runs check deadlock.

## 6. What is proved

All proofs are checked by TLAPS for every value of the constants that the named
assumptions allow. Every invariant and every action property of a passing run is
stated by a theorem; `theorems` in `PROJECT.json` lists them. What follows names
the theorems, the invariant each rests on, and why it is needed.

**Recursion** (`Recursion`). The library's induction theorems take operators as
parameters, which the provers cannot instantiate, and a function that is defined
by recursion says nothing until it is known to exist. Both are therefore stated
of sets: a non-empty set of numbers has a smallest member (`SmallestMember`), a
set that holds 0 and is closed under the successor holds every number
(`Induction`), a set of words that is closed under appending holds every word
(`WordInduction`), and a recursive function exists as the union of its finite
approximations (`RecursionExists`). From these come what `Follow` does with a
longer word (`FollowLonger`, `FollowCons`), and that a growing subset of a finite
set is closed after as many rounds as the set has members (`GrownCloses`).

**The station** (`StationProofs`; any number of vehicles and connectors, any limits
and tiers that satisfy `ConfigAssumption` and `VehiclesAssumption`). The
invariant joins the types, `ConnectorPerCable` and `BookedPowerHasHolder` with
the limits, and only the conjunction is inductive. It has the holder in the form
`Accounted`, with the tripped session among the states that account for power,
which is the same (`HolderIsAccounted`). A disconnect is admitted by the resource
automaton when a connector is booked, which `ConnectorPerCable` supplies; power
must not be left booked when the last charging session goes, which needs the
edge lemmas (which edges enter and leave the states that account for power, by
inspection of `delta_S`). Cardinality lemmas say how the set of vehicles in a
class of states changes when one vehicle moves. From the invariant follow
`StationTypeOK`, `StationConnectorPerCable`, `StationBookedPowerHasHolder`,
`StationUnplugNeverRefused`, and `FilterIsRedundant`: the check of the invariants
on the target (`composite.py:108`) never refuses a transition the resource
automaton has admitted. `ResourceWithinModeLimit` is about the resource automaton
alone, whatever events it is sent. `StationImplementsProduct` is the refinement:
every step of the station with identified vehicles is a step of the product
under the mapping that counts vehicles per state.

**The gate and the queue** (`StationProofs`). `GateKeepsCeiling`, for any fallbacks:
a schedule that the gate admits, or would have admitted, has no negative request,
so a subset of it adds up to no more than all; `trusted` says that the one in
force is such a schedule. Sums over sets are folds, whose order is any; `AddsAgree` shows by
induction over finite sets (`SubsetInduction`) that it has no influence. That an
order of the optimizer is a list of the same items needs its ranks to be distinct
(`BeforeIsTotal`, `ProposalTypes`). `CounterMeetsStack`: both models are watched
along the balance of the word. The invariant says of each that the first position
at which the balance leaves its range is the one it has stopped at (`Watches`),
and what the trace and the height are before (`IsTrace`, `IsHeight`); the balance of
a pumped word rises to its middle and falls after it (`PumpedBalance`).

**The monitors** (`RecoveryProofs`): P2 (`SessionNoLiveDisconnect`), P5
(`SessionEmergencyIsolates`) and `SessionCompletedIsSettled`. The strengthening,
`Coherent`, says in which states of the lifecycle each monitor can be in its
middle state. `RecoveryRunsSession` carries it to the session that is recovered.

**Recovery** (`RecoveryProofs`; every target set of the engine, every state and
history a session can fail in, the costs of `cost.py`). `PlansAreVerified` follows
from what is said of each heap entry (`Entry`): its path leads where it says, costs
what it says, and takes the monitors where a replay takes them. `SearchSettlesStates`
is Dijkstra's argument: a state is unreached, waits in the heap at its cost, is a
safe state, or has offered its cost to its neighbours (`Reaching`). A rejected
candidate breaks this argument for the states behind it, which is what
`recovery_cheapest` shows; that it never costs a plan altogether
(`NoPathOnlyIfNone`) therefore needs the session automaton: `Away` is a distance
to safety that no edge beats, and an entry that leads as much closer as it
costs is passed by the gate unless the history was bad before. One of them
always waits. `GivesUpOnlyIfHopeless`: without a plan the
session is in the trap, or a monitor has condemned its history already.

**The clock and the fleet** (`SimulationProofs`). `ClockDispatchesInOrder` holds of
all calls. Under `SingleLimit` (no run gives both limits), `ClockInvariant` (no
pending event in the past) and `ClockNeverBackwards`, for any horizon and number of
events; the assumption is necessary (section 7). `FleetLogExplains` and
`FleetLosesNothing`: sequence numbers are fresh (`Numbered`), pending and logged
events belong to registered sessions (`Addressed`, `Attributed`), and a longer log
leaves every other session where it was. `FleetImplementsClock` is the
refinement of the clock.

**The console** (`ConsoleProofs`; any clients, bays, faults, posted symbols,
horizon). `ConsoleTyped` says among others that every event has a session, which a
reset preserves because it makes the session anew at once. As long as no request
has overlapped another: `RequestsDoNotFail` (the handler is alone between its look
at the queue and its pop, `Undisturbed`), `BaysFollowEdges` (a target is committed
into the state it was computed from, `Settled`), and `AnswersAreTrueNow`, for every
time an event may be posted for. Of a request that is alone, whatever is pending
is due until it is answered (`Timely`), so that what it schedules comes last and
the last log entry is its own: what a handler has counted is what the log of its own
symbols says. A scenario stands in its word where the state of its bay is on
the course of that word (`Showing`). Of requests that are not alone the claim is
false (section 7). `ResetBaysAreClean` is about overlapping requests: a live target in a bay
that is `IDLE` was computed from `IDLE` (`Fitting`). It assumes `NoWayBack`, which
leaves out the unplug button: with it, a session returns to `IDLE` and is still the
object whose target another thread holds.

**The session runtime and the adapters** (`AdapterProofs`; every document, any
number of events, any order of the exploration). `SessionMeetsOffline`: the session
has followed the symbols it accepted, and of the whole word it knows that nothing
was rejected yet, or that it was rejected somewhere, with the verdict of the first rejection while it
is the last symbol (`SessionInv`). `AdapterMeetsOffline` says it of a session
behind any adapter. `ValidatedAdapterNeverRejected`: when the check has ended without
error every found pair is recoverable, every edge from it emits something `M_S`
admits and leads to a found pair, and the running pair is one of them.
`ConformanceCheckIsExact` is the converse too: found pairs are those that words lead
to, and words as long as there are pairs lead to all of them (`DepthIsEnough`,
`WithinCloses`).

**The repair search** (`CheckerProofs`; every automaton). `SearchNoneMeansTrapped`:
what is visited is queued or has been scanned (`Frontier`), what the inner loop has
passed leads to visited states (`Scanned`), and the answer `None` finds nothing left
in the queue (`Drained`). `SearchRepairIsShortest`: the queue is ordered by length
and holds at most two lengths, everything within the shorter is visited
(`Layered`), and each path leads to its state (`Replays`).

**The checker** (`CheckerProofs`; every pair of automata). `ProductRecognises`: the
pairs built are those that words lead to, and are marked as the mode asks.
`SafeIsSound`: the verdict "safe" is given only if the pairs reached are closed under
the joint transitions and none is accepted by both. `CounterexampleShortest` has one
part of the invariant for each phase: words spelt by the parent pointers, in the
order of their lengths (`Explaining`), what is traced back and what is left of it
(`Tracing`), and the state at each letter of the replay (`Replaying`).
`CheckerImplementsSearch` maps the checker to the repair search on the
search's own variables, so that `RepairNoneMeansTrapped` and `RepairWordIsShortest`
follow from the theorems of the search.

**Subset construction and minimization** (`MinimizationProofs`; every automaton, and
every order of the worklist). `SubsetConstructionIsExact`: the subset a word leads to holds
the ends of its runs; the silent closure is the least closed set
(`EpsilonClosureIsLeast`). `BisimilarStayTogether`: all blocks and the splitter are
unions of bisimulation classes (`Saturated`). `RefinementIsExact` adds the other half,
that no split is lost: where successors of a block are in different blocks, a
splitter that separates them is still to come (`SplitsRemain`), which is where both of
Hopcroft's rules for the worklist are used. It assumes that `Words` is all words,
as two states may otherwise be told apart by a word that is not asked for. From the exact
partition follow `MinimalAcceptsTheSame` and `MinimalKeepsTraps`, whichever members
of the blocks the transitions are read from.

The assumptions are the named `ASSUME`s of the modules, which TLC evaluates in the
runs: ranges of the configuration, finiteness of vehicles and nodes, transition
functions that are defined on the states of their automaton, documents whose states
are a list, buttons and scenarios that exist, the sizes of the alphabet and of the
set of states that the source asserts.

Model-checked only: liveness (`RunReturns`, `EveryRequestAnswered`,
`RecoverReturns`, `CheckReturns`, `ConformanceReturns`, `MinimizationReturns`), which
rests on fairness and `ENABLED`, out of the reach of TLAPS.

## 7. Disagreements found

| run | what the code does |
|---|---|
| `station_draw` | `ev_stop` releases what is booked (`composite.py:89`), and `ev_ready`, which resumes the session from `SUSPENDED_EV` to `CHARGING`, books nothing (`composite.py:90`): another that started meanwhile and the resumed one draw more than the site allows. This is the cause in the shortest runs. Without that edge the limit is exceeded on longer ones, as a `power_stop`, ramp-down or `ev_stop` of one session releases the power of all (`composite.py:84`, `89`) and others may start while the rest still charge |
| `gate_fallback` | a refusal is answered with the caller's fallback, which `admit` does not check (`gate.py:33`, `36`, `39`), so that an unsafe schedule may take the place of an unsafe proposal; `plan.md:305` has the kernel enforce a safe one. D12 passes a fallback that was never admitted, though it is admitted next (`gate.py:59`) |
| `console_lost_trip` | a transition in flight overwrites an emergency stop and takes the bay out of `FAULT_TERMINAL` |
| `recovery_cheapest` | a rejected candidate stays in `best` and shadows dearer, verified paths to its state; a costlier plan to another state is returned |

Seen while modelling, and left to the models without a run of its own:

* `CABLE_DETECTED` is left by `pilot_lost` or `auth_req` without a disconnect and
  entered again from `UNLOCKED` with another connect: one vehicle occupies two
  connectors. `ConnectorPerCable` is therefore an inequality.
* A second `power_start` in `CHARGING` books a second tier, although the edge is
  called idempotent (`canonical.py:118`).
* A curtailment is refused while more than the curtailed limit is booked.
* Partial stops leave amounts booked that are no tier.
* The edges into `FAULT_TERMINAL` release neither power nor connector
  (`composite.py:90`), and none leads out. What a tripped session has booked stays
  until some other session's stop releases it with its own; until then, or for
  ever, healthy bays are refused their starts. `plan.md:482` (I3) wants a fault
  isolated "without perturbing healthy sessions".
* P1 and the whole of P3 do not hold of every run of `M_S`; the repository's
  tests record both (`tests/test_verification/test_step3.py:14-18`). The session plugs in from `IDLE` and completes without an
  authorisation, or goes back to it after `power_stop`.
* The alias `RESERVE` is the symbol `reserve_req` itself: nothing is normalised,
  and `step("reserve")` is rejected.
* A run that spends `max_events` before `until` still moves the clock to
  `until`, past pending events, and the next dispatch moves it back. The clock's
  run and theorems are about calls with at most one limit.
* `product_dfa` takes a transition only where both automata have one
  (`product.py:58`). Its docstring gives union and difference as `L(M1) OR L(M2)`
  and `L(M1) \ L(M2)` (`product.py:24-26`), which partial automata then lose words
  of. The checker uses the intersection only, which loses none.
* `check_safety` looks for a repair from the end of the counterexample, where
  `M_S` accepts: the repair of a violation is the empty word.
* `plan.md:302` lists starvation freedom among what the gate checks; the code
  checks requests, their sum and the length of the queue (`gate.py:31-40`).
* A vendor state without a way on is conforming as long as the canonical state
  beside it can complete: trap freedom is asked of the canonical state
  (`conformance.py:78-80` calls the check structural).
* With an event planned for later, a bay action is answered with the last entry
  of the log (`app.py:446`), which may be that event's. It is run too, as `run` has
  no limit, and it is behind the symbols of the action. A scenario answers a
  constant, and events pending for its bay may take the bay elsewhere.

## 8. What is not modelled

* Console: the `ValueError` of two threads that both find a session missing and
  add it, and of a clock that moves between the read of `now` and `schedule`; the
  `KeyError` of an emergency stop whose session a reset removes between its look and
  its read. `Commit` writes the session and the log entry in one step, where
  another thread's entry could come between. The
  budget of a run (`max_events`) is abstracted: the run may stop after any
  event. What a scenario computes in objects of its own (verdicts, plans,
  metrics) is left out, and requests that come in during a scenario are. Pages and
  read-only endpoints change nothing.
* Station: `initial_states` other than all `IDLE` (no caller gives any), and the
  metrics of `explore`.
* Recovery: the history is abstracted to monitor states, whose bad states absorb,
  and costs are the defaults. `recover_to_completed` is the target set
  `{COMPLETED}`; its swap of the engine's safe states is not, since no engine is shared.
* Adapters: reading the file and the YAML syntax; a document is what the parser
  returns. The texts of errors are their kinds, and the number of checked
  transitions is left out. `_reachable` is not called by anything.
* Checker: the layout of the reports; `is_globally_safe` is the conjunction of
  the five checks.
* The nondeterministic reading of the pushdown automaton (`transitions`) only
  describes its two rules.
* `NFA.accepts` and the constructors' checks are the subset run and the
  assumptions of `SubsetConstruction`; names of merged states are left out.
* Scenario scripts outside the console, reports and rendering: their runs are
  runs of the models, and formatting has no state.

## 9. Plan

In order of importance:

1. Done: all the components of section 1 but scenarios, reports and rendering; the
   proofs of section 6, which state every safety invariant and action property
   that a passing run checks.
2. Proofs: of several bays under overlapping requests, what each request can
   still claim; that a recovery plan is cheapest among the plans that no
   rejected candidate shadows; the number of blocks as a measure, from which
   termination of the minimization would follow outside of temporal logic.
3. Recovery with other costs than the defaults; scenarios of three bays with two
   clients; seeded stations (`initial_states`), if a caller appears.

A run is worth adding where it asks a new question; where two questions share
a state space, their properties share a run.
