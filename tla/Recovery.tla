------------------------------ MODULE Recovery ------------------------------
(***************************************************************************)
(* Recovery (afco/recovery/engine.py, cost.py, safe_states.py): a session  *)
(* runs until it fails; from the state it is in, and the history it has,   *)
(* Dijkstra's algorithm looks for a cheapest path to a safe state, and a   *)
(* gate replays history and path through the property monitors before a    *)
(* plan is returned.  The gate only asks whether a monitor has ever been   *)
(* bad, which is absorbing, so a history is the state of its monitors.     *)
(***************************************************************************)
EXTENDS MonitoredSession, Following, FiniteSetsExt

CONSTANT MaxCost \* bound: the costs up to which an unplanned rival is followed

ASSUME MaxCostAssumption == MaxCost \in Nat

VARIABLES
  phase,  \* live, search or done
  safe,   \* active_safe_states
  queue,  \* the heap: entries [cost, serial, at, path]
  best,   \* the cheapest cost known of each state
  serial, \* the next serial number
  plan,   \* the RecoveryPlan
  rival   \* history: another verified path from the failed state, or nothing

searchVars == <<safe, queue, best, serial>>
vars == <<monitoredVars, phase, searchVars, plan, rival>>

\* Symbols in the order of sorted(..., key=str).
SymbolOrder ==
  <<"auth_fail", "auth_ok", "auth_req", "cable_fault", "contactors_open",
    "e_stop", "ev_ready", "ev_stop", "grid_curtail", "lock_fail", "lock_ok",
    "meter_final", "meter_tick", "overcurrent_trip", "pay_fail", "pay_ok",
    "pilot_lost", "plug_in", "power_ramp_down", "power_start", "power_stop",
    "precharge_ok", "reserve_req", "reset_cmd", "session_close", "unlock_ok",
    "unlock_req", "unplug">>
Rank == [a \in Alphabet |-> CHOOSE i \in DOMAIN SymbolOrder : SymbolOrder[i] = a]

\* TransitionCostModel with the default RecoveryCost.
Cost(a) ==
  CASE a = "reset_cmd" -> 5
    [] a \in {"power_stop", "power_ramp_down", "contactors_open",
              "unlock_req", "unlock_ok"} -> 2
    [] OTHER -> 1

BaseSafe == {"IDLE", "PAUSED_DISPATCH", "SUSPENDED_EV", "SUSPENDED_EVSE",
             "RAMP_DOWN", "ISOLATING", "UNLOCKED", "UNPLUGGED",
             "BILLING_PENDING", "COMPLETED"}

SafeStates(linkIntegrity, meterVerified) ==
  (BaseSafe \cup (IF linkIntegrity /\ meterVerified THEN {"CHARGING"} ELSE {}))
    \ (IF linkIntegrity THEN {}
       ELSE {"PAUSED_DISPATCH", "SUSPENDED_EV", "SUSPENDED_EVSE"})

\* What recover is asked for: safety under some evidence, or completion.
Targets == {SafeStates(l, m) : l \in BOOLEAN, m \in BOOLEAN} \cup {{"COMPLETED"}}

\* The monitors, and what the gate makes of a word read after the history.
History == [p1 |-> p1, p2 |-> p2, p3 |-> p3, p5 |-> p5]
Read(m, a) == [p1 |-> P1Next(m.p1, a), p2 |-> P2Next(m.p2, a),
               p3 |-> P3Next(m.p3, a), p5 |-> P5Next(m.p5, a)]
Verified(m) == /\ m.p1 # "p1_bad" /\ m.p2 # "p2_bad"
               /\ m.p3 # "p3_bad" /\ m.p5 # "p5_bad"
Monitors == [p1 : P1States, p2 : P2States, p3 : P3States, p5 : P5States]
Reading == [p \in Monitors \X Alphabet |-> Read(p[1], p[2])]
\* The state the monitors end in.
Replay(path) == Follow(Reading, History, path)
Gate(path) == Verified(Replay(path))

Unreached == 1000 \* float("inf"), above every cost of a path
Plan(status, target, path, cost) ==
  [status |-> status, target |-> target, path |-> path, cost |-> cost]
NoPlan == Plan("none", "", <<>>, 0)
NoRival == [at |-> "", history |-> History, cost |-> 0]

Init ==
  /\ MonitoredInit
  /\ phase = "live"
  /\ safe = {} /\ queue = {} /\ serial = 0
  /\ best = [q \in States |-> Unreached]
  /\ plan = NoPlan
  /\ rival = {}

\* The session goes on.
Continue(t) ==
  /\ phase = "live"
  /\ MonitoredStep(t)
  /\ UNCHANGED <<phase, searchVars, plan, rival>>

Done(p) ==
  /\ phase' = "done"
  /\ plan' = p
  /\ rival' = {[at |-> state, history |-> History, cost |-> 0]}

\* recover from a state that is safe already: only the history is verified.
RecoverInPlace(S) ==
  /\ phase = "live"
  /\ state \in S
  /\ safe' = S
  /\ Done(IF Gate(<<>>) THEN Plan("FOUND", state, <<>>, 0)
                        ELSE Plan("REJECTED", "", <<>>, 0))
  /\ UNCHANGED <<monitoredVars, queue, best, serial>>

\* recover from any other state starts the search there.
Recover(S) ==
  /\ phase = "live"
  /\ state \notin S
  /\ phase' = "search"
  /\ safe' = S
  /\ queue' = {[cost |-> 0, serial |-> 0, at |-> state, path |-> <<>>]}
  /\ best' = [best EXCEPT ![state] = 0]
  /\ serial' = 1
  /\ UNCHANGED <<monitoredVars, plan, rival>>

\* The entry that heappop takes: the heap orders by cost, then serial number.
Popped(e) ==
  /\ phase = "search"
  /\ e \in queue
  /\ \A f \in queue \ {e} : e.cost < f.cost \/ (e.cost = f.cost /\ e.serial < f.serial)

\* The cost of the path of e with a behind it.
Reached(e, a) == e.cost + Cost(a)

\* A mutant: the push has left the loop, so that only the last symbol counts.
RelaxedLast(e) ==
  {a \in Admissible(e.at) :
     /\ Reached(e, a) < best[Target(e.at, a)]
     /\ \A b \in Admissible(e.at) : Rank[b] <= Rank[a]}

\* The symbols whose edge out of e.at is relaxed: it is cheaper than anything
\* known of its target, the symbols sorted before it included.
Relaxed(e) ==
  {a \in Admissible(e.at) :
     /\ Reached(e, a) < best[Target(e.at, a)]
     /\ \A b \in Admissible(e.at) :
          Target(e.at, b) = Target(e.at, a) /\ Rank[b] < Rank[a] => Cost(a) < Cost(b)}

\* The entries that are pushed, with serial numbers in the order of the symbols.
Pushed(e) ==
  LET relaxed == Relaxed(e)
  IN  {[cost |-> Reached(e, a), at |-> Target(e.at, a), path |-> Append(e.path, a),
        serial |-> serial + Cardinality({b \in relaxed : Rank[b] < Rank[a]})]
         : a \in relaxed}

\* An entry that has been overtaken by a cheaper one is skipped.
PopStale(e) ==
  /\ Popped(e)
  /\ e.cost # best[e.at]
  /\ queue' = queue \ {e}
  /\ UNCHANGED <<monitoredVars, phase, safe, best, serial, plan, rival>>

\* A safe state has been reached at its cheapest.
Candidate(e) == Popped(e) /\ e.cost = best[e.at] /\ e.at \in safe

\* A mutant: the first rejected candidate ends the search.
PopRejectedGivesUp(e) ==
  /\ Candidate(e) /\ ~Gate(e.path)
  /\ Done(Plan("NO_PATH", "", <<>>, 0))
  /\ UNCHANGED <<monitoredVars, searchVars>>

\* A candidate that the gate rejects is dropped, and not expanded.
PopRejected(e) ==
  /\ Candidate(e) /\ ~Gate(e.path)
  /\ queue' = queue \ {e}
  /\ UNCHANGED <<monitoredVars, phase, safe, best, serial, plan, rival>>

\* A mutant: the gate is not asked.
PopFoundUnverified(e) ==
  /\ Candidate(e)
  /\ Done(Plan("FOUND", e.at, e.path, e.cost))
  /\ UNCHANGED <<monitoredVars, searchVars>>

PopFound(e) ==
  /\ Candidate(e) /\ Gate(e.path)
  /\ Done(Plan("FOUND", e.at, e.path, e.cost))
  /\ UNCHANGED <<monitoredVars, searchVars>>

\* A mutant: the entry stays in the heap.
RemainingAll(e) == queue
Remaining(e) == queue \ {e}

Expand(e) ==
  /\ Popped(e) /\ e.cost = best[e.at] /\ e.at \notin safe
  /\ LET pushed == Pushed(e)
     IN  /\ queue' = Remaining(e) \cup pushed
         /\ best' = [q \in States |->
                       Min({f.cost : f \in {g \in pushed : g.at = q}} \cup {best[q]})]
         /\ serial' = serial + Cardinality(pushed)
  /\ UNCHANGED <<monitoredVars, phase, safe, plan, rival>>

Exhausted ==
  /\ phase = "search"
  /\ queue = {}
  /\ Done(Plan("NO_PATH", "", <<>>, 0))
  /\ UNCHANGED <<monitoredVars, searchVars>>

Search ==
  \/ \E e \in queue : PopStale(e) \/ PopRejected(e) \/ PopFound(e) \/ Expand(e)
  \/ Exhausted

\* The rival follows any path to its first safe state, as long as the monitors
\* stay good and it is cheaper than the plan.
Rival(t) ==
  /\ phase = "done"
  /\ \E r \in rival :
       LET m == Read(r.history, t[2])
           c == r.cost + Cost(t[2])
       IN  /\ r.at = t[1] /\ r.at \notin safe
           /\ Verified(m)
           /\ c <= (IF plan.status = "FOUND" THEN plan.cost - 1 ELSE MaxCost)
           /\ rival' = {[at |-> t[3], history |-> m, cost |-> c]}
  /\ UNCHANGED <<monitoredVars, phase, searchVars, plan>>

Next ==
  \/ \E t \in Transitions : Continue(t) \/ Rival(t)
  \/ \E S \in Targets : RecoverInPlace(S) \/ Recover(S)
  \/ Search

Spec == Init /\ [][Next]_vars

\* recover is one call: once started, the search goes on.
FairSpec == Spec /\ WF_vars(Search)

-----------------------------------------------------------------------------
\* A plan is a run of the session automaton from the failed state into a safe
\* state at the cost it states, and the word it makes with the history keeps
\* every monitor good.
Walking ==
  [p \in (SUBSET States) \X Alphabet |->
     {t[3] : t \in Transitions \cap (p[1] \X {p[2]} \X States)}]
WalkEnds(path) == Follow(Walking, {state}, path)

Paying == [p \in Nat \X Alphabet |-> p[1] + Cost(p[2])]
PathCost(path) == Follow(Paying, 0, path)

PlanIsVerified ==
  plan.status = "FOUND" =>
    /\ WalkEnds(plan.path) = {plan.target}
    /\ plan.target \in safe
    /\ plan.cost = PathCost(plan.path)
    /\ Gate(plan.path)

\* Dijkstra's bound: a state that a verified path reaches below the cost of the
\* plan, or at all when there is no plan, was reached by the search at no more.
SearchSettles ==
  phase = "done" /\ plan.status # "REJECTED" =>
    \A r \in rival :
      (plan.status = "FOUND" => r.cost < plan.cost) => best[r.at] <= r.cost

\* No path is found only when there is no verified path to a safe state,
\* although a rejected candidate is dropped with everything behind it.
NoPathMeansNone ==
  plan.status = "NO_PATH" => \A r \in rival : r.at \notin safe

\* "Find the least-cost verified path": no verified path to a safe state is
\* cheaper than the plan.
PlanIsCheapest ==
  plan.status = "FOUND" =>
    \A r \in rival : r.at \in safe => r.cost >= plan.cost

\* The search comes to an end, although sessions can pay, pause and resume in
\* circles.
RecoverReturns == phase = "search" ~> phase = "done"
=============================================================================
