--------------------------- MODULE MCSafetyChecker ---------------------------
(***************************************************************************)
(* M_S against the five property automata of the repository; every pair of *)
(* a small session automaton and a small property automaton, in all three  *)
(* modes; and automata whose search starts with two branches that may      *)
(* differ in length, so that the order of the visits matters, for the      *)
(* counterexample and for the repair.                                      *)
(***************************************************************************)
EXTENDS SafetyChecker, SessionDFA, SafetyMonitors

CONSTANTS n1, n2, n3, n4, done, u, bad

\* ALPHABET in sorted order.
Sorted == <<"auth_fail", "auth_ok", "auth_req", "cable_fault", "contactors_open", "e_stop",
  "ev_ready", "ev_stop", "grid_curtail", "lock_fail", "lock_ok", "meter_final", "meter_tick",
  "overcurrent_trip", "pay_fail", "pay_ok", "pilot_lost", "plug_in", "power_ramp_down",
  "power_start", "power_stop", "precharge_ok", "reserve_req", "reset_cmd", "session_close",
  "unlock_ok", "unlock_req", "unplug">>

DFA(letters, start, accepting, delta) ==
  [letters |-> letters, start |-> start, accepting |-> accepting, delta |-> delta]

Numbered == {<<q, i>> \in States \X (1..28) : Sorted[i] \in Admissible(q)}
MS == DFA(28, StartState, AcceptingStates, [p \in Numbered |-> Target(p[1], Sorted[p[2]])])

Monitor(states, start, accepting, Step(_, _)) ==
  DFA(28, start, accepting, [p \in states \X (1..28) |-> Step(p[1], Sorted[p[2]])])

P4Next(m, a) == m
Monitors == {
  Monitor(P1States, "p1_q0", {"p1_bad"}, P1Next), Monitor(P2States, "p2_idle", {"p2_bad"}, P2Next),
  Monitor(P3States, "p3_init", {"p3_bad"}, P3Next), Monitor({"p4_safe"}, "p4_safe", {}, P4Next),
  Monitor(P5States, "p5_normal", {"p5_bad"}, P5Next)}

\* All transition functions that are defined on some of the pairs, into targets.
Partial(cells, targets) == UNION {[C -> targets] : C \in SUBSET cells}

Extended(f, rest) == {[p \in DOMAIN f \cup DOMAIN g |-> IF p \in DOMAIN f THEN f[p] ELSE g[p]]
                        : g \in rest}

Sessions == {DFA(2, n1, F, f)
               : F \in {{done}, {n1}}, f \in UNION {Extended(e, {<<>>, [p \in {<<done, 1>>} |-> n1]})
                                : e \in Partial({n1, n2} \X {1, 2}, {n1, n2, done})}}
Properties == {DFA(2, u, F, f)
                 : F \in {{bad}, {u}}, f \in UNION {Extended(e, {<<>>, [p \in {bad} \X {1, 2} |-> bad]})
                                  : e \in Partial({u} \X {1, 2}, {u, bad})}}

Forked == {DFA(2, n1, {done}, f)
             : f \in Partial({<<n1, 2>>} \cup ({n1, n2, n3, n4} \X {1}), {n1, n2, n3, n4, done})}
Circled == {DFA(2, n1, {done}, f)
              : f \in Partial({<<n3, 1>>} \cup ({n1, n2} \X {1, 2}), {n1, n2, n3, done})}
Anything == DFA(2, u, {u}, [p \in {u} \X {1, 2} |-> u])

MCNodes == {n1, n2, n3, n4, done, u, bad, "p4_safe"} \cup States
             \cup P1States \cup P2States \cup P3States \cup P5States
MCChecks == ({MS} \X Monitors \X {"intersection"})
              \cup (Sessions \X Properties \X Modes)
              \cup (Forked \X {Anything} \X {"intersection"})
MCRepairs == ({MS} \X States) \cup (Circled \X {n1}) \cup (Forked \X {n1})
=============================================================================
