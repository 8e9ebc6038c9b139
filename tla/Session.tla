------------------------------ MODULE Session ------------------------------
(***************************************************************************)
(* The runtime of one session (SessionInstance, afco/session/instance.py): *)
(* symbols are offered one by one; step advances the session or rejects    *)
(* the symbol with a verdict, and evaluate_trace judges a whole word in    *)
(* one go.  A repair is kept as its length, as a set of one, or as the     *)
(* empty set for None: RepairSearch models how it is found.                *)
(***************************************************************************)
EXTENDS SessionDFA, Sequences

CONSTANTS
  Offered,  \* the symbols that are offered, the shorthand "reserve" among them
  MaxOffers \* bound: how many of them

ASSUME SessionAssumption ==
  /\ Offered \subseteq Alphabet \cup {"reserve"}
  /\ MaxOffers \in Nat

VARIABLES
  current, \* current_state
  history, \* the edges taken
  ticks,   \* meter_kwh, in quarters
  verdict, \* last_verdict
  word     \* history variable: every symbol offered, rejected ones included

vars == <<current, history, ticks, verdict, word>>

\* The alias that _normalize_symbol maps is the constant RESERVE of
\* alphabet.py, which is the symbol itself.
ReserveAlias == "reserve_req"
Normalize(a) == IF a = ReserveAlias THEN "reserve_req" ELSE a

\* The states from which an accepting state is n edges away or less.
CoReachable[n \in Nat] ==
  IF n = 0 THEN AcceptingStates
  ELSE UNION {S \cup {t[1] : t \in Transitions \cap (States \X Alphabet \X S)}
                : S \in {CoReachable[n - 1]}}

Distances == 0..Cardinality(States)

\* find_shortest_repair_path.
Repair ==
  [q \in States |->
     {n \in Distances : q \in CoReachable[n] /\ (n > 0 => q \notin CoReachable[n - 1])}]

Symbols(h) == [i \in DOMAIN h |-> h[i][2]]

NoVerdict == [kind |-> "none", index |-> 0, offers |-> <<>>, repair |-> {}]
Safe == [kind |-> "safe", index |-> 0, offers |-> <<>>, repair |-> {0}]

\* The verdict on a symbol that is rejected in state q after the ones consumed.
Rejection(q, consumed, a) ==
  [kind |-> "undefined", index |-> Len(consumed), offers |-> Append(consumed, a),
   repair |-> Repair[q]]

Init ==
  /\ current = StartState
  /\ history = <<>>
  /\ ticks = 0
  /\ verdict = NoVerdict
  /\ word = <<>>

Edge(a) == <<current, Normalize(a), Target(current, Normalize(a))>>

Energy(a) == IF Normalize(a) = "meter_tick" THEN 1 ELSE 0

Accept(a) ==
  /\ Len(word) < MaxOffers
  /\ Normalize(a) \in Admissible(current)
  /\ current' = Target(current, Normalize(a))
  /\ history' = Append(history, Edge(a))
  /\ ticks' = ticks + Energy(a)
  /\ verdict' = IF current' \in AcceptingStates THEN Safe ELSE verdict
  /\ word' = Append(word, a)

\* A mutant: the history is unpacked in the wrong order.
ConsumedSources == [i \in DOMAIN history |-> history[i][1]]
Consumed == Symbols(history)

\* A rejected symbol changes nothing but the verdict.
Reject(a) ==
  /\ Len(word) < MaxOffers
  /\ Normalize(a) \notin Admissible(current)
  /\ verdict' = Rejection(current, Consumed, a)
  /\ word' = Append(word, a)
  /\ UNCHANGED <<current, history, ticks>>

Next == \E a \in Offered : Accept(a) \/ Reject(a)

Spec == Init /\ [][Next]_vars

-----------------------------------------------------------------------------
\* evaluate_trace: the states after each prefix of w, as sets of one, which
\* are empty once a symbol has been rejected.
Prefixes(w) ==
  LET at[i \in 0..Len(w)] ==
        IF i = 0 THEN {StartState}
        ELSE {t[3] : t \in Transitions \cap (at[i - 1] \X {Normalize(w[i])} \X States)}
  IN  at

Evaluate(w) ==
  LET at == Prefixes(w)
      consumed(i) == [j \in 1..i |-> Normalize(w[j])]
  IN  IF at[Len(w)] # {}
      THEN IF at[Len(w)] \subseteq AcceptingStates
           THEN Safe
           ELSE [kind |-> "incomplete", index |-> Len(w), offers |-> consumed(Len(w)),
                 repair |-> UNION {Repair[q] : q \in at[Len(w)]}]
      ELSE LET i == CHOOSE n \in DOMAIN w : at[n] = {} /\ at[n - 1] # {}
           IN  Rejection(CHOOSE q \in at[i - 1] : TRUE, consumed(i - 1), w[i])

\* The running session is what evaluate_trace makes of the symbols it has
\* accepted, with the energy of their ticks: those it rejected in between left
\* no trace.  Its verdict is that on the word it was offered, up to the first
\* rejection and that one included.
OnlineMeetsOffline ==
  LET taken   == Symbols(history)
      offline == Evaluate(word)
  IN  /\ Prefixes(taken)[Len(taken)] = {current}
      /\ ticks = Cardinality({i \in DOMAIN taken : taken[i] = "meter_tick"})
      /\ offline.kind = "undefined" /\ offline.index = Len(word) - 1 => verdict = offline
      /\ offline.kind = "safe" => verdict = Safe /\ current \in AcceptingStates
      /\ offline.kind = "incomplete" =>
           offline.offers = taken /\ current \notin AcceptingStates
=============================================================================
