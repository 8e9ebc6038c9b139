------------------------- MODULE SubsetConstruction -------------------------
(***************************************************************************)
(* The subset construction (afco/automata/nfa.py, subset.py): from an NFA  *)
(* with epsilon transitions a worklist builds the part of the power set    *)
(* automaton that the start state reaches.  Sets without a successor stay  *)
(* without a transition: the result is a partial DFA.                      *)
(***************************************************************************)
EXTENDS Following, SequencesExt

CONSTANTS
  Nodes,       \* the NFA's states
  SymbolOrder, \* the alphabet, in the order of sorted(..., key=str)
  Epsilon,     \* the label of silent transitions
  NFAs,        \* the automata to determinise
  DFAs,        \* automata that are deterministic already
  Words        \* the words that languages are compared on

Symbols == Range(SymbolOrder)

\* A DFA is a record of its states, which are non-empty sets of nodes, of its
\* transitions as a function of the defined pairs of state and symbol, of its
\* start state and its accepting states.
IsDFA(d) ==
  /\ DOMAIN d.delta \subseteq d.states \X Symbols
  /\ Range(d.delta) \subseteq d.states
  /\ d.start \in d.states
  /\ d.accepting \subseteq d.states

ASSUME ConstructionAssumption ==
  /\ IsFiniteSet(Nodes)
  /\ SymbolOrder \in Seq(Symbols)
  /\ Epsilon \notin Symbols
  /\ Words \subseteq Seq(Symbols)
  /\ \A m \in NFAs :
       /\ m.delta \in [Nodes \X (Symbols \cup {Epsilon}) -> SUBSET Nodes]
       /\ m.start \in Nodes
       /\ m.accepting \subseteq Nodes
  /\ \A d \in DFAs : d.states \subseteq (SUBSET Nodes) \ {{}} /\ IsDFA(d)

VARIABLES
  nfa,   \* the automaton to determinise, as the set of at most one
  dfa,   \* the deterministic automaton as far as it is built
  queue, \* the subsets still to expand
  phase  \* construct, prune, refine or done

constructionVars == <<nfa, dfa, queue, phase>>

\* A mutant: silent transitions are followed once.
ClosedOnce(m, S) == S \cup UNION {m.delta[<<q, Epsilon>>] : q \in S}

\* Where silent transitions lead in one step.
Silent(m) == [T \in SUBSET Nodes |-> UNION {m.delta[<<q, Epsilon>>] : q \in T}]

\* epsilon_closure: what silent transitions reach.
EpsilonClosure(m, S) == Grown(Silent(m), S, Cardinality(Nodes))

\* NFA.step
StepSubset(m, S, a) == EpsilonClosure(m, UNION {m.delta[<<q, a>>] : q \in S})

ConstructionInit ==
  \/ \E m \in NFAs :
       LET initial == EpsilonClosure(m, {m.start})
       IN  /\ nfa = {m}
           /\ dfa = [states |-> {initial}, delta |-> <<>>, start |-> initial,
                     accepting |-> {}]
           /\ queue = <<initial>>
           /\ phase = "construct"
  \/ /\ nfa = {}
     /\ dfa \in DFAs
     /\ queue = <<>>
     /\ phase = "prune"

\* The subsets that current leads to for the first time, in symbol order.
Discovering(m, current) ==
  [p \in Seq(SUBSET Nodes) \X Symbols |->
     LET t == StepSubset(m, current, p[2])
     IN  IF t \in {{}} \cup dfa.states \cup Range(p[1]) THEN p[1] ELSE Append(p[1], t)]
Discovered(m, current) == Follow(Discovering(m, current), <<>>, SymbolOrder)

\* The transitions with those of current: none to the empty set.
Successors(m, current) ==
  LET fresh == {<<current, a>> : a \in {b \in Symbols : StepSubset(m, current, b) # {}}}
  IN  [p \in fresh \cup DOMAIN dfa.delta |->
         IF p \in fresh THEN StepSubset(m, current, p[2]) ELSE dfa.delta[p]]

\* A turn of the worklist: a subset is judged and all its symbols followed.
ExpandSubset ==
  /\ phase = "construct"
  /\ queue # <<>>
  /\ \E m \in nfa :
       LET current == Head(queue)
           found   == Discovered(m, current)
       IN  /\ queue' = Tail(queue) \o found
           /\ dfa' = [dfa EXCEPT
                !.states    = @ \cup Range(found),
                !.delta     = Successors(m, current),
                !.accepting = IF current \cap m.accepting # {} THEN @ \cup {current} ELSE @]
  /\ UNCHANGED <<nfa, phase>>

Constructed ==
  /\ phase = "construct"
  /\ queue = <<>>
  /\ phase' = "prune"
  /\ UNCHANGED <<nfa, dfa, queue>>

-----------------------------------------------------------------------------
\* No state: where a partial automaton has no transition.
Sink == {}

\* DFA.step, made total.
Total(d, q, a) ==
  IF <<q, a>> \in DOMAIN d.delta THEN d.delta[<<q, a>>] ELSE Sink

TotalTransitions(d) ==
  [p \in (d.states \cup {Sink}) \X Symbols |-> Total(d, p[1], p[2])]

\* The state a word leads to.
Run(d, q, w) == Follow(TotalTransitions(d), q, w)

\* DFA.accepts
Accepts(d, w) == Run(d, d.start, w) \in d.accepting

\* For reference, the nodes of an NFA that a word can lead to: silent steps
\* reach what every set closed under them contains.
Closed(m, C) == \A q \in C : m.delta[<<q, Epsilon>>] \subseteq C
Silently(m, S) ==
  {q \in Nodes : \A C \in SUBSET Nodes : S \subseteq C /\ Closed(m, C) => q \in C}
Possibly(m) ==
  [p \in (SUBSET Nodes) \X Symbols |-> Silently(m, UNION {m.delta[<<q, p[2]>>] : q \in p[1]})]
Nondeterministically(m, w) == Follow(Possibly(m), Silently(m, {m.start}), w)

\* The constructed automaton is in exactly the subset of nodes that a word can
\* lead the NFA to, accepts exactly when one of them does, and has no
\* transition exactly when there is none; and each subset is queued once.
SubsetsFollowRuns ==
  /\ IsInjective(queue)
  /\ phase # "construct" =>
       \A m \in nfa : \A w \in Words :
         LET S == Nondeterministically(m, w)
         IN  /\ Run(dfa, dfa.start, w) = S
             /\ Accepts(dfa, w) <=> S \cap m.accepting # {}
=============================================================================
