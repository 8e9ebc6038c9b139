---------------------------- MODULE SafetyChecker ----------------------------
(***************************************************************************)
(* The intersection-emptiness check (afco/verify/checker.py): product_dfa, *)
(* forward_reachable, extract_counterexample, the replay in the session    *)
(* automaton and the repair search, one after the other.  The turns of a   *)
(* queue that hold the same distance are one step where their order has no *)
(* influence; the search for the counterexample goes symbol by symbol.     *)
(***************************************************************************)
EXTENDS RepairSearch

CONSTANTS
  Checks, \* the calls: a session automaton, a property automaton and a mode
  Repairs \* the repairs asked for at runtime: an automaton and a state

Modes == {"intersection", "union", "difference"}

ASSUME CheckerAssumption ==
  /\ IsFiniteSet(Nodes)
  /\ \A c \in Checks : IsAutomaton(c[1]) /\ IsAutomaton(c[2]) /\ c[3] \in Modes
  /\ \A r \in Repairs : IsAutomaton(r[1]) /\ r[2] \in Nodes

VARIABLES
  property, \* property_dfa
  mode,     \* of product_dfa
  phase,    \* product, reach, explain, trace, replay, repair, safe or built
  pairs,    \* the product's states
  frontier, \* the pairs queued
  marked,   \* the product's accepting states
  reached,  \* what forward_reachable returns
  parent,   \* the pointers of the breadth-first search
  fifo,     \* its queue
  pair,     \* the pair it is at, then the node of the traceback
  letter,   \* the symbol it is at, then the index of the replay
  word,     \* the counterexample
  here      \* the session state of the replay

productVars == <<pairs, frontier, marked, reached>>
explainVars == <<parent, fifo, pair, letter, word, here>>
checkerVars == <<vars, property, mode, phase, productVars, explainVars>>

StartPair == <<dfa.start, property.start>>
Letters == (1..dfa.letters) \cup (1..property.letters)
NoPair == <<>>

\* Both components must have the transition.
Joint(p, a) ==
  IF Void \in {DFAStep(dfa, p[1], a), DFAStep(property, p[2], a)} THEN NoPair
  ELSE <<DFAStep(dfa, p[1], a), DFAStep(property, p[2], a)>>

Onward(P) == {Joint(p, a) : p \in P, a \in Letters} \ {NoPair}

\* What a mode asks for: with in1 and in2 for acceptance by the components.
Wanted(in1, in2) ==
  [intersection |-> in1 /\ in2, union |-> in1 \/ in2, difference |-> in1 /\ ~in2][mode]

Accepts(p) == Wanted(p[1] \in dfa.accepting, p[2] \in property.accepting)

\* A mutant: acceptance is looked at where pairs are discovered, which leaves
\* the start pair out.
MarksDiscovered(P) == {p \in P \ {StartPair} : Accepts(p)}
Marks(P) == {p \in P : Accepts(p)}

\* A mutant: the session's state decides whether a pair is new.
NewBySession(P, known) == {p \in Onward(P) : p[1] \notin {k[1] : k \in known}}
New(P, known) == Onward(P) \ known

\* A call of product_dfa or check_safety, or a repair without a check.
CheckerInit ==
  /\ \/ \E c \in Checks :
          /\ dfa = c[1] /\ property = c[2] /\ mode = c[3]
          /\ phase = "product"
          /\ here = dfa.start
     \/ \E r \in Repairs :
          /\ dfa = r[1] /\ property = r[1] /\ mode = "intersection"
          /\ phase = "replay"
          /\ here = r[2]
  /\ Idle
  /\ pairs = {StartPair}
  /\ frontier = {StartPair}
  /\ marked = {}
  /\ reached = {}
  /\ parent = <<>>
  /\ fifo = <<>>
  /\ pair = NoPair
  /\ letter = 1
  /\ word = <<>>

\* product_dfa.
Expand ==
  /\ phase = "product"
  /\ frontier # {}
  /\ marked' = marked \cup Marks(frontier)
  /\ frontier' = New(frontier, pairs)
  /\ pairs' = pairs \cup frontier'
  /\ UNCHANGED <<vars, property, mode, phase, reached, explainVars>>

ProductBuilt ==
  /\ phase = "product"
  /\ frontier = {}
  /\ IF mode = "intersection"
     THEN phase' = "reach" /\ reached' = {StartPair} /\ frontier' = {StartPair}
     ELSE phase' = "built" /\ UNCHANGED <<reached, frontier>>
  /\ UNCHANGED <<vars, property, mode, pairs, marked, explainVars>>

\* forward_reachable over the product.
Reach ==
  /\ phase = "reach"
  /\ frontier # {}
  /\ frontier' = New(frontier, reached)
  /\ reached' = reached \cup frontier'
  /\ UNCHANGED <<vars, property, mode, phase, pairs, marked, explainVars>>

\* Emptiness; and the first two lines of extract_counterexample.
Decide ==
  /\ phase = "reach"
  /\ frontier = {}
  /\ IF marked \cap reached = {} THEN phase' = "safe" /\ UNCHANGED <<parent, fifo>>
     ELSE IF StartPair \in marked THEN phase' = "replay" /\ UNCHANGED <<parent, fifo>>
     ELSE /\ phase' = "explain"
          /\ parent' = [p \in {StartPair} |-> <<>>]
          /\ fifo' = <<StartPair>>
  /\ UNCHANGED <<vars, property, mode, productVars, pair, letter, word, here>>

PopPair ==
  /\ phase = "explain"
  /\ pair = NoPair
  /\ fifo # <<>>
  /\ pair' = Head(fifo)
  /\ fifo' = Tail(fifo)
  /\ letter' = 1
  /\ UNCHANGED <<vars, property, mode, phase, productVars, parent, word, here>>

ScanningPair == phase = "explain" /\ pair # NoPair /\ letter \in Letters

Recorded == Joint(pair, letter) \in DOMAIN parent \cup {NoPair}

SkipPair ==
  /\ ScanningPair
  /\ Recorded
  /\ letter' = letter + 1
  /\ UNCHANGED <<vars, property, mode, phase, productVars, parent, fifo, pair, word, here>>

\* A mutant: the queue is a stack.
EnqueuePairFirst(p) == <<p>> \o fifo
EnqueuePair(p) == Append(fifo, p)

\* A pair that is new is recorded; a jointly accepting one ends the search.
RecordPair ==
  /\ ScanningPair
  /\ ~Recorded
  /\ LET found == Joint(pair, letter)
     IN  /\ parent' = [p \in DOMAIN parent \cup {found} |->
                         IF p = found THEN <<pair, letter>> ELSE parent[p]]
         /\ fifo' = EnqueuePair(found)
         /\ IF found \in marked
            THEN phase' = "trace" /\ pair' = found /\ UNCHANGED letter
            ELSE letter' = letter + 1 /\ UNCHANGED <<phase, pair>>
  /\ UNCHANGED <<vars, property, mode, productVars, word, here>>

NextPair ==
  /\ phase = "explain"
  /\ pair # NoPair
  /\ letter \notin Letters
  /\ pair' = NoPair
  /\ UNCHANGED <<vars, property, mode, phase, productVars, parent, fifo, letter, word, here>>

\* _reconstruct_path, which appends and reverses in the end.
Trace ==
  /\ phase = "trace"
  /\ parent[pair] # <<>>
  /\ word' = <<parent[pair][2]>> \o word
  /\ pair' = parent[pair][1]
  /\ UNCHANGED <<vars, property, mode, phase, productVars, parent, fifo, letter, here>>

Traced ==
  /\ phase = "trace"
  /\ parent[pair] = <<>>
  /\ phase' = "replay"
  /\ letter' = 1
  /\ UNCHANGED <<vars, property, mode, productVars, parent, fifo, pair, word, here>>

\* _replay_to_session_state.
Replayable == letter <= Len(word) /\ DFAStep(dfa, here, word[letter]) # Void

Replay ==
  /\ phase = "replay"
  /\ Replayable
  /\ here' = DFAStep(dfa, here, word[letter])
  /\ letter' = letter + 1
  /\ UNCHANGED <<vars, property, mode, phase, productVars, parent, fifo, pair, word>>

BeginRepair ==
  /\ phase = "replay"
  /\ ~Replayable
  /\ phase' = "repair"
  /\ Begin(here)
  /\ UNCHANGED <<property, mode, productVars, explainVars>>

RepairStep ==
  /\ phase = "repair"
  /\ SearchStep
  /\ UNCHANGED <<property, mode, phase, productVars, explainVars>>

CheckerNext ==
  \/ Expand \/ ProductBuilt \/ Reach \/ Decide
  \/ PopPair \/ SkipPair \/ RecordPair \/ NextPair \/ Trace \/ Traced
  \/ Replay \/ BeginRepair \/ RepairStep

CheckerSpec == CheckerInit /\ [][CheckerNext]_checkerVars

\* The check is one call, and it runs.
CheckerFairSpec == CheckerSpec /\ WF_checkerVars(CheckerNext)

-----------------------------------------------------------------------------
\* The reference: both automata completed by an absorbing Void, and the pairs
\* that words of at most n symbols lead to.
Completed(p, a) == <<DFAStep(dfa, p[1], a), DFAStep(property, p[2], a)>>

Together[n \in Nat] ==
  IF n = 0 THEN {StartPair}
  ELSE UNION {S \cup {Completed(p, a) : p \in S, a \in Letters} : S \in {Together[n - 1]}}

\* All that any word leads to: the fixed point, which is reached one symbol at
\* a time.
Everywhere ==
  LET grown[n \in Nat] == IF Together[n] = Together[n + 1] THEN Together[n] ELSE grown[n + 1]
  IN  grown[0]

\* product_dfa recognises what its mode says, word by word: the intersection
\* of any two automata, and the union and the difference of two that have all
\* the transitions their words need (with partial automata those two lose
\* words, since both components must have a transition).
ProductIsExact ==
  phase = "built" \/ (phase \in {"safe", "replay"} /\ reached # {}) =>
    LET ends == Everywhere
    IN  mode = "intersection" \/ (\A p \in ends : Void \notin {p[1], p[2]}) =>
          \A p \in ends : (p \in marked) <=> Accepts(p)

\* The verdict "safe" is sound: the pairs reached are closed under the joint
\* transitions, and in none of them have both automata accepted.
SafeMeansDisjoint ==
  phase = "safe" =>
    /\ StartPair \in reached
    /\ Onward(reached) \subseteq reached
    /\ \A p \in reached : ~(p[1] \in dfa.accepting /\ p[2] \in property.accepting)

\* Any other verdict comes with a word that both automata accept and than
\* which none is shorter, and with the session state at its end.
CounterexampleIsShortest ==
  phase = "repair" /\ reached # {} =>
    /\ Ends(dfa, dfa.start, word) = {here} /\ here \in dfa.accepting
    /\ Ends(property, property.start, word) # {}
    /\ Ends(property, property.start, word) \subseteq property.accepting
    /\ Len(word) > 0 =>
         \A p \in Together[Len(word) - 1] : ~(p[1] \in dfa.accepting /\ p[2] \in property.accepting)

\* The check answers, and so does the repair search, whatever circles the
\* automata have.
CheckReturns == <>(phase \in {"safe", "built"} \/ status \in {"found", "none"})
=============================================================================
