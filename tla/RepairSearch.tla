---------------------------- MODULE RepairSearch ----------------------------
(***************************************************************************)
(* The breadth-first search for a shortest repair                          *)
(* (find_shortest_repair_path of afco/session/instance.py and its twin     *)
(* synthesize_repair_path of afco/verify/explain.py): from a state of a    *)
(* partial automaton to an accepting one.  An automaton is a record;       *)
(* symbols are numbered in the order sorted() visits them, and the pairs   *)
(* outside the domain of delta are those the dictionary does not have.     *)
(***************************************************************************)
EXTENDS Integers, Sequences, FiniteSets

CONSTANTS
  Nodes, \* the states of all automata
  Void   \* None: no state

\* What DFA.__post_init__ enforces.
IsAutomaton(d) ==
  /\ d.letters \in Nat
  /\ d.start \in Nodes
  /\ d.accepting \subseteq Nodes
  /\ DOMAIN d.delta \subseteq Nodes \X (1..d.letters)
  /\ \A p \in DOMAIN d.delta : d.delta[p] \in Nodes

ASSUME SearchAssumption == Void \notin Nodes

\* DFA.step.
DFAStep(d, q, a) == IF <<q, a>> \in DOMAIN d.delta THEN d.delta[<<q, a>>] ELSE Void

VARIABLES
  dfa,
  from,    \* from_state
  visited,
  queue,   \* the deque of [at, path]
  at,      \* the state taken from the queue, or Void between two turns
  path,    \* the path taken with it
  sym,     \* the symbol the inner loop is at
  status   \* idle, searching, found (path is the answer) or none

vars == <<dfa, from, visited, queue, at, path, sym, status>>

\* No search has been asked for.
Idle ==
  /\ from = Void
  /\ visited = {}
  /\ queue = <<>>
  /\ at = Void
  /\ path = <<>>
  /\ sym = 1
  /\ status = "idle"

Init == IsAutomaton(dfa) /\ Idle

\* The call.
Begin(s) ==
  /\ status = "idle"
  /\ s \in Nodes
  /\ from' = s
  /\ visited' = {s}
  /\ queue' = <<[at |-> s, path |-> <<>>]>>
  /\ status' = IF s \in dfa.accepting THEN "found" ELSE "searching"
  /\ UNCHANGED <<dfa, at, path, sym>>

Pop ==
  /\ status = "searching"
  /\ at = Void
  /\ queue # <<>>
  /\ at' = Head(queue).at
  /\ path' = Head(queue).path
  /\ queue' = Tail(queue)
  /\ sym' = 1
  /\ UNCHANGED <<dfa, from, visited, status>>

\* Mutants: the last symbol is never looked at; the scan never ends.
ScanOverEarly == sym >= dfa.letters
ScanOverNever == sym > dfa.letters + 1
ScanOver == sym > dfa.letters

Successor == DFAStep(dfa, at, sym)
Reached == [at |-> Successor, path |-> Append(path, sym)]

\* A mutant: appendleft, which makes the queue a stack.
EnqueueFirst(e) == <<e>> \o queue
Enqueue(e) == Append(queue, e)

Scanning ==
  /\ status = "searching"
  /\ at # Void
  /\ sym \in 1..dfa.letters

\* The symbol is not admissible, or leads to a state that is queued already.
Skip ==
  /\ Scanning
  /\ Successor \in visited \cup {Void}
  /\ sym' = sym + 1
  /\ UNCHANGED <<dfa, from, visited, queue, at, path, status>>

Found ==
  /\ Scanning
  /\ Successor \notin visited \cup {Void}
  /\ Successor \in dfa.accepting
  /\ path' = Append(path, sym)
  /\ status' = "found"
  /\ UNCHANGED <<dfa, from, visited, queue, at, sym>>

Visit ==
  /\ Scanning
  /\ Successor \notin visited \cup {Void} \cup dfa.accepting
  /\ visited' = visited \cup {Successor}
  /\ queue' = Enqueue(Reached)
  /\ sym' = sym + 1
  /\ UNCHANGED <<dfa, from, at, path, status>>

\* All symbols are seen: the next state of the queue is up.
NextTurn ==
  /\ status = "searching"
  /\ at # Void
  /\ ScanOver
  /\ at' = Void
  /\ UNCHANGED <<dfa, from, visited, queue, path, sym, status>>

Exhausted ==
  /\ status = "searching"
  /\ at = Void
  /\ queue = <<>>
  /\ status' = "none"
  /\ UNCHANGED <<dfa, from, visited, queue, at, path, sym>>

SearchStep == Pop \/ Skip \/ Found \/ Visit \/ NextTurn \/ Exhausted

Next == (\E s \in Nodes : Begin(s)) \/ SearchStep

Spec == Init /\ [][Next]_vars

-----------------------------------------------------------------------------
Entry == [at : Nodes, path : Seq(Nat)]

TypeOK ==
  /\ IsAutomaton(dfa)
  /\ from \in Nodes \cup {Void}
  /\ visited \subseteq Nodes
  /\ queue \in Seq(Entry)
  /\ at \in Nodes \cup {Void}
  /\ path \in Seq(Nat)
  /\ sym \in 1..(dfa.letters + 1)
  /\ status \in {"idle", "searching", "found", "none"}

\* The reference.  The state that a word leads to, as a set of at most one.
Ends(d, s, word) ==
  LET ends[i \in 0..Len(word)] ==
        IF i = 0 THEN {s} ELSE {DFAStep(d, q, word[i]) : q \in ends[i - 1]} \ {Void}
  IN  ends[Len(word)]

Led(word) == Ends(dfa, from, word)

\* What the states in S lead to by at most one symbol.
Widen(d, S) == S \cup {d.delta[p] : p \in DOMAIN d.delta \cap (S \X (1..d.letters))}

\* The states that words of at most n symbols lead to.
Layers(d, s) ==
  LET layer[n \in Nat] ==
        IF n = 0 THEN {s} ELSE UNION {Widen(d, S) : S \in {layer[n - 1]}}
  IN  layer

Within == Layers(dfa, from)

\* A repair that is found leads from the state to an accepting one, and no
\* shorter word does ("the shortest sequence of symbols").
RepairIsShortest ==
  status = "found" =>
    /\ Led(path) # {} /\ Led(path) \subseteq dfa.accepting
    /\ Len(path) > 0 => Within[Len(path) - 1] \cap dfa.accepting = {}

\* None is an answer only for a state from which nothing accepting can be
\* reached: the visited states are closed under delta and none accepts.
NoneMeansTrapped ==
  status = "none" =>
    /\ from \in visited
    /\ visited \cap dfa.accepting = {}
    /\ \A q \in visited, a \in 1..dfa.letters : DFAStep(dfa, q, a) \in visited \cup {Void}
=============================================================================
