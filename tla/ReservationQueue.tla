-------------------------- MODULE ReservationQueue --------------------------
(***************************************************************************)
(* The queue models (afco/queue): one word of enqueues and dequeues read   *)
(* by the bounded counter automaton (counter.py) and, as holds and         *)
(* releases, by the pushdown automaton (pda.py).  Each stops at the first  *)
(* symbol it rejects and remembers its index; the word goes on.            *)
(***************************************************************************)
EXTENDS Integers, Sequences, FiniteSets

CONSTANTS
  Capacity, \* K
  MaxWord   \* bound: the length of a word

ASSUME QueueAssumption == Capacity \in Nat /\ MaxWord \in Nat

VARIABLES
  input,     \* the word read so far
  states,    \* CounterTrace.states
  stack,     \* the stack of the pushdown automaton
  counterAt, \* the index at which the counter has rejected, as a set of at most one
  stackAt    \* the same of the pushdown automaton

queueVars == <<input, states, stack, counterAt, stackAt>>

Operations == {"enq", "deq"}

\* The successor of an occupancy, as a set of at most one.  A mutant: the
\* comparison with the capacity is off by one.
CounterStepLoose(n, op) ==
  IF op = "enq" THEN {n + 1} \cap 0..(Capacity + 1) ELSE {n - 1} \cap Nat
CounterStep(n, op) ==
  IF op = "enq" THEN {n + 1} \cap 0..Capacity ELSE {n - 1} \cap Nat

\* PushdownAutomaton.step on the stack.
StackStep(s, op) ==
  IF op = "enq" THEN {Append(s, "H")}
  ELSE IF s = <<>> THEN {} ELSE {SubSeq(s, 1, Len(s) - 1)}

QueueInit ==
  /\ input = <<>>
  /\ states = <<0>>
  /\ stack = <<>>
  /\ counterAt = {}
  /\ stackAt = {}

Count(op) ==
  LET next == CounterStep(states[Len(states)], op)
  IN  IF counterAt # {} THEN UNCHANGED <<states, counterAt>>
      ELSE IF next = {} THEN counterAt' = {Len(input)} /\ UNCHANGED states
      ELSE states' = Append(states, CHOOSE n \in next : TRUE) /\ UNCHANGED counterAt

\* A rejecting run returns an empty stack.
Push(op) ==
  LET next == StackStep(stack, op)
  IN  IF stackAt # {} THEN UNCHANGED <<stack, stackAt>>
      ELSE IF next = {} THEN stackAt' = {Len(input)} /\ stack' = <<>>
      ELSE stack' = (CHOOSE s \in next : TRUE) /\ UNCHANGED stackAt

Read(op) ==
  /\ Len(input) < MaxWord
  /\ input' = Append(input, op)
  /\ Count(op)
  /\ Push(op)

QueueNext == \E op \in Operations : Read(op)

QueueSpec == QueueInit /\ [][QueueNext]_queueVars

QueueAccepts == stackAt = {} /\ stack = <<>>

\* pumping_lemma_adversary: enq^p deq^p with the pumped enqueue repeated.
Pumped(p, copies) == [i \in 1..(2 * p + copies - 1) |-> IF i < p + copies THEN "enq" ELSE "deq"]

Occurrences(op, w) == Cardinality({i \in DOMAIN w : w[i] = op})

ProvesNonRegular(p, copies) ==
  Occurrences("enq", Pumped(p, copies)) # Occurrences("deq", Pumped(p, copies))

-----------------------------------------------------------------------------
\* The reference: how many are queued after i operations, if nothing refuses.
Balance(i) == Occurrences("enq", SubSeq(input, 1, i)) - Occurrences("deq", SubSeq(input, 1, i))
Positions == 0..Len(input)
FirstOutside(allowed) ==
  {i - 1 : i \in {j \in Positions : Balance(j) \notin allowed
                                      /\ \A k \in 0..(j - 1) : Balance(k) \in allowed}}

\* The counter is the pushdown automaton cut off at the capacity: both follow
\* the balance of the word, the counter stops exactly at the first overflow or
\* underflow, the stack at the first underflow, and as long as neither has
\* stopped the occupancy is the height of the stack (counter.py and pda.py
\* share no code).  The adversary's claim about a pumped word is the answer of
\* the pushdown automaton to it.
CounterFollowsStack ==
  /\ counterAt = FirstOutside(0..Capacity)
  /\ stackAt = FirstOutside(Nat)
  /\ states = [i \in 1..Len(states) |-> Balance(i - 1)]
  /\ counterAt = {} => states[Len(states)] = Len(stack)
  /\ \A p \in 1..MaxWord, copies \in 0..MaxWord :
       input = Pumped(p, copies) => (ProvesNonRegular(p, copies) <=> ~QueueAccepts)
=============================================================================
