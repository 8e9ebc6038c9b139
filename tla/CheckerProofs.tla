--------------------------- MODULE CheckerProofs ---------------------------
(***************************************************************************)
(* What holds of the repair search and of the safety check, over every     *)
(* automaton: the search finds a shortest repair, and answers "none" only  *)
(* from a state that is trapped; the product recognises what its mode      *)
(* says; the verdict "safe" is sound, and any other comes with a shortest  *)
(* word that both automata accept; the search that the check calls at the  *)
(* end is the search of RepairSearch.                                      *)
(***************************************************************************)
EXTENDS SafetyChecker, Recursion

-----------------------------------------------------------------------------
\* The repair search.

Queued(q) == \E i \in 1..Len(queue) : queue[i].at = q

Closed(q) == \A a \in 1..dfa.letters : DFAStep(dfa, q, a) \in visited \cup {Void}

\* Every visited state waits in the queue, is being scanned, or is closed.
Frontier ==
  status \in {"searching", "none"} =>
    /\ from \in visited
    /\ visited \cap dfa.accepting = {}
    /\ \A q \in visited : q = at \/ Queued(q) \/ Closed(q)

\* The symbols the scan has passed lead to visited states only.
Scanned ==
  status = "searching" /\ at # Void =>
    \A a \in 1..dfa.letters : a < sym => DFAStep(dfa, at, a) \in visited \cup {Void}

Drained == status = "none" => queue = <<>> /\ at = Void

Unasked == status = "idle" => at = Void /\ visited = {}

IInv == TypeOK /\ Frontier /\ Scanned /\ Drained /\ Unasked

-----------------------------------------------------------------------------
LEMMA StepTypes ==
  ASSUME NEW d, IsAutomaton(d), NEW q, NEW a
  PROVE  DFAStep(d, q, a) \in Nodes \cup {Void}
BY DEF DFAStep, IsAutomaton

\* The initial states satisfy the invariant.
LEMMA InitIInv == Init => IInv
<1> SUFFICES ASSUME Init PROVE IInv
  OBVIOUS
<1> USE DEF Init, Idle
<1>1. 1 \in 1..(dfa.letters + 1)
  BY DEF IsAutomaton
<1>2. TypeOK
  BY <1>1 DEF TypeOK, Entry
<1> QED BY <1>2 DEF IInv, Frontier, Scanned, Drained, Unasked

\* What the queue holds once an entry has been appended to it or taken off.
LEMMA AppendKeepsQueued ==
  ASSUME NEW s \in Seq(Entry), NEW e \in Entry
  PROVE  /\ Append(s, e) \in Seq(Entry)
         /\ \A i \in 1..Len(s) : i \in 1..Len(Append(s, e)) /\ Append(s, e)[i] = s[i]
         /\ Len(s) + 1 \in 1..Len(Append(s, e)) /\ Append(s, e)[Len(s) + 1] = e
  OBVIOUS

LEMMA TailKeepsQueued ==
  ASSUME NEW s \in Seq(Entry), s # <<>>
  PROVE  /\ Tail(s) \in Seq(Entry)
         /\ Head(s) \in Entry /\ Head(s) = s[1]
         /\ \A i \in 1..Len(s) : i # 1 =>
              i - 1 \in 1..Len(Tail(s)) /\ Tail(s)[i - 1] = s[i]
  OBVIOUS

\* A call finds nothing of an earlier one.
LEMMA BeginIInv ==
  ASSUME IInv, NEW s \in Nodes, Begin(s)
  PROVE  IInv'
<1> USE DEF IInv, Begin
<1>1. TypeOK'
  <2>1. queue' \in Seq(Entry)
    BY DEF Entry
  <2> QED BY <2>1 DEF TypeOK
<1>2. Frontier'
  <2>1. Queued(s)'
    <3>1. Len(queue') = 1 /\ queue'[1].at = s
      OBVIOUS
    <3> QED BY <3>1 DEF Queued
  <2> QED BY <2>1 DEF Frontier
<1>3. Scanned' /\ Drained' /\ Unasked'
  BY DEF Scanned, Drained, Unasked
<1> QED BY <1>1, <1>2, <1>3

\* Every step preserves the invariant.
LEMMA NextIInv == IInv /\ [Next]_vars => IInv'
<1> SUFFICES ASSUME IInv, [Next]_vars PROVE IInv'
  OBVIOUS
<1> USE SearchAssumption DEF IInv
<1>0. /\ IsAutomaton(dfa) /\ dfa.letters \in Nat
      /\ \A q, a : DFAStep(dfa, q, a) \in Nodes \cup {Void}
  BY StepTypes DEF TypeOK, IsAutomaton
<1>1. CASE UNCHANGED vars
  BY <1>1 DEF vars, TypeOK, Frontier, Scanned, Drained, Unasked, Queued, Closed
<1>2. CASE \E s \in Nodes : Begin(s)
  BY <1>2, BeginIInv
<1>3. CASE Pop
  <2> USE <1>3 DEF Pop
  <2>0. queue \in Seq(Entry)
    BY DEF TypeOK
  <2>1. /\ queue' \in Seq(Entry)
        /\ at' \in Nodes /\ path' \in Seq(Nat)
        /\ at' = queue[1].at
    BY <2>0, TailKeepsQueued DEF Entry
  <2>2. TypeOK'
    BY <2>1, <1>0 DEF TypeOK
  <2>3. \A q \in visited' : q = at' \/ Queued(q)' \/ Closed(q)'
    <3> SUFFICES ASSUME NEW q \in visited PROVE q = at' \/ Queued(q)' \/ Closed(q)
      BY DEF Closed
    <3>1. q = at \/ Queued(q) \/ Closed(q)
      BY DEF Frontier
    <3>2. q # at
      BY DEF TypeOK
    <3>3. CASE Queued(q)
      <4>1. PICK i \in 1..Len(queue) : queue[i].at = q
        BY <3>3 DEF Queued
      <4>2. CASE i = 1
        BY <4>1, <4>2, <2>1
      <4>3. CASE i # 1
        <5>1. i - 1 \in 1..Len(queue') /\ queue'[i - 1] = queue[i]
          BY <4>3, <2>0, TailKeepsQueued
        <5> QED BY <5>1, <4>1 DEF Queued
      <4> QED BY <4>2, <4>3
    <3> QED BY <3>1, <3>2, <3>3
  <2>4. Frontier'
    BY <2>3 DEF Frontier
  <2>5. Scanned'
    <3>1. \A a \in 1..dfa.letters : ~(a < 1)
      BY <1>0
    <3> QED BY <3>1 DEF Scanned
  <2>6. Drained' /\ Unasked'
    BY DEF Drained, Unasked
  <2> QED BY <2>2, <2>4, <2>5, <2>6
<1>4. CASE Skip
  <2> USE <1>4 DEF Skip, Scanning, Successor
  <2>0. sym \in 1..dfa.letters /\ sym + 1 \in 1..(dfa.letters + 1)
    BY <1>0
  <2>1. TypeOK'
    BY <2>0 DEF TypeOK
  <2>2. \A q : (Queued(q)' <=> Queued(q)) /\ (Closed(q)' <=> Closed(q))
    BY DEF Queued, Closed
  <2>3. Frontier' /\ Drained' /\ Unasked'
    BY <2>2 DEF Frontier, Drained, Unasked
  <2>4. Scanned'
    <3> SUFFICES ASSUME NEW a \in 1..dfa.letters, a < sym + 1
                 PROVE  DFAStep(dfa, at, a) \in visited \cup {Void}
      BY DEF Scanned
    <3>1. a < sym \/ a = sym
      BY <2>0, <1>0
    <3> QED BY <3>1 DEF Scanned
  <2> QED BY <2>1, <2>3, <2>4
<1>5. CASE Found
  <2> USE <1>5 DEF Found, Scanning
  <2>1. path' \in Seq(Nat)
    <3>1. path \in Seq(Nat) /\ sym \in Nat
      BY <1>0 DEF TypeOK
    <3> QED BY <3>1
  <2>2. TypeOK'
    BY <2>1 DEF TypeOK
  <2> QED BY <2>2 DEF Frontier, Drained, Scanned, Unasked
<1>6. CASE Visit
  <2> USE <1>6 DEF Visit, Scanning, Successor, Reached, Enqueue
  <2> DEFINE e == [at |-> DFAStep(dfa, at, sym), path |-> Append(path, sym)]
  <2>a. sym \in Nat /\ sym + 1 \in 1..(dfa.letters + 1) /\ path \in Seq(Nat)
    BY <1>0 DEF TypeOK
  <2>b. DFAStep(dfa, at, sym) \in Nodes
    BY <1>0
  <2>c. Append(path, sym) \in Seq(Nat)
    BY <2>a
  <2>0. queue \in Seq(Entry) /\ e \in Entry
    BY <2>b, <2>c DEF TypeOK, Entry
  <2>1. TypeOK'
    <3>1. queue' \in Seq(Entry)
      BY <2>0, AppendKeepsQueued
    <3>2. visited' \subseteq Nodes
      BY <2>b DEF TypeOK
    <3> QED BY <3>1, <3>2, <2>a DEF TypeOK
  <2>2. \A q \in visited' : q = at' \/ Queued(q)' \/ Closed(q)'
    <3> SUFFICES ASSUME NEW q \in visited' PROVE q = at \/ Queued(q)' \/ Closed(q)'
      OBVIOUS
    <3>1. CASE q = DFAStep(dfa, at, sym)
      <4>1. Len(queue) + 1 \in 1..Len(queue') /\ queue'[Len(queue) + 1] = e
        BY <2>0, AppendKeepsQueued
      <4> QED BY <4>1, <3>1 DEF Queued
    <3>2. CASE q \in visited
      <4>1. q = at \/ Queued(q) \/ Closed(q)
        BY <3>2 DEF Frontier
      <4>2. CASE Queued(q)
        <5>1. PICK i \in 1..Len(queue) : queue[i].at = q
          BY <4>2 DEF Queued
        <5>2. i \in 1..Len(queue') /\ queue'[i] = queue[i]
          BY <2>0, AppendKeepsQueued
        <5> QED BY <5>1, <5>2 DEF Queued
      <4>3. CASE Closed(q)
        BY <4>3 DEF Closed
      <4> QED BY <4>1, <4>2, <4>3
    <3> QED BY <3>1, <3>2
  <2>3. Frontier'
    BY <2>2 DEF Frontier
  <2>4. Scanned'
    <3> SUFFICES ASSUME NEW a \in 1..dfa.letters, a < sym + 1
                 PROVE  DFAStep(dfa, at, a) \in visited' \cup {Void}
      BY DEF Scanned
    <3>1. a < sym \/ a = sym
      BY <2>a, <1>0
    <3> QED BY <3>1 DEF Scanned
  <2>5. Drained' /\ Unasked'
    BY DEF Drained, Unasked
  <2> QED BY <2>1, <2>3, <2>4, <2>5
<1>7. CASE NextTurn
  <2> USE <1>7 DEF NextTurn
  <2>1. TypeOK'
    BY DEF TypeOK
  <2>2. Closed(at)
    <3>1. \A a \in 1..dfa.letters : a < sym
      BY <1>0 DEF ScanOver, TypeOK
    <3> QED BY <3>1 DEF Closed, Scanned
  <2>3. Frontier'
    <3>1. \A q : (Queued(q)' <=> Queued(q)) /\ (Closed(q)' <=> Closed(q))
      BY DEF Queued, Closed
    <3> QED BY <3>1, <2>2 DEF Frontier
  <2>4. Scanned' /\ Drained' /\ Unasked'
    BY DEF Scanned, Drained, Unasked
  <2> QED BY <2>1, <2>3, <2>4
<1>8. CASE Exhausted
  <2> USE <1>8 DEF Exhausted
  <2>1. TypeOK'
    BY DEF TypeOK
  <2>2. \A q : (Queued(q)' <=> Queued(q)) /\ (Closed(q)' <=> Closed(q))
    BY DEF Queued, Closed
  <2>3. Frontier' /\ Scanned' /\ Drained' /\ Unasked'
    BY <2>2 DEF Frontier, Scanned, Drained, Unasked
  <2> QED BY <2>1, <2>3
<1> QED BY <1>1, <1>2, <1>3, <1>4, <1>5, <1>6, <1>7, <1>8 DEF Next, SearchStep

\* The invariant holds throughout a search.
THEOREM SearchInvariant == Spec => []IInv
<1> QED BY InitIInv, NextIInv, PTL DEF Spec

\* find_shortest_repair_path returns None only from a state out of which no
\* accepting state can be reached, for every automaton: the states it has
\* visited are closed under delta and none of them accepts.
THEOREM SearchNoneMeansTrapped == Spec => []NoneMeansTrapped
<1>1. IInv => NoneMeansTrapped
  <2> SUFFICES ASSUME IInv, status = "none" PROVE NoneMeansTrapped
    BY DEF NoneMeansTrapped
  <2>1. queue = <<>> /\ at = Void
    BY DEF IInv, Drained
  <2>2. \A q \in visited : ~Queued(q)
    BY <2>1 DEF Queued
  <2>3. \A q \in visited : q # at
    BY <2>1, SearchAssumption DEF IInv, TypeOK
  <2> QED BY <2>2, <2>3 DEF IInv, Frontier, Closed, NoneMeansTrapped
<1> QED BY <1>1, SearchInvariant, PTL

-----------------------------------------------------------------------------
\* What words lead to.

\* One more symbol, from a set of states.
Advance(d) == [p \in (SUBSET Nodes) \X Nat |-> {DFAStep(d, q, p[2]) : q \in p[1]} \ {Void}]

LEMMA AdvanceType ==
  ASSUME NEW d, IsAutomaton(d)
  PROVE  Advance(d) \in [(SUBSET Nodes) \X Nat -> SUBSET Nodes]
<1> SUFFICES ASSUME NEW S \in SUBSET Nodes, NEW a \in Nat
             PROVE  {DFAStep(d, q, a) : q \in S} \ {Void} \in SUBSET Nodes
  BY DEF Advance
<1> QED
  BY StepTypes

\* The ends of a word are well defined.
LEMMA EndsAlong ==
  ASSUME NEW d, IsAutomaton(d), NEW s \in Nodes, NEW w \in Seq(Nat)
  PROVE  \E f : /\ Along(f, SUBSET Nodes, {s}, Advance(d), w)
                /\ Ends(d, s, w) = f[Len(w)]
<1> DEFINE Solves(e) == e = [i \in 0..Len(w) |->
             IF i = 0 THEN {s} ELSE {DFAStep(d, q, w[i]) : q \in e[i - 1]} \ {Void}]
           chosen == CHOOSE e : Solves(e)
<1>0. Len(w) \in Nat /\ {s} \in SUBSET Nodes /\ \A i \in 1..Len(w) : w[i] \in Nat
  OBVIOUS
<1>1. Advance(d) \in [(SUBSET Nodes) \X Nat -> SUBSET Nodes]
  BY AdvanceType
<1>2. \E e : Solves(e)
  <2>1. PICK f : Along(f, SUBSET Nodes, {s}, Advance(d), w)
    BY <1>0, <1>1, AlongExists
  <2>2. \A i \in 1..Len(w) : f[i] = {DFAStep(d, q, w[i]) : q \in f[i - 1]} \ {Void}
    <3> SUFFICES ASSUME NEW i \in 1..Len(w)
                 PROVE  f[i] = {DFAStep(d, q, w[i]) : q \in f[i - 1]} \ {Void}
      OBVIOUS
    <3>1. i - 1 \in 0..Len(w)
      BY <1>0
    <3>2. f[i - 1] \in SUBSET Nodes /\ f[i] = Advance(d)[<<f[i - 1], w[i]>>]
      BY <2>1, <3>1 DEF Along
    <3> QED
      BY <1>0, <3>2 DEF Advance
  <2>3. Solves(f)
    BY <1>0, <2>1, <2>2 DEF Along
  <2> QED
    BY <2>3
<1>3. Solves(chosen)
  BY <1>2
<1>4. Ends(d, s, w) = chosen[Len(w)]
  BY DEF Ends
<1> HIDE DEF chosen
<1>5. Along(chosen, SUBSET Nodes, {s}, Advance(d), w)
  <2>1. IsFcnOn(chosen, 0..Len(w)) /\ chosen[0] = {s}
    BY <1>0, <1>3 DEF IsFcnOn
  <2>2. \A i \in 1..Len(w) : chosen[i - 1] \in SUBSET Nodes =>
           chosen[i] = Advance(d)[<<chosen[i - 1], w[i]>>]
    <3> SUFFICES ASSUME NEW i \in 1..Len(w), chosen[i - 1] \in SUBSET Nodes
                 PROVE  chosen[i] = Advance(d)[<<chosen[i - 1], w[i]>>]
      OBVIOUS
    <3>1. i \in 0..Len(w) /\ i # 0 /\ w[i] \in Nat
      BY <1>0
    <3>2. chosen[i] = {DFAStep(d, q, w[i]) : q \in chosen[i - 1]} \ {Void}
      BY <1>3, <3>1
    <3> HIDE DEF Solves
    <3> QED
      BY <3>1, <3>2 DEF Advance
  <2> HIDE DEF Solves
  <2> QED
    BY <1>0, <1>1, <2>1, <2>2, AlongIntro
<1> QED
  BY <1>4, <1>5

\* The empty word stays, and a symbol more is a step more.
LEMMA EndsEmpty ==
  ASSUME NEW d, IsAutomaton(d), NEW s \in Nodes
  PROVE  Ends(d, s, <<>>) = {s}
<1>0. <<>> \in Seq(Nat)
  OBVIOUS
<1>1. PICK f : Along(f, SUBSET Nodes, {s}, Advance(d), <<>>) /\ Ends(d, s, <<>>) = f[Len(<<>>)]
  BY <1>0, EndsAlong
<1> QED
  BY <1>1 DEF Along

LEMMA EndsAppend ==
  ASSUME NEW d, IsAutomaton(d), NEW s \in Nodes, NEW w \in Seq(Nat), NEW a \in Nat
  PROVE  Ends(d, s, Append(w, a)) = {DFAStep(d, q, a) : q \in Ends(d, s, w)} \ {Void}
<1>0. Append(w, a) \in Seq(Nat)
  OBVIOUS
<1>1. PICK f : Along(f, SUBSET Nodes, {s}, Advance(d), w) /\ Ends(d, s, w) = f[Len(w)]
  BY EndsAlong
<1>2. PICK g : /\ Along(g, SUBSET Nodes, {s}, Advance(d), Append(w, a))
               /\ Ends(d, s, Append(w, a)) = g[Len(Append(w, a))]
  BY <1>0, EndsAlong
<1>3. g[Len(w) + 1] = Advance(d)[<<f[Len(w)], a>>]
  <2> DEFINE D == SUBSET Nodes
             base == {s}
             x == Append(w, a)
  <2>1. Extends(x, w) /\ x[Len(w) + 1] = a
    BY DEF Extends
  <2>2. Along(f, D, base, Advance(d), w)
    BY <1>1
  <2>3. Along(g, D, base, Advance(d), x)
    BY <1>2
  <2> HIDE DEF D, base, x
  <2>4. Further(g, f, Advance(d), x, w)
    BY <2>1, <2>2, <2>3, AlongLonger
  <2> QED
    BY <2>1, <2>4 DEF Further
<1>4. Len(Append(w, a)) = Len(w) + 1 /\ Len(w) \in 0..Len(w)
  OBVIOUS
<1>5. f[Len(w)] \in SUBSET Nodes
  BY <1>1, <1>4 DEF Along
<1> QED
  BY <1>1, <1>2, <1>3, <1>4, <1>5 DEF Advance

\* The layers are well defined: one is what the one before widens to.
LEMMA LayersWiden ==
  ASSUME NEW d, IsAutomaton(d), NEW s \in Nodes
  PROVE  /\ Layers(d, s) \in [Nat -> SUBSET Nodes]
         /\ Layers(d, s)[0] = {s}
         /\ \A n \in Nat : Layers(d, s)[n + 1] = Widen(d, Layers(d, s)[n])
<1> DEFINE Solves(e) == e = [n \in Nat |->
             IF n = 0 THEN {s} ELSE UNION {Widen(d, S) : S \in {e[n - 1]}}]
           step == [p \in (SUBSET Nodes) \X Nat |-> Widen(d, p[1])]
           chosen == CHOOSE e : Solves(e)
<1>1. \A S \in SUBSET Nodes : Widen(d, S) \in SUBSET Nodes
  BY DEF Widen, IsAutomaton
<1>2. step \in [(SUBSET Nodes) \X Nat -> SUBSET Nodes] /\ {s} \in SUBSET Nodes
  BY <1>1
<1>3. \A S : UNION {Widen(d, T) : T \in {S}} = Widen(d, S)
  OBVIOUS
<1>4. \E e : Solves(e)
  <2>1. PICK f : Recurs(f, SUBSET Nodes, {s}, step)
    <3> HIDE DEF step
    <3> QED
      BY <1>2, RecursionExists
  <2>2. \A n \in Nat : n # 0 => f[n] = Widen(d, f[n - 1])
    <3> SUFFICES ASSUME NEW n \in Nat, n # 0 PROVE f[n] = Widen(d, f[n - 1])
      OBVIOUS
    <3>1. n - 1 \in Nat
      OBVIOUS
    <3>2. f[n - 1] \in SUBSET Nodes /\ f[n] = step[<<f[n - 1], n>>]
      <4> HIDE DEF step
      <4> QED
        BY <2>1, <3>1 DEF Recurs
    <3> QED
      BY <3>2
  <2>3. f = [n \in Nat |-> IF n = 0 THEN {s} ELSE Widen(d, f[n - 1])]
    <3> HIDE DEF step
    <3> QED
      BY <2>1, <2>2 DEF Recurs
  <2>4. Solves(f)
    BY <1>3, <2>3
  <2> QED
    BY <2>4
<1>5. Solves(chosen)
  BY <1>4
<1>6. Layers(d, s) = chosen
  BY DEF Layers
<1>7. chosen = [n \in Nat |-> IF n = 0 THEN {s} ELSE Widen(d, chosen[n - 1])]
  <2> HIDE DEF chosen
  <2> QED
    BY <1>3, <1>5
<1> HIDE DEF chosen
<1>8. Recurs(chosen, SUBSET Nodes, {s}, step)
  <2>1. IsFcnOn(chosen, Nat) /\ chosen[0] = {s}
    BY <1>7 DEF IsFcnOn
  <2>2. \A i \in Nat \ {0} : chosen[i - 1] \in SUBSET Nodes =>
           chosen[i] = step[<<chosen[i - 1], i>>]
    BY <1>7
  <2> HIDE DEF step
  <2> QED
    BY <1>2, <2>1, <2>2, RecursIntro
<1>9. chosen \in [Nat -> SUBSET Nodes] /\ chosen[0] = {s}
  <2> HIDE DEF step
  <2> QED
    BY <1>8 DEF Recurs
<1>10. ASSUME NEW n \in Nat PROVE chosen[n + 1] = Widen(d, chosen[n])
  <2>1. n + 1 \in Nat /\ n + 1 # 0 /\ (n + 1) - 1 = n
    OBVIOUS
  <2> QED
    BY <1>7, <2>1
<1> QED
  BY <1>6, <1>9, <1>10
-----------------------------------------------------------------------------
\* The order of the visits.

\* What is queued while the words of length k are looked at: everything that
\* words of length k lead to has been visited, and an entry of the queue is of
\* that length, or longer by one and then off those states.
Around(k) ==
  /\ Within[k] \subseteq visited
  /\ \A i \in 1..Len(queue) :
       \/ Len(queue[i].path) = k
       \/ Len(queue[i].path) = k + 1 /\ queue[i].at \notin Within[k]

Ordered ==
  \A i, j \in 1..Len(queue) : i < j => Len(queue[i].path) <= Len(queue[j].path)

\* Every path in the queue leads to the state queued with it.
Replays == \A i \in 1..Len(queue) : Led(queue[i].path) = {queue[i].at}

Layered ==
  status = "searching" =>
    /\ from \in Nodes
    /\ Ordered
    /\ Replays
    /\ at # Void => Led(path) = {at} /\ Around(Len(path))
    /\ at = Void /\ queue # <<>> => Around(Len(queue[1].path))

Untrodden == status = "idle" => path = <<>>

ShortestInv == Layered /\ Untrodden /\ RepairIsShortest
\* The same search goes on: what depends on the question alone stays.
LEMMA QuestionOnly ==
  ASSUME dfa' = dfa, from' = from
  PROVE  Within' = Within /\ \A w : Led(w)' = Led(w)
BY DEF Within, Led

LEMMA InitShortest == Init => ShortestInv
BY DEF Init, Idle, ShortestInv, Layered, Untrodden, RepairIsShortest

\* A call starts with the empty word, which leads to the state itself.
LEMMA BeginShortest ==
  ASSUME IInv, ShortestInv, NEW s \in Nodes, Begin(s)
  PROVE  ShortestInv'
<1> USE DEF Begin
<1>0. IsAutomaton(dfa) /\ dfa' = dfa /\ from' = s /\ path' = <<>> /\ at' = Void /\ Void \notin Nodes
  BY SearchAssumption DEF IInv, TypeOK, Unasked, ShortestInv, Untrodden
<1>1. Ends(dfa, s, <<>>) = {s}
  BY <1>0, EndsEmpty
<1>2. Layers(dfa, s)[0] = {s}
  BY <1>0, LayersWiden
<1>3. Led(<<>>)' = {s} /\ Within'[0] = {s}
  BY <1>0, <1>1, <1>2 DEF Led, Within
<1>4. Len(queue') = 1 /\ queue'[1].at = s /\ queue'[1].path = <<>>
  OBVIOUS
<1>5. Layered'
  <2>1. Ordered'
    BY <1>4 DEF Ordered
  <2>2. Replays'
    <3>1. \A i \in 1..Len(queue') : i = 1
      BY <1>4
    <3>2. Led(queue[1].path)' = {s}
      BY <1>0, <1>1, <1>4 DEF Led
    <3> QED BY <1>4, <3>1, <3>2 DEF Replays
  <2>3. Around(0)'
    BY <1>3, <1>4 DEF Around
  <2>4. Around(Len(queue[1].path))'
    BY <1>4, <2>3
  <2> QED BY <1>0, <2>1, <2>2, <2>4 DEF Layered
<1>6. RepairIsShortest'
  BY <1>0, <1>3 DEF RepairIsShortest
<1> QED BY <1>5, <1>6 DEF ShortestInv, Untrodden
\* A turn that ends: the words of the next length may be up.
LEMMA TurnAdvances ==
  ASSUME IInv, ShortestInv, NextTurn, queue # <<>>
  PROVE  Around(Len(queue[1].path))
<1> USE DEF NextTurn
<1> DEFINE k == Len(path)
<1>0. /\ IsAutomaton(dfa) /\ from \in Nodes /\ queue \in Seq(Entry) /\ k \in Nat
      /\ at \in Nodes /\ at # Void
  BY SearchAssumption DEF IInv, TypeOK, ShortestInv, Layered
<1>1. Around(k) /\ Ordered
  BY <1>0 DEF ShortestInv, Layered
<1>2. 1 \in 1..Len(queue) /\ \A i \in 1..Len(queue) : Len(queue[i].path) \in Nat
  BY <1>0 DEF Entry
<1>3. CASE Len(queue[1].path) = k
  BY <1>1, <1>3
<1>4. CASE Len(queue[1].path) # k
  <2>1. Len(queue[1].path) = k + 1
    BY <1>1, <1>2, <1>4 DEF Around
  <2>2. \A i \in 1..Len(queue) : Len(queue[i].path) = k + 1 /\ queue[i].at \notin Within[k]
    <3> SUFFICES ASSUME NEW i \in 1..Len(queue)
                 PROVE  Len(queue[i].path) = k + 1 /\ queue[i].at \notin Within[k]
      OBVIOUS
    <3>1. Len(queue[i].path) >= k + 1
      <4>1. CASE i = 1
        BY <2>1, <4>1, <1>0
      <4>2. CASE i # 1
        <5>1. 1 < i
          BY <1>0, <4>2
        <5> QED BY <1>1, <1>2, <2>1, <5>1 DEF Ordered
      <4> QED BY <4>1, <4>2
    <3>2. Len(queue[i].path) # k
      BY <1>0, <1>2, <3>1
    <3> QED BY <1>1, <3>2 DEF Around
  <2>3. \A q \in Within[k], a \in 1..dfa.letters : DFAStep(dfa, q, a) \in visited \cup {Void}
    <3> SUFFICES ASSUME NEW q \in Within[k], NEW a \in 1..dfa.letters
                 PROVE  DFAStep(dfa, q, a) \in visited \cup {Void}
      OBVIOUS
    <3>1. q \in visited
      BY <1>1 DEF Around
    <3>2. ~Queued(q)
      BY <2>2 DEF Queued
    <3>3. q = at \/ Closed(q)
      BY <3>1, <3>2 DEF IInv, Frontier
    <3>4. a < sym
      BY <1>0 DEF IInv, TypeOK, ScanOver, IsAutomaton
    <3> QED BY <3>3, <3>4, <1>0 DEF IInv, Scanned, Closed
  <2>4. Widen(dfa, Within[k]) \subseteq visited
    <3>1. Within[k] \subseteq visited
      BY <1>1 DEF Around
    <3>2. ASSUME NEW p \in DOMAIN dfa.delta \cap (Within[k] \X (1..dfa.letters))
          PROVE  dfa.delta[p] \in visited
      <4>1. p = <<p[1], p[2]>> /\ p[1] \in Within[k] /\ p[2] \in 1..dfa.letters
        OBVIOUS
      <4>2. DFAStep(dfa, p[1], p[2]) = dfa.delta[p] /\ dfa.delta[p] \in Nodes
        BY <1>0, <3>2, <4>1 DEF DFAStep, IsAutomaton
      <4> QED BY <2>3, <4>1, <4>2, SearchAssumption
    <3> QED BY <3>1, <3>2 DEF Widen
  <2>5. Within[k + 1] = Widen(dfa, Within[k])
    <3>1. \A n \in Nat : Layers(dfa, from)[n + 1] = Widen(dfa, Layers(dfa, from)[n])
      BY <1>0, LayersWiden
    <3> HIDE DEF k
    <3> QED BY <1>0, <3>1 DEF Within
  <2> QED BY <2>1, <2>2, <2>4, <2>5 DEF Around
<1> QED BY <1>3, <1>4

\* A state that is found: nothing accepting is any closer.
LEMMA FoundIsShortest ==
  ASSUME IInv, ShortestInv, Found
  PROVE  RepairIsShortest'
<1> USE DEF Found, Scanning, Successor
<1>0. /\ IsAutomaton(dfa) /\ from \in Nodes /\ path \in Seq(Nat) /\ sym \in Nat
      /\ Led(path) = {at} /\ Around(Len(path))
  BY DEF IInv, TypeOK, ShortestInv, Layered, IsAutomaton
<1>1. Led(Append(path, sym)) = {DFAStep(dfa, at, sym)}
  <2>1. Led(Append(path, sym)) = {DFAStep(dfa, q, sym) : q \in Led(path)} \ {Void}
    BY <1>0, EndsAppend DEF Led
  <2> QED BY <1>0, <2>1
<1>2. Led(path)' = {DFAStep(dfa, at, sym)}
  BY <1>1 DEF Led
<1>3. Len(path') = Len(path) + 1 /\ Len(path) \in Nat
  BY <1>0
<1>4. Within' = Within
  BY QuestionOnly
<1>5. Within[Len(path)] \cap dfa.accepting = {}
  BY <1>0 DEF Around, IInv, Frontier
<1>6. Within'[Len(path') - 1] \cap dfa.accepting = {}
  <2>1. Len(path') - 1 = Len(path)
    BY <1>3
  <2> QED BY <1>4, <1>5, <2>1
<1> QED BY <1>2, <1>6 DEF RepairIsShortest

\* What is visited is appended behind the words of its length.
LEMMA VisitShortest ==
  ASSUME IInv, ShortestInv, Visit
  PROVE  Layered'
<1> USE DEF Visit, Scanning, Successor
<1> DEFINE k == Len(path)
           e == Reached
<1>0. /\ IsAutomaton(dfa) /\ from \in Nodes /\ path \in Seq(Nat) /\ sym \in Nat /\ k \in Nat
      /\ queue \in Seq(Entry)
      /\ Led(path) = {at} /\ Around(k) /\ Ordered /\ Replays
  BY DEF IInv, TypeOK, ShortestInv, Layered, IsAutomaton
<1>1. e \in Entry /\ e.at = Successor /\ e.path = Append(path, sym) /\ Len(e.path) = k + 1
  <2>1. Successor \in Nodes
    BY <1>0, StepTypes
  <2>2. Append(path, sym) \in Seq(Nat) /\ Len(Append(path, sym)) = k + 1
    BY <1>0
  <2> QED BY <2>1, <2>2 DEF Entry, Reached
<1>2. Led(Append(path, sym)) = {Successor}
  <2>1. Led(Append(path, sym)) = {DFAStep(dfa, q, sym) : q \in Led(path)} \ {Void}
    BY <1>0, EndsAppend DEF Led
  <2> QED BY <1>0, <2>1
<1>3. queue' = Append(queue, e)
  BY DEF Enqueue
<1> HIDE DEF e
<1>4. /\ Len(queue') = Len(queue) + 1 /\ queue'[Len(queue) + 1] = e
      /\ \A i \in 1..Len(queue) : queue'[i] = queue[i]
  BY <1>0, <1>1, <1>3
<1>5. /\ Len(queue) \in Nat
      /\ \A i \in 1..Len(queue') : i \in 1..Len(queue) \/ i = Len(queue) + 1
      /\ \A i \in 1..Len(queue) : Len(queue[i].path) \in Nat /\ Len(queue[i].path) <= k + 1
  <2>1. \A i \in 1..Len(queue) : Len(queue[i].path) \in Nat
    BY <1>0 DEF Entry
  <2>2. \A i \in 1..Len(queue) : Len(queue[i].path) <= k + 1
    BY <1>0, <2>1 DEF Around
  <2> QED BY <1>0, <1>4, <2>1, <2>2
<1>6. Within' = Within /\ \A w : Led(w)' = Led(w)
  BY QuestionOnly
<1>7. Ordered'
  <2> SUFFICES ASSUME NEW i \in 1..Len(queue'), NEW j \in 1..Len(queue'), i < j
               PROVE  Len(queue'[i].path) <= Len(queue'[j].path)
    BY DEF Ordered
  <2>1. i \in 1..Len(queue)
    BY <1>4, <1>5
  <2>2. CASE j \in 1..Len(queue)
    BY <1>0, <1>4, <2>1, <2>2 DEF Ordered
  <2>3. CASE j = Len(queue) + 1
    BY <1>1, <1>4, <1>5, <2>1, <2>3
  <2> QED BY <1>5, <2>2, <2>3
<1>8. Replays'
  <2> SUFFICES ASSUME NEW i \in 1..Len(queue')
               PROVE  Led(queue[i].path)' = {queue'[i].at}
    BY DEF Replays
  <2>1. CASE i \in 1..Len(queue)
    BY <1>0, <1>4, <1>6, <2>1 DEF Replays, Led
  <2>2. CASE i = Len(queue) + 1
    BY <1>1, <1>2, <1>4, <1>6, <2>2 DEF Led
  <2> QED BY <1>5, <2>1, <2>2
<1>9. Around(k)'
  <2>1. Within[k] \subseteq visited
    BY <1>0 DEF Around
  <2>2. \A i \in 1..Len(queue') : \/ Len(queue'[i].path) = k
                                  \/ Len(queue'[i].path) = k + 1 /\ queue'[i].at \notin Within[k]
    <3> SUFFICES ASSUME NEW i \in 1..Len(queue')
                 PROVE  \/ Len(queue'[i].path) = k
                        \/ Len(queue'[i].path) = k + 1 /\ queue'[i].at \notin Within[k]
      OBVIOUS
    <3>1. CASE i \in 1..Len(queue)
      BY <1>0, <1>4, <3>1 DEF Around
    <3>2. CASE i = Len(queue) + 1
      BY <1>1, <1>4, <2>1, <3>2
    <3> QED BY <1>5, <3>1, <3>2
  <2> QED BY <1>6, <2>1, <2>2 DEF Around
<1>10. Led(path)' = {at}
  BY <1>0 DEF Led
<1> QED BY <1>0, <1>7, <1>8, <1>9, <1>10 DEF Layered

\* An entry that is taken off leaves the others in their order.
LEMMA PopShortest ==
  ASSUME IInv, ShortestInv, Pop
  PROVE  Layered'
<1> USE DEF Pop
<1>0. /\ queue \in Seq(Entry) /\ from \in Nodes /\ Ordered /\ Replays
      /\ Around(Len(queue[1].path))
  BY DEF IInv, TypeOK, ShortestInv, Layered
<1>1. /\ Len(queue) \in Nat /\ 1 \in 1..Len(queue) /\ Head(queue) = queue[1]
      /\ \A i \in 1..Len(queue') :
           i + 1 \in 1..Len(queue) /\ queue'[i] = queue[i + 1] /\ i \in Nat
  BY <1>0
<1>2. Within' = Within /\ \A w : Led(w)' = Led(w)
  BY QuestionOnly
<1>3. Ordered'
  <2> SUFFICES ASSUME NEW i \in 1..Len(queue'), NEW j \in 1..Len(queue'), i < j
               PROVE  Len(queue'[i].path) <= Len(queue'[j].path)
    BY DEF Ordered
  <2>1. i + 1 < j + 1
    BY <1>1
  <2> QED BY <1>0, <1>1, <2>1 DEF Ordered
<1>4. Replays'
  BY <1>0, <1>1, <1>2 DEF Replays, Led
<1>5. Around(Len(queue[1].path))
  BY <1>0
<1>6. Around(Len(path))'
  BY <1>0, <1>1, <1>2 DEF Around
<1>7. Led(path)' = {at'}
  BY <1>0, <1>1 DEF Replays, Led
<1>8. at' # Void
  <2>1. queue[1] \in Entry
    BY <1>0, <1>1
  <2> QED BY <1>1, <2>1, SearchAssumption DEF Entry
<1> QED BY <1>0, <1>3, <1>4, <1>6, <1>7, <1>8 DEF Layered

\* Every step preserves the order of the visits.
LEMMA NextShortest == IInv /\ ShortestInv /\ [Next]_vars => ShortestInv'
<1> SUFFICES ASSUME IInv, ShortestInv, [Next]_vars PROVE ShortestInv'
  OBVIOUS
<1>1. CASE UNCHANGED vars
  BY <1>1 DEF vars, ShortestInv, Layered, Untrodden, RepairIsShortest, Ordered, Replays, Around,
              Led, Within
<1>2. CASE \E s \in Nodes : Begin(s)
  BY <1>2, BeginShortest
<1>3. CASE Pop
  BY <1>3, PopShortest DEF Pop, ShortestInv, Untrodden, RepairIsShortest
<1>4. CASE Skip
  <2>1. Within' = Within /\ \A w : Led(w)' = Led(w)
    BY <1>4, QuestionOnly DEF Skip
  <2> QED BY <1>4, <2>1 DEF Skip, Scanning, ShortestInv, Layered, Untrodden, RepairIsShortest,
             Ordered, Replays, Around, Led
<1>5. CASE Found
  BY <1>5, FoundIsShortest DEF Found, ShortestInv, Layered, Untrodden
<1>6. CASE Visit
  BY <1>6, VisitShortest DEF Visit, Scanning, ShortestInv, Untrodden, RepairIsShortest
<1>7. CASE NextTurn
  <2>1. Within' = Within /\ \A w : Led(w)' = Led(w)
    BY <1>7, QuestionOnly DEF NextTurn
  <2>2. queue # <<>> => Around(Len(queue[1].path))
    BY <1>7, TurnAdvances
  <2>3. Layered'
    BY <1>7, <2>1, <2>2 DEF NextTurn, ShortestInv, Layered, Ordered, Replays, Around, Led
  <2> QED BY <1>7, <2>3 DEF NextTurn, ShortestInv, Untrodden, RepairIsShortest
<1>8. CASE Exhausted
  BY <1>8 DEF Exhausted, ShortestInv, Layered, Untrodden, RepairIsShortest
<1> QED BY <1>1, <1>2, <1>3, <1>4, <1>5, <1>6, <1>7, <1>8 DEF Next, SearchStep

\* The word that find_shortest_repair_path answers with leads from the state
\* to an accepting one, and no shorter word does, for every automaton and
\* every state.
THEOREM SearchRepairIsShortest == Spec => []RepairIsShortest
<1>1. ShortestInv => RepairIsShortest
  BY DEF ShortestInv
<1> QED BY <1>1, InitShortest, NextShortest, SearchInvariant, PTL DEF Spec

-----------------------------------------------------------------------------
\* The safety check.


\* The pairs that are not queued have been expanded, and marked by the mode.
Building ==
  phase = "product" =>
    /\ StartPair \in pairs
    /\ Onward(pairs \ frontier) \subseteq pairs
    /\ Marks(pairs \ frontier) \subseteq marked
    /\ frontier \subseteq pairs

Built ==
  phase = "reach" =>
    /\ mode = "intersection"
    /\ StartPair \in pairs
    /\ Onward(pairs) \subseteq pairs
    /\ Marks(pairs) \subseteq marked

Reaching ==
  phase = "reach" =>
    /\ StartPair \in reached
    /\ reached \subseteq pairs
    /\ frontier \subseteq reached
    /\ Onward(reached \ frontier) \subseteq reached

CheckInv == mode \in Modes /\ Building /\ Built /\ Reaching /\ SafeMeansDisjoint

productInput == <<dfa, property, mode>>

-----------------------------------------------------------------------------
\* The joint transitions are those of the pairs, taken one by one.
LEMMA OnwardSplits ==
  ASSUME NEW P, NEW Q
  PROVE  /\ Onward(P \cup Q) = Onward(P) \cup Onward(Q)
         /\ P \subseteq Q => Onward(P) \subseteq Onward(Q)
         /\ Marks(P \cup Q) = Marks(P) \cup Marks(Q)
BY DEF Onward, Marks

\* Nothing of the product depends on what is not its input.
LEMMA InputOnly ==
  ASSUME UNCHANGED productInput
  PROVE  /\ StartPair' = StartPair
         /\ \A P : Onward(P)' = Onward(P)
         /\ \A P : Marks(P)' = Marks(P)
BY DEF productInput, StartPair, Onward, Joint, Letters, DFAStep, Marks, Accepts, Wanted

\* A pair that both automata accept is marked by an intersection.
LEMMA JointlyAcceptingIsMarked ==
  ASSUME mode = "intersection", NEW P, NEW p \in P,
         p[1] \in dfa.accepting, p[2] \in property.accepting
  PROVE  p \in Marks(P)
<1>1. Accepts(p)
  BY DEF Accepts, Wanted
<1> QED BY <1>1 DEF Marks

LEMMA CheckerInitInv == CheckerInit => CheckInv
<1> SUFFICES ASSUME CheckerInit PROVE CheckInv
  OBVIOUS
<1>1. mode \in Modes /\ phase \in {"product", "replay"}
  BY CheckerAssumption DEF CheckerInit, Modes
<1>2. pairs = {StartPair} /\ frontier = {StartPair}
  BY DEF CheckerInit
<1>3. Building
  BY <1>2 DEF Building, Onward, Marks
<1> QED BY <1>1, <1>3 DEF CheckInv, Built, Reaching, SafeMeansDisjoint

\* The steps of the explanation, the replay and the repair are about pairs no
\* more: they start from phases of which the invariant says nothing, and lead
\* to such phases.
Afterwards == {"explain", "trace", "replay", "repair"}

LEMMA LaterSteps ==
  ASSUME CheckInv,
         PopPair \/ SkipPair \/ RecordPair \/ NextPair \/ Trace \/ Traced
           \/ Replay \/ BeginRepair \/ RepairStep
  PROVE  mode' = mode /\ phase' \in Afterwards
<1>1. phase \in Afterwards /\ mode' = mode /\ phase' \in {phase} \cup Afterwards
  BY DEF PopPair, SkipPair, ScanningPair, RecordPair, NextPair, Trace, Traced, Replay,
         BeginRepair, RepairStep, Afterwards
<1> QED BY <1>1

LEMMA CheckerNextInv == CheckInv /\ [CheckerNext]_checkerVars => CheckInv'
<1> SUFFICES ASSUME CheckInv, [CheckerNext]_checkerVars PROVE CheckInv'
  OBVIOUS
<1>1. CASE UNCHANGED checkerVars
  <2>1. UNCHANGED <<productInput, phase, pairs, frontier, marked, reached>>
    BY <1>1 DEF checkerVars, productVars, productInput, vars
  <2>2. UNCHANGED <<dfa, property>>
    BY <2>1 DEF productInput
  <2> QED BY <2>1, <2>2, InputOnly DEF CheckInv, Building, Built, Reaching, SafeMeansDisjoint, productInput
<1>2. CASE Expand
  <2>1. UNCHANGED productInput /\ phase = "product" /\ phase' = "product"
    BY <1>2 DEF Expand, productInput, vars
  <2>2. /\ frontier' = Onward(frontier) \ pairs
        /\ pairs' = pairs \cup frontier'
        /\ marked' = marked \cup Marks(frontier)
    BY <1>2 DEF Expand, New
  <2>3. /\ StartPair \in pairs /\ frontier \subseteq pairs
        /\ Onward(pairs \ frontier) \subseteq pairs
        /\ Marks(pairs \ frontier) \subseteq marked
    BY <2>1 DEF CheckInv, Building
  <2>4. pairs' \ frontier' = (pairs \ frontier) \cup frontier
    BY <2>2, <2>3
  <2>5. /\ Onward(pairs' \ frontier') \subseteq pairs'
        /\ Marks(pairs' \ frontier') \subseteq marked'
    BY <2>2, <2>3, <2>4, OnwardSplits
  <2>6. Building'
    BY <2>1, <2>2, <2>3, <2>5, InputOnly DEF Building
  <2>7. mode' = mode
    BY <2>1 DEF productInput
  <2> QED BY <2>1, <2>6, <2>7 DEF CheckInv, Built, Reaching, SafeMeansDisjoint
<1>3. CASE ProductBuilt
  <2>1. UNCHANGED productInput /\ UNCHANGED <<pairs, marked>> /\ phase = "product" /\ frontier = {}
    BY <1>3 DEF ProductBuilt, productInput, vars
  <2>2. StartPair \in pairs /\ Onward(pairs) \subseteq pairs /\ Marks(pairs) \subseteq marked
    <3>1. pairs \ frontier = pairs
      BY <2>1
    <3> QED BY <2>1, <3>1 DEF CheckInv, Building
  <2>3. mode' = mode
    BY <2>1 DEF productInput
  <2>4. CASE phase' = "built"
    BY <2>3, <2>4 DEF CheckInv, Building, Built, Reaching, SafeMeansDisjoint
  <2>5. CASE phase' = "reach"
    <3>1. mode = "intersection" /\ reached' = {StartPair} /\ frontier' = {StartPair}
      BY <1>3, <2>5 DEF ProductBuilt
    <3>2. Built'
      BY <2>1, <2>2, <2>3, <3>1, InputOnly DEF Built
    <3>3. reached' \ frontier' = {} /\ Onward({}) = {}
      BY <3>1 DEF Onward
    <3>4. Reaching'
      BY <2>1, <2>2, <3>1, <3>3, InputOnly DEF Reaching
    <3> QED BY <2>3, <2>5, <3>2, <3>4 DEF CheckInv, Building, SafeMeansDisjoint
  <2> QED BY <1>3, <2>4, <2>5 DEF ProductBuilt
<1>4. CASE Reach
  <2>1. /\ UNCHANGED productInput /\ UNCHANGED <<pairs, marked>>
        /\ phase = "reach" /\ phase' = "reach"
    BY <1>4 DEF Reach, productInput, vars
  <2>2. frontier' = Onward(frontier) \ reached /\ reached' = reached \cup frontier'
    BY <1>4 DEF Reach, New
  <2>3. Built /\ Reaching
    BY DEF CheckInv
  <2>4. Onward(frontier) \subseteq pairs
    BY <2>1, <2>3, OnwardSplits DEF Built, Reaching
  <2>5. reached' \ frontier' = (reached \ frontier) \cup frontier
    BY <2>1, <2>2, <2>3 DEF Reaching
  <2>6. Onward(reached' \ frontier') \subseteq reached'
    BY <2>1, <2>2, <2>3, <2>5, OnwardSplits DEF Reaching
  <2>7. Reaching'
    BY <2>1, <2>2, <2>3, <2>4, <2>6, InputOnly DEF Reaching
  <2>8. Built' /\ mode' = mode
    BY <2>1, <2>3, InputOnly DEF Built, productInput
  <2> QED BY <2>1, <2>7, <2>8 DEF CheckInv, Building, SafeMeansDisjoint
<1>5. CASE Decide
  <2>1. /\ UNCHANGED productInput /\ UNCHANGED <<pairs, marked, reached>>
        /\ phase = "reach" /\ frontier = {}
    BY <1>5 DEF Decide, productInput, productVars, vars
  <2>2. mode' = mode /\ dfa' = dfa /\ property' = property
    BY <2>1 DEF productInput
  <2>3. CASE phase' # "safe"
    <3>1. phase' \in Afterwards
      BY <1>5, <2>3 DEF Decide, Afterwards
    <3> QED BY <2>2, <3>1 DEF Afterwards, CheckInv, Building, Built, Reaching, SafeMeansDisjoint
  <2>4. CASE phase' = "safe"
    <3>1. marked \cap reached = {}
      BY <1>5, <2>4 DEF Decide
    <3>2. /\ mode = "intersection" /\ Marks(pairs) \subseteq marked
          /\ StartPair \in reached /\ reached \subseteq pairs
          /\ Onward(reached) \subseteq reached
      <4>1. reached \ frontier = reached
        BY <2>1
      <4> QED BY <2>1, <4>1 DEF CheckInv, Built, Reaching
    <3>3. \A p \in reached : ~(p[1] \in dfa.accepting /\ p[2] \in property.accepting)
      BY <3>1, <3>2, JointlyAcceptingIsMarked
    <3>4. SafeMeansDisjoint'
      BY <2>1, <2>2, <3>2, <3>3, InputOnly DEF SafeMeansDisjoint
    <3> QED BY <2>2, <2>4, <3>4 DEF CheckInv, Building, Built, Reaching
  <2> QED BY <2>3, <2>4
<1>6. CASE PopPair \/ SkipPair \/ RecordPair \/ NextPair \/ Trace \/ Traced
             \/ Replay \/ BeginRepair \/ RepairStep
  <2>1. mode' = mode /\ phase' \in Afterwards
    BY <1>6, LaterSteps
  <2> QED BY <2>1 DEF Afterwards, CheckInv, Building, Built, Reaching, SafeMeansDisjoint
<1> QED BY <1>1, <1>2, <1>3, <1>4, <1>5, <1>6 DEF CheckerNext

\* The verdict "safe" is sound for any two automata: no word is accepted by
\* both of them, since the pairs that words lead to are among those reached.
THEOREM SafeIsSound == CheckerSpec => []SafeMeansDisjoint
<1>1. CheckInv => SafeMeansDisjoint
  BY DEF CheckInv
<1> QED BY <1>1, CheckerInitInv, CheckerNextInv, PTL DEF CheckerSpec

-----------------------------------------------------------------------------
\* A check is a run of the repair search that is idle until it is called.
THEOREM CheckerImplementsSearch == CheckerSpec => Spec
<1>1. CheckerInit => Init
  BY CheckerAssumption DEF CheckerInit, Init
<1>2. [CheckerNext]_checkerVars => [Next]_vars
  <2> SUFFICES ASSUME [CheckerNext]_checkerVars PROVE [Next]_vars
    OBVIOUS
  <2>1. CASE BeginRepair
    BY <2>1 DEF BeginRepair, Begin, Next
  <2>2. CASE RepairStep
    BY <2>2 DEF RepairStep, Next
  <2>3. CASE UNCHANGED vars
    BY <2>3
  <2>4. CASE ~BeginRepair /\ ~RepairStep
    <3>1. UNCHANGED vars
      BY <2>4 DEF CheckerNext, checkerVars, Expand, ProductBuilt, Reach, Decide, PopPair, SkipPair,
             RecordPair, NextPair, Trace, Traced, Replay
    <3> QED BY <3>1
  <2> QED BY <2>1, <2>2, <2>4
<1> QED BY <1>1, <1>2, PTL DEF CheckerSpec, Spec

\* In a check as well as at runtime, None for a repair means that no accepting
\* state can be reached.
THEOREM RepairNoneMeansTrapped == CheckerSpec => []NoneMeansTrapped
BY CheckerImplementsSearch, SearchNoneMeansTrapped, PTL

\* And a repair that an explanation or a rejected event is given is a shortest
\* word from the state to a safe final one.
THEOREM RepairWordIsShortest == CheckerSpec => []RepairIsShortest
BY CheckerImplementsSearch, SearchRepairIsShortest, PTL

-----------------------------------------------------------------------------
\* The product.

\* What a pair may be once both automata are completed.
Anywhere == (Nodes \cup {Void}) \X (Nodes \cup {Void})

\* One symbol more, from a set of pairs.
Wider(S) == S \cup {Completed(p, a) : p \in S, a \in Letters}

LEMMA CompletedTypes ==
  ASSUME IsAutomaton(dfa), IsAutomaton(property)
  PROVE  /\ StartPair \in Anywhere
         /\ \A S \in SUBSET Anywhere : Wider(S) \in SUBSET Anywhere
<1>1. StartPair \in Anywhere
  BY DEF StartPair, IsAutomaton, Anywhere
<1>2. \A p, a : Completed(p, a) \in Anywhere
  BY StepTypes DEF Completed, Anywhere
<1> QED
  BY <1>1, <1>2 DEF Wider

\* The reference is well defined.
LEMMA TogetherWidens ==
  ASSUME IsAutomaton(dfa), IsAutomaton(property)
  PROVE  /\ Together \in [Nat -> SUBSET Anywhere]
         /\ Together[0] = {StartPair}
         /\ \A n \in Nat : Together[n + 1] = Wider(Together[n])
<1> DEFINE Solves(e) == e = [n \in Nat |->
             IF n = 0 THEN {StartPair}
             ELSE UNION {S \cup {Completed(p, a) : p \in S, a \in Letters} : S \in {e[n - 1]}}]
           D == SUBSET Anywhere
           step == [p \in D \X Nat |-> Wider(p[1])]
           chosen == CHOOSE e : Solves(e)
           base == {StartPair}
<1>1. base \in D /\ step \in [D \X Nat -> D] /\ \A S \in D, n \in Nat : step[<<S, n>>] = Wider(S)
  BY CompletedTypes
<1>2. \A S : UNION {T \cup {Completed(p, a) : p \in T, a \in Letters} : T \in {S}} = Wider(S)
  BY DEF Wider
<1>3. ASSUME NEW e PROVE Solves(e) <=> e = [n \in Nat |-> IF n = 0 THEN base ELSE Wider(e[n - 1])]
  <2> DEFINE left(n) == IF n = 0 THEN {StartPair}
               ELSE UNION {S \cup {Completed(p, a) : p \in S, a \in Letters} : S \in {e[n - 1]}}
             right(n) == IF n = 0 THEN base ELSE Wider(e[n - 1])
  <2>1. \A n : left(n) = right(n)
    BY <1>2
  <2>2. Solves(e) <=> e = [n \in Nat |-> left(n)]
    OBVIOUS
  <2> HIDE DEF left, right, Solves
  <2>3. [n \in Nat |-> left(n)] = [n \in Nat |-> right(n)]
    BY <2>1
  <2>4. Solves(e) <=> e = [n \in Nat |-> right(n)]
    BY <2>2, <2>3
  <2> QED
    BY <2>4 DEF right
<1>4. Together = chosen
  BY DEF Together
<1> HIDE DEF Solves, D, step, base, chosen
<1>5. \E e : Solves(e)
  <2>1. PICK f : Recurs(f, D, base, step)
    BY <1>1, RecursionExists
  <2>2. \A n \in Nat : n # 0 => f[n] = Wider(f[n - 1])
    <3> SUFFICES ASSUME NEW n \in Nat, n # 0 PROVE f[n] = Wider(f[n - 1])
      OBVIOUS
    <3>1. n - 1 \in Nat
      OBVIOUS
    <3> QED
      BY <1>1, <2>1, <3>1 DEF Recurs
  <2>3. f = [n \in Nat |-> IF n = 0 THEN base ELSE Wider(f[n - 1])]
    BY <2>1, <2>2 DEF Recurs
  <2> QED
    BY <1>3, <2>3
<1>6. chosen = [n \in Nat |-> IF n = 0 THEN base ELSE Wider(chosen[n - 1])]
  BY <1>3, <1>5 DEF chosen
<1>7. Recurs(chosen, D, base, step)
  <2>1. IsFcnOn(chosen, Nat) /\ chosen[0] = base
    BY <1>6 DEF IsFcnOn
  <2>2. \A i \in Nat \ {0} : chosen[i - 1] \in D => chosen[i] = step[<<chosen[i - 1], i>>]
    BY <1>1, <1>6
  <2> QED
    BY <1>1, <2>1, <2>2, RecursIntro
<1>8. ASSUME NEW n \in Nat PROVE chosen[n + 1] = Wider(chosen[n])
  <2>1. n + 1 \in Nat /\ n + 1 # 0 /\ (n + 1) - 1 = n
    OBVIOUS
  <2> QED
    BY <1>6, <2>1
<1> QED
  BY <1>4, <1>7, <1>8 DEF Recurs, D, base

\* From where a symbol adds nothing, none does.
LEMMA TogetherStable ==
  ASSUME IsAutomaton(dfa), IsAutomaton(property), NEW n \in Nat, Together[n] = Together[n + 1]
  PROVE  \A m \in Nat : Together[n + m] = Together[n]
<1> DEFINE S == {m \in Nat : Together[n + m] = Together[n]}
<1>1. \A k \in Nat : Together[k + 1] = Wider(Together[k])
  BY TogetherWidens
<1>2. 0 \in S
  OBVIOUS
<1>3. ASSUME NEW m \in Nat, m \in S PROVE m + 1 \in S
  <2>1. n + m \in Nat /\ (n + m) + 1 = n + (m + 1) /\ m + 1 \in Nat
    OBVIOUS
  <2>2. Together[(n + m) + 1] = Wider(Together[n])
    BY <1>1, <1>3, <2>1
  <2> QED
    BY <1>1, <2>1, <2>2
<1>4. \A m \in Nat : m \in S
  <2> HIDE DEF S
  <2> QED
    BY <1>2, <1>3, Induction
<1> QED
  BY <1>4

\* The pairs are finitely many, so that some symbol adds nothing.
LEMMA TogetherSettles ==
  ASSUME IsAutomaton(dfa), IsAutomaton(property)
  PROVE  \E n \in Nat : Together[n] = Together[n + 1]
<1> SUFFICES ASSUME \A n \in Nat : Together[n] # Together[n + 1] PROVE FALSE
  OBVIOUS
<1> DEFINE U == Anywhere
           T(n) == Together[n]
           S == {n \in Nat : Cardinality(T(n)) >= n}
<1>1. IsFiniteSet(U)
  <2>1. IsFiniteSet(Nodes \cup {Void})
    BY CheckerAssumption, FS_AddElement
  <2> QED
    BY <2>1, FS_Product DEF Anywhere
<1>2. ASSUME NEW n \in Nat
      PROVE  IsFiniteSet(T(n)) /\ Cardinality(T(n)) \in Nat /\ Cardinality(T(n)) <= Cardinality(U)
  <2>1. T(n) \in SUBSET U
    BY TogetherWidens
  <2> HIDE DEF U, T
  <2> QED
    BY <1>1, <2>1, FS_Subset, FS_CardinalityType
<1>3. 0 \in S
  BY <1>2
<1>4. ASSUME NEW n \in Nat, n \in S PROVE n + 1 \in S
  <2>1. T(n) \subseteq T(n + 1) /\ T(n) # T(n + 1) /\ n + 1 \in Nat
    BY TogetherWidens DEF Wider
  <2>2. IsFiniteSet(T(n + 1)) /\ Cardinality(T(n + 1)) \in Nat /\ Cardinality(T(n)) \in Nat
    BY <1>2, <2>1
  <2>3. Cardinality(T(n)) < Cardinality(T(n + 1))
    <3> HIDE DEF T
    <3>1. Cardinality(T(n)) <= Cardinality(T(n + 1))
             /\ (Cardinality(T(n)) = Cardinality(T(n + 1)) => T(n) = T(n + 1))
      BY <2>1, <2>2, FS_Subset
    <3> QED
      BY <2>1, <2>2, <3>1
  <2> QED
    BY <1>4, <2>1, <2>2, <2>3
<1>5. \A n \in Nat : n \in S
  <2> HIDE DEF S
  <2> QED
    BY <1>3, <1>4, Induction
<1>6. Cardinality(U) \in Nat
  BY <1>1, FS_CardinalityType
<1> DEFINE c == Cardinality(U)
<1>7. c + 1 \in S /\ Cardinality(T(c + 1)) <= c /\ Cardinality(T(c + 1)) \in Nat
  BY <1>2, <1>5, <1>6
<1> QED
  BY <1>6, <1>7

\* The fixed point that the recursion over n finds is one of the sets.
LEMMA EverywhereIsTogether ==
  ASSUME IsAutomaton(dfa), IsAutomaton(property)
  PROVE  \E n \in Nat : Everywhere = Together[n] /\ Together[n] = Together[n + 1]
<1>1. PICK n \in Nat : Together[n] = Together[n + 1]
  BY TogetherSettles
<1> DEFINE T == Together
           W == T[n]
           Solves(g) == g = [k \in Nat |-> IF T[k] = T[k + 1] THEN T[k] ELSE g[k + 1]]
           chosen == CHOOSE g : Solves(g)
<1>2. Everywhere = chosen[0]
  BY DEF Everywhere
<1>3. ASSUME NEW k \in Nat, T[k] = T[k + 1] PROVE T[k] = W
  <2>1. T[n + k] = T[n]
    BY <1>1, TogetherStable
  <2>2. T[k + n] = T[k]
    BY <1>3, TogetherStable
  <2>3. n + k = k + n
    OBVIOUS
  <2> QED
    BY <2>1, <2>2, <2>3
<1> HIDE DEF T, W, chosen
<1>4. Solves([k \in Nat |-> W])
  BY <1>3
<1>5. Solves(chosen)
  BY <1>4 DEF chosen
<1> DEFINE S == {j \in Nat : j <= n => chosen[n - j] = W}
<1>6. 0 \in S
  BY <1>1, <1>5 DEF W, T
<1>7. ASSUME NEW j \in Nat, j \in S PROVE j + 1 \in S
  <2> SUFFICES ASSUME j + 1 <= n PROVE chosen[n - (j + 1)] = W
    OBVIOUS
  <2> DEFINE k == n - (j + 1)
  <2>1. k \in Nat /\ k + 1 = n - j /\ j <= n
    OBVIOUS
  <2>2. chosen[k + 1] = W
    BY <1>7, <2>1
  <2> HIDE DEF k
  <2>3. chosen[k] = W
    BY <1>3, <1>5, <2>1, <2>2
  <2> QED
    BY <2>3 DEF k
<1>8. \A j \in Nat : j \in S
  <2> HIDE DEF S
  <2> QED
    BY <1>6, <1>7, Induction
<1>9. chosen[0] = W
  BY <1>8
<1> QED
  BY <1>1, <1>2, <1>9 DEF W, T

\* What is built is closed, and what is marked is what the mode wants of it.
ProductInv ==
  /\ IsAutomaton(dfa) /\ IsAutomaton(property)
  /\ pairs \subseteq Nodes \X Nodes
  /\ marked \subseteq Marks(pairs)
  /\ phase = "product" => frontier \subseteq pairs
  /\ phase \in {"product", "built"} => reached = {}
  /\ phase \in {"reach", "explain", "trace", "safe"} => reached # {}
  /\ reached # {} => mode = "intersection"
  /\ phase = "built" \/ reached # {} =>
       StartPair \in pairs /\ Onward(pairs) \subseteq pairs /\ Marks(pairs) \subseteq marked

\* A joint transition, if there is one, leads to a pair of nodes.
LEMMA OnwardTypes ==
  ASSUME IsAutomaton(dfa), IsAutomaton(property), NEW P
  PROVE  Onward(P) \subseteq Nodes \X Nodes
<1>1. \A p, a : Joint(p, a) # NoPair => Joint(p, a) \in Nodes \X Nodes
  BY StepTypes DEF Joint
<1> QED
  BY <1>1 DEF Onward

LEMMA ProductInit == CheckerInit => ProductInv
<1> SUFFICES ASSUME CheckerInit PROVE ProductInv
  OBVIOUS
<1>1. IsAutomaton(dfa) /\ IsAutomaton(property) /\ phase \in {"product", "replay"}
  BY CheckerAssumption DEF CheckerInit
<1>2. pairs = {StartPair} /\ frontier = {StartPair} /\ marked = {} /\ reached = {}
  BY DEF CheckerInit
<1>3. StartPair \in Nodes \X Nodes
  BY <1>1 DEF StartPair, IsAutomaton
<1> QED
  BY <1>1, <1>2, <1>3 DEF ProductInv

LEMMA ProductNext == CheckInv /\ ProductInv /\ [CheckerNext]_checkerVars => ProductInv'
<1> SUFFICES ASSUME CheckInv, ProductInv, [CheckerNext]_checkerVars PROVE ProductInv'
  OBVIOUS
<1>0. dfa' = dfa /\ property' = property /\ mode' = mode /\ UNCHANGED productInput
  <2>1. dfa' = dfa
    BY DEF CheckerNext, Expand, ProductBuilt, Reach, Decide, PopPair, SkipPair, RecordPair,
           NextPair, Trace, Traced, Replay, BeginRepair, Begin, RepairStep, SearchStep, Pop,
           Skip, Found, Visit, NextTurn, Exhausted, checkerVars, vars
  <2>2. property' = property /\ mode' = mode
    BY DEF CheckerNext, Expand, ProductBuilt, Reach, Decide, PopPair, SkipPair, RecordPair,
           NextPair, Trace, Traced, Replay, BeginRepair, RepairStep, checkerVars
  <2> QED
    BY <2>1, <2>2 DEF productInput
<1>1. /\ StartPair' = StartPair
      /\ \A P : Onward(P)' = Onward(P)
      /\ \A P : Marks(P)' = Marks(P)
  BY <1>0, InputOnly
<1>2. CASE UNCHANGED productVars /\ ~(Expand \/ ProductBuilt)
  <2>1. pairs' = pairs /\ frontier' = frontier /\ marked' = marked /\ reached' = reached
    BY <1>2 DEF productVars
  <2>2. Onward(pairs)' = Onward(pairs) /\ Marks(pairs)' = Marks(pairs)
    BY <1>1, <2>1, <1>0 DEF Onward, Joint, Letters, DFAStep, Marks, Accepts, Wanted
  <2>3. \/ phase' = phase
        \/ phase = "reach" /\ phase' \in {"safe", "replay", "explain"}
        \/ phase = "explain" /\ phase' = "trace"
        \/ phase = "trace" /\ phase' = "replay"
        \/ phase = "replay" /\ phase' = "repair"
        \/ phase = "product" /\ (Expand \/ ProductBuilt)
    BY DEF CheckerNext, Expand, ProductBuilt, Reach, Decide, PopPair, SkipPair, RecordPair,
           NextPair, Trace, Traced, Replay, BeginRepair, RepairStep, checkerVars, ScanningPair
  <2> QED
    BY <1>0, <1>1, <1>2, <2>1, <2>2, <2>3 DEF ProductInv
<1>3. CASE Expand
  <2>1. /\ phase = "product" /\ phase' = "product" /\ reached' = reached
        /\ frontier' = Onward(frontier) \ pairs
        /\ pairs' = pairs \cup frontier'
        /\ marked' = marked \cup Marks(frontier)
    BY <1>3 DEF Expand, New
  <2>2. pairs' \subseteq Nodes \X Nodes
    BY <2>1, OnwardTypes DEF ProductInv
  <2>3. Marks(frontier) \subseteq Marks(pairs') /\ Marks(pairs) \subseteq Marks(pairs')
    BY <2>1 DEF ProductInv, Marks
  <2>4. Marks(pairs)' = Marks(pairs')
    BY <1>0 DEF Marks, Accepts, Wanted
  <2> QED
    BY <1>0, <2>1, <2>2, <2>3, <2>4 DEF ProductInv
<1>4. CASE ProductBuilt
  <2>1. phase = "product" /\ frontier = {} /\ pairs' = pairs /\ marked' = marked
    BY <1>4 DEF ProductBuilt
  <2>2. StartPair \in pairs /\ Onward(pairs) \subseteq pairs /\ Marks(pairs) \subseteq marked
    <3>1. pairs \ frontier = pairs
      BY <2>1
    <3> QED BY <2>1, <3>1 DEF CheckInv, Building
  <2>3. Onward(pairs)' = Onward(pairs) /\ Marks(pairs)' = Marks(pairs)
    BY <1>0, <2>1 DEF Onward, Joint, Letters, DFAStep, Marks, Accepts, Wanted
  <2>4. \/ mode = "intersection" /\ phase' = "reach" /\ reached' = {StartPair}
        \/ phase' = "built" /\ reached' = reached
    BY <1>4 DEF ProductBuilt
  <2> QED
    BY <1>0, <1>1, <2>1, <2>2, <2>3, <2>4 DEF ProductInv
<1>5. CASE Reach
  <2>1. phase = "reach" /\ phase' = "reach" /\ pairs' = pairs /\ marked' = marked
        /\ reached \subseteq reached'
    BY <1>5 DEF Reach
  <2>2. Onward(pairs)' = Onward(pairs) /\ Marks(pairs)' = Marks(pairs)
    BY <1>0, <2>1 DEF Onward, Joint, Letters, DFAStep, Marks, Accepts, Wanted
  <2> QED
    BY <1>0, <1>1, <2>1, <2>2 DEF ProductInv
<1>6. UNCHANGED productVars \/ Expand \/ ProductBuilt \/ Reach
  BY DEF CheckerNext, Decide, PopPair, SkipPair, RecordPair, NextPair, Trace, Traced, Replay,
         BeginRepair, RepairStep, explainVars, checkerVars
<1> QED
  BY <1>2, <1>3, <1>4, <1>5, <1>6

LEMMA AcceptsBoth ==
  ASSUME mode = "intersection", NEW p
  PROVE  Accepts(p) <=> p[1] \in dfa.accepting /\ p[2] \in property.accepting
<1>1. \A x, y \in BOOLEAN : Wanted(x, y) = (x /\ y)
  BY DEF Wanted
<1>2. (p[1] \in dfa.accepting) \in BOOLEAN /\ (p[2] \in property.accepting) \in BOOLEAN
  OBVIOUS
<1>3. Accepts(p) = (p[1] \in dfa.accepting /\ p[2] \in property.accepting)
  BY <1>1, <1>2 DEF Accepts
<1> QED
  BY <1>3

\* A word leads to a pair of the product, or one of the automata has lost it.
LEMMA TogetherInProduct ==
  ASSUME IsAutomaton(dfa), IsAutomaton(property), NEW P,
         StartPair \in P, Onward(P) \subseteq P
  PROVE  \A n \in Nat : \A p \in Together[n] : p \in P \/ Void \in {p[1], p[2]}
<1> DEFINE Lost(p) == Void \in {p[1], p[2]}
           S == {n \in Nat : \A p \in Together[n] : p \in P \/ Lost(p)}
<1>1. Together[0] = {StartPair} /\ \A n \in Nat : Together[n + 1] = Wider(Together[n])
  BY TogetherWidens
<1>2. ASSUME NEW p, NEW a \in Letters, p \in P \/ Lost(p)
      PROVE  Completed(p, a) \in P \/ Lost(Completed(p, a))
  <2>1. \A d, b : IsAutomaton(d) => DFAStep(d, Void, b) = Void
    BY SearchAssumption DEF DFAStep, IsAutomaton
  <2>2. CASE Lost(p)
    BY <2>1, <2>2 DEF Completed
  <2>3. CASE p \in P /\ ~Lost(Completed(p, a))
    <3>1. Joint(p, a) = Completed(p, a) /\ Joint(p, a) # NoPair
      BY <2>3 DEF Joint, Completed, NoPair
    <3> QED
      BY <2>3, <3>1 DEF Onward
  <2> QED
    BY <1>2, <2>2, <2>3
<1>3. 0 \in S
  BY <1>1
<1>4. ASSUME NEW n \in Nat, n \in S PROVE n + 1 \in S
  <2>1. Together[n + 1] = Wider(Together[n]) /\ n + 1 \in Nat
    BY <1>1
  <2> HIDE DEF Lost
  <2> QED
    BY <1>2, <1>4, <2>1 DEF Wider
<1>5. \A n \in Nat : n \in S
  <2> HIDE DEF S
  <2> QED
    BY <1>3, <1>4, Induction
<1> QED
  BY <1>5

\* product_dfa recognises what its mode says of any two automata: every pair
\* that words lead to is marked if and only if the mode wants it, for the
\* union and the difference as far as neither automaton loses a word.
THEOREM ProductRecognises == CheckerSpec => []ProductIsExact
<1>1. ProductInv => ProductIsExact
  <2> SUFFICES ASSUME ProductInv,
                      phase = "built" \/ (phase \in {"safe", "replay"} /\ reached # {}),
                      mode = "intersection" \/ (\A p \in Everywhere : Void \notin {p[1], p[2]}),
                      NEW p \in Everywhere
               PROVE  (p \in marked) <=> Accepts(p)
    BY DEF ProductIsExact
  <2>1. /\ IsAutomaton(dfa) /\ IsAutomaton(property)
        /\ marked = {q \in pairs : Accepts(q)}
        /\ StartPair \in pairs /\ Onward(pairs) \subseteq pairs
    BY DEF ProductInv, Marks
  <2>2. PICK n \in Nat : p \in Together[n]
    BY <2>1, EverywhereIsTogether
  <2>3. p \in pairs \/ Void \in {p[1], p[2]}
    BY <2>1, <2>2, TogetherInProduct
  <2>4. Accepts(p) /\ mode = "intersection" => Void \notin {p[1], p[2]}
    <3>1. Accepts(p) /\ mode = "intersection" => p[1] \in dfa.accepting /\ p[2] \in property.accepting
      BY AcceptsBoth
    <3> QED
      BY <2>1, <3>1, SearchAssumption DEF IsAutomaton
  <2> QED
    BY <2>1, <2>3, <2>4
<1> QED
  BY <1>1, CheckerInitInv, CheckerNextInv, ProductInit, ProductNext, PTL DEF CheckerSpec

-----------------------------------------------------------------------------
\* The counterexample: a breadth-first search over pairs, with pointers to
\* where each pair was found from instead of the paths.

\* The word w leads both automata to the pair p.
LeadsTo(d, e, w, p) == Ends(d, d.start, w) = {p[1]} /\ Ends(e, e.start, w) = {p[2]}

\* f spells, for every pair found, the word that its pointers stand for.
Spells(d, e, found, f) ==
  /\ f \in [DOMAIN found -> Seq(Nat)]
  /\ \A p \in DOMAIN found :
       /\ LeadsTo(d, e, f[p], p)
       /\ \/ found[p] = <<>> /\ f[p] = <<>>
          \/ \E q \in DOMAIN found, a \in Nat : found[p] = <<q, a>> /\ f[p] = Append(f[q], a)

\* The pairs waiting are in the order of their words.
InOrder(q, f) == \A i, j \in 1..Len(q) : i < j => Len(f[q[i]]) <= Len(f[q[j]])

\* While the words of length k are looked at: every pair that a word of length
\* k leads to has been found, and what waits is of that length, or longer by
\* one and then off those pairs.
Near(T, P, q, f, k) ==
  /\ \A p \in T[k] : p \in P \/ Void \in {p[1], p[2]}
  /\ \A i \in 1..Len(q) :
       \/ Len(f[q[i]]) = k
       \/ Len(f[q[i]]) = k + 1 /\ q[i] \notin T[k]

\* The pairs that p leads to have been found.
PairClosed(p) == \A a \in Letters : Joint(p, a) \in DOMAIN parent \cup {NoPair}

InFifo(p) == \E i \in 1..Len(fifo) : fifo[i] = p

ByLength ==
  \E f : /\ Spells(dfa, property, parent, f)
         /\ InOrder(fifo, f)
         /\ pair # NoPair => Near(Together, DOMAIN parent, fifo, f, Len(f[pair]))
         /\ pair = NoPair /\ fifo # <<>> =>
              Near(Together, DOMAIN parent, fifo, f, Len(f[fifo[1]]))

\* A word that both automata accept, and than which none is shorter.
Answers(d, e, T, w) ==
  /\ w \in Seq(Nat)
  /\ \E p \in d.accepting \X e.accepting : LeadsTo(d, e, w, p)
  /\ Len(w) > 0 => \A p \in T[Len(w) - 1] : ~(p[1] \in d.accepting /\ p[2] \in e.accepting)

Preparing ==
  phase \in {"product", "reach"} => letter = 1 /\ pair = NoPair /\ here = dfa.start /\ word = <<>>

Explaining ==
  phase = "explain" =>
    /\ here = dfa.start /\ word = <<>>
    /\ DOMAIN parent \subseteq pairs \ marked
    /\ fifo \in Seq(DOMAIN parent)
    /\ pair \in DOMAIN parent \cup {NoPair}
    /\ letter \in Nat \ {0}
    /\ \A p \in DOMAIN parent : p = pair \/ InFifo(p) \/ PairClosed(p)
    /\ pair # NoPair =>
         \A a \in Letters : a < letter => Joint(pair, a) \in DOMAIN parent \cup {NoPair}
    /\ ByLength

Tracing ==
  phase = "trace" =>
    /\ here = dfa.start
    /\ word \in Seq(Nat)
    /\ pair \in DOMAIN parent
    /\ \E f : /\ Spells(dfa, property, parent, f)
              /\ Answers(dfa, property, Together, f[pair] \o word)

\* h are the session states along the word, of which here is the present one.
Stations(d, w, h) ==
  /\ Along(h, SUBSET Nodes, {d.start}, Advance(d), w)
  /\ Ends(d, d.start, w) = h[Len(w)]

Replaying ==
  phase = "replay" /\ reached # {} =>
    /\ Answers(dfa, property, Together, word)
    /\ letter \in 1..(Len(word) + 1)
    /\ here \in Nodes
    /\ \E h : Stations(dfa, word, h) /\ h[letter - 1] = {here}

Answered ==
  phase = "repair" /\ reached # {} =>
    /\ Answers(dfa, property, Together, word)
    /\ Ends(dfa, dfa.start, word) = {here}

ExplainInv == Preparing /\ Explaining /\ Tracing /\ Replaying /\ Answered

-----------------------------------------------------------------------------
LEMMA ExplainInit == CheckerInit => ExplainInv
<1> SUFFICES ASSUME CheckerInit PROVE ExplainInv
  OBVIOUS
<1>1. reached = {} /\ phase \in {"product", "replay"}
  BY DEF CheckerInit
<1>2. Preparing
  BY DEF CheckerInit, Preparing
<1> QED
  BY <1>1, <1>2 DEF ExplainInv, Explaining, Tracing, Replaying, Answered

\* The check goes on with the automata it was given.
LEMMA SameCheck ==
  ASSUME [CheckerNext]_checkerVars
  PROVE  dfa' = dfa /\ property' = property /\ mode' = mode
<1>1. dfa' = dfa
  BY DEF CheckerNext, Expand, ProductBuilt, Reach, Decide, PopPair, SkipPair, RecordPair,
         NextPair, Trace, Traced, Replay, BeginRepair, Begin, RepairStep, SearchStep, Pop,
         Skip, Found, Visit, NextTurn, Exhausted, checkerVars, vars
<1>2. property' = property /\ mode' = mode
  BY DEF CheckerNext, Expand, ProductBuilt, Reach, Decide, PopPair, SkipPair, RecordPair,
         NextPair, Trace, Traced, Replay, BeginRepair, RepairStep, checkerVars
<1> QED
  BY <1>1, <1>2

LEMMA SameReference ==
  ASSUME dfa' = dfa, property' = property
  PROVE  /\ Together' = Together /\ StartPair' = StartPair /\ Letters' = Letters
         /\ \A p, a : Joint(p, a)' = Joint(p, a)
BY DEF Together, Completed, StartPair, Letters, DFAStep, Joint

\* The empty word leads to the start pair.
LEMMA StartSpells ==
  ASSUME IsAutomaton(dfa), IsAutomaton(property)
  PROVE  LeadsTo(dfa, property, <<>>, StartPair)
<1>1. dfa.start \in Nodes /\ property.start \in Nodes
  BY DEF IsAutomaton
<1>2. Ends(dfa, dfa.start, <<>>) = {dfa.start}
  BY <1>1, EndsEmpty
<1>3. Ends(property, property.start, <<>>) = {property.start}
  BY <1>1, EndsEmpty
<1> QED
  BY <1>2, <1>3 DEF LeadsTo, StartPair

\* A symbol more leads to the joint transition's pair.
LEMMA JointSpells ==
  ASSUME IsAutomaton(dfa), IsAutomaton(property), NEW w \in Seq(Nat), NEW p, NEW a \in Nat,
         LeadsTo(dfa, property, w, p), Joint(p, a) # NoPair
  PROVE  LeadsTo(dfa, property, Append(w, a), Joint(p, a))
<1>1. dfa.start \in Nodes /\ property.start \in Nodes
  BY DEF IsAutomaton
<1>2. Ends(dfa, dfa.start, Append(w, a)) = {DFAStep(dfa, q, a) : q \in {p[1]}} \ {Void}
  <2>1. Ends(dfa, dfa.start, Append(w, a)) =
          {DFAStep(dfa, q, a) : q \in Ends(dfa, dfa.start, w)} \ {Void}
    BY <1>1, EndsAppend
  <2> QED
    BY <2>1 DEF LeadsTo
<1>3. Ends(property, property.start, Append(w, a)) =
        {DFAStep(property, q, a) : q \in {p[2]}} \ {Void}
  <2>1. Ends(property, property.start, Append(w, a)) =
          {DFAStep(property, q, a) : q \in Ends(property, property.start, w)} \ {Void}
    BY <1>1, EndsAppend
  <2> QED
    BY <2>1 DEF LeadsTo
<1>4. /\ DFAStep(dfa, p[1], a) # Void /\ DFAStep(property, p[2], a) # Void
      /\ Joint(p, a) = <<DFAStep(dfa, p[1], a), DFAStep(property, p[2], a)>>
  BY DEF Joint
<1> HIDE DEF DFAStep, Joint, Ends
<1> QED
  BY <1>2, <1>3, <1>4 DEF LeadsTo

\* Letters are numbers, and every one below a letter is one.
LEMMA LettersRange ==
  ASSUME IsAutomaton(dfa), IsAutomaton(property)
  PROVE  /\ Letters \subseteq Nat
         /\ \A n \in Nat \ {0} : n \notin Letters => \A a \in Letters : a < n
BY DEF IsAutomaton, Letters

\* The states along a word: there are some, and none is followed by none.
LEMMA StationsExist ==
  ASSUME NEW d, IsAutomaton(d), NEW w \in Seq(Nat)
  PROVE  \E h : Stations(d, w, h) /\ h[0] = {d.start}
<1>1. d.start \in Nodes
  BY DEF IsAutomaton
<1>2. PICK h : /\ Along(h, SUBSET Nodes, {d.start}, Advance(d), w)
               /\ Ends(d, d.start, w) = h[Len(w)]
  BY <1>1, EndsAlong
<1> QED
  BY <1>2 DEF Stations, Along

StationAt(d, w, h, i) == h[i] = {DFAStep(d, q, w[i]) : q \in h[i - 1]} \ {Void}

LEMMA StationsStep ==
  ASSUME NEW d, NEW w \in Seq(Nat), NEW h, Stations(d, w, h), NEW i \in 1..Len(w)
  PROVE  StationAt(d, w, h, i)
<1>1. i - 1 \in 0..Len(w) /\ w[i] \in Nat
  OBVIOUS
<1>2. h[i - 1] \in SUBSET Nodes /\ h[i] = Advance(d)[<<h[i - 1], w[i]>>]
  BY <1>1 DEF Stations, Along
<1> QED
  BY <1>1, <1>2 DEF Advance, StationAt

LEMMA StationsEnd ==
  ASSUME NEW d, NEW w \in Seq(Nat), NEW h, Stations(d, w, h), NEW i \in 0..Len(w), h[i] = {}
  PROVE  h[Len(w)] = {}
<1> DEFINE S == {n \in Nat : i + n <= Len(w) => h[i + n] = {}}
<1>1. 0 \in S
  OBVIOUS
<1>2. ASSUME NEW n \in Nat, n \in S PROVE n + 1 \in S
  <2> SUFFICES ASSUME i + (n + 1) <= Len(w) PROVE h[i + (n + 1)] = {}
    OBVIOUS
  <2> DEFINE j == i + (n + 1)
  <2>1. j \in 1..Len(w) /\ j - 1 = i + n /\ i + n <= Len(w)
    OBVIOUS
  <2>2. h[j - 1] = {}
    BY <1>2, <2>1
  <2> HIDE DEF j
  <2>3. StationAt(d, w, h, j)
    BY <2>1, StationsStep
  <2>4. h[j] = {}
    BY <2>2, <2>3 DEF StationAt
  <2> QED
    BY <2>4 DEF j
<1>3. \A n \in Nat : n \in S
  <2> HIDE DEF S
  <2> QED
    BY <1>1, <1>2, Induction
<1>4. Len(w) - i \in Nat /\ i + (Len(w) - i) = Len(w)
  OBVIOUS
<1> QED
  BY <1>3, <1>4

\* A jointly accepting pair that a word leads to has been marked, if found.
LEMMA UnmarkedRejects ==
  ASSUME ProductInv, reached # {}, NEW P, P \subseteq pairs \ marked,
         NEW p, p \in P \/ Void \in {p[1], p[2]}
  PROVE  ~(p[1] \in dfa.accepting /\ p[2] \in property.accepting)
<1>1. mode = "intersection" /\ Marks(pairs) \subseteq marked
  BY DEF ProductInv
<1>2. CASE p \in P
  <2>1. p \in pairs /\ p \notin Marks(pairs)
    BY <1>1, <1>2
  <2> QED
    BY <1>1, <2>1, AcceptsBoth DEF Marks
<1>3. CASE Void \in {p[1], p[2]}
  BY <1>3, SearchAssumption DEF ProductInv, IsAutomaton
<1> QED
  BY <1>2, <1>3

\* The search for the counterexample starts with the start pair.
LEMMA DecideKeeps ==
  ASSUME ProductInv, ExplainInv, Decide
  PROVE  ExplainInv'
<1>0. /\ dfa' = dfa /\ property' = property /\ reached' = reached
      /\ pairs' = pairs /\ marked' = marked /\ phase = "reach" /\ mode = "intersection"
      /\ word' = word /\ pair' = pair /\ letter' = letter /\ here' = here
      /\ reached # {}
  BY DEF Decide, vars, productVars, ProductInv
<1>1. /\ IsAutomaton(dfa) /\ IsAutomaton(property) /\ StartPair \in pairs
      /\ pairs \subseteq Nodes \X Nodes
  BY <1>0 DEF ProductInv
<1>2. word = <<>> /\ letter = 1 /\ pair = NoPair /\ here = dfa.start
  BY <1>0 DEF ExplainInv, Preparing
<1>3. Together' = Together /\ StartPair' = StartPair /\ Together[0] = {StartPair}
  BY <1>0, <1>1, SameReference, TogetherWidens
<1>4. LeadsTo(dfa, property, <<>>, StartPair)
  BY <1>1, StartSpells
<1>5. CASE phase' = "safe"
  BY <1>5 DEF ExplainInv, Preparing, Explaining, Tracing, Replaying, Answered
<1>6. CASE phase' = "replay"
  <2>1. StartPair \in marked
    BY <1>0, <1>6 DEF Decide
  <2>2. StartPair \in dfa.accepting \X property.accepting
    <3>1. Accepts(StartPair)
      BY <2>1 DEF ProductInv, Marks
    <3> QED
      BY <1>0, <3>1, AcceptsBoth DEF StartPair
  <2>3. Answers(dfa, property, Together, <<>>)
    BY <1>4, <2>2 DEF Answers
  <2>4. PICK h : Stations(dfa, <<>>, h) /\ h[0] = {dfa.start}
    <3>1. <<>> \in Seq(Nat)
      OBVIOUS
    <3> QED
      BY <1>1, <3>1, StationsExist
  <2>5. Replaying'
    <3>1. word' = <<>> /\ letter' = 1 /\ here' = dfa.start /\ here' \in Nodes
      BY <1>0, <1>1, <1>2 DEF IsAutomaton
    <3>2. Stations(dfa', word', h) /\ h[letter' - 1] = {here'}
      BY <1>0, <2>4, <3>1
    <3>3. Answers(dfa', property', Together', word')
      BY <1>0, <1>3, <2>3, <3>1
    <3>4. letter' \in 1..(Len(word') + 1)
      BY <3>1
    <3> QED
      BY <3>1, <3>2, <3>3, <3>4 DEF Replaying
  <2> QED
    BY <1>6, <2>5 DEF ExplainInv, Preparing, Explaining, Tracing, Answered
<1>7. CASE phase' = "explain"
  <2> DEFINE f == [p \in {StartPair} |-> <<>>]
             P == {StartPair}
  <2>1. parent' = f /\ fifo' = <<StartPair>> /\ StartPair \notin marked
    BY <1>0, <1>7 DEF Decide
  <2>2. DOMAIN parent' = P /\ f[StartPair] = <<>> /\ DOMAIN f = P
        /\ Len(fifo') = 1 /\ fifo'[1] = StartPair /\ fifo' \in Seq(P)
    BY <2>1
  <2>3. f \in [P -> Seq(Nat)]
    OBVIOUS
  <2> HIDE DEF f
  <2>4. Spells(dfa, property, f, f)
    BY <1>4, <2>2, <2>3 DEF Spells
  <2>5. InOrder(fifo', f)
    BY <2>2 DEF InOrder
  <2>6. Near(Together, P, fifo', f, 0)
    BY <1>3, <2>2 DEF Near
  <2>7. ByLength'
    <3>1. Len(f[fifo'[1]]) = 0
      BY <2>2
    <3>2. Spells(dfa', property', parent', f)
      BY <1>0, <2>1, <2>4
    <3>3. Near(Together', DOMAIN parent', fifo', f, Len(f[fifo'[1]]))
      BY <1>3, <2>2, <2>6, <3>1
    <3> QED
      BY <1>0, <1>2, <2>5, <3>2, <3>3 DEF ByLength
  <2>8. \A p \in P : \E i \in 1..Len(fifo') : fifo'[i] = p
    BY <2>2
  <2>9. Explaining'
    <3>1. \A p \in DOMAIN parent' : InFifo(p)'
      BY <2>2, <2>8 DEF InFifo
    <3> QED
      BY <1>0, <1>1, <1>2, <2>1, <2>2, <2>7, <3>1 DEF Explaining
  <2> QED
    BY <1>7, <2>9 DEF ExplainInv, Preparing, Tracing, Replaying, Answered
<1> QED
  BY <1>5, <1>6, <1>7 DEF Decide

\* What the search for the counterexample knows of a check that it explains.
LEMMA ExplainFacts ==
  ASSUME ProductInv, ExplainInv, phase = "explain"
  PROVE  /\ IsAutomaton(dfa) /\ IsAutomaton(property) /\ reached # {}
         /\ DOMAIN parent \subseteq pairs \ marked /\ DOMAIN parent \subseteq Nodes \X Nodes
         /\ NoPair \notin DOMAIN parent
         /\ here = dfa.start /\ word = <<>>
         /\ fifo \in Seq(DOMAIN parent) /\ pair \in DOMAIN parent \cup {NoPair}
         /\ letter \in Nat \ {0}
         /\ \A p \in DOMAIN parent : p = pair \/ InFifo(p) \/ PairClosed(p)
         /\ pair # NoPair =>
              \A a \in Letters : a < letter => Joint(pair, a) \in DOMAIN parent \cup {NoPair}
         /\ ByLength
<1>1. DOMAIN parent \subseteq Nodes \X Nodes
  BY DEF ProductInv, ExplainInv, Explaining
<1>2. NoPair \notin Nodes \X Nodes
  BY DEF NoPair
<1> QED
  BY <1>1, <1>2 DEF ProductInv, ExplainInv, Explaining

\* The pair that is taken from the queue has been waiting the longest.
LEMMA PopPairKeeps ==
  ASSUME ProductInv, ExplainInv, PopPair,
         dfa' = dfa, property' = property
  PROVE  ExplainInv'
<1>0. /\ phase = "explain" /\ phase' = "explain" /\ pair = NoPair /\ fifo # <<>>
      /\ pair' = Head(fifo) /\ fifo' = Tail(fifo) /\ letter' = 1
      /\ parent' = parent /\ word' = word /\ here' = here /\ pairs' = pairs /\ marked' = marked
  BY DEF PopPair, productVars
<1> DEFINE P == DOMAIN parent
<1>1. /\ fifo \in Seq(P) /\ NoPair \notin P
      /\ \A p \in P : p = pair \/ InFifo(p) \/ PairClosed(p)
      /\ ByLength /\ IsAutomaton(dfa) /\ IsAutomaton(property)
  BY <1>0, ExplainFacts
<1>2. /\ pair' = fifo[1] /\ fifo[1] \in P /\ fifo' \in Seq(P) /\ Len(fifo) \in Nat
      /\ \A i \in 1..Len(fifo') : i + 1 \in 1..Len(fifo) /\ fifo'[i] = fifo[i + 1] /\ i \in Nat
      /\ \A i \in 1..Len(fifo) : i = 1 \/ (i - 1 \in 1..Len(fifo') /\ fifo'[i - 1] = fifo[i])
  BY <1>0, <1>1
<1>3. /\ Together' = Together /\ Letters' = Letters
      /\ \A p, a : Joint(p, a)' = Joint(p, a)
  BY SameReference
<1>4. \A p \in P : p = pair' \/ InFifo(p)' \/ PairClosed(p)'
  <2> SUFFICES ASSUME NEW p \in P, p # pair', ~PairClosed(p) PROVE InFifo(p)'
    BY <1>0, <1>3 DEF PairClosed
  <2>1. p # pair
    BY <1>0, <1>1
  <2>2. PICK i \in 1..Len(fifo) : fifo[i] = p
    BY <1>1, <2>1 DEF InFifo
  <2>3. i - 1 \in 1..Len(fifo') /\ fifo'[i - 1] = p
    BY <1>2, <2>2
  <2> QED
    BY <2>3 DEF InFifo
<1>5. ByLength'
  <2>1. PICK f : /\ Spells(dfa, property, parent, f) /\ InOrder(fifo, f)
                 /\ Near(Together, P, fifo, f, Len(f[fifo[1]]))
    BY <1>0, <1>1 DEF ByLength
  <2>2. InOrder(fifo', f)
    <3> SUFFICES ASSUME NEW i \in 1..Len(fifo'), NEW j \in 1..Len(fifo'), i < j
                 PROVE  Len(f[fifo'[i]]) <= Len(f[fifo'[j]])
      BY DEF InOrder
    <3>1. i + 1 < j + 1
      BY <1>2
    <3> QED
      BY <1>2, <2>1, <3>1 DEF InOrder
  <2>3. Near(Together, P, fifo', f, Len(f[pair']))
    <3> DEFINE k == Len(f[fifo[1]])
    <3>1. \A p \in Together[k] : p \in P \/ Void \in {p[1], p[2]}
      BY <2>1 DEF Near
    <3>2. ASSUME NEW i \in 1..Len(fifo')
          PROVE  \/ Len(f[fifo'[i]]) = k
                 \/ Len(f[fifo'[i]]) = k + 1 /\ fifo'[i] \notin Together[k]
      <4>1. i + 1 \in 1..Len(fifo) /\ fifo'[i] = fifo[i + 1]
        BY <1>2
      <4> QED
        BY <2>1, <4>1 DEF Near
    <3> HIDE DEF k
    <3>3. Near(Together, P, fifo', f, k)
      BY <3>1, <3>2 DEF Near
    <3> QED
      BY <1>2, <3>3 DEF k
  <2>4. pair' # NoPair
    BY <1>1, <1>2
  <2> QED
    BY <1>0, <1>3, <2>1, <2>2, <2>3, <2>4 DEF ByLength
<1>6. \A a \in Letters : ~(a < 1)
  BY <1>1, LettersRange DEF Letters
<1>7. Explaining'
  BY <1>0, <1>1, <1>2, <1>3, <1>4, <1>5, <1>6, ExplainFacts DEF Explaining
<1> QED
  BY <1>0, <1>7 DEF ExplainInv, Preparing, Tracing, Replaying, Answered

\* A pair that has been found before, or none at all, is passed over.
LEMMA SkipPairKeeps ==
  ASSUME ProductInv, ExplainInv, SkipPair,
         dfa' = dfa, property' = property
  PROVE  ExplainInv'
<1>0. /\ phase = "explain" /\ phase' = "explain" /\ pair # NoPair
      /\ Joint(pair, letter) \in DOMAIN parent \cup {NoPair} /\ letter' = letter + 1
      /\ parent' = parent /\ word' = word /\ here' = here /\ pairs' = pairs /\ marked' = marked
      /\ pair' = pair /\ fifo' = fifo
  BY DEF SkipPair, ScanningPair, Recorded, productVars
<1> DEFINE P == DOMAIN parent
<1>1. /\ fifo \in Seq(P) /\ pair \in P /\ letter \in Nat \ {0}
      /\ \A p \in P : p = pair \/ InFifo(p) \/ PairClosed(p)
      /\ \A a \in Letters : a < letter => Joint(pair, a) \in P \cup {NoPair}
      /\ ByLength /\ Letters \subseteq Nat
  BY <1>0, ExplainFacts, LettersRange
<1>2. /\ Together' = Together /\ Letters' = Letters
      /\ \A p, a : Joint(p, a)' = Joint(p, a)
  BY SameReference
<1>3. \A a \in Letters : a < letter + 1 => Joint(pair, a) \in P \cup {NoPair}
  <2> SUFFICES ASSUME NEW a \in Letters, a < letter + 1, a # letter PROVE a < letter
    BY <1>0, <1>1
  <2>1. a \in Nat
    BY <1>1
  <2> QED
    BY <1>1, <2>1
<1>4. \A p \in P : p = pair' \/ InFifo(p)' \/ PairClosed(p)'
  BY <1>0, <1>1, <1>2 DEF InFifo, PairClosed
<1>5. ByLength'
  BY <1>0, <1>1, <1>2 DEF ByLength
<1>6. Explaining'
  BY <1>0, <1>1, <1>2, <1>3, <1>4, <1>5, ExplainFacts DEF Explaining
<1> QED
  BY <1>0, <1>6 DEF ExplainInv, Preparing, Tracing, Replaying, Answered

\* When a turn ends the words of the next length may be up: the pairs that a
\* word of this length leads to are closed then.
LEMMA PairTurnAdvances ==
  ASSUME ProductInv, ExplainInv, NextPair, fifo # <<>>, NEW f, InOrder(fifo, f),
         Spells(dfa, property, parent, f),
         Near(Together, DOMAIN parent, fifo, f, Len(f[pair]))
  PROVE  Near(Together, DOMAIN parent, fifo, f, Len(f[fifo[1]]))
<1>0. phase = "explain" /\ pair # NoPair /\ letter \notin Letters
  BY DEF NextPair
<1> DEFINE P == DOMAIN parent
           k == Len(f[pair])
           len(i) == Len(f[fifo[i]])
<1>1. /\ IsAutomaton(dfa) /\ IsAutomaton(property)
      /\ fifo \in Seq(P) /\ pair \in P /\ letter \in Nat \ {0}
      /\ \A p \in P : p = pair \/ InFifo(p) \/ PairClosed(p)
      /\ \A a \in Letters : a < letter => Joint(pair, a) \in P \cup {NoPair}
  BY <1>0, ExplainFacts
<1>2. k \in Nat /\ 1 \in 1..Len(fifo) /\ Len(fifo) \in Nat /\ \A i \in 1..Len(fifo) : len(i) \in Nat
  <2>1. f \in [P -> Seq(Nat)]
    BY DEF Spells
  <2>2. \A p \in P : Len(f[p]) \in Nat
    BY <2>1
  <2> QED
    BY <1>1, <2>2
<1>3. /\ \A p \in Together[k] : p \in P \/ Void \in {p[1], p[2]}
      /\ \A i \in 1..Len(fifo) : len(i) = k \/ (len(i) = k + 1 /\ fifo[i] \notin Together[k])
  BY DEF Near
<1>4. \A i, j \in 1..Len(fifo) : i < j => len(i) <= len(j)
  BY DEF InOrder
<1>5. CASE len(1) = k
  BY <1>5
<1>6. CASE len(1) # k
  <2> HIDE DEF k, len
  <2>1. len(1) = k + 1
    BY <1>2, <1>3, <1>6
  <2>2. ASSUME NEW i \in 1..Len(fifo) PROVE len(i) = k + 1 /\ fifo[i] \notin Together[k]
    <3>1. len(i) >= k + 1
      <4>1. CASE i = 1
        BY <1>2, <2>1, <4>1
      <4>2. CASE i # 1
        <5>1. 1 < i
          BY <1>2, <4>2
        <5> QED
          BY <1>2, <1>4, <2>1, <5>1
      <4> QED
        BY <4>1, <4>2
    <3> QED
      BY <1>2, <1>3, <3>1
  <2>3. ASSUME NEW p \in Together[k], p \in P, NEW a \in Letters
        PROVE  Joint(p, a) \in P \cup {NoPair}
    <3>1. ~InFifo(p)
      BY <2>2, <2>3 DEF InFifo
    <3>2. CASE p = pair
      BY <1>0, <1>1, <3>2, LettersRange
    <3>3. CASE PairClosed(p)
      BY <3>3 DEF PairClosed
    <3> QED
      BY <1>1, <2>3, <3>1, <3>2, <3>3
  <2>4. Together[k + 1] = Wider(Together[k])
    BY <1>1, <1>2, TogetherWidens
  <2>5. ASSUME NEW p \in Together[k], NEW a \in Letters
        PROVE  Completed(p, a) \in P \/ Void \in {Completed(p, a)[1], Completed(p, a)[2]}
    <3>1. CASE Void \in {p[1], p[2]}
      <4>1. \A d, b : IsAutomaton(d) => DFAStep(d, Void, b) = Void
        BY SearchAssumption DEF DFAStep, IsAutomaton
      <4> QED
        BY <1>1, <3>1, <4>1 DEF Completed
    <3>2. CASE p \in P /\ ~(Void \in {Completed(p, a)[1], Completed(p, a)[2]})
      <4>1. Joint(p, a) = Completed(p, a) /\ Joint(p, a) # NoPair
        BY <3>2 DEF Joint, Completed, NoPair
      <4> QED
        BY <2>3, <3>2, <4>1
    <3> QED
      BY <1>3, <3>1, <3>2
  <2>6. \A p \in Together[k + 1] : p \in P \/ Void \in {p[1], p[2]}
    BY <1>3, <2>4, <2>5 DEF Wider
  <2>7. Near(Together, P, fifo, f, k + 1)
    BY <2>2, <2>6 DEF Near, len
  <2> QED
    BY <2>1, <2>7 DEF len
<1> QED
  BY <1>5, <1>6

LEMMA NextPairKeeps ==
  ASSUME ProductInv, ExplainInv, NextPair,
         dfa' = dfa, property' = property
  PROVE  ExplainInv'
<1>0. /\ phase = "explain" /\ phase' = "explain" /\ pair # NoPair /\ letter \notin Letters
      /\ parent' = parent /\ word' = word /\ here' = here /\ pairs' = pairs /\ marked' = marked
      /\ pair' = NoPair /\ fifo' = fifo /\ letter' = letter
  BY DEF NextPair, productVars
<1> DEFINE P == DOMAIN parent
<1>1. /\ fifo \in Seq(P) /\ pair \in P /\ letter \in Nat \ {0}
      /\ \A p \in P : p = pair \/ InFifo(p) \/ PairClosed(p)
      /\ \A a \in Letters : a < letter => Joint(pair, a) \in P \cup {NoPair}
      /\ ByLength /\ IsAutomaton(dfa) /\ IsAutomaton(property)
  BY <1>0, ExplainFacts
<1>2. /\ Together' = Together /\ Letters' = Letters
      /\ \A p, a : Joint(p, a)' = Joint(p, a)
  BY SameReference
<1>3. PairClosed(pair)
  BY <1>0, <1>1, LettersRange DEF PairClosed
<1>4. \A p \in P : p = pair' \/ InFifo(p)' \/ PairClosed(p)'
  BY <1>0, <1>1, <1>2, <1>3 DEF InFifo, PairClosed
<1>5. ByLength'
  <2>1. PICK f : /\ Spells(dfa, property, parent, f) /\ InOrder(fifo, f)
                 /\ Near(Together, P, fifo, f, Len(f[pair]))
    BY <1>0, <1>1 DEF ByLength
  <2>2. fifo # <<>> => Near(Together, P, fifo, f, Len(f[fifo[1]]))
    BY <2>1, PairTurnAdvances
  <2> QED
    BY <1>0, <1>2, <2>1, <2>2 DEF ByLength
<1>6. Explaining'
  BY <1>0, <1>1, <1>2, <1>4, <1>5, ExplainFacts DEF Explaining
<1> QED
  BY <1>0, <1>6 DEF ExplainInv, Preparing, Tracing, Replaying, Answered

\* A pair that is new is spelled by its finder's word and the letter, and
\* waits behind all others; one that is marked is the end of a shortest word.
LEMMA RecordPairKeeps ==
  ASSUME ProductInv, ExplainInv, RecordPair,
         dfa' = dfa, property' = property
  PROVE  ExplainInv'
<1> DEFINE P == DOMAIN parent
           found == Joint(pair, letter)
           Q == P \cup {found}
<1>0. /\ phase = "explain" /\ pair # NoPair /\ letter \in Letters
      /\ found \notin P /\ found # NoPair
      /\ parent' = [p \in Q |-> IF p = found THEN <<pair, letter>> ELSE parent[p]]
      /\ fifo' = Append(fifo, found)
      /\ word' = word /\ here' = here /\ pairs' = pairs /\ marked' = marked
      /\ \/ found \in marked /\ phase' = "trace" /\ pair' = found
         \/ found \notin marked /\ phase' = "explain" /\ pair' = pair /\ letter' = letter + 1
  BY DEF RecordPair, ScanningPair, Recorded, productVars, EnqueuePair
<1>1. /\ IsAutomaton(dfa) /\ IsAutomaton(property) /\ reached # {}
      /\ P \subseteq pairs \ marked
      /\ fifo \in Seq(P) /\ pair \in P /\ letter \in Nat \ {0}
      /\ here = dfa.start /\ word = <<>>
      /\ \A p \in P : p = pair \/ InFifo(p) \/ PairClosed(p)
      /\ \A a \in Letters : a < letter => Joint(pair, a) \in P \cup {NoPair}
      /\ ByLength /\ Letters \subseteq Nat
  BY <1>0, ExplainFacts, LettersRange
<1>2. /\ Together' = Together /\ Letters' = Letters
      /\ \A p, a : Joint(p, a)' = Joint(p, a)
  BY SameReference
<1>3. found \in pairs
  <2>1. found \in Onward(pairs)
    BY <1>0, <1>1 DEF Onward
  <2> QED
    BY <1>1, <2>1 DEF ProductInv
<1>4. ProductInv
  OBVIOUS
<1>5. PICK f : /\ Spells(dfa, property, parent, f) /\ InOrder(fifo, f)
               /\ Near(Together, P, fifo, f, Len(f[pair]))
  BY <1>0, <1>1 DEF ByLength
<1>6. f \in [P -> Seq(Nat)] /\ f[pair] \in Seq(Nat) /\ LeadsTo(dfa, property, f[pair], pair)
  BY <1>1, <1>5 DEF Spells
<1> DEFINE k == Len(f[pair])
           w == Append(f[pair], letter)
           g == [p \in Q |-> IF p = found THEN w ELSE f[p]]
<1>7. k \in Nat /\ w \in Seq(Nat) /\ Len(w) = k + 1
  BY <1>1, <1>6
<1>8. LeadsTo(dfa, property, w, found)
  <2>1. letter \in Nat
    BY <1>1
  <2> QED
    BY <1>0, <1>1, <1>6, <2>1, JointSpells
<1> HIDE DEF found, w
<1>9. /\ g \in [Q -> Seq(Nat)] /\ g[found] = w /\ \A p \in P : g[p] = f[p]
      /\ found \in Q /\ P \subseteq Q
  BY <1>0, <1>6, <1>7
<1>10. DOMAIN parent' = Q /\ parent'[found] = <<pair, letter>>
       /\ \A p \in P : parent'[p] = parent[p]
  BY <1>0
<1> HIDE DEF g, Q
<1>11. Spells(dfa, property, parent', g)
  <2>1. ASSUME NEW p \in Q
        PROVE  /\ LeadsTo(dfa, property, g[p], p)
               /\ \/ parent'[p] = <<>> /\ g[p] = <<>>
                  \/ \E q \in Q, a \in Nat : parent'[p] = <<q, a>> /\ g[p] = Append(g[q], a)
    <3>1. CASE p = found
      <4>1. parent'[p] = <<pair, letter>> /\ g[p] = Append(g[pair], letter)
            /\ pair \in Q /\ letter \in Nat
        BY <1>1, <1>9, <1>10, <3>1 DEF w
      <4> QED
        BY <1>8, <1>9, <3>1, <4>1
    <3>2. CASE p # found
      <4>1. p \in P
        BY <2>1, <3>2 DEF Q
      <4>2. \/ parent[p] = <<>> /\ f[p] = <<>>
            \/ \E q \in P, a \in Nat : parent[p] = <<q, a>> /\ f[p] = Append(f[q], a)
        BY <1>5, <4>1 DEF Spells
      <4>3. LeadsTo(dfa, property, f[p], p)
        BY <1>5, <4>1 DEF Spells
      <4> QED
        BY <1>9, <1>10, <4>1, <4>2, <4>3
    <3> QED
      BY <3>1, <3>2
  <2> QED
    BY <1>9, <1>10, <2>1 DEF Spells
<1>12. CASE found \in marked
  <2>1. phase' = "trace" /\ pair' = found
    BY <1>0, <1>12
  <2>2. found \in dfa.accepting \X property.accepting
    <3>1. Accepts(found) /\ mode = "intersection"
      BY <1>1, <1>12 DEF ProductInv, Marks
    <3>2. found = <<found[1], found[2]>>
      BY <1>0 DEF found, Joint
    <3> QED
      BY <3>1, <3>2, AcceptsBoth
  <2>3. \A p \in Together[k] : ~(p[1] \in dfa.accepting /\ p[2] \in property.accepting)
    <3>1. \A p \in Together[k] : p \in P \/ Void \in {p[1], p[2]}
      BY <1>5 DEF Near
    <3> QED
      BY <1>1, <1>4, <3>1, UnmarkedRejects
  <2>4. Answers(dfa, property, Together, w)
    <3>1. Len(w) - 1 = k
      BY <1>7
    <3> QED
      BY <1>7, <1>8, <2>2, <2>3, <3>1 DEF Answers
  <2>5. g[pair'] \o word' = w /\ word' \in Seq(Nat)
    <3>1. w \o <<>> = w
      BY <1>7
    <3> QED
      BY <1>0, <1>1, <1>9, <2>1, <3>1
  <2>6. Tracing'
    <3>1. Answers(dfa', property', Together', g[pair'] \o word')
      BY <1>2, <2>4, <2>5
    <3>2. Spells(dfa', property', parent', g)
      BY <1>11
    <3> QED
      BY <1>0, <1>1, <1>9, <1>10, <2>1, <2>5, <3>1, <3>2 DEF Tracing
  <2> QED
    BY <2>1, <2>6 DEF ExplainInv, Preparing, Explaining, Replaying, Answered
<1>13. CASE found \notin marked
  <2>0. /\ phase' = "explain" /\ pair' = pair /\ letter' = letter + 1
        /\ fifo' = Append(fifo, found)
    BY <1>0, <1>13
  <2> DEFINE L == Len(fifo)
  <2>1. /\ L \in Nat /\ fifo' \in Seq(Q) /\ Len(fifo') = L + 1 /\ fifo'[L + 1] = found
        /\ \A i \in 1..L : fifo'[i] = fifo[i] /\ fifo[i] \in P
        /\ \A i \in 1..(L + 1) : i \in 1..L \/ i = L + 1
    <3>1. fifo \in Seq(Q)
      BY <1>1, <1>9
    <3> QED
      BY <1>1, <1>9, <2>0, <3>1
  <2> HIDE DEF L
  <2>2. /\ \A i \in 1..L : Len(g[fifo'[i]]) = Len(f[fifo[i]]) /\ Len(f[fifo[i]]) \in Nat
        /\ Len(g[fifo'[L + 1]]) = k + 1 /\ Len(g[pair]) = k
    BY <1>1, <1>6, <1>7, <1>9, <2>1
  <2>3. \A i \in 1..L : \/ Len(f[fifo[i]]) = k
                        \/ Len(f[fifo[i]]) = k + 1 /\ fifo[i] \notin Together[k]
    BY <1>5 DEF Near, L
  <2>4. \A i, j \in 1..L : i < j => Len(f[fifo[i]]) <= Len(f[fifo[j]])
    BY <1>5 DEF InOrder, L
  <2>5. InOrder(fifo', g)
    <3> SUFFICES ASSUME NEW i \in 1..(L + 1), NEW j \in 1..(L + 1), i < j
                 PROVE  Len(g[fifo'[i]]) <= Len(g[fifo'[j]])
      BY <2>1 DEF InOrder
    <3>1. i \in 1..L
      BY <2>1
    <3>2. CASE j \in 1..L
      BY <2>2, <2>4, <3>1, <3>2
    <3>3. CASE j = L + 1
      <4>1. Len(f[fifo[i]]) <= k + 1
        BY <1>7, <2>2, <2>3, <3>1
      <4> QED
        BY <2>2, <3>1, <3>3, <4>1
    <3> QED
      BY <2>1, <3>2, <3>3
  <2>6. Near(Together, Q, fifo', g, k)
    <3>1. \A p \in Together[k] : p \in P \/ Void \in {p[1], p[2]}
      BY <1>5 DEF Near
    <3>2. found \notin Together[k]
      <4>1. Void \notin {found[1], found[2]}
        BY <1>1, <1>3, SearchAssumption DEF ProductInv
      <4> QED
        BY <1>0, <3>1, <4>1
    <3>3. ASSUME NEW i \in 1..(L + 1)
          PROVE  \/ Len(g[fifo'[i]]) = k
                 \/ Len(g[fifo'[i]]) = k + 1 /\ fifo'[i] \notin Together[k]
      <4>1. CASE i \in 1..L
        BY <2>1, <2>2, <2>3, <4>1
      <4>2. CASE i = L + 1
        BY <2>1, <2>2, <3>2, <4>2
      <4> QED
        BY <2>1, <4>1, <4>2
    <3> QED
      BY <1>9, <2>1, <3>1, <3>3 DEF Near
  <2>7. ByLength'
    <3>1. Near(Together', DOMAIN parent', fifo', g, Len(g[pair']))
      BY <1>2, <1>10, <2>0, <2>2, <2>6
    <3>2. Spells(dfa', property', parent', g)
      BY <1>11
    <3> QED
      BY <1>0, <2>0, <2>5, <3>1, <3>2 DEF ByLength
  <2>8. \A p \in Q : p = pair' \/ InFifo(p)' \/ PairClosed(p)'
    <3> SUFFICES ASSUME NEW p \in Q PROVE p = pair' \/ InFifo(p)' \/ PairClosed(p)'
      OBVIOUS
    <3>1. CASE p = found
      <4>1. L + 1 \in 1..Len(fifo')
        BY <2>1
      <4> QED
        BY <2>1, <3>1, <4>1 DEF InFifo
    <3>2. CASE p # found
      <4>1. p \in P
        BY <3>2 DEF Q
      <4>2. InFifo(p) => InFifo(p)'
        <5> SUFFICES ASSUME InFifo(p) PROVE InFifo(p)'
          OBVIOUS
        <5>1. PICK i \in 1..L : fifo[i] = p
          BY DEF InFifo, L
        <5>2. i \in 1..Len(fifo') /\ fifo'[i] = p
          BY <2>1, <5>1
        <5> QED
          BY <5>2 DEF InFifo
      <4>3. PairClosed(p) => PairClosed(p)'
        BY <1>2, <1>9, <1>10 DEF PairClosed
      <4> QED
        BY <1>1, <2>0, <4>1, <4>2, <4>3
    <3> QED
      BY <3>1, <3>2
  <2>9. \A a \in Letters : a < letter + 1 => Joint(pair, a) \in Q \cup {NoPair}
    <3> SUFFICES ASSUME NEW a \in Letters, a < letter + 1
                 PROVE  Joint(pair, a) \in Q \cup {NoPair}
      OBVIOUS
    <3>1. a \in Nat /\ (a < letter \/ a = letter)
      BY <1>1
    <3> QED
      BY <1>1, <1>9, <3>1 DEF found
  <2>10. Q \subseteq pairs \ marked
    BY <1>1, <1>3, <1>13 DEF Q
  <2>11. Explaining'
    BY <1>0, <1>1, <1>2, <1>9, <1>10, <2>0, <2>1, <2>7, <2>8, <2>9, <2>10 DEF Explaining
  <2> QED
    BY <2>0, <2>11 DEF ExplainInv, Preparing, Tracing, Replaying, Answered
<1> QED
  BY <1>12, <1>13

\* A symbol may be moved from the end of a word to the front of the rest.
LEMMA MoveLetter ==
  ASSUME NEW u \in Seq(Nat), NEW v \in Seq(Nat), NEW a \in Nat
  PROVE  u \o (<<a>> \o v) = Append(u, a) \o v /\ <<a>> \o v \in Seq(Nat)
<1> DEFINE s == <<a>>
<1>1. s \in Seq(Nat)
  OBVIOUS
<1>2. u \o s = Append(u, a)
  OBVIOUS
<1> HIDE DEF s
<1>3. s \o v \in Seq(Nat)
  BY <1>1
<1>4. u \o (s \o v) = (u \o s) \o v
  BY <1>1
<1> QED
  BY <1>2, <1>3, <1>4 DEF s

\* The word grows at its head while the pointers are followed.
LEMMA TraceKeeps ==
  ASSUME ProductInv, ExplainInv, Trace,
         dfa' = dfa, property' = property
  PROVE  ExplainInv'
<1>0. /\ phase = "trace" /\ phase' = "trace" /\ parent[pair] # <<>>
      /\ word' = <<parent[pair][2]>> \o word /\ pair' = parent[pair][1]
      /\ parent' = parent /\ here' = here
  BY DEF Trace
<1>1. here = dfa.start /\ word \in Seq(Nat) /\ pair \in DOMAIN parent
  BY <1>0 DEF ExplainInv, Tracing
<1>2. PICK f : /\ Spells(dfa, property, parent, f)
               /\ Answers(dfa, property, Together, f[pair] \o word)
  BY <1>0 DEF ExplainInv, Tracing
<1>3. PICK q \in DOMAIN parent, a \in Nat : parent[pair] = <<q, a>> /\ f[pair] = Append(f[q], a)
  BY <1>0, <1>1, <1>2 DEF Spells
<1>4. word' = <<a>> \o word /\ pair' = q
  BY <1>0, <1>3
<1>5. f[q] \in Seq(Nat)
  BY <1>2 DEF Spells
<1>6. f[q] \o (<<a>> \o word) = Append(f[q], a) \o word /\ <<a>> \o word \in Seq(Nat)
  BY <1>1, <1>5, MoveLetter
<1>7. f[pair'] \o word' = f[pair] \o word
  BY <1>3, <1>4, <1>6
<1>8. Together' = Together
  BY SameReference
<1>9. Tracing'
  BY <1>0, <1>1, <1>2, <1>4, <1>6, <1>7, <1>8 DEF Tracing
<1> QED
  BY <1>0, <1>9 DEF ExplainInv, Preparing, Explaining, Replaying, Answered

\* It is whole at the start pair; the replay starts in the session's start.
LEMMA TracedKeeps ==
  ASSUME ProductInv, ExplainInv, Traced,
         dfa' = dfa, property' = property
  PROVE  ExplainInv'
<1>0. /\ phase = "trace" /\ phase' = "replay" /\ parent[pair] = <<>>
      /\ word' = word /\ letter' = 1 /\ here' = here
  BY DEF Traced
<1>1. here = dfa.start /\ word \in Seq(Nat) /\ pair \in DOMAIN parent /\ IsAutomaton(dfa)
  BY <1>0 DEF ExplainInv, Tracing, ProductInv
<1>2. PICK f : /\ Spells(dfa, property, parent, f)
               /\ Answers(dfa, property, Together, f[pair] \o word)
  BY <1>0 DEF ExplainInv, Tracing
<1>3. f[pair] = <<>>
  <2>1. \/ parent[pair] = <<>> /\ f[pair] = <<>>
        \/ \E q \in DOMAIN parent, a \in Nat :
             parent[pair] = <<q, a>> /\ f[pair] = Append(f[q], a)
    BY <1>1, <1>2 DEF Spells
  <2>2. \A q, a : <<q, a>> # <<>>
    OBVIOUS
  <2> QED
    BY <1>0, <2>1, <2>2
<1>4. Answers(dfa, property, Together, word)
  <2>1. <<>> \o word = word
    BY <1>1
  <2> QED
    BY <1>2, <1>3, <2>1
<1>5. PICK h : Stations(dfa, word, h) /\ h[0] = {dfa.start}
  BY <1>1, StationsExist
<1>6. Together' = Together
  BY SameReference
<1>7. Replaying'
  <2>1. letter' \in 1..(Len(word') + 1) /\ here' \in Nodes /\ letter' - 1 = 0
    BY <1>0, <1>1 DEF IsAutomaton
  <2>2. Stations(dfa', word', h) /\ h[letter' - 1] = {here'}
    BY <1>0, <1>1, <1>5
  <2> QED
    BY <1>0, <1>4, <1>6, <2>1, <2>2 DEF Replaying
<1> QED
  BY <1>0, <1>7 DEF ExplainInv, Preparing, Explaining, Tracing, Answered

\* A symbol of the replay is a step of the session automaton.
LEMMA ReplayKeeps ==
  ASSUME ProductInv, ExplainInv, Replay,
         dfa' = dfa, property' = property
  PROVE  ExplainInv'
<1>0. /\ phase = "replay" /\ phase' = "replay" /\ reached' = reached
      /\ letter <= Len(word) /\ DFAStep(dfa, here, word[letter]) # Void
      /\ here' = DFAStep(dfa, here, word[letter]) /\ letter' = letter + 1 /\ word' = word
  BY DEF Replay, Replayable, productVars
<1>1. CASE reached # {}
  <2>1. /\ Answers(dfa, property, Together, word) /\ letter \in 1..(Len(word) + 1)
        /\ IsAutomaton(dfa) /\ word \in Seq(Nat)
    BY <1>0, <1>1 DEF ExplainInv, Replaying, ProductInv, Answers
  <2>2. PICK h : Stations(dfa, word, h) /\ h[letter - 1] = {here}
    BY <1>0, <1>1 DEF ExplainInv, Replaying
  <2>3. letter \in 1..Len(word) /\ letter' - 1 = letter /\ letter' \in 1..(Len(word) + 1)
    BY <1>0, <2>1
  <2>4. StationAt(dfa, word, h, letter)
    BY <2>1, <2>2, <2>3, StationsStep
  <2>5. h[letter] = {here'}
    BY <1>0, <2>2, <2>4 DEF StationAt
  <2>6. here' \in Nodes
    BY <1>0, <2>1, StepTypes
  <2>7. Together' = Together
    BY SameReference
  <2>8. Replaying'
    BY <1>0, <2>1, <2>2, <2>3, <2>5, <2>6, <2>7 DEF Replaying
  <2> QED
    BY <1>0, <2>8 DEF ExplainInv, Preparing, Explaining, Tracing, Answered
<1>2. CASE reached = {}
  BY <1>0, <1>2 DEF ExplainInv, Preparing, Explaining, Tracing, Replaying, Answered
<1> QED
  BY <1>1, <1>2

\* It is never cut short: a word that is accepted has all its transitions.
LEMMA BeginRepairKeeps ==
  ASSUME ProductInv, ExplainInv, BeginRepair,
         dfa' = dfa, property' = property
  PROVE  ExplainInv'
<1>0. /\ phase = "replay" /\ phase' = "repair" /\ reached' = reached /\ ~Replayable
      /\ word' = word /\ here' = here
  BY DEF BeginRepair, productVars, explainVars
<1>1. CASE reached # {}
  <2>1. /\ Answers(dfa, property, Together, word) /\ letter \in 1..(Len(word) + 1)
        /\ IsAutomaton(dfa) /\ word \in Seq(Nat)
    BY <1>0, <1>1 DEF ExplainInv, Replaying, ProductInv, Answers
  <2>2. PICK h : Stations(dfa, word, h) /\ h[letter - 1] = {here}
    BY <1>0, <1>1 DEF ExplainInv, Replaying
  <2>3. Ends(dfa, dfa.start, word) # {}
    BY <2>1 DEF Answers, LeadsTo
  <2>4. letter = Len(word) + 1
    <3> SUFFICES ASSUME letter # Len(word) + 1 PROVE FALSE
      OBVIOUS
    <3>1. letter \in 1..Len(word) /\ letter \in 0..Len(word)
      BY <2>1
    <3>2. DFAStep(dfa, here, word[letter]) = Void
      BY <1>0, <2>1, <3>1 DEF Replayable
    <3>3. StationAt(dfa, word, h, letter)
      BY <2>1, <2>2, <3>1, StationsStep
    <3>4. h[letter] = {}
      BY <2>2, <3>2, <3>3 DEF StationAt
    <3>5. h[Len(word)] = {}
      BY <2>1, <2>2, <3>1, <3>4, StationsEnd
    <3> QED
      BY <2>2, <2>3, <3>5 DEF Stations
  <2>5. Ends(dfa, dfa.start, word) = {here}
    <3>1. letter - 1 = Len(word)
      BY <2>1, <2>4
    <3> QED
      BY <2>2, <3>1 DEF Stations
  <2>6. Together' = Together
    BY SameReference
  <2>7. Answered'
    BY <1>0, <2>1, <2>5, <2>6 DEF Answered
  <2> QED
    BY <1>0, <2>7 DEF ExplainInv, Preparing, Explaining, Tracing, Replaying
<1>2. CASE reached = {}
  BY <1>0, <1>2 DEF ExplainInv, Preparing, Explaining, Tracing, Replaying, Answered
<1> QED
  BY <1>1, <1>2

\* Every step of the check keeps what the search for the counterexample knows.
LEMMA ExplainNext == ProductInv /\ ExplainInv /\ [CheckerNext]_checkerVars => ExplainInv'
<1> SUFFICES ASSUME ProductInv, ExplainInv, [CheckerNext]_checkerVars PROVE ExplainInv'
  OBVIOUS
<1>0. dfa' = dfa /\ property' = property
  BY SameCheck
<1>1. CASE Expand \/ Reach \/ ProductBuilt
  <2>1. /\ phase \in {"product", "reach"} /\ phase' \in {"product", "reach", "built"}
        /\ UNCHANGED explainVars
    BY <1>1 DEF Expand, Reach, ProductBuilt
  <2>2. Preparing'
    BY <1>0, <2>1 DEF ExplainInv, Preparing, explainVars
  <2> QED
    BY <2>1, <2>2 DEF ExplainInv, Explaining, Tracing, Replaying, Answered
<1>2. CASE Decide
  BY <1>2, DecideKeeps
<1>3. CASE PopPair
  BY <1>0, <1>3, PopPairKeeps
<1>4. CASE SkipPair
  BY <1>0, <1>4, SkipPairKeeps
<1>5. CASE RecordPair
  BY <1>0, <1>5, RecordPairKeeps
<1>6. CASE NextPair
  BY <1>0, <1>6, NextPairKeeps
<1>7. CASE Trace
  BY <1>0, <1>7, TraceKeeps
<1>8. CASE Traced
  BY <1>0, <1>8, TracedKeeps
<1>9. CASE Replay
  BY <1>0, <1>9, ReplayKeeps
<1>10. CASE BeginRepair
  BY <1>0, <1>10, BeginRepairKeeps
<1>11. CASE RepairStep
  <2>1. /\ phase = "repair" /\ phase' = "repair"
        /\ reached' = reached /\ word' = word /\ here' = here
    BY <1>11 DEF RepairStep, productVars, explainVars
  <2>2. Together' = Together
    BY <1>0, SameReference
  <2>3. Answered'
    BY <1>0, <2>1, <2>2 DEF ExplainInv, Answered
  <2> QED
    BY <2>1, <2>3 DEF ExplainInv, Preparing, Explaining, Tracing, Replaying
<1>12. CASE UNCHANGED checkerVars
  <2>1. /\ phase' = phase /\ pairs' = pairs /\ marked' = marked /\ reached' = reached
        /\ parent' = parent /\ fifo' = fifo /\ pair' = pair /\ letter' = letter
        /\ word' = word /\ here' = here
    BY <1>12 DEF checkerVars, productVars, explainVars
  <2>2. /\ Together' = Together /\ Letters' = Letters
        /\ \A p, a : Joint(p, a)' = Joint(p, a)
    BY <1>0, SameReference
  <2>3. Preparing'
    BY <1>0, <2>1 DEF ExplainInv, Preparing
  <2>4. Explaining'
    <3>1. ByLength => ByLength'
      BY <1>0, <2>1, <2>2 DEF ByLength
    <3>2. \A p : (InFifo(p) => InFifo(p)') /\ (PairClosed(p) => PairClosed(p)')
      BY <2>1, <2>2 DEF InFifo, PairClosed
    <3> QED
      BY <1>0, <2>1, <2>2, <3>1, <3>2 DEF ExplainInv, Explaining
  <2>5. Tracing'
    BY <1>0, <2>1, <2>2 DEF ExplainInv, Tracing
  <2>6. Replaying'
    BY <1>0, <2>1, <2>2 DEF ExplainInv, Replaying
  <2>7. Answered'
    BY <1>0, <2>1, <2>2 DEF ExplainInv, Answered
  <2> QED
    BY <2>3, <2>4, <2>5, <2>6, <2>7 DEF ExplainInv
<1> QED
  BY <1>1, <1>2, <1>3, <1>4, <1>5, <1>6, <1>7, <1>8, <1>9, <1>10, <1>11, <1>12 DEF CheckerNext

\* A verdict that is not "safe" comes with a word that both automata accept,
\* than which none is shorter, and with the session state it ends in, however
\* large the automata are: extract_counterexample is a breadth-first search,
\* and _replay_to_session_state is not cut short.
THEOREM CounterexampleShortest == CheckerSpec => []CounterexampleIsShortest
<1>1. ExplainInv => CounterexampleIsShortest
  <2> SUFFICES ASSUME ExplainInv, phase = "repair", reached # {} PROVE CounterexampleIsShortest
    BY DEF CounterexampleIsShortest
  <2>1. /\ Answers(dfa, property, Together, word)
        /\ Ends(dfa, dfa.start, word) = {here}
    BY DEF ExplainInv, Answered
  <2>2. PICK p \in dfa.accepting \X property.accepting : LeadsTo(dfa, property, word, p)
    BY <2>1 DEF Answers
  <2>3. Ends(dfa, dfa.start, word) = {p[1]} /\ Ends(property, property.start, word) = {p[2]}
    BY <2>2 DEF LeadsTo
  <2>4. here = p[1] /\ here \in dfa.accepting /\ p[2] \in property.accepting
    BY <2>1, <2>2, <2>3
  <2> QED
    BY <2>1, <2>3, <2>4 DEF CounterexampleIsShortest, Answers
<1> QED
  BY <1>1, CheckerInitInv, CheckerNextInv, ProductInit, ProductNext, ExplainInit, ExplainNext, PTL
  DEF CheckerSpec
=============================================================================
