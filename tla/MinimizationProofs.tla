------------------------- MODULE MinimizationProofs -------------------------
(***************************************************************************)
(* What holds of the subset construction and of the minimization for every *)
(* automaton, however large, and for words of every length: the constructed*)
(* automaton follows the runs of the NFA; no order in which splitters are  *)
(* taken separates two bisimilar states, and none misses a split; the      *)
(* quotient has the language and the traps of the automaton.               *)
(***************************************************************************)
EXTENDS Minimization, Recursion

Extended == active \cup SinkBlock

\* A relation on the active states and the sink whose pairs agree on being the
\* sink and on acceptance, and whose successors are related again.
Bisimulation(R) ==
  /\ R \subseteq Extended \X Extended
  /\ \A p, q \in Extended :
       <<p, q>> \in R =>
         /\ p \in SinkBlock <=> q \in SinkBlock
         /\ p \in ActiveAccepting <=> q \in ActiveAccepting
         /\ \A a \in Symbols : <<Total(dfa, p, a), Total(dfa, q, a)>> \in R

\* A set of states that related states are in together, or not at all.
Saturated(B, R) == \A p, q \in Extended : <<p, q>> \in R => (p \in B <=> q \in B)

\* No block, and nothing that blocks are split by, separates bisimilar states.
NeverSeparated ==
  \A R \in SUBSET (Extended \X Extended) :
    Bisimulation(R) =>
      \A B \in blocks \cup worklist \cup {splitter} : Saturated(B, R)

\* Before the refinement there is nothing to split, or to split by.
NothingYet ==
  phase \in {"construct", "prune"} => blocks = {} /\ worklist = {} /\ splitter = {}

IInv == todo \in Seq(Symbols) /\ NothingYet /\ NeverSeparated

-----------------------------------------------------------------------------
\* The sources of a saturated splitter are saturated: this is where successors
\* of related states must be related.
LEMMA SourcesSaturated ==
  ASSUME NEW R, Bisimulation(R), NEW A, Saturated(A, R), NEW a \in Symbols
  PROVE  Saturated(Sources(A, a), R)
<1> SUFFICES ASSUME NEW p \in Extended, NEW q \in Extended, <<p, q>> \in R
             PROVE  p \in Sources(A, a) <=> q \in Sources(A, a)
  BY DEF Saturated
<1>1. <<Total(dfa, p, a), Total(dfa, q, a)>> \in R
  BY DEF Bisimulation
<1>2. Total(dfa, p, a) \in Extended /\ Total(dfa, q, a) \in Extended
  BY <1>1 DEF Bisimulation
<1>3. Total(dfa, p, a) \in A <=> Total(dfa, q, a) \in A
  BY <1>1, <1>2 DEF Saturated
<1> QED
  BY <1>3 DEF Sources, Extended

\* Both halves of a saturated block are saturated.
LEMMA HalvesSaturated ==
  ASSUME NEW R, NEW X, Saturated(X, R), NEW Y, Saturated(Y, R), NEW H \in Halves(Y, X)
  PROVE  Saturated(H, R)
BY DEF Halves, Saturated

\* The blocks that the refinement starts with are saturated.
LEMMA FirstBlocksSaturated ==
  ASSUME NEW R, Bisimulation(R),
         NEW B \in {SinkBlock, ActiveAccepting, active \ ActiveAccepting}
  PROVE  Saturated(B, R)
<1> SUFFICES ASSUME NEW p \in Extended, NEW q \in Extended, <<p, q>> \in R
             PROVE  p \in B <=> q \in B
  BY DEF Saturated
<1>1. /\ p \in SinkBlock <=> q \in SinkBlock
      /\ p \in ActiveAccepting <=> q \in ActiveAccepting
  BY DEF Bisimulation
<1>2. CASE p \in SinkBlock
  BY <1>1, <1>2 DEF SinkBlock
<1>3. CASE p \notin SinkBlock
  BY <1>1, <1>3 DEF Extended
<1> QED
  BY <1>2, <1>3

LEMMA InitIInv == Init => IInv
<1> SUFFICES ASSUME Init PROVE IInv
  OBVIOUS
<1>1. blocks = {} /\ worklist = {} /\ splitter = {} /\ todo = <<>>
  BY DEF Init
<1>2. NeverSeparated
  BY <1>1 DEF NeverSeparated, Saturated
<1> QED
  BY <1>1, <1>2 DEF IInv, NothingYet

\* Where dfa, the active states and what is split stay, so does the invariant.
LEMMA SameRelations ==
  ASSUME UNCHANGED <<dfa, active>>
  PROVE  /\ Extended' = Extended
         /\ \A R : Bisimulation(R)' <=> Bisimulation(R)
         /\ \A B, R : Saturated(B, R)' <=> Saturated(B, R)
BY DEF Extended, SinkBlock, Bisimulation, ActiveAccepting, Total, Saturated

LEMMA NothingSeparated ==
  ASSUME blocks' = {}, worklist' = {}, splitter' = {}
  PROVE  NeverSeparated'
BY DEF NeverSeparated, Saturated

LEMMA SplitKeepsSaturation ==
  ASSUME IInv, Split
  PROVE  NeverSeparated'
<1>1. /\ UNCHANGED <<dfa, active, splitter>>
      /\ todo # <<>>
  BY DEF Split, constructionVars
<1>2. Head(todo) \in Symbols
  BY <1>1 DEF IInv
<1> DEFINE X == Sources(splitter, Head(todo))
           split == {Y \in blocks : SplitBy(Y, X)}
<1>3. /\ blocks' = (blocks \ split) \cup UNION {Halves(Y, X) : Y \in split}
      /\ worklist' = (worklist \ split) \cup UNION {Resplit(Y, X) : Y \in split}
  BY DEF Split
<1>4. \A Y : Resplit(Y, X) \subseteq Halves(Y, X)
  BY DEF Resplit, Halves
<1> SUFFICES ASSUME NEW R \in SUBSET (Extended \X Extended), Bisimulation(R),
                    NEW B \in blocks' \cup worklist' \cup {splitter'}
             PROVE  Saturated(B, R)
  BY <1>1, SameRelations DEF NeverSeparated
<1>5. \A C \in blocks \cup worklist \cup {splitter} : Saturated(C, R)
  BY DEF IInv, NeverSeparated
<1>6. Saturated(X, R)
  BY <1>2, <1>5, SourcesSaturated
<1>7. \A Y \in split : \A H \in Halves(Y, X) : Saturated(H, R)
  BY <1>5, <1>6, HalvesSaturated
<1>8. CASE B \in blocks \cup worklist \cup {splitter}
  BY <1>5, <1>8
<1>9. CASE \E Y \in split : B \in Halves(Y, X)
  BY <1>7, <1>9
<1> HIDE DEF X, split
<1> QED
  BY <1>1, <1>3, <1>4, <1>8, <1>9

LEMMA NextIInv == IInv /\ [Next]_vars => IInv'
<1> SUFFICES ASSUME IInv, [Next]_vars PROVE IInv'
  OBVIOUS
<1> USE DEF IInv
<1>1. CASE UNCHANGED vars
  <2>1. UNCHANGED <<dfa, active, blocks, worklist, splitter, todo, phase>>
    BY <1>1 DEF vars, constructionVars, partitionVars
  <2> QED
    BY <2>1, SameRelations DEF NothingYet, NeverSeparated
<1>2. CASE (ExpandSubset \/ Constructed) /\ UNCHANGED <<partitionVars, minimal>>
  <2>1. phase = "construct" /\ phase' \in {"construct", "prune"}
    BY <1>2 DEF ExpandSubset, Constructed
  <2>2. /\ blocks' = {} /\ worklist' = {} /\ splitter' = {}
        /\ todo' = todo
    BY <1>2, <2>1 DEF NothingYet, partitionVars
  <2> QED
    BY <2>2, NothingSeparated DEF NothingYet
<1>3. CASE Prune
  <2>1. /\ blocks' = {} /\ worklist' = {} /\ splitter' = {}
        /\ todo' = todo
    BY <1>3 DEF Prune, NothingYet
  <2> QED
    BY <2>1, NothingSeparated DEF NothingYet
<1>4. CASE NothingAccepted \/ Quotient
  <2>1. /\ UNCHANGED <<dfa, active, blocks, worklist, splitter, todo>>
        /\ phase' = "done"
    BY <1>4 DEF NothingAccepted, Quotient, partitionVars
  <2> QED
    BY <2>1, SameRelations DEF NothingYet, NeverSeparated
<1>5. CASE StartRefinement
  <2>1. /\ UNCHANGED <<dfa, active, splitter, todo, phase>>
        /\ phase = "refine"
        /\ blocks' \cup worklist'
             \subseteq {SinkBlock, ActiveAccepting, active \ ActiveAccepting}
    BY <1>5 DEF StartRefinement, constructionVars, FirstSplitters
  <2>2. NeverSeparated'
    <3> SUFFICES ASSUME NEW R \in SUBSET (Extended \X Extended), Bisimulation(R),
                        NEW B \in blocks' \cup worklist' \cup {splitter'}
                 PROVE  Saturated(B, R)
      BY <2>1, SameRelations DEF NeverSeparated
    <3>1. CASE B = splitter
      BY <3>1 DEF NeverSeparated
    <3>2. CASE B \in {SinkBlock, ActiveAccepting, active \ ActiveAccepting}
      BY <3>2, FirstBlocksSaturated
    <3> QED
      BY <2>1, <3>1, <3>2
  <2> QED
    BY <2>1, <2>2 DEF NothingYet
<1>6. CASE PopSplitter
  <2>1. /\ UNCHANGED <<dfa, active, blocks, phase>>
        /\ phase = "refine"
        /\ worklist' \subseteq worklist
        /\ splitter' \in worklist
        /\ todo' = SymbolOrder
    BY <1>6 DEF PopSplitter, WorklistWithout, constructionVars
  <2>2. NeverSeparated'
    BY <2>1, SameRelations DEF NeverSeparated
  <2> QED
    BY <2>1, <2>2, ConstructionAssumption DEF NothingYet
<1>7. CASE Split
  <2>1. /\ UNCHANGED phase
        /\ phase = "refine"
        /\ todo # <<>> /\ todo' = Tail(todo)
    BY <1>7 DEF Split, constructionVars
  <2> QED
    BY <1>7, <2>1, SplitKeepsSaturation DEF NothingYet
<1> QED
  BY <1>1, <1>2, <1>3, <1>4, <1>5, <1>6, <1>7 DEF Next

\* For every automaton, with any number of states and symbols, and whatever
\* block w_blocks.pop() takes: bisimilar states stay in one block, as
\* BlocksAreClasses checks it of small automata.
THEOREM BisimilarStayTogether == Spec => []NeverSeparated
<1>1. IInv => NeverSeparated
  BY DEF IInv
<1> QED
  BY InitIInv, NextIInv, <1>1, PTL DEF Spec

-----------------------------------------------------------------------------
\* The subset construction.

\* What is assumed of an NFA.
IsNFA(m) ==
  /\ m.delta \in [Nodes \X (Symbols \cup {Epsilon}) -> SUBSET Nodes]
  /\ m.start \in Nodes
  /\ m.accepting \subseteq Nodes

LEMMA SilentType ==
  ASSUME NEW m, IsNFA(m)
  PROVE  /\ Silent(m) \in [SUBSET Nodes -> SUBSET Nodes]
         /\ \A T \in SUBSET Nodes : Silent(m)[T] = UNION {m.delta[<<q, Epsilon>>] : q \in T}
<1>1. \A q \in Nodes : m.delta[<<q, Epsilon>>] \subseteq Nodes
  BY DEF IsNFA
<1> QED
  BY <1>1 DEF Silent

\* The closure by rounds is the least closed set.
LEMMA EpsilonClosureIsLeast ==
  ASSUME NEW m, IsNFA(m), NEW S \in SUBSET Nodes
  PROVE  EpsilonClosure(m, S) = Silently(m, S)
<1> DEFINE G == EpsilonClosure(m, S)
<1>1. IsClosure(G, Nodes, Silent(m), S)
  BY SilentType, GrownCloses, ConstructionAssumption DEF EpsilonClosure
<1> HIDE DEF G
<1>2. /\ G \in SUBSET Nodes /\ S \subseteq G
      /\ Closed(m, G)
  <2>1. G \in SUBSET Nodes /\ S \subseteq G /\ Silent(m)[G] \subseteq G
    BY <1>1 DEF IsClosure
  <2>2. Silent(m)[G] = UNION {m.delta[<<q, Epsilon>>] : q \in G}
    BY <2>1, SilentType
  <2> QED
    BY <2>1, <2>2 DEF Closed
<1>3. ASSUME NEW C \in SUBSET Nodes, S \subseteq C, Closed(m, C)
      PROVE  G \subseteq C
  <2>1. ASSUME NEW T \in SUBSET Nodes, T \subseteq C PROVE Silent(m)[T] \subseteq C
    <3>1. Silent(m)[T] = UNION {m.delta[<<q, Epsilon>>] : q \in T}
      BY SilentType
    <3> QED
      BY <1>3, <2>1, <3>1 DEF Closed
  <2> QED
    BY <1>1, <1>3, <2>1 DEF IsClosure
<1>4. G = Silently(m, S)
  BY <1>2, <1>3 DEF Silently
<1> QED
  BY <1>4 DEF G

LEMMA StepSubsetType ==
  ASSUME NEW m, IsNFA(m), NEW S \in SUBSET Nodes, NEW a \in Symbols
  PROVE  /\ StepSubset(m, S, a) \in SUBSET Nodes
         /\ Possibly(m)[<<S, a>>] = StepSubset(m, S, a)
         /\ S = {} => StepSubset(m, S, a) = {}
<1> DEFINE T == UNION {m.delta[<<q, a>>] : q \in S}
<1>1. T \in SUBSET Nodes
  BY DEF IsNFA
<1>2. StepSubset(m, S, a) = Silently(m, T)
  BY <1>1, EpsilonClosureIsLeast DEF StepSubset
<1>3. Possibly(m)[<<S, a>>] = Silently(m, T)
  BY DEF Possibly
<1>4. S = {} => T = {}
  OBVIOUS
<1> HIDE DEF T
<1>5. Silently(m, T) \in SUBSET Nodes
  BY DEF Silently
<1>6. T = {} => Silently(m, T) = {}
  BY DEF Silently, Closed
<1> QED
  BY <1>2, <1>3, <1>4, <1>5, <1>6

LEMMA PossiblyType ==
  ASSUME NEW m, IsNFA(m)
  PROVE  Possibly(m) \in [(SUBSET Nodes) \X Symbols -> SUBSET Nodes]
BY DEF Possibly, Silently

\* What an expansion finds: the successors that are not known, each once.
Finds(found, known, m, current, w) ==
  /\ found \in Seq(SUBSET Nodes)
  /\ \A i \in 1..Len(found) : found[i] \notin {{}} \cup known
  /\ \A i, j \in 1..Len(found) : found[i] = found[j] => i = j
  /\ \A k \in 1..Len(w) :
       \/ StepSubset(m, current, w[k]) \in {{}} \cup known
       \/ \E i \in 1..Len(found) : found[i] = StepSubset(m, current, w[k])

LEMMA FindsMore ==
  ASSUME NEW m, IsNFA(m), NEW current \in SUBSET Nodes, NEW w \in Seq(Symbols), NEW a \in Symbols,
         NEW found, Finds(found, dfa.states, m, current, w)
  PROVE  Finds(Discovering(m, current)[<<found, a>>], dfa.states, m, current, Append(w, a))
<1> DEFINE t == StepSubset(m, current, a)
           x == Append(w, a)
<1>0. t \in SUBSET Nodes /\ found \in Seq(SUBSET Nodes)
  BY StepSubsetType DEF Finds
<1>1. Discovering(m, current)[<<found, a>>] =
        IF t \in {{}} \cup dfa.states \cup Range(found) THEN found ELSE Append(found, t)
  BY <1>0 DEF Discovering
<1>2. /\ \A k \in 1..Len(x) : (k \in 1..Len(w) /\ x[k] = w[k]) \/ x[k] = a
  OBVIOUS
<1> HIDE DEF x, t
<1>3. \A S : S \in Range(found) <=> \E i \in 1..Len(found) : found[i] = S
  BY <1>0 DEF Range
<1>4. CASE t \in {{}} \cup dfa.states \cup Range(found)
  <2>1. \A k \in 1..Len(x) :
          \/ StepSubset(m, current, x[k]) \in {{}} \cup dfa.states
          \/ \E i \in 1..Len(found) : found[i] = StepSubset(m, current, x[k])
    BY <1>2, <1>3, <1>4 DEF Finds, t
  <2>2. Finds(found, dfa.states, m, current, x)
    BY <2>1 DEF Finds
  <2> QED
    BY <1>1, <1>4, <2>2 DEF x
<1>5. CASE t \notin {{}} \cup dfa.states \cup Range(found)
  <2> DEFINE more == Append(found, t)
  <2>1. /\ more \in Seq(SUBSET Nodes) /\ Len(more) = Len(found) + 1 /\ more[Len(found) + 1] = t
        /\ \A i \in 1..Len(found) : i \in 1..Len(more) /\ more[i] = found[i]
        /\ \A i \in 1..Len(more) : i \in 1..Len(found) \/ i = Len(found) + 1
        /\ Len(found) + 1 \in 1..Len(more)
    BY <1>0
  <2> HIDE DEF more
  <2>2. \A i \in 1..Len(more) : more[i] \notin {{}} \cup dfa.states
    BY <1>5, <2>1 DEF Finds
  <2>3. \A i, j \in 1..Len(more) : more[i] = more[j] => i = j
    BY <1>3, <1>5, <2>1 DEF Finds
  <2>4. ASSUME NEW k \in 1..Len(x)
        PROVE  \/ StepSubset(m, current, x[k]) \in {{}} \cup dfa.states
               \/ \E i \in 1..Len(more) : more[i] = StepSubset(m, current, x[k])
    <3>1. CASE x[k] = a
      BY <2>1, <3>1 DEF t
    <3>2. CASE k \in 1..Len(w) /\ x[k] = w[k]
      <4>1. \/ StepSubset(m, current, w[k]) \in {{}} \cup dfa.states
            \/ \E i \in 1..Len(found) : found[i] = StepSubset(m, current, w[k])
        BY <3>2 DEF Finds
      <4> QED
        BY <2>1, <3>2, <4>1
    <3> QED
      BY <1>2, <3>1, <3>2
  <2>5. Finds(more, dfa.states, m, current, x)
    BY <2>1, <2>2, <2>3, <2>4 DEF Finds
  <2> QED
    BY <1>1, <1>5, <2>5 DEF x, more
<1> QED
  BY <1>4, <1>5

LEMMA DiscoveredFinds ==
  ASSUME NEW m, IsNFA(m), NEW current \in SUBSET Nodes
  PROVE  Finds(Discovered(m, current), dfa.states, m, current, SymbolOrder)
<1> DEFINE D == Seq(SUBSET Nodes)
           next == Discovering(m, current)
           S == {w \in Seq(Symbols) :
                   Finds(Follow(next, <<>>, w), dfa.states, m, current, w)}
<1>0. next \in [D \X Symbols -> D]
  <2> SUFFICES ASSUME NEW p \in D \X Symbols PROVE next[p] \in D
    BY DEF Discovering
  <2>1. StepSubset(m, current, p[2]) \in SUBSET Nodes /\ p[1] \in Seq(SUBSET Nodes)
    BY StepSubsetType
  <2> QED
    BY <2>1 DEF Discovering
<1> HIDE DEF next
<1>1. \A w \in Seq(Symbols) : Followable(D, Symbols, next, <<>>, w)
  BY <1>0 DEF Followable
<1>2. <<>> \in S
  <2>1. <<>> \in Seq(Symbols)
    OBVIOUS
  <2>2. Follow(next, <<>>, <<>>) = <<>>
    BY <1>1, <2>1, FollowEmpty
  <2>3. Finds(<<>>, dfa.states, m, current, <<>>)
    BY DEF Finds
  <2> QED
    BY <2>1, <2>2, <2>3
<1>3. ASSUME NEW w \in Seq(Symbols), NEW a \in Symbols, w \in S PROVE Append(w, a) \in S
  <2> DEFINE x == Append(w, a)
  <2>1. x \in Seq(Symbols) /\ Longer(x, w, a)
    BY AppendIsLonger
  <2>2. Followable(D, Symbols, next, <<>>, w) /\ Followable(D, Symbols, next, <<>>, x)
    BY <1>1, <2>1
  <2>3. Finds(Follow(next, <<>>, w), dfa.states, m, current, w)
    BY <1>3
  <2>4. Finds(next[<<Follow(next, <<>>, w), a>>], dfa.states, m, current, x)
    BY <2>3, FindsMore DEF next
  <2> HIDE DEF x, D
  <2>5. Follow(next, <<>>, x) = Taken(next, Follow(next, <<>>, w), a)
    BY <2>1, <2>2, FollowLonger
  <2>6. Finds(Follow(next, <<>>, x), dfa.states, m, current, x)
    BY <2>4, <2>5 DEF Taken
  <2> QED
    BY <2>1, <2>6 DEF x
<1> HIDE DEF S
<1>4. SymbolOrder \in S
  BY <1>2, <1>3, ConstructionAssumption, WordInduction
<1> QED
  BY <1>4 DEF S, Discovered, next

\* A subset is expanded, or waits in the queue and nothing is known of it.
Expanded(m, q) ==
  /\ \A a \in Symbols : Total(dfa, q, a) = StepSubset(m, q, a)
  /\ q \in dfa.accepting <=> q \cap m.accepting # {}

Waiting(q) ==
  /\ \E i \in 1..Len(queue) : queue[i] = q
  /\ q \notin dfa.accepting
  /\ \A a \in Symbols : <<q, a>> \notin DOMAIN dfa.delta

Fields(d) == DOMAIN d = {"states", "delta", "start", "accepting"}

\* The automaton as far as it is built.
SubsetInv ==
  /\ nfa = {} \/ \E m \in NFAs : nfa = {m}
  /\ dfa.states \subseteq (SUBSET Nodes) \ {{}}
  /\ IsDFA(dfa)
  /\ queue \in Seq(dfa.states)
  /\ \A i, j \in 1..Len(queue) : queue[i] = queue[j] => i = j
  /\ \A m \in nfa :
       /\ dfa.start = Silently(m, {m.start})
       /\ \A q \in dfa.states : Expanded(m, q) \/ Waiting(q)
  /\ phase = "construct" => Fields(dfa)
  /\ phase # "construct" => queue = <<>>

LEMMA NFAsAre == \A m \in NFAs : IsNFA(m)
BY ConstructionAssumption DEF IsNFA

LEMMA InitSubset == ConstructionInit => SubsetInv
<1> SUFFICES ASSUME ConstructionInit PROVE SubsetInv
  OBVIOUS
<1>1. ASSUME NEW m \in NFAs,
             nfa = {m}, phase = "construct",
             dfa = [states |-> {EpsilonClosure(m, {m.start})}, delta |-> <<>>,
                    start |-> EpsilonClosure(m, {m.start}), accepting |-> {}],
             queue = <<EpsilonClosure(m, {m.start})>>
      PROVE  SubsetInv
  <2> DEFINE initial == EpsilonClosure(m, {m.start})
  <2>0. IsNFA(m) /\ {m.start} \in SUBSET Nodes
    BY NFAsAre DEF IsNFA
  <2>1. initial = Silently(m, {m.start})
    BY <2>0, EpsilonClosureIsLeast
  <2>2. initial \in (SUBSET Nodes) \ {{}}
    <3>1. m.start \in initial
      BY <2>0, <2>1 DEF Silently
    <3> QED
      BY <2>1, <3>1 DEF Silently
  <2>3. /\ dfa.states = {initial} /\ dfa.delta = <<>> /\ dfa.start = initial
        /\ dfa.accepting = {} /\ Fields(dfa) /\ queue = <<initial>>
    BY <1>1 DEF Fields
  <2> HIDE DEF initial
  <2>4. IsDFA(dfa)
    BY <2>3 DEF IsDFA, Range
  <2>5. Len(queue) = 1 /\ queue[1] = initial /\ queue \in Seq(dfa.states)
    BY <2>3
  <2>6. DOMAIN dfa.delta = {}
    BY <2>3
  <2>7. Waiting(initial)
    BY <2>3, <2>5, <2>6 DEF Waiting
  <2>8. \A i, j \in 1..Len(queue) : queue[i] = queue[j] => i = j
    BY <2>5
  <2>9. \A l \in nfa : /\ dfa.start = Silently(l, {l.start})
                      /\ \A q \in dfa.states : Expanded(l, q) \/ Waiting(q)
    BY <1>1, <2>1, <2>3, <2>7
  <2> QED
    BY <1>1, <2>2, <2>3, <2>4, <2>5, <2>8, <2>9 DEF SubsetInv
<1>2. CASE nfa = {} /\ dfa \in DFAs /\ queue = <<>> /\ phase = "prune"
  <2>1. dfa.states \subseteq (SUBSET Nodes) \ {{}} /\ IsDFA(dfa)
    BY <1>2, ConstructionAssumption
  <2> QED
    BY <1>2, <2>1 DEF SubsetInv
<1> QED
  BY <1>1, <1>2 DEF ConstructionInit

LEMMA ConstructedSubset ==
  ASSUME SubsetInv, Constructed
  PROVE  SubsetInv'
BY DEF SubsetInv, Constructed, Expanded, Waiting

\* s is r, and f behind it.
Joined(D, r, f, s) ==
  /\ s \in Seq(D)
  /\ Len(r) \in Nat
  /\ \A i \in 1..Len(r) : i \in 1..Len(s) /\ s[i] = r[i]
  /\ \A i \in 1..Len(f) : i + Len(r) \in 1..Len(s) /\ s[i + Len(r)] = f[i]
  /\ \A i \in 1..Len(s) :
       i \in 1..Len(r) \/ (i - Len(r) \in 1..Len(f) /\ i > Len(r))

LEMMA JoinedAre ==
  ASSUME NEW D, NEW r \in Seq(D), NEW f \in Seq(D), NEW s, s = r \o f
  PROVE  Joined(D, r, f, s)
BY DEF Joined

LEMMA ExpandSubsetKeeps ==
  ASSUME SubsetInv, ExpandSubset
  PROVE  SubsetInv'
<1>1. PICK m \in NFAs : nfa = {m}
  BY DEF SubsetInv, ExpandSubset
<1> DEFINE current == Head(queue)
           found == Discovered(m, current)
           rest == Tail(queue)
<1>2. /\ phase = "construct" /\ phase' = "construct" /\ nfa' = {m} /\ queue # <<>>
      /\ queue' = rest \o found
      /\ dfa' = [dfa EXCEPT
           !.states    = @ \cup Range(found),
           !.delta     = Successors(m, current),
           !.accepting = IF current \cap m.accepting # {} THEN @ \cup {current} ELSE @]
  BY <1>1 DEF ExpandSubset
<1>3. /\ IsNFA(m) /\ queue \in Seq(dfa.states) /\ Fields(dfa) /\ IsDFA(dfa)
      /\ dfa.states \subseteq (SUBSET Nodes) \ {{}}
  BY <1>2, NFAsAre DEF SubsetInv
<1>4. /\ current \in dfa.states /\ current = queue[1] /\ Len(queue) \in Nat
      /\ rest \in Seq(dfa.states) /\ Len(rest) = Len(queue) - 1
      /\ \A i \in 1..Len(rest) : rest[i] \in dfa.states
      /\ \A i \in 1..Len(rest) : i + 1 \in 1..Len(queue) /\ rest[i] = queue[i + 1]
      /\ \A i \in 1..Len(queue) : i # 1 => i - 1 \in 1..Len(rest) /\ rest[i - 1] = queue[i]
  BY <1>2, <1>3
<1>5. Finds(found, dfa.states, m, current, SymbolOrder)
  BY <1>3, <1>4, DiscoveredFinds
<1> DEFINE succ == Successors(m, current)
<1>6. /\ dfa'.states = dfa.states \cup Range(found)
      /\ dfa'.delta = succ
      /\ dfa'.start = dfa.start
      /\ dfa'.accepting = IF current \cap m.accepting # {} THEN dfa.accepting \cup {current}
                          ELSE dfa.accepting
      /\ Fields(dfa')
  <2> HIDE DEF found, succ, current
  <2> QED
    BY <1>2, <1>3 DEF Fields, succ
<1> DEFINE fresh == {<<current, a>> : a \in {b \in Symbols : StepSubset(m, current, b) # {}}}
<1>7. /\ DOMAIN succ = fresh \cup DOMAIN dfa.delta
      /\ \A a \in Symbols : <<current, a>> \in fresh =>
           succ[<<current, a>>] = StepSubset(m, current, a)
      /\ \A x \in (DOMAIN dfa.delta) \ fresh : succ[x] = dfa.delta[x]
  BY DEF Successors
<1>8. /\ found \in Seq(SUBSET Nodes) /\ Len(found) \in Nat
      /\ \A S : S \in Range(found) <=> \E i \in 1..Len(found) : found[i] = S
  <2> HIDE DEF found
  <2> QED
    BY <1>5 DEF Finds, Range
<1>9. \A a \in Symbols : StepSubset(m, current, a) \in {{}} \cup dfa.states \cup Range(found)
  <2> SUFFICES ASSUME NEW a \in Symbols
               PROVE  StepSubset(m, current, a) \in {{}} \cup dfa.states \cup Range(found)
    OBVIOUS
  <2>1. PICK k \in 1..Len(SymbolOrder) : SymbolOrder[k] = a
    BY ConstructionAssumption DEF Symbols, Range
  <2> HIDE DEF found
  <2> QED
    BY <1>5, <1>8, <2>1 DEF Finds
<1> HIDE DEF found, current, rest, succ, fresh
<1>11. dfa'.states \subseteq (SUBSET Nodes) \ {{}}
  BY <1>3, <1>5, <1>6, <1>8 DEF Finds
<1>10. /\ fresh \subseteq dfa.states \X Symbols
       /\ \A x \in fresh : \E a \in Symbols : x = <<current, a>>
       /\ \A a \in Symbols : <<current, a>> \in fresh <=> StepSubset(m, current, a) # {}
  BY <1>4 DEF fresh
<1>12. IsDFA(dfa')
  <2>1. DOMAIN dfa'.delta \subseteq dfa'.states \X Symbols
    BY <1>3, <1>6, <1>7, <1>10 DEF IsDFA
  <2>2. \A x \in DOMAIN dfa.delta : dfa.delta[x] \in dfa.states
    BY <1>3 DEF IsDFA, Range
  <2>3. \A x \in fresh : succ[x] \in dfa'.states
    <3> SUFFICES ASSUME NEW x \in fresh PROVE succ[x] \in dfa'.states
      OBVIOUS
    <3>1. PICK a \in Symbols : x = <<current, a>>
      BY <1>10
    <3>2. succ[x] = StepSubset(m, current, a) /\ StepSubset(m, current, a) # {}
      BY <1>7, <1>10, <3>1
    <3> QED
      BY <1>6, <1>9, <3>2
  <2>4. \A x \in DOMAIN dfa'.delta : dfa'.delta[x] \in dfa'.states
    BY <1>6, <1>7, <2>2, <2>3
  <2>5. dfa'.start \in dfa'.states /\ dfa'.accepting \subseteq dfa'.states
    BY <1>3, <1>4, <1>6 DEF IsDFA
  <2> QED
    BY <2>1, <2>4, <2>5 DEF IsDFA, Range
<1>13. /\ queue' \in Seq(dfa'.states)
       /\ Len(rest) \in Nat
       /\ \A i \in 1..Len(rest) : i \in 1..Len(queue') /\ queue'[i] = rest[i]
       /\ \A i \in 1..Len(found) :
            i + Len(rest) \in 1..Len(queue') /\ queue'[i + Len(rest)] = found[i]
       /\ \A i \in 1..Len(queue') :
            i \in 1..Len(rest) \/ (i - Len(rest) \in 1..Len(found) /\ i > Len(rest))
  <2>1. rest \in Seq(dfa'.states)
    BY <1>4, <1>6
  <2>2. found \in Seq(dfa'.states)
    <3>1. \A i \in 1..Len(found) : found[i] \in dfa'.states
      BY <1>6, <1>8
    <3> QED
      BY <1>8, <3>1
  <2>3. Joined(dfa'.states, rest, found, queue')
    BY <1>2, <2>1, <2>2, JoinedAre
  <2> QED
    BY <2>3 DEF Joined
<1>14. \A i, j \in 1..Len(queue') : queue'[i] = queue'[j] => i = j
  <2> SUFFICES ASSUME NEW i \in 1..Len(queue'), NEW j \in 1..Len(queue'), queue'[i] = queue'[j]
               PROVE  i = j
    OBVIOUS
  <2>1. \A k \in 1..Len(queue') :
          \/ k \in 1..Len(rest) /\ queue'[k] = rest[k] /\ queue'[k] \in dfa.states
          \/ /\ k - Len(rest) \in 1..Len(found) /\ queue'[k] = found[k - Len(rest)]
             /\ queue'[k] \notin dfa.states
    <3> SUFFICES ASSUME NEW k \in 1..Len(queue')
        PROVE  \/ k \in 1..Len(rest) /\ queue'[k] = rest[k] /\ queue'[k] \in dfa.states
               \/ /\ k - Len(rest) \in 1..Len(found) /\ queue'[k] = found[k - Len(rest)]
                  /\ queue'[k] \notin dfa.states
      OBVIOUS
    <3>1. CASE k \in 1..Len(rest)
      BY <1>4, <1>13, <3>1
    <3>2. CASE k - Len(rest) \in 1..Len(found)
      <4>1. (k - Len(rest)) + Len(rest) = k
        BY <1>13
      <4>2. queue'[k] = found[k - Len(rest)]
        BY <1>13, <3>2, <4>1
      <4> QED
        BY <1>5, <3>2, <4>2 DEF Finds
    <3> QED
      BY <1>13, <3>1, <3>2
  <2>2. CASE i \in 1..Len(rest) /\ j \in 1..Len(rest)
    <3>0. \A k, l \in 1..Len(queue) : queue[k] = queue[l] => k = l
      BY DEF SubsetInv
    <3>1. rest[i] = rest[j]
      BY <1>13, <2>2
    <3>2. /\ i + 1 \in 1..Len(queue) /\ j + 1 \in 1..Len(queue)
          /\ queue[i + 1] = queue[j + 1]
      BY <1>4, <2>2, <3>1
    <3>3. i + 1 = j + 1
      BY <3>0, <3>2
    <3> QED
      BY <2>2, <3>3
  <2>3. CASE ~(i \in 1..Len(rest) /\ j \in 1..Len(rest))
    <3>1. /\ i - Len(rest) \in 1..Len(found) /\ j - Len(rest) \in 1..Len(found)
          /\ found[i - Len(rest)] = found[j - Len(rest)]
      BY <2>1, <2>3
    <3>2. i - Len(rest) = j - Len(rest)
      BY <1>5, <3>1 DEF Finds
    <3> QED
      BY <1>13, <3>2
  <2> QED
    BY <2>2, <2>3
<1>15. \A q \in dfa'.states : Expanded(m, q)' \/ Waiting(q)'
  <2> SUFFICES ASSUME NEW q \in dfa'.states PROVE Expanded(m, q)' \/ Waiting(q)'
    OBVIOUS
  <2>1. \A p, a : p # current =>
          /\ <<p, a>> \in DOMAIN dfa'.delta <=> <<p, a>> \in DOMAIN dfa.delta
          /\ <<p, a>> \in DOMAIN dfa.delta => dfa'.delta[<<p, a>>] = dfa.delta[<<p, a>>]
    BY <1>6, <1>7, <1>10
  <2>2. CASE q \notin dfa.states
    <3>1. PICK i \in 1..Len(found) : found[i] = q
      BY <1>6, <1>8, <2>2
    <3>2. q # current /\ q \notin dfa'.accepting
      BY <1>3, <1>4, <1>6, <2>2 DEF IsDFA
    <3>3. \A a \in Symbols : <<q, a>> \notin DOMAIN dfa'.delta
      BY <1>3, <2>1, <2>2, <3>2 DEF IsDFA
    <3>4. \E k \in 1..Len(queue') : queue'[k] = q
      BY <1>13, <3>1
    <3> QED
      BY <3>2, <3>3, <3>4 DEF Waiting
  <2>3. CASE q \in dfa.states /\ q # current
    <3>1. q \in dfa'.accepting <=> q \in dfa.accepting
      BY <1>6, <2>3
    <3>2. \A a \in Symbols : Total(dfa', q, a) = Total(dfa, q, a)
      BY <2>1, <2>3 DEF Total
    <3>3. CASE Expanded(m, q)
      <4>1. \A a \in Symbols : Total(dfa', q, a) = StepSubset(m, q, a)
        BY <3>2, <3>3 DEF Expanded
      <4> QED
        BY <3>1, <3>3, <4>1 DEF Expanded
    <3>4. CASE Waiting(q)
      <4>1. PICK i \in 1..Len(queue) : queue[i] = q
        BY <3>4 DEF Waiting
      <4>2. i - 1 \in 1..Len(rest) /\ rest[i - 1] = q
        BY <1>4, <2>3, <4>1
      <4>3. \E k \in 1..Len(queue') : queue'[k] = q
        BY <1>13, <4>2
      <4> QED
        BY <2>1, <2>3, <3>1, <3>4, <4>3 DEF Waiting
    <3> QED
      BY <1>1, <2>3, <3>3, <3>4 DEF SubsetInv
  <2>4. CASE q = current
    <3>1. Expanded(m, current) \/ Waiting(current)
      BY <1>1, <1>4 DEF SubsetInv
    <3>2. current \in dfa'.accepting <=> current \cap m.accepting # {}
      BY <1>6, <3>1 DEF Expanded, Waiting
    <3>3. ASSUME NEW a \in Symbols PROVE Total(dfa', current, a) = StepSubset(m, current, a)
      <4>1. CASE StepSubset(m, current, a) # {}
        <5>1. <<current, a>> \in fresh
          BY <4>1 DEF fresh
        <5> QED
          BY <1>6, <1>7, <5>1 DEF Total
      <4>2. CASE StepSubset(m, current, a) = {}
        <5>1. <<current, a>> \notin fresh
          BY <1>10, <4>2
        <5>2. <<current, a>> \in DOMAIN dfa.delta => dfa.delta[<<current, a>>] = {}
          BY <3>1, <4>2 DEF Expanded, Waiting, Total
        <5> QED
          BY <1>6, <1>7, <4>2, <5>1, <5>2 DEF Total, Sink
      <4> QED
        BY <4>1, <4>2
    <3> QED
      BY <2>4, <3>2, <3>3 DEF Expanded
  <2> QED
    BY <2>2, <2>3, <2>4
<1>16. dfa'.start = Silently(m, {m.start})
  BY <1>1, <1>6 DEF SubsetInv
<1> QED
  BY <1>1, <1>2, <1>6, <1>11, <1>12, <1>13, <1>14, <1>15, <1>16 DEF SubsetInv

LEMMA NextSubset ==
  ASSUME SubsetInv, [Next]_vars
  PROVE  SubsetInv'
<1>1. CASE ExpandSubset
  BY <1>1, ExpandSubsetKeeps
<1>2. CASE Constructed
  BY <1>2, ConstructedSubset
<1>3. ASSUME UNCHANGED <<nfa, dfa, queue>>, phase' = phase \/ "construct" \notin {phase, phase'}
      PROVE  SubsetInv'
  <2>1. \A m, q : (Expanded(m, q)' <=> Expanded(m, q)) /\ (Waiting(q)' <=> Waiting(q))
    BY <1>3 DEF Expanded, Waiting
  <2>2. /\ nfa' = {} \/ \E m \in NFAs : nfa' = {m}
        /\ dfa'.states \subseteq (SUBSET Nodes) \ {{}}
        /\ IsDFA(dfa')
        /\ queue' \in Seq(dfa'.states)
        /\ \A i, j \in 1..Len(queue') : queue'[i] = queue'[j] => i = j
    BY <1>3 DEF SubsetInv
  <2>3. /\ phase' = "construct" => Fields(dfa')
        /\ phase' # "construct" => queue' = <<>>
    BY <1>3 DEF SubsetInv
  <2>4. \A m \in nfa' : /\ dfa'.start = Silently(m, {m.start})
                       /\ \A q \in dfa'.states : Expanded(m, q)' \/ Waiting(q)'
    BY <1>3, <2>1 DEF SubsetInv
  <2> QED
    BY <2>2, <2>3, <2>4 DEF SubsetInv
<1>4. CASE UNCHANGED vars
  BY <1>3, <1>4 DEF vars, constructionVars
<1>5. CASE Prune \/ NothingAccepted \/ StartRefinement \/ PopSplitter \/ Split \/ Quotient
  <2>1. /\ UNCHANGED <<nfa, dfa, queue>>
        /\ phase \in {"prune", "refine"} /\ phase' \in {"refine", "done"}
    BY <1>5 DEF Prune, NothingAccepted, StartRefinement, PopSplitter, Split, Quotient,
                Stable, constructionVars
  <2> QED
    BY <1>3, <2>1
<1> QED
  BY <1>1, <1>2, <1>4, <1>5 DEF Next

LEMMA TotalType ==
  ASSUME NEW d, IsDFA(d)
  PROVE  /\ TotalTransitions(d) \in [(d.states \cup {Sink}) \X Symbols -> d.states \cup {Sink}]
         /\ \A p \in d.states \cup {Sink}, a \in Symbols :
              TotalTransitions(d)[<<p, a>>] = Total(d, p, a) /\ Total(d, p, a) \in d.states \cup {Sink}
<1>1. \A p \in DOMAIN d.delta : d.delta[p] \in d.states
  BY DEF IsDFA, Range
<1>2. \A p, a : Total(d, p, a) \in d.states \cup {Sink}
  BY <1>1 DEF Total
<1> QED
  BY <1>2 DEF TotalTransitions

LEMMA SubsetsFollow == SubsetInv => SubsetsFollowRuns
<1> SUFFICES ASSUME SubsetInv PROVE SubsetsFollowRuns
  OBVIOUS
<1>1. IsInjective(queue)
  <2>1. DOMAIN queue = 1..Len(queue)
    BY DEF SubsetInv
  <2> QED
    BY <2>1 DEF IsInjective, SubsetInv
<1>2. ASSUME phase # "construct", NEW m \in nfa, NEW w \in Words
      PROVE  /\ Run(dfa, dfa.start, w) = Nondeterministically(m, w)
             /\ Accepts(dfa, w) <=> Nondeterministically(m, w) \cap m.accepting # {}
  <2> DEFINE D == dfa.states \cup {Sink}
             R == {<<p, p>> : p \in D}
             next == TotalTransitions(dfa)
             other == Possibly(m)
             start == dfa.start
  <2>1. /\ IsNFA(m) /\ IsDFA(dfa) /\ w \in Seq(Symbols)
        /\ dfa.states \subseteq (SUBSET Nodes) \ {{}}
        /\ start = Silently(m, {m.start})
        /\ \A q \in dfa.states : Expanded(m, q)
    <3>1. m \in NFAs /\ queue = <<>>
      BY <1>2 DEF SubsetInv
    <3>0. \A q : ~Waiting(q)
      BY <3>1 DEF Waiting
    <3>2. \A q \in dfa.states : Expanded(m, q)
      BY <3>0 DEF SubsetInv
    <3> QED
      BY <3>1, <3>2, NFAsAre, ConstructionAssumption DEF SubsetInv
  <2>2. next \in [D \X Symbols -> D] /\ start \in D
    BY <2>1, TotalType DEF IsDFA
  <2>3. other \in [(SUBSET Nodes) \X Symbols -> SUBSET Nodes] /\ start \in SUBSET Nodes
    BY <2>1, PossiblyType DEF IsDFA
  <2>4. ASSUME NEW p \in D, NEW a \in Symbols
        PROVE  /\ next[<<p, a>>] = other[<<p, a>>]
               /\ next[<<p, a>>] \in D
    <3>1. /\ next[<<p, a>>] = Total(dfa, p, a)
          /\ Total(dfa, p, a) \in D
      BY <2>1, TotalType
    <3>2. p \in SUBSET Nodes
      BY <2>1 DEF Sink
    <3>3. /\ other[<<p, a>>] = StepSubset(m, p, a)
          /\ p = {} => StepSubset(m, p, a) = {}
      BY <2>1, <3>2, StepSubsetType
    <3>4. CASE p \in dfa.states
      BY <2>1, <3>1, <3>3, <3>4 DEF Expanded
    <3>5. CASE p = {}
      <4>1. <<p, a>> \notin DOMAIN dfa.delta
        BY <2>1, <3>5 DEF IsDFA
      <4> QED
        BY <3>1, <3>3, <3>5, <4>1 DEF Total, Sink
    <3> QED
      BY <3>4, <3>5 DEF Sink
  <2>5. <<start, start>> \in R
    BY <2>2
  <2>6. Relates(R, D, SUBSET Nodes, Symbols, next, other)
    <3> SUFFICES ASSUME NEW p \in D, NEW q \in SUBSET Nodes, NEW a \in Symbols, <<p, q>> \in R
                 PROVE  <<next[<<p, a>>], other[<<q, a>>]>> \in R
      BY DEF Relates
    <3>1. p = q
      OBVIOUS
    <3> HIDE DEF next, other, D
    <3> QED
      BY <2>4, <3>1
  <2> HIDE DEF R, D, next, other, start
  <2>7. /\ Followable(D, Symbols, next, start, w)
        /\ Followable(SUBSET Nodes, Symbols, other, start, w)
    BY <2>1, <2>2, <2>3 DEF Followable
  <2>8. <<Follow(next, start, w), Follow(other, start, w)>> \in R
    BY <2>5, <2>6, <2>7, FollowTogether
  <2>9. Follow(next, start, w) = Follow(other, start, w) /\ Follow(next, start, w) \in D
    BY <2>8 DEF R
  <2>10. Run(dfa, dfa.start, w) = Nondeterministically(m, w)
    BY <2>1, <2>9 DEF Run, Nondeterministically, next, other, start
  <2>11. ASSUME NEW q \in D PROVE q \in dfa.accepting <=> q \cap m.accepting # {}
    <3>1. CASE q \in dfa.states
      BY <2>1, <3>1 DEF Expanded
    <3>2. CASE q = Sink
      BY <2>1, <3>2 DEF Sink, IsDFA
    <3> QED
      BY <3>1, <3>2 DEF D
  <2>12. Run(dfa, dfa.start, w) \in D
    BY <2>9 DEF Run, next, start
  <2> QED
    BY <2>10, <2>11, <2>12 DEF Accepts
<1> QED
  BY <1>1, <1>2 DEF SubsetsFollowRuns

\* For every NFA and every word: the constructed automaton is, after the word,
\* in exactly the set of nodes that the NFA can be in, and the worklist queues
\* each of these sets once.
THEOREM SubsetConstructionIsExact == Spec => []SubsetsFollowRuns
<1>1. Init => SubsetInv
  BY InitSubset DEF Init
<1>2. SubsetInv /\ [Next]_vars => SubsetInv'
  BY NextSubset
<1> QED
  BY <1>1, <1>2, SubsetsFollow, PTL DEF Spec
-----------------------------------------------------------------------------
\* Reachability: what the searches find is the least set they may find.

ForwardClosed(d, C) == \A p \in DOMAIN d.delta : p[1] \in C => d.delta[p] \in C
BackwardClosed(d, C) == \A p \in DOMAIN d.delta : d.delta[p] \in C => p[1] \in C

IsForward(d, F) ==
  /\ F \subseteq d.states /\ d.start \in F /\ ForwardClosed(d, F)
  /\ \A C \in SUBSET d.states : d.start \in C /\ ForwardClosed(d, C) => F \subseteq C
IsBackward(d, F) ==
  /\ F \subseteq d.states /\ d.accepting \subseteq F /\ BackwardClosed(d, F)
  /\ \A C \in SUBSET d.states : d.accepting \subseteq C /\ BackwardClosed(d, C) => F \subseteq C

LEMMA ReachedByCloses ==
  ASSUME NEW d, IsFiniteSet(d.states), NEW edges, NEW from \in SUBSET d.states,
         \A e \in edges : e[2] \in d.states
  PROVE  LET G == ReachedBy(d, edges, from)
         IN  /\ G \subseteq d.states /\ from \subseteq G
             /\ \A e \in edges : e[1] \in G => e[2] \in G
             /\ \A C \in SUBSET d.states :
                  from \subseteq C /\ (\A e \in edges : e[1] \in C => e[2] \in C) => G \subseteq C
<1> DEFINE more == Followed(d, edges)
           U == d.states
           G == ReachedBy(d, edges, from)
<1>1. more \in [SUBSET U -> SUBSET U]
  BY DEF Followed
<1>2. \A T \in SUBSET U : more[T] = {e[2] : e \in {f \in edges : f[1] \in T}}
  BY DEF Followed
<1>3. G = Grown(more, from, Cardinality(U))
  BY DEF ReachedBy
<1> HIDE DEF more, U, G
<1>4. IsClosure(G, U, more, from)
  BY <1>1, <1>3, GrownCloses DEF U
<1>5. G \in SUBSET U /\ from \subseteq G /\ more[G] \subseteq G
  BY <1>4 DEF IsClosure
<1>6. \A e \in edges : e[1] \in G => e[2] \in G
  BY <1>2, <1>5
<1>7. ASSUME NEW C \in SUBSET U, from \subseteq C, \A e \in edges : e[1] \in C => e[2] \in C
      PROVE  G \subseteq C
  <2>1. \A T \in SUBSET U : T \subseteq C => more[T] \subseteq C
    BY <1>2, <1>7
  <2> QED
    BY <1>4, <1>7, <2>1 DEF IsClosure
<1> QED
  BY <1>5, <1>6, <1>7 DEF G, U

LEMMA ForwardIsLeast ==
  ASSUME NEW d, IsDFA(d), IsFiniteSet(d.states)
  PROVE  IsForward(d, ForwardReachable(d))
<1> DEFINE edges == {<<p[1], d.delta[p]>> : p \in DOMAIN d.delta}
           F == ForwardReachable(d)
<1>1. \A e \in edges : e[2] \in d.states
  BY DEF IsDFA, Range
<1>2. {d.start} \in SUBSET d.states
  BY DEF IsDFA
<1>3. F = ReachedBy(d, edges, {d.start})
  BY DEF ForwardReachable
<1>4. ASSUME NEW C
      PROVE  (\A e \in edges : e[1] \in C => e[2] \in C) <=> ForwardClosed(d, C)
  <2>1. \A p \in DOMAIN d.delta : \E e \in edges : e[1] = p[1] /\ e[2] = d.delta[p]
    <3> SUFFICES ASSUME NEW p \in DOMAIN d.delta
                 PROVE  \E e \in edges : e[1] = p[1] /\ e[2] = d.delta[p]
      OBVIOUS
    <3> WITNESS <<p[1], d.delta[p]>> \in edges
    <3> QED
      OBVIOUS
  <2>2. \A e \in edges : \E p \in DOMAIN d.delta : e[1] = p[1] /\ e[2] = d.delta[p]
    OBVIOUS
  <2> HIDE DEF edges
  <2> QED
    BY <2>1, <2>2 DEF ForwardClosed
<1> HIDE DEF edges, F
<1>5. /\ F \subseteq d.states /\ {d.start} \subseteq F
      /\ \A e \in edges : e[1] \in F => e[2] \in F
      /\ \A C \in SUBSET d.states :
           {d.start} \subseteq C /\ (\A e \in edges : e[1] \in C => e[2] \in C) => F \subseteq C
  BY <1>1, <1>2, <1>3, ReachedByCloses
<1> QED
  BY <1>4, <1>5 DEF IsForward, F

LEMMA BackwardIsLeast ==
  ASSUME NEW d, IsDFA(d), IsFiniteSet(d.states)
  PROVE  IsBackward(d, BackwardReachable(d))
<1> DEFINE edges == {<<d.delta[p], p[1]>> : p \in DOMAIN d.delta}
           F == BackwardReachable(d)
<1>1. \A e \in edges : e[2] \in d.states
  BY DEF IsDFA
<1>2. d.accepting \in SUBSET d.states
  BY DEF IsDFA
<1>3. F = ReachedBy(d, edges, d.accepting)
  BY DEF BackwardReachable
<1>4. ASSUME NEW C
      PROVE  (\A e \in edges : e[1] \in C => e[2] \in C) <=> BackwardClosed(d, C)
  <2>1. \A p \in DOMAIN d.delta : \E e \in edges : e[1] = d.delta[p] /\ e[2] = p[1]
    <3> SUFFICES ASSUME NEW p \in DOMAIN d.delta
                 PROVE  \E e \in edges : e[1] = d.delta[p] /\ e[2] = p[1]
      OBVIOUS
    <3> WITNESS <<d.delta[p], p[1]>> \in edges
    <3> QED
      OBVIOUS
  <2>2. \A e \in edges : \E p \in DOMAIN d.delta : e[1] = d.delta[p] /\ e[2] = p[1]
    OBVIOUS
  <2> HIDE DEF edges
  <2> QED
    BY <2>1, <2>2 DEF BackwardClosed
<1> HIDE DEF edges, F
<1>5. /\ F \subseteq d.states /\ d.accepting \subseteq F
      /\ \A e \in edges : e[1] \in F => e[2] \in F
      /\ \A C \in SUBSET d.states :
           d.accepting \subseteq C /\ (\A e \in edges : e[1] \in C => e[2] \in C) => F \subseteq C
  BY <1>1, <1>2, <1>3, ReachedByCloses
<1> QED
  BY <1>4, <1>5 DEF IsBackward, F

LEMMA StatesAreFinite ==
  ASSUME SubsetInv
  PROVE  IsFiniteSet(dfa.states) /\ IsDFA(dfa) /\ Sink \notin dfa.states
<1>1. IsFiniteSet(SUBSET Nodes)
  BY FS_SUBSET, ConstructionAssumption
<1> QED
  BY <1>1, FS_Subset DEF SubsetInv, Sink

-----------------------------------------------------------------------------
\* The refinement.

SameBlock(B, p, q) == \E b \in B : p \in b /\ q \in b
Separates(S, p, q) == ~(p \in S <=> q \in S)

\* The blocks are a partition of E.
Partitions(B, E) ==
  /\ \A b \in B : b \subseteq E /\ b # {}
  /\ \A q \in E : \E b \in B : q \in b
  /\ \A b, c \in B : \A q \in E : q \in b /\ q \in c => b = c

\* No block mixes accepting states, others and the sink.
Uniform ==
  \A p, q \in Extended :
    SameBlock(blocks, p, q) =>
      /\ p \in SinkBlock <=> q \in SinkBlock
      /\ p \in ActiveAccepting <=> q \in ActiveAccepting

\* What blocks are still to be split by with the symbol a.
Splitters(a) == worklist \cup (IF a \in Range(todo) THEN {splitter} ELSE {})

\* Where successors of a block are in different blocks, a splitter that
\* separates them is still to come.
SplitsRemain ==
  \A p, q \in Extended, a \in Symbols :
    SameBlock(blocks, p, q) =>
      \/ SameBlock(blocks, Total(dfa, p, a), Total(dfa, q, a))
      \/ \E S \in Splitters(a) : Separates(S, Total(dfa, p, a), Total(dfa, q, a))

\* What is pruned is what cannot be reached, and nothing leaves what is left.
PrunedInv ==
  /\ phase \in {"construct", "prune", "refine", "done"}
  /\ phase \in {"refine", "done"} => active = ForwardReachable(dfa)

PartitionInv ==
  blocks # {} => Partitions(blocks, Extended) /\ Uniform /\ SplitsRemain

Inv == SubsetInv /\ IInv /\ PrunedInv /\ PartitionInv

LEMMA ActiveCloses ==
  ASSUME SubsetInv, PrunedInv, phase \in {"refine", "done"}
  PROVE  /\ active \subseteq dfa.states /\ dfa.start \in active
         /\ Sink \notin active
         /\ \A q \in Extended, a \in Symbols : Total(dfa, q, a) \in Extended
         /\ \A a \in Symbols : Total(dfa, Sink, a) = Sink
<1>1. IsForward(dfa, active) /\ IsDFA(dfa) /\ Sink \notin dfa.states
  BY StatesAreFinite, ForwardIsLeast DEF PrunedInv
<1>2. ASSUME NEW q \in active, NEW a \in Symbols PROVE Total(dfa, q, a) \in Extended
  <2>1. CASE <<q, a>> \in DOMAIN dfa.delta
    BY <1>1, <2>1 DEF IsForward, ForwardClosed, Total, Extended
  <2>2. CASE <<q, a>> \notin DOMAIN dfa.delta
    BY <2>2 DEF Total, Extended, SinkBlock
  <2> QED
    BY <2>1, <2>2
<1>3. \A a \in Symbols : Total(dfa, Sink, a) = Sink
  BY <1>1 DEF Total, IsDFA
<1> QED
  BY <1>1, <1>2, <1>3 DEF IsForward, Extended, SinkBlock

LEMMA PrunedKeeps ==
  ASSUME Inv, [Next]_vars
  PROVE  PrunedInv'
<1>1. CASE UNCHANGED vars
  BY <1>1 DEF vars, constructionVars, partitionVars, Inv, PrunedInv
<1>2. CASE (ExpandSubset \/ Constructed) /\ UNCHANGED <<partitionVars, minimal>>
  BY <1>2 DEF ExpandSubset, Constructed, PrunedInv
<1>3. CASE Prune
  BY <1>3 DEF Prune, Active, PrunedInv
<1>4. CASE NothingAccepted \/ Quotient
  BY <1>4 DEF NothingAccepted, Quotient, Stable, partitionVars, Inv, PrunedInv
<1>5. CASE StartRefinement \/ PopSplitter \/ Split
  BY <1>5 DEF StartRefinement, PopSplitter, Split, constructionVars, Inv, PrunedInv
<1> QED
  BY <1>1, <1>2, <1>3, <1>4, <1>5 DEF Next

LEMMA StartPartitions ==
  ASSUME Inv, StartRefinement
  PROVE  PartitionInv'
<1> DEFINE other == active \ ActiveAccepting
<1>1. /\ UNCHANGED <<dfa, active, splitter, todo>>
      /\ phase = "refine"
      /\ ActiveAccepting # {}
      /\ blocks' = {SinkBlock, ActiveAccepting, other} \ {{}}
      /\ worklist' = {SinkBlock, ActiveAccepting}
  BY DEF StartRefinement, FirstSplitters, constructionVars
<1>2. /\ Sink \notin active
      /\ \A q \in Extended, a \in Symbols : Total(dfa, q, a) \in Extended
  BY <1>1, ActiveCloses DEF Inv
<1>3. Extended' = Extended /\ ActiveAccepting' = ActiveAccepting
  BY <1>1 DEF Extended, ActiveAccepting
<1>4. /\ Extended = active \cup SinkBlock /\ SinkBlock \cap active = {}
      /\ ActiveAccepting \subseteq active
      /\ SinkBlock # {}
  BY <1>2 DEF Extended, SinkBlock, ActiveAccepting
<1>5. \A q \in Extended : \E b \in blocks' : q \in b
  <2> SUFFICES ASSUME NEW q \in Extended PROVE \E b \in blocks' : q \in b
    OBVIOUS
  <2>1. PICK b \in {SinkBlock, ActiveAccepting, other} : q \in b
    BY <1>4
  <2> QED
    BY <1>1, <2>1
<1>6. \A b \in blocks' : b \subseteq Extended /\ b # {}
  BY <1>1, <1>4
<1>7. \A b, c \in blocks' : \A q \in Extended : q \in b /\ q \in c => b = c
  BY <1>1, <1>4
<1>8. \A p, q \in Extended :
        SameBlock(blocks', p, q) <=>
          /\ p \in SinkBlock <=> q \in SinkBlock
          /\ p \in ActiveAccepting <=> q \in ActiveAccepting
  BY <1>1, <1>4, <1>5 DEF SameBlock
<1>9. SplitsRemain'
  <2> SUFFICES ASSUME NEW p \in Extended, NEW q \in Extended, NEW a \in Symbols
               PROVE  \/ SameBlock(blocks', Total(dfa, p, a), Total(dfa, q, a))
                      \/ \E S \in Splitters(a)' : Separates(S, Total(dfa, p, a), Total(dfa, q, a))
    BY <1>1, <1>3 DEF SplitsRemain
  <2>1. SinkBlock \in Splitters(a)' /\ ActiveAccepting \in Splitters(a)'
    BY <1>1 DEF Splitters
  <2>2. Total(dfa, p, a) \in Extended /\ Total(dfa, q, a) \in Extended
    BY <1>2
  <2> QED
    BY <1>8, <2>1, <2>2 DEF Separates
<1>10. Partitions(blocks', Extended')
  BY <1>3, <1>5, <1>6, <1>7 DEF Partitions
<1>11. Uniform'
  BY <1>3, <1>8 DEF Uniform
<1> QED
  BY <1>9, <1>10, <1>11 DEF PartitionInv

LEMMA PopPartitions ==
  ASSUME Inv, PopSplitter
  PROVE  PartitionInv'
<1>1. /\ UNCHANGED <<dfa, active, blocks>>
      /\ todo = <<>> /\ todo' = SymbolOrder
      /\ splitter' \in worklist
      /\ worklist' = worklist \ {splitter'}
  BY DEF PopSplitter, WorklistWithout, constructionVars
<1>2. Extended' = Extended /\ ActiveAccepting' = ActiveAccepting
  BY <1>1 DEF Extended, ActiveAccepting
<1>3. ASSUME NEW a \in Symbols PROVE Splitters(a) \subseteq Splitters(a)'
  <2>1. Range(todo) = {}
    BY <1>1 DEF Range
  <2>2. a \in Range(todo')
    BY <1>1 DEF Symbols
  <2> QED
    BY <1>1, <2>1, <2>2 DEF Splitters
<1>4. CASE blocks # {}
  <2>1. SplitsRemain'
    BY <1>1, <1>2, <1>3, <1>4 DEF Inv, PartitionInv, SplitsRemain
  <2>2. Partitions(blocks', Extended') /\ Uniform'
    BY <1>1, <1>2, <1>4 DEF Inv, PartitionInv, Uniform
  <2> QED
    BY <2>1, <2>2 DEF PartitionInv
<1> QED
  BY <1>1, <1>4 DEF PartitionInv

LEMMA SplitPartitions ==
  ASSUME Inv, Split
  PROVE  PartitionInv'
<1> DEFINE a == Head(todo)
           X == Sources(splitter, a)
           split == {Y \in blocks : SplitBy(Y, X)}
<1>1. /\ UNCHANGED <<dfa, active, splitter>>
      /\ phase = "refine" /\ todo # <<>> /\ todo' = Tail(todo)
      /\ blocks' = (blocks \ split) \cup UNION {Halves(Y, X) : Y \in split}
      /\ worklist' = (worklist \ split) \cup UNION {Resplit(Y, X) : Y \in split}
  BY DEF Split, constructionVars
<1>2. /\ a \in Symbols
      /\ \A b : b \in Range(todo) => b = a \/ b \in Range(todo')
  <2>1. todo \in Seq(Symbols) /\ Len(todo) \in Nat /\ DOMAIN todo = 1..Len(todo)
    BY DEF Inv, IInv
  <2>2. \A i \in 1..Len(todo) : i = 1 \/ (i - 1 \in DOMAIN todo' /\ todo'[i - 1] = todo[i])
    BY <1>1, <2>1
  <2>3. a = todo[1] /\ a \in Symbols
    BY <1>1, <2>1
  <2> HIDE DEF a
  <2> QED
    BY <2>1, <2>2, <2>3 DEF Range
<1>3. Extended' = Extended /\ ActiveAccepting' = ActiveAccepting
  BY <1>1 DEF Extended, ActiveAccepting
<1>4. \A p, q \in Extended, b \in Symbols : Total(dfa, p, b) \in Extended
  BY <1>1, ActiveCloses DEF Inv
<1>5. \A p \in Extended : p \in X <=> Total(dfa, p, a) \in splitter
  BY DEF Sources, Extended
<1> HIDE DEF X, a
<1>6. /\ \A Y \in blocks : Y \in split <=> Y \cap X # {} /\ Y \ X # {}
      /\ split \subseteq blocks
  BY DEF SplitBy
<1>7. \A c : c \in blocks' <=> \/ c \in blocks /\ c \notin split
                               \/ \E Y \in split : c \in {Y \cap X, Y \ X}
  BY <1>1 DEF Halves
<1>8. /\ \A S \in worklist : S \notin split => S \in worklist'
      /\ \A Y \in split : /\ Y \cap X \in worklist' \/ Y \ X \in worklist'
                          /\ Y \in worklist => Y \cap X \in worklist' /\ Y \ X \in worklist'
  <2>1. \A S \in worklist : S \notin split => S \in worklist'
    BY <1>1
  <2>2. \A Y \in split : Resplit(Y, X) \subseteq worklist'
    BY <1>1
  <2>3. \A Y : /\ Y \cap X \in Resplit(Y, X) \/ Y \ X \in Resplit(Y, X)
               /\ Y \in worklist => Y \cap X \in Resplit(Y, X) /\ Y \ X \in Resplit(Y, X)
    BY DEF Resplit, Halves
  <2> HIDE DEF split
  <2> QED
    BY <2>1, <2>2, <2>3
<1> HIDE DEF split
<1>9. CASE blocks = {}
  BY <1>6, <1>7, <1>9 DEF PartitionInv
<1>10. CASE blocks # {}
  <2>0. Partitions(blocks, Extended) /\ Uniform /\ SplitsRemain
    BY <1>10 DEF Inv, PartitionInv
\* A block that was split lives on in its halves, any other as it is.
  <2>1. ASSUME NEW p \in Extended, NEW q \in Extended
        PROVE  SameBlock(blocks', p, q) <=> SameBlock(blocks, p, q) /\
                 (\A Y \in split : p \in Y /\ q \in Y => (p \in X <=> q \in X))
    <3>1. ASSUME SameBlock(blocks', p, q)
          PROVE  SameBlock(blocks, p, q) /\
                   (\A Y \in split : p \in Y /\ q \in Y => (p \in X <=> q \in X))
      <4>1. PICK c \in blocks' : p \in c /\ q \in c
        BY <3>1 DEF SameBlock
      <4>2. CASE c \in blocks /\ c \notin split
        BY <1>6, <2>0, <4>1, <4>2 DEF SameBlock, Partitions
      <4>3. CASE \E Y \in split : c \in {Y \cap X, Y \ X}
        <5>1. PICK Y \in split : c \in {Y \cap X, Y \ X}
          BY <4>3
        <5>2. p \in Y /\ q \in Y /\ Y \in blocks /\ (p \in X <=> q \in X)
          BY <1>6, <4>1, <5>1
        <5> QED
          BY <5>2 DEF SameBlock
      <4> QED
        BY <1>7, <4>1, <4>2, <4>3
    <3>2. ASSUME SameBlock(blocks, p, q),
                 \A Y \in split : p \in Y /\ q \in Y => (p \in X <=> q \in X)
          PROVE  SameBlock(blocks', p, q)
      <4>1. PICK c \in blocks : p \in c /\ q \in c
        BY <3>2 DEF SameBlock
      <4>2. CASE c \notin split
        BY <1>7, <4>1, <4>2 DEF SameBlock
      <4>3. CASE c \in split
        <5>1. c \cap X \in blocks' /\ c \ X \in blocks'
          BY <1>7, <4>3
        <5> QED
          BY <3>2, <4>1, <4>3, <5>1 DEF SameBlock
      <4> QED
        BY <4>2, <4>3
    <3> QED
      BY <3>1, <3>2
  <2>2. Partitions(blocks', Extended)
    <3>1. ASSUME NEW c \in blocks' PROVE c \subseteq Extended /\ c # {}
      <4>1. CASE c \in blocks /\ c \notin split
        BY <2>0, <4>1 DEF Partitions
      <4>2. CASE \E Y \in split : c \in {Y \cap X, Y \ X}
        BY <1>6, <2>0, <4>2 DEF Partitions
      <4> QED
        BY <1>7, <4>1, <4>2
    <3>2. ASSUME NEW q \in Extended PROVE \E c \in blocks' : q \in c
      <4>1. SameBlock(blocks, q, q)
        BY <2>0 DEF Partitions, SameBlock
      <4>2. SameBlock(blocks', q, q)
        BY <2>1, <4>1
      <4> QED
        BY <4>2 DEF SameBlock
    <3>3. ASSUME NEW b \in blocks', NEW c \in blocks', NEW q \in Extended, q \in b, q \in c
          PROVE  b = c
      <4>1. PICK B \in blocks : q \in B /\ ((b = B /\ B \notin split) \/ (B \in split /\ b \in {B \cap X, B \ X}))
        BY <1>6, <1>7, <3>3
      <4>2. PICK C \in blocks : q \in C /\ ((c = C /\ C \notin split) \/ (C \in split /\ c \in {C \cap X, C \ X}))
        BY <1>6, <1>7, <3>3
      <4>3. B = C
        BY <2>0, <4>1, <4>2 DEF Partitions
      <4> QED
        BY <3>3, <4>1, <4>2, <4>3
    <3> QED
      BY <3>1, <3>2, <3>3 DEF Partitions
  <2>3. Uniform'
    BY <1>3, <2>0, <2>1 DEF Uniform
  <2>4. SplitsRemain'
    <3> SUFFICES ASSUME NEW p \in Extended, NEW q \in Extended, NEW b \in Symbols,
                        SameBlock(blocks', p, q),
                        ~SameBlock(blocks', Total(dfa, p, b), Total(dfa, q, b))
                 PROVE  \E S \in Splitters(b)' : Separates(S, Total(dfa, p, b), Total(dfa, q, b))
      BY <1>1, <1>3 DEF SplitsRemain
    <3> DEFINE x == Total(dfa, p, b)
               y == Total(dfa, q, b)
    <3>0. x \in Extended /\ y \in Extended
      BY <1>4
    <3>1. SameBlock(blocks, p, q)
      BY <2>1
    <3>2. \A S \in worklist' : S \in Splitters(b)'
      BY DEF Splitters
    <3>3. CASE SameBlock(blocks, x, y)
      <4>1. PICK Y \in split : x \in Y /\ y \in Y /\ ~(x \in X <=> y \in X)
        BY <2>1, <3>0, <3>3
      <4>2. Separates(Y \cap X, x, y) /\ Separates(Y \ X, x, y)
        BY <4>1 DEF Separates
      <4> QED
        BY <1>8, <3>2, <4>1, <4>2
    <3>4. CASE ~SameBlock(blocks, x, y)
      <4>1. PICK S \in Splitters(b) : Separates(S, x, y)
        BY <2>0, <3>1, <3>4 DEF SplitsRemain
      <4>2. CASE S \in worklist /\ S \notin split
        BY <1>8, <3>2, <4>1, <4>2
      <4>3. CASE S \in worklist /\ S \in split
        <5>1. S \cap X \in worklist' /\ S \ X \in worklist'
          BY <1>8, <4>3
        <5>2. Separates(S \cap X, x, y) \/ Separates(S \ X, x, y)
          BY <4>1 DEF Separates
        <5> QED
          BY <3>2, <5>1, <5>2
      <4>4. CASE S = splitter /\ b \in Range(todo)
        <5>1. CASE b \in Range(todo')
          <6>1. splitter \in Splitters(b)'
            BY <1>1, <5>1 DEF Splitters
          <6> QED
            BY <4>1, <4>4, <6>1
        <5>2. CASE b = a
          <6>1. ~(p \in X <=> q \in X)
            BY <1>5, <4>1, <4>4, <5>2 DEF Separates
          <6>2. PICK Y \in blocks : p \in Y /\ q \in Y
            BY <3>1 DEF SameBlock
          <6>3. Y \in split
            BY <1>6, <6>1, <6>2
          <6> QED
            BY <2>1, <6>1, <6>2, <6>3
        <5> QED
          BY <1>2, <4>4, <5>1, <5>2
      <4> QED
        BY <4>1, <4>2, <4>3, <4>4 DEF Splitters
    <3> QED
      BY <3>3, <3>4
  <2> QED
    BY <1>3, <2>2, <2>3, <2>4 DEF PartitionInv
<1> QED
  BY <1>9, <1>10

LEMMA InitInv == Init => Inv
<1> SUFFICES ASSUME Init PROVE Inv
  OBVIOUS
<1>1. PrunedInv
  BY DEF Init, ConstructionInit, PrunedInv
<1>2. PartitionInv
  BY DEF Init, PartitionInv
<1>3. SubsetInv
  BY InitSubset DEF Init
<1> QED
  BY <1>1, <1>2, <1>3, InitIInv DEF Inv

LEMMA NextInv ==
  ASSUME Inv, [Next]_vars
  PROVE  Inv'
<1>1. SubsetInv' /\ IInv' /\ PrunedInv'
  BY NextSubset, NextIInv, PrunedKeeps DEF Inv
<1>2. CASE StartRefinement
  BY <1>1, <1>2, StartPartitions DEF Inv
<1>3. CASE PopSplitter
  BY <1>1, <1>3, PopPartitions DEF Inv
<1>4. CASE Split
  BY <1>1, <1>4, SplitPartitions DEF Inv
<1>5. ASSUME blocks' = {}
      PROVE  Inv'
  BY <1>1, <1>5 DEF Inv, PartitionInv
<1>6. CASE ((ExpandSubset \/ Constructed) /\ UNCHANGED <<partitionVars, minimal>>) \/ Prune
  <2>1. phase \in {"construct", "prune"} /\ blocks' = blocks
    BY <1>6 DEF ExpandSubset, Constructed, Prune, partitionVars
  <2> QED
    BY <1>5, <2>1 DEF Inv, IInv, NothingYet
<1>7. CASE UNCHANGED vars \/ NothingAccepted \/ Quotient
  <2>1. UNCHANGED <<dfa, active, blocks, worklist, splitter, todo>>
    BY <1>7 DEF vars, constructionVars, partitionVars, NothingAccepted, Quotient
  <2>2. Extended' = Extended /\ ActiveAccepting' = ActiveAccepting
    BY <2>1 DEF Extended, ActiveAccepting
  <2>3. \A a : Splitters(a)' = Splitters(a)
    BY <2>1 DEF Splitters
  <2>4. Uniform' <=> Uniform
    BY <2>1, <2>2 DEF Uniform
  <2>5. SplitsRemain' <=> SplitsRemain
    BY <2>1, <2>2, <2>3 DEF SplitsRemain
  <2>6. PartitionInv'
    BY <2>1, <2>2, <2>4, <2>5 DEF Inv, PartitionInv
  <2> QED
    BY <1>1, <2>6 DEF Inv
<1> QED
  BY <1>2, <1>3, <1>4, <1>6, <1>7 DEF Next

-----------------------------------------------------------------------------
\* When the worklist is empty the blocks are a bisimulation.
LEMMA StableIsBisimulation ==
  ASSUME Inv, blocks # {}, worklist = {}, todo = <<>>
  PROVE  /\ Partitions(blocks, Extended) /\ Uniform
         /\ \A p, q \in Extended, a \in Symbols :
              SameBlock(blocks, p, q) =>
                SameBlock(blocks, Total(dfa, p, a), Total(dfa, q, a))
<1>1. \A a : Splitters(a) = {}
  BY DEF Splitters, Range
<1> QED
  BY <1>1 DEF Inv, PartitionInv, SplitsRemain

\* Runs are typed.
LEMMA RunsAre ==
  ASSUME Inv, NEW q \in dfa.states \cup {Sink}, NEW w \in Seq(Symbols)
  PROVE  /\ Followable(dfa.states \cup {Sink}, Symbols, TotalTransitions(dfa), q, w)
         /\ Run(dfa, q, w) = Follow(TotalTransitions(dfa), q, w)
<1>1. IsDFA(dfa)
  BY DEF Inv, SubsetInv
<1> QED
  BY <1>1, TotalType DEF Followable, Run

\* Active states lead to active states and to the sink.
LEMMA RunsStayActive ==
  ASSUME Inv, phase \in {"refine", "done"}, NEW q \in Extended, NEW w \in Seq(Symbols)
  PROVE  Run(dfa, q, w) \in Extended
<1> DEFINE D == dfa.states \cup {Sink}
           next == TotalTransitions(dfa)
<1>1. /\ q \in D /\ Extended \subseteq D /\ IsDFA(dfa)
      /\ \A p \in Extended, a \in Symbols : Total(dfa, p, a) \in Extended
  BY ActiveCloses DEF Inv, SubsetInv, Extended, SinkBlock
<1>2. \A p \in D, a \in Symbols : next[<<p, a>>] = Total(dfa, p, a)
  BY <1>1, TotalType
<1>3. Followable(D, Symbols, next, q, w) /\ Run(dfa, q, w) = Follow(next, q, w)
  BY <1>1, RunsAre
<1> HIDE DEF D, next
<1>4. \A p \in D, a \in Symbols : p \in Extended => next[<<p, a>>] \in Extended
  BY <1>1, <1>2
<1>5. Follow(next, q, w) \in Extended
  BY <1>3, <1>4, FollowStays
<1> QED
  BY <1>3, <1>5

\* States of one block have the same verdicts.
LEMMA SameBlockSameVerdict ==
  ASSUME Inv, Stable, NEW p \in Extended, NEW q \in Extended, SameBlock(blocks, p, q),
         NEW w \in Seq(Symbols)
  PROVE  Verdict(p, w) = Verdict(q, w)
<1> DEFINE D == dfa.states \cup {Sink}
           next == TotalTransitions(dfa)
           R == {r \in Extended \X Extended : SameBlock(blocks, r[1], r[2])}
<1>0. Inv /\ blocks # {} /\ worklist = {} /\ todo = <<>> /\ phase \in {"refine", "done"}
  BY DEF Stable
<1>1. /\ p \in D /\ q \in D /\ Extended \subseteq D /\ IsDFA(dfa) /\ Sink \notin dfa.states
      /\ \A r \in Extended, a \in Symbols : Total(dfa, r, a) \in Extended
  BY <1>0, ActiveCloses, StatesAreFinite DEF Inv, SubsetInv, Extended, SinkBlock
<1>2. \A r \in D, a \in Symbols : next[<<r, a>>] = Total(dfa, r, a)
  BY <1>1, TotalType
<1>3. /\ Followable(D, Symbols, next, p, w) /\ Run(dfa, p, w) = Follow(next, p, w)
      /\ Followable(D, Symbols, next, q, w) /\ Run(dfa, q, w) = Follow(next, q, w)
  BY <1>1, RunsAre
<1> HIDE DEF D, next
<1>4. /\ Uniform
      /\ \A r, s \in Extended, a \in Symbols :
           SameBlock(blocks, r, s) =>
             SameBlock(blocks, Total(dfa, r, a), Total(dfa, s, a))
  BY <1>0, StableIsBisimulation
<1>5. Relates(R, D, D, Symbols, next, next)
  <2> SUFFICES ASSUME NEW r \in D, NEW s \in D, NEW a \in Symbols, <<r, s>> \in R
               PROVE  <<next[<<r, a>>], next[<<s, a>>]>> \in R
    BY DEF Relates
  <2>1. r \in Extended /\ s \in Extended /\ SameBlock(blocks, r, s)
    OBVIOUS
  <2>2. /\ Total(dfa, r, a) \in Extended /\ Total(dfa, s, a) \in Extended
        /\ SameBlock(blocks, Total(dfa, r, a), Total(dfa, s, a))
    BY <1>1, <1>4, <2>1
  <2> QED
    BY <1>2, <2>2
<1>6. <<p, q>> \in R
  OBVIOUS
<1> HIDE DEF R
<1>7. <<Follow(next, p, w), Follow(next, q, w)>> \in R
  BY <1>3, <1>5, <1>6, FollowTogether
<1> DEFINE t == Run(dfa, p, w)
           u == Run(dfa, q, w)
<1>8. t \in Extended /\ u \in Extended /\ SameBlock(blocks, t, u)
  BY <1>3, <1>7 DEF R
<1>9. Verdict(p, w) = (IF t = Sink THEN "undefined" ELSE IF t \in dfa.accepting THEN "accept" ELSE "reject")
  BY DEF Verdict
<1>10. Verdict(q, w) = (IF u = Sink THEN "undefined" ELSE IF u \in dfa.accepting THEN "accept" ELSE "reject")
  BY DEF Verdict
<1> HIDE DEF t, u
<1>11. /\ t = Sink <=> u = Sink
       /\ t # Sink => (t \in dfa.accepting <=> u \in dfa.accepting)
  BY <1>4, <1>8 DEF Uniform, SinkBlock, ActiveAccepting, Extended
<1> QED
  BY <1>9, <1>10, <1>11

LEMMA VerdictOfEmpty ==
  ASSUME Inv, phase \in {"refine", "done"}, NEW q \in Extended
  PROVE  Verdict(q, <<>>) = IF q = Sink THEN "undefined"
                            ELSE IF q \in dfa.accepting THEN "accept" ELSE "reject"
<1>1. q \in dfa.states \cup {Sink}
  BY ActiveCloses DEF Inv, Extended, SinkBlock
<1> DEFINE e == <<>>
<1>2. e \in Seq(Symbols)
  OBVIOUS
<1>3. /\ Followable(dfa.states \cup {Sink}, Symbols, TotalTransitions(dfa), q, e)
      /\ Run(dfa, q, e) = Follow(TotalTransitions(dfa), q, e)
  BY <1>1, <1>2, RunsAre
<1>4. Run(dfa, q, e) = q
  BY <1>3, FollowEmpty
<1> QED
  BY <1>4 DEF Verdict

LEMMA VerdictOfSuccessor ==
  ASSUME Inv, phase \in {"refine", "done"}, NEW q \in Extended, NEW a \in Symbols,
         NEW w \in Seq(Symbols)
  PROVE  Verdict(Total(dfa, q, a), w) = Verdict(q, <<a>> \o w)
<1> DEFINE D == dfa.states \cup {Sink}
           next == TotalTransitions(dfa)
           t == Total(dfa, q, a)
           x == <<a>> \o w
<1>1. q \in D /\ IsDFA(dfa)
  BY ActiveCloses DEF Inv, SubsetInv, Extended, SinkBlock
<1>2. next[<<q, a>>] = t /\ t \in D
  BY <1>1, TotalType
<1>3. x \in Seq(Symbols)
  OBVIOUS
<1>4. /\ Followable(D, Symbols, next, q, w)
      /\ Run(dfa, t, w) = Follow(next, t, w)
      /\ Run(dfa, q, x) = Follow(next, q, x)
  <2> HIDE DEF t, x
  <2> QED
    BY <1>1, <1>2, <1>3, RunsAre
<1>5. Follow(next, q, x) = Follow(next, next[<<q, a>>], w)
  <2>1. Followable(D, Symbols, next, q, w)
    BY <1>4
  <2> HIDE DEF D, next
  <2> QED
    BY <2>1, FollowCons
<1>6. Run(dfa, t, w) = Run(dfa, q, x)
  <2> HIDE DEF x, D, next
  <2>1. t = next[<<q, a>>]
    BY <1>2
  <2> HIDE DEF t
  <2> QED
    BY <1>4, <1>5, <2>1
<1> HIDE DEF t, x
<1>7. Verdict(t, w) = Verdict(q, x)
  BY <1>6 DEF Verdict
<1> QED
  BY <1>7 DEF t, x

\* States that no word tells apart.
Equivalent ==
  {r \in Extended \X Extended : \A w \in Seq(Symbols) : Verdict(r[1], w) = Verdict(r[2], w)}

LEMMA EquivalenceIsBisimulation ==
  ASSUME Inv, phase \in {"refine", "done"}
  PROVE  Bisimulation(Equivalent)
<1>1. Equivalent \subseteq Extended \X Extended
  BY DEF Equivalent
<1>2. ASSUME NEW p \in Extended, NEW q \in Extended, <<p, q>> \in Equivalent
      PROVE  /\ p \in SinkBlock <=> q \in SinkBlock
             /\ p \in ActiveAccepting <=> q \in ActiveAccepting
             /\ \A a \in Symbols : <<Total(dfa, p, a), Total(dfa, q, a)>> \in Equivalent
  <2>1. \A w \in Seq(Symbols) : Verdict(p, w) = Verdict(q, w)
    BY <1>2 DEF Equivalent
  <2>2. (p = Sink <=> q = Sink) /\ (p # Sink => (p \in dfa.accepting <=> q \in dfa.accepting))
    <3>1. <<>> \in Seq(Symbols)
      OBVIOUS
    <3>2. Verdict(p, <<>>) = Verdict(q, <<>>)
      BY <2>1, <3>1
    <3> QED
      BY <3>2, VerdictOfEmpty
  <2>3. /\ Sink \notin active
        /\ \A r \in Extended, a \in Symbols : Total(dfa, r, a) \in Extended
    BY ActiveCloses DEF Inv
  <2>4. ASSUME NEW a \in Symbols
        PROVE  <<Total(dfa, p, a), Total(dfa, q, a)>> \in Equivalent
    <3>1. ASSUME NEW w \in Seq(Symbols)
          PROVE  Verdict(Total(dfa, p, a), w) = Verdict(Total(dfa, q, a), w)
      <4>1. <<a>> \o w \in Seq(Symbols)
        OBVIOUS
      <4>2. Verdict(p, <<a>> \o w) = Verdict(q, <<a>> \o w)
        BY <2>1, <4>1
      <4> QED
        BY <4>2, VerdictOfSuccessor
    <3> QED
      BY <2>3, <3>1 DEF Equivalent
  <2>5. (p \in SinkBlock <=> q \in SinkBlock) /\ (p \in ActiveAccepting <=> q \in ActiveAccepting)
    BY <2>2, <2>3 DEF SinkBlock, ActiveAccepting, Extended
  <2> QED
    BY <2>4, <2>5
<1> QED
  BY <1>1, <1>2 DEF Bisimulation

LEMMA BlocksAre ==
  ASSUME Inv, Words = Seq(Symbols), Stable
  PROVE  BlocksAreClasses
<1> DEFINE verdicts == Verdicts
<1>1. /\ DOMAIN verdicts = Extended
      /\ \A q \in Extended : verdicts[q] = [w \in Words |-> Verdict(q, w)]
  BY DEF Verdicts, Extended
<1> HIDE DEF verdicts
<1>2. phase \in {"refine", "done"} /\ blocks # {} /\ worklist = {} /\ todo = <<>>
  BY DEF Stable
<1>3. Partitions(blocks, Extended)
  BY <1>2, StableIsBisimulation
<1>4. ASSUME NEW p \in Extended, NEW q \in Extended
      PROVE  verdicts[p] = verdicts[q] <=> \E b \in blocks : {p, q} \subseteq b
  <2>1. (\E b \in blocks : {p, q} \subseteq b) <=> SameBlock(blocks, p, q)
    BY DEF SameBlock
  <2>2. verdicts[p] = verdicts[q] <=> \A w \in Seq(Symbols) : Verdict(p, w) = Verdict(q, w)
    <3> DEFINE f == [w \in Words |-> Verdict(p, w)]
               g == [w \in Words |-> Verdict(q, w)]
    <3>1. f = g <=> \A w \in Words : f[w] = g[w]
      OBVIOUS
    <3>2. \A w \in Words : f[w] = Verdict(p, w) /\ g[w] = Verdict(q, w)
      OBVIOUS
    <3>3. verdicts[p] = f /\ verdicts[q] = g
      BY <1>1
    <3> HIDE DEF f, g
    <3> QED
      BY <3>1, <3>2, <3>3
  <2>3. ASSUME SameBlock(blocks, p, q), NEW w \in Seq(Symbols)
        PROVE  Verdict(p, w) = Verdict(q, w)
    BY <2>3, SameBlockSameVerdict
  <2>4. ASSUME \A w \in Seq(Symbols) : Verdict(p, w) = Verdict(q, w)
        PROVE  SameBlock(blocks, p, q)
    <3>1. <<p, q>> \in Equivalent
      BY <2>4 DEF Equivalent
    <3>2. PICK b \in blocks : p \in b
      BY <1>3 DEF Partitions
    <3>3. Equivalent \in SUBSET (Extended \X Extended) /\ Bisimulation(Equivalent)
      BY <1>2, EquivalenceIsBisimulation DEF Equivalent
    <3>4. Saturated(b, Equivalent)
      BY <3>3 DEF Inv, IInv, NeverSeparated
    <3> QED
      BY <3>1, <3>2, <3>4 DEF Saturated, SameBlock
  <2> QED
    BY <2>1, <2>2, <2>3, <2>4
<1> QED
  BY <1>1, <1>4 DEF BlocksAreClasses, verdicts

LEMMA InvHolds == Spec => []Inv
<1>1. Inv /\ [Next]_vars => Inv'
  BY NextInv
<1> QED
  BY InitInv, <1>1, PTL DEF Spec

\* Hopcroft's refinement is right for every automaton and every order of its
\* worklist: when it is empty, two states are in one block exactly if no word,
\* of any length, tells them apart.
THEOREM RefinementIsExact ==
  ASSUME Words = Seq(Symbols)
  PROVE  Spec => []BlocksAreClasses
<1>1. Inv => BlocksAreClasses
  <2>1. CASE ~Stable
    BY <2>1 DEF BlocksAreClasses
  <2>2. CASE Stable
    BY <2>2, BlocksAre
  <2> QED
    BY <2>1, <2>2
<1> QED
  BY <1>1, InvHolds, PTL

-----------------------------------------------------------------------------
\* The quotient.

\* m has the blocks but for the sink's as its states, and what dfa does of a
\* state m does of its block.
IsQuotient(m) ==
  /\ m.states = blocks \ {SinkBlock}
  /\ m.start = BlockOf(dfa.start)
  /\ m.accepting = {b \in m.states : b \cap ActiveAccepting # {}}
  /\ DOMAIN m.delta \subseteq m.states \X Symbols
  /\ \A q \in active, a \in Symbols :
       /\ <<BlockOf(q), a>> \in DOMAIN m.delta <=> Total(dfa, q, a) # Sink
       /\ Total(dfa, q, a) # Sink => m.delta[<<BlockOf(q), a>>] = BlockOf(Total(dfa, q, a))

\* m is a single state that accepts nothing.
IsRejecting(m) ==
  /\ ActiveAccepting = {}
  /\ \E rep \in active :
       m = [states |-> {{rep}}, delta |-> <<>>, start |-> {rep}, accepting |-> {}]

Refined == phase \in {"refine", "done"} /\ blocks # {} /\ todo = <<>> /\ worklist = {}

DoneInv == phase = "done" => IsRejecting(minimal) \/ (Refined /\ IsQuotient(minimal))

LEMMA BlockOfIs ==
  ASSUME Inv, Refined
  PROVE  /\ \A q \in Extended : BlockOf(q) \in blocks /\ q \in BlockOf(q)
         /\ \A b \in blocks : \A q \in b : q \in Extended /\ BlockOf(q) = b
         /\ BlockOf(Sink) = SinkBlock
         /\ \A q \in active : BlockOf(q) \in blocks \ {SinkBlock}
         /\ \A b \in blocks \ {SinkBlock} : b # {} /\ b \subseteq active
<1>1. Partitions(blocks, Extended) /\ Uniform
  BY StableIsBisimulation DEF Refined
<1>2. \A q \in Extended : BlockOf(q) \in blocks /\ q \in BlockOf(q)
  BY <1>1 DEF Partitions, BlockOf
<1>3. \A b \in blocks : \A q \in b : q \in Extended /\ BlockOf(q) = b
  BY <1>1, <1>2 DEF Partitions
<1>4. Sink \in Extended /\ Sink \notin active /\ Extended = active \cup {Sink} /\ SinkBlock = {Sink}
  BY ActiveCloses DEF Inv, Refined, Extended, SinkBlock
<1>5. \A b \in blocks : Sink \in b => b = SinkBlock
  <2> SUFFICES ASSUME NEW b \in blocks, Sink \in b PROVE b = SinkBlock
    OBVIOUS
  <2>1. \A q \in b : q \in SinkBlock
    BY <1>1, <1>3, <1>4 DEF Uniform, SameBlock
  <2> QED
    BY <1>4, <2>1
<1>6. BlockOf(Sink) = SinkBlock
  BY <1>2, <1>4, <1>5
<1>7. \A q \in active : BlockOf(q) \in blocks \ {SinkBlock}
  BY <1>2, <1>4
<1>8. \A b \in blocks \ {SinkBlock} : b # {} /\ b \subseteq active
  BY <1>1, <1>4, <1>5 DEF Partitions
<1> QED
  BY <1>2, <1>3, <1>6, <1>7, <1>8

LEMMA QuotientIs ==
  ASSUME Inv, Quotient
  PROVE  Refined /\ IsQuotient(minimal')
<1>1. Refined /\ phase = "refine"
  BY DEF Quotient, Stable, Refined
<1> DEFINE kept == blocks \ {SinkBlock}
           leads(sample, b, a) == Total(dfa, sample[b], a)
<1>2. PICK sample \in [kept -> active] :
        /\ \A b \in kept : sample[b] \in b
        /\ minimal' = [states |-> kept,
                       delta |-> [p \in {r \in kept \X Symbols :
                                           Total(dfa, sample[r[1]], r[2]) # Sink}
                                    |-> BlockOf(Total(dfa, sample[p[1]], p[2]))],
                       start |-> BlockOf(dfa.start),
                       accepting |-> {b \in kept : b \cap ActiveAccepting # {}}]
  BY DEF Quotient
<1>3. /\ minimal'.states = kept
      /\ minimal'.start = BlockOf(dfa.start)
      /\ minimal'.accepting = {b \in kept : b \cap ActiveAccepting # {}}
      /\ DOMAIN minimal'.delta = {r \in kept \X Symbols : Total(dfa, sample[r[1]], r[2]) # Sink}
      /\ \A p \in DOMAIN minimal'.delta :
           minimal'.delta[p] = BlockOf(Total(dfa, sample[p[1]], p[2]))
  BY <1>2
<1>4. /\ Uniform
      /\ \A p, q \in Extended, a \in Symbols :
           SameBlock(blocks, p, q) => SameBlock(blocks, Total(dfa, p, a), Total(dfa, q, a))
  BY <1>1, StableIsBisimulation DEF Refined
<1>5. \A q \in Extended, a \in Symbols : Total(dfa, q, a) \in Extended
  BY <1>1, ActiveCloses DEF Inv
<1>6. ASSUME NEW q \in active, NEW a \in Symbols
      PROVE  /\ <<BlockOf(q), a>> \in DOMAIN minimal'.delta <=> Total(dfa, q, a) # Sink
             /\ Total(dfa, q, a) # Sink =>
                  minimal'.delta[<<BlockOf(q), a>>] = BlockOf(Total(dfa, q, a))
  <2> DEFINE b == BlockOf(q)
             s == sample[b]
  <2>1. b \in kept /\ q \in b /\ s \in b /\ b \in blocks /\ s \in Extended /\ q \in Extended
    BY <1>1, <1>2, BlockOfIs DEF Extended
  <2> HIDE DEF b, s
  <2>2. SameBlock(blocks, s, q)
    BY <2>1 DEF SameBlock
  <2>3. SameBlock(blocks, Total(dfa, s, a), Total(dfa, q, a))
    BY <1>4, <2>1, <2>2
  <2>4. BlockOf(Total(dfa, s, a)) = BlockOf(Total(dfa, q, a))
    BY <1>1, <2>3, BlockOfIs DEF SameBlock
  <2>5. Total(dfa, s, a) = Sink <=> Total(dfa, q, a) = Sink
    BY <1>4, <1>5, <2>1, <2>3 DEF Uniform, SinkBlock
  <2>6. <<b, a>> \in DOMAIN minimal'.delta <=> Total(dfa, s, a) # Sink
    BY <1>3, <2>1 DEF s
  <2>7. <<b, a>> \in DOMAIN minimal'.delta => minimal'.delta[<<b, a>>] = BlockOf(Total(dfa, s, a))
    BY <1>3, <2>1 DEF s
  <2> QED
    BY <2>4, <2>5, <2>6, <2>7 DEF b
<1>7. DOMAIN minimal'.delta \subseteq minimal'.states \X Symbols
  BY <1>3
<1> QED
  BY <1>1, <1>3, <1>6, <1>7 DEF IsQuotient

LEMMA NextDone ==
  ASSUME Inv, DoneInv, [Next]_vars
  PROVE  DoneInv'
<1>1. CASE phase' # "done"
  BY <1>1 DEF DoneInv
<1>2. CASE NothingAccepted
  <2>1. /\ ActiveAccepting' = ActiveAccepting /\ active' = active
        /\ ActiveAccepting = {}
        /\ \E rep \in active :
             minimal' = [states |-> {{rep}}, delta |-> <<>>, start |-> {rep}, accepting |-> {}]
    BY <1>2 DEF NothingAccepted, ActiveAccepting, partitionVars
  <2> QED
    BY <2>1 DEF DoneInv, IsRejecting
<1>3. ASSUME UNCHANGED <<dfa, active, blocks>>
      PROVE  /\ \A m : IsQuotient(m)' <=> IsQuotient(m)
             /\ \A m : IsRejecting(m)' <=> IsRejecting(m)
  <2>1. /\ \A q : BlockOf(q)' = BlockOf(q)
        /\ ActiveAccepting' = ActiveAccepting
    BY <1>3 DEF BlockOf, ActiveAccepting
  <2> QED
    BY <1>3, <2>1 DEF IsQuotient, IsRejecting
<1>4. CASE Quotient
  <2>1. /\ UNCHANGED <<dfa, active, blocks, worklist, todo>> /\ phase' = "done"
    BY <1>4 DEF Quotient, partitionVars
  <2>2. Refined /\ IsQuotient(minimal')
    BY <1>4, QuotientIs
  <2>3. Refined'
    BY <2>1, <2>2 DEF Refined
  <2>4. IsQuotient(minimal)'
    BY <1>3, <2>1, <2>2
  <2> QED
    BY <2>3, <2>4 DEF DoneInv
<1>5. CASE UNCHANGED vars
  <2>1. UNCHANGED <<dfa, active, blocks, worklist, todo, phase, minimal>>
    BY <1>5 DEF vars, constructionVars, partitionVars
  <2>2. Refined' <=> Refined
    BY <2>1 DEF Refined
  <2>3. /\ IsQuotient(minimal)' <=> IsQuotient(minimal)
        /\ IsRejecting(minimal)' <=> IsRejecting(minimal)
    BY <1>3, <2>1
  <2> QED
    BY <2>1, <2>2, <2>3 DEF DoneInv
<1>6. CASE ExpandSubset \/ Constructed \/ Prune \/ StartRefinement \/ PopSplitter \/ Split
  <2>1. phase' # "done"
    BY <1>6 DEF ExpandSubset, Constructed, Prune, StartRefinement, PopSplitter, Split,
                constructionVars
  <2> QED
    BY <1>1, <2>1
<1> QED
  BY <1>2, <1>4, <1>5, <1>6 DEF Next

\* What a state becomes; the sink stays the sink.
Becomes(q) == IF q = Sink THEN Sink ELSE BlockOf(q)

LEMMA QuotientFacts ==
  ASSUME Inv, Refined, IsQuotient(minimal)
  PROVE  /\ IsDFA(minimal) /\ IsFiniteSet(minimal.states) /\ Sink \notin minimal.states
         /\ \A q \in Extended : /\ Becomes(q) \in minimal.states \cup {Sink}
                                /\ Becomes(q) = Sink <=> q = Sink
                                /\ Becomes(q) \in minimal.accepting <=> q \in dfa.accepting
         /\ \A q \in Extended, a \in Symbols :
              Total(minimal, Becomes(q), a) = Becomes(Total(dfa, q, a))
<1>1. /\ Sink \notin active /\ active \subseteq dfa.states /\ dfa.start \in active
      /\ Extended = active \cup {Sink} /\ SinkBlock = {Sink}
      /\ \A q \in Extended, a \in Symbols : Total(dfa, q, a) \in Extended
      /\ \A a \in Symbols : Total(dfa, Sink, a) = Sink
  BY ActiveCloses DEF Inv, Refined, Extended, SinkBlock
<1>2. /\ minimal.states = blocks \ {SinkBlock}
      /\ \A b \in minimal.states : b # {} /\ b \subseteq active /\ b \in blocks
      /\ \A q \in active : BlockOf(q) \in minimal.states /\ q \in BlockOf(q)
      /\ \A b \in minimal.states : \A q \in b : q \in active /\ BlockOf(q) = b
  BY <1>1, BlockOfIs DEF IsQuotient
<1>3. Sink \notin minimal.states
  BY <1>2 DEF Sink
<1>4. IsFiniteSet(minimal.states)
  <2>1. IsFiniteSet(SUBSET dfa.states)
    BY StatesAreFinite, FS_SUBSET DEF Inv
  <2>2. minimal.states \in SUBSET SUBSET dfa.states
    BY <1>1, <1>2
  <2> QED
    BY <2>1, <2>2, FS_Subset
<1>5. ASSUME NEW p \in DOMAIN minimal.delta
      PROVE  p \in minimal.states \X Symbols /\ minimal.delta[p] \in minimal.states
  <2>1. PICK b \in minimal.states, a \in Symbols : p = <<b, a>>
    BY DEF IsQuotient
  <2>2. PICK q \in b : TRUE
    BY <1>2
  <2>3. q \in active /\ BlockOf(q) = b
    BY <1>2
  <2>4. /\ Total(dfa, q, a) # Sink
        /\ minimal.delta[p] = BlockOf(Total(dfa, q, a))
    BY <2>1, <2>3 DEF IsQuotient
  <2> QED
    BY <1>1, <1>2, <2>1, <2>3, <2>4
<1>6. IsDFA(minimal)
  <2>1. minimal.start \in minimal.states /\ minimal.accepting \subseteq minimal.states
    BY <1>1, <1>2 DEF IsQuotient
  <2>2. DOMAIN minimal.delta \subseteq minimal.states \X Symbols
    BY <1>5
  <2>3. Range(minimal.delta) \subseteq minimal.states
    BY <1>5 DEF Range
  <2> QED
    BY <2>1, <2>2, <2>3 DEF IsDFA
<1>7. ASSUME NEW q \in Extended
      PROVE  /\ Becomes(q) \in minimal.states \cup {Sink}
             /\ Becomes(q) = Sink <=> q = Sink
             /\ Becomes(q) \in minimal.accepting <=> q \in dfa.accepting
  <2>1. Becomes(q) \in minimal.states \cup {Sink} /\ (Becomes(q) = Sink <=> q = Sink)
    BY <1>1, <1>2, <1>3 DEF Becomes
  <2>2. CASE q = Sink
    <3>1. Sink \notin minimal.accepting /\ Sink \notin dfa.accepting
      BY <1>3, <1>6, StatesAreFinite DEF Inv, IsDFA
    <3> QED
      BY <2>1, <2>2, <3>1
  <2>3. CASE q \in active
    <3>1. Becomes(q) = BlockOf(q)
      BY <1>1, <2>3 DEF Becomes
    <3>2. BlockOf(q) \in minimal.accepting <=> BlockOf(q) \cap ActiveAccepting # {}
      BY <1>2, <2>3 DEF IsQuotient
    <3>3. \A p \in BlockOf(q) : p \in ActiveAccepting <=> q \in ActiveAccepting
      <4>1. Uniform
        BY StableIsBisimulation DEF Refined
      <4> QED
        BY <1>1, <1>2, <2>3, <4>1 DEF Uniform, SameBlock
    <3>4. q \in ActiveAccepting <=> q \in dfa.accepting
      BY <2>3 DEF ActiveAccepting
    <3> QED
      BY <1>2, <2>1, <2>3, <3>1, <3>2, <3>3, <3>4
  <2> QED
    BY <1>1, <2>1, <2>2, <2>3
<1>8. ASSUME NEW q \in Extended, NEW a \in Symbols
      PROVE  Total(minimal, Becomes(q), a) = Becomes(Total(dfa, q, a))
  <2>1. CASE q = Sink
    <3>1. Becomes(q) = Sink /\ Total(dfa, q, a) = Sink
      BY <1>1, <2>1 DEF Becomes
    <3>2. Total(minimal, Sink, a) = Sink
      BY <1>3, <1>5 DEF Total
    <3> QED
      BY <2>1, <3>1, <3>2
  <2>2. CASE q \in active
    <3>1. Becomes(q) = BlockOf(q)
      BY <1>1, <2>2 DEF Becomes
    <3>2. CASE Total(dfa, q, a) = Sink
      <4>1. <<BlockOf(q), a>> \notin DOMAIN minimal.delta
        BY <2>2, <3>2 DEF IsQuotient
      <4>2. Total(minimal, BlockOf(q), a) = Sink
        BY <4>1 DEF Total
      <4> QED
        BY <3>1, <3>2, <4>2 DEF Becomes
    <3>3. CASE Total(dfa, q, a) # Sink
      <4>1. /\ <<BlockOf(q), a>> \in DOMAIN minimal.delta
            /\ minimal.delta[<<BlockOf(q), a>>] = BlockOf(Total(dfa, q, a))
        BY <2>2, <3>3 DEF IsQuotient
      <4>2. Total(minimal, BlockOf(q), a) = BlockOf(Total(dfa, q, a))
        BY <4>1 DEF Total
      <4> QED
        BY <3>1, <3>3, <4>2 DEF Becomes
    <3> QED
      BY <3>2, <3>3
  <2> QED
    BY <1>1, <2>1, <2>2
<1> QED
  BY <1>3, <1>4, <1>6, <1>7, <1>8

LEMMA QuotientRuns ==
  ASSUME Inv, Refined, IsQuotient(minimal), NEW w \in Seq(Symbols)
  PROVE  /\ Run(dfa, dfa.start, w) \in Extended
         /\ Run(minimal, minimal.start, w) = Becomes(Run(dfa, dfa.start, w))
<1> DEFINE D == dfa.states \cup {Sink}
           E == minimal.states \cup {Sink}
           next == TotalTransitions(dfa)
           other == TotalTransitions(minimal)
           R == {<<q, Becomes(q)>> : q \in Extended}
<1>1. /\ IsDFA(dfa) /\ IsDFA(minimal)
      /\ dfa.start \in Extended /\ dfa.start \in D /\ minimal.start \in E
      /\ minimal.start = Becomes(dfa.start)
      /\ \A q \in Extended, a \in Symbols : Total(dfa, q, a) \in Extended
  <2>1. /\ dfa.start \in active /\ Sink \notin active /\ active \subseteq dfa.states
        /\ \A q \in Extended, a \in Symbols : Total(dfa, q, a) \in Extended
    BY ActiveCloses DEF Inv, Refined
  <2>2. IsDFA(dfa) /\ IsDFA(minimal)
    BY QuotientFacts DEF Inv, SubsetInv
  <2> QED
    BY <2>1, <2>2 DEF Extended, Becomes, IsQuotient, IsDFA
<1>2. /\ \A q \in D, a \in Symbols : next[<<q, a>>] = Total(dfa, q, a)
      /\ \A q \in E, a \in Symbols : other[<<q, a>>] = Total(minimal, q, a)
  BY <1>1, TotalType
<1>3. /\ Followable(D, Symbols, next, dfa.start, w)
      /\ Followable(E, Symbols, other, minimal.start, w)
  BY <1>1, TotalType DEF Followable
<1>4. /\ Run(dfa, dfa.start, w) = Follow(next, dfa.start, w)
      /\ Run(minimal, minimal.start, w) = Follow(other, minimal.start, w)
  BY DEF Run
<1> HIDE DEF D, E, next, other
<1>5. <<dfa.start, minimal.start>> \in R
  BY <1>1
<1>6. Relates(R, D, E, Symbols, next, other)
  <2> SUFFICES ASSUME NEW q \in D, NEW r \in E, NEW a \in Symbols, <<q, r>> \in R
               PROVE  <<next[<<q, a>>], other[<<r, a>>]>> \in R
    BY DEF Relates
  <2>1. q \in Extended /\ r = Becomes(q)
    OBVIOUS
  <2>2. other[<<r, a>>] = Becomes(Total(dfa, q, a))
    BY <1>2, <2>1, QuotientFacts
  <2> QED
    BY <1>1, <1>2, <2>1, <2>2
<1> HIDE DEF R
<1>7. <<Follow(next, dfa.start, w), Follow(other, minimal.start, w)>> \in R
  BY <1>3, <1>5, <1>6, FollowTogether
<1> QED
  BY <1>4, <1>7 DEF R

\* A single rejecting state has no transitions.
LEMMA RejectingRuns ==
  ASSUME Inv, phase = "done", IsRejecting(minimal), NEW w \in Seq(Symbols)
  PROVE  /\ ~Accepts(dfa, w) /\ ~Accepts(minimal, w)
         /\ Run(dfa, dfa.start, w) = Sink => Run(minimal, minimal.start, w) = Sink
<1>0. PICK rep \in active :
        minimal = [states |-> {{rep}}, delta |-> <<>>, start |-> {rep}, accepting |-> {}]
  BY DEF IsRejecting
<1>1. /\ minimal.states = {{rep}} /\ minimal.start = {rep} /\ minimal.accepting = {}
      /\ minimal.delta = <<>>
  BY <1>0
<1>2. IsDFA(minimal) /\ \A q, a : Total(minimal, q, a) = Sink
  BY <1>1 DEF IsDFA, Range, Total
<1>3. /\ IsDFA(dfa) /\ dfa.start \in Extended /\ dfa.start # Sink
      /\ Sink \notin dfa.accepting
  BY StatesAreFinite, ActiveCloses DEF Inv, IsDFA, Extended
<1>4. ~Accepts(minimal, w)
  BY <1>1 DEF Accepts
<1>5. ~Accepts(dfa, w)
  <2>1. Run(dfa, dfa.start, w) \in Extended
    BY <1>3, RunsStayActive
  <2> QED
    BY <1>3, <2>1 DEF Accepts, IsRejecting, ActiveAccepting, Extended, SinkBlock
<1> DEFINE D == dfa.states \cup {Sink}
           E == minimal.states \cup {Sink}
           next == TotalTransitions(dfa)
           other == TotalTransitions(minimal)
           R == {r \in D \X E : r[1] = Sink => r[2] = Sink}
<1>6. /\ \A q \in D, a \in Symbols : next[<<q, a>>] \in D
      /\ \A q \in E, a \in Symbols : other[<<q, a>>] = Sink
  <2>1. next \in [D \X Symbols -> D]
    BY <1>3, TotalType
  <2>2. \A q \in E, a \in Symbols : other[<<q, a>>] = Total(minimal, q, a)
    BY <1>2, TotalType
  <2> HIDE DEF D, E, next, other
  <2> QED
    BY <1>2, <2>1, <2>2
<1>7. /\ Followable(D, Symbols, next, dfa.start, w)
      /\ Followable(E, Symbols, other, minimal.start, w)
  BY <1>2, <1>3, TotalType DEF Followable, IsDFA
<1>8. /\ Run(dfa, dfa.start, w) = Follow(next, dfa.start, w)
      /\ Run(minimal, minimal.start, w) = Follow(other, minimal.start, w)
  BY DEF Run
<1>9. <<dfa.start, minimal.start>> \in R
  BY <1>3, <1>7 DEF Followable
<1>10. Sink \in E
  OBVIOUS
<1> HIDE DEF D, E, next, other
<1>11. Relates(R, D, E, Symbols, next, other)
  BY <1>6, <1>10 DEF Relates
<1> HIDE DEF R
<1>12. <<Follow(next, dfa.start, w), Follow(other, minimal.start, w)>> \in R
  BY <1>7, <1>9, <1>11, FollowTogether
<1> QED
  BY <1>4, <1>5, <1>8, <1>12 DEF R

LEMMA LanguageIs == Inv /\ DoneInv => LanguagePreserved
<1> SUFFICES ASSUME Inv, DoneInv, phase = "done", NEW w \in Words
             PROVE  /\ Accepts(minimal, w) <=> Accepts(dfa, w)
                    /\ Run(dfa, dfa.start, w) = Sink => Run(minimal, minimal.start, w) = Sink
  BY DEF LanguagePreserved
<1>0. w \in Seq(Symbols)
  BY ConstructionAssumption
<1>1. CASE IsRejecting(minimal)
  BY <1>0, <1>1, RejectingRuns
<1>2. CASE Refined /\ IsQuotient(minimal)
  <2> DEFINE t == Run(dfa, dfa.start, w)
  <2>1. t \in Extended /\ Run(minimal, minimal.start, w) = Becomes(t)
    BY <1>0, <1>2, QuotientRuns
  <2>2. /\ Becomes(t) = Sink <=> t = Sink
        /\ Becomes(t) \in minimal.accepting <=> t \in dfa.accepting
    <3> HIDE DEF t
    <3> QED
      BY <1>2, <2>1, QuotientFacts
  <2> QED
    BY <2>1, <2>2 DEF Accepts
<1> QED
  BY <1>1, <1>2 DEF DoneInv

\* Reachability in the quotient.
LEMMA QuotientTraps ==
  ASSUME Inv, phase = "done", Refined, IsQuotient(minimal)
  PROVE  /\ UnreachableStates(minimal) = {}
         /\ TrapStates(minimal) = {b \in minimal.states : b \cap TrapStates(dfa) # {}}
<1> DEFINE Fd == ForwardReachable(dfa)
           Fm == ForwardReachable(minimal)
           Bd == BackwardReachable(dfa)
           Bm == BackwardReachable(minimal)
<1>1. /\ IsDFA(dfa) /\ IsFiniteSet(dfa.states) /\ Sink \notin dfa.states
      /\ IsDFA(minimal) /\ IsFiniteSet(minimal.states) /\ Sink \notin minimal.states
  BY StatesAreFinite, QuotientFacts DEF Inv
<1>2. Fd = active
  BY DEF Inv, PrunedInv
<1>3. IsForward(dfa, Fd) /\ IsForward(minimal, Fm) /\ IsBackward(dfa, Bd) /\ IsBackward(minimal, Bm)
  BY <1>1, ForwardIsLeast, BackwardIsLeast
<1>4. /\ minimal.states = blocks \ {SinkBlock}
      /\ \A b \in minimal.states : b # {} /\ \A q \in b : q \in active /\ BlockOf(q) = b
      /\ \A q \in active : BlockOf(q) \in minimal.states /\ q \in BlockOf(q)
      /\ minimal.start = BlockOf(dfa.start)
      /\ minimal.accepting = {b \in minimal.states : b \cap ActiveAccepting # {}}
      /\ dfa.start \in active /\ active \subseteq dfa.states
  <2>1. dfa.start \in active /\ active \subseteq dfa.states
    BY ActiveCloses DEF Inv
  <2>2. /\ \A q \in Extended : BlockOf(q) \in blocks /\ q \in BlockOf(q)
        /\ \A b \in blocks : \A q \in b : q \in Extended /\ BlockOf(q) = b
        /\ \A q \in active : BlockOf(q) \in blocks \ {SinkBlock}
        /\ \A b \in blocks \ {SinkBlock} : b # {} /\ b \subseteq active
    BY BlockOfIs
  <2>3. /\ minimal.states = blocks \ {SinkBlock}
        /\ minimal.start = BlockOf(dfa.start)
        /\ minimal.accepting = {b \in minimal.states : b \cap ActiveAccepting # {}}
    BY DEF IsQuotient
  <2> QED
    BY <2>1, <2>2, <2>3 DEF Extended
<1>5. Uniform
  BY StableIsBisimulation DEF Refined
<1> HIDE DEF Fd, Fm, Bd, Bm
\* A transition of an active state is one of its block, and the other way around.
<1>6. ASSUME NEW p \in DOMAIN dfa.delta, p[1] \in active
      PROVE  /\ dfa.delta[p] \in active /\ p[2] \in Symbols
             /\ <<BlockOf(p[1]), p[2]>> \in DOMAIN minimal.delta
             /\ minimal.delta[<<BlockOf(p[1]), p[2]>>] = BlockOf(dfa.delta[p])
  <2>1. PICK q \in dfa.states, a \in Symbols : p = <<q, a>>
    BY <1>1 DEF IsDFA
  <2>2. q \in active /\ <<q, a>> \in DOMAIN dfa.delta /\ p[1] = q /\ p[2] = a
    BY <1>6, <2>1
  <2>3. Total(dfa, q, a) = dfa.delta[<<q, a>>]
    BY <2>2 DEF Total
  <2>4. dfa.delta[<<q, a>>] \in active
    BY <1>2, <1>3, <2>2 DEF IsForward, ForwardClosed
  <2>5. Total(dfa, q, a) # Sink
    BY <1>1, <1>4, <2>3, <2>4
  <2>6. /\ <<BlockOf(q), a>> \in DOMAIN minimal.delta
        /\ minimal.delta[<<BlockOf(q), a>>] = BlockOf(Total(dfa, q, a))
    BY <2>2, <2>5 DEF IsQuotient
  <2> QED
    BY <2>1, <2>2, <2>3, <2>4, <2>6
<1>7. ASSUME NEW p \in DOMAIN minimal.delta, NEW q \in p[1]
      PROVE  /\ q \in active /\ p[1] \in minimal.states /\ <<q, p[2]>> \in DOMAIN dfa.delta
             /\ dfa.delta[<<q, p[2]>>] \in minimal.delta[p]
  <2>1. PICK b \in minimal.states, a \in Symbols : p = <<b, a>>
    BY DEF IsQuotient
  <2>2. q \in active /\ BlockOf(q) = b /\ p[1] = b /\ p[2] = a
    BY <1>4, <2>1
  <2>3. /\ Total(dfa, q, a) # Sink
        /\ minimal.delta[<<b, a>>] = BlockOf(Total(dfa, q, a))
    BY <2>1, <2>2 DEF IsQuotient
  <2>4. <<q, a>> \in DOMAIN dfa.delta /\ Total(dfa, q, a) = dfa.delta[<<q, a>>]
    BY <2>3 DEF Total
  <2>5. dfa.delta[<<q, a>>] \in active
    BY <1>2, <1>3, <2>2, <2>4 DEF IsForward, ForwardClosed
  <2>6. dfa.delta[<<q, a>>] \in BlockOf(dfa.delta[<<q, a>>])
    BY <1>4, <2>5
  <2> QED
    BY <2>1, <2>2, <2>3, <2>4, <2>6
\* Every block is reached.
<1>8. Fm = minimal.states
  <2> DEFINE C == {q \in active : BlockOf(q) \in Fm}
  <2>1. dfa.start \in C /\ C \in SUBSET dfa.states
    BY <1>3, <1>4 DEF IsForward
  <2>2. ASSUME NEW p \in DOMAIN dfa.delta, p[1] \in C PROVE dfa.delta[p] \in C
    <3>1. p[1] \in active /\ BlockOf(p[1]) \in Fm
      BY <2>2
    <3> DEFINE r == <<BlockOf(p[1]), p[2]>>
    <3>2. /\ dfa.delta[p] \in active
          /\ r \in DOMAIN minimal.delta /\ r[1] = BlockOf(p[1])
          /\ minimal.delta[r] = BlockOf(dfa.delta[p])
      BY <1>6, <3>1
    <3> HIDE DEF r
    <3>3. minimal.delta[r] \in Fm
      BY <1>3, <3>1, <3>2 DEF IsForward, ForwardClosed
    <3> QED
      BY <3>2, <3>3
  <2>3. ForwardClosed(dfa, C)
    BY <2>2 DEF ForwardClosed
  <2> HIDE DEF C
  <2>4. Fd \subseteq C
    BY <1>3, <2>1, <2>3 DEF IsForward
  <2>5. \A b \in minimal.states : b \in Fm
    BY <1>2, <1>4, <2>4 DEF C
  <2> QED
    BY <1>3, <2>5 DEF IsForward
\* A block leads to acceptance if a member does, and then all of them do.
<1>9. \A q \in active : q \in Bd => BlockOf(q) \in Bm
  <2> DEFINE C == {q \in dfa.states : q \in active => BlockOf(q) \in Bm}
  <2>1. dfa.accepting \subseteq C
    <3> SUFFICES ASSUME NEW q \in dfa.accepting, q \in active PROVE BlockOf(q) \in Bm
      BY <1>1 DEF IsDFA
    <3>1. BlockOf(q) \in minimal.accepting
      BY <1>4 DEF ActiveAccepting
    <3> QED
      BY <1>3, <3>1 DEF IsBackward
  <2>2. ASSUME NEW p \in DOMAIN dfa.delta, dfa.delta[p] \in C PROVE p[1] \in C
    <3>0. p[1] \in dfa.states
      BY <1>1 DEF IsDFA
    <3>1. CASE p[1] \notin active
      BY <3>0, <3>1
    <3>2. CASE p[1] \in active
      <4> DEFINE r == <<BlockOf(p[1]), p[2]>>
      <4>1. /\ dfa.delta[p] \in active
            /\ r \in DOMAIN minimal.delta /\ r[1] = BlockOf(p[1])
            /\ minimal.delta[r] = BlockOf(dfa.delta[p])
        BY <1>6, <3>2
      <4> HIDE DEF r
      <4>2. minimal.delta[r] \in Bm
        BY <2>2, <4>1
      <4>3. r[1] \in Bm
        BY <1>3, <4>1, <4>2 DEF IsBackward, BackwardClosed
      <4> QED
        BY <3>0, <4>1, <4>3
    <3> QED
      BY <3>1, <3>2
  <2>3. BackwardClosed(dfa, C) /\ C \in SUBSET dfa.states
    BY <2>2 DEF BackwardClosed
  <2> HIDE DEF C
  <2>4. Bd \subseteq C
    BY <1>3, <2>1, <2>3 DEF IsBackward
  <2> QED
    BY <2>4 DEF C
<1>10. \A b \in Bm : \A q \in b : q \in Bd
  <2> DEFINE C == {b \in minimal.states : \A q \in b : q \in Bd}
  <2>1. minimal.accepting \subseteq C
    <3>1. ASSUME NEW b \in minimal.accepting, NEW q \in b
          PROVE  b \in minimal.states /\ q \in Bd
      <4>1. PICK r \in b : r \in ActiveAccepting
        BY <1>4
      <4>2. b \in minimal.states /\ b \in blocks /\ q \in active /\ r \in active
        BY <1>4, <4>1
      <4>3. q \in ActiveAccepting
        BY <1>5, <4>1, <4>2 DEF Uniform, SameBlock, Extended
      <4> QED
        BY <1>3, <4>2, <4>3 DEF IsBackward, ActiveAccepting
    <3>2. \A b \in minimal.accepting : b \in minimal.states
      BY <1>4
    <3> QED
      BY <3>1, <3>2
  <2>2. ASSUME NEW p \in DOMAIN minimal.delta, minimal.delta[p] \in C PROVE p[1] \in C
    <3>1. p[1] \in minimal.states
      BY <1>1 DEF IsDFA
    <3>2. ASSUME NEW q \in p[1] PROVE q \in Bd
      <4> DEFINE r == <<q, p[2]>>
      <4>1. r \in DOMAIN dfa.delta /\ dfa.delta[r] \in minimal.delta[p] /\ r[1] = q
        BY <1>7
      <4> HIDE DEF r
      <4>2. dfa.delta[r] \in Bd
        BY <2>2, <4>1
      <4> QED
        BY <1>3, <4>1, <4>2 DEF IsBackward, BackwardClosed
    <3> QED
      BY <3>1, <3>2
  <2>3. BackwardClosed(minimal, C) /\ C \in SUBSET minimal.states
    BY <2>2 DEF BackwardClosed
  <2> HIDE DEF C
  <2>4. Bm \subseteq C
    BY <1>3, <2>1, <2>3 DEF IsBackward
  <2> QED
    BY <2>4 DEF C
<1>11. UnreachableStates(minimal) = {}
  BY <1>8 DEF UnreachableStates, Fm
<1>12. TrapStates(minimal) = minimal.states \ Bm /\ TrapStates(dfa) = active \ Bd
  BY <1>2, <1>8 DEF TrapStates, Fm, Bm, Fd, Bd
<1>13. ASSUME NEW b \in minimal.states PROVE b \notin Bm <=> b \cap TrapStates(dfa) # {}
  <2>1. PICK q \in b : TRUE
    BY <1>4
  <2>2. \A r \in b : r \in active /\ BlockOf(r) = b
    BY <1>4
  <2> QED
    BY <1>9, <1>10, <1>12, <2>1, <2>2
<1> QED
  BY <1>11, <1>12, <1>13

LEMMA RejectingTraps ==
  ASSUME Inv, phase = "done", IsRejecting(minimal)
  PROVE  /\ UnreachableStates(minimal) = {}
         /\ TrapStates(minimal) = {b \in minimal.states : b \cap TrapStates(dfa) # {}}
<1>0. PICK rep \in active :
        minimal = [states |-> {{rep}}, delta |-> <<>>, start |-> {rep}, accepting |-> {}]
  BY DEF IsRejecting
<1>1. /\ minimal.states = {{rep}} /\ minimal.start = {rep} /\ minimal.accepting = {}
      /\ minimal.delta = <<>>
  BY <1>0
<1>2. DOMAIN minimal.delta = {}
  BY <1>1
<1>3. IsDFA(minimal) /\ IsFiniteSet(minimal.states)
  <2>1. IsDFA(minimal)
    BY <1>1, <1>2 DEF IsDFA, Range
  <2>2. IsFiniteSet(minimal.states)
    <3>1. \A x : IsFiniteSet({x})
      BY FS_Singleton
    <3>2. IsFiniteSet({{rep}})
      BY <3>1
    <3> QED
      BY <1>1, <3>2
  <2> QED
    BY <2>1, <2>2
<1>4. IsDFA(dfa) /\ IsFiniteSet(dfa.states)
  BY StatesAreFinite DEF Inv
<1> DEFINE Fm == ForwardReachable(minimal)
           Bm == BackwardReachable(minimal)
           Bd == BackwardReachable(dfa)
<1>5. IsForward(minimal, Fm) /\ IsBackward(minimal, Bm) /\ IsBackward(dfa, Bd)
      /\ IsForward(dfa, active)
  BY <1>3, <1>4, ForwardIsLeast, BackwardIsLeast DEF Inv, PrunedInv
<1> HIDE DEF Fm, Bm, Bd
<1>6. Fm = {{rep}}
  BY <1>1, <1>5 DEF IsForward
<1>7. Bm = {}
  <2>1. {} \in SUBSET minimal.states /\ minimal.accepting \subseteq {} /\ BackwardClosed(minimal, {})
    BY <1>1 DEF BackwardClosed
  <2> QED
    BY <1>5, <2>1 DEF IsBackward
\* What leads to acceptance is not active.
<1>8. rep \notin Bd
  <2> DEFINE C == dfa.states \ active
  <2>1. C \in SUBSET dfa.states /\ dfa.accepting \subseteq C
    BY <1>4 DEF IsDFA, IsRejecting, ActiveAccepting
  <2>2. BackwardClosed(dfa, C)
    <3> SUFFICES ASSUME NEW p \in DOMAIN dfa.delta, dfa.delta[p] \in C PROVE p[1] \in C
      BY DEF BackwardClosed
    <3>1. p[1] \in dfa.states
      BY <1>4 DEF IsDFA
    <3> QED
      BY <1>5, <3>1 DEF IsForward, ForwardClosed
  <2> HIDE DEF C
  <2>3. Bd \subseteq C
    BY <1>5, <2>1, <2>2 DEF IsBackward
  <2> QED
    BY <2>3 DEF C
<1>9. TrapStates(dfa) = active \ Bd
  BY DEF TrapStates, Bd, Inv, PrunedInv
<1>10. TrapStates(minimal) = {{rep}}
  BY <1>6, <1>7 DEF TrapStates, Fm, Bm
<1>11. UnreachableStates(minimal) = {}
  BY <1>1, <1>6 DEF UnreachableStates, Fm
<1>12. rep \in TrapStates(dfa)
  BY <1>8, <1>9
<1> QED
  BY <1>1, <1>10, <1>11, <1>12

LEMMA TrapsAre == Inv /\ DoneInv => TrapsPreserved
<1> SUFFICES ASSUME Inv, DoneInv, phase = "done"
             PROVE  /\ UnreachableStates(minimal) = {}
                    /\ TrapStates(minimal) = {b \in minimal.states : b \cap TrapStates(dfa) # {}}
  BY DEF TrapsPreserved
<1> QED
  BY QuotientTraps, RejectingTraps DEF DoneInv

LEMMA DoneInvHolds == Spec => [](Inv /\ DoneInv)
<1>1. Init => Inv /\ DoneInv
  <2>1. Init => DoneInv
    BY DEF Init, ConstructionInit, DoneInv
  <2> QED
    BY <2>1, InitInv
<1>2. Inv /\ DoneInv /\ [Next]_vars => (Inv /\ DoneInv)'
  BY NextInv, NextDone
<1> QED
  BY <1>1, <1>2, PTL DEF Spec

\* The minimal automaton accepts exactly the words that the automaton accepts,
\* and defines no transition that was undefined, whatever splitters were
\* taken: for every automaton and every word.
THEOREM MinimalAcceptsTheSame == Spec => []LanguagePreserved
BY DoneInvHolds, LanguageIs, PTL

\* And its traps are the traps of the automaton: states from which nothing is
\* accepted any more are neither lost in the quotient nor made by it.
THEOREM MinimalKeepsTraps == Spec => []TrapsPreserved
BY DoneInvHolds, TrapsAre, PTL
=============================================================================
