---------------------------- MODULE Minimization ----------------------------
(***************************************************************************)
(* Hopcroft's algorithm for partial automata (afco/automata/minimize.py,   *)
(* reachability.py), behind the subset construction or on its own: states  *)
(* that are not reachable are pruned, a sink stands in for the undefined   *)
(* transitions, and blocks of states are split until each is stable.  The  *)
(* worklist is a Python set, whose pop and whose order are arbitrary.      *)
(***************************************************************************)
EXTENDS SubsetConstruction

VARIABLES
  active,   \* active_states
  blocks,   \* p_blocks, the partition
  worklist, \* w_blocks, the blocks to split by
  splitter, \* A, the block taken from the worklist
  todo,     \* the symbols it is still to be used with
  minimal   \* the automaton that is returned

partitionVars == <<active, blocks, worklist, splitter, todo>>
vars == <<constructionVars, partitionVars, minimal>>

\* What a relation on states reaches from a set of them.
Followed(d, edges) == [T \in SUBSET d.states |-> {e[2] : e \in {f \in edges : f[1] \in T}}]
ReachedBy(d, edges, from) == Grown(Followed(d, edges), from, Cardinality(d.states))

ForwardReachable(d) == ReachedBy(d, {<<p[1], d.delta[p]>> : p \in DOMAIN d.delta}, {d.start})
BackwardReachable(d) == ReachedBy(d, {<<d.delta[p], p[1]>> : p \in DOMAIN d.delta}, d.accepting)
UnreachableStates(d) == d.states \ ForwardReachable(d)
TrapStates(d) == ForwardReachable(d) \ BackwardReachable(d)

ActiveAccepting == dfa.accepting \cap active
SinkBlock == {Sink}

NoDFA == [states |-> {}, delta |-> <<>>, start |-> Sink, accepting |-> {}]

Init ==
  /\ ConstructionInit
  /\ active = {} /\ blocks = {} /\ worklist = {} /\ splitter = {} /\ todo = <<>>
  /\ minimal = NoDFA

\* A mutant: nothing is pruned.
ActiveAll == dfa.states
Active == ForwardReachable(dfa)

\* What cannot be reached is left out.
Prune ==
  /\ phase = "prune"
  /\ active' = Active
  /\ phase' = "refine"
  /\ UNCHANGED <<nfa, dfa, queue, blocks, worklist, splitter, todo, minimal>>

\* Nothing is accepted: some state of them all, min(..., key=str), is left,
\* without transitions.
NothingAccepted ==
  /\ phase = "refine" /\ blocks = {}
  /\ ActiveAccepting = {}
  /\ \E rep \in active :
       minimal' = [states |-> {{rep}}, delta |-> <<>>, start |-> {rep}, accepting |-> {}]
  /\ phase' = "done"
  /\ UNCHANGED <<nfa, dfa, queue, partitionVars>>

\* The sink and the accepting states: with all but one of the initial blocks
\* in the worklist, the third need not be.
FirstSplitters == {SinkBlock, ActiveAccepting}

StartRefinement ==
  /\ phase = "refine" /\ blocks = {}
  /\ ActiveAccepting # {}
  /\ blocks' = {SinkBlock, ActiveAccepting, active \ ActiveAccepting} \ {{}}
  /\ worklist' = FirstSplitters
  /\ UNCHANGED <<constructionVars, active, splitter, todo, minimal>>

\* A mutant: the splitter is looked at, not popped.
WorklistWithoutNone(A) == worklist
WorklistWithout(A) == worklist \ {A}

PopSplitter ==
  /\ phase = "refine"
  /\ todo = <<>>
  /\ \E A \in worklist :
       /\ splitter' = A
       /\ worklist' = WorklistWithout(A)
  /\ todo' = SymbolOrder
  /\ UNCHANGED <<constructionVars, active, blocks, minimal>>

\* X, the states that a takes into A.
Sources(A, a) == {q \in active \cup SinkBlock : Total(dfa, q, a) \in A}

\* A mutant: a single state is not split off.
SplitByMany(Y, X) == Y \cap X # {} /\ Cardinality(Y \ X) > 1

SplitBy(Y, X) == Y \cap X # {} /\ Y \ X # {}
Halves(Y, X) == {Y \cap X, Y \ X}

\* A mutant: the smaller half is added even if the whole was in the worklist.
ResplitSmaller(Y, X) ==
  {IF Cardinality(Y \cap X) <= Cardinality(Y \ X) THEN Y \cap X ELSE Y \ X}

\* What a split leaves to split by: both halves of a block that was waiting,
\* and of any other the smaller one.
Resplit(Y, X) ==
  IF Y \in worklist THEN Halves(Y, X)
  ELSE {IF Cardinality(Y \cap X) <= Cardinality(Y \ X) THEN Y \cap X ELSE Y \ X}

\* The splitter is used with one symbol on all blocks.
Split ==
  /\ phase = "refine"
  /\ todo # <<>>
  /\ LET X     == Sources(splitter, Head(todo))
         split == {Y \in blocks : SplitBy(Y, X)}
     IN  /\ blocks' = (blocks \ split) \cup UNION {Halves(Y, X) : Y \in split}
         /\ worklist' = (worklist \ split) \cup UNION {Resplit(Y, X) : Y \in split}
  /\ todo' = Tail(todo)
  /\ UNCHANGED <<constructionVars, active, splitter, minimal>>

Stable == phase = "refine" /\ blocks # {} /\ todo = <<>> /\ worklist = {}

BlockOf(q) == CHOOSE b \in blocks : q \in b

\* The quotient: whichever member of a block is taken as its sample.
Quotient ==
  /\ Stable
  /\ LET kept == blocks \ {SinkBlock}
     IN  \E sample \in {f \in [kept -> active] : \A b \in kept : f[b] \in b} :
           minimal' = [states |-> kept,
                       delta |-> [p \in {r \in kept \X Symbols :
                                           Total(dfa, sample[r[1]], r[2]) # Sink}
                                    |-> BlockOf(Total(dfa, sample[p[1]], p[2]))],
                       start |-> BlockOf(dfa.start),
                       accepting |-> {b \in kept : b \cap ActiveAccepting # {}}]
  /\ phase' = "done"
  /\ UNCHANGED <<nfa, dfa, queue, partitionVars>>

Next ==
  \/ ExpandSubset /\ UNCHANGED <<partitionVars, minimal>>
  \/ Constructed /\ UNCHANGED <<partitionVars, minimal>>
  \/ Prune \/ NothingAccepted \/ StartRefinement
  \/ PopSplitter \/ Split \/ Quotient

Spec == Init /\ [][Next]_vars

\* Both algorithms are sequential calls: once begun they go on.
FairSpec == Spec /\ WF_vars(Next)

-----------------------------------------------------------------------------
\* Where a word leads: to acceptance, to rejection, or to no state at all.
Verdict(q, w) ==
  LET t == Run(dfa, q, w)
  IN  IF t = Sink THEN "undefined" ELSE IF t \in dfa.accepting THEN "accept" ELSE "reject"

\* Two states are equivalent if every word has the same verdict from both.
Verdicts == [q \in active \cup SinkBlock |-> [w \in Words |-> Verdict(q, w)]]

\* When the worklist is empty, the blocks are the classes of equivalent states,
\* in whatever order splitters were taken: no split has separated equivalent
\* states, and adding only the smaller half of a block has lost no split.
BlocksAreClasses ==
  Stable =>
    LET verdicts == Verdicts
    IN  \A p, q \in DOMAIN verdicts :
          verdicts[p] = verdicts[q] <=> \E b \in blocks : {p, q} \subseteq b

\* The minimal automaton accepts the words that dfa accepts, and defines no
\* transition that was undefined.
LanguagePreserved ==
  phase = "done" =>
    \A w \in Words :
      /\ Accepts(minimal, w) <=> Accepts(dfa, w)
      /\ Run(dfa, dfa.start, w) = Sink => Run(minimal, minimal.start, w) = Sink

\* The analyses of reachability agree before and after: the minimal automaton
\* has no unreachable state, and its traps are the traps of dfa.
TrapsPreserved ==
  phase = "done" =>
    /\ UnreachableStates(minimal) = {}
    /\ TrapStates(minimal) = {b \in minimal.states : b \cap TrapStates(dfa) # {}}

MinimizationReturns == <>(phase = "done")
=============================================================================
