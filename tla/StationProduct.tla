--------------------------- MODULE StationProduct ---------------------------
(***************************************************************************)
(* The lazy product M_S^N x R as composite.py stores it: the session       *)
(* states as a multiset (CompositeState keeps them as a sorted tuple), the *)
(* vehicles' identities gone.  An edge moves one occurrence of its source  *)
(* state (transition_state).                                               *)
(***************************************************************************)
EXTENDS StationRules

CONSTANT SessionCount \* N, the number of sessions of the product, a natural number

VARIABLE count \* how many sessions are in each state

productVars == <<count, occupied, power, grid>>

Init ==
  /\ count = [q \in States |-> IF q = StartState THEN SessionCount ELSE 0]
  /\ ResourceInit

Unit(q, r) == IF q = r THEN 1 ELSE 0

Move(t) ==
  /\ count[t[1]] > 0
  /\ count' = [q \in States |-> count[q] + Unit(q, t[3]) - Unit(q, t[1])]

Successor(t) == Move(t) /\ ResourceTransition(t) /\ StationInvariants'

Next == \E t \in Transitions : Successor(t)

Spec == Init /\ [][Next]_productVars
=============================================================================
