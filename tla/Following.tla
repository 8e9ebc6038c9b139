------------------------------ MODULE Following ------------------------------
(***************************************************************************)
(* Two loops that the program has in many places: a word is followed       *)
(* symbol by symbol, and a set grows round by round until nothing is new.  *)
(***************************************************************************)
EXTENDS Integers, Sequences

\* Where a word leads from base, by next, a function of the place and the
\* symbol (the loop of DFA.accepts).
Follow(next, base, w) ==
  LET ends[i \in 0..Len(w)] == IF i = 0 THEN base ELSE next[<<ends[i - 1], w[i]>>]
  IN  ends[Len(w)]

\* What S has grown to after n rounds, in each of which what more makes of it
\* is added (the worklists of reachability.py and of NFA.epsilon_closure).
Grown(more, S, n) ==
  LET rounds[i \in 0..n] ==
        IF i = 0 THEN S ELSE UNION {T \cup more[T] : T \in {rounds[i - 1]}}
  IN  rounds[n]
=============================================================================
