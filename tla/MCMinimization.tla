--------------------------- MODULE MCMinimization ---------------------------
(***************************************************************************)
(* Small automata: NFAs of two nodes over two symbols and of three nodes   *)
(* over one, with silent transitions; partial DFAs of three states over    *)
(* two symbols and of four over one.                                       *)
(***************************************************************************)
EXTENDS Minimization

MCNodes == 1..4
MCOrder == <<"a", "b">>
MCWords == UNION {[1..n -> {"a", "b"}] : n \in 0..3}

\* The NFAs with given edges: a function of pairs of node and label.
Nondeterministic(edges, finals) ==
  {[delta |-> [p \in MCNodes \X {"a", "b", Epsilon} |->
                 IF p \in DOMAIN f THEN f[p] ELSE {}],
    start |-> 1, accepting |-> F] : f \in edges, F \in finals}

\* Two nodes over two symbols, with silent transitions between them; three
\* nodes over one symbol, with silent transitions around a circle.
MCNFAs ==
  LET silent(f, g) == [p \in DOMAIN f \cup ((DOMAIN g) \X {Epsilon}) |->
                         IF p \in DOMAIN f THEN f[p] ELSE g[p[1]]]
      circle(n) == {g \in [1..n -> SUBSET (1..n)] : \A q \in 1..n : g[q] \subseteq {(q % n) + 1}}
  IN  Nondeterministic({silent(f, g) : f \in [(1..2) \X {"a", "b"} -> SUBSET (1..2)],
                                       g \in circle(2)}, {{2}, {1, 2}})
      \cup
      Nondeterministic({silent(f, g) : f \in [(1..3) \X {"a"} -> SUBSET (1..3)],
                                       g \in circle(3)}, {{3}})

\* The partial DFAs on some states over some symbols.
Partial(nodes, symbols, finals) ==
  {[states |-> {{n} : n \in nodes},
    delta |-> [p \in {<<{r[1]}, r[2]>> : r \in {t \in nodes \X symbols : f[t] # 0}}
                 |-> {f[<<CHOOSE n \in nodes : p[1] = {n}, p[2]>>]}],
    start |-> {1}, accepting |-> {{n} : n \in F}]
     : f \in [nodes \X symbols -> nodes \cup {0}], F \in finals}

MCDFAs ==
  Partial(1..3, {"a", "b"}, {{}, {2}, {1, 2}, {2, 3}})
    \cup Partial(1..4, {"a"}, {{1}, {2}, {1, 2}, {2, 3}})
=============================================================================
