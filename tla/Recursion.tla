------------------------------ MODULE Recursion ------------------------------
(***************************************************************************)
(* Induction over the natural numbers and functions defined by primitive   *)
(* recursion, stated of sets instead of operators, so that they can be     *)
(* cited by name: the other proof modules rest on them wherever the model  *)
(* replays a word, follows a path or counts distances.                     *)
(***************************************************************************)
EXTENDS Following, FiniteSets, TLAPS, WellFoundedInduction, FiniteSetTheorems

\* Every non-empty set of natural numbers has a smallest member.
LEMMA SmallestMember ==
  ASSUME NEW T \in SUBSET Nat, T # {}
  PROVE  \E n \in T : \A m \in T : ~(m < n)
<1>1. IsWellFoundedOn(OpToRel(<, Nat), Nat)
  BY NatLessThanWellFounded
<1>2. \E x \in T : \A y \in T : ~(<<y, x>> \in OpToRel(<, Nat))
  BY <1>1, WFMin
<1> QED
  BY <1>2 DEF OpToRel

\* A set that contains 0 and is closed under the successor holds all of Nat.
LEMMA Induction ==
  ASSUME NEW S, 0 \in S, \A n \in Nat : n \in S => n + 1 \in S
  PROVE  \A n \in Nat : n \in S
<1> SUFFICES ASSUME NEW k \in Nat, k \notin S PROVE FALSE
  OBVIOUS
<1> DEFINE T == {m \in Nat : m \notin S}
<1>1. PICK n \in T : \A m \in T : ~(m < n)
  <2>1. T \in SUBSET Nat /\ T # {}
    OBVIOUS
  <2> HIDE DEF T
  <2> QED
    BY <2>1, SmallestMember
<1>2. n # 0
  BY <1>1
<1>3. n - 1 \in Nat
  BY <1>1, <1>2
<1>4. n - 1 \in S
  BY <1>1, <1>3
<1> QED
  BY <1>1, <1>3, <1>4

-----------------------------------------------------------------------------
\* The values up to n of what starts with base and goes on by step.
Iterates(D, base, step, n) ==
  {g \in [0..n -> D] : g[0] = base /\ \A i \in 1..n : g[i] = step[<<g[i - 1], i>>]}

\* f is what starts with base and goes on by step, on Nat or up to n.
Recurs(f, D, base, step) ==
  f \in [Nat -> D] /\ f[0] = base /\ \A n \in Nat \ {0} : f[n] = step[<<f[n - 1], n>>]
RecursTo(f, D, base, step, n) ==
  f \in [0..n -> D] /\ f[0] = base /\ \A i \in 1..n : f[i] = step[<<f[i - 1], i>>]

LEMMA IteratesAgree ==
  ASSUME NEW D, NEW base, NEW step,
         NEW k \in Nat, NEW l \in Nat, NEW g \in Iterates(D, base, step, k),
         NEW h \in Iterates(D, base, step, l)
  PROVE  \A n \in Nat : n \in 0..k /\ n \in 0..l => g[n] = h[n]
<1> DEFINE S == {n \in Nat : n \in 0..k /\ n \in 0..l => g[n] = h[n]}
<1>1. 0 \in S
  BY DEF Iterates
<1>2. \A n \in Nat : n \in S => n + 1 \in S
  <2> SUFFICES ASSUME NEW n \in Nat, n \in S, n + 1 \in 0..k, n + 1 \in 0..l
               PROVE  g[n + 1] = h[n + 1]
    OBVIOUS
  <2>1. g[n] = h[n]
    OBVIOUS
  <2>2. g[n + 1] = step[<<g[n], n + 1>>]
    <3>1. n + 1 \in 1..k /\ (n + 1) - 1 = n
      OBVIOUS
    <3> QED
      BY <3>1 DEF Iterates
  <2>3. h[n + 1] = step[<<h[n], n + 1>>]
    <3>1. n + 1 \in 1..l /\ (n + 1) - 1 = n
      OBVIOUS
    <3> QED
      BY <3>1 DEF Iterates
  <2> QED
    BY <2>1, <2>2, <2>3
<1> HIDE DEF S
<1>3. \A n \in Nat : n \in S
  BY <1>1, <1>2, Induction
<1> QED
  BY <1>3 DEF S

LEMMA IteratesExist ==
  ASSUME NEW D, NEW base \in D, NEW step \in [D \X Nat -> D]
  PROVE  \A n \in Nat : Iterates(D, base, step, n) # {}
<1> DEFINE S == {n \in Nat : Iterates(D, base, step, n) # {}}
<1>1. 0 \in S
  <2>1. [i \in 0..0 |-> base] \in Iterates(D, base, step, 0)
    BY DEF Iterates
  <2> QED
    BY <2>1
<1>2. \A n \in Nat : n \in S => n + 1 \in S
  <2> SUFFICES ASSUME NEW n \in Nat, n \in S
               PROVE  Iterates(D, base, step, n + 1) # {}
    OBVIOUS
  <2>1. PICK g \in Iterates(D, base, step, n) : TRUE
    OBVIOUS
  <2> DEFINE h == [i \in 0..(n + 1) |-> IF i = n + 1 THEN step[<<g[n], n + 1>>] ELSE g[i]]
  <2>2. g \in [0..n -> D] /\ g[0] = base /\ \A i \in 1..n : g[i] = step[<<g[i - 1], i>>]
    BY DEF Iterates
  <2>3. h \in [0..(n + 1) -> D]
    <3>1. step[<<g[n], n + 1>>] \in D
      BY <2>2
    <3> QED
      BY <2>2, <3>1
  <2>4. h[0] = base
    BY <2>2
  <2>5. \A i \in 1..(n + 1) : h[i] = step[<<h[i - 1], i>>]
    BY <2>2
  <2>6. h \in Iterates(D, base, step, n + 1)
    <3> HIDE DEF h
    <3> QED
      BY <2>3, <2>4, <2>5 DEF Iterates
  <2> QED
    BY <2>6
<1> HIDE DEF S
<1>3. \A n \in Nat : n \in S
  BY <1>1, <1>2, Induction
<1> QED
  BY <1>3 DEF S

\* A function of the natural numbers can be defined by primitive recursion.
LEMMA RecursionExists ==
  ASSUME NEW D, NEW base \in D, NEW step \in [D \X Nat -> D]
  PROVE  \E f : Recurs(f, D, base, step)
<1> DEFINE it(n) == CHOOSE g \in Iterates(D, base, step, n) : TRUE
           f == [n \in Nat |-> it(n)[n]]
<1>1. \A n \in Nat : it(n) \in Iterates(D, base, step, n)
  BY IteratesExist
<1> HIDE DEF it
<1>2. \A n \in Nat : it(n) \in [0..n -> D]
  BY <1>1 DEF Iterates
<1>3. f \in [Nat -> D]
  BY <1>2
<1>4. f[0] = base
  BY <1>1 DEF Iterates
<1>5. ASSUME NEW n \in Nat \ {0} PROVE f[n] = step[<<f[n - 1], n>>]
  <2>1. n - 1 \in Nat /\ n \in 1..n /\ n - 1 \in 0..n /\ n - 1 \in 0..(n - 1)
    BY <1>5
  <2>2. it(n)[n] = step[<<it(n)[n - 1], n>>]
    BY <1>1, <2>1 DEF Iterates
  <2>3. it(n)[n - 1] = it(n - 1)[n - 1]
    BY <1>1, <2>1, IteratesAgree
  <2> QED
    BY <2>1, <2>2, <2>3
<1>6. Recurs(f, D, base, step)
  BY <1>3, <1>4, <1>5 DEF Recurs
<1> QED
  BY <1>6

\* So can a function of the numbers up to N, as the states along a word are.
LEMMA RecursionToExists ==
  ASSUME NEW D, NEW base \in D, NEW N \in Nat, NEW step \in [D \X (1..N) -> D]
  PROVE  \E f : RecursTo(f, D, base, step, N)
<1> DEFINE total == [p \in D \X Nat |-> IF p[2] \in 1..N THEN step[p] ELSE base]
<1>1. total \in [D \X Nat -> D]
  OBVIOUS
<1>2. PICK g : Recurs(g, D, base, total)
  <2> HIDE DEF total
  <2> QED
    BY <1>1, RecursionExists
<1> DEFINE f == [i \in 0..N |-> g[i]]
<1>3. f \in [0..N -> D] /\ f[0] = base
  BY <1>2 DEF Recurs
<1>4. ASSUME NEW n \in 1..N PROVE f[n] = step[<<f[n - 1], n>>]
  <2>1. n \in Nat \ {0} /\ n - 1 \in 0..N /\ n \in 0..N /\ n - 1 \in Nat
    OBVIOUS
  <2>2. g[n] = total[<<g[n - 1], n>>]
    BY <1>2, <2>1 DEF Recurs
  <2>3. total[<<g[n - 1], n>>] = step[<<g[n - 1], n>>]
    BY <1>2, <2>1 DEF Recurs
  <2> QED
    BY <2>1, <2>2, <2>3
<1>5. RecursTo(f, D, base, step, N)
  <2> HIDE DEF f
  <2> QED
    BY <1>3, <1>4 DEF RecursTo
<1> QED
  BY <1>5

\* e is a function on S, whatever its values are.
IsFcnOn(e, S) == e = [i \in S |-> e[i]]

\* A solution of the recursion's equation is typed, although the equation
\* says what it says of the typed values only.
LEMMA RecursToIntro ==
  ASSUME NEW D, NEW base \in D, NEW N \in Nat, NEW step \in [D \X (1..N) -> D],
         NEW e, IsFcnOn(e, 0..N), e[0] = base,
         \A i \in 1..N : e[i - 1] \in D => e[i] = step[<<e[i - 1], i>>]
  PROVE  RecursTo(e, D, base, step, N)
<1> DEFINE S == {n \in Nat : n \in 0..N => e[n] \in D}
<1>1. 0 \in S
  OBVIOUS
<1>2. \A n \in Nat : n \in S => n + 1 \in S
  <2> SUFFICES ASSUME NEW n \in Nat, n \in S, n + 1 \in 0..N
               PROVE  e[n + 1] \in D
    OBVIOUS
  <2>1. n + 1 \in 1..N /\ (n + 1) - 1 = n /\ e[n] \in D
    OBVIOUS
  <2>2. e[n + 1] = step[<<e[n], n + 1>>]
    BY <2>1
  <2> QED
    BY <2>1, <2>2
<1> HIDE DEF S
<1>3. \A n \in Nat : n \in S
  BY <1>1, <1>2, Induction
<1>4. \A n \in 0..N : e[n] \in D
  BY <1>3 DEF S
<1>5. e \in [0..N -> D]
  BY <1>4 DEF IsFcnOn
<1>6. \A i \in 1..N : e[i] = step[<<e[i - 1], i>>]
  <2> SUFFICES ASSUME NEW i \in 1..N PROVE e[i] = step[<<e[i - 1], i>>]
    OBVIOUS
  <2>1. i - 1 \in 0..N
    OBVIOUS
  <2> QED
    BY <1>4, <2>1
<1> QED
  BY <1>5, <1>6 DEF RecursTo

LEMMA RecursIntro ==
  ASSUME NEW D, NEW base \in D, NEW step \in [D \X Nat -> D],
         NEW e, IsFcnOn(e, Nat), e[0] = base,
         \A i \in Nat \ {0} : e[i - 1] \in D => e[i] = step[<<e[i - 1], i>>]
  PROVE  Recurs(e, D, base, step)
<1> DEFINE S == {n \in Nat : e[n] \in D}
<1>1. 0 \in S
  OBVIOUS
<1>2. \A n \in Nat : n \in S => n + 1 \in S
  <2> SUFFICES ASSUME NEW n \in Nat, n \in S
               PROVE  e[n + 1] \in D
    OBVIOUS
  <2>1. n + 1 \in Nat \ {0} /\ (n + 1) - 1 = n /\ e[n] \in D
    OBVIOUS
  <2>2. e[n + 1] = step[<<e[n], n + 1>>]
    BY <2>1
  <2> QED
    BY <2>1, <2>2
<1> HIDE DEF S
<1>3. \A n \in Nat : n \in S
  BY <1>1, <1>2, Induction
<1>4. \A n \in Nat : e[n] \in D
  BY <1>3 DEF S
<1>5. e \in [Nat -> D]
  BY <1>4 DEF IsFcnOn
<1>6. \A i \in Nat \ {0} : e[i] = step[<<e[i - 1], i>>]
  <2> SUFFICES ASSUME NEW i \in Nat \ {0} PROVE e[i] = step[<<e[i - 1], i>>]
    OBVIOUS
  <2>1. i - 1 \in Nat
    OBVIOUS
  <2> QED
    BY <1>4, <2>1
<1> QED
  BY <1>5, <1>6 DEF Recurs

-----------------------------------------------------------------------------
\* The values along a word: base before it, and next after each symbol.
Along(f, D, base, next, w) ==
  /\ f \in [0..Len(w) -> D]
  /\ f[0] = base
  /\ \A i \in 1..Len(w) : f[i] = next[<<f[i - 1], w[i]>>]

LEMMA AlongExists ==
  ASSUME NEW D, NEW base \in D, NEW A, NEW next \in [D \X A -> D], NEW w \in Seq(A)
  PROVE  \E f : Along(f, D, base, next, w)
<1> DEFINE step == [p \in D \X (1..Len(w)) |-> next[<<p[1], w[p[2]]>>]]
<1>1. Len(w) \in Nat /\ step \in [D \X (1..Len(w)) -> D]
  OBVIOUS
<1>2. PICK f : RecursTo(f, D, base, step, Len(w))
  <2> HIDE DEF step
  <2> QED
    BY <1>1, RecursionToExists
<1>3. \A i \in 1..Len(w) : f[i] = next[<<f[i - 1], w[i]>>]
  <2> SUFFICES ASSUME NEW i \in 1..Len(w) PROVE f[i] = next[<<f[i - 1], w[i]>>]
    OBVIOUS
  <2>1. i - 1 \in 0..Len(w)
    BY <1>1
  <2>2. f[i] = step[<<f[i - 1], i>>] /\ f[i - 1] \in D
    <3> HIDE DEF step
    <3> QED
      BY <1>2, <2>1 DEF RecursTo
  <2> QED
    BY <2>2
<1> HIDE DEF step
<1>4. Along(f, D, base, next, w)
  BY <1>2, <1>3 DEF Along, RecursTo
<1> QED
  BY <1>4

LEMMA AlongIntro ==
  ASSUME NEW D, NEW base \in D, NEW A, NEW next \in [D \X A -> D], NEW w \in Seq(A),
         NEW e, IsFcnOn(e, 0..Len(w)), e[0] = base,
         \A i \in 1..Len(w) : e[i - 1] \in D => e[i] = next[<<e[i - 1], w[i]>>]
  PROVE  Along(e, D, base, next, w)
<1> DEFINE step == [p \in D \X (1..Len(w)) |-> next[<<p[1], w[p[2]]>>]]
<1>1. Len(w) \in Nat /\ step \in [D \X (1..Len(w)) -> D]
  OBVIOUS
<1>2. \A i \in 1..Len(w) : e[i - 1] \in D => e[i] = step[<<e[i - 1], i>>]
  OBVIOUS
<1>3. RecursTo(e, D, base, step, Len(w))
  <2> HIDE DEF step
  <2> QED
    BY <1>1, <1>2, RecursToIntro
<1>4. \A i \in 0..Len(w) : e[i] \in D
  BY <1>3 DEF RecursTo
<1>5. \A i \in 1..Len(w) : e[i] = next[<<e[i - 1], w[i]>>]
  <2> SUFFICES ASSUME NEW i \in 1..Len(w) PROVE e[i] = next[<<e[i - 1], w[i]>>]
    OBVIOUS
  <2>1. i - 1 \in 0..Len(w)
    BY <1>1
  <2> QED
    BY <1>4, <2>1
<1> HIDE DEF step
<1> QED
  BY <1>3, <1>5 DEF Along, RecursTo

\* Two words that agree up to n have the same values up to n.
LEMMA AlongAgree ==
  ASSUME NEW D, NEW base, NEW next, NEW w, NEW x, NEW f, NEW g,
         Along(f, D, base, next, w), Along(g, D, base, next, x),
         Len(w) \in Nat, Len(x) \in Nat,
         NEW n \in Nat, n <= Len(w), n <= Len(x), \A i \in 1..n : w[i] = x[i]
  PROVE  \A i \in 0..n : f[i] = g[i]
<1> DEFINE S == {i \in Nat : i \in 0..n => f[i] = g[i]}
<1>1. 0 \in S
  BY DEF Along
<1>2. \A i \in Nat : i \in S => i + 1 \in S
  <2> SUFFICES ASSUME NEW i \in Nat, i \in S, i + 1 \in 0..n
               PROVE  f[i + 1] = g[i + 1]
    OBVIOUS
  <2>1. /\ i + 1 \in 1..n /\ i + 1 \in 1..Len(w) /\ i + 1 \in 1..Len(x)
        /\ (i + 1) - 1 = i /\ f[i] = g[i]
    OBVIOUS
  <2>2. w[i + 1] = x[i + 1]
    BY <2>1
  <2>3. f[i + 1] = next[<<f[i], w[i + 1]>>]
    BY <2>1 DEF Along
  <2>4. g[i + 1] = next[<<g[i], x[i + 1]>>]
    BY <2>1 DEF Along
  <2> QED
    BY <2>1, <2>2, <2>3, <2>4
<1> HIDE DEF S
<1>3. \A i \in Nat : i \in S
  BY <1>1, <1>2, Induction
<1> QED
  BY <1>3 DEF S

\* x is w and one symbol more.
Extends(x, w) ==
  Len(w) \in Nat /\ Len(x) = Len(w) + 1 /\ \A i \in 1..Len(w) : x[i] = w[i]

\* The values g go one step further than f.
Further(g, f, next, x, w) ==
  /\ \A i \in 0..Len(w) : g[i] = f[i]
  /\ g[Len(w) + 1] = next[<<f[Len(w)], x[Len(w) + 1]>>]

\* One symbol more is one step more.
LEMMA AlongLonger ==
  ASSUME NEW D, NEW base, NEW next, NEW w, NEW x, NEW f, NEW g,
         Along(f, D, base, next, w), Along(g, D, base, next, x),
         Extends(x, w)
  PROVE  Further(g, f, next, x, w)
<1> USE DEF Extends
<1>1. \A i \in 0..Len(w) : f[i] = g[i]
  <2>1. /\ Len(w) <= Len(w) /\ Len(w) <= Len(x) /\ Len(x) \in Nat
        /\ \A i \in 1..Len(w) : w[i] = x[i]
    OBVIOUS
  <2> QED
    BY <2>1, AlongAgree
<1>2. Len(w) + 1 \in 1..Len(x) /\ (Len(w) + 1) - 1 = Len(w)
  OBVIOUS
<1>3. g[Len(w) + 1] = next[<<g[Len(w)], x[Len(w) + 1]>>]
  BY <1>2 DEF Along
<1> QED
  BY <1>1, <1>3 DEF Further

-----------------------------------------------------------------------------
\* What holds of the empty word, and of a word with one symbol more, holds of
\* all words.
LEMMA WordInduction ==
  ASSUME NEW A, NEW S, <<>> \in S,
         \A w \in Seq(A), a \in A : w \in S => Append(w, a) \in S
  PROVE  \A w \in Seq(A) : w \in S
<1> DEFINE T == {n \in Nat : \A w \in Seq(A) : Len(w) = n => w \in S}
<1>1. 0 \in T
  <2>1. \A w \in Seq(A) : Len(w) = 0 => w = <<>>
    OBVIOUS
  <2> QED
    BY <2>1
<1>2. \A n \in Nat : n \in T => n + 1 \in T
  <2> SUFFICES ASSUME NEW n \in Nat, n \in T, NEW w \in Seq(A), Len(w) = n + 1
               PROVE  w \in S
    OBVIOUS
  <2> DEFINE v == SubSeq(w, 1, n)
  <2>1. v \in Seq(A) /\ Len(v) = n /\ w[n + 1] \in A
    OBVIOUS
  <2>2. w = Append(v, w[n + 1])
    OBVIOUS
  <2>3. v \in S
    BY <2>1
  <2> QED
    BY <2>1, <2>2, <2>3
<1> HIDE DEF T
<1>3. \A n \in Nat : n \in T
  BY <1>1, <1>2, Induction
<1>4. \A w \in Seq(A) : Len(w) \in Nat
  OBVIOUS
<1> QED
  BY <1>3, <1>4 DEF T

\* A word over A can be followed from base in D.
Followable(D, A, next, base, w) ==
  base \in D /\ next \in [D \X A -> D] /\ w \in Seq(A)

\* Where a word leads is the last value along it.
Ending(f, D, next, base, w) ==
  Along(f, D, base, next, w) /\ Follow(next, base, w) = f[Len(w)]

LEMMA FollowAlong ==
  ASSUME NEW D, NEW A, NEW next, NEW base, NEW w, Followable(D, A, next, base, w)
  PROVE  \E f : Ending(f, D, next, base, w)
<1> DEFINE Solves(e) ==
             e = [i \in 0..Len(w) |-> IF i = 0 THEN base ELSE next[<<e[i - 1], w[i]>>]]
           chosen == CHOOSE e : Solves(e)
<1>0. Len(w) \in Nat /\ base \in D /\ next \in [D \X A -> D] /\ w \in Seq(A)
  BY DEF Followable
<1>1. \E e : Solves(e)
  <2>1. PICK f : Along(f, D, base, next, w)
    BY <1>0, AlongExists
  <2>2. Solves(f)
    BY <1>0, <2>1 DEF Along
  <2> QED
    BY <2>2
<1>2. Solves(chosen)
  BY <1>1
<1>3. Follow(next, base, w) = chosen[Len(w)]
  BY DEF Follow
<1> HIDE DEF chosen
<1>4. Along(chosen, D, base, next, w)
  <2>1. IsFcnOn(chosen, 0..Len(w)) /\ chosen[0] = base
    BY <1>0, <1>2 DEF IsFcnOn
  <2>2. \A i \in 1..Len(w) : chosen[i - 1] \in D => chosen[i] = next[<<chosen[i - 1], w[i]>>]
    BY <1>0, <1>2
  <2> HIDE DEF Solves
  <2> QED
    BY <1>0, <2>1, <2>2, AlongIntro
<1>5. Ending(chosen, D, next, base, w)
  BY <1>3, <1>4 DEF Ending
<1> QED
  BY <1>5

LEMMA FollowEmpty ==
  ASSUME NEW D, NEW A, NEW next, NEW base, Followable(D, A, next, base, <<>>)
  PROVE  Follow(next, base, <<>>) = base
<1>1. PICK f : Ending(f, D, next, base, <<>>)
  BY FollowAlong
<1> QED
  BY <1>1 DEF Along, Ending

\* Where next leads by a, for the provers: an application left unexpanded.
Taken(next, p, a) == next[<<p, a>>]

\* x is w and the symbol a behind it.
Longer(x, w, a) == Extends(x, w) /\ x[Len(w) + 1] = a

LEMMA AppendIsLonger ==
  ASSUME NEW A, NEW w \in Seq(A), NEW a \in A
  PROVE  Append(w, a) \in Seq(A) /\ Longer(Append(w, a), w, a)
BY DEF Longer, Extends

LEMMA FollowLonger ==
  ASSUME NEW D, NEW A, NEW next, NEW base, NEW w, NEW x, NEW a,
         Followable(D, A, next, base, w), Followable(D, A, next, base, x), Longer(x, w, a)
  PROVE  /\ Follow(next, base, w) \in D
         /\ Follow(next, base, x) = Taken(next, Follow(next, base, w), a)
<1>0. Extends(x, w) /\ x[Len(w) + 1] = a /\ Len(w) \in 0..Len(w) /\ Len(x) = Len(w) + 1
  BY DEF Extends, Longer
<1>1. PICK f : Ending(f, D, next, base, w)
  BY FollowAlong
<1>2. PICK g : Ending(g, D, next, base, x)
  BY FollowAlong
<1>3. Along(f, D, base, next, w) /\ Along(g, D, base, next, x)
  BY <1>1, <1>2 DEF Ending
<1>4. g[Len(w) + 1] = next[<<f[Len(w)], x[Len(w) + 1]>>]
  <2>1. Further(g, f, next, x, w)
    BY <1>0, <1>3, AlongLonger
  <2> QED
    BY <2>1 DEF Further
<1>5. f[Len(w)] \in D
  BY <1>0, <1>3 DEF Along
<1> QED
  BY <1>0, <1>1, <1>2, <1>4, <1>5 DEF Ending, Taken

-----------------------------------------------------------------------------
\* Two words that are followed side by side, from places that are related to
\* places that are related.
Relates(R, D, E, A, next, other) ==
  \A p \in D, q \in E, a \in A :
    <<p, q>> \in R => <<next[<<p, a>>], other[<<q, a>>]>> \in R

LEMMA FollowTogether ==
  ASSUME NEW D, NEW E, NEW A, NEW next, NEW other, NEW base, NEW start, NEW v, NEW R,
         Followable(D, A, next, base, v), Followable(E, A, other, start, v),
         <<base, start>> \in R, Relates(R, D, E, A, next, other)
  PROVE  <<Follow(next, base, v), Follow(other, start, v)>> \in R
<1> DEFINE S == {w \in Seq(A) : <<Follow(next, base, w), Follow(other, start, w)>> \in R}
<1>0. \A w \in Seq(A) : Followable(D, A, next, base, w) /\ Followable(E, A, other, start, w)
  BY DEF Followable
<1>1. <<>> \in S
  <2>1. <<>> \in Seq(A)
    OBVIOUS
  <2>2. Follow(next, base, <<>>) = base
    BY <1>0, <2>1, FollowEmpty
  <2>3. Follow(other, start, <<>>) = start
    BY <1>0, <2>1, FollowEmpty
  <2> QED
    BY <2>1, <2>2, <2>3
<1>2. ASSUME NEW w \in Seq(A), NEW a \in A, w \in S PROVE Append(w, a) \in S
  <2> DEFINE x == Append(w, a)
  <2>0. x \in Seq(A) /\ Longer(x, w, a)
    BY AppendIsLonger
  <2> HIDE DEF x
  <2>1. /\ Followable(D, A, next, base, w) /\ Followable(E, A, other, start, w)
        /\ Followable(D, A, next, base, x) /\ Followable(E, A, other, start, x)
    BY <1>0, <2>0
  <2>2. /\ Follow(next, base, w) \in D
        /\ Follow(next, base, x) = Taken(next, Follow(next, base, w), a)
    BY <2>0, <2>1, FollowLonger
  <2>3. /\ Follow(other, start, w) \in E
        /\ Follow(other, start, x) = Taken(other, Follow(other, start, w), a)
    BY <2>0, <2>1, FollowLonger
  <2>4. x \in S
    BY <1>2, <2>0, <2>2, <2>3 DEF Relates, Taken
  <2> QED
    BY <2>4 DEF x
<1>3. v \in Seq(A)
  BY DEF Followable
<1> HIDE DEF S
<1>4. v \in S
  BY <1>1, <1>2, <1>3, WordInduction
<1> QED
  BY <1>4 DEF S

\* A set that is not left holds wherever words lead.
LEMMA FollowStays ==
  ASSUME NEW D, NEW A, NEW next, NEW base, NEW w, NEW S, Followable(D, A, next, base, w),
         base \in S, \A p \in D, a \in A : p \in S => next[<<p, a>>] \in S
  PROVE  Follow(next, base, w) \in S
<1> DEFINE R == S \X S
<1>1. <<base, base>> \in R
  OBVIOUS
<1>2. Relates(R, D, D, A, next, next)
  BY DEF Relates
<1> HIDE DEF R
<1>3. <<Follow(next, base, w), Follow(next, base, w)>> \in R
  BY <1>1, <1>2, FollowTogether
<1> QED
  BY <1>3 DEF R

\* The first symbol may be taken apart.
LEMMA FollowCons ==
  ASSUME NEW D, NEW A, NEW next, NEW base, NEW v, NEW a \in A, Followable(D, A, next, base, v)
  PROVE  /\ Followable(D, A, next, next[<<base, a>>], v)
         /\ Followable(D, A, next, base, <<a>> \o v)
         /\ Follow(next, base, <<a>> \o v) = Follow(next, next[<<base, a>>], v)
<1> DEFINE one == next[<<base, a>>]
           S == {w \in Seq(A) : Follow(next, base, <<a>> \o w) = Follow(next, one, w)}
<1>0. \A w \in Seq(A) : /\ Followable(D, A, next, base, w)
                        /\ Followable(D, A, next, one, w)
                        /\ Followable(D, A, next, base, <<a>> \o w)
  BY DEF Followable
<1> HIDE DEF one
<1>1. <<>> \in S
  <2> DEFINE x == <<a>> \o <<>>
             e == <<>>
  <2>1. e \in Seq(A) /\ x \in Seq(A) /\ Longer(x, e, a)
    BY DEF Longer, Extends
  <2>2. Followable(D, A, next, one, e)
    BY <1>0, <2>1
  <2>3. Follow(next, one, e) = one
    BY <2>2, FollowEmpty
  <2>4. Follow(next, base, e) = base
    BY <1>0, <2>1, FollowEmpty
  <2>5. Followable(D, A, next, base, x) /\ Followable(D, A, next, base, e)
    BY <1>0, <2>1
  <2> HIDE DEF x, e
  <2>6. Follow(next, base, x) = Taken(next, Follow(next, base, e), a)
    BY <2>1, <2>5, FollowLonger
  <2>7. Follow(next, base, x) = Follow(next, one, e)
    BY <2>3, <2>4, <2>6 DEF one, Taken
  <2> QED
    BY <2>1, <2>7 DEF x, e
<1>2. ASSUME NEW w \in Seq(A), NEW b \in A, w \in S PROVE Append(w, b) \in S
  <2> DEFINE x == Append(w, b)
             u == <<a>> \o w
             y == <<a>> \o x
  <2>1. x \in Seq(A) /\ Longer(x, w, b)
    BY AppendIsLonger
  <2>2. u \in Seq(A) /\ y = Append(u, b)
    OBVIOUS
  <2>3. y \in Seq(A) /\ Longer(y, u, b)
    <3> HIDE DEF u, y
    <3> QED
      BY <2>2, AppendIsLonger
  <2>4. /\ Followable(D, A, next, one, w) /\ Followable(D, A, next, one, x)
        /\ Followable(D, A, next, base, u) /\ Followable(D, A, next, base, y)
    BY <1>0, <2>1
  <2>5. Follow(next, base, u) = Follow(next, one, w)
    BY <1>2
  <2> HIDE DEF x, u, y
  <2>6. Follow(next, base, y) = Taken(next, Follow(next, base, u), b)
    BY <2>3, <2>4, FollowLonger
  <2>7. Follow(next, one, x) = Taken(next, Follow(next, one, w), b)
    BY <2>1, <2>4, FollowLonger
  <2>8. Follow(next, base, y) = Follow(next, one, x)
    BY <2>5, <2>6, <2>7
  <2> QED
    BY <2>1, <2>8 DEF x, y
<1>3. v \in Seq(A)
  BY DEF Followable
<1> HIDE DEF S
<1>4. v \in S
  BY <1>1, <1>2, <1>3, WordInduction
<1> QED
  BY <1>0, <1>3, <1>4 DEF S, one

-----------------------------------------------------------------------------
\* What a set grows to.

\* G holds S and what more makes of it, and nothing that need not be in there.
IsClosure(G, U, more, S) ==
  /\ G \in SUBSET U
  /\ S \subseteq G
  /\ more[G] \subseteq G
  /\ \A C \in SUBSET U :
       S \subseteq C /\ (\A T \in SUBSET U : T \subseteq C => more[T] \subseteq C)
         => G \subseteq C

\* After as many rounds as there are elements nothing is new: a round that
\* finds something makes the set larger.
LEMMA GrownCloses ==
  ASSUME NEW U, IsFiniteSet(U), NEW more \in [SUBSET U -> SUBSET U], NEW S \in SUBSET U
  PROVE  IsClosure(Grown(more, S, Cardinality(U)), U, more, S)
<1> DEFINE N == Cardinality(U)
           Solves(e) == e = [i \in 0..N |->
             IF i = 0 THEN S ELSE UNION {T \cup more[T] : T \in {e[i - 1]}}]
           chosen == CHOOSE e : Solves(e)
           step == [p \in (SUBSET U) \X (1..N) |-> p[1] \cup more[p[1]]]
<1>0. N \in Nat
  BY FS_CardinalityType
<1>1. step \in [(SUBSET U) \X (1..N) -> SUBSET U]
  OBVIOUS
<1>2. \A X : UNION {T \cup more[T] : T \in {X}} = X \cup more[X]
  OBVIOUS
<1> HIDE DEF N
<1>3. \E e : Solves(e)
  <2>1. PICK f : RecursTo(f, SUBSET U, S, step, N)
    <3> HIDE DEF step
    <3> QED
      BY <1>0, <1>1, RecursionToExists
  <2>2. \A i \in 1..N : f[i] = f[i - 1] \cup more[f[i - 1]]
    <3> SUFFICES ASSUME NEW i \in 1..N PROVE f[i] = f[i - 1] \cup more[f[i - 1]]
      OBVIOUS
    <3>1. i - 1 \in 0..N
      BY <1>0
    <3>2. f[i - 1] \in SUBSET U /\ f[i] = step[<<f[i - 1], i>>]
      <4> HIDE DEF step
      <4> QED
        BY <2>1, <3>1 DEF RecursTo
    <3> QED
      BY <3>2
  <2>3. Solves(f)
    <3> HIDE DEF step
    <3> QED
      BY <1>0, <1>2, <2>1, <2>2 DEF RecursTo
  <2> QED
    BY <2>3
<1>4. Solves(chosen)
  BY <1>3
<1>5. Grown(more, S, N) = chosen[N]
  BY DEF Grown
<1> HIDE DEF chosen
<1>6. chosen[0] = S /\ \A i \in 1..N : chosen[i] = chosen[i - 1] \cup more[chosen[i - 1]]
  <2>1. chosen[0] = S
    BY <1>0, <1>4
  <2>2. ASSUME NEW i \in 1..N PROVE chosen[i] = chosen[i - 1] \cup more[chosen[i - 1]]
    <3>1. i \in 0..N /\ i # 0
      BY <1>0
    <3>2. chosen[i] = UNION {T \cup more[T] : T \in {chosen[i - 1]}}
      BY <1>4, <3>1
    <3> QED
      BY <3>2
  <2> QED
    BY <2>1, <2>2
<1> HIDE DEF Solves
\* Every round is a subset, and has found an element, or has found the last.
<1> DEFINE Good(i) == /\ chosen[i] \in SUBSET U /\ S \subseteq chosen[i]
                      /\ Cardinality(chosen[i]) >= i \/ more[chosen[i]] \subseteq chosen[i]
           I == {i \in Nat : i \in 0..N => Good(i)}
<1>7. 0 \in I
  <2>1. Cardinality(S) \in Nat
    BY FS_Subset, FS_CardinalityType
  <2> QED
    BY <1>6, <2>1
<1>8. \A i \in Nat : i \in I => i + 1 \in I
  <2> SUFFICES ASSUME NEW i \in Nat, Good(i), i + 1 \in 0..N PROVE Good(i + 1)
    BY <1>0
  <2> DEFINE K == chosen[i]
             M == chosen[i + 1]
  <2>1. M = K \cup more[K]
    <3>1. i + 1 \in 1..N /\ (i + 1) - 1 = i
      BY <1>0
    <3> QED
      BY <1>6, <3>1
  <2>2. K \in SUBSET U /\ S \subseteq K /\ (Cardinality(K) >= i \/ more[K] \subseteq K)
    OBVIOUS
  <2> HIDE DEF K
  <2>3. M \in SUBSET U /\ S \subseteq M
    BY <2>1, <2>2
  <2>4. CASE more[K] \subseteq K
    <3>1. M = K
      BY <2>1, <2>4
    <3> HIDE DEF M
    <3>2. more[M] \subseteq M
      BY <2>4, <3>1
    <3> QED
      BY <2>3, <3>2 DEF M
  <2>5. CASE ~(more[K] \subseteq K)
    <3>1. Cardinality(K) >= i /\ M # K /\ K \subseteq M
      BY <2>1, <2>2, <2>5
    <3> HIDE DEF M
    <3>2. IsFiniteSet(M)
      BY <2>3, FS_Subset
    <3>3. Cardinality(K) <= Cardinality(M) /\ Cardinality(M) # Cardinality(K)
      BY <3>1, <3>2, FS_Subset
    <3>4. Cardinality(K) \in Nat /\ Cardinality(M) \in Nat
      BY <2>2, <3>2, FS_Subset, FS_CardinalityType
    <3>5. Cardinality(M) >= i + 1
      BY <3>1, <3>3, <3>4
    <3> QED
      BY <2>3, <3>5 DEF M
  <2> QED
    BY <2>4, <2>5
<1> HIDE DEF I
<1>9. \A i \in Nat : i \in I
  BY <1>7, <1>8, Induction
<1>10. Good(N)
  BY <1>0, <1>9 DEF I
<1>11. more[chosen[N]] \subseteq chosen[N]
  <2>1. CASE Cardinality(chosen[N]) >= N
    <3>1. Cardinality(chosen[N]) <= Cardinality(U) /\ Cardinality(chosen[N]) \in Nat
      BY <1>10, FS_Subset, FS_CardinalityType
    <3>2. Cardinality(chosen[N]) = Cardinality(U)
      BY <1>0, <2>1, <3>1 DEF N
    <3>3. chosen[N] = U
      BY <1>10, <3>2, FS_Subset
    <3> QED
      BY <3>3
  <2> QED
    BY <1>10, <2>1
<1> HIDE DEF Good
\* No round leaves a closed set.
<1>12. ASSUME NEW C \in SUBSET U, S \subseteq C,
              \A T \in SUBSET U : T \subseteq C => more[T] \subseteq C
       PROVE  chosen[N] \subseteq C
  <2> DEFINE J == {i \in Nat : i \in 0..N => chosen[i] \subseteq C}
  <2>1. 0 \in J
    BY <1>6, <1>12
  <2>2. \A i \in Nat : i \in J => i + 1 \in J
    <3> SUFFICES ASSUME NEW i \in Nat, i \in J, i + 1 \in 0..N
                 PROVE  chosen[i + 1] \subseteq C
      OBVIOUS
    <3>0. chosen[i] \subseteq C
      BY <1>0
    <3>1. i + 1 \in 1..N /\ (i + 1) - 1 = i
      BY <1>0
    <3>2. chosen[i + 1] = chosen[i] \cup more[chosen[i]]
      BY <1>6, <3>1
    <3>3. chosen[i] \in SUBSET U
      BY <1>12, <3>0
    <3> QED
      BY <1>12, <3>0, <3>2, <3>3
  <2> HIDE DEF J
  <2>3. \A i \in Nat : i \in J
    BY <2>1, <2>2, Induction
  <2> QED
    BY <1>0, <2>3 DEF J
<1> QED
  BY <1>5, <1>10, <1>11, <1>12 DEF IsClosure, Good, N

\* What has grown after n rounds is what any other account of the rounds says.
LEMMA GrownIs ==
  ASSUME NEW more, NEW S, NEW n \in Nat, NEW g, g[0] = S,
         \A i \in 1..n : g[i] = g[i - 1] \cup more[g[i - 1]]
  PROVE  Grown(more, S, n) = g[n]
<1> DEFINE Solves(e) == e = [i \in 0..n |->
             IF i = 0 THEN S ELSE UNION {T \cup more[T] : T \in {e[i - 1]}}]
           chosen == CHOOSE e : Solves(e)
           h == [i \in 0..n |-> g[i]]
<1>1. \A X : UNION {T \cup more[T] : T \in {X}} = X \cup more[X]
  OBVIOUS
<1>2. Solves(h)
  <2>1. \A i \in 1..n : i - 1 \in 0..n
    OBVIOUS
  <2>2. ASSUME NEW i \in 0..n
        PROVE  g[i] = IF i = 0 THEN S ELSE UNION {T \cup more[T] : T \in {h[i - 1]}}
    <3>1. CASE i = 0
      BY <3>1
    <3>2. CASE i # 0
      <4>1. i \in 1..n /\ i - 1 \in 0..n
        BY <3>2
      <4>2. h[i - 1] = g[i - 1]
        BY <4>1
      <4> HIDE DEF h
      <4> QED
        BY <1>1, <3>2, <4>1, <4>2
    <3> QED
      BY <3>1, <3>2
  <2> QED
    BY <2>2
<1>3. Solves(chosen)
  BY <1>2
<1>4. Grown(more, S, n) = chosen[n]
  BY DEF Grown
<1> HIDE DEF chosen
<1>5. chosen[0] = S /\ \A i \in 1..n : chosen[i] = chosen[i - 1] \cup more[chosen[i - 1]]
  <2>1. chosen[0] = S
    BY <1>3
  <2>2. ASSUME NEW i \in 1..n PROVE chosen[i] = chosen[i - 1] \cup more[chosen[i - 1]]
    <3>1. i \in 0..n /\ i # 0
      OBVIOUS
    <3>2. chosen[i] = UNION {T \cup more[T] : T \in {chosen[i - 1]}}
      BY <1>3, <3>1
    <3> QED
      BY <3>2
  <2> QED
    BY <2>1, <2>2
<1> DEFINE I == {i \in Nat : i <= n => chosen[i] = g[i]}
<1>6. 0 \in I
  BY <1>5
<1>7. \A i \in Nat : i \in I => i + 1 \in I
  <2> SUFFICES ASSUME NEW i \in Nat, i \in I, i + 1 <= n PROVE chosen[i + 1] = g[i + 1]
    OBVIOUS
  <2>1. i + 1 \in 1..n /\ (i + 1) - 1 = i
    OBVIOUS
  <2>2. chosen[i + 1] = chosen[i] \cup more[chosen[i]] /\ g[i + 1] = g[i] \cup more[g[i]]
    BY <1>5, <2>1
  <2>3. chosen[i] = g[i]
    OBVIOUS
  <2> QED
    BY <2>2, <2>3
<1> HIDE DEF I
<1>8. \A i \in Nat : i \in I
  BY <1>6, <1>7, Induction
<1> QED
  BY <1>4, <1>8 DEF I
=============================================================================
