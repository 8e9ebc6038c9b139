--------------------------- MODULE AdapterProofs ---------------------------
(***************************************************************************)
(* A validated adapter never makes a session reject what it emits, and     *)
(* never traps it: for all documents, events and lengths of words.  The    *)
(* pairs the conformance check has found are closed under the adapter's    *)
(* edges when the check ends, and the running pair of transducer and       *)
(* session stays among them.                                               *)
(*                                                                         *)
(* The second part is about the check: it lets an adapter pass exactly if  *)
(* the adapter conforms, since the pairs found are those that words of     *)
(* vendor events lead to, and the words up to the number of pairs find all.*)
(*                                                                         *)
(* The third part is about the session itself, driven by an adapter or by  *)
(* any other source of symbols: stepping through the symbols agrees with   *)
(* evaluate_trace on the whole word.  The state reached is the one the     *)
(* word of accepted symbols leads to, and the word offered was either      *)
(* never rejected, and is that word, or has been rejected somewhere.       *)
(***************************************************************************)
EXTENDS Adapters, Recursion

\* The pair has been looked at: every edge emits something M_S admits, and
\* leads to a pair that has been found.
Passed(p) == PrefixErrors(p) = {} /\ Found(p) \subseteq seen

\* Nothing has been emitted yet.
Untouched == vendor = document.start /\ current = StartState /\ verdict.kind # "undefined"

Exploration ==
  phase = "checking" =>
    /\ <<document.start, StartState>> \in seen
    /\ "prefix" \notin errors => \A p \in seen \ pending : Passed(p)

Translation ==
  phase \in {"loaded", "stopped"} /\ validate =>
    /\ \A p \in seen : Passed(p) /\ p[2] \in Recoverable
    /\ <<vendor, current>> \in seen
    /\ verdict.kind # "undefined"

IInv ==
  /\ phase \in {"file", "checking"} => Untouched
  /\ Exploration
  /\ Translation

-----------------------------------------------------------------------------
LEMMA EdgeTypes == \A t \in Transitions : t = <<t[1], t[2], t[3]>> /\ t[3] \in States
BY DEF Transitions, EntryEdges, CableEdges, EnergyEdges, SuspensionEdges, ReleaseEdges,
       SettlementEdges, States

LEMMA NormalizeIsIdentity == \A a : Normalize(a) = a
BY DEF Normalize, ReserveAlias

\* An emission that leads somewhere is admissible, and the session follows it.
LEMMA EmissionFollowed ==
  ASSUME NEW q, NEW a, a # Null, After(q, a) # {}
  PROVE  a \in Admissible(q) /\ Target(q, a) \in After(q, a)
<1>1. PICK t \in Transitions : t[1] = q /\ t[2] = a
  BY DEF After
<1>2. <<q, a, t[3]>> \in Transitions /\ t[3] \in States
  BY <1>1, EdgeTypes
<1>3. a \in Admissible(q)
  BY <1>1 DEF Admissible
<1>4. Target(q, a) \in States /\ <<q, a, Target(q, a)>> \in Transitions
  BY <1>2 DEF Target
<1>5. Target(q, a) \in After(q, a)
  <2> DEFINE u == <<q, a, Target(q, a)>>
  <2>1. u[1] = q /\ u[2] = a /\ u[3] = Target(q, a)
    OBVIOUS
  <2>2. u \in {v \in Transitions : v[1] = q /\ v[2] = a}
    BY <1>4, <2>1
  <2> QED
    BY <2>1, <2>2 DEF After
<1> QED
  BY <1>3, <1>5

\* What an edge adds to the pairs found from p.
LEMMA FoundAlong ==
  ASSUME NEW p, NEW e \in EdgesFrom(p[1]), NEW q \in After(p[2], e[4])
  PROVE  <<e[3], q>> \in Found(p)
BY DEF Found

LEMMA InitIInv == AdapterInit => IInv
BY DEF AdapterInit, Init, IInv, Untouched, Exploration, Translation, NoVerdict

\* The adapter's tables are those of its file.
LEMMA TablesFixed ==
  ASSUME file' = file
  PROVE  /\ document' = document
         /\ \A v : EdgesFrom(v)' = EdgesFrom(v)
         /\ \A p : Found(p)' = Found(p) /\ PrefixErrors(p)' = PrefixErrors(p)
BY DEF document, Rows, Edges, EdgesFrom, Found, PrefixErrors

LEMMA LoadKeepsIInv ==
  ASSUME IInv, LoadStep
  PROVE  IInv'
<1>0. file' = file /\ validate' = validate /\ vendor' = vendor /\ UNCHANGED vars
  BY DEF LoadStep, RefuseFile, Build, Explore, Conclude
<1>1. document' = document /\ Recoverable' = Recoverable
  BY <1>0, TablesFixed DEF Recoverable
<1>2. \A p : Found(p)' = Found(p) /\ PrefixErrors(p)' = PrefixErrors(p)
  BY <1>0, TablesFixed
<1>3. Untouched => Untouched'
  BY <1>0, <1>1 DEF Untouched, vars
<1>4. CASE RefuseFile
  BY <1>4 DEF RefuseFile, IInv, Exploration, Translation
<1>5. CASE Build
  <2>1. CASE validate
    <3>1. seen' = {<<document.start, StartState>>} /\ pending' = seen' /\ phase' = "checking"
      BY <1>5, <2>1 DEF Build
    <3>2. Exploration'
      BY <3>1, <1>1 DEF Exploration
    <3>3. Translation'
      BY <3>1 DEF Translation
    <3> QED
      BY <3>1, <3>2, <3>3, <1>3, <1>5 DEF Build, IInv
  <2>2. CASE ~validate
    BY <1>0, <1>3, <1>5, <2>2 DEF Build, IInv, Exploration, Translation
  <2> QED
    BY <2>1, <2>2
<1>6. CASE \E p \in pending : Explore(p)
  <2>1. PICK p \in pending : Explore(p)
    BY <1>6
  <2>2. /\ phase = "checking" /\ phase' = "checking"
        /\ pending' = (pending \ {p}) \cup Fresh(p)
        /\ seen' = seen \cup Fresh(p)
        /\ errors' = errors \cup PrefixErrors(p)
    BY <2>1 DEF Explore
  <2>3. ASSUME "prefix" \notin errors', NEW r \in seen' \ pending'
        PROVE  Passed(r)'
    <3>1. PrefixErrors(p) = {}
      BY <2>2, <2>3 DEF PrefixErrors
    <3>2. "prefix" \notin errors
      BY <2>2, <2>3
    <3>3. r = p \/ r \in seen \ pending
      BY <2>2, <2>3
    <3>4. PrefixErrors(r) = {} /\ Found(r) \subseteq seen'
      <4>1. CASE r = p
        BY <4>1, <3>1, <2>2 DEF Fresh
      <4>2. CASE r \in seen \ pending
        BY <4>2, <3>2, <2>2 DEF IInv, Exploration, Passed
      <4> QED
        BY <3>3, <4>1, <4>2
    <3> QED
      BY <3>4, <1>2 DEF Passed
  <2>4. <<document.start, StartState>> \in seen'
    BY <2>2 DEF IInv, Exploration
  <2>5. Exploration'
    BY <2>3, <2>4, <1>1 DEF Exploration
  <2>6. Translation'
    BY <2>2 DEF Translation
  <2> QED
    BY <2>2, <2>5, <2>6, <1>3 DEF IInv
<1>7. CASE Conclude
  <2>1. /\ phase = "checking" /\ pending = {} /\ seen' = seen
        /\ errors' = errors \cup TrapErrors
        /\ phase' = IF errors' = {} THEN "loaded" ELSE "refused"
    BY <1>7 DEF Conclude
  <2>2. CASE errors' # {}
    BY <2>1, <2>2 DEF IInv, Exploration, Translation
  <2>3. CASE errors' = {}
    <3>1. phase' = "loaded" /\ "prefix" \notin errors /\ TrapErrors = {}
      BY <2>1, <2>3
    <3>2. \A p \in seen : p[2] \in Recoverable
      BY <3>1 DEF TrapErrors
    <3>3. \A p \in seen : PrefixErrors(p) = {} /\ Found(p) \subseteq seen
      BY <2>1, <3>1 DEF IInv, Exploration, Passed
    <3>4. \A p \in seen' : Passed(p)' /\ p[2] \in Recoverable'
      BY <2>1, <3>2, <3>3, <1>1, <1>2 DEF Passed
    <3>5. <<vendor', current'>> \in seen' /\ verdict'.kind # "undefined"
      BY <2>1, <1>0 DEF IInv, Exploration, Untouched, vars
    <3>6. Translation'
      BY <3>1, <3>4, <3>5 DEF Translation
    <3> QED
      BY <3>1, <3>6 DEF IInv, Exploration
  <2> QED
    BY <2>2, <2>3
<1> QED
  BY <1>4, <1>5, <1>6, <1>7 DEF LoadStep

LEMMA ReceiveKeepsIInv ==
  ASSUME IInv, phase = "loaded", NEW e \in EdgesFrom(vendor), Receive(e)
  PROVE  IInv'
<1>0. /\ file' = file /\ validate' = validate /\ phase' = phase /\ seen' = seen
      /\ vendor' = e[3]
  BY DEF Receive
<1>1. \A p : Found(p)' = Found(p) /\ PrefixErrors(p)' = PrefixErrors(p)
  BY <1>0, TablesFixed
<1>2. ASSUME validate
      PROVE  <<vendor', current'>> \in seen /\ verdict'.kind # "undefined"
  <2> DEFINE p == <<vendor, current>>
  <2>0. p[1] = vendor /\ p[2] = current
    OBVIOUS
  <2>1. PrefixErrors(p) = {} /\ Found(p) \subseteq seen /\ verdict.kind # "undefined"
    BY <1>2 DEF IInv, Translation, Passed
  <2>2. After(current, e[4]) # {}
    BY <2>0, <2>1 DEF PrefixErrors
  <2>3. \A q \in After(current, e[4]) : <<e[3], q>> \in seen
    BY <2>0, <2>1, FoundAlong
  <2>4. CASE e[4] = Null
    <3>1. UNCHANGED vars
      BY <2>4 DEF Receive
    <3> QED
      BY <3>1, <2>1, <2>3, <2>4, <1>0 DEF After, vars
  <2>5. CASE e[4] # Null
    <3>1. e[4] \in Admissible(current) /\ Target(current, e[4]) \in After(current, e[4])
      BY <2>2, <2>5, EmissionFollowed
    <3>2. Accept(e[4])
      BY <3>1, <2>5, NormalizeIsIdentity DEF Receive, Reject
    <3>3. current' = Target(current, e[4])
      BY <3>2, NormalizeIsIdentity DEF Accept
    <3>4. verdict' \in {Safe, verdict}
      BY <3>2 DEF Accept
    <3> QED
      BY <3>1, <3>3, <3>4, <2>1, <2>3, <1>0 DEF Safe
  <2> QED
    BY <2>4, <2>5
<1>3. ASSUME validate
      PROVE  \A p \in seen' : Passed(p)' /\ p[2] \in Recoverable'
  BY <1>0, <1>1, <1>3 DEF IInv, Translation, Passed, Recoverable
<1>4. Translation'
  BY <1>0, <1>2, <1>3 DEF Translation
<1> QED
  BY <1>0, <1>4 DEF IInv, Exploration

LEMMA StepKeepsIInv == IInv /\ [AdapterNext]_adapterVars => IInv'
<1> SUFFICES ASSUME IInv, [AdapterNext]_adapterVars
             PROVE  IInv'
  OBVIOUS
<1>1. CASE LoadStep
  BY <1>1, LoadKeepsIInv
<1>2. CASE phase = "loaded" /\ \E e \in EdgesFrom(vendor) : Receive(e)
  BY <1>2, ReceiveKeepsIInv
<1>3. CASE ReceiveUnknown \/ UNCHANGED adapterVars
  <2>1. /\ file' = file /\ validate' = validate /\ seen' = seen /\ pending' = pending
        /\ errors' = errors /\ vendor' = vendor /\ UNCHANGED vars
        /\ phase' = phase \/ (phase = "loaded" /\ phase' = "stopped")
    BY <1>3 DEF ReceiveUnknown, adapterVars
  <2>2. document' = document /\ Recoverable' = Recoverable
    BY <2>1, TablesFixed DEF Recoverable
  <2>3. \A p : Passed(p)' <=> Passed(p)
    BY <2>1, TablesFixed DEF Passed
  <2>4. Untouched' <=> Untouched
    BY <2>1, <2>2 DEF Untouched, vars
  <2> QED
    BY <2>1, <2>2, <2>3, <2>4 DEF IInv, Exploration, Translation, vars
<1> QED
  BY <1>1, <1>2, <1>3 DEF AdapterNext

\* A session driven by a validated adapter never rejects an emission and can
\* always still be completed.
THEOREM ValidatedAdapterNeverRejected == AdapterSpec => []AdapterNeverRejected
<1>1. IInv => AdapterNeverRejected
  <2> SUFFICES ASSUME IInv, phase \in {"loaded", "stopped"}, validate
               PROVE  verdict.kind # "undefined" /\ current \in Recoverable
    BY DEF AdapterNeverRejected
  <2> DEFINE p == <<vendor, current>>
  <2>1. p \in seen /\ verdict.kind # "undefined" /\ p[2] = current
    BY DEF IInv, Translation
  <2> QED
    BY <2>1 DEF IInv, Translation
<1> QED
  BY <1>1, InitIInv, StepKeepsIInv, PTL DEF AdapterSpec

-----------------------------------------------------------------------------
\* The pairs found are the pairs that words of vendor events lead to.

Begin == {<<document.start, StartState>>}
AllPairs == Declared \X States
FoundFrom(T) == UNION {Found(p) : p \in T}
Depth == Len(document.states) * Cardinality(States)

LEMMA StatesFinite == IsFiniteSet(States)
<1> DEFINE q == <<"IDLE", "RESERVED", "AUTH_PENDING", "AUTHORIZED", "CABLE_DETECTED",
                  "EV_CONNECTED", "PRECHARGE", "CHARGING", "PAUSED_DISPATCH",
                  "SUSPENDED_EV", "SUSPENDED_EVSE", "RAMP_DOWN", "ISOLATING",
                  "UNLOCKED", "UNPLUGGED", "BILLING_PENDING", "COMPLETED",
                  "FAULT_TERMINAL">>
<1>1. /\ q[1] = "IDLE" /\ q[2] = "RESERVED" /\ q[3] = "AUTH_PENDING" /\ q[4] = "AUTHORIZED"
      /\ q[5] = "CABLE_DETECTED" /\ q[6] = "EV_CONNECTED" /\ q[7] = "PRECHARGE"
      /\ q[8] = "CHARGING" /\ q[9] = "PAUSED_DISPATCH" /\ q[10] = "SUSPENDED_EV"
      /\ q[11] = "SUSPENDED_EVSE" /\ q[12] = "RAMP_DOWN" /\ q[13] = "ISOLATING"
      /\ q[14] = "UNLOCKED" /\ q[15] = "UNPLUGGED" /\ q[16] = "BILLING_PENDING"
      /\ q[17] = "COMPLETED" /\ q[18] = "FAULT_TERMINAL"
  OBVIOUS
<1>2. q \in [1..18 -> States]
  <2>1. q \in Seq(States) /\ Len(q) = 18
    BY DEF States
  <2> HIDE DEF q
  <2>2. \A r \in Seq(States) : r \in [1..Len(r) -> States]
    OBVIOUS
  <2> QED
    BY <2>1, <2>2
<1> HIDE DEF q
<1>3. ASSUME NEW s \in States PROVE \E i \in 1..18 : q[i] = s
  BY <1>1 DEF States
<1>4. q \in Surjection(1..18, States)
  <2>1. \A s \in States : \E i \in 1..18 : q[i] = s
    BY <1>3
  <2> QED
    BY <1>2, <2>1 DEF Surjection
<1>5. IsFiniteSet(1..18)
  <2>1. \A m \in Nat : IsFiniteSet(1..m)
    BY FS_Interval
  <2> QED
    BY <2>1
<1> QED
  BY <1>4, <1>5, FS_Surjection

LEMMA DepthIsEnough ==
  ASSUME WellFormed, file \in DOMAIN Documents
  PROVE  IsFiniteSet(AllPairs) /\ Cardinality(AllPairs) = Depth /\ Depth \in Nat
<1> DEFINE n == Len(document.states)
           list == [i \in 1..n |-> document.states[i]]
<1>1. n \in Nat /\ DOMAIN document.states = 1..n
  BY AdapterAssumption DEF document
<1>2. list \in Surjection(1..n, Declared)
  <2>1. list \in [1..n -> Declared] /\ \A v \in Declared : \E i \in 1..n : list[i] = v
    BY <1>1 DEF Declared
  <2> HIDE DEF list, n
  <2> QED
    BY <2>1 DEF Surjection
<1>3. IsFiniteSet(1..n)
  <2>1. \A m \in Nat : IsFiniteSet(1..m)
    BY FS_Interval
  <2> HIDE DEF n
  <2> QED
    BY <1>1, <2>1
<1>4. IsFiniteSet(Declared)
  BY <1>2, <1>3, FS_Surjection
<1>5. Cardinality(Declared) = n
  BY DEF WellFormed, GoodHeader
<1>6. IsFiniteSet(AllPairs) /\ Cardinality(AllPairs) = n * Cardinality(States)
  BY <1>4, <1>5, StatesFinite, FS_Product DEF AllPairs
<1> QED
  BY <1>6, FS_CardinalityType DEF Depth

LEMMA PairTypes ==
  ASSUME WellFormed
  PROVE  /\ Begin \in SUBSET AllPairs
         /\ \A T \in SUBSET AllPairs : FoundFrom(T) \in SUBSET AllPairs
<1>1. Begin \in SUBSET AllPairs
  BY DEF Begin, AllPairs, WellFormed, StatesDeclared, StartState, States
<1>2. ASSUME NEW p \in AllPairs, NEW r \in Found(p) PROVE r \in AllPairs
  <2>1. PICK e \in EdgesFrom(p[1]) : r \in {e[3]} \X After(p[2], e[4])
    BY <1>2 DEF Found
  <2>2. PICK i \in DOMAIN Rows : e = <<Rows[i].from, Rows[i].event, Rows[i].to, Rows[i].emit>>
    BY DEF EdgesFrom, Edges
  <2>3. e[3] = Rows[i].to
    BY <2>2
  <2>4. Rows[i].to \in Declared
    BY DEF WellFormed, StatesDeclared
  <2>5. p[2] \in States
    BY DEF AllPairs
  <2>6. After(p[2], e[4]) \subseteq States
    BY <2>5, EdgeTypes DEF After
  <2> QED
    BY <2>1, <2>3, <2>4, <2>6 DEF AllPairs
<1> QED
  BY <1>1, <1>2 DEF FoundFrom

\* Within is what its definition says.
LEMMA WithinSteps ==
  ASSUME WellFormed
  PROVE  Within[0] = Begin /\ \A n \in Nat : Within[n + 1] = Within[n] \cup FoundFrom(Within[n])
<1> DEFINE D == SUBSET AllPairs
           step == [p \in D \X Nat |-> p[1] \cup FoundFrom(p[1])]
           Solves(g) == g = [n \in Nat |->
             IF n = 0 THEN {<<document.start, StartState>>}
             ELSE UNION {S \cup UNION {Found(p) : p \in S} : S \in {g[n - 1]}}]
           chosen == CHOOSE g : Solves(g)
<1>1. \A X : UNION {S \cup UNION {Found(p) : p \in S} : S \in {X}} = X \cup FoundFrom(X)
  BY DEF FoundFrom
<1>2. Begin \in D /\ step \in [D \X Nat -> D]
  <2>1. \A T \in D : T \cup FoundFrom(T) \in D
    BY PairTypes
  <2> HIDE DEF D
  <2>2. \A p \in D \X Nat : p[1] \in D
    OBVIOUS
  <2>3. step \in [D \X Nat -> D]
    BY <2>1, <2>2
  <2> QED
    BY <2>3, PairTypes DEF D
<1>3. PICK f : Recurs(f, D, Begin, step)
  <2> HIDE DEF D, step
  <2> QED
    BY <1>2, RecursionExists
<1>4. f \in [Nat -> D] /\ f[0] = Begin /\ \A n \in Nat \ {0} : f[n] = step[<<f[n - 1], n>>]
  <2> HIDE DEF D, step
  <2> QED
    BY <1>3 DEF Recurs
<1> HIDE DEF D
<1>5. ASSUME NEW n \in Nat \ {0} PROVE f[n] = f[n - 1] \cup FoundFrom(f[n - 1])
  <2>1. <<f[n - 1], n>> \in D \X Nat
    BY <1>4
  <2>2. f[n] = step[<<f[n - 1], n>>]
    <3> HIDE DEF step
    <3> QED
      BY <1>4
  <2> QED
    BY <2>1, <2>2
<1>6. Solves(f)
  <2>1. \A n \in Nat : f[n] = IF n = 0 THEN Begin
                              ELSE UNION {S \cup UNION {Found(p) : p \in S} : S \in {f[n - 1]}}
    BY <1>1, <1>4, <1>5
  <2> QED
    BY <1>4, <2>1 DEF Begin
<1>7. Solves(chosen)
  <2> HIDE DEF Solves
  <2> QED
    BY <1>6
<1>8. Within = chosen
  BY DEF Within
<1> HIDE DEF chosen
<1>9. chosen[0] = Begin
  BY <1>7 DEF Begin
<1>10. ASSUME NEW n \in Nat PROVE chosen[n + 1] = chosen[n] \cup FoundFrom(chosen[n])
  <2>1. n + 1 \in Nat /\ n + 1 # 0 /\ (n + 1) - 1 = n
    OBVIOUS
  <2>2. chosen[n + 1] = UNION {S \cup UNION {Found(p) : p \in S} : S \in {chosen[(n + 1) - 1]}}
    BY <1>7, <2>1
  <2>3. chosen[n + 1] = chosen[(n + 1) - 1] \cup FoundFrom(chosen[(n + 1) - 1])
    <3> HIDE DEF Solves
    <3> QED
      BY <1>1, <2>2
  <2> QED
    BY <2>1, <2>3
<1> QED
  BY <1>8, <1>9, <1>10

\* After as many rounds as there are pairs nothing new is found.
LEMMA WithinCloses ==
  ASSUME WellFormed, file \in DOMAIN Documents
  PROVE  /\ Begin \subseteq Within[Depth]
         /\ \A p \in Within[Depth] : Found(p) \subseteq Within[Depth]
<1> DEFINE more == [T \in SUBSET AllPairs |-> FoundFrom(T)]
<1>0. IsFiniteSet(AllPairs) /\ Cardinality(AllPairs) = Depth /\ Depth \in Nat
  BY DepthIsEnough
<1>1. more \in [SUBSET AllPairs -> SUBSET AllPairs] /\ Begin \in SUBSET AllPairs
  BY PairTypes
<1>2. Within[0] = Begin /\ \A n \in Nat : Within[n + 1] = Within[n] \cup FoundFrom(Within[n])
  BY WithinSteps
<1> DEFINE I == {n \in Nat : Within[n] \in SUBSET AllPairs}
<1>3. \A n \in Nat : n \in I
  <2>1. 0 \in I
    BY <1>1, <1>2
  <2>2. \A n \in Nat : n \in I => n + 1 \in I
    BY <1>2, PairTypes
  <2> HIDE DEF I
  <2> QED
    BY <2>1, <2>2, Induction
<1>4. ASSUME NEW i \in 1..Depth PROVE Within[i] = Within[i - 1] \cup more[Within[i - 1]]
  <2>1. i - 1 \in Nat /\ (i - 1) + 1 = i
    BY <1>0
  <2>2. Within[(i - 1) + 1] = Within[i - 1] \cup FoundFrom(Within[i - 1])
    BY <1>2, <2>1
  <2>3. Within[i - 1] \in SUBSET AllPairs
    BY <1>3, <2>1
  <2> QED
    BY <2>1, <2>2, <2>3
<1>5. Grown(more, Begin, Depth) = Within[Depth]
  <2> HIDE DEF more
  <2> QED
    BY <1>0, <1>2, <1>4, GrownIs
<1>6. IsClosure(Grown(more, Begin, Depth), AllPairs, more, Begin)
  <2> HIDE DEF more
  <2> QED
    BY <1>0, <1>1, GrownCloses
<1>7. /\ Within[Depth] \in SUBSET AllPairs /\ Begin \subseteq Within[Depth]
      /\ more[Within[Depth]] \subseteq Within[Depth]
  <2> HIDE DEF more
  <2> QED
    BY <1>5, <1>6 DEF IsClosure
<1>8. FoundFrom(Within[Depth]) \subseteq Within[Depth]
  BY <1>7
<1> QED
  BY <1>7, <1>8 DEF FoundFrom

\* A closed set that holds the start holds what words lead to.
LEMMA WithinIsLeast ==
  ASSUME WellFormed, NEW C, Begin \subseteq C, \A p \in C : Found(p) \subseteq C
  PROVE  \A n \in Nat : Within[n] \subseteq C
<1> DEFINE I == {n \in Nat : Within[n] \subseteq C}
<1>1. Within[0] = Begin /\ \A n \in Nat : Within[n + 1] = Within[n] \cup FoundFrom(Within[n])
  BY WithinSteps
<1>2. 0 \in I
  BY <1>1
<1>3. \A n \in Nat : n \in I => n + 1 \in I
  BY <1>1 DEF FoundFrom
<1> HIDE DEF I
<1>4. \A n \in Nat : n \in I
  BY <1>2, <1>3, Induction
<1> QED
  BY <1>4 DEF I

-----------------------------------------------------------------------------
\* What the check knows when it has looked at all but the pending pairs.
Explored ==
  phase = "checking" =>
    /\ WellFormed
    /\ Begin \subseteq seen /\ pending \subseteq seen /\ seen \subseteq Within[Depth]
    /\ \A p \in seen \ pending : Found(p) \subseteq seen
    /\ errors = {} <=> RangeErrors = {} /\ \A p \in seen \ pending : PrefixErrors(p) = {}

ExploredInv == file \in DOMAIN Documents /\ Explored

LEMMA DocumentFixed ==
  ASSUME file' = file
  PROVE  /\ (WellFormed' <=> WellFormed) /\ Begin' = Begin /\ Depth' = Depth
         /\ Within' = Within /\ RangeErrors' = RangeErrors
<1>1. WellFormed' <=> WellFormed
  BY DEF WellFormed, GoodHeader, Complete, Typed, Deterministic, StatesDeclared, Declared, Rows,
         document
<1>2. Begin' = Begin /\ Depth' = Depth
  BY DEF Begin, Depth, document
<1>3. Within' = Within
  BY DEF Within, Found, EdgesFrom, Edges, Rows, document
<1>4. RangeErrors' = RangeErrors
  BY DEF RangeErrors, Edges, Rows, document
<1> QED
  BY <1>1, <1>2, <1>3, <1>4

LEMMA InitExplored == AdapterInit => ExploredInv
<1> SUFFICES ASSUME AdapterInit PROVE ExploredInv
  OBVIOUS
<1>1. PICK load \in Loads : file = load[1]
  BY DEF AdapterInit
<1>2. load \in (DOMAIN Documents) \X BOOLEAN
  BY AdapterAssumption
<1> QED
  BY <1>1, <1>2 DEF AdapterInit, ExploredInv, Explored

LEMMA ExploreKeeps ==
  ASSUME ExploredInv, NEW p \in pending, Explore(p)
  PROVE  Explored'
<1>0. /\ phase = "checking" /\ file' = file /\ file \in DOMAIN Documents
      /\ pending' = (pending \ {p}) \cup (Found(p) \ seen)
      /\ seen' = seen \cup (Found(p) \ seen)
      /\ errors' = errors \cup PrefixErrors(p)
  BY DEF Explore, Fresh, ExploredInv
<1>1. /\ WellFormed
      /\ Begin \subseteq seen /\ pending \subseteq seen /\ seen \subseteq Within[Depth]
      /\ \A r \in seen \ pending : Found(r) \subseteq seen
      /\ errors = {} <=> RangeErrors = {} /\ \A r \in seen \ pending : PrefixErrors(r) = {}
  BY <1>0 DEF ExploredInv, Explored
<1>2. \A r : Found(r)' = Found(r) /\ PrefixErrors(r)' = PrefixErrors(r)
  BY <1>0, TablesFixed
<1>3. /\ WellFormed' /\ Begin' = Begin /\ Within[Depth]' = Within[Depth]
      /\ RangeErrors' = RangeErrors
  BY <1>0, <1>1, DocumentFixed
<1>4. seen' \ pending' = (seen \ pending) \cup {p}
  BY <1>0, <1>1
<1>5. Begin' \subseteq seen' /\ pending' \subseteq seen' /\ seen' \subseteq Within[Depth]'
  <2>1. Found(p) \subseteq Within[Depth]
    BY <1>0, <1>1, WithinCloses
  <2> QED
    BY <1>0, <1>1, <1>3, <2>1
<1>6. \A r \in seen' \ pending' : Found(r)' \subseteq seen'
  BY <1>0, <1>1, <1>2, <1>4
<1>7. errors' = {} <=> errors = {} /\ PrefixErrors(p) = {}
  BY <1>0
<1>8. errors' = {} <=> RangeErrors' = {} /\ \A r \in seen' \ pending' : PrefixErrors(r)' = {}
  <2>1. errors' = {} <=> RangeErrors = {} /\ \A r \in (seen \ pending) \cup {p} : PrefixErrors(r) = {}
    BY <1>1, <1>7
  <2> QED
    BY <1>2, <1>3, <1>4, <2>1
<1> QED
  BY <1>3, <1>5, <1>6, <1>8 DEF Explored

LEMMA ExploredStep == ExploredInv /\ [AdapterNext]_adapterVars => ExploredInv'
<1> SUFFICES ASSUME ExploredInv, [AdapterNext]_adapterVars PROVE ExploredInv'
  OBVIOUS
<1>0. file' = file
  BY DEF AdapterNext, LoadStep, RefuseFile, Build, Explore, Conclude, Receive, ReceiveUnknown,
         adapterVars
<1>1. file' \in DOMAIN Documents
  BY <1>0 DEF ExploredInv
<1>2. CASE Build
  <2>1. CASE validate
    <3>1. WellFormed /\ seen' = Begin /\ pending' = seen' /\ errors' = RangeErrors
      BY <1>2, <2>1 DEF Build, Begin
    <3>2. Begin \subseteq Within[Depth]
      BY <3>1, WithinCloses DEF ExploredInv
    <3>3. /\ WellFormed' /\ Begin' = Begin /\ Within[Depth]' = Within[Depth]
          /\ RangeErrors' = RangeErrors
      BY <1>0, <3>1, DocumentFixed
    <3>4. seen' \ pending' = {}
      BY <3>1
    <3>5. Explored'
      BY <3>1, <3>2, <3>3, <3>4 DEF Explored
    <3> QED
      BY <1>1, <3>5 DEF ExploredInv
  <2>2. CASE ~validate
    BY <1>1, <1>2, <2>2 DEF Build, ExploredInv, Explored
  <2> QED
    BY <2>1, <2>2
<1>3. CASE \E p \in pending : Explore(p)
  BY <1>1, <1>3, ExploreKeeps DEF ExploredInv
<1>4. CASE RefuseFile \/ Conclude \/ ReceiveUnknown
  <2>1. phase' # "checking"
    BY <1>4 DEF RefuseFile, Conclude, ReceiveUnknown
  <2> QED
    BY <1>1, <2>1 DEF ExploredInv, Explored
<1>5. CASE phase = "loaded" /\ \E e \in EdgesFrom(vendor) : Receive(e)
  <2>1. phase' = "loaded"
    BY <1>5 DEF Receive
  <2> QED
    BY <1>1, <2>1 DEF ExploredInv, Explored
<1>6. CASE UNCHANGED adapterVars
  <2>1. phase' = phase /\ seen' = seen /\ pending' = pending /\ errors' = errors
    BY <1>6 DEF adapterVars
  <2>2. \A r : Found(r)' = Found(r) /\ PrefixErrors(r)' = PrefixErrors(r)
    BY <1>0, TablesFixed
  <2>3. /\ (WellFormed' <=> WellFormed) /\ Begin' = Begin /\ Within[Depth]' = Within[Depth]
        /\ RangeErrors' = RangeErrors
    BY <1>0, DocumentFixed
  <2>4. Explored'
    BY <2>1, <2>2, <2>3 DEF ExploredInv, Explored
  <2> QED
    BY <1>1, <2>4 DEF ExploredInv
<1> QED
  BY <1>2, <1>3, <1>4, <1>5, <1>6 DEF AdapterNext, LoadStep

\* For every document, whatever circles and silent edges it has, and every
\* order in which the pairs are looked at: the check lets the adapter pass
\* exactly if it conforms (conformance.py check_conformance).
THEOREM ConformanceCheckIsExact == AdapterSpec => ConformanceIsExact
<1>1. ExploredInv /\ [AdapterNext]_adapterVars =>
        [phase = "checking" /\ phase' # "checking" => (phase' = "loaded" <=> Conforming)]_adapterVars
  <2> SUFFICES ASSUME ExploredInv, [AdapterNext]_adapterVars, phase = "checking",
                      phase' # "checking"
               PROVE  phase' = "loaded" <=> Conforming
    OBVIOUS
  <2>1. Conclude
    BY DEF AdapterNext, LoadStep, RefuseFile, Build, Explore, Receive, ReceiveUnknown,
           adapterVars
  <2>2. /\ pending = {} /\ errors' = errors \cup TrapErrors
        /\ phase' = IF errors' = {} THEN "loaded" ELSE "refused"
    BY <2>1 DEF Conclude
  <2>3. /\ WellFormed /\ Begin \subseteq seen /\ seen \subseteq Within[Depth]
        /\ \A p \in seen : Found(p) \subseteq seen
        /\ errors = {} <=> RangeErrors = {} /\ \A p \in seen : PrefixErrors(p) = {}
    BY <2>2 DEF ExploredInv, Explored
  <2>4. Depth \in Nat
    BY <2>3, DepthIsEnough DEF ExploredInv
  <2>5. seen = Within[Depth]
    BY <2>3, <2>4, WithinIsLeast
  <2>6. TrapErrors = {} <=> \A p \in seen : p[2] \in Recoverable
    BY DEF TrapErrors
  <2>7. phase' = "loaded" <=> errors = {} /\ TrapErrors = {}
    BY <2>2
  <2>8. Conforming <=> /\ RangeErrors = {}
                       /\ \A p \in Within[Depth] : PrefixErrors(p) = {} /\ p[2] \in Recoverable
    BY DEF Conforming, Depth
  <2> QED
    BY <2>3, <2>5, <2>6, <2>7, <2>8
<1> QED
  BY <1>1, InitExplored, ExploredStep, PTL DEF AdapterSpec, ConformanceIsExact

-----------------------------------------------------------------------------
-----------------------------------------------------------------------------
\* The running session and the evaluation of its words.

LEMMA EdgesAreDeterministic ==
  \A t, u \in Transitions : t[1] = u[1] /\ t[2] = u[2] => t[3] = u[3]
BY DEF Transitions, EntryEdges, CableEdges, EnergyEdges, SuspensionEdges, ReleaseEdges,
       SettlementEdges

\* Where a set of states leads by a symbol: delta_S on sets of at most one.
Leads(S, a) == {t[3] : t \in Transitions \cap (S \X {Normalize(a)} \X States)}

LEMMA LeadsFrom ==
  ASSUME NEW q \in States, NEW a
  PROVE  /\ a \in Admissible(q) => Leads({q}, a) = {Target(q, a)} /\ Target(q, a) \in States
         /\ a \notin Admissible(q) => Leads({q}, a) = {}
         /\ Leads({}, a) = {}
<1>1. \A t : t \in Transitions \cap ({q} \X {Normalize(a)} \X States) <=>
               t \in Transitions /\ t[1] = q /\ t[2] = a
  BY EdgeTypes, NormalizeIsIdentity
<1>2. a \in Admissible(q) <=> \E t \in Transitions : t[1] = q /\ t[2] = a
  BY DEF Admissible
<1>3. Leads({}, a) = {}
  BY DEF Leads
<1>4. ASSUME a \in Admissible(q)
      PROVE  Leads({q}, a) = {Target(q, a)} /\ Target(q, a) \in States
  <2>1. PICK t \in Transitions : t[1] = q /\ t[2] = a
    BY <1>2, <1>4
  <2>2. <<q, a, t[3]>> \in Transitions /\ t[3] \in States
    BY <2>1, EdgeTypes
  <2>3. Target(q, a) \in States /\ <<q, a, Target(q, a)>> \in Transitions
    BY <2>2 DEF Target
  <2>4. Target(q, a) = t[3]
    <3> DEFINE u == <<q, a, Target(q, a)>>
    <3>1. u \in Transitions /\ u[1] = q /\ u[2] = a /\ u[3] = Target(q, a)
      BY <2>3
    <3> HIDE DEF u
    <3> QED
      BY <2>1, <3>1, EdgesAreDeterministic
  <2>5. \A u \in Transitions : u[1] = q /\ u[2] = a => u[3] = t[3]
    BY <2>1, EdgesAreDeterministic
  <2> QED
    BY <1>1, <2>1, <2>3, <2>4, <2>5 DEF Leads
<1>5. a \notin Admissible(q) => Leads({q}, a) = {}
  BY <1>1, <1>2 DEF Leads
<1> QED
  BY <1>3, <1>4, <1>5

Leading(A) == [p \in (SUBSET States) \X A |-> Leads(p[1], p[2])]

\* evaluate_trace steps through a word.
LEMMA PrefixesAlong ==
  ASSUME NEW A, NEW w \in Seq(A)
  PROVE  Along(Prefixes(w), SUBSET States, {StartState}, Leading(A), w)
<1> DEFINE Solves(e) ==
             e = [i \in 0..Len(w) |->
                    IF i = 0 THEN {StartState}
                    ELSE {t[3] : t \in Transitions \cap (e[i - 1] \X {Normalize(w[i])} \X States)}]
           chosen == CHOOSE e : Solves(e)
           next == Leading(A)
           D == SUBSET States
           base == {StartState}
<1>0. Prefixes(w) = chosen
  BY DEF Prefixes
<1>1. \A e : Solves(e) <=>
        e = [i \in 0..Len(w) |-> IF i = 0 THEN base ELSE Leads(e[i - 1], w[i])]
  BY DEF Leads
<1>2. /\ base \in D /\ next \in [D \X A -> D] /\ Len(w) \in Nat
      /\ \A S \in D, a \in A : next[<<S, a>>] = Leads(S, a)
  <2>1. \A S, a : Leads(S, a) \in D
    BY EdgeTypes DEF Leads
  <2>2. base \in D
    BY DEF StartState, States
  <2>3. next \in [D \X A -> D] /\ \A S \in D, a \in A : next[<<S, a>>] = Leads(S, a)
    BY <2>1 DEF Leading
  <2> QED
    BY <2>2, <2>3
<1> HIDE DEF chosen, Solves, next, D, base
<1>3. \E e : Solves(e)
  <2>1. PICK f : Along(f, D, base, next, w)
    BY <1>2, AlongExists
  <2>2. f \in [0..Len(w) -> D] /\ f[0] = base
    BY <2>1 DEF Along
  <2>3. ASSUME NEW i \in 0..Len(w), i # 0 PROVE f[i] = Leads(f[i - 1], w[i])
    <3>1. i \in 1..Len(w) /\ i - 1 \in 0..Len(w) /\ w[i] \in A
      BY <1>2, <2>3
    <3> QED
      BY <1>2, <2>1, <2>2, <3>1 DEF Along
  <2>4. f = [i \in 0..Len(w) |-> IF i = 0 THEN base ELSE Leads(f[i - 1], w[i])]
    BY <2>2, <2>3
  <2> QED
    BY <1>1, <2>4
<1>4. Solves(chosen)
  BY <1>3 DEF chosen
<1>5. /\ IsFcnOn(chosen, 0..Len(w)) /\ chosen[0] = base
      /\ \A i \in 1..Len(w) : chosen[i] = Leads(chosen[i - 1], w[i])
  <2>1. chosen = [i \in 0..Len(w) |-> IF i = 0 THEN base ELSE Leads(chosen[i - 1], w[i])]
    BY <1>1, <1>4
  <2>2. chosen[0] = base /\ \A i \in 1..Len(w) : chosen[i] = Leads(chosen[i - 1], w[i])
    BY <1>2, <2>1
  <2>3. IsFcnOn(chosen, 0..Len(w))
    BY <2>1 DEF IsFcnOn
  <2> QED
    BY <2>2, <2>3
<1>6. \A i \in 1..Len(w) : chosen[i - 1] \in D => chosen[i] = next[<<chosen[i - 1], w[i]>>]
  BY <1>2, <1>5
<1>7. Along(chosen, D, base, next, w)
  BY <1>2, <1>5, <1>6, AlongIntro
<1> QED
  BY <1>0, <1>7 DEF D, base, next

\* One symbol more changes nothing of the prefixes before it.
LEMMA PrefixesLonger ==
  ASSUME NEW A, NEW w \in Seq(A), NEW x \in Seq(A), NEW a \in A, Longer(x, w, a)
  PROVE  /\ \A i \in 0..Len(w) : Prefixes(x)[i] = Prefixes(w)[i]
         /\ Prefixes(x)[Len(w) + 1] = Leads(Prefixes(w)[Len(w)], a)
<1> DEFINE f == Prefixes(w)
           g == Prefixes(x)
           next == Leading(A)
           D == SUBSET States
           base == {StartState}
<1>1. Along(f, D, base, next, w) /\ Along(g, D, base, next, x)
  BY PrefixesAlong
<1>2. Extends(x, w) /\ x[Len(w) + 1] = a /\ Len(w) \in 0..Len(w)
  BY DEF Longer, Extends
<1>3. \A S \in D : next[<<S, a>>] = Leads(S, a)
  BY DEF Leading
<1> HIDE DEF f, g, next, D, base
<1>4. Further(g, f, next, x, w)
  BY <1>1, <1>2, AlongLonger
<1>5. f[Len(w)] \in D
  BY <1>1, <1>2 DEF Along
<1> QED
  BY <1>2, <1>3, <1>4, <1>5 DEF Further, f, g

LEMMA PrefixesOfEmpty == Prefixes(<<>>)[0] = {StartState}
<1>1. <<>> \in Seq(States)
  OBVIOUS
<1> QED
  BY <1>1, PrefixesAlong DEF Along

LEMMA AdmissibleSymbols == \A q, a : a \in Admissible(q) => a \in Alphabet
<1>1. \A t \in Transitions : t[2] \in Alphabet
  BY DEF Transitions, EntryEdges, CableEdges, EnergyEdges, SuspensionEdges, ReleaseEdges,
         SettlementEdges, Alphabet, PhysicalSymbols, PowerSymbols, AuthSymbols,
         TelemetrySymbols, AdminSymbols
<1> QED
  BY <1>1 DEF Admissible

EdgeSet == States \X Alphabet \X States

LEMMA SymbolsAre ==
  ASSUME NEW h \in Seq(EdgeSet)
  PROVE  /\ Symbols(h) \in Seq(Alphabet) /\ Len(Symbols(h)) = Len(h)
         /\ \A e \in EdgeSet : Symbols(Append(h, e)) = Append(Symbols(h), e[2])
<1>0. Len(h) \in Nat /\ \A i \in 1..Len(h) : h[i] \in EdgeSet
  OBVIOUS
<1>1. Symbols(h) = [i \in 1..Len(h) |-> h[i][2]]
  BY DEF Symbols
<1>2. \A i \in 1..Len(h) : h[i][2] \in Alphabet
  BY <1>0 DEF EdgeSet
<1>3. Symbols(h) \in [1..Len(h) -> Alphabet]
  BY <1>1, <1>2
<1>4. Symbols(h) \in Seq(Alphabet) /\ Len(Symbols(h)) = Len(h)
  BY <1>0, <1>3
<1>5. ASSUME NEW e \in EdgeSet PROVE Symbols(Append(h, e)) = Append(Symbols(h), e[2])
  <2> DEFINE k == Append(h, e)
             v == Append(Symbols(h), e[2])
  <2>1. /\ k \in Seq(EdgeSet) /\ Len(k) = Len(h) + 1 /\ k[Len(h) + 1] = e
        /\ \A i \in 1..Len(h) : k[i] = h[i]
    OBVIOUS
  <2>2. Symbols(k) = [i \in 1..(Len(h) + 1) |-> k[i][2]]
    BY <1>0, <2>1 DEF Symbols
  <2>3. /\ v \in Seq(Alphabet) /\ Len(v) = Len(h) + 1 /\ v[Len(h) + 1] = e[2]
        /\ \A i \in 1..Len(h) : v[i] = h[i][2]
    BY <1>1, <1>4 DEF EdgeSet
  <2>4. v = [i \in 1..(Len(h) + 1) |-> v[i]]
    BY <2>3
  <2> HIDE DEF k, v
  <2>5. \A i \in 1..(Len(h) + 1) : v[i] = k[i][2]
    BY <1>0, <2>1, <2>3
  <2>6. Symbols(k) = v
    BY <2>2, <2>4, <2>5
  <2> QED
    BY <2>6 DEF k, v
<1> QED
  BY <1>4, <1>5

\* The symbols that have been accepted, and the state that evaluate_trace
\* finds a word in.
taken == Symbols(history)
EvaluatedTo(w) == Prefixes(w)[Len(w)]

IsWord(w) == \E A : w \in Seq(A)

\* The session has followed the symbols it has accepted, and counted ticks.
HasFollowed ==
  /\ history \in Seq(EdgeSet)
  /\ current \in States
  /\ EvaluatedTo(taken) = {current}
  /\ ticks = Cardinality({i \in DOMAIN taken : taken[i] = "meter_tick"})

\* So far every symbol has been accepted.
Unrejected ==
  /\ word = taken
  /\ current \in AcceptingStates => verdict = Safe

\* The last symbol of the word is the first that was rejected.
JustRejected ==
  /\ verdict = Rejection(current, taken, word[Len(word)])
  /\ taken = [j \in 1..(Len(word) - 1) |-> word[j]]
  /\ Prefixes(word)[Len(word) - 1] = {current}

\* Some symbol of the word was rejected.
Rejected ==
  /\ EvaluatedTo(word) = {}
  /\ \E n \in 1..Len(word) : Prefixes(word)[n] = {} /\ Prefixes(word)[n - 1] # {}
  /\ Prefixes(word)[Len(word) - 1] # {} => JustRejected

SessionInv == IsWord(word) /\ HasFollowed /\ (Unrejected \/ Rejected)

LEMMA InitSession == Init => SessionInv
<1> SUFFICES ASSUME Init PROVE SessionInv
  OBVIOUS
<1>1. current = StartState /\ history = <<>> /\ ticks = 0 /\ word = <<>>
  BY DEF Init
<1>2. taken = <<>>
  BY <1>1 DEF taken, Symbols
<1>3. EvaluatedTo(taken) = {current}
  BY <1>1, <1>2, PrefixesOfEmpty DEF EvaluatedTo
<1>4. {i \in DOMAIN taken : taken[i] = "meter_tick"} = {}
  BY <1>2
<1>5. HasFollowed
  BY <1>1, <1>3, <1>4, FS_EmptySet DEF HasFollowed, StartState, States
<1>6. IsWord(word)
  <2>1. word \in Seq({})
    BY <1>1
  <2> QED
    BY <2>1 DEF IsWord
<1>7. Unrejected
  BY <1>1, <1>2 DEF Unrejected, StartState, AcceptingStates
<1> QED
  BY <1>5, <1>6, <1>7 DEF SessionInv

\* One symbol more, whatever is made of it.
LEMMA WordLonger ==
  ASSUME NEW w, IsWord(w), NEW a
  PROVE  LET x == Append(w, a)
         IN  /\ IsWord(x) /\ Len(w) \in Nat /\ Len(x) = Len(w) + 1 /\ x[Len(w) + 1] = a
             /\ \A i \in 1..Len(w) : x[i] = w[i]
             /\ \A i \in 0..Len(w) : Prefixes(x)[i] = Prefixes(w)[i]
             /\ Prefixes(x)[Len(w) + 1] = Leads(Prefixes(w)[Len(w)], a)
             /\ w = [j \in 1..((Len(w) + 1) - 1) |-> x[j]]
<1>1. PICK B : w \in Seq(B)
  BY DEF IsWord
<1> DEFINE A == B \cup {a}
           x == Append(w, a)
<1>2. w \in Seq(A) /\ a \in A
  BY <1>1
<1>3. x \in Seq(A) /\ Longer(x, w, a)
  <2> HIDE DEF A
  <2> QED
    BY <1>2, AppendIsLonger
<1>4. /\ \A i \in 0..Len(w) : Prefixes(x)[i] = Prefixes(w)[i]
      /\ Prefixes(x)[Len(w) + 1] = Leads(Prefixes(w)[Len(w)], a)
  <2> HIDE DEF A, x
  <2> QED
    BY <1>2, <1>3, PrefixesLonger
<1>5. /\ Len(w) \in Nat /\ Len(x) = Len(w) + 1 /\ x[Len(w) + 1] = a
      /\ \A i \in 1..Len(w) : x[i] = w[i]
  BY <1>2
<1>6. w = [j \in 1..((Len(w) + 1) - 1) |-> x[j]]
  BY <1>1
<1> QED
  BY <1>3, <1>4, <1>5, <1>6 DEF IsWord

\* What was rejected stays rejected.
LEMMA StaysRejected ==
  ASSUME IsWord(word), Rejected, NEW a, word' = Append(word, a)
  PROVE  Rejected'
<1> DEFINE L == Len(word)
           x == Append(word, a)
<1>1. /\ L \in Nat /\ Len(x) = L + 1
      /\ \A i \in 0..L : Prefixes(x)[i] = Prefixes(word)[i]
      /\ Prefixes(x)[L + 1] = Leads(Prefixes(word)[L], a)
  BY WordLonger
<1>2. Prefixes(word)[L] = {}
  BY DEF Rejected, EvaluatedTo
<1>3. Prefixes(x)[L + 1] = {}
  BY <1>1, <1>2 DEF Leads
<1>4. PICK n \in 1..L : Prefixes(word)[n] = {} /\ Prefixes(word)[n - 1] # {}
  BY DEF Rejected
<1>5. n \in 1..Len(x) /\ Prefixes(x)[n] = {} /\ Prefixes(x)[n - 1] # {}
  BY <1>1, <1>4
<1>6. Prefixes(x)[Len(x) - 1] = {}
  BY <1>1, <1>2
<1>7. word' = x
  OBVIOUS
<1> HIDE DEF x, L
<1> QED
  BY <1>1, <1>3, <1>5, <1>6, <1>7 DEF Rejected, EvaluatedTo

LEMMA AcceptKeeps ==
  ASSUME SessionInv, NEW a, Accept(a)
  PROVE  SessionInv'
<1>1. /\ a \in Admissible(current) /\ a \in Alphabet
      /\ current' = Target(current, a)
      /\ history' = Append(history, <<current, a, Target(current, a)>>)
      /\ ticks' = ticks + (IF a = "meter_tick" THEN 1 ELSE 0)
      /\ verdict' = IF current' \in AcceptingStates THEN Safe ELSE verdict
      /\ word' = Append(word, a)
  BY NormalizeIsIdentity, AdmissibleSymbols DEF Accept, Edge, Energy
<1>2. /\ IsWord(word) /\ history \in Seq(EdgeSet) /\ current \in States
      /\ EvaluatedTo(taken) = {current}
      /\ ticks = Cardinality({i \in DOMAIN taken : taken[i] = "meter_tick"})
  BY DEF SessionInv, HasFollowed
<1>3. Leads({current}, a) = {current'} /\ current' \in States
  BY <1>1, <1>2, LeadsFrom
<1>4. /\ <<current, a, Target(current, a)>> \in EdgeSet
      /\ history' \in Seq(EdgeSet)
  BY <1>1, <1>2, <1>3 DEF EdgeSet
<1>5. /\ taken \in Seq(Alphabet) /\ taken' = Append(taken, a)
  BY <1>1, <1>2, <1>4, SymbolsAre DEF taken
<1> DEFINE t == taken
           u == Append(taken, a)
<1>6. IsWord(t)
  BY <1>5 DEF IsWord
<1>7. /\ Len(t) \in Nat /\ Len(u) = Len(t) + 1 /\ u[Len(t) + 1] = a
      /\ \A i \in 1..Len(t) : u[i] = t[i]
      /\ Prefixes(u)[Len(t) + 1] = Leads(Prefixes(t)[Len(t)], a)
      /\ DOMAIN t = 1..Len(t) /\ DOMAIN u = 1..(Len(t) + 1)
  <2>1. DOMAIN t = 1..Len(t) /\ DOMAIN u = 1..(Len(t) + 1)
    BY <1>5
  <2> QED
    BY <1>6, <2>1, WordLonger
<1> HIDE DEF t, u
<1>8. Prefixes(u)[Len(u)] = {current'}
  BY <1>2, <1>3, <1>7 DEF EvaluatedTo, t
<1>9. ticks' = Cardinality({i \in DOMAIN u : u[i] = "meter_tick"})
  <2> DEFINE old == {i \in DOMAIN t : t[i] = "meter_tick"}
             new == {i \in DOMAIN u : u[i] = "meter_tick"}
  <2>1. new = IF a = "meter_tick" THEN old \cup {Len(t) + 1} ELSE old
    BY <1>7
  <2>2. IsFiniteSet(old) /\ Len(t) + 1 \notin old
    <3>1. IsFiniteSet(1..Len(t))
      BY <1>7, FS_Interval
    <3> QED
      BY <1>7, <3>1, FS_Subset
  <2>3. ticks = Cardinality(old)
    BY <1>2 DEF t
  <2>4. Cardinality(old) \in Nat
    BY <2>2, FS_CardinalityType
  <2> HIDE DEF old, new
  <2>5. Cardinality(old \cup {Len(t) + 1}) = Cardinality(old) + 1
    BY <2>2, FS_AddElement
  <2>6. ticks' = Cardinality(new)
    BY <1>1, <2>1, <2>3, <2>4, <2>5
  <2> QED
    BY <2>6 DEF new
<1>10. HasFollowed'
  BY <1>3, <1>4, <1>5, <1>8, <1>9 DEF HasFollowed, EvaluatedTo, u
<1>11. IsWord(word')
  BY <1>1, <1>2, WordLonger
<1>12. CASE Unrejected
  <2>1. word' = taken'
    BY <1>1, <1>5, <1>12 DEF Unrejected
  <2>2. current' \in AcceptingStates => verdict' = Safe
    BY <1>1
  <2> QED
    BY <1>10, <1>11, <2>1, <2>2 DEF SessionInv, Unrejected
<1>13. CASE Rejected
  BY <1>1, <1>2, <1>10, <1>11, <1>13, StaysRejected DEF SessionInv
<1> QED
  BY <1>12, <1>13 DEF SessionInv

LEMMA RejectKeeps ==
  ASSUME SessionInv, NEW a, Reject(a)
  PROVE  SessionInv'
<1>1. /\ a \notin Admissible(current)
      /\ verdict' = Rejection(current, taken, a)
      /\ word' = Append(word, a)
      /\ UNCHANGED <<current, history, ticks>>
  BY NormalizeIsIdentity DEF Reject, Consumed, taken
<1>2. taken' = taken
  BY <1>1 DEF taken
<1>3. HasFollowed'
  BY <1>1, <1>2 DEF SessionInv, HasFollowed
<1>4. IsWord(word) /\ current \in States /\ EvaluatedTo(taken) = {current}
  BY DEF SessionInv, HasFollowed
<1> DEFINE L == Len(word)
           x == Append(word, a)
<1>5. /\ IsWord(x) /\ L \in Nat /\ Len(x) = L + 1 /\ x[L + 1] = a
      /\ \A i \in 0..L : Prefixes(x)[i] = Prefixes(word)[i]
      /\ Prefixes(x)[L + 1] = Leads(Prefixes(word)[L], a)
      /\ word = [j \in 1..((L + 1) - 1) |-> x[j]]
  BY <1>4, WordLonger
<1>6. word' = x
  BY <1>1
<1>7. CASE Unrejected
  <2>1. Prefixes(word)[L] = {current} /\ taken = word
    BY <1>4, <1>7 DEF Unrejected, EvaluatedTo
  <2> HIDE DEF x, L
  <2>2. Prefixes(x)[L + 1] = {}
    BY <1>1, <1>4, <1>5, <2>1, LeadsFrom
  <2>3. Prefixes(x)[(L + 1) - 1] = {current}
    BY <1>5, <2>1
  <2>4. JustRejected'
    BY <1>1, <1>2, <1>5, <1>6, <2>1, <2>3 DEF JustRejected
  <2>5. \E n \in 1..Len(x) : Prefixes(x)[n] = {} /\ Prefixes(x)[n - 1] # {}
    <3>1. L + 1 \in 1..Len(x) /\ {current} # {}
      BY <1>5
    <3>2. Prefixes(x)[L + 1] = {} /\ Prefixes(x)[(L + 1) - 1] # {}
      BY <2>2, <2>3, <3>1
    <3> QED
      BY <3>1, <3>2
  <2>6. Rejected'
    BY <1>5, <1>6, <2>2, <2>4, <2>5 DEF Rejected, EvaluatedTo
  <2> QED
    BY <1>3, <1>5, <1>6, <2>6 DEF SessionInv
<1>8. CASE Rejected
  <2>1. Rejected'
    BY <1>1, <1>4, <1>8, StaysRejected
  <2> QED
    BY <1>3, <1>5, <1>6, <2>1 DEF SessionInv
<1> QED
  BY <1>7, <1>8 DEF SessionInv

LEMMA StutterKeeps ==
  ASSUME SessionInv, UNCHANGED vars
  PROVE  SessionInv'
BY DEF SessionInv, HasFollowed, Unrejected, Rejected, JustRejected, EvaluatedTo, taken, vars

LEMMA SessionKeeps ==
  ASSUME SessionInv, [Next]_vars
  PROVE  SessionInv'
<1>1. CASE Next
  BY <1>1, AcceptKeeps, RejectKeeps DEF Next
<1>2. CASE UNCHANGED vars
  BY <1>2, StutterKeeps
<1> QED
  BY <1>1, <1>2

\* Whatever the adapter does, its session takes a step of its own or none.
LEMMA AdapterKeeps ==
  ASSUME SessionInv, [AdapterNext]_adapterVars
  PROVE  SessionInv'
<1>1. CASE UNCHANGED vars
  BY <1>1, StutterKeeps
<1>2. CASE \E a : Accept(a) \/ Reject(a)
  BY <1>2, AcceptKeeps, RejectKeeps
<1>3. UNCHANGED vars \/ \E a : Accept(a) \/ Reject(a)
  BY DEF AdapterNext, LoadStep, RefuseFile, Build, Explore, Conclude, Receive, ReceiveUnknown,
         adapterVars
<1> QED
  BY <1>1, <1>2, <1>3

\* The verdict on a word that was not rejected.
LEMMA EvaluateUnrejected ==
  ASSUME NEW w, NEW q, EvaluatedTo(w) = {q}
  PROVE  /\ q \in AcceptingStates => Evaluate(w) = Safe
         /\ q \notin AcceptingStates =>
              /\ Evaluate(w).kind = "incomplete"
              /\ Evaluate(w).offers = [j \in 1..Len(w) |-> w[j]]
<1>1. Prefixes(w)[Len(w)] = {q}
  BY DEF EvaluatedTo
<1>2. \A j \in 1..Len(w) : Normalize(w[j]) = w[j]
  BY NormalizeIsIdentity
<1> HIDE DEF Prefixes, AcceptingStates, Safe, Normalize
<1>3. CASE q \in AcceptingStates
  BY <1>1, <1>3 DEF Evaluate
<1>4. CASE q \notin AcceptingStates
  <2>1. Evaluate(w) = [kind |-> "incomplete", index |-> Len(w),
                       offers |-> [j \in 1..Len(w) |-> Normalize(w[j])],
                       repair |-> UNION {Repair[r] : r \in Prefixes(w)[Len(w)]}]
    BY <1>1, <1>4 DEF Evaluate
  <2> QED
    BY <1>2, <1>4, <2>1
<1> QED
  BY <1>3, <1>4

\* The verdict on a word that was rejected: that of its first rejection.
LEMMA EvaluateRejected ==
  ASSUME NEW w, EvaluatedTo(w) = {},
         \E n \in DOMAIN w : Prefixes(w)[n] = {} /\ Prefixes(w)[n - 1] # {}
  PROVE  \E i \in DOMAIN w :
           /\ Prefixes(w)[i - 1] # {}
           /\ Evaluate(w) = Rejection(CHOOSE q \in Prefixes(w)[i - 1] : TRUE,
                                      [j \in 1..(i - 1) |-> w[j]], w[i])
<1> DEFINE at == Prefixes(w)
           i == CHOOSE n \in DOMAIN w : at[n] = {} /\ at[n - 1] # {}
<1>1. i \in DOMAIN w /\ at[i - 1] # {}
  OBVIOUS
<1>2. at[Len(w)] = {}
  BY DEF EvaluatedTo
<1>3. Evaluate(w) = Rejection(CHOOSE q \in at[i - 1] : TRUE,
                              [j \in 1..(i - 1) |-> Normalize(w[j])], w[i])
  BY <1>2 DEF Evaluate
<1>4. [j \in 1..(i - 1) |-> Normalize(w[j])] = [j \in 1..(i - 1) |-> w[j]]
  BY NormalizeIsIdentity
<1> QED
  BY <1>1, <1>3, <1>4

LEMMA InvMeetsOffline == SessionInv => OnlineMeetsOffline
<1> SUFFICES ASSUME SessionInv PROVE OnlineMeetsOffline
  OBVIOUS
<1>1. /\ IsWord(word) /\ EvaluatedTo(taken) = {current}
      /\ ticks = Cardinality({i \in DOMAIN taken : taken[i] = "meter_tick"})
  BY DEF SessionInv, HasFollowed
<1>2. Len(word) \in Nat /\ DOMAIN word = 1..Len(word)
      /\ word = [j \in 1..Len(word) |-> word[j]]
  BY <1>1 DEF IsWord
<1> DEFINE offline == Evaluate(word)
<1> DEFINE Agrees ==
             /\ offline.kind = "undefined" /\ offline.index = Len(word) - 1 => verdict = offline
             /\ offline.kind = "safe" => verdict = Safe /\ current \in AcceptingStates
             /\ offline.kind = "incomplete" =>
                  offline.offers = taken /\ current \notin AcceptingStates
<1>3. ASSUME Unrejected PROVE Agrees
  <2>1. word = taken /\ EvaluatedTo(word) = {current}
    BY <1>1, <1>3 DEF Unrejected
  <2>2. CASE current \in AcceptingStates
    <3>1. offline = Safe /\ verdict = Safe
      BY <1>3, <2>1, <2>2, EvaluateUnrejected DEF Unrejected
    <3>2. Safe.kind = "safe"
      BY DEF Safe
    <3> HIDE DEF offline
    <3> QED
      BY <2>2, <3>1, <3>2
  <2>3. CASE current \notin AcceptingStates
    <3>1. offline.kind = "incomplete" /\ offline.offers = [j \in 1..Len(word) |-> word[j]]
      BY <2>1, <2>3, EvaluateUnrejected
    <3> HIDE DEF offline
    <3> QED
      BY <1>2, <2>1, <2>3, <3>1
  <2> QED
    BY <2>2, <2>3
<1>4. ASSUME Rejected PROVE Agrees
  <2>1. EvaluatedTo(word) = {}
        /\ \E n \in DOMAIN word : Prefixes(word)[n] = {} /\ Prefixes(word)[n - 1] # {}
    BY <1>2, <1>4 DEF Rejected
  <2>2. PICK i \in DOMAIN word :
          /\ Prefixes(word)[i - 1] # {}
          /\ Evaluate(word) = Rejection(CHOOSE q \in Prefixes(word)[i - 1] : TRUE,
                                        [j \in 1..(i - 1) |-> word[j]], word[i])
    BY <2>1, EvaluateRejected
  <2> HIDE DEF offline
  <2>3. offline.kind = "undefined" /\ offline.index = Len([j \in 1..(i - 1) |-> word[j]])
    <3>1. \A q, c, a : Rejection(q, c, a).kind = "undefined" /\ Rejection(q, c, a).index = Len(c)
      BY DEF Rejection
    <3> QED
      BY <2>2, <3>1 DEF offline
  <2>4. offline.index = i - 1 /\ i \in 1..Len(word)
    <3>1. i - 1 \in Nat
      BY <1>2
    <3> QED
      BY <1>2, <2>3, <3>1
  <2>5. ASSUME offline.index = Len(word) - 1 PROVE verdict = offline
    <3>1. i = Len(word)
      BY <1>2, <2>4, <2>5
    <3>2. JustRejected
      BY <1>4, <2>2, <3>1 DEF Rejected
    <3>3. (CHOOSE q \in Prefixes(word)[i - 1] : TRUE) = current
      BY <3>1, <3>2 DEF JustRejected
    <3> QED
      BY <2>2, <3>1, <3>2, <3>3 DEF JustRejected, offline
  <2> QED
    BY <2>3, <2>5
<1>5. Agrees
  <2> HIDE DEF Agrees
  <2> QED
    BY <1>3, <1>4 DEF SessionInv
<1> QED
  BY <1>1, <1>5 DEF OnlineMeetsOffline, EvaluatedTo, taken

\* A session is what evaluate_trace makes of the symbols it accepted, and its
\* verdict that on the word it was offered, whatever the offers and however
\* many there are.
THEOREM SessionMeetsOffline == Spec => []OnlineMeetsOffline
BY InitSession, SessionKeeps, InvMeetsOffline, PTL DEF Spec

\* The same of a session that an adapter drives, loaded with validation or not.
THEOREM AdapterMeetsOffline == AdapterSpec => []OnlineMeetsOffline
<1>1. AdapterInit => SessionInv
  BY InitSession DEF AdapterInit
<1> QED
  BY <1>1, AdapterKeeps, InvMeetsOffline, PTL DEF AdapterSpec
=============================================================================
