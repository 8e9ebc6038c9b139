------------------------------ MODULE Adapters ------------------------------
(***************************************************************************)
(* A protocol adapter on its way from a file to a session (afco/adapters): *)
(* the loader builds a Mealy transducer from the rows of a document,       *)
(* check_conformance explores its product with M_S, and the transducer of  *)
(* a loaded adapter translates vendor events into the symbols offered to a *)
(* session.  A document is the parsed file: a list of states, a start and  *)
(* a list of rows, which are records that may lack a field.                *)
(***************************************************************************)
EXTENDS Session

CONSTANTS
  Documents, \* the files, by number
  Loads,     \* the calls of load_adapter: a file and the validate flag
  Null,      \* an explicit null: the row emits nothing
  Junk,      \* a value that is no string
  Patience   \* bound: how many symbols the adapter of a file may emit

ASSUME AdapterAssumption ==
  /\ Null # Junk
  /\ {Null, Junk} \cap Alphabet = {}
  /\ \A d \in DOMAIN Documents :
       /\ Len(Documents[d].states) \in Nat
       /\ DOMAIN Documents[d].states = 1..Len(Documents[d].states)
  /\ Loads \subseteq (DOMAIN Documents) \X BOOLEAN
  /\ Patience \in [DOMAIN Documents -> Nat]

VARIABLES
  file,
  validate, \* the loader's flag
  phase,    \* file, malformed, checking, refused, loaded or stopped
  seen,     \* the pairs of a vendor state and a canonical state found
  pending,  \* those not looked at yet; the order has no influence
  errors,   \* the kinds of errors found
  vendor    \* the transducer's current state

adapterVars == <<vars, file, validate, phase, seen, pending, errors, vendor>>

document == Documents[file]
Rows == document.rows
Declared == {document.states[i] : i \in DOMAIN document.states}
Required == {"from", "event", "to", "emit"}

GoodHeader ==
  /\ document.states # <<>>
  /\ {Null, Junk} \cap (Declared \cup {document.start}) = {}
  /\ Cardinality(Declared) = Len(document.states)

Complete == \A i \in DOMAIN Rows : Required \subseteq DOMAIN Rows[i]

Typed ==
  \A i \in DOMAIN Rows :
    {Null, Junk} \cap {Rows[i].from, Rows[i].event, Rows[i].to} = {} /\ Rows[i].emit # Junk

\* No two rows for one event of a state.
Deterministic ==
  Cardinality({<<Rows[i].from, Rows[i].event>> : i \in DOMAIN Rows}) = Len(Rows)

\* What the transducer's constructor asks for.
StatesDeclared ==
  /\ document.start \in Declared
  /\ \A i \in DOMAIN Rows : {Rows[i].from, Rows[i].to} \subseteq Declared

WellFormed == GoodHeader /\ Complete /\ Typed /\ Deterministic /\ StatesDeclared

\* The transducer's edges <<source, event, target, emission>>.
Edges == {<<Rows[i].from, Rows[i].event, Rows[i].to, Rows[i].emit>> : i \in DOMAIN Rows}
Events == {e[2] : e \in Edges}
EdgesFrom(v) == {e \in Edges : e[1] = v}

\* The canonical state after an emission, as a set of at most one.
After(q, out) ==
  IF out = Null THEN {q} ELSE {t[3] : t \in {u \in Transitions : u[1] = q /\ u[2] = out}}

RangeErrors == IF \E e \in Edges : e[4] \notin Alphabet \cup {Null} THEN {"range"} ELSE {}

AdapterInit ==
  /\ Init
  /\ \E load \in Loads : file = load[1] /\ validate = load[2]
  /\ phase = "file"
  /\ seen = {}
  /\ pending = {}
  /\ errors = {}
  /\ vendor = document.start

\* The loader raises AdapterLoadError.
RefuseFile ==
  /\ phase = "file"
  /\ ~WellFormed
  /\ phase' = "malformed"
  /\ UNCHANGED <<vars, file, validate, seen, pending, errors, vendor>>

Build ==
  /\ phase = "file"
  /\ WellFormed
  /\ IF validate
     THEN /\ phase' = "checking"
          /\ seen' = {<<document.start, StartState>>}
          /\ pending' = seen'
          /\ errors' = RangeErrors
     ELSE /\ phase' = "loaded"
          /\ UNCHANGED <<seen, pending, errors>>
  /\ UNCHANGED <<vars, file, validate, vendor>>

Found(p) == UNION {{e[3]} \X After(p[2], e[4]) : e \in EdgesFrom(p[1])}

PrefixErrors(p) ==
  IF \E e \in EdgesFrom(p[1]) : After(p[2], e[4]) = {} THEN {"prefix"} ELSE {}

\* Mutants: a vendor state is looked at once only, in whichever canonical
\* state; pairs that have been looked at are queued again.
FreshByVendor(p) == {r \in Found(p) : r[1] \notin {s[1] : s \in seen}}
FreshAlways(p) == Found(p)
Fresh(p) == Found(p) \ seen

\* One turn of the product exploration.
Explore(p) ==
  /\ phase = "checking"
  /\ p \in pending
  /\ pending' = (pending \ {p}) \cup Fresh(p)
  /\ seen' = seen \cup Fresh(p)
  /\ errors' = errors \cup PrefixErrors(p)
  /\ UNCHANGED <<vars, file, validate, phase, vendor>>

\* The canonical states with a way to COMPLETED.
Recoverable == CoReachable[Cardinality(States)]

\* A mutant: the trap counts as a way to end.
TrapErrorsNone == {}
TrapErrors == IF \E p \in seen : p[2] \notin Recoverable THEN {"trap"} ELSE {}

Conclude ==
  /\ phase = "checking"
  /\ pending = {}
  /\ errors' = errors \cup TrapErrors
  /\ phase' = IF errors' = {} THEN "loaded" ELSE "refused"
  /\ UNCHANGED <<vars, file, validate, seen, pending, vendor>>

\* step and transduce along an edge, the emission offered to the session.
Receive(e) ==
  /\ Len(word) < Patience[file]
  /\ vendor' = e[3]
  /\ \/ e[4] = Null /\ UNCHANGED vars
     \/ e[4] # Null /\ (Accept(e[4]) \/ Reject(e[4]))
  /\ UNCHANGED <<file, validate, phase, seen, pending, errors>>

\* An event the vendor state has no edge for ends the transduction.
ReceiveUnknown ==
  /\ phase = "loaded"
  /\ Events \ {e[2] : e \in EdgesFrom(vendor)} # {}
  /\ phase' = "stopped"
  /\ UNCHANGED <<vars, file, validate, seen, pending, errors, vendor>>

LoadStep == RefuseFile \/ Build \/ (\E p \in pending : Explore(p)) \/ Conclude

AdapterNext ==
  \/ LoadStep
  \/ phase = "loaded" /\ \E e \in EdgesFrom(vendor) : Receive(e)
  \/ ReceiveUnknown

AdapterSpec == AdapterInit /\ [][AdapterNext]_adapterVars

\* load_adapter is one call, and it runs.
AdapterFairSpec == AdapterSpec /\ WF_adapterVars(LoadStep)

-----------------------------------------------------------------------------
\* The reference: the pairs that words of at most n vendor events lead to.
Within[n \in Nat] ==
  IF n = 0 THEN {<<document.start, StartState>>}
  ELSE UNION {S \cup UNION {Found(p) : p \in S} : S \in {Within[n - 1]}}

\* What the four rules ask: every emission is canonical, no word of vendor
\* events translates to a word that M_S rejects, none leads M_S into its trap.
Conforming ==
  /\ RangeErrors = {}
  /\ \A p \in Within[Len(document.states) * Cardinality(States)] :
       PrefixErrors(p) = {} /\ p[2] \in Recoverable

\* check_conformance accepts exactly the conforming adapters, whatever circles
\* and silent edges they have and whichever pair is explored first.
ConformanceIsExact ==
  [][phase = "checking" /\ phase' # "checking" => (phase' = "loaded" <=> Conforming)]_adapterVars

\* A session driven by an adapter that was loaded with validation never
\* rejects what the adapter emits and is never trapped by it.
AdapterNeverRejected ==
  phase \in {"loaded", "stopped"} /\ validate =>
    verdict.kind # "undefined" /\ current \in Recoverable

\* Every file is answered, cyclic vendor protocols included.
ConformanceReturns == <>(phase \notin {"file", "checking"})
=============================================================================
