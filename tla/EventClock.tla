----------------------------- MODULE EventClock -----------------------------
(***************************************************************************)
(* The discrete-event clock (afco/sim/clock.py): a priority queue of       *)
(* events and a run loop that dispatches them in (time, sequence) order.   *)
(* A call of run is a sequence of steps, one per event, so that what its   *)
(* callbacks schedule falls between them.  An optional argument is a set   *)
(* of at most one value.                                                   *)
(***************************************************************************)
EXTENDS Naturals

CONSTANTS
  Horizon,      \* bound: the latest timestamp events and runs are given
  MaxSequence,  \* bound: how many events are scheduled between two resets
  RunCalls,     \* the calls of run made: records [until, max] of optionals
  MaxFollowUps  \* how many events one callback schedules

Times == 0..Horizon
Optional(S) == {{}} \cup {{x} : x \in S}
\* A budget above MaxSequence is the same as none.
Calls == [until : Optional(Times), max : Optional(0..MaxSequence)]

ASSUME ClockAssumption ==
  /\ Horizon \in Nat
  /\ MaxSequence \in Nat
  /\ RunCalls \subseteq Calls
  /\ MaxFollowUps \in {0, 1}

VARIABLES
  now,      \* the virtual time
  queue,    \* pending events
  sequence, \* the next sequence number
  running,  \* a call of run is in its loop
  until,    \* its until argument
  left,     \* max_events - processed, when max_events is given
  last      \* history: the last event dispatched since the last reset

clockVars == <<now, queue, sequence, running, until, left, last>>

Events == [time : Times, seq : 0..MaxSequence]

\* The order of ClockEvent: by time, then by sequence number.
Before(e, f) ==
  \/ e.time < f.time
  \/ e.time = f.time /\ e.seq < f.seq

ClockInit ==
  /\ now \in Times
  /\ queue = {}
  /\ sequence = 0
  /\ running = FALSE
  /\ until = {}
  /\ left = {}
  /\ last = {}

Event(t, s) == [time |-> t, seq |-> s]

\* A mutant: a timestamp in the past is accepted.
ScheduleAtAnyTime(t) ==
  /\ ~running
  /\ sequence < MaxSequence
  /\ queue' = queue \cup {Event(t, sequence)}
  /\ sequence' = sequence + 1
  /\ UNCHANGED <<now, running, until, left, last>>

\* schedule and schedule_at, called between runs.
ScheduleAt(t) ==
  /\ ~running
  /\ t >= now
  /\ sequence < MaxSequence
  /\ queue' = queue \cup {Event(t, sequence)}
  /\ sequence' = sequence + 1
  /\ UNCHANGED <<now, running, until, left, last>>

BeginRun(call) ==
  /\ ~running
  /\ \A u \in call.until : u >= now
  /\ running' = TRUE
  /\ until' = call.until
  /\ left' = call.max
  /\ UNCHANGED <<now, queue, sequence, last>>

\* The loop's condition on an event: within until, and the budget not spent.
Due(e) == (\A u \in until : e.time <= u) /\ (\A n \in left : n > 0)

\* A mutant: simultaneous events leave in any order.
IsFirstByTime(e) == \A f \in queue : e.time <= f.time

IsFirst(e) == \A f \in queue \ {e} : Before(e, f)

\* One iteration: the first event is popped, the clock jumps to it, and its
\* callback runs, which may schedule a further event from there on.
Dispatch(e) ==
  /\ running
  /\ e \in queue /\ IsFirst(e) /\ Due(e)
  /\ now' = e.time
  /\ \/ queue' = queue \ {e} /\ sequence' = sequence
     \/ \E t \in e.time..Horizon :
          /\ MaxFollowUps = 1
          /\ sequence < MaxSequence
          /\ queue' = (queue \ {e}) \cup {Event(t, sequence)}
          /\ sequence' = sequence + 1
  /\ left' = {n - 1 : n \in left}
  /\ last' = {e}
  /\ UNCHANGED <<running, until>>

\* The callback raises: the event is gone and the exception ends the run.
DispatchRaises(e) ==
  /\ running
  /\ e \in queue /\ IsFirst(e) /\ Due(e)
  /\ now' = e.time
  /\ queue' = queue \ {e}
  /\ last' = {e}
  /\ running' = FALSE
  /\ until' = {} /\ left' = {}
  /\ UNCHANGED sequence

\* A mutant: the loop only ends on an empty queue.
EndRunWhenEmpty ==
  /\ running
  /\ queue = {}
  /\ running' = FALSE
  /\ until' = {} /\ left' = {}
  /\ UNCHANGED <<now, queue, sequence, last>>

\* The loop ends when its condition fails on the first event: then it fails
\* on all, since no event is earlier.  With until given, the clock moves there.
EndRun ==
  /\ running
  /\ \A e \in queue : ~Due(e)
  /\ now' = IF \E u \in until : u > now THEN CHOOSE u \in until : TRUE ELSE now
  /\ running' = FALSE
  /\ until' = {} /\ left' = {}
  /\ UNCHANGED <<queue, sequence, last>>

Clear ==
  /\ ~running
  /\ queue' = {}
  /\ UNCHANGED <<now, sequence, running, until, left, last>>

Reset(t) ==
  /\ ~running
  /\ now' = t
  /\ sequence' = 0
  /\ queue' = {}
  /\ last' = {}
  /\ UNCHANGED <<running, until, left>>

Loop == (\E e \in queue : Dispatch(e) \/ DispatchRaises(e)) \/ EndRun

ClockNext ==
  \/ \E t \in Times : ScheduleAt(t) \/ Reset(t)
  \/ \E call \in RunCalls : BeginRun(call)
  \/ Loop
  \/ Clear

ClockSpec == ClockInit /\ [][ClockNext]_clockVars

\* run is a loop of the calling thread: once called, it goes on.
FairClockSpec == ClockSpec /\ WF_clockVars(Loop)

-----------------------------------------------------------------------------
ClockTypeOK ==
  /\ now \in Times
  /\ queue \subseteq Events
  /\ sequence \in 0..MaxSequence
  /\ running \in BOOLEAN
  /\ until \in Optional(Times)
  /\ left \in Optional(0..MaxSequence)
  /\ last \subseteq Events

\* schedule_at refuses a timestamp earlier than the clock, so that no pending
\* event lies in the past.
NoPastEvents == \A e \in queue : e.time >= now

\* The clock never runs backwards: only reset may set it back.
TimeNeverBackwards == [][now' >= now \/ \E t \in Times : Reset(t)]_clockVars

\* The deterministic order the clock promises, across runs, budgets and
\* follow-ups: an event is dispatched before everything still pending.
DispatchedInOrder == \A e \in last, f \in queue : Before(e, f)

\* A call of run comes back, also when callbacks schedule at the present time:
\* the clock never dispatches an event twice, and callbacks that schedule
\* finitely often (MaxSequence) cannot keep it busy.
RunReturns == running ~> ~running
=============================================================================
