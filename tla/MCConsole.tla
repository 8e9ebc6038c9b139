----------------------------- MODULE MCConsole -----------------------------
(***************************************************************************)
(* The console with few bays and buttons, in two settings, one per         *)
(* behaviour: a client alone, who waits for every answer, with events      *)
(* planned for later; and two clients who do as they like, with one event  *)
(* posted for the present time.  MCActions take a session through the      *)
(* beginning of its lifecycle and recycle it; the faults stop it.          *)
(***************************************************************************)
EXTENDS Console

CONSTANTS h1, h2

TwoClients == {h1, h2}
MCActions == {"auth", "plug"}
FewActions == {"plug", "lock", "reserve"}

ASSUME MCNoWayBack == NoWayBack

VARIABLE setting

ConsoleInit == Init /\ setting \in {"one client", "two clients"}

OneClient == job'[h2] = job[h2]

PostedNow ==
  /\ \A i \in DOMAIN pending' : pending'[i].time = 0
  /\ Cardinality({i \in DOMAIN pending' : pending'[i].owner = "nobody"}) <= 1

ConsoleNext ==
  /\ Next
  /\ setting = "one client" => OneClient
  /\ setting = "two clients" => PostedNow
  /\ UNCHANGED setting

ConsoleSpec == ConsoleInit /\ [][ConsoleNext]_<<vars, setting>>

\* The fairness of Console.
FairConsoleSpec == ConsoleSpec /\ \A h \in Handlers : WF_console(Serve(h))
=============================================================================
