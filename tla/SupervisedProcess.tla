------------------------- MODULE SupervisedProcess -------------------------
(***************************************************************************)
(* What the agent promises about the user's processes, without a word of   *)
(* how: a service has one process at a time, a process that has ended      *)
(* never comes back, and only a process that ended on its own is blamed    *)
(* for it.  RuntimeLifecycle implements this when the host does not issue  *)
(* Stop or Init while another call is in flight.                           *)
(***************************************************************************)
CONSTANT Processes

VARIABLES
  running,   \* processes alive
  exited,    \* processes that ended on their own
  stopped,   \* processes the agent stopped
  blamed     \* processes reported as exited unexpectedly

vars == <<running, exited, stopped, blamed>>

Init == running = {} /\ exited = {} /\ stopped = {} /\ blamed = {}

Launch(p) ==
  /\ running = {}
  /\ p \notin exited \cup stopped
  /\ running' = {p}
  /\ UNCHANGED <<exited, stopped, blamed>>

ExitAlone(p) ==
  /\ p \in running
  /\ running' = running \ {p}
  /\ exited' = exited \cup {p}
  /\ UNCHANGED <<stopped, blamed>>

Retire(p) ==
  /\ p \in running
  /\ running' = running \ {p}
  /\ stopped' = stopped \cup {p}
  /\ UNCHANGED <<exited, blamed>>

Blame(p) ==
  /\ p \in exited
  /\ blamed' = blamed \cup {p}
  /\ UNCHANGED <<running, exited, stopped>>

Next == \E p \in Processes : Launch(p) \/ ExitAlone(p) \/ Retire(p) \/ Blame(p)

Spec == Init /\ [][Next]_vars
=============================================================================
