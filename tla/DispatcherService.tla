-------------------------- MODULE DispatcherService --------------------------
(***************************************************************************)
(* What the dispatcher promises to NetworkManager, without scripts, child  *)
(* processes, queues or counters.  Calls are numbered in the order of      *)
(* their arrival.  A call is held until it is answered, once.  Some calls  *)
(* are serial (they have "wait" scripts): at most one of them is served at *)
(* a time, the oldest one that is held, and they are answered in the order *)
(* of the calls.  The other calls are answered in any order.  When the     *)
(* service closes, what it holds stays unanswered.                         *)
(***************************************************************************)
EXTENDS Naturals

CONSTANT MaxCalls   \* bound: number of calls

VARIABLES
  calls,    \* number of calls received
  held,     \* the calls that are not answered
  serial,   \* those of them that are serial
  serving,  \* the serial call that a script runs for, if any
  open      \* whether the service still runs

serviceVars == <<calls, held, serial, serving, open>>

(* The oldest serial call, as a set. *)
Oldest(s) == {r \in s : \A t \in s : r <= t}

Init ==
  /\ calls = 0
  /\ held = {}
  /\ serial = {}
  /\ serving = {}
  /\ open = TRUE

(* A call arrives.  It is answered at once, or held. *)
Call ==
  /\ open
  /\ calls < MaxCalls
  /\ calls' = calls + 1
  /\ \/ held' = held /\ serial' = serial
     \/ held' = held \union {calls + 1} /\ serial' = serial
     \/ held' = held \union {calls + 1} /\ serial' = serial \union {calls + 1}
  /\ serving' \in SUBSET Oldest(serial')
  /\ UNCHANGED open

(* The calls of the set s are answered: a serial one only together with or *)
(* after the serial calls that came before it.                             *)
Answer(s) ==
  /\ open
  /\ \A r \in s \intersect serial : \A t \in serial : t < r => t \in s
  /\ held' = held \ s
  /\ serial' = serial \ s
  /\ serving' \in SUBSET Oldest(serial')
  /\ UNCHANGED <<calls, open>>

Close ==
  /\ open
  /\ open' = FALSE
  /\ UNCHANGED <<calls, held, serial, serving>>

Next ==
  \/ Call
  \/ \E s \in SUBSET held : Answer(s)
  \/ Close

Spec == Init /\ [][Next]_serviceVars
=============================================================================
