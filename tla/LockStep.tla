------------------------------ MODULE LockStep ------------------------------
(***************************************************************************)
(* What run_parallel_testbenches promises (testbench.py): several test     *)
(* functions act on one simulation, and the simulation advances only while *)
(* every one of them stands at its tick.  "All threads synchronize at each *)
(* tick() call so the simulation advances in lock-step."                   *)
(***************************************************************************)
EXTENDS Integers

CONSTANTS Thread, MaxCycles

VARIABLES
  mode,   \* of each thread: acting on the simulation, parked at a tick,
          \* dropped out of a tick by an exception, or gone for good
  done,   \* the ticks each thread has come back from
  cycle   \* the cycles the simulation has made

absVars == <<mode, done, cycle>>

Init ==
  /\ mode = [t \in Thread |-> "acting"]
  /\ done = [t \in Thread |-> 0]
  /\ cycle = 0

Park(t) ==
  /\ mode[t] = "acting"
  /\ mode' = [mode EXCEPT ![t] = "parked"]
  /\ UNCHANGED <<done, cycle>>

\* The simulation advances once nobody acts or is gone, and once per round.
Tick ==
  /\ cycle < MaxCycles
  /\ \A t \in Thread : mode[t] \in {"parked", "dropped"} /\ done[t] = cycle
  /\ cycle' = cycle + 1
  /\ UNCHANGED <<mode, done>>

Resume(t) ==
  /\ mode[t] = "parked" /\ done[t] < cycle
  /\ mode' = [mode EXCEPT ![t] = "acting"]
  /\ done' = [done EXCEPT ![t] = @ + 1]
  /\ UNCHANGED cycle

Drop(t) ==
  /\ mode[t] = "parked"
  /\ mode' = [mode EXCEPT ![t] = "dropped"]
  /\ UNCHANGED <<done, cycle>>

Leave(t) ==
  /\ mode[t] = "acting"
  /\ mode' = [mode EXCEPT ![t] = "gone"]
  /\ UNCHANGED <<done, cycle>>

Next == Tick \/ \E t \in Thread : Park(t) \/ Resume(t) \/ Drop(t) \/ Leave(t)

Spec == Init /\ [][Next]_absVars
=============================================================================
