----------------------------- MODULE RunLoopRTL -----------------------------
(***************************************************************************)
(* The run loop implements ClockedDesign: noting what moved, settling only *)
(* the components reached, and only in ticks that fire, cannot be told     *)
(* from settling everything in every tick.                                 *)
(*                                                                         *)
(* Between ticks the loop's signals stand for the valuation in which every *)
(* component has settled; while a tick is under way, for the one the tick  *)
(* began with, so that the last step of the walk is the abstract tick.     *)
(***************************************************************************)
EXTENDS RunLoop, Components

ASSUME ComponentsAssumption == \A D \in Designs : ComponentsOK(D)

\* A tick in which nothing fires has not moved what components touch.
QuietTicks ==
  pc = "record" /\ ~fired =>
    \A c \in 1 .. Len(Comps) : Comps[c].signals \cap Differing(sig, snap) = {}

Settled(S) ==
  Through([c \in 1 .. Len(Comps) |-> [T \in Valuation |-> Exec(Comps[c].block, T).sig]], S)

AbsStatus ==
  CASE pc \in {"init", "seed"}   -> "init"
    [] pc \in {"done", "raised"} -> pc
    [] OTHER                     -> "running"

\* A tick that raises an exception never becomes an abstract tick.
AbsTc == IF tc > 0 /\ (MidTick \/ pc = "raised") THEN tc - 1 ELSE tc

AbsSig ==
  CASE pc = "tick"                        -> Settled(sig)
    [] pc = "done"                        -> IF finished \/ tc = 0 THEN sig ELSE Settled(sig)
    [] MidTick \/ (pc = "raised" /\ tc > 0) -> Settled(snap)
    [] OTHER                              -> snap

RTL == INSTANCE ClockedDesign WITH
         status <- AbsStatus, tc <- AbsTc, sig <- AbsSig

\* The traces, the end of the run and the tick count are those of a design that
\* settles completely in every tick.
ImplementsClockedDesign == RTL!Spec
=============================================================================
