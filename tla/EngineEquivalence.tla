------------------------- MODULE EngineEquivalence -------------------------
(***************************************************************************)
(* The engines that walk the IR, two-state and four-state, beside the pair *)
(* of EnginePair: they make a whole tick when the CSP engine begins one.   *)
(* The four-state engine is left out for designs with memories or initial  *)
(* blocks: their ports and initial statements compute with Python          *)
(* integers, on which it fails.                                            *)
(***************************************************************************)
EXTENDS EnginePair, FourState

VARIABLES dict, four  \* the states of these engines

LevelItself(level) == level

Two == INSTANCE TickEngine WITH
         Track <- TrackBlock, LevelValue <- LevelItself, Active <- ResetActive

\* FourState.from_int, for signals of one bit.
Lift(v) == FromInt(v, [width |-> 1, signed |-> FALSE])
LiftAll(S) == [s \in Signal |-> Lift(S[s])]

FourValue == [shape : {[width |-> 1, signed |-> FALSE]}, aval : {0, 1}, bval : {0, 1}]

Four == INSTANCE TickEngine WITH
          Value <- FourValue, Exec <- Track4, Designs <- {},
          Track <- Track4, LevelValue <- Lift, Active <- ResetActive4

FourDesign == [design EXCEPT !.init = LiftAll(@)]

RunsFourState == ~HasMemories /\ design.initial = << >>

AllInit ==
  PairInit /\ dict = Two!Start(design, eSig) /\ four = Four!Start(FourDesign, LiftAll(eSig))

\* The other engines start where the initial blocks end and tick with the CSP
\* engine.
WalkTheIR ==
  /\ dict' = CASE ePc = "init" -> Two!Start(design, eSig')
                [] ePc = "tick" /\ ePc' = "toggle" -> Two!Advance(design, dict)
                [] OTHER -> dict
  /\ four' = CASE ePc = "init" -> Four!Start(FourDesign, LiftAll(eSig'))
                [] ePc = "tick" /\ ePc' = "toggle" /\ RunsFourState -> Four!Advance(FourDesign, four)
                [] OTHER -> four

AllNext == PairNext /\ WalkTheIR

AllSpec == AllInit /\ [][AllNext]_<<pairVars, dict, four>>

-----------------------------------------------------------------------------
\* Properties.

\* At the end of every tick, the engine that walks the IR has the same signals
\* and words as the CSP engine (or, stopped by $finish, the signals of the run
\* loop), and it fails in the same ticks.  It counts a signal as moved that a
\* block changes and changes back, and so may settle more components: those of
\* the designs at hand then write what they hold.
SameDictionary ==
  /\ ePc = "record" =>
       IF eFinished
       THEN dict.exit = "finish" /\ (~HasMemories => dict.sig = sig)
       ELSE dict.exit = "ok" /\ dict.sig = eSig /\ dict.words = words /\ dict.due = eDue
  /\ ePc = "raised" /\ eTc > 0 => dict.exit = "error"
=============================================================================
