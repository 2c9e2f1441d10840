------------------------- MODULE MCTestbenchContext -------------------------
(* Tests of up to three cycles on synchronous designs, one with two clock   *)
(* rates, one with a memory and one without sequential logic.               *)
EXTENDS TestbenchContext, MCDesigns

MCSettable == {"d", "rst"}
MCForceable == {"y"}
MCInput == {0, 3}
MCTrack(block, S) == TrackBlock(block, S)
MCLevelValue(level) == level
MCActive(d, S) == ResetActive(d, S)
MCFit(v) == MaskValue(v, Bit)

TheDesigns ==
  { CompileModule(ir) : ir \in { CounterIR, ChainIR, BothEdgesIR, TwoClocksIR, GearsIR, AsyncIR,
                                 FinishSeqIR, InitialIR, MemoryIR, CombIR } }
=============================================================================
