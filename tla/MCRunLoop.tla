----------------------------- MODULE MCRunLoop -----------------------------
(* The run loop on the synchronous designs of MCDesigns. *)
EXTENDS RunLoopRTL, MCDesigns

\* In the other two a component reads a register with an asynchronous reset.
ASSUME MostAreQuiet ==
  \A ir \in Synchronous \ {BothEdgesIR, AsyncIR} : Quiet(CompileModule(ir))

TheDesigns == { CompileModule(ir) : ir \in Synchronous }
=============================================================================
