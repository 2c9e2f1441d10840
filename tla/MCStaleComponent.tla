-------------------------- MODULE MCStaleComponent --------------------------
(* The run loop on a reset synchroniser. *)
EXTENDS RunLoop, MCDesigns

TheDesigns == { CompileModule(ResetSynchroniserIR) }
=============================================================================
