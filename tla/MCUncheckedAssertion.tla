------------------------ MODULE MCUncheckedAssertion ------------------------
(* The run loop on a design with an assertion in a combinational block. *)
EXTENDS RunLoop, MCDesigns

TheDesigns == { CompileModule(AssertionIR) }
=============================================================================
