---------------------------- MODULE MCOpaqueRead ----------------------------
(* The tick engine on a memory with a read port that is not transparent. *)
EXTENDS SimEngine, MCDesigns

TheDesigns == { CompileModule(MemoryIR) }
=============================================================================
