------------------------ MODULE MCParallelTestbench ------------------------
(* Three test functions and up to two cycles. *)
EXTENDS ParallelTestbench

ThreeThreads == 0 .. 2
=============================================================================
