------------------------------ MODULE MCThreads ------------------------------
(***************************************************************************)
(* The session of MCDebugLoop with several threads is among those that the *)
(* theorems of DebugLoop_proofs about plain sessions hold of.              *)
(***************************************************************************)
EXTENDS MCDebugLoop, DebugLoop_proofs

ASSUME InScope == Plain
=============================================================================
