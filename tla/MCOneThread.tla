----------------------------- MODULE MCOneThread -----------------------------
(***************************************************************************)
(* The sessions of MCDebugLoop with one thread are among those that        *)
(* OneThread_proofs is about: TLC evaluates the theorems' hypothesis.      *)
(***************************************************************************)
EXTENDS MCDebugLoop, OneThread_proofs

ASSUME InScope == Sequential
=============================================================================
