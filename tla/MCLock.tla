------------------------------- MODULE MCLock -------------------------------
(***************************************************************************)
(* An instance of MCThreadLock that the theorems of ThreadLock_proofs hold *)
(* of: locks go to threads of the root, and access is denied from the      *)
(* start or not at all.                                                    *)
(***************************************************************************)
EXTENDS MCThreadLock, ThreadLock_proofs

ASSUME InScope == Clean
=============================================================================
