----------------------------- MODULE MCThreadLock -----------------------------
(***************************************************************************)
(* Two processes for ThreadLock: the root with its main thread, a worker   *)
(* and a thread that denies the debugger access, and a child process.      *)
(***************************************************************************)
EXTENDS ThreadLock, TLC

CONSTANTS main, worker, guarded, child, root, other

MCMain == [p \in Process |-> IF p = root THEN main ELSE child]
MCProcOf == [t \in Thread |-> IF t = child THEN other ELSE root]
=============================================================================
