---------------------------- MODULE MCWatchpoints ----------------------------
(***************************************************************************)
(* Two processes, and eight bytes of memory, for Watchpoints.  What is     *)
(* watched is aligned, as the theorems of Watchpoints_proofs demand.       *)
(***************************************************************************)
EXTENDS Watchpoints_proofs

CONSTANTS main, worker, guarded, child, root, other

MCMain == [p \in Process |-> IF p = root THEN main ELSE child]
MCProcOf == [t \in Thread |-> IF t = child THEN other ELSE root]
Variable(address, size) == [address |-> address, size |-> size]
\* Three bytes at 0, and four at 4; the struct does not fit a debug register.
Aligned == {Variable(0, 3), Variable(4, 4), Variable(0, 12)}
\* A store to byte 3, and a load of bytes 4 and 5.
Accesses == {[address |-> 3, size |-> 1, write |-> TRUE],
             [address |-> 4, size |-> 2, write |-> FALSE]}

\* Bounds: three threads start in a session, and with one that refuses its registers among
\* them only the variable at 0 is watched.
ThreeStarted == Cardinality({t \in Thread : life[t] # "unborn"}) <= 3
Bounded ==
  /\ ThreeStarted
  /\ life[guarded] # "unborn" => \A i \in Slot : slots[i] # None => slots[i].address = 0

ASSUME InScope == AlignedTargets
=============================================================================
