------------------------------- MODULE Program -------------------------------
(***************************************************************************)
(* The program as it runs with no INT3 in it but its own: an instruction   *)
(* is executed from its start and leads where the code says, and an INT3   *)
(* the program contains raises its exception before the thread goes on.    *)
(***************************************************************************)
CONSTANTS Thread, Flow, OwnInt3, Entry

VARIABLES
  pc,        \* the instruction each thread is at
  trapped    \* the threads that have run the INT3 they are at

Init == pc = [t \in Thread |-> Entry] /\ trapped = {}

Trap(t) ==
  /\ pc[t] \in OwnInt3 /\ t \notin trapped
  /\ trapped' = trapped \cup {t}
  /\ UNCHANGED pc

Run(t) ==
  /\ pc[t] \in OwnInt3 <=> t \in trapped
  /\ \E next \in Flow[pc[t]] : pc' = [pc EXCEPT ![t] = next]
  /\ trapped' = trapped \ {t}

Next == \E t \in Thread : Trap(t) \/ Run(t)

Spec == Init /\ [][Next]_<<pc, trapped>>
=============================================================================
