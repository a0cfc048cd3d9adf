-------------------------------- MODULE Freeze --------------------------------
(***************************************************************************)
(* What `lock' and `unlock' promise (docs, F-TH-03 to F-TH-06): one thread *)
(* owns the lock, threads are stopped only on its behalf and never the     *)
(* owner itself, newcomers run, and when the owner is gone everyone runs.  *)
(***************************************************************************)
EXTENDS Naturals

CONSTANTS Thread, None

VARIABLES known, owner, stopped

Init == known = {} /\ owner = None /\ stopped = {}

\* A new thread is not stopped, lock or no lock.
Arrive(t) ==
  /\ known' = known \cup {t}
  /\ UNCHANGED <<owner, stopped>>

\* Threads end; the lock ends with its owner.
Depart(ts) ==
  /\ known' = known \ ts
  /\ IF owner \in ts THEN owner' = None /\ stopped' = {}
                     ELSE owner' = owner /\ stopped' = stopped \ ts

\* The lock is taken: some of the others stop, each that lets itself be.
Take(t) ==
  /\ owner = None /\ t \in known
  /\ owner' = t
  /\ stopped' \in SUBSET (known \ {t})
  /\ UNCHANGED known

\* The lock moves: its new owner runs and the old one may stop.
Move(t) ==
  /\ owner # None /\ t \in known \ {owner}
  /\ owner' = t
  /\ stopped' \in {stopped \ {t}, (stopped \cup {owner}) \ {t}}
  /\ UNCHANGED known

Release ==
  /\ owner' = None /\ stopped' = {}
  /\ UNCHANGED known

\* The session ends and takes every thread with it.
Reset == known' = {} /\ owner' = None /\ stopped' = {}

Next ==
  \/ \E t \in Thread : Arrive(t) \/ Take(t) \/ Move(t)
  \/ \E ts \in SUBSET Thread : Depart(ts)
  \/ Release \/ Reset

Spec == Init /\ [][Next]_<<known, owner, stopped>>
=============================================================================
