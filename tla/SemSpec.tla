------------------------------ MODULE SemSpec ------------------------------
(***************************************************************************)
(* What a user of down and up relies on: at most Value processes are past  *)
(* down and not yet at up.                                                 *)
(***************************************************************************)
EXTENDS Integers, FiniteSets

CONSTANTS Procs, Value

VARIABLE holders     \* the processes that hold the semaphore

Init == holders = {}

Acquire(p) ==
    /\ p \notin holders
    /\ Cardinality(holders) < Value
    /\ holders' = holders \cup {p}

Release(p) ==
    /\ p \in holders
    /\ holders' = holders \ {p}

\* up with a waiter: the semaphore changes hands and is never free.
HandOver(p, q) ==
    /\ p \in holders /\ q \notin holders
    /\ holders' = (holders \ {p}) \cup {q}

Next ==
    \/ \E p \in Procs : Acquire(p) \/ Release(p)
    \/ \E p, q \in Procs : HandOver(p, q)

Spec == Init /\ [][Next]_holders
=============================================================================
